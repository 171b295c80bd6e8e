------------------------------- MODULE AlertFeed -------------------------------
(***************************************************************************)
(* What the alerters and the digest have in common: the channels their     *)
(* messages go to, the feed of the costdeck-alerts ConfigMap that the      *)
(* budget and the risk alerter both write, and, as history, what every     *)
(* channel was told.  A message is known by its key: what the sender       *)
(* stores in order not to send it again.                                   *)
(***************************************************************************)
EXTENDS OperatorClock, Notifications

CONSTANTS AlertChannels,    \* the notification channels of the deployment
          MaxAlertEvents    \* how many events the feed keeps

VARIABLES feed,       \* events.json of costdeck-alerts, newest first
          sent,       \* history: which channel took which message, when and as its how-manieth
          forgotten   \* history: the keys of messages whose sending was not stored

feedVars == <<feed, sent, forgotten>>

ASSUME FeedAssumption == IsFiniteSet(DOMAIN AlertChannels) /\ MaxAlertEvents \in Nat

FeedInit == feed = <<>> /\ sent = {} /\ forgotten = {}

\* Mutant: the events are written without those another alerter added.
FedAlone(events, fresh) == fresh

\* AppendAlertEvents, and the same lines of Alerter.fire: the fresh events go in front
\* of what the ConfigMap holds by now; a conflicting update reads it again.
Fed(events, fresh) ==
    SubSeq(fresh \o events, 1,
           IF Len(fresh) + Len(events) < MaxAlertEvents THEN Len(fresh) + Len(events)
           ELSE MaxAlertEvents)

\* Somebody is told key at time at: the outcome of Post while the channels in up
\* answer.  Channels that are down are a fault.
Told(key, at, post) ==
    sent \cup {[key |-> key, to |-> c, at |-> at, no |-> Cardinality({m \in sent : m.to = c})]
                  : c \in post.delivered}

\* The moments of what is marked now, and those that were there.
Marked(map, keys, at) == [k \in keys \cup DOMAIN map |-> IF k \in keys THEN at ELSE map[k]]

Answering(up) == IF up = DOMAIN AlertChannels THEN NoFault ELSE Fault
=============================================================================
