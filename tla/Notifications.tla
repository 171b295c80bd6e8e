----------------------------- MODULE Notifications -----------------------------
(***************************************************************************)
(* internal/notify and internal/webex/notifier.go: one message to every    *)
(* channel that wants its event.  Every job of the leader sends messages;  *)
(* what matters to it is which channels took one and whether Send reports  *)
(* an error.  A channel is what CostDeckConfig says of it: on or off, the  *)
(* events it is limited to, and what it needs to deliver.                  *)
(***************************************************************************)
EXTENDS FiniteSets

Events == {"schedules", "alerts", "digests"}

\* Wants: no limit takes every event.
Wants(channel, event) == channel.events = {} \/ event \in channel.events

\* webexWants: Webex knows no limits; scaling changes need notifyTransitions.
webexWants(channel, event) ==
    channel.enabled /\ (event # "schedules" \/ channel.transitions)

\* Notifier.Post and ErrNoSpace: without a space Webex counts as not being there.
WebexTakes(channel, up) == channel.token /\ up

\* SendSlack, SendTeams and postJSON: the Secret holds a URL CheckWebhook accepts,
\* and the endpoint answers with a 2xx.
HookTakes(channel, up) == channel.secret /\ up

\* SendMail: a server, a sender and a recipient; a password only over TLS and only
\* when its Secret is there; and a server that takes the message.
MailTakes(channel, up) ==
    /\ channel.addressed
    /\ channel.user => channel.secret /\ channel.security # "none"
    /\ up

Tried(cfg, event) ==
    {c \in DOMAIN cfg :
        IF c = "Webex" THEN webexWants(cfg[c], event) /\ cfg[c].space
        ELSE cfg[c].enabled /\ Wants(cfg[c], event)}

Takes(c, channel, up) ==
    CASE c = "Webex" -> WebexTakes(channel, up)
      [] c = "email" -> MailTakes(channel, up)
      [] OTHER       -> HookTakes(channel, up)

\* Mutant: one channel that fails makes the caller send everything again.
SendAllOrNothing(cfg, event, up) ==
    LET took(tried) == {c \in tried : Takes(c, cfg[c], c \in up)}
        outcome(tried, delivered) == [delivered |-> delivered, err |-> delivered # tried]
    IN outcome(Tried(cfg, event), took(Tried(cfg, event)))

\* Dispatcher.Send while the channels in up answer: who took the message, and
\* whether the caller gets an error: only when somebody failed and nobody took it.
Send(cfg, event, up) ==
    LET took(tried) == {c \in tried : Takes(c, cfg[c], c \in up)}
        outcome(tried, delivered) ==
            [delivered |-> delivered, err |-> delivered = {} /\ tried # {}]
    IN outcome(Tried(cfg, event), took(Tried(cfg, event)))

\* Poster.Post: as Send, but a message that no channel wants is ErrNoDestination.
Post(cfg, event, up) ==
    LET posted(sent) == [delivered |-> sent.delivered, err |-> sent.err,
                         nowhere |-> ~sent.err /\ sent.delivered = {}]
    IN posted(Send(cfg, event, up))
=============================================================================
