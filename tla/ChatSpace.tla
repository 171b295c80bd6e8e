------------------------------ MODULE ChatSpace ------------------------------
(***************************************************************************)
(* The Webex bot (internal/webex, internal/api/webex_handlers.go): one     *)
(* replica, the leader, polls the spaces for messages, or, where a webhook *)
(* secret is stored, Webex delivers each message to any replica and may    *)
(* deliver it again.  A command of the configured space changes the        *)
(* schedule like every other edit, and a goroutine then watches the object *)
(* to report in the command's thread.                                      *)
(*                                                                         *)
(* A message is known by its place in the order Webex created them.        *)
(***************************************************************************)
EXTENDS ScheduleEdits

CONSTANTS Rooms,           \* the rooms the bot is in
          NoRoom,          \* no space configured
          Configs,         \* the Webex settings admins save
          Messages,        \* what people write to the bot, and where
          Replicas,        \* the replicas of the operator, each a Bot for its webhooks
          Poller,          \* the Bot of the polling leader
          Page,            \* messages Messages returns (20)
          RoomsKept,       \* ticks the list of rooms is kept
          DeliveryWindow,  \* deliveryWindow
          DeliveriesKept,  \* deliveriesKept
          MonitorTimeout   \* ticks a command is followed

VARIABLES space,   \* the Webex settings
          posts,   \* the messages, in the order they were created
          leader,  \* the replica that polls
          poller,  \* what the poller keeps between rounds
          heard,   \* replica -> recentDeliveries: message -> when it was delivered
          bot,     \* bot -> the message it is at
          watch,   \* the monitors at work
          ran,     \* bot -> what it executed: message -> when, each time
          sent,    \* messages Webex has delivered
          told,    \* commands reported done or late
          dropped  \* commands whose monitor stopped with its replica or could not read

chatVars == <<space, posts, leader, poller, heard, bot, watch, ran, sent, told, dropped>>

ASSUME ChatAssumption ==
    /\ Bots = Replicas \cup {Poller} /\ Poller \notin Replicas
    /\ NoRoom \notin Rooms /\ DeliveryWindow \in Nat
    /\ \A c \in Configs : c.room \in Rooms \cup {NoRoom}
    /\ \A m \in Messages : m.room \in Rooms /\ m.cmd.kind \in {"chat", "read"}
    /\ \A m \in Messages : m.cmd.kind = "chat" => WellAsked(m.cmd)

Standing == [on |-> FALSE, rooms |-> {}, at |-> None, seen |-> [r \in Rooms |-> None],
             left |-> {}, queue |-> {}, use |-> CHOOSE c \in Configs : TRUE]
IdleBot == [pc |-> "idle"]
Ids == DOMAIN posts

ChatInit ==
    /\ space \in Configs
    /\ posts = <<>> /\ ran = [b \in Bots |-> <<>>]
    /\ leader = CHOOSE r \in Replicas : TRUE
    /\ poller = Standing
    /\ heard = [r \in Replicas |-> <<>>]
    /\ bot = [b \in Bots |-> IdleBot]
    /\ watch = {} /\ sent = {} /\ told = {} /\ dropped = {}

-----------------------------------------------------------------------------
\* Somebody writes a message that mentions the bot.
Post(m) ==
    /\ Change
    /\ posts' = Append(posts, m)
    /\ UNCHANGED <<editVars, space, leader, poller, heard, bot, watch, ran, sent, told, dropped>>

\* applyWebexSettings: an admin saves other settings.
Configure(c) ==
    /\ c # space /\ Change
    /\ space' = c
    /\ UNCHANGED <<editVars, posts, leader, poller, heard, bot, watch, ran, sent, told, dropped>>

\* Poll, up to the first room: it stands down without a token or with a webhook secret,
\* starts afresh after that, and lists its rooms again when the list is old.
Poll ==
    /\ poller.left = {} /\ poller.queue = {} /\ bot[Poller].pc = "idle"
    /\ IF ~space.token \/ space.secret
       THEN poller' = Standing /\ poller.on /\ NoFault
       ELSE LET kept == IF poller.on THEN poller ELSE Standing
                old == kept.rooms = {} \/ now - kept.at >= RoomsKept
                rooms == IF ~old THEN kept.rooms ELSE IF space.room = NoRoom THEN Rooms ELSE {space.room}
            IN \/ /\ NoFault
                  /\ poller' = [kept EXCEPT !.on = TRUE, !.rooms = rooms, !.at = IF old THEN now ELSE @,
                                            !.left = rooms, !.use = space]
               \/ Fault /\ poller' = [kept EXCEPT !.on = TRUE]
    /\ UNCHANGED <<editVars, space, posts, leader, heard, bot, watch, ran, sent, told, dropped>>

\* fresh: the messages after the last one seen, of the newest Page in the room; the first
\* round in a room only notes where it stands.
InRoom(r) == {i \in Ids : posts[i].room = r}
Newest(s) == {i \in s : Cardinality({j \in s : j > i}) < Page}
\* Mutant: the first round answers what is there.
FreshFromStart(r, seen) ==
    LET new == {i \in Newest(InRoom(r)) : i > seen}
    IN [queue |-> new, seen |-> IF new = {} THEN seen ELSE Max(new)]
fresh(r, seen) ==
    IF seen = None THEN [queue |-> {}, seen |-> Len(posts)]
    ELSE LET new == {i \in Newest(InRoom(r)) : i > seen}
         IN [queue |-> new, seen |-> IF new = {} THEN seen ELSE Max(new)]

\* A room's messages are listed, and marked as seen before any is answered.
Fetch(r) ==
    /\ r \in poller.left /\ poller.queue = {} /\ bot[Poller].pc = "idle"
    /\ \/ NoFault /\ poller' = [poller EXCEPT !.left = @ \ {r}, !.seen[r] = fresh(r, @).seen,
                                              !.queue = fresh(r, poller.seen[r]).queue]
       \/ Fault /\ poller' = [poller EXCEPT !.left = @ \ {r}]
    /\ UNCHANGED <<editVars, space, posts, leader, heard, bot, watch, ran, sent, told, dropped>>

Hand(b, i, use) == [bot EXCEPT ![b] = [pc |-> "message", id |-> i, use |-> use]]
Times(b, i) == IF i \in DOMAIN ran[b] THEN ran[b][i] ELSE <<>>
\* Of what bot b executed, the messages kept count from then on, and i.
Ran(b, i, kept) ==
    ran' = [ran EXCEPT ![b] = [j \in kept \cup {i} |-> IF j = i THEN Append(Times(b, i), now) ELSE ran[b][j]]]

\* The next message of the round, the oldest of those that were listed, goes to the bot.
Take ==
    /\ bot[Poller].pc = "idle" /\ NoFault
    /\ \E i \in poller.queue :
           /\ \A j \in poller.queue : i <= j
           /\ bot' = Hand(Poller, i, poller.use)
           /\ poller' = [poller EXCEPT !.queue = @ \ {i}]
           /\ Ran(Poller, i, DOMAIN ran[Poller])
    /\ UNCHANGED <<editVars, space, posts, leader, heard, watch, sent, told, dropped>>

\* recentDeliveries.first: not delivered here within the window.
first(r, i) == i \in DOMAIN heard[r] => now - heard[r][i] >= DeliveryWindow

\* What the replica remembers then: at the limit, old deliveries go, and then any.
Remembered(r, i) ==
    LET held == DOMAIN heard[r]
        young == {j \in held : now - heard[r][j] < DeliveryWindow}
        keeps == IF Cardinality(held) < DeliveriesKept THEN {held}
                 ELSE IF Cardinality(young) < DeliveriesKept THEN {young}
                 ELSE {young \ {j} : j \in young}
    IN {[j \in keep \cup {i} |-> IF j = i THEN now ELSE heard[r][j]] : keep \in keeps}

\* handleWebexWebhook: Webex delivers a message to a replica, again or for the first
\* time.  It is acknowledged at once, and answered afterwards with the settings read here.
Deliver(r, i) ==
    /\ bot[r].pc = "idle" /\ space.secret
    /\ space.room # NoRoom => posts[i].room = space.room
    /\ IF i \in sent THEN Fault ELSE NoFault
    /\ first(r, i)
    /\ heard' \in {[heard EXCEPT ![r] = h] : h \in Remembered(r, i)}
    /\ bot' = Hand(r, i, space)
    /\ Ran(r, i, DOMAIN ran[r] \cap DOMAIN heard'[r])
    /\ sent' = sent \cup {i}
    /\ UNCHANGED <<editVars, space, posts, leader, poller, watch, told, dropped>>

\* parse: what names another cluster is for that one; the bot ignores itself.
Ours(m) == m.cmd.to = "us"
\* refuseChange: only what was written in the configured space changes anything.
refuseChange(m, use) == use.room = NoRoom \/ m.room # use.room

\* helpText, overview, status: what is answered without changing anything.
ReadOnly(m) == m.cmd.kind = "read"
\* findGroup, findConfig.
Found == obj.there
\* execute: the commands that go on to change the schedule.
Accepted(m, use) == Ours(m) /\ ~ReadOnly(m) /\ ~refuseChange(m, use) /\ Found

\* ProcessMessage up to the change.  A webhook brings only the message's name, and the
\* message may not be had; everything else is answered, or passed over, without a change.
ProcessMessage(b) ==
    /\ bot[b].pc = "message"
    /\ LET m == posts[bot[b].id]
       IN \/ /\ b # Poller /\ IF bot[b].use.token THEN Fault ELSE NoFault
             /\ bot' = [bot EXCEPT ![b] = IdleBot]
             /\ UNCHANGED edits
          \/ /\ ~Accepted(m, bot[b].use) /\ NoFault
             /\ bot' = [bot EXCEPT ![b] = IdleBot]
             /\ UNCHANGED edits
          \/ /\ bot[b].use.token /\ Accepted(m, bot[b].use) /\ NoFault
             /\ bot' = [bot EXCEPT ![b].pc = "edit"]
             /\ Begin(b, [kind |-> "chat", active |-> m.cmd.active, until |-> m.cmd.until])
    /\ UNCHANGED <<obj, calendars, space, posts, leader, poller, heard, watch, ran, sent, told, dropped>>

\* scale starts the monitor before the reply is sent, which may fail.
Reply(b) ==
    /\ bot[b].pc = "edit" /\ edits[b].pc = "done" /\ NoFault
    /\ watch' = watch \cup
           IF edits[b].result # "ok" \/ edits[b].ask.active = "none" THEN {}
           ELSE {[id |-> bot[b].id, by |-> b, want |-> edits[b].ask.active, until |-> now + MonitorTimeout]}
    /\ bot' = [bot EXCEPT ![b] = IdleBot]
    /\ edits' = [edits EXCEPT ![b] = IdleEdit]
    /\ UNCHANGED <<obj, calendars, space, posts, leader, poller, heard, ran, sent, told, dropped>>

\* The end of the clock stands for any later time.
\* Mutant: the monitor waits for the state for ever.
NeverLate(w) == FALSE
TimedOut(w) == now >= w.until \/ now = MaxTime

\* monitor: one look at the object, or the timeout.
Monitor(w) ==
    /\ w \in watch
    /\ \/ TimedOut(w) /\ NoFault /\ told' = told \cup {w.id} /\ UNCHANGED dropped
       \/ Fault /\ dropped' = dropped \cup {w.id} /\ UNCHANGED told
       \/ ~obj.there /\ NoFault /\ UNCHANGED <<told, dropped>>
       \/ obj.there /\ obj.active # w.want /\ NoFault /\ UNCHANGED <<told, dropped>>
       \/ obj.there /\ obj.active = w.want /\ obj.phase = w.want /\ NoFault
              /\ told' = told \cup {w.id} /\ UNCHANGED dropped
    /\ watch' = watch \ {w}
    /\ UNCHANGED <<editVars, space, posts, leader, poller, heard, bot, ran, sent>>

\* A replica stops and starts again: what it had in memory is gone, its webhooks, its
\* monitors and, if it was the leader, the poller's round; a replica becomes leader.
Restart(r) ==
    /\ Fault
    /\ LET gone == {r} \cup IF r = leader THEN {Poller} ELSE {}
       IN /\ heard' = [heard EXCEPT ![r] = <<>>]
          /\ bot' = [b \in Bots |-> IF b \in gone THEN IdleBot ELSE bot[b]]
          /\ edits' = [e \in Editors |-> IF e \in gone THEN IdleEdit ELSE edits[e]]
          /\ watch' = {w \in watch : w.by \notin gone}
          /\ dropped' = dropped \cup {w.id : w \in watch \ watch'}
          /\ ran' = [ran EXCEPT ![r] = <<>>]
    /\ IF r = leader THEN poller' = Standing /\ leader' \in Replicas ELSE UNCHANGED <<poller, leader>>
    /\ UNCHANGED <<obj, calendars, space, posts, sent, told>>

ChatNext(says, spaces) ==
    \/ \E m \in says : Post(m)
    \/ \E c \in spaces : Configure(c)
    \/ Poll \/ Take
    \/ \E r \in Rooms : Fetch(r)
    \/ \E r \in Replicas : Restart(r) \/ \E i \in Ids : Deliver(r, i)
    \/ \E b \in Bots : ProcessMessage(b) \/ Reply(b)
    \/ \E w \in watch : Monitor(w)

-----------------------------------------------------------------------------
\* No message is executed twice: not by the poller, whatever leader polls and however
\* often the integration is switched, as it never replays what was there before; and not
\* by one replica that Webex delivers it to again within the window, as long as it runs
\* and remembers it (Poller.fresh, recentDeliveries.first).
AnsweredOnce ==
    /\ \A i \in DOMAIN ran[Poller] : Len(ran[Poller][i]) = 1
    /\ \A r \in Replicas : \A i \in DOMAIN ran[r] : \A m, n \in DOMAIN ran[r][i] :
           m < n => ran[r][i][n] - ran[r][i][m] >= DeliveryWindow

\* "Only members of that space can scale": a command changes the schedule only from the
\* space that was configured when its message was taken up, also while the poller still
\* reads the rooms of older settings (refuseChange).
OnlyFromTheSpace ==
    \A b \in Bots : bot[b].pc = "message" /\ bot'[b].pc = "edit" => posts[bot[b].id].room = bot[b].use.room

\* What a command wants the schedule to be.
Wanted(i) == IF i \in Ids /\ posts[i].cmd.kind = "chat" THEN posts[i].cmd.active ELSE "none"

\* A command that was accepted is reported, done or late, unless the override is replaced
\* or removed, the replica stops, or a look at the object fails (monitor).
Reported ==
    \A i \in 1..MaxChanges :
        (\E w \in watch : w.id = i)
            ~> (i \in told \cup dropped \/ ~obj.there \/ obj.active # Wanted(i))
=============================================================================
