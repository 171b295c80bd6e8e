------------------------- MODULE ChangeRequestsProofs -------------------------
(***************************************************************************)
(* Theorems about ChangeRequests for any number of people, replicas,       *)
(* messages and admins, however their reads, writes and retries interleave *)
(* with each other, with restarts and with the passing of time.            *)
(***************************************************************************)
EXTENDS ChangeRequests, FiniteSetTheorems, WellFoundedInduction, TLAPS

-----------------------------------------------------------------------------
(* The clock, and least elements.                                           *)

\* A step takes no time, and loses a fault at most.
InNoTime == now' = now /\ (faults' = faults \/ (faults > 0 /\ faults' = faults - 1))

LEMMA TimePasses ==
    [Next]_vars => InNoTime \/ (now < MaxTime /\ now' = now + 1 /\ faults' = faults)
<1> SUFFICES ASSUME [Next]_vars
             PROVE  InNoTime \/ (now < MaxTime /\ now' = now + 1 /\ faults' = faults)
  OBVIOUS
<1> DEFINE Timeless == NoFault \/ Fault \/ Change
<1>0. Timeless => InNoTime
  <2>1. NoFault \/ Change => now' = now /\ faults' = faults
    BY DEF NoFault, Change, clockVars
  <2>2. Fault => now' = now /\ faults > 0 /\ faults' = faults - 1
    BY DEF Fault
  <2> QED BY <2>1, <2>2 DEF InNoTime
<1>1. ASSUME NEW P, PeopleNext(P) PROVE Timeless
  BY <1>1 DEF PeopleNext, OpenEditor, Answered, SendForm, Ask, DeleteSchedule, CreateSchedule,
              DropCalendar
<1>2. ASSUME EditNext \/ Settle PROVE Timeless
  BY <1>2 DEF EditNext, Get, Put, Settle
<1>3. ASSUME NEW M, NEW C, ChatNext(M, C) PROVE Timeless
  <2>1. ASSUME NEW r \in Replicas, Restart(r) \/ \E i \in Ids : Deliver(r, i) PROVE Timeless
    BY <2>1 DEF Restart, Deliver
  <2>2. ASSUME NEW b \in Bots, ProcessMessage(b) \/ Reply(b) PROVE Timeless
    BY <2>2 DEF ProcessMessage, Reply
  <2>3. ASSUME NEW w \in watch, Monitor(w) PROVE Timeless
    BY <2>3 DEF Monitor
  <2>4. ASSUME Poll PROVE Timeless
    BY <2>4 DEF Poll
  <2>5. ASSUME Take PROVE Timeless
    BY <2>5 DEF Take
  <2>6. ASSUME NEW r \in Rooms, Fetch(r) PROVE Timeless
    <3>1. Fault \/ NoFault
      BY <2>6 DEF Fetch
    <3> QED BY <3>1
  <2> QED BY <1>3, <2>1, <2>2, <2>3, <2>4, <2>5, <2>6 DEF ChatNext, Post, Configure
<1>4. ASSUME AssistantNext PROVE Timeless
  <2>1. ASSUME NEW p, AskAssistant(p) PROVE Timeless
    BY <2>1 DEF AskAssistant
  <2>2. ASSUME NEW p, Step(p) PROVE Timeless
    <3>1. Fault \/ NoFault
      BY <2>2 DEF Step
    <3> QED BY <3>1
  <2>3. ASSUME NEW p, RecordGet(p) PROVE Timeless
    BY <2>3 DEF RecordGet
  <2>4. ASSUME NEW p, RecordPut(p) PROVE Timeless
    BY <2>4 DEF RecordPut
  <2>5. ASSUME NEW p, NEW a, Confirm(p, a) \/ CallTool(p, a) PROVE Timeless
    BY <2>5 DEF Confirm, CallTool, executeMutatingTool, Ask
  <2>6. ASSUME NEW p, NEW r, SetRole(p, r) \/ SetBudget(r) PROVE Timeless
    BY <2>6 DEF SetRole, SetBudget
  <2> QED BY <1>4, <2>1, <2>2, <2>3, <2>4, <2>5, <2>6 DEF AssistantNext
<1>5. ASSUME SaveNext PROVE Timeless
  BY <1>5 DEF SaveNext, Send, ApplySections, WriteSecret, UpdateConfig, Refused, WriteStatus
<1> QED BY <1>0, <1>1, <1>2, <1>3, <1>4, <1>5 DEF Next, Tick, vars, clockVars, InNoTime

-----------------------------------------------------------------------------
(* What a request makes of an object.                                       *)

ObjFields == {"there", "version", "schedule", "exceptions", "calendars", "active", "until",
              "legacy", "phase"}

IsObj(o) ==
    /\ o = [f \in ObjFields |-> o[f]]
    /\ o.version \in Nat /\ o.schedule \in SUBSET Nat

AskShape(a) ==
    /\ a.kind \in Holds \cup {"add", "remove", "save"}
    /\ a.kind \in Holds => a.until \in {NextTransition, Forever, Unsaid} \cup (Nat \ {0})
    /\ a.kind = "save" => a.form.schedule \in SUBSET Nat

LEMMA EditedIsObj ==
    ASSUME NEW a, AskShape(a), NEW o, IsObj(o), NEW shared, NEW t
    PROVE  IsObj(Edited(a, o, shared, t).obj) /\ Edited(a, o, shared, t).obj.version = o.version
<1>1. CASE a.kind = "save"
  <2>1. Edited(a, o, shared, t).obj = WithForm(o, a.form)
    BY <1>1 DEF Edited
  <2>2. IsObj(WithForm(o, a.form)) /\ WithForm(o, a.form).version = o.version
    BY <1>1 DEF WithForm, IsObj, ObjFields, AskShape
  <2> QED BY <2>1, <2>2
<1>2. CASE a.kind \in {"add", "remove"}
  <2>1. PICK x : Edited(a, o, shared, t).obj = [o EXCEPT !.exceptions = x]
    BY <1>2 DEF Edited
  <2> QED BY <2>1 DEF IsObj, ObjFields
<1>3. CASE a.kind \in Holds
  <2>1. Edited(a, o, shared, t).obj = WithOverride(o, Override(a, o, shared, t))
    BY <1>3 DEF Edited, Holds
  <2>2. \A r : IsObj(WithOverride(o, r)) /\ WithOverride(o, r).version = o.version
    BY DEF WithOverride, IsObj, ObjFields
  <2> QED BY <2>1, <2>2
<1> QED BY <1>1, <1>2, <1>3 DEF AskShape

-----------------------------------------------------------------------------
(* Requests and the object they are about.                                  *)

\* What request a brings, of the object o it read at time t.
Comes(a, o, shared, t, new) ==
    Edited(a, o, shared, t).ok /\ new = Edited(a, o, shared, t).obj

\* The messages are what people may write, and what waits to be answered is among them.
PostInv ==
    /\ plan \in Plans /\ posts \in Seq(Messages)
    /\ "queue" \in DOMAIN poller /\ poller.queue \in SUBSET Ids
    /\ bot = [b \in Bots |-> bot[b]]
    /\ \A b \in Bots : bot[b].pc = "message" => bot[b].id \in Ids

ObjInv ==
    /\ now \in Nat /\ IsObj(obj)
    /\ calendars \in SUBSET DOMAIN CalendarDays
    /\ edits = [e \in Editors |-> edits[e]]

\* A request under way is a proper one, from some time on.
Underway(e) ==
    /\ edits[e].pc = "form" =>
         "schedule" \in DOMAIN edits[e].form /\ edits[e].form.schedule \in SUBSET Nat
    /\ edits[e].pc \in {"get", "put"} =>
         /\ edits[e].began \in Nat /\ edits[e].began <= now
         /\ AskShape(edits[e].ask)

\* What it brings it made of the object as it is, unless that has been written since.
Brings(e) ==
    edits[e].pc = "put" =>
        /\ IsObj(edits[e].new)
        /\ edits[e].new.version <= obj.version
        /\ obj.there /\ edits[e].new.version = obj.version =>
             \E shared \in SUBSET DOMAIN CalendarDays : \E t \in edits[e].began..now :
                 Comes(edits[e].ask, obj, shared, t, edits[e].new)

EditInv ==
    /\ PostInv /\ ObjInv
    /\ \A e \in Editors : Underway(e) /\ Brings(e)

LEMMA EditsBegin == Init => EditInv
<1> SUFFICES ASSUME Init PROVE EditInv
  OBVIOUS
<1>1. now = 0 /\ plan \in Plans /\ EditInit /\ ChatInit
  BY DEF Init
<1>2. PostInv
  BY <1>1 DEF ChatInit, PostInv, Standing, IdleBot, Ids
<1>3. PICK s \in Schedules, l \in {"none", "down"} :
        obj = [there |-> TRUE, version |-> 0, schedule |-> s, exceptions |-> <<>>, calendars |-> {},
               active |-> "none", until |-> None, legacy |-> l, phase |-> "up"]
  BY <1>1 DEF EditInit
<1>4. s \in SUBSET Nat
  BY <1>3, EditAssumption
<1>5. IsObj(obj)
  BY <1>3, <1>4 DEF IsObj, ObjFields
<1>6. ObjInv /\ \A e \in Editors : edits[e].pc = "idle"
  BY <1>1, <1>5 DEF ObjInv, EditInit, IdleEdit
<1> QED BY <1>2, <1>6 DEF EditInv, Underway, Brings

\* The object only changes with its version, except that it goes.
LEMMA ObjMoves ==
    ASSUME EditInv, [Next]_vars
    PROVE  /\ IsObj(obj)' /\ calendars' \in SUBSET DOMAIN CalendarDays
           /\ \/ obj' = obj
              \/ obj'.version > obj.version
              \/ obj'.version = obj.version /\ ~obj'.there
<1> DEFINE Moves == /\ IsObj(obj)' /\ calendars' \in SUBSET DOMAIN CalendarDays
                    /\ \/ obj' = obj
                       \/ obj'.version > obj.version
                       \/ obj'.version = obj.version /\ ~obj'.there
<1>0. IsObj(obj) /\ calendars \in SUBSET DOMAIN CalendarDays
  BY DEF EditInv, ObjInv
<1>1. ASSUME UNCHANGED <<obj, calendars>> PROVE Moves
  BY <1>0, <1>1 DEF IsObj
<1>2. ASSUME NEW n, IsObj(n), obj' = Stored(n), calendars' = calendars PROVE Moves
  <2>1. IsObj(Stored(n)) /\ Stored(n).version = obj.version + 1
    <3>1. PICK m : m = [n EXCEPT !.version = obj.version + 1, !.phase = obj.phase]
      OBVIOUS
    <3>2. /\ m = [f \in ObjFields |-> m[f]]
          /\ m.version = obj.version + 1 /\ m.schedule = n.schedule
      BY <1>2, <3>1 DEF IsObj, ObjFields
    <3>3. IsObj(m)
      BY <1>0, <1>2, <3>2 DEF IsObj
    <3> QED BY <3>1, <3>2, <3>3 DEF Stored
  <2>2. IsObj(obj') /\ obj'.version = obj.version + 1
    BY <1>2, <2>1
  <2>3. IsObj(obj)'
    BY <2>2 DEF IsObj
  <2> QED BY <1>0, <1>2, <2>2, <2>3 DEF IsObj
<1>3. ASSUME NEW e \in Editors, Put(e) PROVE Moves
  <2>1. IsObj(edits[e].new)
    BY <1>3 DEF Put, EditInv, Brings
  <2> QED BY <1>1, <1>2, <1>3, <2>1 DEF Put
<1>4. ASSUME NEW P, PeopleNext(P) PROVE Moves
  <2>1. CASE DeleteSchedule
    <3>1. obj' = [obj EXCEPT !.there = FALSE] /\ calendars' = calendars
      BY <2>1 DEF DeleteSchedule
    <3>2. /\ obj' = [f \in ObjFields |-> obj'[f]] /\ ~obj'.there
          /\ obj'.version = obj.version /\ obj'.schedule = obj.schedule
      BY <1>0, <3>1 DEF IsObj, ObjFields
    <3> QED BY <1>0, <3>1, <3>2 DEF IsObj
  <2>2. ASSUME NEW s \in Schedules, CreateSchedule(s) PROVE Moves
    <3>1. s \in SUBSET Nat
      BY EditAssumption
    <3>2. /\ obj' = [there |-> TRUE, version |-> obj.version + 1, schedule |-> s,
                     exceptions |-> <<>>, calendars |-> {}, active |-> "none", until |-> None,
                     legacy |-> "none", phase |-> "up"]
          /\ calendars' = calendars
      BY <2>2 DEF CreateSchedule
    <3>3. /\ obj' = [f \in ObjFields |-> obj'[f]]
          /\ obj'.version = obj.version + 1 /\ obj'.schedule = s
      BY <3>2 DEF ObjFields
    <3> QED BY <1>0, <3>1, <3>2, <3>3 DEF IsObj
  <2>3. CASE DropCalendar
    <3>1. obj' = obj /\ calendars' \subseteq calendars
      BY <2>3 DEF DropCalendar
    <3> QED BY <1>0, <3>1 DEF IsObj
  <2> QED
    BY <1>1, <1>4, <2>1, <2>2, <2>3 DEF PeopleNext, OpenEditor, Answered, SendForm, Ask
<1>5. ASSUME EditNext PROVE Moves
  BY <1>1, <1>3, <1>5 DEF EditNext, Get
<1>6. ASSUME Settle PROVE Moves
  <2>1. PICK w : obj' = [obj EXCEPT !.phase = w, !.version = @ + 1] /\ calendars' = calendars
    BY <1>6 DEF Settle
  <2>2. /\ obj' = [f \in ObjFields |-> obj'[f]]
        /\ obj'.version = obj.version + 1 /\ obj'.schedule = obj.schedule
    BY <1>0, <2>1 DEF IsObj, ObjFields
  <2>3. obj.version \in Nat /\ obj.schedule \in SUBSET Nat
    BY <1>0 DEF IsObj
  <2>4. IsObj(obj)' /\ obj'.version > obj.version
    BY <2>2, <2>3 DEF IsObj
  <2> QED BY <1>0, <2>1, <2>4
<1>7. ASSUME NEW M, NEW C, ChatNext(M, C) PROVE UNCHANGED <<obj, calendars>>
  BY <1>7 DEF ChatNext, Post, Configure, Poll, Take, Fetch, Restart, Deliver, ProcessMessage,
              Reply, Monitor, editVars
<1>8. ASSUME AssistantNext PROVE UNCHANGED <<obj, calendars>>
  BY <1>8 DEF AssistantNext, AskAssistant, Step, RecordGet, RecordPut, Confirm, CallTool,
              executeMutatingTool, Ask, SetRole, SetBudget, editVars
<1> HIDE DEF Moves
<1>9. Moves
  BY <1>1, <1>4, <1>5, <1>6, <1>7, <1>8 DEF Next, vars, editVars
<1> QED BY <1>9 DEF Moves

LEMMA PostStep ==
    ASSUME EditInv, [Next]_vars
    PROVE  PostInv'
<1>0. PostInv
  BY DEF EditInv
<1>1. ASSUME UNCHANGED <<plan, posts, poller, bot>> PROVE PostInv'
  BY <1>0, <1>1 DEF PostInv, Ids
<1>2. ASSUME UNCHANGED <<plan, posts, bot>>, "queue" \in DOMAIN poller',
             poller'.queue \in SUBSET Ids
      PROVE  PostInv'
  BY <1>0, <1>2 DEF PostInv, Ids
<1>3. ASSUME NEW b, NEW i \in Ids, NEW use, bot' = Hand(b, i, use), UNCHANGED <<plan, posts>>,
             "queue" \in DOMAIN poller', poller'.queue \in SUBSET Ids
      PROVE  PostInv'
  <2>1. bot' = [c \in Bots |-> IF c = b THEN [pc |-> "message", id |-> i, use |-> use] ELSE bot[c]]
    BY <1>0, <1>3 DEF PostInv, Hand
  <2> QED BY <1>0, <1>3, <2>1 DEF PostInv, Ids
<1>4. ASSUME NEW b \in Bots, NEW x,
             bot' = [bot EXCEPT ![b] = x], x.pc # "message",
             UNCHANGED <<plan, posts, poller>>
      PROVE  PostInv'
  <2>1. bot' = [c \in Bots |-> IF c = b THEN x ELSE bot[c]]
    BY <1>0, <1>4 DEF PostInv
  <2> QED BY <1>0, <1>4, <2>1 DEF PostInv, Ids
<1>5. ASSUME NEW m \in plan.says, Post(m), plan' = plan PROVE PostInv'
  <2>1. m \in Messages
    BY <1>0, PlanAssumption DEF PostInv
  <2>2. /\ posts' = Append(posts, m) /\ UNCHANGED <<plan, poller, bot>>
    BY <1>5 DEF Post
  <2>3. posts' \in Seq(Messages) /\ DOMAIN posts \subseteq DOMAIN posts'
    BY <1>0, <2>1, <2>2 DEF PostInv
  <2> QED BY <1>0, <2>2, <2>3 DEF PostInv, Ids
<1>6. ASSUME Poll, plan' = plan PROVE PostInv'
  <2>1. "queue" \in DOMAIN Standing /\ Standing.queue = {}
    BY DEF Standing
  <2>2. UNCHANGED <<plan, posts, bot>>
    BY <1>6 DEF Poll
  <2>3. PICK kept \in {poller, Standing} :
          \/ poller' = Standing
          \/ \E rooms, at : poller' = [kept EXCEPT !.on = TRUE, !.rooms = rooms, !.at = at,
                                                   !.left = rooms, !.use = space]
          \/ poller' = [kept EXCEPT !.on = TRUE]
    <3>1. CASE ~space.token \/ space.secret
      BY <1>6, <3>1 DEF Poll
    <3>2. CASE ~(~space.token \/ space.secret)
      <4> DEFINE kept == IF poller.on THEN poller ELSE Standing
                 old == kept.rooms = {} \/ now - kept.at >= RoomsKept
                 rooms == IF ~old THEN kept.rooms
                          ELSE IF space.room = NoRoom THEN Rooms ELSE {space.room}
      <4>1. \/ poller' = [kept EXCEPT !.on = TRUE, !.rooms = rooms, !.at = IF old THEN now ELSE kept.at,
                                      !.left = rooms, !.use = space]
            \/ poller' = [kept EXCEPT !.on = TRUE]
        BY <1>6, <3>2 DEF Poll
      <4>2. kept \in {poller, Standing}
        OBVIOUS
      <4> HIDE DEF kept, old, rooms
      <4> QED BY <4>1, <4>2
    <3> QED BY <3>1, <3>2
  <2>4. "queue" \in DOMAIN kept /\ kept.queue \in SUBSET Ids
    BY <1>0, <2>1 DEF PostInv
  <2>5. "queue" \in DOMAIN poller' /\ poller'.queue \in SUBSET Ids
    BY <2>1, <2>3, <2>4
  <2> QED BY <1>2, <2>2, <2>5
<1>7. ASSUME NEW r \in Rooms, Fetch(r), plan' = plan PROVE PostInv'
  <2>1. UNCHANGED <<plan, posts, bot>>
    BY <1>7 DEF Fetch
  <2>2. fresh(r, poller.seen[r]).queue \in SUBSET Ids
    BY DEF fresh, Newest, InRoom
  <2>3. \/ \E left, seen : poller' = [poller EXCEPT !.left = left, !.seen = seen,
                                        !.queue = fresh(r, poller.seen[r]).queue]
        \/ \E left : poller' = [poller EXCEPT !.left = left]
    BY <1>7 DEF Fetch
  <2>4. "queue" \in DOMAIN poller' /\ poller'.queue \in SUBSET Ids
    BY <1>0, <2>2, <2>3 DEF PostInv
  <2> QED BY <1>2, <2>1, <2>4
<1>8. ASSUME Take, plan' = plan PROVE PostInv'
  <2>1. PICK i \in poller.queue :
          /\ bot' = Hand(Poller, i, poller.use)
          /\ poller' = [poller EXCEPT !.queue = @ \ {i}]
    BY <1>8 DEF Take
  <2>2. posts' = posts
    BY <1>8 DEF Take
  <2>3. i \in Ids /\ "queue" \in DOMAIN poller' /\ poller'.queue \in SUBSET Ids
    BY <1>0, <2>1 DEF PostInv
  <2> QED BY <1>3, <1>8, <2>1, <2>2, <2>3
<1>9. ASSUME NEW r \in Replicas, NEW i \in Ids, Deliver(r, i), plan' = plan PROVE PostInv'
  <2>1. bot' = Hand(r, i, space) /\ UNCHANGED <<posts, poller>>
    BY <1>9 DEF Deliver
  <2> QED BY <1>0, <1>3, <1>9, <2>1 DEF PostInv
<1>10. ASSUME NEW b \in Bots, ProcessMessage(b), plan' = plan PROVE PostInv'
  <2>1. UNCHANGED <<posts, poller>>
    BY <1>10 DEF ProcessMessage
  <2>2. \/ bot' = [bot EXCEPT ![b] = IdleBot]
        \/ bot' = [bot EXCEPT ![b].pc = "edit"]
    BY <1>10 DEF ProcessMessage
  <2>3. CASE bot' = [bot EXCEPT ![b] = IdleBot]
    <3>1. IdleBot.pc # "message"
      BY DEF IdleBot
    <3> QED BY <1>4, <1>10, <2>1, <2>3, <3>1
  <2>4. CASE bot' = [bot EXCEPT ![b].pc = "edit"]
    <3>1. PICK x : x = [bot[b] EXCEPT !.pc = "edit"]
      OBVIOUS
    <3>2. bot' = [c \in Bots |-> IF c = b THEN x ELSE bot[c]]
      BY <1>0, <2>4, <3>1 DEF PostInv
    <3>3. bot[b].pc = "message" => x.id = bot[b].id
      BY <1>0, <3>1 DEF PostInv
    <3>4. bot[b].pc = "message"
      BY <1>10 DEF ProcessMessage
    <3> QED BY <1>0, <1>10, <2>1, <3>2, <3>3, <3>4 DEF PostInv, Ids
  <2> QED BY <2>2, <2>3, <2>4
<1>11. ASSUME NEW b \in Bots, Reply(b), plan' = plan PROVE PostInv'
  <2>1. bot' = [bot EXCEPT ![b] = IdleBot] /\ UNCHANGED <<posts, poller>>
    BY <1>11 DEF Reply
  <2>2. IdleBot.pc # "message"
    BY DEF IdleBot
  <2> QED BY <1>4, <1>11, <2>1, <2>2
<1>12. ASSUME NEW r \in Replicas, Restart(r), plan' = plan PROVE PostInv'
  <2>1. posts' = posts /\ (poller' = poller \/ poller' = Standing)
    BY <1>12 DEF Restart
  <2>2. PICK gone : bot' = [b \in Bots |-> IF b \in gone THEN IdleBot ELSE bot[b]]
    BY <1>12 DEF Restart
  <2>3. "queue" \in DOMAIN poller' /\ poller'.queue \in SUBSET Ids
    BY <1>0, <2>1 DEF PostInv, Standing
  <2>4. \A b \in Bots : bot'[b].pc = "message" => bot'[b].id \in Ids
    BY <1>0, <2>2 DEF PostInv, IdleBot
  <2> QED BY <1>0, <1>12, <2>1, <2>2, <2>3, <2>4 DEF PostInv, Ids
<1>13. ASSUME ChatNext(plan.says, plan.spaces), plan' = plan PROVE PostInv'
  <2>1. ASSUME NEW c, Configure(c) PROVE PostInv'
    BY <1>1, <1>13, <2>1 DEF Configure
  <2>2. ASSUME NEW w, Monitor(w) PROVE PostInv'
    BY <1>1, <1>13, <2>2 DEF Monitor
  <2> QED BY <1>5, <1>6, <1>7, <1>8, <1>9, <1>10, <1>11, <1>12, <1>13, <2>1, <2>2 DEF ChatNext
<1> QED BY <1>1, <1>13 DEF Next, vars, chatVars

LEMMA EditStep ==
    ASSUME EditInv, [Next]_vars
    PROVE  EditInv'
<1> DEFINE Rest == /\ edits' = [d \in Editors |-> edits'[d]]
                   /\ \A d \in Editors : Underway(d)' /\ Brings(d)'
<1>0. /\ now \in Nat /\ now' \in Nat /\ now <= now'
      /\ IsObj(obj) /\ IsObj(obj)' /\ calendars \in SUBSET DOMAIN CalendarDays
      /\ \/ obj' = obj
         \/ obj'.version > obj.version
         \/ obj'.version = obj.version /\ ~obj'.there
      /\ obj.version \in Nat /\ obj'.version \in Nat
  BY ObjMoves, TimePasses DEF EditInv, ObjInv, IsObj, InNoTime
<1>1. ASSUME NEW e \in Editors, edits'[e] = edits[e] PROVE Underway(e)' /\ Brings(e)'
  <2>1. Underway(e) /\ Brings(e)
    BY DEF EditInv
  <2>2. Underway(e)'
    BY <1>0, <1>1, <2>1 DEF Underway
  <2>3. ASSUME edits[e].pc = "put" PROVE Brings(e)'
    <3>1. /\ IsObj(edits[e].new) /\ edits[e].new.version \in Nat
          /\ edits[e].new.version <= obj.version
      BY <2>1, <2>3 DEF Brings, IsObj
    <3>2. IsObj(edits[e].new)'
      BY <1>1, <3>1 DEF IsObj
    <3>3. CASE obj' = obj
      <4> SUFFICES ASSUME obj.there /\ edits[e].new.version = obj.version
                   PROVE  \E shared \in SUBSET DOMAIN CalendarDays : \E t \in edits[e].began..now' :
                              Comes(edits[e].ask, obj, shared, t, edits[e].new)
        BY <1>1, <3>1, <3>2, <3>3 DEF Brings
      <4>1. PICK shared \in SUBSET DOMAIN CalendarDays :
              \E t \in edits[e].began..now : Comes(edits[e].ask, obj, shared, t, edits[e].new)
        BY <2>1, <2>3 DEF Brings
      <4>2. PICK t \in edits[e].began..now : Comes(edits[e].ask, obj, shared, t, edits[e].new)
        BY <4>1
      <4>3. t \in edits[e].began..now'
        BY <1>0, <2>1, <2>3 DEF Underway
      <4> QED BY <4>2, <4>3
    <3>4. CASE obj' # obj
      BY <1>0, <1>1, <3>1, <3>2, <3>4 DEF Brings
    <3> QED BY <3>3, <3>4
  <2> QED BY <1>1, <2>2, <2>3 DEF Brings
<1>2. ASSUME NEW e \in Editors, edits'[e].pc \in {"idle", "done"} PROVE Underway(e)' /\ Brings(e)'
  BY <1>2 DEF Underway, Brings
<1>3. ASSUME NEW e, NEW x, edits' = [edits EXCEPT ![e] = x],
             e \in Editors => Underway(e)' /\ Brings(e)'
      PROVE  Rest
  <2>1. edits' = [d \in Editors |-> IF d = e THEN x ELSE edits[d]]
    BY <1>3 DEF EditInv, ObjInv
  <2> QED BY <1>1, <1>3, <2>1
<1>4. ASSUME NEW e, NEW x, edits' = [edits EXCEPT ![e] = x], x.pc \in {"idle", "done"} PROVE Rest
  <2>1. e \in Editors => edits'[e] = x
    BY <1>4 DEF EditInv, ObjInv
  <2> QED BY <1>2, <1>3, <1>4, <2>1
<1>5. ASSUME edits' = edits PROVE Rest
  BY <1>1, <1>5 DEF EditInv, ObjInv
<1>6. ASSUME NEW e, NEW result, Answer(e, result) PROVE Rest
  BY <1>4, <1>6 DEF Answer
\* A proper request begins.
<1>7. ASSUME NEW e, NEW a, Begin(e, a), AskShape(a) PROVE Rest
  <2>1. PICK ask : ask = IF a.kind = "chat"
                         THEN [a EXCEPT !.until = DefaultHold(@, obj, calendars, now)] ELSE a
    OBVIOUS
  <2>2. AskShape(ask)
    <3>1. CASE a.kind = "chat"
      <4>1. PICK u : u = DefaultHold(a.until, obj, calendars, now) /\ ask = [a EXCEPT !.until = u]
        BY <2>1, <3>1
      <4>2. u \in {NextTransition, Forever, Unsaid} \cup (Nat \ {0})
        BY <1>7, <3>1, <4>1 DEF DefaultHold, AskShape, Holds
      <4>3. ask.kind = "chat" /\ (ask.until = u \/ ask.until = a.until)
        BY <1>7, <3>1, <4>1
      <4> QED BY <1>7, <3>1, <4>2, <4>3 DEF AskShape, Holds
    <3>2. CASE a.kind # "chat"
      BY <1>7, <2>1, <3>2
    <3> QED BY <3>1, <3>2
  <2>3. PICK x : x = [pc |-> "get", tries |-> 1, began |-> now, ask |-> ask]
    OBVIOUS
  <2>4. edits' = [edits EXCEPT ![e] = x]
    BY <1>7, <2>1, <2>3 DEF Begin
  <2>5. e \in Editors => edits'[e] = x
    BY <2>4 DEF EditInv, ObjInv
  <2>6. e \in Editors => Underway(e)' /\ Brings(e)'
    BY <1>0, <2>2, <2>3, <2>5 DEF Underway, Brings, AskShape
  <2> QED BY <1>3, <2>4, <2>6
<1>8. ASSUME NEW e, NEW a, Ask(e, a), WellAsked(a) PROVE Rest
  <2>1. AskShape(a)
    BY <1>8 DEF WellAsked, AskShape, Holds
  <2> QED BY <1>7, <1>8, <2>1 DEF Ask
<1>9. ASSUME NEW e, OpenEditor(e) PROVE Rest
  <2>1. PICK f : f = [schedule |-> obj.schedule, exceptions |-> obj.exceptions,
                      calendars |-> obj.calendars, active |-> obj.active, until |-> obj.until]
    OBVIOUS
  <2>2. "schedule" \in DOMAIN f /\ f.schedule \in SUBSET Nat
    BY <1>0, <2>1 DEF IsObj
  <2>3. PICK x : x = [pc |-> "form", form |-> f]
    OBVIOUS
  <2>4. edits' = [edits EXCEPT ![e] = x]
    BY <1>9, <2>1, <2>3 DEF OpenEditor
  <2>5. e \in Editors => edits'[e] = x
    BY <2>4 DEF EditInv, ObjInv
  <2>6. e \in Editors => Underway(e)' /\ Brings(e)'
    BY <2>2, <2>3, <2>5 DEF Underway, Brings
  <2> QED BY <1>3, <2>4, <2>6
<1>10. ASSUME NEW e, NEW s \in Schedules, NEW cs, SendForm(e, s, cs) PROVE Rest
  <2>1. PICK form : form = buildSpec(edits[e].form, s, cs)
    OBVIOUS
  <2>2. \/ Begin(e, [kind |-> "save", form |-> form])
        \/ edits' = [edits EXCEPT ![e] = IdleEdit]
    BY <1>10, <2>1 DEF SendForm
  <2>3. CASE e \in Editors
    <3>1. "schedule" \in DOMAIN edits[e].form
      BY <1>10, <2>3 DEF SendForm, EditInv, Underway
    <3>2. form.schedule = s /\ s \in SUBSET Nat
      BY <2>1, <3>1, EditAssumption DEF buildSpec
    <3>3. AskShape([kind |-> "save", form |-> form])
      BY <3>2 DEF AskShape, Holds
    <3> QED BY <1>4, <1>7, <2>2, <3>3 DEF IdleEdit
  <2>4. CASE e \notin Editors
    <3>1. edits' = edits
      BY <2>2, <2>4 DEF Begin, EditInv, ObjInv
    <3> QED BY <1>5, <3>1
  <2> QED BY <2>3, <2>4
<1>11. ASSUME NEW e \in Editors, Get(e) PROVE Rest
  <2>1. PICK shared \in {calendars, {}} :
          \/ Answer(e, "refused")
          \/ /\ Edited(edits[e].ask, obj, shared, now).ok
             /\ edits' = [edits EXCEPT ![e] =
                    [pc |-> "put", tries |-> edits[e].tries, began |-> edits[e].began,
                     ask |-> edits[e].ask, new |-> Edited(edits[e].ask, obj, shared, now).obj]]
    BY <1>11 DEF Get
  <2>2. CASE Answer(e, "refused")
    BY <1>6, <2>2
  <2>3. ASSUME Edited(edits[e].ask, obj, shared, now).ok,
               edits' = [edits EXCEPT ![e] =
                    [pc |-> "put", tries |-> edits[e].tries, began |-> edits[e].began,
                     ask |-> edits[e].ask, new |-> Edited(edits[e].ask, obj, shared, now).obj]]
        PROVE  Rest
    <3>1. PICK new : new = Edited(edits[e].ask, obj, shared, now).obj
      OBVIOUS
    <3>2. PICK x : x = [pc |-> "put", tries |-> edits[e].tries, began |-> edits[e].began,
                        ask |-> edits[e].ask, new |-> new]
      OBVIOUS
    <3>3. edits' = [edits EXCEPT ![e] = x] /\ edits'[e] = x
      BY <2>3, <3>1, <3>2 DEF EditInv, ObjInv
    <3>4. Underway(e) /\ edits[e].pc = "get"
      BY <1>11 DEF EditInv, Get
    <3>5. /\ edits[e].began \in Nat /\ edits[e].began <= now /\ AskShape(edits[e].ask)
          /\ x.pc = "put" /\ x.began = edits[e].began /\ x.ask = edits[e].ask /\ x.new = new
      BY <3>2, <3>4 DEF Underway
    <3>6. IsObj(new) /\ new.version = obj.version
      BY <1>0, <3>1, <3>5, EditedIsObj
    <3>7. Comes(edits[e].ask, obj, shared, now, new)
      BY <2>3, <3>1 DEF Comes
    <3>8. obj' = obj /\ now' = now
      BY <1>11 DEF Get, NoFault, Fault, clockVars
    <3>9. Underway(e)'
      BY <1>0, <3>3, <3>5, <3>8 DEF Underway, AskShape
    <3>10. Brings(e)'
      <4>1. shared \in SUBSET DOMAIN CalendarDays /\ now \in edits[e].began..now
        BY <1>0, <3>5
      <4>2. IsObj(x.new) /\ x.new.version <= obj.version
        BY <1>0, <3>5, <3>6
      <4>3. \E sh \in SUBSET DOMAIN CalendarDays : \E t \in x.began..now :
              Comes(x.ask, obj, sh, t, x.new)
        BY <3>5, <3>7, <4>1
      <4> QED BY <3>3, <3>8, <4>2, <4>3 DEF Brings, Comes, IsObj
    <3> QED BY <1>3, <3>3, <3>9, <3>10
  <2> QED BY <2>1, <2>2, <2>3
<1>12. ASSUME NEW e \in Editors, Put(e) PROVE Rest
  <2>1. \/ \E result : Answer(e, result)
        \/ edits' = [edits EXCEPT ![e] = [pc |-> "get", tries |-> edits[e].tries + 1,
                         began |-> edits[e].began, ask |-> edits[e].ask]]
    BY <1>12 DEF Put
  <2>2. ASSUME edits' = [edits EXCEPT ![e] = [pc |-> "get", tries |-> edits[e].tries + 1,
                             began |-> edits[e].began, ask |-> edits[e].ask]]
        PROVE  Rest
    <3>1. PICK x : x = [pc |-> "get", tries |-> edits[e].tries + 1,
                        began |-> edits[e].began, ask |-> edits[e].ask]
      OBVIOUS
    <3>2. edits' = [edits EXCEPT ![e] = x] /\ edits'[e] = x
      BY <2>2, <3>1 DEF EditInv, ObjInv
    <3>3. edits[e].began \in Nat /\ edits[e].began <= now /\ AskShape(edits[e].ask)
      BY <1>12 DEF Put, EditInv, Underway
    <3>4. Underway(e)' /\ Brings(e)'
      BY <1>0, <3>1, <3>2, <3>3 DEF Underway, Brings, AskShape
    <3> QED BY <1>3, <3>2, <3>4
  <2> QED BY <1>6, <2>1, <2>2
<1>13. ASSUME NEW b \in Bots, ProcessMessage(b) PROVE Rest
  <2>1. PICK m : m = posts[bot[b].id]
    OBVIOUS
  <2>2. \/ edits' = edits
        \/ /\ Accepted(m, bot[b].use)
           /\ Begin(b, [kind |-> "chat", active |-> m.cmd.active, until |-> m.cmd.until])
    BY <1>13, <2>1 DEF ProcessMessage
  <2>3. m \in Messages
    BY <1>13, <2>1 DEF ProcessMessage, EditInv, PostInv, Ids
  <2>4. ASSUME Accepted(m, bot[b].use)
        PROVE  AskShape([kind |-> "chat", active |-> m.cmd.active, until |-> m.cmd.until])
    <3>1. m.cmd.kind = "chat" /\ WellAsked(m.cmd)
      BY <2>3, <2>4, ChatAssumption DEF Accepted, ReadOnly
    <3> QED BY <3>1 DEF WellAsked, AskShape, Holds
  <2> QED BY <1>5, <1>7, <2>2, <2>4
<1>14. ASSUME NEW b \in Bots, Reply(b) PROVE Rest
  BY <1>4, <1>14 DEF Reply, IdleEdit
<1>15. ASSUME NEW r \in Replicas, Restart(r) PROVE Rest
  <2>1. PICK gone : edits' = [e \in Editors |-> IF e \in gone THEN IdleEdit ELSE edits[e]]
    BY <1>15 DEF Restart
  <2>2. \A e \in Editors : edits'[e] = edits[e] \/ edits'[e].pc = "idle"
    BY <2>1 DEF IdleEdit
  <2> QED BY <1>1, <1>2, <2>1, <2>2
<1> HIDE DEF Rest
<1>16. ASSUME NEW P, PeopleNext(P) PROVE Rest
  <2>1. ASSUME NEW e, Answered(e) PROVE Rest
    BY <1>4, <2>1 DEF Answered, IdleEdit
  <2>2. ASSUME NEW e, NEW a \in Asks, Ask(e, a) PROVE Rest
    BY <1>8, <2>2, EditAssumption
  <2>3. ASSUME NEW s \in Schedules, CreateSchedule(s) PROVE Rest
    BY <1>5, <2>3 DEF CreateSchedule
  <2>4. ASSUME DeleteSchedule \/ DropCalendar PROVE Rest
    BY <1>5, <2>4 DEF DeleteSchedule, DropCalendar
  <2> QED BY <1>9, <1>10, <1>16, <2>1, <2>2, <2>3, <2>4 DEF PeopleNext
<1>17. ASSUME NEW M, NEW C, ChatNext(M, C) PROVE Rest
  <2>1. ASSUME NEW m, Post(m) \/ Configure(m) \/ Poll \/ Take \/ Fetch(m) \/ Monitor(m) PROVE Rest
    BY <1>5, <2>1 DEF Post, Configure, Poll, Take, Fetch, Monitor, editVars
  <2>2. ASSUME NEW r, NEW i, Deliver(r, i) PROVE Rest
    BY <1>5, <2>2 DEF Deliver, editVars
  <2> QED BY <1>13, <1>14, <1>15, <1>17, <2>1, <2>2 DEF ChatNext
<1>18. ASSUME AssistantNext PROVE Rest
  <2>1. ASSUME NEW p, NEW a \in ToolAsks, Confirm(p, a) \/ CallTool(p, a) PROVE Rest
    BY <1>8, <2>1, AssistantAssumption DEF Confirm, CallTool, executeMutatingTool
  <2>2. ASSUME NEW p, AskAssistant(p) \/ Step(p) \/ RecordGet(p) \/ RecordPut(p) PROVE Rest
    BY <1>5, <2>2 DEF AskAssistant, Step, RecordGet, RecordPut, editVars
  <2>3. ASSUME NEW p, NEW r, SetRole(p, r) \/ SetBudget(p) PROVE Rest
    BY <1>5, <2>3 DEF SetRole, SetBudget, editVars
  <2> QED BY <1>18, <2>1, <2>2, <2>3 DEF AssistantNext
<1>19. Rest
  BY <1>5, <1>11, <1>12, <1>16, <1>17, <1>18 DEF Next, vars, editVars, EditNext, Settle
<1> QED BY <1>0, <1>19, PostStep, ObjMoves DEF EditInv, ObjInv, Rest

-----------------------------------------------------------------------------
(* What a request does when it is carried out.                              *)

LEMMA LeastNumber ==
    ASSUME NEW S \in SUBSET Nat, S # {}
    PROVE  \E m \in S : \A k \in S : m <= k
<1> DEFINE R == {p \in Nat \X Nat : p[1] < p[2]}
<1>1. IsWellFoundedOn(R, Nat)
  BY NatLessThanWellFounded DEF OpToRel
<1>2. PICK m \in S : \A k \in S : ~(<<k, m>> \in R)
  <2> HIDE DEF R
  <2> QED BY <1>1, WFMin
<1>3. \A k \in S : ~(k < m)
  BY <1>2
<1> QED BY <1>3

LEMMA ChangesAreTimes ==
    ASSUME NEW o, o.schedule \in SUBSET Nat, NEW shared \in SUBSET DOMAIN CalendarDays
    PROVE  /\ Changes(o, shared) \in SUBSET Nat
           /\ Changes(o, {}) \subseteq Changes(o, shared)
           /\ Changes(o, shared) \subseteq Changes(o, DOMAIN CalendarDays)
<1>1. \A l \in Labels : DayOf[l] \in Nat
  BY EditAssumption
<1>2. \A c \in DOMAIN CalendarDays : CalendarDays[c] \subseteq Nat
  BY EditAssumption
<1>3. Changes(o, shared) \in SUBSET Nat
  BY <1>1, <1>2 DEF Changes
<1>4. Changes(o, {}) \subseteq Changes(o, shared)
  BY DEF Changes
<1>5. Changes(o, shared) \subseteq Changes(o, DOMAIN CalendarDays)
  BY DEF Changes
<1> QED BY <1>3, <1>4, <1>5

\* The next change comes later, and there is none only if nothing comes later.
LEMMA NextChangeIs ==
    ASSUME NEW o, o.schedule \in SUBSET Nat, NEW shared \in SUBSET DOMAIN CalendarDays,
           NEW t \in Nat
    PROVE  \/ /\ NextChange(o, shared, t) = None
              /\ \A c \in Changes(o, {}) : c <= t
           \/ /\ NextChange(o, shared, t) \in Changes(o, DOMAIN CalendarDays)
              /\ NextChange(o, shared, t) \in Nat /\ NextChange(o, shared, t) > t
<1> DEFINE later == {c \in Changes(o, shared) : c > t}
<1>1. /\ Changes(o, shared) \in SUBSET Nat
      /\ Changes(o, {}) \subseteq Changes(o, shared)
      /\ Changes(o, shared) \subseteq Changes(o, DOMAIN CalendarDays)
  BY ChangesAreTimes
<1>2. CASE later = {}
  <2>1. NextChange(o, shared, t) = None
    BY <1>2 DEF NextChange
  <2>2. \A c \in Changes(o, {}) : c <= t
    BY <1>1, <1>2
  <2> QED BY <2>1, <2>2
<1>3. CASE later # {}
  <2>1. NextChange(o, shared, t) = Min(later)
    BY <1>3 DEF NextChange
  <2>2. later \in SUBSET Nat
    BY <1>1
  <2>3. Min(later) \in later
    <3> HIDE DEF later
    <3>1. \E m \in later : \A k \in later : m <= k
      BY <1>3, <2>2, LeastNumber
    <3> QED BY <3>1 DEF Min
  <2> QED BY <1>1, <2>1, <2>3
<1> QED BY <1>2, <1>3

LEMMA LandsIsPut ==
    ASSUME EditInv, [Next]_vars, NEW e \in Editors, Lands(e)
    PROVE  /\ edits[e].pc = "put" /\ obj.there /\ edits[e].new.version = obj.version
           /\ obj' = Stored(edits[e].new)
<1>0. edits[e].pc = "put" /\ obj' # obj /\ edits'[e] # edits[e]
  BY DEF Lands
<1>1. ASSUME NEW d \in Editors, Put(d), d # e PROVE FALSE
  <2>1. \E x : edits' = [edits EXCEPT ![d] = x]
    BY <1>1 DEF Put, Answer
  <2>2. edits'[e] = edits[e]
    BY <1>1, <2>1 DEF EditInv, ObjInv
  <2> QED BY <1>0, <2>2
<1>2. ASSUME obj' = obj \/ edits' = edits PROVE FALSE
  BY <1>0, <1>2
<1>3. ASSUME NEW P, PeopleNext(P) PROVE FALSE
  BY <1>2, <1>3 DEF PeopleNext, OpenEditor, Answered, SendForm, Ask, DeleteSchedule,
                    CreateSchedule, DropCalendar
<1>4. ASSUME NEW M, NEW C, ChatNext(M, C) PROVE FALSE
  <2>1. obj' = obj
    BY <1>4 DEF ChatNext, Post, Configure, Poll, Take, Fetch, Restart, Deliver, ProcessMessage,
                Reply, Monitor, editVars
  <2> QED BY <1>2, <2>1
<1>5. ASSUME AssistantNext PROVE FALSE
  <2>1. obj' = obj
    BY <1>5 DEF AssistantNext, AskAssistant, Step, RecordGet, RecordPut, Confirm, CallTool,
                executeMutatingTool, Ask, SetRole, SetBudget, editVars
  <2> QED BY <1>2, <2>1
<1>6. ASSUME NEW d \in Editors, Get(d) PROVE FALSE
  BY <1>2, <1>6 DEF Get
<1>7. ASSUME Settle PROVE FALSE
  BY <1>2, <1>7 DEF Settle
<1>8. Put(e)
  BY <1>1, <1>2, <1>3, <1>4, <1>5, <1>6, <1>7 DEF Next, vars, editVars, EditNext
<1> QED BY <1>0, <1>8 DEF Put

\* What lands was made of the object as it is, at some moment of the request.
LEMMA LandedIs ==
    ASSUME EditInv, [Next]_vars, NEW e \in Editors, Lands(e)
    PROVE  /\ AskShape(edits[e].ask) /\ IsObj(edits[e].new)
           /\ edits[e].began \in Nat /\ edits[e].began <= now
           /\ obj' = Stored(edits[e].new)
           /\ \E shared \in SUBSET DOMAIN CalendarDays : \E t \in edits[e].began..now :
                 Comes(edits[e].ask, obj, shared, t, edits[e].new)
<1>1. /\ edits[e].pc = "put" /\ obj.there /\ edits[e].new.version = obj.version
      /\ obj' = Stored(edits[e].new)
  BY LandsIsPut
<1>2. Underway(e) /\ Brings(e)
  BY DEF EditInv
<1> QED BY <1>1, <1>2 DEF Underway, Brings

LEMMA OverrideStored ==
    ASSUME NEW r, NEW new, IsObj(obj), new = WithOverride(obj, r), obj' = Stored(new)
    PROVE  /\ obj'.until = r.until /\ obj'.active = r.active
           /\ obj'.schedule = obj.schedule /\ obj'.exceptions = obj.exceptions
           /\ obj'.calendars = obj.calendars
           /\ obj' = Stored([obj EXCEPT !.active = obj'.active, !.until = obj'.until,
                                        !.legacy = obj'.legacy])
<1>1. PICK l : new = [obj EXCEPT !.active = r.active, !.until = r.until, !.legacy = l]
  BY DEF WithOverride
<1>2. /\ new = [f \in ObjFields |-> new[f]]
      /\ new.until = r.until /\ new.active = r.active /\ new.legacy = l
      /\ new.schedule = obj.schedule /\ new.exceptions = obj.exceptions
      /\ new.calendars = obj.calendars
  BY <1>1 DEF IsObj, ObjFields
<1>3. obj' = [new EXCEPT !.version = obj.version + 1, !.phase = obj.phase]
  BY DEF Stored
<1>4. /\ obj'.until = r.until /\ obj'.active = r.active /\ obj'.legacy = l
      /\ obj'.schedule = obj.schedule /\ obj'.exceptions = obj.exceptions
      /\ obj'.calendars = obj.calendars
  BY <1>2, <1>3 DEF ObjFields
<1>5. new = [obj EXCEPT !.active = obj'.active, !.until = obj'.until, !.legacy = obj'.legacy]
  BY <1>1, <1>4
<1> QED BY <1>4, <1>5

LEMMA HoldStep ==
    ASSUME EditInv, [Next]_vars, NEW e \in Editors
    PROVE  HoldEndsAsAsked(e)
<1> SUFFICES ASSUME Lands(e), edits[e].ask.kind \in Holds PROVE HoldEndsAsAsked(e)
  BY DEF HoldEndsAsAsked
<1>1. PICK a : a = edits[e].ask
  OBVIOUS
<1>2. PICK began : began = edits[e].began
  OBVIOUS
<1>3. /\ AskShape(a) /\ began \in Nat /\ began <= now /\ now \in Nat /\ IsObj(obj)
      /\ obj' = Stored(edits[e].new)
  BY <1>1, <1>2, LandedIs DEF EditInv, ObjInv
<1>4. PICK shared \in SUBSET DOMAIN CalendarDays :
        \E t \in began..now : Comes(a, obj, shared, t, edits[e].new)
  BY <1>1, <1>2, LandedIs
<1>5. PICK t \in began..now : Comes(a, obj, shared, t, edits[e].new)
  BY <1>4
<1>6. t \in Nat /\ began <= t /\ t <= now
  BY <1>3
<1>7. PICK r : r = Override(a, obj, shared, t)
  OBVIOUS
<1>8. r.ok /\ edits[e].new = WithOverride(obj, r)
  BY <1>1, <1>5, <1>7 DEF Comes, Edited, Holds
<1>9. /\ obj'.until = r.until /\ obj'.active = r.active
      /\ obj'.schedule = obj.schedule /\ obj'.exceptions = obj.exceptions
      /\ obj'.calendars = obj.calendars
  BY <1>3, <1>8, OverrideStored
<1>10. /\ Changes(obj', {}) = Changes(obj, {})
       /\ Changes(obj', DOMAIN CalendarDays) = Changes(obj, DOMAIN CalendarDays)
  BY <1>9 DEF Changes
<1>11. PICK n : n = NextChange(obj, shared, t)
  OBVIOUS
<1>12. \/ n = None /\ \A c \in Changes(obj, {}) : c <= t
       \/ n \in Changes(obj, DOMAIN CalendarDays) /\ n \in Nat /\ n > t
  BY <1>3, <1>6, <1>11, NextChangeIs DEF IsObj
<1>13. Changes(obj, {}) \in SUBSET Nat
  BY <1>3, ChangesAreTimes DEF IsObj
\* What a hold that was resolved comes to.
<1> DEFINE UntilChange == IF r.until = None THEN a.kind # "manual" /\ \A c \in Changes(obj, {}) : c <= now
                          ELSE r.until \in Changes(obj, DOMAIN CalendarDays) /\ r.until > began
           Fits == \/ a.active = "none" /\ r.until = None
                   \/ a.until > 0 /\ r.until \in (began + a.until)..(now + a.until)
                   \/ /\ a.until = NextTransition \/ (a.until = Unsaid /\ a.kind = "tool")
                      /\ UntilChange
                   \/ a.until = Forever
                   \/ a.until = Unsaid /\ a.kind # "tool"
<1> SUFFICES Fits
  BY <1>1, <1>2, <1>9, <1>10 DEF HoldEndsAsAsked
<1>14. a.until \in {NextTransition, Forever, Unsaid} \cup (Nat \ {0}) /\ a.kind \in Holds
  BY <1>1, <1>3 DEF AskShape
<1>15. n # None => n > began /\ n \in Changes(obj, DOMAIN CalendarDays)
  BY <1>3, <1>6, <1>12
<1>16. n = None => \A c \in Changes(obj, {}) : c <= now
  BY <1>3, <1>6, <1>12, <1>13 DEF None
<1> USE DEF NextTransition, Forever, Unsaid, None
<1>17. CASE a.kind = "manual"
  <2>1. r = ResolveOverride(a.active, a.activeUntil, a.until, obj, shared, t)
    BY <1>7, <1>17 DEF Override
  <2>2. CASE a.active = "none"
    BY <2>1, <2>2 DEF ResolveOverride
  <2>3. CASE a.active # "none" /\ a.until = NextTransition
    BY <1>8, <1>11, <1>15, <2>1, <2>3 DEF ResolveOverride
  <2>4. CASE a.active # "none" /\ a.until \in Nat \ {0}
    BY <1>3, <1>6, <2>1, <2>4 DEF ResolveOverride
  <2> QED BY <1>14, <1>17, <2>2, <2>3, <2>4
<1>18. CASE a.kind = "tool"
  <2>0. PICK u : u = DefaultHold(a.until, obj, shared, t)
    OBVIOUS
  <2>1. r = ResolveOverride(a.active, None, u, obj, shared, t)
    BY <1>7, <1>18, <2>0 DEF Override
  <2>2. u = IF a.until = Unsaid /\ n # None THEN NextTransition ELSE a.until
    BY <1>11, <2>0 DEF DefaultHold
  <2>3. CASE a.active = "none"
    BY <2>1, <2>3 DEF ResolveOverride
  <2>4. CASE a.active # "none" /\ u = NextTransition
    BY <1>8, <1>11, <1>14, <1>15, <1>18, <2>1, <2>2, <2>4 DEF ResolveOverride
  <2>5. CASE a.active # "none" /\ a.until = Unsaid /\ n = None
    BY <1>16, <1>18, <2>1, <2>2, <2>5 DEF ResolveOverride
  <2>6. CASE a.active # "none" /\ a.until \in Nat \ {0}
    BY <1>3, <1>6, <2>1, <2>2, <2>6 DEF ResolveOverride
  <2> QED BY <1>14, <2>2, <2>3, <2>4, <2>5, <2>6
<1>19. CASE a.kind = "chat"
  <2>1. r = resolveUntil(a.active, a.until, obj, shared, t)
    BY <1>7, <1>19 DEF Override
  <2>2. CASE a.until = NextTransition
    BY <1>11, <1>15, <1>16, <1>19, <2>1, <2>2 DEF resolveUntil
  <2>3. CASE a.until \in Nat \ {0}
    BY <1>3, <1>6, <2>1, <2>3 DEF resolveUntil
  <2> QED BY <1>14, <1>19, <2>2, <2>3
<1> QED BY <1>14, <1>17, <1>18, <1>19 DEF Holds

LEMMA RestStep == EditInv /\ [Next]_vars => EditsKeepTheRest
<1> SUFFICES ASSUME EditInv, [Next]_vars, NEW e \in Editors, Lands(e)
             PROVE  LET a == edits[e].ask
                    IN CASE a.kind = "save" -> obj'.legacy = obj.legacy
                         [] a.kind = "add" -> obj' = Stored([obj EXCEPT !.exceptions = Append(@, a.label)])
                         [] a.kind = "remove" ->
                                obj' = Stored([obj EXCEPT !.exceptions = WithoutLabel(@, a.label)])
                         [] OTHER -> obj' = Stored([obj EXCEPT !.active = obj'.active,
                                             !.until = obj'.until, !.legacy = obj'.legacy])
  BY DEF EditsKeepTheRest
<1>1. PICK a : a = edits[e].ask
  OBVIOUS
<1>2. PICK new : new = edits[e].new
  OBVIOUS
<1>3. AskShape(a) /\ IsObj(obj) /\ IsObj(new) /\ obj' = Stored(new)
  BY <1>1, <1>2, LandedIs DEF EditInv, ObjInv
<1>4. PICK shared, t : Comes(a, obj, shared, t, new)
  BY <1>1, <1>2, LandedIs
<1>5. new = Edited(a, obj, shared, t).obj
  BY <1>4 DEF Comes
<1>6. CASE a.kind = "save"
  <2>1. new = WithForm(obj, a.form)
    BY <1>5, <1>6 DEF Edited
  <2>2. new.legacy = obj.legacy
    BY <1>3, <2>1 DEF WithForm, IsObj, ObjFields
  <2>3. obj' = [new EXCEPT !.version = obj.version + 1, !.phase = obj.phase]
    BY <1>3 DEF Stored
  <2>4. obj'.legacy = new.legacy
    BY <1>3, <2>3 DEF IsObj, ObjFields
  <2> QED BY <1>1, <1>6, <2>2, <2>4
<1>7. CASE a.kind = "add"
  <2>1. new = [obj EXCEPT !.exceptions = Append(@, a.label)]
    BY <1>5, <1>7 DEF Edited
  <2> QED BY <1>1, <1>3, <1>7, <2>1
<1>8. CASE a.kind = "remove"
  <2>1. new = [obj EXCEPT !.exceptions = WithoutLabel(@, a.label)]
    BY <1>5, <1>8 DEF Edited
  <2> QED BY <1>1, <1>3, <1>8, <2>1
<1>9. CASE a.kind \in Holds
  <2>1. PICK r : new = WithOverride(obj, r)
    BY <1>5, <1>9 DEF Edited, Holds
  <2>2. obj' = Stored([obj EXCEPT !.active = obj'.active, !.until = obj'.until,
                                  !.legacy = obj'.legacy])
    BY <1>3, <2>1, OverrideStored
  <2> QED BY <1>1, <1>9, <2>2 DEF Holds
<1> QED BY <1>3, <1>6, <1>7, <1>8, <1>9 DEF AskShape

\* An override lasts as long as was asked, from some moment while the request was at work,
\* or until a change of the schedule it is stored with (ResolveOverride and resolveUntil,
\* worked out anew in every attempt of RetryOnConflict).
THEOREM HoldsEnd == FairSpec => HoldsEndAsAsked
<1>1. EditInv /\ [Next]_vars => EditInv'
  BY EditStep
<1>2. EditInv /\ [Next]_vars => [\A e \in Editors : HoldEndsAsAsked(e)]_<<obj, edits>>
  BY HoldStep
<1> QED BY <1>1, <1>2, EditsBegin, PTL DEF FairSpec, HoldsEndAsAsked

-----------------------------------------------------------------------------
(* The settings.                                                            *)

CfgFields == Sections \cup {"version"}

IsCfg(c) == c = [f \in CfgFields |-> c[f]] /\ c.version \in Nat

\* A save that is about to be stored differs from what is there only in its sections,
\* unless that has been written since.
Prepared(a) ==
    /\ saving[a].pc \in {"apply", "secrets"} => saving[a].req \in Saves
    /\ saving[a].pc = "secrets" =>
        /\ {"pc", "req", "new"} \subseteq DOMAIN saving[a]
        /\ IsCfg(saving[a].new) /\ saving[a].new.version <= cfg.version
        /\ saving[a].new.version = cfg.version =>
             \A sec \in Sections \ DOMAIN saving[a].req : saving[a].new[sec] = cfg[sec]

SaveInv ==
    /\ IsCfg(cfg) /\ saving = [a \in Admins |-> saving[a]]
    /\ \A a \in Admins : Prepared(a)

\* An applier changes its own section, where the request has it.
LEMMA ApplierKeeps ==
    ASSUME NEW c, IsCfg(c), NEW r, NEW s, NEW sec \in Sections
    PROVE  /\ IsCfg(Apply1(sec, c, r, s).cfg)
           /\ \A f \in CfgFields : f # sec \/ sec \notin DOMAIN r => Apply1(sec, c, r, s).cfg[f] = c[f]
<1>1. CASE sec \notin DOMAIN r
  BY <1>1 DEF Apply1
<1>2. CASE sec \in DOMAIN r
  <2>1. ASSUME NEW x, NEW f \in Sections, f = sec, Apply1(sec, c, r, s).cfg = [c EXCEPT ![f] = x]
        PROVE  /\ IsCfg(Apply1(sec, c, r, s).cfg)
               /\ \A g \in CfgFields : g # sec => Apply1(sec, c, r, s).cfg[g] = c[g]
    <3>1. PICK n : n = [c EXCEPT ![f] = x]
      OBVIOUS
    <3>2. n = [g \in CfgFields |-> n[g]] /\ \A g \in CfgFields : g # sec => n[g] = c[g]
      BY <2>1, <3>1 DEF IsCfg
    <3>3. n.version = c.version
      BY <2>1, <3>2 DEF CfgFields, Sections
    <3>4. IsCfg(n)
      BY <3>2, <3>3 DEF IsCfg
    <3> QED BY <2>1, <3>1, <3>2, <3>4
  <2>2. \E x : Apply1(sec, c, r, s).cfg = [c EXCEPT ![sec] = x]
    <3>1. CASE sec = "webex"
      BY <1>2, <3>1 DEF Apply1, applyWebex
    <3>2. CASE sec = "cloud"
      BY <1>2, <3>2 DEF Apply1, applyProvider
    <3>3. CASE sec = "signin"
      BY <1>2, <3>3 DEF Apply1, applyAuth
    <3>4. CASE sec = "hook"
      BY <1>2, <3>4 DEF Apply1, applyHook
    <3>5. CASE sec = "plain"
      BY <1>2, <3>5 DEF Apply1, applyPlain
    <3>6. CASE sec = "clusters"
      BY <1>2, <3>6 DEF Apply1, applyClusters
    <3> QED BY <3>1, <3>2, <3>3, <3>4, <3>5, <3>6 DEF Sections
  <2> QED BY <1>2, <2>1, <2>2
<1> QED BY <1>1, <1>2

LEMMA ApplyNextKeeps ==
    ASSUME NEW c, NEW r, NEW s, NEW done, NEW sec \in Sections,
           IsCfg(done.cfg), \A f \in CfgFields \ DOMAIN r : done.cfg[f] = c[f]
    PROVE  LET x == ApplyNext(done, sec, r, s)
           IN IsCfg(x.cfg) /\ \A f \in CfgFields \ DOMAIN r : x.cfg[f] = c[f]
<1>1. PICK y : y = Apply1(sec, done.cfg, r, s).cfg
  OBVIOUS
<1>2. IsCfg(y) /\ \A f \in CfgFields : f # sec \/ sec \notin DOMAIN r => y[f] = done.cfg[f]
  BY <1>1, ApplierKeeps
<1>3. ApplyNext(done, sec, r, s).cfg = y
  BY <1>1 DEF ApplyNext
<1> QED BY <1>2, <1>3

LEMMA AppliedKeeps ==
    ASSUME NEW c, IsCfg(c), NEW r, "version" \notin DOMAIN r, NEW s
    PROVE  /\ IsCfg(Applied(r, c, s).cfg) /\ Applied(r, c, s).cfg.version = c.version
           /\ \A sec \in Sections \ DOMAIN r : Applied(r, c, s).cfg[sec] = c[sec]
<1> DEFINE Keeps(x) == IsCfg(x.cfg) /\ \A f \in CfgFields \ DOMAIN r : x.cfg[f] = c[f]
<1>1. ASSUME NEW done, NEW sec \in Sections, Keeps(done) PROVE Keeps(ApplyNext(done, sec, r, s))
  BY <1>1, ApplyNextKeeps
<1>2. Keeps([ok |-> TRUE, cfg |-> c, data |-> NoKeys])
  OBVIOUS
<1> HIDE DEF Keeps
<1>3. PICK x1 : x1 = ApplyNext([ok |-> TRUE, cfg |-> c, data |-> NoKeys], "cloud", r, s)
  OBVIOUS
<1>4. PICK x2 : x2 = ApplyNext(x1, "webex", r, s)
  OBVIOUS
<1>5. PICK x3 : x3 = ApplyNext(x2, "hook", r, s)
  OBVIOUS
<1>6. PICK x4 : x4 = ApplyNext(x3, "plain", r, s)
  OBVIOUS
<1>7. PICK x5 : x5 = ApplyNext(x4, "signin", r, s)
  OBVIOUS
<1>8. PICK x6 : x6 = ApplyNext(x5, "clusters", r, s)
  OBVIOUS
<1>9. Keeps(x1) /\ Keeps(x2) /\ Keeps(x3)
  BY <1>1, <1>2, <1>3, <1>4, <1>5 DEF Sections
<1>10. Keeps(x6)
  BY <1>1, <1>6, <1>7, <1>8, <1>9 DEF Sections
<1>11. Applied(r, c, s) = x6
  BY <1>3, <1>4, <1>5, <1>6, <1>7, <1>8 DEF Applied
<1> QED BY <1>10, <1>11 DEF Keeps, CfgFields

LEMMA CfgMoves ==
    ASSUME SaveInv, SaveNext
    PROVE  /\ IsCfg(cfg)'
           /\ \/ cfg'.version > cfg.version
              \/ cfg'.version = cfg.version /\ \A sec \in Sections : cfg'[sec] = cfg[sec]
<1>0. IsCfg(cfg)
  BY DEF SaveInv
<1>1. ASSUME cfg' = cfg PROVE IsCfg(cfg)' /\ cfg'.version = cfg.version
  BY <1>0, <1>1 DEF IsCfg
<1>2. ASSUME NEW c, IsCfg(c), NEW n \in Nat, cfg' = [c EXCEPT !.version = n]
      PROVE  IsCfg(cfg)' /\ cfg'.version = n
  <2>1. PICK d : d = [c EXCEPT !.version = n]
    OBVIOUS
  <2>2. d = [f \in CfgFields |-> d[f]] /\ d.version = n
    BY <1>2, <2>1 DEF IsCfg, CfgFields
  <2>3. IsCfg(d) /\ d.version = n
    BY <2>2 DEF IsCfg
  <2>4. cfg' = d
    BY <1>2, <2>1
  <2> QED BY <2>2, <2>4 DEF IsCfg
<1>3. ASSUME NEW a \in Admins, ApplySections(a)
      PROVE  /\ IsCfg(cfg)' /\ \/ cfg' = cfg
                               \/ cfg'.version > cfg.version
  <2>1. cfg' = [cfg EXCEPT !.version = IF cfg.version = 0 THEN 1 ELSE cfg.version]
    BY <1>3 DEF ApplySections
  <2>2. CASE cfg.version = 0
    BY <1>0, <1>2, <2>1, <2>2
  <2>3. CASE cfg.version # 0
    <3>1. cfg' = cfg
      BY <1>0, <2>1, <2>3 DEF IsCfg, CfgFields
    <3> QED BY <1>1, <3>1
  <2> QED BY <2>2, <2>3
<1>4. ASSUME NEW a \in Admins, UpdateConfig(a), cfg' # cfg
      PROVE  IsCfg(cfg)' /\ cfg'.version > cfg.version
  <2>1. /\ saving[a].pc = "secrets" /\ saving[a].new.version = cfg.version
        /\ cfg' = [saving[a].new EXCEPT !.version = saving[a].new.version + 1]
    BY <1>4 DEF UpdateConfig
  <2>2. IsCfg(saving[a].new) /\ cfg.version + 1 \in Nat
    BY <1>0, <2>1 DEF SaveInv, Prepared, IsCfg
  <2>3. cfg' = [saving[a].new EXCEPT !.version = cfg.version + 1]
    BY <2>1
  <2>4. IsCfg(cfg)' /\ cfg'.version = cfg.version + 1
    BY <1>2, <2>2, <2>3
  <2> QED BY <1>0, <2>4 DEF IsCfg
<1>5. ASSUME WriteStatus PROVE IsCfg(cfg)' /\ cfg'.version > cfg.version
  <2>1. cfg' = [cfg EXCEPT !.version = cfg.version + 1] /\ cfg.version + 1 \in Nat
    BY <1>0, <1>5 DEF WriteStatus, IsCfg
  <2>2. IsCfg(cfg)' /\ cfg'.version = cfg.version + 1
    BY <1>0, <1>2, <2>1
  <2> QED BY <1>0, <2>2 DEF IsCfg
<1>6. ASSUME NEW a \in Admins, NEW r \in Saves, Send(a, r) PROVE cfg' = cfg
  BY <1>6 DEF Send
<1>7. ASSUME NEW a \in Admins, WriteSecret(a) \/ Refused(a) PROVE cfg' = cfg
  BY <1>7 DEF WriteSecret, Refused
<1>8. IsCfg(cfg)' /\ (cfg' = cfg \/ cfg'.version > cfg.version)
  BY <1>1, <1>3, <1>4, <1>5, <1>6, <1>7 DEF SaveNext
<1> QED BY <1>8

LEMMA SaveStep ==
    ASSUME SaveInv, SaveNext
    PROVE  SaveInv'
<1>0. /\ IsCfg(cfg) /\ IsCfg(cfg)'
      /\ \/ cfg'.version > cfg.version
         \/ cfg'.version = cfg.version /\ \A sec \in Sections : cfg'[sec] = cfg[sec]
      /\ cfg.version \in Nat /\ cfg'.version \in Nat
  BY CfgMoves DEF SaveInv, IsCfg
<1>1. ASSUME NEW a \in Admins, Prepared(a), saving'[a].pc = saving[a].pc,
             saving'[a].req = saving[a].req, saving'[a].new = saving[a].new,
             DOMAIN saving'[a] = DOMAIN saving[a]
      PROVE  Prepared(a)'
  <2>1. saving[a].pc = "secrets" => saving[a].new.version \in Nat
    BY <1>1 DEF Prepared, IsCfg
  <2> QED BY <1>0, <1>1, <2>1 DEF Prepared, IsCfg
<1>2. ASSUME NEW a \in Admins, NEW x, saving' = [saving EXCEPT ![a] = x],
             saving'[a] = x => Prepared(a)'
      PROVE  SaveInv'
  <2>1. saving' = [b \in Admins |-> IF b = a THEN x ELSE saving[b]]
    BY <1>2 DEF SaveInv
  <2>2. \A b \in Admins \ {a} : Prepared(b)'
    BY <1>1, <2>1 DEF SaveInv
  <2> QED BY <1>0, <1>2, <2>1, <2>2 DEF SaveInv
<1>3. ASSUME NEW a \in Admins, NEW x, saving' = [saving EXCEPT ![a] = x],
             x.pc \notin {"apply", "secrets"}
      PROVE  SaveInv'
  BY <1>2, <1>3 DEF Prepared
<1>4. ASSUME NEW a \in Admins, NEW x, saving' = [saving EXCEPT ![a] = x],
             x.pc = "apply", x.req \in Saves
      PROVE  SaveInv'
  BY <1>2, <1>4 DEF Prepared
<1>5. ASSUME NEW a \in Admins, NEW r \in Saves, Send(a, r) PROVE SaveInv'
  <2>1. PICK x : x = [pc |-> "apply", req |-> r, tries |-> 1, wrote |-> {}]
    OBVIOUS
  <2>2. saving' = [saving EXCEPT ![a] = x]
    BY <1>5, <2>1 DEF Send
  <2>3. x.pc = "apply" /\ x.req \in Saves
    BY <2>1
  <2> QED BY <1>4, <2>2, <2>3
<1>6. ASSUME NEW a \in Admins, ApplySections(a) PROVE SaveInv'
  <2>1. PICK r : r = saving[a].req
    OBVIOUS
  <2>2. r \in Saves
    BY <1>6, <2>1 DEF ApplySections, SaveInv, Prepared
  <2>3. "version" \notin DOMAIN r
    BY <2>2, SaveAssumption DEF Sections
  <2>4. PICK there : there = [cfg EXCEPT !.version = IF @ = 0 THEN 1 ELSE @]
    OBVIOUS
  <2>5. cfg' = there /\ IsCfg(there)
    <3>1. cfg' = there
      BY <1>6, <2>4 DEF ApplySections
    <3> QED BY <1>0, <3>1 DEF IsCfg
  <2>6. PICK done : done = Applied(r, there, secrets)
    OBVIOUS
  <2>7. /\ IsCfg(done.cfg) /\ done.cfg.version = there.version
        /\ \A sec \in Sections \ DOMAIN r : done.cfg[sec] = there[sec]
    BY <2>3, <2>5, <2>6, AppliedKeeps
  <2>8. \/ \E t, w : saving' = [saving EXCEPT ![a] = [pc |-> "refused", req |-> r, tries |-> t, wrote |-> w]]
        \/ \E t, w, q : saving' = [saving EXCEPT ![a] =
               [pc |-> "secrets", req |-> r, tries |-> t, wrote |-> w, new |-> done.cfg,
                data |-> done.data, todo |-> q]]
    BY <1>6, <2>1, <2>4, <2>6 DEF ApplySections
  <2>9. ASSUME NEW t, NEW w,
               saving' = [saving EXCEPT ![a] = [pc |-> "refused", req |-> r, tries |-> t, wrote |-> w]]
        PROVE  SaveInv'
    <3>1. PICK x : x = [pc |-> "refused", req |-> r, tries |-> t, wrote |-> w]
      OBVIOUS
    <3> QED BY <1>3, <2>9, <3>1
  <2>10. ASSUME NEW t, NEW w, NEW q,
                saving' = [saving EXCEPT ![a] =
                    [pc |-> "secrets", req |-> r, tries |-> t, wrote |-> w, new |-> done.cfg,
                     data |-> done.data, todo |-> q]]
         PROVE  SaveInv'
    <3>1. PICK x : x = [pc |-> "secrets", req |-> r, tries |-> t, wrote |-> w, new |-> done.cfg,
                        data |-> done.data, todo |-> q]
      OBVIOUS
    <3>2. {"pc", "req", "new"} \subseteq DOMAIN x /\ x.req = r /\ x.new = done.cfg
      BY <3>1
    <3>3. saving' = [saving EXCEPT ![a] = x]
      BY <2>10, <3>1
    <3>4. ASSUME saving'[a] = x PROVE Prepared(a)'
      <4>1. done.cfg.version = cfg'.version
        BY <2>5, <2>7
      <4>2. \A sec \in Sections \ DOMAIN r : done.cfg[sec] = cfg'[sec]
        BY <2>5, <2>7
      <4>3. IsCfg(x.new)
        BY <2>7, <3>2
      <4> QED BY <1>0, <2>2, <3>2, <3>4, <4>1, <4>2, <4>3 DEF Prepared, IsCfg
    <3> QED BY <1>2, <3>3, <3>4
  <2> QED BY <2>8, <2>9, <2>10
<1>7. ASSUME NEW a \in Admins, WriteSecret(a) PROVE SaveInv'
  <2>1. CASE saving' = [saving EXCEPT ![a] = NotSaving]
    <3>1. NotSaving.pc = "idle"
      BY DEF NotSaving
    <3> QED BY <1>3, <2>1, <3>1
  <2>2. ASSUME NEW t, NEW w, saving' = [saving EXCEPT ![a].todo = t, ![a].wrote = w] PROVE SaveInv'
    <3>1. PICK x : x = [saving[a] EXCEPT !.todo = t, !.wrote = w]
      OBVIOUS
    <3>2. saving' = [saving EXCEPT ![a] = x] /\ saving'[a] = x
      BY <2>2, <3>1 DEF SaveInv
    <3>3. Prepared(a) /\ saving[a].pc = "secrets"
      BY <1>7 DEF WriteSecret, SaveInv
    <3>4. /\ DOMAIN x = DOMAIN saving[a] /\ x.pc = saving[a].pc /\ x.req = saving[a].req
          /\ x.new = saving[a].new
      BY <3>1, <3>3 DEF Prepared
    <3>5. Prepared(a)'
      BY <1>1, <3>2, <3>3, <3>4
    <3> QED BY <1>2, <3>2, <3>5
  <2>3. \/ saving' = [saving EXCEPT ![a] = NotSaving]
        \/ \E t, w : saving' = [saving EXCEPT ![a].todo = t, ![a].wrote = w]
    BY <1>7 DEF WriteSecret
  <2> QED BY <2>1, <2>2, <2>3
<1>8. ASSUME NEW a \in Admins, UpdateConfig(a) PROVE SaveInv'
  <2>1. CASE saving' = [saving EXCEPT ![a] = NotSaving]
    <3>1. NotSaving.pc = "idle"
      BY DEF NotSaving
    <3> QED BY <1>3, <2>1, <3>1
  <2>2. CASE saving' = [saving EXCEPT ![a] = [pc |-> "apply", req |-> saving[a].req,
                            tries |-> saving[a].tries + 1, wrote |-> saving[a].wrote]]
    <3>1. PICK x : x = [pc |-> "apply", req |-> saving[a].req,
                        tries |-> saving[a].tries + 1, wrote |-> saving[a].wrote]
      OBVIOUS
    <3>2. saving[a].req \in Saves
      BY <1>8 DEF UpdateConfig, SaveInv, Prepared
    <3> QED BY <1>4, <2>2, <3>1, <3>2
  <2> QED BY <1>8, <2>1, <2>2 DEF UpdateConfig
<1>9. ASSUME NEW a \in Admins, Refused(a) PROVE SaveInv'
  <2>1. NotSaving.pc = "idle"
    BY DEF NotSaving
  <2> QED BY <1>3, <1>9, <2>1 DEF Refused
<1>10. ASSUME WriteStatus PROVE SaveInv'
  <2>1. saving' = saving
    BY <1>10 DEF WriteStatus
  <2> QED BY <1>0, <1>1, <2>1 DEF SaveInv
<1> QED BY <1>5, <1>6, <1>7, <1>8, <1>9, <1>10 DEF SaveNext

LEMMA SectionsStep ==
    ASSUME SaveInv, SaveNext
    PROVE  SectionsKept
<1> SUFFICES ASSUME NEW a \in Admins, saving[a].pc = "secrets", cfg' # cfg, saving'[a] # saving[a],
                    NEW sec \in Sections \ DOMAIN saving[a].req
             PROVE  cfg'[sec] = cfg[sec]
  BY DEF SectionsKept
<1>1. Prepared(a)
  BY DEF SaveInv
<1>2. ASSUME NEW b \in Admins, b # a, NEW x, saving' = [saving EXCEPT ![b] = x] PROVE FALSE
  BY <1>2 DEF SaveInv
<1>3. ASSUME NEW b \in Admins, ApplySections(b) PROVE FALSE
  <2>1. b # a
    BY <1>3 DEF ApplySections
  <2>2. \E x : saving' = [saving EXCEPT ![b] = x]
    BY <1>3 DEF ApplySections
  <2> QED BY <1>2, <2>1, <2>2
<1>4. ASSUME NEW b \in Admins, UpdateConfig(b) PROVE cfg'[sec] = cfg[sec]
  <2>1. \E x : saving' = [saving EXCEPT ![b] = x]
    BY <1>4 DEF UpdateConfig
  <2>2. b = a
    BY <1>2, <2>1
  <2>3. /\ saving[a].new.version = cfg.version
        /\ \E n : cfg' = [saving[a].new EXCEPT !.version = n]
    BY <1>4, <2>2 DEF UpdateConfig
  <2>4. saving[a].new[sec] = cfg[sec] /\ IsCfg(saving[a].new)
    BY <1>1, <2>3 DEF Prepared
  <2>5. cfg'[sec] = saving[a].new[sec]
    BY <2>3, <2>4 DEF IsCfg, CfgFields, Sections
  <2> QED BY <2>4, <2>5
<1>5. ASSUME NEW b \in Admins, NEW r \in Saves, Send(b, r) PROVE FALSE
  BY <1>5 DEF Send
<1>6. ASSUME NEW b \in Admins, WriteSecret(b) \/ Refused(b) PROVE FALSE
  BY <1>6 DEF WriteSecret, Refused
<1>7. ASSUME WriteStatus PROVE FALSE
  BY <1>7 DEF WriteStatus
<1> QED BY <1>3, <1>4, <1>5, <1>6, <1>7 DEF SaveNext

\* Saves are part of a behaviour, or leave the settings alone.
LEMMA SavesInNext ==
    ASSUME [Next]_vars
    PROVE  SaveNext \/ UNCHANGED <<cfg, saving>>
BY DEF Next, vars, saveVars

LEMMA SaveBegins == Init => SaveInv
<1> SUFFICES ASSUME SaveInit PROVE SaveInv
  BY DEF Init
<1>1. IsCfg(cfg)
  BY DEF SaveInit, IsCfg, CfgFields, Sections
<1>2. saving = [a \in Admins |-> NotSaving]
  BY DEF SaveInit
<1> QED BY <1>1, <1>2 DEF SaveInv, Prepared, NotSaving

\* Nobody's change is lost to somebody else's that read what was there before it: not in a
\* schedule and not in the settings, for any number of editors and admins (the version
\* that RetryOnConflict compares, and the sections a save leaves out).
THEOREM NothingIsOverwritten == FairSpec => NothingOverwritten
<1> DEFINE Inv == EditInv /\ SaveInv
<1>1. Init => Inv
  BY EditsBegin, SaveBegins
<1>2. Inv /\ [Next]_vars => Inv'
  <2> SUFFICES ASSUME Inv, [Next]_vars PROVE SaveInv'
    BY EditStep
  <2>1. CASE UNCHANGED <<cfg, saving>>
    BY <2>1 DEF SaveInv, Prepared, IsCfg
  <2> QED BY <2>1, SaveStep, SavesInNext
<1>3. Inv /\ [Next]_vars => [EditsKeepTheRest /\ SectionsKept]_vars
  <2> SUFFICES ASSUME Inv, [Next]_vars PROVE SectionsKept
    BY RestStep
  <2>1. CASE UNCHANGED <<cfg, saving>>
    BY <2>1 DEF SectionsKept
  <2> QED BY <2>1, SectionsStep, SavesInNext
<1> HIDE DEF Inv
<1> QED BY <1>1, <1>2, <1>3, PTL DEF FairSpec, NothingOverwritten
-----------------------------------------------------------------------------
(* The Secrets of the settings.                                             *)

HasSecret == {"cloud", "signin", "hook", "webex"}

\* A save under way: what it has written and what it still has to are Secrets of its
\* sections, and it has written none when it is refused at its first attempt.
SaveShape(a) ==
    /\ saving[a].pc \in {"idle", "apply", "secrets", "refused"}
    /\ saving[a].pc # "idle" =>
        /\ {"pc", "req", "tries", "wrote"} \subseteq DOMAIN saving[a]
        /\ saving[a].tries \in Nat \ {0} /\ saving[a].wrote \subseteq DOMAIN saving[a].req
    /\ saving[a].pc \in {"apply", "refused"} /\ saving[a].tries = 1 => saving[a].wrote = {}
    /\ saving[a].pc = "secrets" =>
        /\ {"new", "data", "todo"} \subseteq DOMAIN saving[a]
        /\ saving[a].todo \subseteq DOMAIN saving[a].data
        /\ DOMAIN saving[a].data \subseteq DOMAIN saving[a].req

\* What settings c refer to is among some Secrets.
Backed(c, names) == \A sec \in HasSecret : c[sec].ref => sec \in names

SecretInv ==
    /\ Backed(cfg, DOMAIN secrets)
    /\ \A a \in Admins :
           /\ SaveShape(a)
           /\ saving[a].pc = "secrets" => Backed(saving[a].new, DOMAIN secrets \cup saving[a].todo)

\* The clusters whose tokens are there.
TokensThere == DOMAIN KeysOf(secrets, "clusters")

\* A save that will not end without storing its list, or tearing it from the tokens, has
\* no cluster x on that list.
Drops(a, x) ==
    /\ saving[a].pc # "idle" /\ "clusters" \in saving[a].wrote
    /\ x \notin DOMAIN saving[a].req.clusters
Dropped(x) == \E a \in Admins : Drops(a, x)

\* A save replaces the list; the tokens it brings; it has written them.
Replaces(a) == saving[a].pc = "secrets" /\ "clusters" \in DOMAIN saving[a].req
Brought(a) == DOMAIN KeysOf(saving[a].data, "clusters")
Written(a) == Replaces(a) /\ "clusters" \in DOMAIN saving[a].data \ saving[a].todo

\* A cluster that is listed without a token is one that somebody is dropping.
Listed == \A x \in cfg.clusters : x \in TokensThere \/ Dropped(x)

\* So is one that a save lists without bringing its token, as long as it is listed.
Missing(a) ==
    Replaces(a) =>
        /\ saving[a].new.clusters = DOMAIN saving[a].req.clusters
        /\ \A x \in saving[a].new.clusters \ Brought(a) :
               /\ x \in cfg.clusters => Dropped(x)
               /\ saving[a].new.version = cfg.version => x \in cfg.clusters

\* The tokens of a save that has written them are the ones there, and whoever started
\* from them later brings them too.
Alone(a) ==
    Written(a) =>
        /\ TokensThere = Brought(a)
        /\ \A b \in Admins \ {a} : Replaces(b) =>
               ~Written(b) /\ Brought(a) \cap DOMAIN saving[b].req.clusters \subseteq Brought(b)

ClusterInv ==
    /\ torn \in BOOLEAN
    /\ ~torn => Listed /\ \A a \in Admins : Missing(a) /\ Alone(a)
LEMMA Joined ==
    ASSUME NEW old, NEW new
    PROVE  /\ DOMAIN Merged(old, new, {}) = DOMAIN old \cup DOMAIN new
           /\ \A x \in DOMAIN new : Merged(old, new, {})[x] = new[x]
           /\ \A x \in DOMAIN old \ DOMAIN new : Merged(old, new, {})[x] = old[x]
BY DEF Merged

\* What an applier refers to it queues, or was referred to before.
LEMMA ApplierGives ==
    ASSUME NEW c, IsCfg(c), NEW r, NEW s, NEW sec \in Sections
    PROVE  /\ DOMAIN Apply1(sec, c, r, s).data \subseteq {sec} \cap DOMAIN r
           /\ sec \in HasSecret =>
                (Apply1(sec, c, r, s).cfg[sec].ref =>
                     c[sec].ref \/ sec \in DOMAIN Apply1(sec, c, r, s).data)
<1>1. CASE sec \notin DOMAIN r
  BY <1>1 DEF Apply1, NoKeys
<1>2. CASE sec \in DOMAIN r
  <2>0. \A key : /\ DOMAIN Credentials(sec, key) \subseteq {sec}
                 /\ key # None => sec \in DOMAIN Credentials(sec, key)
    BY DEF Credentials, NoKeys
  <2>1. CASE sec = "webex"
    <3>1. DOMAIN Apply1(sec, c, r, s).data = {"webex"}
      BY <1>2, <2>1 DEF Apply1, applyWebex
    <3> QED BY <1>2, <2>1, <3>1
  <2>2. CASE sec = "cloud"
    <3>1. /\ Apply1(sec, c, r, s).data = Credentials(sec, r.cloud.key)
          /\ Apply1(sec, c, r, s).cfg = [c EXCEPT !.cloud = WithFields(c.cloud, r.cloud)]
      BY <1>2, <2>2 DEF Apply1, applyProvider
    <3>2. Apply1(sec, c, r, s).cfg[sec] = WithFields(c.cloud, r.cloud)
      BY <2>2, <3>1 DEF IsCfg, CfgFields, Sections
    <3>3. WithFields(c.cloud, r.cloud).ref => c.cloud.ref \/ r.cloud.key # None
      BY DEF WithFields
    <3> QED BY <1>2, <2>0, <2>2, <3>1, <3>2, <3>3
  <2>3. CASE sec = "signin"
    <3>1. /\ Apply1(sec, c, r, s).data = Credentials(sec, r.signin.key)
          /\ Apply1(sec, c, r, s).cfg = [c EXCEPT !.signin = WithFields(c.signin, r.signin)]
      BY <1>2, <2>3 DEF Apply1, applyAuth
    <3>2. Apply1(sec, c, r, s).cfg[sec] = WithFields(c.signin, r.signin)
      BY <2>3, <3>1 DEF IsCfg, CfgFields, Sections
    <3>3. WithFields(c.signin, r.signin).ref => c.signin.ref \/ r.signin.key # None
      BY DEF WithFields
    <3> QED BY <1>2, <2>0, <2>3, <3>1, <3>2, <3>3
  <2>4. CASE sec = "hook"
    <3> DEFINE new == [enabled |-> r.hook.enabled, ref |-> c.hook.ref \/ r.hook.url # None]
    <3>1. /\ Apply1(sec, c, r, s).data = Credentials(sec, r.hook.url)
          /\ Apply1(sec, c, r, s).cfg = [c EXCEPT !.hook = new]
      BY <1>2, <2>4 DEF Apply1, applyHook
    <3>2. Apply1(sec, c, r, s).cfg[sec] = new
      BY <2>4, <3>1 DEF IsCfg, CfgFields, Sections
    <3>3. new.ref => c.hook.ref \/ r.hook.url # None
      OBVIOUS
    <3> QED BY <1>2, <2>0, <2>4, <3>1, <3>2, <3>3
  <2>5. CASE sec \in {"plain", "clusters"}
    <3>1. DOMAIN Apply1(sec, c, r, s).data \subseteq {sec}
      BY <1>2, <2>5 DEF Apply1, applyPlain, applyClusters, NoKeys
    <3> QED BY <1>2, <2>5, <3>1 DEF HasSecret
  <2> QED BY <2>1, <2>2, <2>3, <2>4, <2>5 DEF Sections
<1> QED BY <1>1, <1>2

\* A cluster that is accepted without a token was listed; the token it had stays.
LEMMA ClustersGive ==
    ASSUME NEW c, IsCfg(c), NEW r, "clusters" \in DOMAIN r, NEW s,
           Apply1("clusters", c, r, s).ok
    PROVE  /\ Apply1("clusters", c, r, s).cfg.clusters = DOMAIN r.clusters
           /\ \A x \in DOMAIN r.clusters \ DOMAIN KeysOf(Apply1("clusters", c, r, s).data, "clusters") :
                  x \in c.clusters /\ x \notin DOMAIN KeysOf(s, "clusters")
<1> DEFINE u == r.clusters
           brings == {n \in DOMAIN u : u[n] # None}
           old == KeysOf(s, "clusters")
           tokens == Merged(old, [n \in brings |-> u[n]], (DOMAIN old \cup brings) \ DOMAIN u)
<1>1. /\ DOMAIN u \subseteq brings \cup c.clusters
      /\ Apply1("clusters", c, r, s).cfg = [c EXCEPT !.clusters = DOMAIN u]
      /\ Apply1("clusters", c, r, s).data =
             IF DOMAIN u = {} /\ c.clusters = {} THEN NoKeys ELSE [clusters |-> tokens]
  BY DEF Apply1, applyClusters
<1>2. Apply1("clusters", c, r, s).cfg.clusters = DOMAIN u
  BY <1>1 DEF IsCfg, CfgFields, Sections
<1>3. DOMAIN tokens = (DOMAIN old \cup brings) \cap DOMAIN u
  BY DEF Merged
<1>4. ASSUME NEW x \in DOMAIN u, x \notin DOMAIN KeysOf(Apply1("clusters", c, r, s).data, "clusters")
      PROVE  x \in c.clusters /\ x \notin DOMAIN old
  <2>1. Apply1("clusters", c, r, s).data = [clusters |-> tokens]
    BY <1>1, <1>4
  <2>2. KeysOf(Apply1("clusters", c, r, s).data, "clusters") = tokens
    BY <2>1 DEF KeysOf
  <2> QED BY <1>1, <1>3, <1>4, <2>2
<1> QED BY <1>2, <1>4

\* What all of them make of the settings.
LEMMA AppliedGives ==
    ASSUME NEW c, IsCfg(c), NEW r, NEW s
    PROVE  /\ DOMAIN Applied(r, c, s).data \subseteq DOMAIN r
           /\ \A sec \in HasSecret :
                  Applied(r, c, s).cfg[sec].ref => c[sec].ref \/ sec \in DOMAIN Applied(r, c, s).data
           /\ "clusters" \in DOMAIN r /\ Applied(r, c, s).ok =>
                /\ Applied(r, c, s).cfg.clusters = DOMAIN r.clusters
                /\ \A x \in DOMAIN r.clusters \ DOMAIN KeysOf(Applied(r, c, s).data, "clusters") :
                       x \in c.clusters /\ x \notin DOMAIN KeysOf(s, "clusters")
<1> DEFINE Gives(x) ==
             /\ IsCfg(x.cfg) /\ DOMAIN x.data \subseteq DOMAIN r
             /\ \A sec \in HasSecret : x.cfg[sec].ref => c[sec].ref \/ sec \in DOMAIN x.data
           Before(x) == x.cfg.clusters = c.clusters /\ "clusters" \notin DOMAIN x.data
<1>1. ASSUME NEW done, NEW sec \in Sections, Gives(done)
      PROVE  /\ Gives(ApplyNext(done, sec, r, s))
             /\ sec # "clusters" /\ Before(done) => Before(ApplyNext(done, sec, r, s))
  <2>1. PICK y : y = Apply1(sec, done.cfg, r, s)
    OBVIOUS
  <2>2. PICK n : n = ApplyNext(done, sec, r, s)
    OBVIOUS
  <2>3. n.cfg = y.cfg /\ DOMAIN n.data = DOMAIN y.data \cup DOMAIN done.data
    <3>1. n.cfg = y.cfg /\ n.data = Merged(done.data, y.data, {})
      BY <2>1, <2>2 DEF ApplyNext
    <3>2. DOMAIN Merged(done.data, y.data, {}) = DOMAIN done.data \cup DOMAIN y.data
      BY Joined
    <3> QED BY <3>1, <3>2
  <2>4. /\ IsCfg(y.cfg)
        /\ \A f \in CfgFields : f # sec \/ sec \notin DOMAIN r => y.cfg[f] = done.cfg[f]
    BY <1>1, <2>1, ApplierKeeps
  <2>5. /\ DOMAIN y.data \subseteq {sec} \cap DOMAIN r
        /\ sec \in HasSecret => (y.cfg[sec].ref => done.cfg[sec].ref \/ sec \in DOMAIN y.data)
    BY <1>1, <2>1, ApplierGives
  <2>6. ASSUME NEW other \in HasSecret, n.cfg[other].ref
        PROVE  c[other].ref \/ other \in DOMAIN n.data
    <3>1. CASE other = sec
      BY <1>1, <2>3, <2>5, <2>6, <3>1
    <3>2. CASE other # sec
      <4>1. y.cfg[other] = done.cfg[other]
        BY <2>4, <3>2 DEF CfgFields, Sections, HasSecret
      <4> QED BY <1>1, <2>3, <2>6, <4>1
    <3> QED BY <3>1, <3>2
  <2>7. Gives(n)
    BY <1>1, <2>3, <2>4, <2>5, <2>6
  <2>8. ASSUME sec # "clusters", Before(done) PROVE Before(n)
    BY <2>3, <2>4, <2>5, <2>8 DEF CfgFields, Sections
  <2> QED BY <2>2, <2>7, <2>8
<1> DEFINE x0 == [ok |-> TRUE, cfg |-> c, data |-> NoKeys]
<1>2. Gives(x0) /\ Before(x0)
  BY DEF NoKeys
<1> HIDE DEF Gives, Before
<1>3. PICK x1 : x1 = ApplyNext(x0, "cloud", r, s)
  OBVIOUS
<1>4. PICK x2 : x2 = ApplyNext(x1, "webex", r, s)
  OBVIOUS
<1>5. PICK x3 : x3 = ApplyNext(x2, "hook", r, s)
  OBVIOUS
<1>6. PICK x4 : x4 = ApplyNext(x3, "plain", r, s)
  OBVIOUS
<1>7. PICK x5 : x5 = ApplyNext(x4, "signin", r, s)
  OBVIOUS
<1>8. PICK x6 : x6 = ApplyNext(x5, "clusters", r, s)
  OBVIOUS
<1>9. Gives(x1) /\ Before(x1)
  BY <1>1, <1>2, <1>3 DEF Sections
<1>10. Gives(x2) /\ Before(x2)
  BY <1>1, <1>4, <1>9 DEF Sections
<1>11. Gives(x3) /\ Before(x3)
  BY <1>1, <1>5, <1>10 DEF Sections
<1>12. Gives(x4) /\ Before(x4)
  BY <1>1, <1>6, <1>11 DEF Sections
<1>13. Gives(x5) /\ Before(x5)
  BY <1>1, <1>7, <1>12 DEF Sections
<1>14. Gives(x6)
  BY <1>1, <1>8, <1>13 DEF Sections
<1>15. Applied(r, c, s) = x6
  BY <1>3, <1>4, <1>5, <1>6, <1>7, <1>8 DEF Applied
<1>16. ASSUME "clusters" \in DOMAIN r, x6.ok
       PROVE  /\ x6.cfg.clusters = DOMAIN r.clusters
              /\ \A x \in DOMAIN r.clusters \ DOMAIN KeysOf(x6.data, "clusters") :
                     x \in c.clusters /\ x \notin DOMAIN KeysOf(s, "clusters")
  <2>1. PICK y : y = Apply1("clusters", x5.cfg, r, s)
    OBVIOUS
  <2>2. IsCfg(x5.cfg) /\ x5.cfg.clusters = c.clusters /\ "clusters" \notin DOMAIN x5.data
    BY <1>13 DEF Gives, Before
  <2>3. x6.cfg = y.cfg /\ x6.data = Merged(x5.data, y.data, {}) /\ y.ok
    <3>1. x6 = [ok |-> x5.ok /\ y.ok, cfg |-> y.cfg, data |-> Merged(x5.data, y.data, {})]
      BY <1>8, <2>1 DEF ApplyNext
    <3>2. x5.ok /\ y.ok
      BY <1>16, <3>1
    <3> QED BY <3>1, <3>2
  <2>4. /\ y.cfg.clusters = DOMAIN r.clusters
        /\ \A x \in DOMAIN r.clusters \ DOMAIN KeysOf(y.data, "clusters") :
               x \in x5.cfg.clusters /\ x \notin DOMAIN KeysOf(s, "clusters")
    BY <1>16, <2>1, <2>2, <2>3, ClustersGive
  <2>5. KeysOf(x6.data, "clusters") = KeysOf(y.data, "clusters")
    <3>1. /\ ("clusters" \in DOMAIN x6.data) <=> ("clusters" \in DOMAIN y.data)
          /\ "clusters" \in DOMAIN y.data => x6.data["clusters"] = y.data["clusters"]
      <4>1. DOMAIN Merged(x5.data, y.data, {}) = DOMAIN x5.data \cup DOMAIN y.data
        BY Joined
      <4>2. \A x \in DOMAIN y.data : Merged(x5.data, y.data, {})[x] = y.data[x]
        BY DEF Merged
      <4>3. PICK d : d = Merged(x5.data, y.data, {})
        OBVIOUS
      <4>4. x6.data = d
        BY <2>3, <4>3
      <4>5. DOMAIN d = DOMAIN x5.data \cup DOMAIN y.data /\ \A x \in DOMAIN y.data : d[x] = y.data[x]
        BY <4>1, <4>2, <4>3
      <4> QED BY <2>2, <4>4, <4>5
    <3> QED BY <3>1 DEF KeysOf
  <2> QED BY <2>2, <2>3, <2>4, <2>5
<1> QED BY <1>14, <1>15, <1>16 DEF Gives
(* The steps of a save: what becomes of admin a's.                           *)

Becomes(a, x) == saving' = [b \in Admins |-> IF b = a THEN x ELSE saving[b]]
SameSections == \A sec \in Sections : cfg'[sec] = cfg[sec]

Starts(a, x) ==
    /\ saving[a].pc = "idle" /\ UNCHANGED <<cfg, secrets, torn>>
    /\ \E r : x = [pc |-> "apply", req |-> r, tries |-> 1, wrote |-> {}]

Accepts(a, x) ==
    /\ saving[a].pc = "apply" /\ UNCHANGED <<secrets, torn>>
    /\ SameSections /\ IsCfg(cfg') /\ cfg'.version >= cfg.version
    /\ LET done == Applied(saving[a].req, cfg', secrets)
       IN /\ done.ok
          /\ x = [pc |-> "secrets", req |-> saving[a].req, tries |-> saving[a].tries,
                  wrote |-> saving[a].wrote, new |-> done.cfg, data |-> done.data,
                  todo |-> DOMAIN done.data]

Refuses(a, x) ==
    /\ saving[a].pc = "apply" /\ UNCHANGED <<secrets, torn>>
    /\ SameSections /\ cfg'.version >= cfg.version
    /\ x = [pc |-> "refused", req |-> saving[a].req, tries |-> saving[a].tries, wrote |-> saving[a].wrote]

Writes(a, x, sec) ==
    /\ saving[a].pc = "secrets" /\ sec \in saving[a].todo /\ cfg' = cfg
    /\ secrets' = Merged(secrets, [s \in {sec} |-> saving[a].data[s]], {})
    /\ x = [saving[a] EXCEPT !.todo = @ \ {sec}, !.wrote = @ \cup {sec}]
    /\ torn' = (torn \/ (sec = "clusters" /\ OthersIn(a, sec)))

Stores(a, x) ==
    /\ saving[a].pc = "secrets" /\ saving[a].todo = {} /\ saving[a].new.version = cfg.version
    /\ cfg'.version = cfg.version + 1 /\ \A sec \in Sections : cfg'[sec] = saving[a].new[sec]
    /\ x = NotSaving /\ UNCHANGED <<secrets, torn>>

Retries(a, x) ==
    /\ saving[a].pc = "secrets" /\ UNCHANGED <<cfg, secrets, torn>>
    /\ x = [pc |-> "apply", req |-> saving[a].req, tries |-> saving[a].tries + 1,
            wrote |-> saving[a].wrote]

Ends(a, x) ==
    /\ x = NotSaving /\ UNCHANGED <<cfg, secrets>>
    /\ torn' = (torn \/ "clusters" \in saving[a].wrote)

StatusMoves ==
    UNCHANGED <<saving, secrets, torn>> /\ SameSections /\ cfg'.version > cfg.version

LEMMA SaveKinds ==
    ASSUME SaveInv, SecretInv, SaveNext
    PROVE  \/ StatusMoves
           \/ \E a \in Admins : \E x :
                 /\ Becomes(a, x)
                 /\ \/ Starts(a, x) \/ Accepts(a, x) \/ Refuses(a, x) \/ Stores(a, x)
                    \/ Retries(a, x) \/ Ends(a, x) \/ \E sec : Writes(a, x, sec)
<1>0. IsCfg(cfg) /\ IsCfg(cfg)' /\ cfg.version \in Nat /\ cfg'.version \in Nat
  BY CfgMoves DEF SaveInv, IsCfg
<1>1. ASSUME NEW a \in Admins, NEW x, saving' = [saving EXCEPT ![a] = x] PROVE Becomes(a, x)
  BY <1>1 DEF SaveInv, Becomes
<1>2. CASE \E a \in Admins, r \in Saves : Send(a, r)
  <2>1. PICK a \in Admins, r \in Saves : Send(a, r)
    BY <1>2
  <2>2. PICK x : x = [pc |-> "apply", req |-> r, tries |-> 1, wrote |-> {}]
    OBVIOUS
  <2>3. Becomes(a, x) /\ Starts(a, x)
    BY <1>1, <2>1, <2>2 DEF Send, Starts
  <2> QED BY <2>3
<1>3. ASSUME NEW a \in Admins, ApplySections(a)
      PROVE  \E x : Becomes(a, x) /\ (Accepts(a, x) \/ Refuses(a, x))
  <2>1. cfg' = [cfg EXCEPT !.version = IF cfg.version = 0 THEN 1 ELSE cfg.version]
    BY <1>3 DEF ApplySections
  <2>2. SameSections /\ cfg'.version >= cfg.version
    <3>1. PICK n \in Nat : n >= cfg.version /\ n = IF cfg.version = 0 THEN 1 ELSE cfg.version
      BY <1>0
    <3>2. cfg' = [cfg EXCEPT !.version = n]
      BY <2>1, <3>1
    <3> QED BY <1>0, <3>1, <3>2 DEF SameSections, IsCfg, CfgFields, Sections
  <2>3. PICK done : done = Applied(saving[a].req, cfg', secrets)
    OBVIOUS
  <2>4. CASE done.ok
    <3>1. PICK x : x = [pc |-> "secrets", req |-> saving[a].req, tries |-> saving[a].tries,
                        wrote |-> saving[a].wrote, new |-> done.cfg, data |-> done.data,
                        todo |-> DOMAIN done.data]
      OBVIOUS
    <3>2. saving' = [saving EXCEPT ![a] = x]
      BY <1>3, <2>3, <2>4, <3>1 DEF ApplySections
    <3>3. Accepts(a, x)
      BY <1>0, <1>3, <2>2, <2>3, <2>4, <3>1 DEF Accepts, ApplySections
    <3> QED BY <1>1, <3>2, <3>3
  <2>5. CASE ~done.ok
    <3>1. PICK x : x = [pc |-> "refused", req |-> saving[a].req, tries |-> saving[a].tries,
                        wrote |-> saving[a].wrote]
      OBVIOUS
    <3>2. saving' = [saving EXCEPT ![a] = x]
      BY <1>3, <2>3, <2>5, <3>1 DEF ApplySections
    <3>3. Refuses(a, x)
      BY <1>3, <2>2, <3>1 DEF Refuses, ApplySections
    <3> QED BY <1>1, <3>2, <3>3
  <2> QED BY <2>4, <2>5
<1>4. ASSUME NEW a \in Admins, WriteSecret(a)
      PROVE  \E x : Becomes(a, x) /\ (Ends(a, x) \/ \E sec : Writes(a, x, sec))
  <2>1. PICK sec \in saving[a].todo :
          \/ /\ secrets' = Merged(secrets, [s \in {sec} |-> saving[a].data[s]], {})
             /\ saving' = [saving EXCEPT ![a].todo = @ \ {sec}, ![a].wrote = @ \cup {sec}]
             /\ torn' = (torn \/ (sec = "clusters" /\ OthersIn(a, sec)))
          \/ /\ saving' = [saving EXCEPT ![a] = NotSaving]
             /\ torn' = (torn \/ "clusters" \in saving[a].wrote)
             /\ UNCHANGED secrets
    BY <1>4 DEF WriteSecret
  <2>2. saving[a].pc = "secrets" /\ cfg' = cfg
    BY <1>4 DEF WriteSecret
  <2>3. CASE saving' = [saving EXCEPT ![a].todo = @ \ {sec}, ![a].wrote = @ \cup {sec}]
             /\ secrets' = Merged(secrets, [s \in {sec} |-> saving[a].data[s]], {})
             /\ torn' = (torn \/ (sec = "clusters" /\ OthersIn(a, sec)))
    <3>1. PICK x : x = [saving[a] EXCEPT !.todo = @ \ {sec}, !.wrote = @ \cup {sec}]
      OBVIOUS
    <3>2. saving' = [saving EXCEPT ![a] = x]
      <4>1. {"todo", "wrote"} \subseteq DOMAIN saving[a]
        BY <2>2 DEF SecretInv, SaveShape
      <4> QED BY <2>3, <3>1, <4>1 DEF SaveInv
    <3>3. Writes(a, x, sec)
      BY <2>2, <2>3, <3>1 DEF Writes
    <3> QED BY <1>1, <3>2, <3>3
  <2>4. CASE saving' = [saving EXCEPT ![a] = NotSaving] /\ UNCHANGED secrets
             /\ torn' = (torn \/ "clusters" \in saving[a].wrote)
    <3>1. PICK x : x = NotSaving
      OBVIOUS
    <3>2. Becomes(a, x) /\ Ends(a, x)
      BY <1>1, <2>2, <2>4, <3>1 DEF Ends
    <3> QED BY <3>2
  <2> QED BY <2>1, <2>3, <2>4
<1>5. ASSUME NEW a \in Admins, UpdateConfig(a)
      PROVE  \E x : Becomes(a, x) /\ (Stores(a, x) \/ Retries(a, x) \/ Ends(a, x))
  <2>1. saving[a].pc = "secrets" /\ saving[a].todo = {} /\ secrets' = secrets
    BY <1>5 DEF UpdateConfig
  <2>2. CASE /\ saving[a].new.version = cfg.version
             /\ cfg' = [saving[a].new EXCEPT !.version = @ + 1]
             /\ saving' = [saving EXCEPT ![a] = NotSaving] /\ UNCHANGED torn
    <3>1. PICK x : x = NotSaving
      OBVIOUS
    <3>2. IsCfg(saving[a].new)
      BY <2>1 DEF SaveInv, Prepared
    <3>3. cfg'.version = cfg.version + 1 /\ \A sec \in Sections : cfg'[sec] = saving[a].new[sec]
      <4>1. PICK c : c = saving[a].new
        OBVIOUS
      <4>2. IsCfg(c) /\ cfg' = [c EXCEPT !.version = cfg.version + 1]
        BY <2>2, <3>2, <4>1
      <4> QED BY <4>1, <4>2 DEF IsCfg, CfgFields, Sections
    <3>4. Becomes(a, x) /\ Stores(a, x)
      BY <1>1, <2>1, <2>2, <3>1, <3>3 DEF Stores
    <3> QED BY <3>4
  <2>3. CASE /\ saving' = [saving EXCEPT ![a] = [pc |-> "apply", req |-> saving[a].req,
                            tries |-> saving[a].tries + 1, wrote |-> saving[a].wrote]]
             /\ UNCHANGED <<cfg, torn>>
    <3>1. PICK x : x = [pc |-> "apply", req |-> saving[a].req, tries |-> saving[a].tries + 1,
                        wrote |-> saving[a].wrote]
      OBVIOUS
    <3>2. Becomes(a, x) /\ Retries(a, x)
      BY <1>1, <2>1, <2>3, <3>1 DEF Retries
    <3> QED BY <3>2
  <2>4. CASE /\ saving' = [saving EXCEPT ![a] = NotSaving] /\ UNCHANGED cfg
             /\ torn' = (torn \/ "clusters" \in saving[a].wrote)
    <3>1. PICK x : x = NotSaving
      OBVIOUS
    <3>2. Becomes(a, x) /\ Ends(a, x)
      BY <1>1, <2>1, <2>4, <3>1 DEF Ends
    <3> QED BY <3>2
  <2> QED BY <1>5, <2>2, <2>3, <2>4 DEF UpdateConfig
<1>6. ASSUME NEW a \in Admins, Refused(a) PROVE \E x : Becomes(a, x) /\ Ends(a, x)
  <2>1. PICK x : x = NotSaving
    OBVIOUS
  <2>2. Becomes(a, x) /\ Ends(a, x)
    BY <1>1, <1>6, <2>1 DEF Refused, Ends
  <2> QED BY <2>2
<1>7. ASSUME WriteStatus PROVE StatusMoves
  <2>1. cfg' = [cfg EXCEPT !.version = cfg.version + 1]
    BY <1>7 DEF WriteStatus
  <2> QED BY <1>0, <1>7, <2>1 DEF WriteStatus, StatusMoves, SameSections, IsCfg, CfgFields, Sections
<1> QED BY <1>2, <1>3, <1>4, <1>5, <1>6, <1>7 DEF SaveNext
LEMMA SecretStep ==
    ASSUME SaveInv, SecretInv, SaveNext
    PROVE  SecretInv'
<1>0. HasSecret \subseteq Sections
  BY DEF HasSecret, Sections
<1>1. ASSUME SameSections, UNCHANGED secrets PROVE Backed(cfg, DOMAIN secrets)'
  BY <1>0, <1>1 DEF SecretInv, Backed, SameSections
<1>2. ASSUME NEW a \in Admins, NEW x, Becomes(a, x), DOMAIN secrets \subseteq DOMAIN secrets',
             Backed(cfg, DOMAIN secrets)',
             saving'[a] = x => SaveShape(a)',
             saving'[a] = x /\ x.pc = "secrets" => Backed(x.new, DOMAIN secrets' \cup x.todo)
      PROVE  SecretInv'
  <2>1. saving'[a] = x /\ \A b \in Admins \ {a} : saving'[b] = saving[b]
    BY <1>2 DEF Becomes
  <2>2. ASSUME NEW b \in Admins, b # a
        PROVE  /\ SaveShape(b)'
               /\ saving'[b].pc = "secrets" => Backed(saving[b].new, DOMAIN secrets \cup saving[b].todo)'
    <3>1. saving'[b] = saving[b] /\ SaveShape(b)
      BY <2>1, <2>2 DEF SecretInv
    <3>2. SaveShape(b)'
      BY <3>1 DEF SaveShape
    <3>3. saving[b].pc = "secrets" => Backed(saving[b].new, DOMAIN secrets \cup saving[b].todo)
      BY DEF SecretInv
    <3>4. saving[b].pc = "secrets" => Backed(saving[b].new, DOMAIN secrets' \cup saving[b].todo)
      BY <1>2, <3>3 DEF Backed
    <3>5. ASSUME saving'[b].pc = "secrets"
          PROVE  Backed(saving[b].new, DOMAIN secrets \cup saving[b].todo)'
      BY <3>1, <3>4, <3>5 DEF Backed
    <3> QED BY <3>2, <3>5
  <2>3. SaveShape(a)'
    BY <1>2, <2>1
  <2>4. ASSUME saving'[a].pc = "secrets"
        PROVE  Backed(saving[a].new, DOMAIN secrets \cup saving[a].todo)'
    BY <1>2, <2>1, <2>4 DEF Backed
  <2> QED BY <1>2, <2>2, <2>3, <2>4 DEF SecretInv
<1>3. ASSUME NEW a \in Admins, NEW x, Becomes(a, x), x = NotSaving, Backed(cfg, DOMAIN secrets)',
             UNCHANGED secrets
      PROVE  SecretInv'
  <2>1. x.pc = "idle"
    BY <1>3 DEF NotSaving
  <2> QED BY <1>2, <1>3, <2>1 DEF SaveShape
<1>4. CASE StatusMoves
  <2>1. Backed(cfg, DOMAIN secrets)'
    BY <1>1, <1>4 DEF StatusMoves
  <2>2. UNCHANGED <<saving, secrets>>
    BY <1>4 DEF StatusMoves
  <2> QED BY <2>1, <2>2 DEF SecretInv, SaveShape, Backed
<1>5. ASSUME NEW a \in Admins, NEW x, Becomes(a, x), Starts(a, x) PROVE SecretInv'
  <2>1. Backed(cfg, DOMAIN secrets)' /\ UNCHANGED secrets
    BY <1>5 DEF SecretInv, Backed, Starts
  <2>2. PICK r : x = [pc |-> "apply", req |-> r, tries |-> 1, wrote |-> {}]
    BY <1>5 DEF Starts
  <2>3. saving'[a] = x => SaveShape(a)'
    BY <2>2 DEF SaveShape
  <2> QED BY <1>2, <1>5, <2>1, <2>2, <2>3
<1>6. ASSUME NEW a \in Admins, NEW x, Becomes(a, x), Accepts(a, x) PROVE SecretInv'
  <2>1. Backed(cfg, DOMAIN secrets)' /\ UNCHANGED secrets
    BY <1>1, <1>6 DEF Accepts
  <2>2. SaveShape(a) /\ saving[a].pc = "apply"
    BY <1>6 DEF SecretInv, Accepts
  <2>3. PICK r, done : r = saving[a].req /\ done = Applied(r, cfg', secrets)
    OBVIOUS
  <2>4. x = [pc |-> "secrets", req |-> r, tries |-> saving[a].tries, wrote |-> saving[a].wrote,
             new |-> done.cfg, data |-> done.data, todo |-> DOMAIN done.data]
    BY <1>6, <2>3 DEF Accepts
  <2>5. /\ DOMAIN done.data \subseteq DOMAIN r
        /\ \A sec \in HasSecret : done.cfg[sec].ref => cfg'[sec].ref \/ sec \in DOMAIN done.data
    BY <1>6, <2>3, AppliedGives DEF Accepts
  <2>6. saving'[a] = x => SaveShape(a)'
    BY <2>2, <2>3, <2>4, <2>5 DEF SaveShape
  <2>7. Backed(x.new, DOMAIN secrets' \cup x.todo)
    BY <2>1, <2>4, <2>5 DEF Backed
  <2> QED BY <1>2, <1>6, <2>1, <2>6, <2>7
<1>7. ASSUME NEW a \in Admins, NEW x, Becomes(a, x), Refuses(a, x) PROVE SecretInv'
  <2>1. Backed(cfg, DOMAIN secrets)' /\ UNCHANGED secrets
    BY <1>1, <1>7 DEF Refuses
  <2>2. SaveShape(a) /\ saving[a].pc = "apply"
    BY <1>7 DEF SecretInv, Refuses
  <2>3. x = [pc |-> "refused", req |-> saving[a].req, tries |-> saving[a].tries, wrote |-> saving[a].wrote]
    BY <1>7 DEF Refuses
  <2>4. saving'[a] = x => SaveShape(a)'
    BY <2>2, <2>3 DEF SaveShape
  <2> QED BY <1>2, <1>7, <2>1, <2>3, <2>4
<1>8. ASSUME NEW a \in Admins, NEW x, Becomes(a, x), NEW sec, Writes(a, x, sec) PROVE SecretInv'
  <2>1. PICK f : f = saving[a]
    OBVIOUS
  <2>2. /\ {"pc", "req", "tries", "wrote", "new", "data", "todo"} \subseteq DOMAIN f
        /\ f.tries \in Nat \ {0} /\ f.wrote \subseteq DOMAIN f.req
        /\ f.todo \subseteq DOMAIN f.data /\ DOMAIN f.data \subseteq DOMAIN f.req
        /\ f.pc = "secrets" /\ sec \in f.todo
    BY <1>8, <2>1 DEF SecretInv, SaveShape, Writes
  <2>3. x = [f EXCEPT !.todo = @ \ {sec}, !.wrote = @ \cup {sec}]
    BY <1>8, <2>1 DEF Writes
  <2>4. /\ DOMAIN x = DOMAIN f /\ x.pc = f.pc /\ x.req = f.req /\ x.tries = f.tries /\ x.new = f.new
        /\ x.data = f.data /\ x.todo = f.todo \ {sec} /\ x.wrote = f.wrote \cup {sec}
    BY <2>2, <2>3
  <2>5. saving'[a] = x => SaveShape(a)'
    BY <2>2, <2>4 DEF SaveShape
  <2>6. DOMAIN secrets' = DOMAIN secrets \cup {sec}
    BY <1>8, Joined DEF Writes
  <2>7. Backed(f.new, DOMAIN secrets \cup f.todo)
    BY <2>1, <2>2 DEF SecretInv
  <2>8. Backed(x.new, DOMAIN secrets' \cup x.todo)
    BY <2>4, <2>6, <2>7 DEF Backed
  <2>9. Backed(cfg, DOMAIN secrets)'
    BY <1>8, <2>6 DEF SecretInv, Backed, Writes
  <2> QED BY <1>2, <1>8, <2>5, <2>6, <2>8, <2>9
<1>9. ASSUME NEW a \in Admins, NEW x, Becomes(a, x), Stores(a, x) PROVE SecretInv'
  <2>1. Backed(saving[a].new, DOMAIN secrets)
    BY <1>9 DEF SecretInv, Stores
  <2>2. Backed(cfg, DOMAIN secrets)'
    BY <1>0, <1>9, <2>1 DEF Stores, Backed
  <2> QED BY <1>3, <1>9, <2>2 DEF Stores
<1>10. ASSUME NEW a \in Admins, NEW x, Becomes(a, x), Retries(a, x) PROVE SecretInv'
  <2>1. Backed(cfg, DOMAIN secrets)' /\ UNCHANGED secrets
    BY <1>10 DEF SecretInv, Backed, Retries
  <2>2. SaveShape(a) /\ saving[a].pc = "secrets"
    BY <1>10 DEF SecretInv, Retries
  <2>3. x = [pc |-> "apply", req |-> saving[a].req, tries |-> saving[a].tries + 1, wrote |-> saving[a].wrote]
    BY <1>10 DEF Retries
  <2>4. saving'[a] = x => SaveShape(a)'
    BY <2>2, <2>3 DEF SaveShape
  <2> QED BY <1>2, <1>10, <2>1, <2>3, <2>4
<1>11. ASSUME NEW a \in Admins, NEW x, Becomes(a, x), Ends(a, x) PROVE SecretInv'
  <2>1. Backed(cfg, DOMAIN secrets)' /\ UNCHANGED secrets
    BY <1>11 DEF SecretInv, Backed, Ends
  <2> QED BY <1>3, <1>11, <2>1 DEF Ends
<1> QED BY <1>4, <1>5, <1>6, <1>7, <1>8, <1>9, <1>10, <1>11, SaveKinds
\* What the others are at stays.
LEMMA OthersStay ==
    ASSUME NEW a \in Admins, NEW x, Becomes(a, x)
    PROVE  /\ saving'[a] = x
           /\ \A b \in Admins \ {a} :
                  /\ saving'[b] = saving[b]
                  /\ Replaces(b)' <=> Replaces(b)
                  /\ Written(b)' <=> Written(b)
                  /\ Brought(b)' = Brought(b)
                  /\ \A y : Drops(b, y)' <=> Drops(b, y)
<1>1. saving'[a] = x /\ \A b \in Admins \ {a} : saving'[b] = saving[b]
  BY DEF Becomes
<1>2. ASSUME NEW b \in Admins \ {a}
      PROVE  /\ Replaces(b)' <=> Replaces(b)
             /\ Written(b)' <=> Written(b)
             /\ Brought(b)' = Brought(b)
             /\ \A y : Drops(b, y)' <=> Drops(b, y)
  BY <1>1 DEF Replaces, Written, Brought, Drops
<1> QED BY <1>1, <1>2

\* No save under way is of a version to come.
LEMMA NotAhead ==
    ASSUME SaveInv, SaveNext, NEW a \in Admins, Replaces(a), saving[a].new.version = cfg'.version
    PROVE  saving[a].new.version = cfg.version /\ SameSections
<1>1. IsCfg(saving[a].new) /\ saving[a].new.version <= cfg.version
  BY DEF SaveInv, Prepared, Replaces
<1>2. /\ cfg.version \in Nat /\ cfg'.version \in Nat
      /\ \/ cfg'.version > cfg.version
         \/ cfg'.version = cfg.version /\ SameSections
  BY CfgMoves DEF SaveInv, IsCfg, SameSections
<1> QED BY <1>1, <1>2 DEF IsCfg

LEMMA ClusterStep ==
    ASSUME SaveInv, SecretInv, ClusterInv, SaveNext
    PROVE  ClusterInv'
<1>0. torn \in BOOLEAN
  BY DEF ClusterInv
<1>1. ASSUME NEW a \in Admins, NEW x, Becomes(a, x), x.pc # "secrets", UNCHANGED <<secrets, torn>>,
             SameSections, \A y : Drops(a, y) => Drops(a, y)'
      PROVE  ClusterInv'
  <2> SUFFICES ASSUME ~torn PROVE Listed' /\ \A b \in Admins : Missing(b)' /\ Alone(b)'
    BY <1>0, <1>1 DEF ClusterInv
  <2>0. Listed /\ \A b \in Admins : Missing(b) /\ Alone(b)
    BY DEF ClusterInv
  <2>1. ~Replaces(a)' /\ ~Written(a)'
    BY <1>1, OthersStay DEF Replaces, Written
  <2>2. ASSUME NEW y, Dropped(y) PROVE Dropped(y)'
    BY <1>1, <2>2, OthersStay DEF Dropped
  <2>3. TokensThere' = TokensThere /\ cfg'.clusters = cfg.clusters
    BY <1>1 DEF TokensThere, SameSections, Sections
  <2>4. Listed'
    BY <2>0, <2>2, <2>3 DEF Listed
  <2>5. ASSUME NEW b \in Admins, Replaces(b)' PROVE Missing(b)'
    <3>1. b # a /\ Replaces(b) /\ saving'[b] = saving[b] /\ Brought(b)' = Brought(b)
      BY <1>1, <2>1, <2>5, OthersStay
    <3>2. ASSUME NEW y \in saving[b].new.clusters \ Brought(b)
          PROVE  /\ y \in cfg'.clusters => Dropped(y)'
                 /\ saving[b].new.version = cfg'.version => y \in cfg'.clusters
      BY <2>0, <2>2, <2>3, <3>1, <3>2, NotAhead DEF Missing
    <3> QED BY <2>0, <3>1, <3>2 DEF Missing
  <2>6. ASSUME NEW b \in Admins, Written(b)' PROVE Alone(b)'
    <3>1. b # a /\ Written(b) /\ saving'[b] = saving[b] /\ Brought(b)' = Brought(b)
      BY <1>1, <2>1, <2>6, OthersStay
    <3>2. ASSUME NEW d \in Admins \ {b}, Replaces(d)'
          PROVE  ~Written(d)' /\ (Brought(b) \cap DOMAIN saving[d].req.clusters \subseteq Brought(d))'
      <4>1. /\ d # a /\ Replaces(d) /\ saving'[d] = saving[d] /\ Brought(d)' = Brought(d)
            /\ Written(d)' <=> Written(d)
        BY <1>1, <2>1, <3>2, OthersStay
      <4> QED BY <2>0, <3>1, <3>2, <4>1 DEF Alone
    <3>3. TokensThere' = Brought(b)'
      BY <2>0, <2>3, <3>1 DEF Alone
    <3> QED BY <3>2, <3>3 DEF Alone
  <2>7. \A b \in Admins : Missing(b)'
    BY <2>5 DEF Missing
  <2>8. \A b \in Admins : Alone(b)'
    BY <2>6 DEF Alone
  <2> QED BY <2>4, <2>7, <2>8
<1>2. CASE StatusMoves
  <2> SUFFICES ASSUME ~torn PROVE Listed' /\ \A b \in Admins : Missing(b)' /\ Alone(b)'
    BY <1>0, <1>2 DEF ClusterInv, StatusMoves
  <2>0. Listed /\ \A b \in Admins : Missing(b) /\ Alone(b)
    BY DEF ClusterInv
  <2>1. saving' = saving /\ secrets' = secrets /\ cfg'.clusters = cfg.clusters
    BY <1>2 DEF StatusMoves, SameSections, Sections
  <2>2. Listed'
    BY <2>0, <2>1 DEF Listed, TokensThere, Dropped, Drops
  <2>3. ASSUME NEW b \in Admins PROVE Missing(b)' /\ Alone(b)'
    <3>1. Replaces(b) /\ saving[b].new.version = cfg'.version => saving[b].new.version = cfg.version
      BY NotAhead
    <3> QED BY <2>0, <2>1, <3>1 DEF Missing, Alone, Replaces, Written, Brought, TokensThere, Dropped, Drops
  <2> QED BY <2>2, <2>3
<1>3. ASSUME NEW a \in Admins, NEW x, Becomes(a, x), Starts(a, x) PROVE ClusterInv'
  <2>1. x.pc # "secrets" /\ UNCHANGED <<secrets, torn>> /\ SameSections
    BY <1>3 DEF Starts, SameSections
  <2>2. \A y : ~Drops(a, y)
    BY <1>3 DEF Starts, Drops
  <2> QED BY <1>1, <1>3, <2>1, <2>2
<1>4. ASSUME NEW a \in Admins, NEW x, Becomes(a, x), Refuses(a, x) PROVE ClusterInv'
  <2>1. x.pc = "refused" /\ x.req = saving[a].req /\ x.wrote = saving[a].wrote
    BY <1>4 DEF Refuses
  <2>2. \A y : Drops(a, y) => Drops(a, y)'
    BY <1>4, <2>1, OthersStay DEF Drops
  <2>3. UNCHANGED <<secrets, torn>> /\ SameSections
    BY <1>4 DEF Refuses
  <2> QED BY <1>1, <1>4, <2>1, <2>2, <2>3
<1>5. ASSUME NEW a \in Admins, NEW x, Becomes(a, x), Retries(a, x) PROVE ClusterInv'
  <2>1. x.pc = "apply" /\ x.req = saving[a].req /\ x.wrote = saving[a].wrote
    BY <1>5 DEF Retries
  <2>2. \A y : Drops(a, y) => Drops(a, y)'
    BY <1>5, <2>1, OthersStay DEF Drops
  <2>3. UNCHANGED <<secrets, torn>> /\ SameSections
    BY <1>5 DEF Retries, SameSections
  <2> QED BY <1>1, <1>5, <2>1, <2>2, <2>3
<1>6. ASSUME NEW a \in Admins, NEW x, Becomes(a, x), Ends(a, x) PROVE ClusterInv'
  <2>1. CASE "clusters" \in saving[a].wrote
    <3>1. torn' = TRUE
      BY <1>6, <2>1 DEF Ends
    <3> QED BY <3>1 DEF ClusterInv
  <2>2. CASE "clusters" \notin saving[a].wrote
    <3>1. torn' = torn
      BY <1>0, <1>6, <2>2 DEF Ends
    <3>2. \A y : ~Drops(a, y)
      BY <2>2 DEF Drops
    <3>3. x.pc # "secrets" /\ UNCHANGED secrets /\ SameSections
      BY <1>6 DEF Ends, NotSaving, SameSections
    <3> QED BY <1>1, <1>6, <3>1, <3>2, <3>3
  <2> QED BY <2>1, <2>2
<1>7. ASSUME NEW a \in Admins, NEW x, Becomes(a, x), Accepts(a, x) PROVE ClusterInv'
  <2> SUFFICES ASSUME ~torn PROVE Listed' /\ \A b \in Admins : Missing(b)' /\ Alone(b)'
    BY <1>0, <1>7 DEF ClusterInv, Accepts
  <2>0. Listed /\ \A b \in Admins : Missing(b) /\ Alone(b)
    BY DEF ClusterInv
  <2>1. PICK r, done : r = saving[a].req /\ done = Applied(r, cfg', secrets)
    OBVIOUS
  <2>2. /\ x.pc = "secrets" /\ x.req = r /\ x.wrote = saving[a].wrote /\ x.new = done.cfg
        /\ x.data = done.data /\ x.todo = DOMAIN done.data
    BY <1>7, <2>1 DEF Accepts
  <2>3. "clusters" \in DOMAIN r =>
          /\ done.cfg.clusters = DOMAIN r.clusters
          /\ \A y \in DOMAIN r.clusters \ DOMAIN KeysOf(done.data, "clusters") :
                 y \in cfg'.clusters /\ y \notin DOMAIN KeysOf(secrets, "clusters")
    BY <1>7, <2>1, AppliedGives DEF Accepts
  <2>4. TokensThere' = TokensThere /\ cfg'.clusters = cfg.clusters
    BY <1>7 DEF Accepts, TokensThere, SameSections, Sections
  <2>5. ASSUME NEW y, Dropped(y) PROVE Dropped(y)'
    <3>1. Drops(a, y) => Drops(a, y)'
      BY <1>7, <2>1, <2>2, OthersStay DEF Drops
    <3> QED BY <1>7, <2>5, <3>1, OthersStay DEF Dropped
  <2>6. Listed'
    BY <2>0, <2>4, <2>5 DEF Listed
  <2>7. /\ ~Written(a)'
        /\ Brought(a)' = DOMAIN KeysOf(done.data, "clusters")
        /\ saving'[a] = x /\ (Replaces(a)' => "clusters" \in DOMAIN r)
    BY <1>7, <2>2, OthersStay DEF Written, Replaces, Brought
  <2>8. ASSUME NEW b \in Admins, Replaces(b)' PROVE Missing(b)'
    <3>1. CASE b = a
      <4>1. ASSUME NEW y \in DOMAIN r.clusters \ Brought(a)'
            PROVE  y \in cfg'.clusters /\ Dropped(y)'
        <5>1. y \in cfg.clusters /\ y \notin TokensThere
          BY <2>3, <2>4, <2>7, <2>8, <3>1, <4>1 DEF TokensThere
        <5> QED BY <2>0, <2>4, <2>5, <5>1 DEF Listed
      <4> QED BY <2>2, <2>3, <2>7, <2>8, <3>1, <4>1 DEF Missing
    <3>2. CASE b # a
      <4>1. Replaces(b) /\ saving'[b] = saving[b] /\ Brought(b)' = Brought(b)
        BY <1>7, <2>8, <3>2, OthersStay
      <4>2. ASSUME NEW y \in saving[b].new.clusters \ Brought(b)
            PROVE  /\ y \in cfg'.clusters => Dropped(y)'
                   /\ saving[b].new.version = cfg'.version => y \in cfg'.clusters
        BY <2>0, <2>4, <2>5, <4>1, <4>2, NotAhead DEF Missing
      <4> QED BY <2>0, <4>1, <4>2 DEF Missing
    <3> QED BY <3>1, <3>2
  <2>9. ASSUME NEW b \in Admins, Written(b)' PROVE Alone(b)'
    <3>1. b # a /\ Written(b) /\ saving'[b] = saving[b] /\ Brought(b)' = Brought(b)
      BY <1>7, <2>7, <2>9, OthersStay
    <3>2. TokensThere' = Brought(b)'
      BY <2>0, <2>4, <3>1 DEF Alone
    <3>3. ASSUME NEW d \in Admins \ {b}, Replaces(d)'
          PROVE  ~Written(d)' /\ (Brought(b) \cap DOMAIN saving[d].req.clusters \subseteq Brought(d))'
      <4>1. CASE d = a
        <5>1. ASSUME NEW y \in Brought(b)' \cap DOMAIN r.clusters PROVE y \in Brought(a)'
          BY <2>3, <2>4, <2>7, <3>2, <3>3, <4>1, <5>1 DEF TokensThere
        <5> QED BY <2>2, <2>7, <4>1, <5>1
      <4>2. CASE d # a
        <5>1. /\ Replaces(d) /\ saving'[d] = saving[d] /\ Brought(d)' = Brought(d)
              /\ Written(d)' <=> Written(d)
          BY <1>7, <3>3, <4>2, OthersStay
        <5> QED BY <2>0, <3>1, <3>3, <5>1 DEF Alone
      <4> QED BY <4>1, <4>2
    <3> QED BY <3>2, <3>3 DEF Alone
  <2>10. \A b \in Admins : Missing(b)'
    BY <2>8 DEF Missing
  <2>11. \A b \in Admins : Alone(b)'
    BY <2>9 DEF Alone
  <2> QED BY <2>6, <2>10, <2>11
<1>8. ASSUME NEW a \in Admins, NEW x, Becomes(a, x), NEW sec, Writes(a, x, sec) PROVE ClusterInv'
  <2>0. PICK f : f = saving[a]
    OBVIOUS
  <2>1. /\ {"pc", "req", "wrote", "new", "data", "todo"} \subseteq DOMAIN f
        /\ f.pc = "secrets" /\ sec \in f.todo /\ f.todo \subseteq DOMAIN f.data
        /\ DOMAIN f.data \subseteq DOMAIN f.req
    BY <1>8, <2>0 DEF SecretInv, SaveShape, Writes
  <2>2. x = [f EXCEPT !.todo = @ \ {sec}, !.wrote = @ \cup {sec}]
    BY <1>8, <2>0 DEF Writes
  <2>3. /\ x.pc = "secrets" /\ x.req = f.req /\ x.new = f.new /\ x.data = f.data
        /\ x.todo = f.todo \ {sec} /\ x.wrote = f.wrote \cup {sec}
    BY <2>1, <2>2
  <2>4. ASSUME NEW y, Dropped(y) PROVE Dropped(y)'
    <3>1. Drops(a, y) => Drops(a, y)'
      BY <1>8, <2>0, <2>3, OthersStay DEF Drops
    <3> QED BY <1>8, <2>4, <3>1, OthersStay DEF Dropped
  <2>5. cfg' = cfg /\ saving'[a] = x /\ (Replaces(a)' <=> Replaces(a)) /\ Brought(a)' = Brought(a)
    <3>1. cfg' = cfg /\ saving'[a] = x
      BY <1>8, OthersStay DEF Writes
    <3> QED BY <2>0, <2>1, <2>3, <3>1 DEF Replaces, Brought
  <2>6. CASE sec # "clusters"
    <3>1. torn' = torn
      BY <1>0, <1>8, <2>6 DEF Writes
    <3> SUFFICES ASSUME ~torn PROVE Listed' /\ \A b \in Admins : Missing(b)' /\ Alone(b)'
      BY <1>0, <3>1 DEF ClusterInv
    <3>2. Listed /\ \A b \in Admins : Missing(b) /\ Alone(b)
      BY DEF ClusterInv
    <3>3. TokensThere' = TokensThere
      <4>1. PICK g : g = [s \in {sec} |-> f.data[s]]
        OBVIOUS
      <4>2. secrets' = Merged(secrets, g, {}) /\ "clusters" \notin DOMAIN g
        BY <1>8, <2>0, <2>6, <4>1 DEF Writes
      <4>3. KeysOf(Merged(secrets, g, {}), "clusters") = KeysOf(secrets, "clusters")
        BY <4>2 DEF KeysOf, Merged
      <4> QED BY <4>2, <4>3 DEF TokensThere
    <3>4. Written(a)' <=> Written(a)
      BY <2>0, <2>3, <2>5, <2>6 DEF Written
    <3>5. \A b \in Admins :
            /\ Replaces(b)' <=> Replaces(b)
            /\ Written(b)' <=> Written(b)
            /\ Brought(b)' = Brought(b)
            /\ Replaces(b) => saving'[b].new = saving[b].new /\ saving'[b].req = saving[b].req
      BY <1>8, <2>0, <2>3, <2>5, <3>4, OthersStay
    <3>6. Listed'
      BY <2>4, <2>5, <3>2, <3>3 DEF Listed
    <3>7. ASSUME NEW b \in Admins PROVE Missing(b)'
      BY <2>4, <2>5, <3>2, <3>5 DEF Missing
    <3>8. ASSUME NEW b \in Admins PROVE Alone(b)'
      BY <3>2, <3>3, <3>5 DEF Alone
    <3> QED BY <3>6, <3>7, <3>8
  <2>7. CASE sec = "clusters"
    <3>1. torn' = (torn \/ OthersIn(a, "clusters"))
      BY <1>8, <2>7 DEF Writes
    <3>2. CASE OthersIn(a, "clusters")
      <4>1. torn' = TRUE
        BY <3>1, <3>2
      <4> QED BY <4>1 DEF ClusterInv
    <3>3. CASE ~OthersIn(a, "clusters")
      <4>1. torn' = torn
        BY <1>0, <3>1, <3>3
      <4> SUFFICES ASSUME ~torn PROVE Listed' /\ \A b \in Admins : Missing(b)' /\ Alone(b)'
        BY <1>0, <4>1 DEF ClusterInv
      <4>2. Listed /\ \A b \in Admins : Missing(b) /\ Alone(b)
        BY DEF ClusterInv
      <4>3. \A b \in Admins \ {a} : ~Replaces(b) /\ ~Replaces(b)'
        BY <1>8, <3>3, OthersStay DEF OthersIn, Replaces
      <4>4. Replaces(a) /\ "clusters" \in DOMAIN f.data
        BY <2>0, <2>1, <2>7 DEF Replaces
      <4>5. TokensThere' = Brought(a)
        <5>1. PICK g : g = [s \in {sec} |-> f.data[s]]
          OBVIOUS
        <5>2. secrets' = Merged(secrets, g, {}) /\ "clusters" \in DOMAIN g /\ g["clusters"] = f.data["clusters"]
          BY <1>8, <2>0, <2>7, <5>1 DEF Writes
        <5>3. KeysOf(Merged(secrets, g, {}), "clusters") = KeysOf(f.data, "clusters")
          BY <4>4, <5>2 DEF KeysOf, Merged
        <5> QED BY <2>0, <5>2, <5>3 DEF TokensThere, Brought
      <4>6. ASSUME NEW y \in cfg.clusters, y \notin Brought(a) PROVE Dropped(y)'
        <5>1. CASE y \in saving[a].new.clusters
          BY <2>4, <4>2, <4>4, <4>6, <5>1 DEF Missing
        <5>2. CASE y \notin saving[a].new.clusters
          <6>1. y \notin DOMAIN f.req.clusters
            BY <2>0, <4>2, <4>4, <5>2 DEF Missing
          <6>2. Drops(a, y)'
            BY <2>3, <2>5, <2>7, <6>1 DEF Drops
          <6> QED BY <6>2 DEF Dropped
        <5> QED BY <5>1, <5>2
      <4>7. Listed'
        BY <2>5, <4>5, <4>6 DEF Listed
      <4>8. \A b \in Admins : Missing(b)'
        BY <2>0, <2>3, <2>4, <2>5, <4>2, <4>3, <4>4 DEF Missing
      <4>9. \A b \in Admins : Alone(b)'
        <5>1. ASSUME NEW b \in Admins, Written(b)' PROVE b = a
          BY <4>3, <5>1 DEF Written
        <5> QED BY <2>5, <4>3, <4>5, <5>1 DEF Alone
      <4> QED BY <4>7, <4>8, <4>9
    <3> QED BY <3>2, <3>3
  <2> QED BY <2>6, <2>7
<1>9. ASSUME NEW a \in Admins, NEW x, Becomes(a, x), Stores(a, x) PROVE ClusterInv'
  <2> SUFFICES ASSUME ~torn PROVE Listed' /\ \A b \in Admins : Missing(b)' /\ Alone(b)'
    BY <1>0, <1>9 DEF ClusterInv, Stores
  <2>0. Listed /\ \A b \in Admins : Missing(b) /\ Alone(b)
    BY DEF ClusterInv
  <2>1. /\ saving[a].pc = "secrets" /\ saving[a].todo = {} /\ saving[a].new.version = cfg.version
        /\ cfg'.clusters = saving[a].new.clusters /\ TokensThere' = TokensThere /\ x.pc = "idle"
    BY <1>9 DEF Stores, NotSaving, Sections, TokensThere
  <2>2. ~Replaces(a)' /\ ~Written(a)'
    BY <1>9, <2>1, OthersStay DEF Replaces, Written
  <2>3. ASSUME "clusters" \notin DOMAIN saving[a].req
        PROVE  Listed' /\ \A b \in Admins : Missing(b)'
    <3>1. SaveShape(a) /\ Prepared(a)
      BY DEF SecretInv, SaveInv
    <3>2. cfg'.clusters = cfg.clusters
      BY <2>1, <2>3, <3>1 DEF Prepared, Sections
    <3>3. \A y : ~Drops(a, y)
      BY <2>1, <2>3, <3>1 DEF Drops, SaveShape
    <3>4. ASSUME NEW y, Dropped(y) PROVE Dropped(y)'
      BY <1>9, <3>3, <3>4, OthersStay DEF Dropped
    <3>5. Listed'
      BY <2>0, <2>1, <3>2, <3>4 DEF Listed
    <3>6. ASSUME NEW b \in Admins, Replaces(b)' PROVE Missing(b)'
      <4>1. b # a /\ Replaces(b) /\ saving'[b] = saving[b] /\ Brought(b)' = Brought(b)
        BY <1>9, <2>2, <3>6, OthersStay
      <4>2. saving[b].new.version = cfg'.version => saving[b].new.version = cfg.version
        BY <4>1, NotAhead
      <4> QED BY <2>0, <3>2, <3>4, <4>1, <4>2 DEF Missing
    <3> QED BY <3>5, <3>6 DEF Missing
  <2>4. ASSUME "clusters" \in DOMAIN saving[a].req
        PROVE  Listed' /\ \A b \in Admins : Missing(b)'
    <3>1. Replaces(a) /\ cfg'.clusters = DOMAIN saving[a].req.clusters
      BY <2>0, <2>1, <2>4 DEF Replaces, Missing
    <3>2. \A y : y \in cfg'.clusters => ~Drops(a, y)
      BY <3>1 DEF Drops
    <3>3. ASSUME NEW y \in cfg'.clusters, y \notin Brought(a) PROVE Dropped(y)'
      <4>1. Dropped(y)
        BY <2>0, <2>1, <3>1, <3>3 DEF Missing
      <4> QED BY <1>9, <3>2, <3>3, <4>1, OthersStay DEF Dropped
    <3>4. ASSUME NEW y \in Brought(a) PROVE Written(a)
      <4>1. "clusters" \in DOMAIN saving[a].data
        BY <3>4 DEF Brought, KeysOf, NoKeys
      <4> QED BY <2>1, <3>1, <4>1 DEF Written
    <3>5. Listed'
      BY <2>0, <2>1, <3>3, <3>4 DEF Listed, Alone
    <3>6. ASSUME NEW b \in Admins, Replaces(b)' PROVE Missing(b)'
      <4>1. b # a /\ Replaces(b) /\ saving'[b] = saving[b] /\ Brought(b)' = Brought(b)
        BY <1>9, <2>2, <3>6, OthersStay
      <4>2. saving[b].new.version # cfg'.version
        <5>1. cfg.version \in Nat /\ cfg'.version = cfg.version + 1
          BY <1>9 DEF Stores, SaveInv, IsCfg
        <5> QED BY <4>1, <5>1, NotAhead
      <4>3. saving[b].new.clusters = DOMAIN saving[b].req.clusters
        BY <2>0, <4>1 DEF Missing
      <4>4. ASSUME NEW y \in saving[b].new.clusters \ Brought(b), y \in cfg'.clusters PROVE Dropped(y)'
        <5>1. CASE y \in Brought(a)
          BY <2>0, <3>4, <4>1, <4>3, <4>4, <5>1 DEF Alone
        <5>2. CASE y \notin Brought(a)
          BY <3>3, <4>4, <5>2
        <5> QED BY <5>1, <5>2
      <4> QED BY <4>1, <4>2, <4>3, <4>4 DEF Missing
    <3> QED BY <3>5, <3>6 DEF Missing
  <2>5. ASSUME NEW b \in Admins, Written(b)' PROVE Alone(b)'
    <3>1. b # a /\ Written(b) /\ saving'[b] = saving[b] /\ Brought(b)' = Brought(b)
      BY <1>9, <2>2, <2>5, OthersStay
    <3>2. TokensThere' = Brought(b)'
      BY <2>0, <2>1, <3>1 DEF Alone
    <3>3. ASSUME NEW d \in Admins \ {b}, Replaces(d)'
          PROVE  ~Written(d)' /\ (Brought(b) \cap DOMAIN saving[d].req.clusters \subseteq Brought(d))'
      <4>1. /\ d # a /\ Replaces(d) /\ saving'[d] = saving[d] /\ Brought(d)' = Brought(d)
            /\ Written(d)' <=> Written(d)
        BY <1>9, <2>2, <3>3, OthersStay
      <4> QED BY <2>0, <3>1, <3>3, <4>1 DEF Alone
    <3> QED BY <3>2, <3>3 DEF Alone
  <2> QED BY <2>3, <2>4, <2>5 DEF Alone
<1> QED BY <1>2, <1>3, <1>4, <1>5, <1>6, <1>7, <1>8, <1>9, SaveKinds

LEMMA WholeBegins == Init => SecretInv /\ ClusterInv
<1> SUFFICES ASSUME SaveInit PROVE SecretInv /\ ClusterInv
  BY DEF Init
<1>1. /\ \A sec \in HasSecret : cfg[sec].ref = FALSE
      /\ cfg.clusters = {} /\ torn = FALSE
  BY DEF SaveInit, HasSecret
<1>2. \A a \in Admins : saving[a].pc = "idle"
  BY DEF SaveInit, NotSaving
<1>3. SecretInv
  BY <1>1, <1>2 DEF SecretInv, Backed, SaveShape
<1>4. ClusterInv
  BY <1>1, <1>2 DEF ClusterInv, Listed, Missing, Alone, Written, Replaces
<1> QED BY <1>3, <1>4

\* However saves of any number of admins overlap and fail, the settings never name a
\* Secret that is not there, and no cluster that is listed is without its token once the
\* saves of clusters are over, unless two of them met or one failed half way (writeSecrets
\* before Update in handleUpdateSettings, applyClusterSettings).
THEOREM SettingsAreWhole == FairSpec => []SavedWhole
<1> DEFINE Inv == SaveInv /\ SecretInv /\ ClusterInv
<1>1. Init => Inv
  BY SaveBegins, WholeBegins
<1>2. Inv /\ [Next]_vars => Inv'
  <2> SUFFICES ASSUME Inv, [Next]_vars PROVE Inv'
    OBVIOUS
  <2>1. CASE UNCHANGED saveVars
    <3>1. UNCHANGED <<cfg, secrets, saving, torn>>
      BY <2>1 DEF saveVars
    <3>2. SaveInv'
      BY <3>1 DEF SaveInv, Prepared, IsCfg
    <3>3. SecretInv'
      BY <3>1 DEF SecretInv, Backed, SaveShape
    <3>4. ClusterInv'
      BY <3>1 DEF ClusterInv, Listed, Missing, Alone, Written, Replaces, Brought, TokensThere, Dropped, Drops
    <3> QED BY <3>2, <3>3, <3>4
  <2>2. CASE SaveNext
    BY <2>2, SaveStep, SecretStep, ClusterStep
  <2> QED BY <2>1, <2>2 DEF Next, vars
<1>3. Inv => SavedWhole
  <2> SUFFICES ASSUME Inv PROVE SavedWhole
    OBVIOUS
  <2>1. \A sec \in {"cloud", "signin", "hook", "webex"} : cfg[sec].ref => sec \in DOMAIN secrets
    BY DEF SecretInv, Backed, HasSecret
  <2>2. ASSUME ~torn, \A a \in Admins : "clusters" \notin (IF saving[a].pc = "idle" THEN {} ELSE saving[a].wrote)
        PROVE  cfg.clusters \subseteq DOMAIN KeysOf(secrets, "clusters")
    <3>1. \A x : ~Dropped(x)
      BY <2>2 DEF Dropped, Drops
    <3> QED BY <2>2, <3>1 DEF ClusterInv, Listed, TokensThere
  <2>3. \A a \in Admins : saving[a].pc = "refused" /\ saving[a].tries = 1 => saving[a].wrote = {}
    BY DEF SecretInv, SaveShape
  <2> QED BY <2>1, <2>2, <2>3 DEF SavedWhole
<1> HIDE DEF Inv
<1> QED BY <1>1, <1>2, <1>3, PTL DEF FairSpec

-----------------------------------------------------------------------------
(* The messages the bot has executed.                                       *)

LEMMA GreatestNumber ==
    ASSUME NEW S \in SUBSET Nat, S # {}, NEW n \in Nat, \A k \in S : k <= n
    PROVE  Max(S) \in S /\ \A k \in S : k <= Max(S)
<1> DEFINE T == {n - k : k \in S}
<1>1. T \in SUBSET Nat /\ T # {}
  <2>1. \A k \in S : n - k \in Nat
    OBVIOUS
  <2> QED BY <2>1
<1>2. PICK m \in T : \A k \in T : m <= k
  <2> HIDE DEF T
  <2> QED BY <1>1, LeastNumber
<1>3. PICK x \in S : m = n - x
  BY <1>2
<1>4. \A k \in S : x >= k
  BY <1>2, <1>3
<1> QED BY <1>4 DEF Max

\* What the poller has answered lies behind where it stands in that room, and what it is
\* still to answer does too, but has not been answered; a room it has not looked at since
\* it was switched on or became leader has no such place.
Behind(i) == poller.seen[posts[i].room] = None \/ i <= poller.seen[posts[i].room]
RoundFields == {"on", "rooms", "at", "seen", "left", "queue", "use"}
IsRound(x) == x = [f \in RoundFields |-> x[f]]
PollerInv ==
    /\ IsRound(poller)
    /\ poller.seen \in [Rooms -> Nat \cup {None}]
    /\ ran = [b \in Bots |-> ran[b]]
    /\ \A i \in DOMAIN ran[Poller] : i \in Ids /\ Len(ran[Poller][i]) = 1 /\ Behind(i)
    /\ \A i \in poller.queue :
           i \notin DOMAIN ran[Poller] /\ poller.seen[posts[i].room] # None /\ Behind(i)

\* What a replica has executed it remembers for the window, or has forgotten altogether.
HeardInv ==
    /\ heard = [r \in Replicas |-> heard[r]]
    /\ \A r \in Replicas :
           /\ DOMAIN ran[r] \subseteq DOMAIN heard[r]
           /\ \A i \in DOMAIN heard[r] : heard[r][i] \in Nat /\ heard[r][i] <= now
           /\ \A i \in DOMAIN ran[r] :
                  /\ ran[r][i] \in Seq(Nat)
                  /\ \A n \in DOMAIN ran[r][i] : ran[r][i][n] <= heard[r][i]
                  /\ \A m, n \in DOMAIN ran[r][i] :
                         m < n => ran[r][i][n] - ran[r][i][m] >= DeliveryWindow

LEMMA StandingIs == IsRound(Standing) /\ Standing.queue = {} /\ Standing.seen = [r \in Rooms |-> None]
<1>1. PICK x : x = Standing
  OBVIOUS
<1>2. PICK seen \in {[r \in Rooms |-> None]} : TRUE
  OBVIOUS
<1>3. x = [on |-> FALSE, rooms |-> {}, at |-> None, seen |-> seen, left |-> {}, queue |-> {}, use |-> x.use]
  BY <1>1, <1>2 DEF Standing
<1>4. x = [f \in RoundFields |-> x[f]] /\ x.queue = {} /\ x.seen = seen
  BY <1>3 DEF RoundFields
<1> QED BY <1>1, <1>2, <1>4 DEF IsRound

\* A round of the poller either does not touch where it stands, or it starts afresh.
LEMMA PollGives ==
    ASSUME PollerInv, Poll \/ \E r \in Replicas : Restart(r)
    PROVE  /\ posts' = posts /\ ran'[Poller] = ran[Poller]
           /\ ran' = [b \in Bots |-> ran'[b]]
           /\ IsRound(poller')
           /\ \/ poller'.seen = poller.seen /\ poller'.queue = poller.queue
              \/ poller'.seen = [r \in Rooms |-> None] /\ poller'.queue = {}
<1> DEFINE Kept(x) == IsRound(x) /\ \/ x.seen = poller.seen /\ x.queue = poller.queue
                                    \/ x.seen = [r \in Rooms |-> None] /\ x.queue = {}
<1>0. Kept(poller) /\ Kept(Standing)
  BY StandingIs DEF PollerInv
<1> HIDE DEF Kept
<1>1. CASE Poll
  <2>1. posts' = posts /\ ran' = ran /\ ran = [b \in Bots |-> ran[b]]
    BY <1>1 DEF Poll, PollerInv
  <2>2. CASE ~space.token \/ space.secret
    <3>1. poller' = Standing
      BY <1>1, <2>2 DEF Poll
    <3> QED BY <1>0, <2>1, <3>1 DEF Kept
  <2>3. ASSUME ~(~space.token \/ space.secret) PROVE Kept(poller')
    <3>1. PICK k : k = IF poller.on THEN poller ELSE Standing
      OBVIOUS
    <3>2. PICK old : old = (k.rooms = {} \/ now - k.at >= RoomsKept)
      OBVIOUS
    <3>3. PICK rooms : rooms = IF ~old THEN k.rooms
                               ELSE IF space.room = NoRoom THEN Rooms ELSE {space.room}
      OBVIOUS
    <3>4. PICK at : at = IF old THEN now ELSE k.at
      OBVIOUS
    <3>5. \/ poller' = [k EXCEPT !.on = TRUE, !.rooms = rooms, !.at = at, !.left = rooms, !.use = space]
          \/ poller' = [k EXCEPT !.on = TRUE]
      BY <1>1, <2>3, <3>1, <3>2, <3>3, <3>4 DEF Poll
    <3>6. Kept(k)
      BY <1>0, <3>1
    <3>7. IsRound(k)
      BY <3>6 DEF Kept
    <3>8. IsRound(poller') /\ poller'.seen = k.seen /\ poller'.queue = k.queue
      <4>1. PICK x, use : x = poller' /\ use = space
        OBVIOUS
      <4>2. \/ x = [k EXCEPT !.on = TRUE, !.rooms = rooms, !.at = at, !.left = rooms, !.use = use]
            \/ x = [k EXCEPT !.on = TRUE]
        BY <3>5, <4>1
      <4>3. IsRound(x) /\ x.seen = k.seen /\ x.queue = k.queue
        <5>1. DOMAIN k = RoundFields
          BY <3>7 DEF IsRound
        <5>2. CASE x = [k EXCEPT !.on = TRUE, !.rooms = rooms, !.at = at, !.left = rooms, !.use = use]
          <6>1. DOMAIN x = RoundFields /\ x = [f \in DOMAIN k |-> x[f]]
            BY <5>1, <5>2
          <6>2. x.seen = k.seen /\ x.queue = k.queue
            BY <5>1, <5>2 DEF RoundFields
          <6> QED BY <5>1, <6>1, <6>2 DEF IsRound
        <5>3. CASE x = [k EXCEPT !.on = TRUE]
          BY <3>7, <5>3 DEF IsRound, RoundFields
        <5> QED BY <4>2, <5>2, <5>3
      <4> QED BY <4>1, <4>3
    <3> QED BY <3>6, <3>8 DEF Kept
  <2> QED BY <2>1, <2>2, <2>3 DEF Kept
<1>2. ASSUME NEW r \in Replicas, Restart(r)
      PROVE  /\ posts' = posts /\ ran'[Poller] = ran[Poller]
             /\ ran' = [b \in Bots |-> ran'[b]]
             /\ poller' \in {poller, Standing}
  <2>1. ran' = [ran EXCEPT ![r] = <<>>] /\ posts' = posts /\ poller' \in {poller, Standing}
    BY <1>2 DEF Restart
  <2> QED BY <1>2, <2>1, ChatAssumption DEF PollerInv
<1> QED BY <1>0, <1>1, <1>2 DEF Kept

\* What is listed of a room is of that room, after what was seen of it, and is seen then.
LEMMA FreshIs ==
    ASSUME NEW r \in Rooms, NEW seen \in Nat \cup {None}, posts \in Seq(Messages)
    PROVE  /\ fresh(r, seen).seen \in Nat
           /\ \A i \in Ids : i <= seen => i <= fresh(r, seen).seen
           /\ seen = None => \A i \in Ids : i <= fresh(r, seen).seen
           /\ \A i \in fresh(r, seen).queue :
                  i \in Ids /\ posts[i].room = r /\ seen # None /\ i > seen /\ i <= fresh(r, seen).seen
<1>0. Ids = 1..Len(posts) /\ Len(posts) \in Nat
  BY DEF Ids
<1>1. CASE seen = None
  BY <1>0, <1>1 DEF fresh, None
<1>2. CASE seen # None
  <2> DEFINE new == {i \in Newest(InRoom(r)) : i > seen}
  <2>1. fresh(r, seen) = [queue |-> new, seen |-> IF new = {} THEN seen ELSE Max(new)]
    BY <1>2 DEF fresh
  <2>2. \A i \in new : i \in Ids /\ posts[i].room = r /\ i > seen
    BY DEF Newest, InRoom
  <2>3. new # {} => Max(new) \in new /\ \A k \in new : k <= Max(new)
    <3> HIDE DEF new
    <3>1. new \in SUBSET Nat /\ \A k \in new : k <= Len(posts)
      BY <1>0, <2>2
    <3> QED BY <1>0, <3>1, GreatestNumber
  <2> HIDE DEF new
  <2>4. fresh(r, seen).queue = new /\ fresh(r, seen).seen = IF new = {} THEN seen ELSE Max(new)
    BY <2>1
  <2>5. new # {} => Max(new) \in Nat /\ Max(new) > seen
    BY <1>0, <2>2, <2>3
  <2>6. \A i \in Ids : i \in Nat
    BY <1>0
  <2> QED BY <1>2, <2>2, <2>3, <2>4, <2>5, <2>6 DEF None
<1> QED BY <1>1, <1>2

LEMMA PollerStep ==
    ASSUME PostInv, PollerInv, [Next]_vars
    PROVE  PollerInv'
<1>0. /\ posts \in Seq(Messages)
      /\ \A i \in Ids : posts[i].room \in Rooms
      /\ "queue" \in DOMAIN poller /\ poller.queue \in SUBSET Ids
      /\ Poller \in Bots /\ \A r \in Replicas : r # Poller
  BY ChatAssumption DEF PostInv, Ids
<1>1. ASSUME UNCHANGED <<posts, poller>>, ran'[Poller] = ran[Poller], ran' = [b \in Bots |-> ran'[b]]
      PROVE  PollerInv'
  <2>1. \A i \in Ids : Behind(i)' <=> Behind(i)
    BY <1>1 DEF Behind
  <2> QED BY <1>0, <1>1, <2>1 DEF PollerInv, Ids
<1>2. ASSUME UNCHANGED <<posts, poller, ran>> PROVE PollerInv'
  BY <1>1, <1>2 DEF PollerInv
<1>3. ASSUME NEW m \in Messages, Post(m) PROVE PollerInv'
  <2>1. posts' = Append(posts, m) /\ UNCHANGED <<poller, ran>>
    BY <1>3 DEF Post
  <2>2. Ids \subseteq Ids' /\ \A i \in Ids : posts'[i] = posts[i]
    BY <1>0, <2>1 DEF Ids
  <2>3. \A i \in Ids : Behind(i)' <=> Behind(i)
    BY <2>1, <2>2 DEF Behind
  <2> QED BY <1>0, <2>1, <2>2, <2>3 DEF PollerInv
<1>4. ASSUME Poll \/ \E r \in Replicas : Restart(r) PROVE PollerInv'
  <2>1. /\ posts' = posts /\ ran'[Poller] = ran[Poller]
        /\ ran' = [b \in Bots |-> ran'[b]]
        /\ IsRound(poller')
        /\ \/ poller'.seen = poller.seen /\ poller'.queue = poller.queue
           \/ poller'.seen = [r \in Rooms |-> None] /\ poller'.queue = {}
    BY <1>4, PollGives
  <2>2. CASE poller'.seen = poller.seen /\ poller'.queue = poller.queue
    <3>1. \A i \in Ids : Behind(i)' <=> Behind(i)
      BY <2>1, <2>2 DEF Behind
    <3> QED BY <1>0, <2>1, <2>2, <3>1 DEF PollerInv, Ids
  <2>3. CASE poller'.seen = [r \in Rooms |-> None] /\ poller'.queue = {}
    <3>2. \A i \in Ids : Behind(i)'
      BY <1>0, <2>1, <2>3 DEF Behind
    <3> QED BY <1>0, <2>1, <2>3, <3>2 DEF PollerInv, Ids
  <2> QED BY <2>1, <2>2, <2>3
<1>5. ASSUME NEW r \in Rooms, Fetch(r) PROVE PollerInv'
  <2>0. UNCHANGED <<posts, ran>> /\ poller.queue = {}
    BY <1>5 DEF Fetch
  <2> DEFINE f == fresh(r, poller.seen[r])
  <2>1. \/ poller' = [poller EXCEPT !.left = @ \ {r}, !.seen[r] = f.seen, !.queue = f.queue]
        \/ poller' = [poller EXCEPT !.left = @ \ {r}]
    BY <1>5 DEF Fetch
  <2>2. poller.seen[r] \in Nat \cup {None}
    BY DEF PollerInv
  <2>3. /\ f.seen \in Nat
        /\ \A i \in Ids : i <= poller.seen[r] => i <= f.seen
        /\ poller.seen[r] = None => \A i \in Ids : i <= f.seen
        /\ \A i \in f.queue :
               i \in Ids /\ posts[i].room = r /\ poller.seen[r] # None /\ i > poller.seen[r] /\ i <= f.seen
    BY <1>0, <2>2, FreshIs
  <2> HIDE DEF f
  <2>5. CASE poller' = [poller EXCEPT !.left = @ \ {r}]
    <3>1. poller'.seen = poller.seen /\ poller'.queue = poller.queue
      BY <2>5 DEF PollerInv, IsRound, RoundFields
    <3>2. IsRound(poller')
      BY <2>5 DEF PollerInv, IsRound, RoundFields
    <3>3. \A i \in Ids : Behind(i)' <=> Behind(i)
      BY <2>0, <3>1 DEF Behind
    <3> QED BY <1>0, <2>0, <3>1, <3>2, <3>3 DEF PollerInv, Ids
  <2>6. CASE poller' = [poller EXCEPT !.left = @ \ {r}, !.seen[r] = f.seen, !.queue = f.queue]
    <3>1. poller'.queue = f.queue
      BY <2>6 DEF PollerInv, IsRound, RoundFields
    <3>2. poller'.seen = [poller.seen EXCEPT ![r] = f.seen]
      BY <2>6 DEF PollerInv, IsRound, RoundFields
    <3>3. IsRound(poller')
      BY <2>6 DEF PollerInv, IsRound, RoundFields
    <3>4. /\ poller'.seen \in [Rooms -> Nat \cup {None}] /\ poller'.seen[r] = f.seen
          /\ \A q \in Rooms : q # r => poller'.seen[q] = poller.seen[q]
      BY <2>3, <3>2 DEF PollerInv
    <3>5. \A i \in Ids : Behind(i) => Behind(i)'
      <4> SUFFICES ASSUME NEW i \in Ids, Behind(i) PROVE Behind(i)'
        OBVIOUS
      <4>1. posts'[i] = posts[i] /\ posts[i].room \in Rooms
        BY <1>0, <2>0
      <4>2. CASE posts[i].room = r
        BY <2>3, <3>4, <4>1, <4>2 DEF Behind
      <4>3. CASE posts[i].room # r
        BY <3>4, <4>1, <4>3 DEF Behind
      <4> QED BY <4>2, <4>3
    <3>6. \A i \in f.queue : i \notin DOMAIN ran[Poller]
      <4> SUFFICES ASSUME NEW i \in f.queue, i \in DOMAIN ran[Poller] PROVE FALSE
        OBVIOUS
      <4>1. i \in Ids /\ posts[i].room = r /\ poller.seen[r] # None /\ i > poller.seen[r] /\ i \in Nat
        BY <1>0, <2>3 DEF Ids
      <4>2. i <= poller.seen[r]
        BY <4>1 DEF PollerInv, Behind
      <4> QED BY <2>2, <4>1, <4>2 DEF None
    <3>7. \A i \in f.queue : poller'.seen[posts'[i].room] # None /\ Behind(i)'
      BY <2>0, <2>3, <3>4 DEF Behind, None
    <3> QED BY <1>0, <2>0, <3>1, <3>3, <3>4, <3>5, <3>6, <3>7 DEF PollerInv, Ids
  <2> QED BY <2>1, <2>5, <2>6
<1>6. ASSUME Take PROVE PollerInv'
  <2>1. PICK i \in poller.queue :
          poller' = [poller EXCEPT !.queue = @ \ {i}] /\ Ran(Poller, i, DOMAIN ran[Poller])
    BY <1>6 DEF Take
  <2>2. posts' = posts /\ i \in Ids /\ i \notin DOMAIN ran[Poller] /\ Behind(i)
    BY <1>0, <1>6 DEF Take, PollerInv
  <2>3. PICK h : h = [j \in DOMAIN ran[Poller] \cup {i} |->
                         IF j = i THEN Append(Times(Poller, i), now) ELSE ran[Poller][j]]
    OBVIOUS
  <2>4. ran' = [ran EXCEPT ![Poller] = h]
    BY <2>1, <2>3 DEF Ran
  <2>5. ran' = [b \in Bots |-> ran'[b]] /\ ran'[Poller] = h
    BY <1>0, <2>4 DEF PollerInv
  <2>6. Times(Poller, i) = <<>>
    BY <2>2 DEF Times
  <2>7. /\ DOMAIN h = DOMAIN ran[Poller] \cup {i} /\ Len(h[i]) = 1
        /\ \A j \in DOMAIN ran[Poller] : h[j] = ran[Poller][j]
    BY <2>2, <2>3, <2>6
  <2>9. poller'.seen = poller.seen /\ poller'.queue = poller.queue \ {i}
    BY <2>1 DEF PollerInv, IsRound, RoundFields
  <2>10. IsRound(poller')
    BY <2>1 DEF PollerInv, IsRound, RoundFields
  <2>11. \A j \in Ids : Behind(j)' <=> Behind(j)
    BY <2>2, <2>9 DEF Behind
  <2> QED BY <1>0, <2>2, <2>5, <2>7, <2>9, <2>10, <2>11 DEF PollerInv, Ids
<1>7. ASSUME NEW r \in Replicas, NEW i \in Ids, Deliver(r, i) PROVE PollerInv'
  <2>1. UNCHANGED <<posts, poller>> /\ Ran(r, i, DOMAIN ran[r] \cap DOMAIN heard'[r])
    BY <1>7 DEF Deliver
  <2>2. PICK h : ran' = [ran EXCEPT ![r] = h]
    BY <2>1 DEF Ran
  <2> QED BY <1>0, <1>1, <2>1, <2>2 DEF PollerInv
<1>8. ASSUME ChatNext(plan.says, plan.spaces) PROVE PollerInv'
  <2>1. plan.says \subseteq Messages
    BY PlanAssumption DEF PostInv
  <2>2. ASSUME NEW c, Configure(c) PROVE PollerInv'
    BY <1>2, <2>2 DEF Configure
  <2>3. ASSUME NEW w, Monitor(w) PROVE PollerInv'
    BY <1>2, <2>3 DEF Monitor
  <2>4. ASSUME NEW b \in Bots, ProcessMessage(b) \/ Reply(b) PROVE PollerInv'
    BY <1>2, <2>4 DEF ProcessMessage, Reply
  <2> QED BY <1>3, <1>4, <1>5, <1>6, <1>7, <1>8, <2>1, <2>2, <2>3, <2>4 DEF ChatNext
<1> QED BY <1>2, <1>8 DEF Next, vars, chatVars

LEMMA HeardStep ==
    ASSUME now \in Nat, HeardInv, PollerInv, [Next]_vars
    PROVE  HeardInv'
<1>0. /\ Replicas \subseteq Bots /\ Poller \notin Replicas /\ DeliveryWindow \in Nat
      /\ now' \in Nat /\ now <= now'
  BY TimePasses, ChatAssumption DEF InNoTime
<1>1. ASSUME heard' = heard, \A r \in Replicas : ran'[r] = ran[r] PROVE HeardInv'
  <2>1. \A r \in Replicas : \A i \in DOMAIN heard[r] : heard[r][i] \in Nat /\ heard[r][i] <= now'
    BY <1>0 DEF HeardInv
  <2> QED BY <1>1, <2>1 DEF HeardInv
<1>2. ASSUME NEW r \in Replicas, Restart(r) PROVE HeardInv'
  <2>1. heard' = [heard EXCEPT ![r] = <<>>] /\ ran' = [ran EXCEPT ![r] = <<>>] /\ now' = now
    BY <1>2 DEF Restart, Fault
  <2>2. /\ heard' = [q \in Replicas |-> IF q = r THEN <<>> ELSE heard[q]]
        /\ \A q \in Replicas : ran'[q] = IF q = r THEN <<>> ELSE ran[q]
    BY <1>0, <2>1 DEF HeardInv, PollerInv
  <2>3. DOMAIN <<>> = {}
    OBVIOUS
  <2> QED BY <2>1, <2>2, <2>3 DEF HeardInv
<1>3. ASSUME Take PROVE HeardInv'
  <2>1. PICK h : ran' = [ran EXCEPT ![Poller] = h]
    BY <1>3 DEF Take, Ran
  <2>2. \A r \in Replicas : ran'[r] = ran[r]
    BY <1>0, <2>1 DEF PollerInv
  <2>3. heard' = heard
    BY <1>3 DEF Take
  <2> QED BY <1>1, <2>2, <2>3
<1>4. ASSUME NEW r \in Replicas, NEW i \in Ids, Deliver(r, i) PROVE HeardInv'
  <2>1. now' = now
    BY <1>4 DEF Deliver, NoFault, Fault, clockVars
  <2>2. PICK h \in Remembered(r, i) : heard' = [heard EXCEPT ![r] = h]
    BY <1>4 DEF Deliver
  <2>3. PICK keep : keep \subseteq DOMAIN heard[r]
                    /\ h = [j \in keep \cup {i} |-> IF j = i THEN now ELSE heard[r][j]]
    BY <2>2 DEF Remembered
  <2>4. heard' = [q \in Replicas |-> IF q = r THEN h ELSE heard[q]]
    BY <2>2 DEF HeardInv
  <2>5. PICK g : g = [j \in (DOMAIN ran[r] \cap DOMAIN h) \cup {i} |->
                         IF j = i THEN Append(Times(r, i), now) ELSE ran[r][j]]
    OBVIOUS
  <2>6. \A q \in Replicas : ran'[q] = IF q = r THEN g ELSE ran[q]
    <3>1. heard'[r] = h
      BY <2>4
    <3>2. ran' = [ran EXCEPT ![r] = g]
      BY <1>4, <2>5, <3>1 DEF Deliver, Ran
    <3> QED BY <1>0, <3>2 DEF PollerInv
  <2>7. DOMAIN g \subseteq DOMAIN h /\ \A j \in DOMAIN h : h[j] \in Nat /\ h[j] <= now
    BY <2>3, <2>5 DEF HeardInv
  <2>8. PICK t : t = Times(r, i)
    OBVIOUS
  <2>9. t \in Seq(Nat) /\ \A n \in DOMAIN t : t[n] <= now /\ now - t[n] >= DeliveryWindow
    <3>1. CASE i \in DOMAIN ran[r]
      <4>1. t = ran[r][i] /\ i \in DOMAIN heard[r] /\ heard[r][i] \in Nat /\ heard[r][i] <= now
        BY <2>8, <3>1 DEF Times, HeardInv
      <4>2. now - heard[r][i] >= DeliveryWindow
        BY <1>4, <4>1 DEF Deliver, first
      <4>3. t \in Seq(Nat) /\ \A n \in DOMAIN t : t[n] <= heard[r][i]
        BY <3>1, <4>1 DEF HeardInv
      <4>4. \A n \in DOMAIN t : t[n] \in Nat
        BY <4>3
      <4>5. \A n \in DOMAIN t : t[n] <= now /\ now - t[n] >= DeliveryWindow
        <5> SUFFICES ASSUME NEW n \in DOMAIN t PROVE t[n] <= now /\ now - t[n] >= DeliveryWindow
          OBVIOUS
        <5>1. PICK v, w : v = t[n] /\ w = heard[r][i]
          OBVIOUS
        <5>2. v \in Nat /\ w \in Nat /\ v <= w /\ w <= now /\ now - w >= DeliveryWindow
          BY <4>1, <4>2, <4>3, <4>4, <5>1
        <5>3. v <= now /\ now - v >= DeliveryWindow
          BY <1>0, <5>2
        <5> QED BY <5>1, <5>3
      <4> QED BY <4>3, <4>5
    <3>2. CASE i \notin DOMAIN ran[r]
      BY <2>8, <3>2 DEF Times
    <3> QED BY <3>1, <3>2
  <2>10. \A m, n \in DOMAIN t : m < n => t[n] - t[m] >= DeliveryWindow
    <3>1. CASE i \in DOMAIN ran[r]
      BY <2>8, <3>1 DEF Times, HeardInv
    <3>2. CASE i \notin DOMAIN ran[r]
      BY <2>8, <3>2 DEF Times
    <3> QED BY <3>1, <3>2
  <2>11. PICK u : u = Append(t, now)
    OBVIOUS
  <2>12. /\ u \in Seq(Nat) /\ DOMAIN u = DOMAIN t \cup {Len(t) + 1} /\ u[Len(t) + 1] = now
         /\ \A n \in DOMAIN t : u[n] = t[n] /\ n < Len(t) + 1 /\ n \in Nat
    BY <2>9, <2>11
  <2>13. /\ \A n \in DOMAIN u : u[n] <= now
         /\ \A m, n \in DOMAIN u : m < n => u[n] - u[m] >= DeliveryWindow
    <3>1. \A n \in DOMAIN u : u[n] <= now
      BY <2>9, <2>12
    <3>2. SUFFICES ASSUME NEW m \in DOMAIN u, NEW n \in DOMAIN u, m < n PROVE u[n] - u[m] >= DeliveryWindow
      BY <3>1
    <3>3. m \in DOMAIN t
      <4>1. Len(t) \in Nat
        BY <2>9
      <4> QED BY <2>12, <3>2, <4>1
    <3> QED BY <2>9, <2>10, <2>12, <3>2, <3>3
  <2>14. \A j \in DOMAIN g :
           /\ g[j] \in Seq(Nat)
           /\ \A n \in DOMAIN g[j] : g[j][n] <= h[j]
           /\ \A m, n \in DOMAIN g[j] : m < n => g[j][n] - g[j][m] >= DeliveryWindow
    <3> SUFFICES ASSUME NEW j \in DOMAIN g
                 PROVE  /\ g[j] \in Seq(Nat)
                        /\ \A n \in DOMAIN g[j] : g[j][n] <= h[j]
                        /\ \A m, n \in DOMAIN g[j] : m < n => g[j][n] - g[j][m] >= DeliveryWindow
      OBVIOUS
    <3>1. CASE j = i
      <4>1. g[j] = u /\ h[j] = now
        BY <2>3, <2>5, <2>8, <2>11, <3>1
      <4> QED BY <2>12, <2>13, <4>1
    <3>2. CASE j # i
      <4>1. j \in DOMAIN ran[r] /\ g[j] = ran[r][j] /\ h[j] = heard[r][j]
        BY <2>3, <2>5, <3>2
      <4> QED BY <4>1 DEF HeardInv
    <3> QED BY <3>1, <3>2
  <2> QED BY <2>1, <2>4, <2>6, <2>7, <2>14 DEF HeardInv
<1>5. ASSUME ChatNext(plan.says, plan.spaces) PROVE HeardInv'
  <2>1. ASSUME NEW b \in Bots, ProcessMessage(b) \/ Reply(b) PROVE heard' = heard /\ ran' = ran
    BY <2>1 DEF ProcessMessage, Reply
  <2>2. ASSUME NEW w \in watch, Monitor(w) PROVE heard' = heard /\ ran' = ran
    BY <2>2 DEF Monitor
  <2>3. ASSUME Poll \/ \E r \in Rooms : Fetch(r) PROVE heard' = heard /\ ran' = ran
    <3>1. CASE Poll
      BY <3>1 DEF Poll
    <3>2. ASSUME NEW r \in Rooms, Fetch(r) PROVE heard' = heard /\ ran' = ran
      BY <3>2 DEF Fetch
    <3> QED BY <2>3, <3>1, <3>2
  <2>4. ASSUME NEW m, Post(m) \/ Configure(m) PROVE heard' = heard /\ ran' = ran
    BY <2>4 DEF Post, Configure
  <2> QED BY <1>1, <1>2, <1>3, <1>4, <1>5, <2>1, <2>2, <2>3, <2>4 DEF ChatNext
<1> QED BY <1>1, <1>5 DEF Next, vars, chatVars

LEMMA ChatBegins == Init => PollerInv /\ HeardInv
<1> SUFFICES ASSUME ChatInit PROVE PollerInv /\ HeardInv
  BY DEF Init
<1>1. /\ ran = [b \in Bots |-> <<>>] /\ heard = [r \in Replicas |-> <<>>]
      /\ poller.queue = {} /\ IsRound(poller) /\ poller.seen = [r \in Rooms |-> None]
  BY StandingIs DEF ChatInit
<1>2. Poller \in Bots /\ Replicas \subseteq Bots /\ DOMAIN <<>> = {}
  BY ChatAssumption
<1>3. PollerInv
  BY <1>1, <1>2 DEF PollerInv
<1>4. HeardInv
  BY <1>1, <1>2 DEF HeardInv
<1> QED BY <1>3, <1>4

\* However rounds of the poller, deliveries and deliveries again, restarts, changes of
\* leader and of the settings interleave, no message is executed twice by the pollers, nor
\* within the window by a replica that has run since (Poller.fresh, recentDeliveries.first).
THEOREM MessagesRunOnce == FairSpec => []AnsweredOnce
<1> DEFINE Inv == EditInv /\ PollerInv /\ HeardInv
<1>1. Init => Inv
  BY EditsBegin, ChatBegins
<1>2. Inv /\ [Next]_vars => Inv'
  <2> SUFFICES ASSUME Inv, [Next]_vars PROVE Inv'
    OBVIOUS
  <2>1. PostInv /\ now \in Nat
    BY DEF EditInv, ObjInv
  <2> QED BY <2>1, EditStep, PollerStep, HeardStep
<1>3. Inv => AnsweredOnce
  BY DEF AnsweredOnce, PollerInv, HeardInv
<1> HIDE DEF Inv
<1> QED BY <1>1, <1>2, <1>3, PTL DEF FairSpec

-----------------------------------------------------------------------------
(* What is allowed.                                                         *)

\* A command goes on to the schedule only in the step that asks where it was written.
LEMMA FromTheSpaceStep ==
    ASSUME PostInv, [Next]_vars
    PROVE  OnlyFromTheSpace
<1> SUFFICES ASSUME NEW b \in Bots, bot[b].pc = "message", bot'[b].pc = "edit"
             PROVE  posts[bot[b].id].room = bot[b].use.room
  BY DEF OnlyFromTheSpace
<1>0. bot = [c \in Bots |-> bot[c]]
  BY DEF PostInv
<1>1. ASSUME bot'[b] = bot[b] PROVE FALSE
  BY <1>1
<1>2. ASSUME NEW c, NEW x, bot' = [bot EXCEPT ![c] = x], x.pc # "edit" PROVE FALSE
  <2>1. bot'[b] = IF b = c THEN x ELSE bot[b]
    BY <1>0, <1>2
  <2> QED BY <1>1, <1>2, <2>1
<1>3. ASSUME Take PROVE FALSE
  <2>1. PICK i \in poller.queue : bot' = Hand(Poller, i, poller.use)
    BY <1>3 DEF Take
  <2> QED BY <1>2, <2>1 DEF Hand
<1>4. ASSUME NEW r, NEW i, Deliver(r, i) PROVE FALSE
  <2>1. bot' = Hand(r, i, space)
    BY <1>4 DEF Deliver
  <2> QED BY <1>2, <2>1 DEF Hand
<1>5. ASSUME NEW r, Restart(r) PROVE FALSE
  <2>1. PICK gone : bot' = [c \in Bots |-> IF c \in gone THEN IdleBot ELSE bot[c]]
    BY <1>5 DEF Restart
  <2> QED BY <1>1, <2>1 DEF IdleBot
<1>6. ASSUME NEW c, Reply(c) PROVE FALSE
  BY <1>2, <1>6 DEF Reply, IdleBot
<1>7. ASSUME NEW c \in Bots, ProcessMessage(c) PROVE posts[bot[b].id].room = bot[b].use.room
  <2>1. CASE bot' = [bot EXCEPT ![c] = IdleBot]
    BY <1>2, <2>1 DEF IdleBot
  <2>2. CASE bot' # [bot EXCEPT ![c] = IdleBot]
    <3>1. Accepted(posts[bot[c].id], bot[c].use) /\ bot' = [bot EXCEPT ![c].pc = "edit"]
      BY <1>7, <2>2 DEF ProcessMessage
    <3>2. b # c => bot'[b] = bot[b]
      BY <1>0, <3>1
    <3>3. b = c
      BY <1>1, <3>2
    <3> QED BY <3>1, <3>3 DEF Accepted, refuseChange
  <2> QED BY <2>1, <2>2
<1>8. ASSUME ChatNext(plan.says, plan.spaces) PROVE posts[bot[b].id].room = bot[b].use.room
  <2>1. ASSUME NEW w, Monitor(w) PROVE FALSE
    BY <1>1, <2>1 DEF Monitor
  <2>2. ASSUME Poll PROVE FALSE
    BY <1>1, <2>2 DEF Poll
  <2>3. ASSUME NEW r, Fetch(r) PROVE FALSE
    BY <1>1, <2>3 DEF Fetch
  <2>4. ASSUME NEW m, Post(m) \/ Configure(m) PROVE FALSE
    BY <1>1, <2>4 DEF Post, Configure
  <2> QED BY <1>3, <1>4, <1>5, <1>6, <1>7, <1>8, <2>1, <2>2, <2>3, <2>4 DEF ChatNext
<1> QED BY <1>1, <1>8 DEF Next, vars, chatVars

\* Where people use the dashboard nobody has another role than the one to begin with.
RoleInv == ~Uses("assistant") => role = [p \in People |-> "admin"]

LEMMA RoleStep == RoleInv /\ [Next]_vars => RoleInv'
<1> SUFFICES ASSUME RoleInv, [Next]_vars PROVE RoleInv'
  OBVIOUS
<1>1. plan' = plan
  BY DEF Next, vars
<1>2. CASE Uses("assistant")
  BY <1>1, <1>2 DEF RoleInv, Uses
<1>3. CASE ~Uses("assistant")
  <2>1. role' = role
    BY <1>3 DEF Next, vars, assistantVars
  <2> QED BY <1>1, <2>1 DEF RoleInv, Uses
<1> QED BY <1>2, <1>3

\* A request of a person begins with the role it needs.
LEMMA WithTheRoleStep ==
    ASSUME EditInv, RoleInv, [Next]_vars
    PROVE  RunWithTheRole
<1> SUFFICES ASSUME NEW p \in People, edits[p].pc = "idle", edits'[p].pc = "get"
             PROVE  Allows(role[p], Needs(edits'[p].ask))
  BY DEF RunWithTheRole
<1>0. p \in Editors /\ p \notin Bots /\ edits = [e \in Editors |-> edits[e]]
  BY EditAssumption DEF Editors, EditInv, ObjInv
<1>1. ASSUME edits'[p] = edits[p] PROVE FALSE
  BY <1>1
<1>2. ASSUME NEW e, NEW x, edits' = [edits EXCEPT ![e] = x] PROVE e = p /\ edits'[p] = x
  <2>1. edits'[p] = IF e = p THEN x ELSE edits[p]
    BY <1>0, <1>2
  <2> QED BY <1>1, <2>1
<1>3. ASSUME NEW e, NEW a, Begin(e, a) PROVE e = p /\ Needs(edits'[p].ask) = Needs(a)
  <2>1. PICK ask : ask = IF a.kind = "chat"
                         THEN [a EXCEPT !.until = DefaultHold(@, obj, calendars, now)] ELSE a
    OBVIOUS
  <2>2. PICK x : x = [pc |-> "get", tries |-> 1, began |-> now, ask |-> ask]
    OBVIOUS
  <2>3. edits' = [edits EXCEPT ![e] = x]
    BY <1>3, <2>1, <2>2 DEF Begin
  <2>4. e = p /\ edits'[p].ask = ask
    BY <1>2, <2>2, <2>3
  <2>5. ask.kind = a.kind
    BY <2>1
  <2> QED BY <2>4, <2>5 DEF Needs
<1>4. ASSUME EditNext PROVE FALSE
  <2>1. PICK e \in Editors : Get(e) \/ Put(e)
    BY <1>4 DEF EditNext
  <2>2. edits[e].pc \in {"get", "put"}
    BY <2>1 DEF Get, Put
  <2>3. PICK x : edits' = [edits EXCEPT ![e] = x]
    BY <2>1 DEF Get, Put, Answer
  <2> QED BY <1>2, <2>2, <2>3
<1>5. ASSUME Uses("people"), PeopleNext(plan.people) PROVE Allows(role[p], Needs(edits'[p].ask))
  <2>1. ~Uses("assistant")
    BY <1>5, PlanAssumption DEF Uses, EditInv, PostInv
  <2>2. role[p] = "admin"
    BY <2>1 DEF RoleInv
  <2>3. DOMAIN Roles = 1..3 /\ Roles[1] = "viewer" /\ Roles[2] = "operator" /\ Roles[3] = "admin"
    BY DEF Roles
  <2>4. \A x : Allows("admin", Needs(x))
    BY <2>3 DEF Allows, Needs
  <2> QED BY <2>2, <2>4
<1>6. ASSUME ChatNext(plan.says, plan.spaces) PROVE FALSE
  <2>1. ASSUME NEW b \in Bots, ProcessMessage(b) PROVE FALSE
    <3>1. edits' = edits \/ \E a : Begin(b, a)
      BY <2>1 DEF ProcessMessage
    <3> QED BY <1>0, <1>1, <1>3, <3>1
  <2>2. ASSUME NEW b \in Bots, Reply(b) PROVE FALSE
    <3>1. edits' = [edits EXCEPT ![b] = IdleEdit]
      BY <2>2 DEF Reply
    <3> QED BY <1>0, <1>2, <3>1
  <2>3. ASSUME NEW r, Restart(r) PROVE FALSE
    <3>1. PICK gone : edits' = [e \in Editors |-> IF e \in gone THEN IdleEdit ELSE edits[e]]
      BY <2>3 DEF Restart
    <3> QED BY <1>0, <1>1, <3>1 DEF IdleEdit
  <2>4. ASSUME NEW w, Monitor(w) PROVE FALSE
    BY <1>1, <2>4 DEF Monitor, editVars
  <2>5. ASSUME Poll PROVE FALSE
    BY <1>1, <2>5 DEF Poll, editVars
  <2>6. ASSUME NEW r, Fetch(r) PROVE FALSE
    BY <1>1, <2>6 DEF Fetch, editVars
  <2>7. ASSUME NEW m, Post(m) \/ Configure(m) PROVE FALSE
    BY <1>1, <2>7 DEF Post, Configure, editVars
  <2>8. ASSUME NEW r, NEW i, Deliver(r, i) PROVE FALSE
    BY <1>1, <2>8 DEF Deliver, editVars
  <2>9. ASSUME Take PROVE FALSE
    BY <1>1, <2>9 DEF Take, editVars
  <2> QED BY <1>6, <2>1, <2>2, <2>3, <2>4, <2>5, <2>6, <2>7, <2>8, <2>9 DEF ChatNext
<1>7. ASSUME AssistantNext PROVE Allows(role[p], Needs(edits'[p].ask))
  <2>1. ASSUME NEW q, NEW a, Confirm(q, a) \/ CallTool(q, a) PROVE Allows(role[p], Needs(edits'[p].ask))
    <3>1. Allows(role[q], Needs(a)) /\ Begin(q, a)
      BY <2>1 DEF Confirm, CallTool, executeMutatingTool, toolAllowed, Ask
    <3> QED BY <1>3, <3>1
  <2>2. ASSUME NEW q, AskAssistant(q) PROVE FALSE
    BY <1>1, <2>2 DEF AskAssistant, editVars
  <2>3. ASSUME NEW q, Step(q) PROVE FALSE
    BY <1>1, <2>3 DEF Step, editVars
  <2>4. ASSUME NEW q, RecordGet(q) PROVE FALSE
    BY <1>1, <2>4 DEF RecordGet, editVars
  <2>5. ASSUME NEW q, RecordPut(q) PROVE FALSE
    BY <1>1, <2>5 DEF RecordPut, editVars
  <2>6. ASSUME NEW q, NEW r, SetRole(q, r) \/ SetBudget(r) PROVE FALSE
    BY <1>1, <2>6 DEF SetRole, SetBudget, editVars
  <2> QED BY <1>7, <2>1, <2>2, <2>3, <2>4, <2>5, <2>6 DEF AssistantNext
<1>8. ASSUME edits' = edits PROVE FALSE
  BY <1>1, <1>8
<1>9. ASSUME Settle PROVE FALSE
  BY <1>8, <1>9 DEF Settle
<1> QED BY <1>4, <1>5, <1>6, <1>7, <1>8, <1>9 DEF Next, vars, editVars

LEMMA MonthsGoOn ==
    ASSUME NEW t \in Nat, NEW u \in Nat, t <= u
    PROVE  Month(t) <= Month(u) /\ Month(t) \in Nat
<1>1. Month(t) \in Nat /\ Month(u) \in Nat
  BY AssistantAssumption DEF Month
<1>2. Month(t) * MonthTicks <= t /\ u < (Month(u) + 1) * MonthTicks
  BY AssistantAssumption DEF Month
<1>3. Month(t) * MonthTicks < (Month(u) + 1) * MonthTicks
  BY <1>1, <1>2, AssistantAssumption
<1>4. Month(t) < Month(u) + 1
  BY <1>1, <1>3, AssistantAssumption
<1> QED BY <1>1, <1>4

\* A count up to month n.
IsCount(months, n) ==
    /\ DOMAIN months \subseteq 0..n
    /\ \A k \in DOMAIN months : months[k] \in Nat

\* Where no later month is kept, nothing was dropped of this one.
LEMMA AddedIs ==
    ASSUME NEW u, NEW n \in Nat, IsCount(u.months, n), NEW month \in 0..n, NEW tokens \in Nat,
           NEW new, new = Added(u, month, tokens), NEW m \in Nat
    PROVE  /\ IsCount(new, n)
           /\ (\A k \in DOMAIN new : k <= m) =>
                  /\ \A k \in DOMAIN u.months : k <= m
                  /\ (IF m \in DOMAIN new THEN new[m] ELSE 0)
                        = Tokens(u, m) + IF m = month THEN tokens ELSE 0
<1> DEFINE all == DOMAIN u.months \cup {month}
           kept == {k \in all : Cardinality({j \in all : j > k}) < MonthsKept}
<1>1. new = [k \in kept |-> Tokens(u, k) + IF k = month THEN tokens ELSE 0]
  BY DEF Added
<1>2. \A k \in all : k \in Nat /\ k <= n /\ Tokens(u, k) \in Nat
  BY DEF IsCount, Tokens
<1>3. \A g \in all : (\A j \in all : j <= g) => g \in kept
  <2> SUFFICES ASSUME NEW g \in all, \A j \in all : j <= g PROVE g \in kept
    OBVIOUS
  <2>1. {j \in all : j > g} = {}
    BY <1>2
  <2>2. Cardinality({j \in all : j > g}) = 0
    BY <2>1, FS_EmptySet
  <2> QED BY <2>2, AssistantAssumption
<1> HIDE DEF kept
<1>4. kept \subseteq all
  BY DEF kept
<1>5. IsCount(new, n)
  <2>1. DOMAIN new = kept /\ \A k \in kept : new[k] = Tokens(u, k) + IF k = month THEN tokens ELSE 0
    BY <1>1
  <2>2. \A k \in kept : k \in 0..n /\ new[k] \in Nat
    BY <1>2, <1>4, <2>1
  <2> HIDE DEF all
  <2> QED BY <2>1, <2>2 DEF IsCount
<1>6. Max(all) \in all /\ \A k \in all : k <= Max(all)
  <2>1. all \in SUBSET Nat /\ all # {} /\ \A k \in all : k <= n
    BY <1>2
  <2> HIDE DEF all
  <2> QED BY <2>1, GreatestNumber
<1>7. ASSUME \A k \in DOMAIN new : k <= m
      PROVE  /\ \A k \in DOMAIN u.months : k <= m
             /\ (IF m \in DOMAIN new THEN new[m] ELSE 0)
                   = Tokens(u, m) + IF m = month THEN tokens ELSE 0
  <2>1. Max(all) \in DOMAIN new
    BY <1>1, <1>3, <1>6
  <2>2. \A k \in all : k <= m
    <3> HIDE DEF all
    <3> QED BY <1>2, <1>6, <1>7, <2>1
  <2>3. m \in all => m \in kept
    BY <1>3, <2>2
  <2>4. CASE m \in all
    BY <1>1, <2>2, <2>3, <2>4
  <2>5. CASE m \notin all
    <3>1. m \notin DOMAIN new
      BY <1>1, <1>4, <2>5
    <3>2. Tokens(u, m) = 0 /\ m # month
      BY <2>5 DEF Tokens
    <3> QED BY <2>2, <3>1, <3>2
  <2> QED BY <2>4, <2>5
<1> QED BY <1>5, <1>7

\* The count of a month says what was booked in it, unless it was dropped for later ones;
\* who is about to write the count brings what it becomes with the tokens of that question.
Counted(p) ==
    LET t == talk[p]
    IN /\ t.pc = "model" => DOMAIN t = {"pc", "offered", "steps", "used"}
       /\ t.pc \in {"model", "get", "put"} =>
              t.used \in Nat /\ ("month" \in DOMAIN t => t.month \in 0..Month(now))
       /\ t.pc = "put" =>
              /\ "month" \in DOMAIN t /\ t.seen \in Nat /\ t.seen <= usage.version
              /\ t.seen = usage.version => t.new = Added(usage, t.month, t.used)

BudgetInv ==
    /\ now \in 0..MaxTime /\ faults \in Nat
    /\ usage.version \in Nat /\ IsCount(usage.months, Month(now))
    /\ booked \in [0..Month(MaxTime) -> Nat]
    /\ \A m \in 0..Month(MaxTime) :
           (\A k \in DOMAIN usage.months : k <= m) => booked[m] = Tokens(usage, m)
    /\ talk = [p \in People |-> talk[p]]
    /\ \A p \in People : Counted(p)

LEMMA BudgetBegins == Init => BudgetInv
<1> SUFFICES ASSUME Init PROVE BudgetInv
  OBVIOUS
<1>1. now = 0 /\ plan \in Plans /\ faults = plan.faults /\ AssistantInit
  BY DEF Init
<1>2. usage.version = 0 /\ usage.months = <<>> /\ DOMAIN <<>> = {}
  BY <1>1 DEF AssistantInit
<1>3. now \in 0..MaxTime /\ faults \in Nat
  BY <1>1, ClockAssumption, PlanAssumption
<1>4. \A m : Tokens(usage, m) = 0
  BY <1>2 DEF Tokens
<1>5. talk = [p \in People |-> Silent] /\ booked = [m \in 0..Month(MaxTime) |-> 0]
  BY <1>1 DEF AssistantInit
<1>6. \A p \in People : Counted(p)
  BY <1>5 DEF Counted, Silent
<1> QED BY <1>2, <1>3, <1>4, <1>5, <1>6 DEF BudgetInv, IsCount

LEMMA BudgetStep ==
    ASSUME BudgetInv, [Next]_vars
    PROVE  BudgetInv'
<1>0. /\ now \in 0..MaxTime /\ now' \in 0..MaxTime /\ now <= now'
      /\ faults' \in Nat
      /\ Month(now) \in Nat /\ Month(now') \in Nat /\ Month(now) <= Month(now')
      /\ Month(now) \in 0..Month(MaxTime)
  <2>1. now \in 0..MaxTime /\ faults \in Nat /\ MaxTime \in Nat
    BY ClockAssumption DEF BudgetInv
  <2>2. now' \in 0..MaxTime /\ now <= now' /\ faults' \in Nat
    BY <2>1, TimePasses DEF InNoTime
  <2>3. now \in Nat /\ now' \in Nat /\ now <= MaxTime
    BY <2>1, <2>2
  <2>4. Month(now) \in Nat /\ Month(now') \in Nat /\ Month(now) <= Month(now')
    BY <2>2, <2>3, MonthsGoOn
  <2>5. Month(now) <= Month(MaxTime) /\ Month(MaxTime) \in Nat
    BY <2>1, <2>3, MonthsGoOn
  <2> QED BY <2>1, <2>2, <2>4, <2>5
<1>1. IsCount(usage.months, Month(now)) /\ usage.version \in Nat
  BY DEF BudgetInv
<1>2. IsCount(usage.months, Month(now'))
  BY <1>0, <1>1 DEF IsCount
<1>3. ASSUME NEW p \in People, talk'[p] = talk[p], UNCHANGED usage PROVE Counted(p)'
  <2>1. Counted(p)
    BY DEF BudgetInv
  <2>2. PICK t : t = talk[p]
    OBVIOUS
  <2>3. "month" \in DOMAIN t /\ t.month \in 0..Month(now) => t.month \in 0..Month(now')
    BY <1>0
  <2> QED BY <1>3, <2>1, <2>2, <2>3 DEF Counted
\* Who is at a question goes on.
<1>4. ASSUME NEW p \in People, NEW x, talk' = [talk EXCEPT ![p] = x], UNCHANGED <<usage, booked>>,
             talk'[p] = x => Counted(p)'
      PROVE  BudgetInv'
  <2>1. talk' = [q \in People |-> IF q = p THEN x ELSE talk[q]]
    BY <1>4 DEF BudgetInv
  <2>2. \A q \in People : Counted(q)'
    BY <1>3, <1>4, <2>1
  <2>3. IsCount(usage'.months, Month(now'))
    BY <1>2, <1>4
  <2>4. \A m \in 0..Month(MaxTime) :
           (\A k \in DOMAIN usage'.months : k <= m) => booked'[m] = Tokens(usage', m)
    BY <1>4 DEF BudgetInv
  <2> QED BY <1>0, <1>4, <2>1, <2>2, <2>3, <2>4 DEF BudgetInv
<1>5. ASSUME UNCHANGED <<talk, usage, booked>> PROVE BudgetInv'
  <2>1. \A q \in People : Counted(q)'
    BY <1>3, <1>5
  <2>2. IsCount(usage'.months, Month(now'))
    BY <1>2, <1>5
  <2>3. \A m \in 0..Month(MaxTime) :
           (\A k \in DOMAIN usage'.months : k <= m) => booked'[m] = Tokens(usage', m)
    BY <1>5 DEF BudgetInv
  <2> QED BY <1>0, <1>5, <2>1, <2>2, <2>3 DEF BudgetInv
<1>6. ASSUME NEW p \in People, AskAssistant(p) PROVE BudgetInv'
  <2>1. PICK x : x = [pc |-> "model", offered |-> toolsFor(p), steps |-> 0, used |-> 0]
    OBVIOUS
  <2>2. talk' = [talk EXCEPT ![p] = x] /\ UNCHANGED <<usage, booked>>
    BY <1>6, <2>1 DEF AskAssistant
  <2>3. talk'[p] = x => Counted(p)'
    BY <2>1 DEF Counted
  <2> QED BY <1>4, <2>2, <2>3
<1>7. ASSUME NEW p \in People, Step(p) PROVE BudgetInv'
  <2>1. PICK t : t = talk[p]
    OBVIOUS
  <2>2. /\ t.pc = "model" /\ DOMAIN t = {"pc", "offered", "steps", "used"} /\ t.used \in Nat
        /\ UNCHANGED <<usage, booked>>
    BY <1>7, <2>1 DEF Step, BudgetInv, Counted
  <2>3. PICK x : /\ talk' = [talk EXCEPT ![p] = x]
                 /\ \/ x = Silent
                    \/ x = [t EXCEPT !.pc = "get"]
                    \/ \E u \in TokenUses : \E pc \in {"get", "model"} : \E steps :
                           x = [pc |-> pc, offered |-> t.offered, steps |-> steps, used |-> t.used + u]
    <3>1. CASE talk' = [talk EXCEPT ![p] = IF @.steps = 0 THEN Silent ELSE [@ EXCEPT !.pc = "get"]]
      BY <2>1, <3>1
    <3>2. CASE ~(talk' = [talk EXCEPT ![p] = IF @.steps = 0 THEN Silent ELSE [@ EXCEPT !.pc = "get"]])
      <4>1. PICK u \in TokenUses, call \in {{}} \cup {{a} : a \in ToolAsks} :
              LET over == call = {} \/ talk[p].steps + 1 = MaxSteps
              IN talk' = [talk EXCEPT ![p] = [pc |-> IF over THEN "get" ELSE "model", offered |-> @.offered,
                                              steps |-> @.steps + 1, used |-> @.used + u]]
        BY <1>7, <3>2 DEF Step
      <4>2. PICK pc \in {"get", "model"} : pc = IF call = {} \/ talk[p].steps + 1 = MaxSteps
                                                THEN "get" ELSE "model"
        OBVIOUS
      <4> QED BY <2>1, <4>1, <4>2
    <3> QED BY <3>1, <3>2
  <2>4. TokenUses \subseteq Nat
    BY AssistantAssumption
  <2>5. talk'[p] = x => Counted(p)'
    BY <2>2, <2>3, <2>4 DEF Counted, Silent
  <2> QED BY <1>4, <2>2, <2>3, <2>5
<1>8. ASSUME NEW p \in People, RecordGet(p) PROVE BudgetInv'
  <2>1. PICK month : month = IF "month" \in DOMAIN talk[p] THEN talk[p].month ELSE Month(now)
    OBVIOUS
  <2>2. PICK x : x = [pc |-> "put", used |-> talk[p].used, month |-> month,
                      seen |-> usage.version, new |-> Added(usage, month, talk[p].used)]
    OBVIOUS
  <2>3. talk' = [talk EXCEPT ![p] = x] /\ UNCHANGED <<usage, booked>>
    BY <1>8, <2>1, <2>2 DEF RecordGet
  <2>4. talk[p].used \in Nat /\ month \in 0..Month(now)
    BY <1>0, <1>8, <2>1 DEF RecordGet, BudgetInv, Counted
  <2>5. month \in 0..Month(now')
    BY <1>0, <2>4
  <2>6. talk'[p] = x => Counted(p)'
    BY <1>1, <2>2, <2>3, <2>4, <2>5 DEF Counted
  <2> QED BY <1>4, <2>3, <2>6
<1>9. ASSUME NEW p \in People, RecordPut(p) PROVE BudgetInv'
  <2>1. PICK t : t = talk[p]
    OBVIOUS
  <2>2. /\ t.pc = "put" /\ t.used \in Nat /\ t.month \in 0..Month(now) /\ t.seen \in Nat
        /\ t.seen <= usage.version
        /\ t.seen = usage.version => t.new = Added(usage, t.month, t.used)
    BY <1>9, <2>1 DEF RecordPut, BudgetInv, Counted
  <2>3. PICK y : y = [pc |-> "get", used |-> t.used, month |-> t.month]
    OBVIOUS
  <2>4. \/ /\ t.seen = usage.version
           /\ usage' = [version |-> usage.version + 1, months |-> t.new]
           /\ booked' = [booked EXCEPT ![t.month] = @ + t.used]
           /\ talk' = [talk EXCEPT ![p] = Silent]
        \/ talk' = [talk EXCEPT ![p] = Silent] /\ UNCHANGED <<usage, booked>>
        \/ talk' = [talk EXCEPT ![p] = y] /\ UNCHANGED <<usage, booked>>
    BY <1>9, <2>1, <2>3 DEF RecordPut
  <2>5. CASE talk' = [talk EXCEPT ![p] = Silent] /\ UNCHANGED <<usage, booked>>
    <3>1. talk'[p] = Silent => Counted(p)'
      BY DEF Counted, Silent
    <3> QED BY <1>4, <2>5, <3>1
  <2>6. CASE talk' = [talk EXCEPT ![p] = y] /\ UNCHANGED <<usage, booked>>
    <3>1. t.month \in 0..Month(now')
      BY <1>0, <2>2
    <3>2. talk'[p] = y => Counted(p)'
      BY <2>2, <2>3, <3>1 DEF Counted
    <3> QED BY <1>4, <2>6, <3>2
  <2>7. CASE /\ t.seen = usage.version
             /\ usage' = [version |-> usage.version + 1, months |-> t.new]
             /\ booked' = [booked EXCEPT ![t.month] = @ + t.used]
             /\ talk' = [talk EXCEPT ![p] = Silent]
    <3>1. PICK new, month, used : new = t.new /\ month = t.month /\ used = t.used
      OBVIOUS
    <3>2. month \in 0..Month(now) /\ used \in Nat /\ new = Added(usage, month, used)
      BY <2>2, <2>7, <3>1
    <3>3. /\ IsCount(new, Month(now))
          /\ \A m \in Nat : (\A k \in DOMAIN new : k <= m) =>
                 /\ \A k \in DOMAIN usage.months : k <= m
                 /\ (IF m \in DOMAIN new THEN new[m] ELSE 0)
                       = Tokens(usage, m) + IF m = month THEN used ELSE 0
      <4>1. PICK u, n : u = usage /\ n = Month(now)
        OBVIOUS
      <4>2. n \in Nat /\ IsCount(u.months, n) /\ month \in 0..n /\ used \in Nat /\ new = Added(u, month, used)
        BY <1>0, <1>1, <3>2, <4>1
      <4>3. IsCount(new, n)
        BY <4>2, AddedIs, 0 \in Nat
      <4>4. \A m \in Nat : (\A k \in DOMAIN new : k <= m) =>
               /\ \A k \in DOMAIN u.months : k <= m
               /\ (IF m \in DOMAIN new THEN new[m] ELSE 0)
                     = Tokens(u, m) + IF m = month THEN used ELSE 0
        <5> TAKE m \in Nat
        <5> QED BY <4>2, AddedIs
      <4> QED BY <4>1, <4>3, <4>4
    <3>4. usage'.version = usage.version + 1 /\ usage'.months = new
      BY <2>7, <3>1
    <3>5. IsCount(usage'.months, Month(now'))
      BY <1>0, <3>3, <3>4 DEF IsCount
    <3>6. booked' = [m \in 0..Month(MaxTime) |-> booked[m] + IF m = month THEN used ELSE 0]
      <4>1. PICK b : b = booked
        OBVIOUS
      <4>2. b \in [0..Month(MaxTime) -> Nat] /\ booked' = [b EXCEPT ![month] = b[month] + used]
        BY <2>7, <3>1, <4>1 DEF BudgetInv
      <4>3. \A m \in 0..Month(MaxTime) : b[m] + 0 = b[m]
        BY <4>2
      <4> QED BY <4>1, <4>2, <4>3
    <3>7. booked' \in [0..Month(MaxTime) -> Nat]
      BY <3>2, <3>6 DEF BudgetInv
    <3>8. ASSUME NEW m \in 0..Month(MaxTime), \A k \in DOMAIN new : k <= m
          PROVE  booked'[m] = Tokens(usage', m)
      <4>1. m \in Nat /\ \A k \in DOMAIN usage.months : k <= m
        BY <3>3, <3>8
      <4>2. booked[m] = Tokens(usage, m)
        BY <4>1 DEF BudgetInv
      <4>3. Tokens(usage', m) = IF m \in DOMAIN new THEN new[m] ELSE 0
        BY <3>4 DEF Tokens
      <4>4. Tokens(usage', m) = Tokens(usage, m) + IF m = month THEN used ELSE 0
        BY <3>3, <3>8, <4>1, <4>3
      <4> QED BY <3>6, <4>2, <4>4
    <3>9. talk' = [q \in People |-> IF q = p THEN Silent ELSE talk[q]]
      BY <2>7 DEF BudgetInv
    <3>10. ASSUME NEW q \in People PROVE Counted(q)'
      <4>1. CASE q = p
        BY <3>9, <4>1 DEF Counted, Silent
      <4>2. CASE q # p
        <5>1. PICK z : z = talk[q]
          OBVIOUS
        <5>2. talk'[q] = z /\ Counted(q)
          BY <3>9, <4>2, <5>1 DEF BudgetInv
        <5>3. z.pc = "put" => z.seen \in Nat /\ z.seen < usage'.version
          BY <1>1, <3>4, <5>1, <5>2 DEF Counted
        <5>4. "month" \in DOMAIN z /\ z.month \in 0..Month(now) => z.month \in 0..Month(now')
          BY <1>0
        <5> QED BY <1>1, <3>4, <5>1, <5>2, <5>3, <5>4 DEF Counted
      <4> QED BY <4>1, <4>2
    <3>11. talk' = [q \in People |-> talk'[q]]
      BY <3>9
    <3> QED BY <1>0, <1>1, <3>4, <3>5, <3>7, <3>8, <3>10, <3>11 DEF BudgetInv
  <2> QED BY <2>4, <2>5, <2>6, <2>7
<1>10. ASSUME AssistantNext PROVE BudgetInv'
  <2>1. ASSUME NEW p, NEW a, Confirm(p, a) \/ CallTool(p, a) PROVE BudgetInv'
    BY <1>5, <2>1 DEF Confirm, CallTool, assistantVars
  <2>2. ASSUME NEW p, NEW r, SetRole(p, r) \/ SetBudget(r) PROVE BudgetInv'
    BY <1>5, <2>2 DEF SetRole, SetBudget
  <2> QED BY <1>6, <1>7, <1>8, <1>9, <1>10, <2>1, <2>2 DEF AssistantNext
<1> QED BY <1>5, <1>10 DEF Next, vars, assistantVars

\* Who is let in read the month's count, which is what was booked in it.
LEMMA WithinBudgetStep ==
    ASSUME BudgetInv, [Next]_vars
    PROVE  BudgetRespected
<1> SUFFICES ASSUME NEW p \in People, talk[p].pc = "idle", talk'[p].pc = "model"
             PROVE  budget = 0 \/ booked[Month(now)] < budget \/ faults' < faults
  BY DEF BudgetRespected
<1>1. talk = [q \in People |-> talk[q]] /\ faults \in Nat
  BY DEF BudgetInv
<1>2. booked[Month(now)] = Tokens(usage, Month(now))
  <2>1. now \in Nat /\ now <= MaxTime /\ MaxTime \in Nat
    BY ClockAssumption DEF BudgetInv
  <2>2. Month(now) \in Nat /\ Month(now) <= Month(MaxTime) /\ Month(MaxTime) \in Nat
    BY <2>1, MonthsGoOn
  <2>3. \A k \in DOMAIN usage.months : k <= Month(now)
    BY <2>2 DEF BudgetInv, IsCount
  <2> QED BY <2>2, <2>3 DEF BudgetInv
<1>3. talk'[p] # talk[p]
  OBVIOUS
<1>4. ASSUME NEW q, NEW x, talk' = [talk EXCEPT ![q] = x] PROVE q = p
  BY <1>1, <1>3, <1>4
<1>5. ASSUME NEW q \in People, AskAssistant(q)
      PROVE  budget = 0 \/ booked[Month(now)] < budget \/ faults' < faults
  <2>1. WithinBudget(now) \/ Fault
    BY <1>5 DEF AskAssistant
  <2>2. Fault => faults' < faults
    BY <1>1 DEF Fault
  <2> QED BY <1>2, <2>1, <2>2 DEF WithinBudget
<1>6. ASSUME NEW q \in People, Step(q) PROVE FALSE
  <2>1. talk[q].pc = "model" /\ \E x : talk' = [talk EXCEPT ![q] = x]
    BY <1>6 DEF Step
  <2> QED BY <1>4, <2>1
<1>7. ASSUME NEW q \in People, RecordGet(q) PROVE FALSE
  <2>1. talk[q].pc = "get" /\ \E x : talk' = [talk EXCEPT ![q] = x]
    BY <1>7 DEF RecordGet
  <2> QED BY <1>4, <2>1
<1>8. ASSUME NEW q \in People, RecordPut(q) PROVE FALSE
  <2>1. talk[q].pc = "put" /\ \E x : talk' = [talk EXCEPT ![q] = x]
    BY <1>8 DEF RecordPut
  <2> QED BY <1>4, <2>1
<1>9. ASSUME NEW q, NEW a, Confirm(q, a) \/ CallTool(q, a) PROVE FALSE
  BY <1>3, <1>9 DEF Confirm, CallTool, assistantVars
<1>10. ASSUME NEW q, NEW r, SetRole(q, r) \/ SetBudget(r) PROVE FALSE
  BY <1>3, <1>10 DEF SetRole, SetBudget
<1>11. ASSUME UNCHANGED assistantVars PROVE FALSE
  BY <1>3, <1>11 DEF assistantVars
<1> QED BY <1>5, <1>6, <1>7, <1>8, <1>9, <1>10, <1>11 DEF Next, vars, AssistantNext

LEMMA AllowedStep == EditInv /\ RoleInv /\ BudgetInv /\ [Next]_vars =>
                         OnlyFromTheSpace /\ RunWithTheRole /\ BudgetRespected
BY FromTheSpaceStep, WithTheRoleStep, WithinBudgetStep DEF EditInv

\* However messages, confirmations, calls of tools, changes of roles, of spaces and of the
\* budget interleave, each is allowed at the moment it goes on: commands of the space that
\* was configured, tools for the role the person has then, questions while the month's
\* count is below the budget (refuseChange, executeMutatingTool, checkAIBudget).
THEOREM AllIsAllowed == FairSpec => OnlyWhatIsAllowed
<1> DEFINE Inv == EditInv /\ RoleInv /\ BudgetInv
<1>1. Init => Inv
  BY EditsBegin, BudgetBegins DEF RoleInv, Init, AssistantInit
<1>2. Inv /\ [Next]_vars => Inv'
  BY EditStep, RoleStep, BudgetStep
<1>3. Inv /\ [Next]_vars => [OnlyFromTheSpace /\ RunWithTheRole /\ BudgetRespected]_vars
  BY AllowedStep
<1> HIDE DEF Inv
<1> QED BY <1>1, <1>2, <1>3, PTL DEF FairSpec, OnlyWhatIsAllowed
=============================================================================
