----------------------------- MODULE ScheduleEdits -----------------------------
(***************************************************************************)
(* The ways people change one schedule, a ScalingGroup or a ScalingConfig: *)
(* the routes of internal/api/scaling_handlers.go, the tools of the        *)
(* assistant and of the MCP server (applyOverride, changeExceptions) and   *)
(* the commands of the chat bot (Bot.scale, Bot.resume).  Each reads the   *)
(* whole object, works out its change against the clock, and writes the    *)
(* whole object back, again from the start when somebody else has written  *)
(* in between (retry.RetryOnConflict).                                     *)
(*                                                                         *)
(* What Timetable checks in detail is here the set of times at which the   *)
(* schedule changes state by itself.                                       *)
(***************************************************************************)
EXTENDS OperatorClock

CONSTANTS Schedules,      \* the timetables people save: sets of times of change
          Labels,         \* the exceptions they add
          DayOf,          \* label -> the time its exception changes the state at
          CalendarDays,   \* calendar -> the times its holidays change the state at
          MaxExceptions,  \* maxExceptions
          Asks,           \* what is asked through the routes and the tools
          People,         \* people at the dashboard, the assistant or an MCP client
          Bots,           \* the goroutines that answer chat messages
          MaxTries        \* attempts of retry.DefaultRetry

VARIABLES obj,        \* the stored object
          calendars,  \* the shared calendars in the settings
          edits       \* editor -> the request it is at

editVars == <<obj, calendars, edits>>

NextTransition == -2   \* hold until the schedule changes by itself
Forever == -3          \* hold until resumed
Unsaid == -4           \* no duration given

\* The requests that set an override.
Holds == {"manual", "tool", "chat"}

\* A request: what the form, the tool or the message may say.
WellAsked(a) ==
    /\ a.kind \in Holds \cup {"add", "remove"}
    /\ a.kind \in Holds => a.until \in {NextTransition, Forever, Unsaid} \cup (Nat \ {0})

ASSUME EditAssumption ==
    /\ MaxExceptions \in Nat /\ MaxTries \in Nat \ {0} /\ People \cap Bots = {}
    /\ DayOf \in [Labels -> Nat] /\ Schedules \subseteq SUBSET Nat
    /\ \A c \in DOMAIN CalendarDays : CalendarDays[c] \subseteq Nat
    /\ \A a \in Asks : WellAsked(a)

Editors == People \cup Bots
IdleEdit == [pc |-> "idle"]

EditInit ==
    /\ \E s \in Schedules, l \in {"none", "down"} :
           obj = [there |-> TRUE, version |-> 0, schedule |-> s, exceptions |-> <<>>, calendars |-> {},
                  active |-> "none", until |-> None, legacy |-> l, phase |-> "up"]
    /\ calendars = DOMAIN CalendarDays
    /\ edits = [e \in Editors |-> IdleEdit]

-----------------------------------------------------------------------------
\* Timetable.NextChange of what timetableOf resolves: the schedule, the object's own
\* exceptions and the days of the calendars that exist.
Changes(o, shared) ==
    o.schedule \cup {DayOf[l] : l \in Labels \cap ToSet(o.exceptions)}
               \cup UNION {CalendarDays[c] : c \in o.calendars \cap shared}
NextChange(o, shared, t) ==
    LET later == {c \in Changes(o, shared) : c > t} IN IF later = {} THEN None ELSE Min(later)

\* Engine.Decide: an override that has not run out, else the old annotation, else the
\* schedule, which starts up and flips at each of its changes.
Decide(o, shared, t) ==
    IF o.active # "none" /\ (o.until = None \/ t < o.until) THEN o.active
    ELSE IF o.legacy # "none" THEN o.legacy
    ELSE IF Cardinality({c \in Changes(o, shared) : c <= t}) % 2 = 0 THEN "up" ELSE "down"

\* validateSchedule: no more exceptions than the limit, and every calendar exists.
validateSchedule(o, shared) == Len(o.exceptions) <= MaxExceptions /\ o.calendars \subseteq shared

\* ResolveOverride: no override has no deadline; a hold until the next change needs
\* one; and no deadline lies in the past.
ResolveOverride(active, activeUntil, until, o, shared, t) ==
    LET deadline == IF until = NextTransition THEN NextChange(o, shared, t)
                    ELSE IF until > 0 THEN t + until ELSE activeUntil
    IN IF active = "none" THEN [ok |-> TRUE, active |-> active, until |-> None]
       ELSE [ok |-> IF deadline = None THEN until # NextTransition ELSE deadline > t,
             active |-> active, until |-> deadline]

\* Bot.resolveUntil: a hold until a change that never comes lasts until resumed.
resolveUntil(active, until, o, shared, t) ==
    [ok |-> TRUE, active |-> active,
     until |-> IF until = NextTransition THEN NextChange(o, shared, t)
               ELSE IF until > 0 THEN t + until ELSE None]

\* applyOverride and Bot.scale: what a missing duration stands for.
DefaultHold(until, o, shared, t) ==
    IF until = Unsaid /\ NextChange(o, shared, t) # None THEN NextTransition ELSE until

\* An override that goes takes the old annotation with it.
WithOverride(o, r) ==
    [o EXCEPT !.active = r.active, !.until = r.until, !.legacy = IF r.active = "none" THEN "none" ELSE @]

\* The exceptions but the ones of a label.
WithoutLabel(s, label) == SelectSeq(s, LAMBDA l : l # label)

\* The spec of a form replaces the object's.
WithForm(o, f) ==
    [o EXCEPT !.schedule = f.schedule, !.exceptions = f.exceptions, !.calendars = f.calendars,
              !.active = f.active, !.until = f.until]

\* The override a request comes to at time t.
Override(a, o, shared, t) ==
    CASE a.kind = "manual" -> ResolveOverride(a.active, a.activeUntil, a.until, o, shared, t)
      [] a.kind = "tool" -> ResolveOverride(a.active, None, DefaultHold(a.until, o, shared, t), o, shared, t)
      [] a.kind = "chat" -> resolveUntil(a.active, a.until, o, shared, t)

\* The object as a request wants it, from the object it read: ok says whether it is valid.
Edited(a, o, shared, t) ==
    CASE a.kind = "save" -> [ok |-> TRUE, obj |-> WithForm(o, a.form)]
      [] a.kind = "add" -> LET n == [o EXCEPT !.exceptions = Append(@, a.label)]
                           IN [ok |-> validateSchedule(n, shared), obj |-> n]
      [] a.kind = "remove" -> LET n == [o EXCEPT !.exceptions = WithoutLabel(@, a.label)]
                              IN [ok |-> n # o /\ validateSchedule(n, shared), obj |-> n]
      [] OTHER -> LET r == Override(a, o, shared, t) IN [ok |-> r.ok, obj |-> WithOverride(o, r)]

-----------------------------------------------------------------------------
Answer(e, result) == edits' = [edits EXCEPT ![e] = [pc |-> "done", ask |-> edits[e].ask, result |-> result]]

\* A request arrives.  The bot finds the object, and settles on a missing duration,
\* before its first attempt.
Begin(e, a) ==
    edits' = [edits EXCEPT ![e] =
        [pc |-> "get", tries |-> 1, began |-> now,
         ask |-> IF a.kind = "chat" THEN [a EXCEPT !.until = DefaultHold(@, obj, calendars, now)] ELSE a]]

\* ScheduleWizard: the dashboard loads the whole spec into its editor.
OpenEditor(e) ==
    /\ edits[e].pc = "idle" /\ obj.there
    /\ edits' = [edits EXCEPT ![e] = [pc |-> "form", form |->
           [schedule |-> obj.schedule, exceptions |-> obj.exceptions, calendars |-> obj.calendars,
            active |-> obj.active, until |-> obj.until]]]
    /\ NoFault
    /\ UNCHANGED <<obj, calendars>>

\* buildSpec: what was edited, and the rest as it was loaded; a schedule that was changed
\* drops the override.
buildSpec(form, s, cs) ==
    [form EXCEPT !.schedule = s, !.calendars = cs,
                 !.active = IF s = form.schedule THEN @ ELSE "none",
                 !.until = IF s = form.schedule THEN @ ELSE None]

\* updateScalingGroup, updateScalingConfig: the form is checked once, before the first attempt.
SendForm(e, s, cs) ==
    /\ edits[e].pc = "form" /\ Change
    /\ LET form == buildSpec(edits[e].form, s, cs)
       IN IF validateSchedule(form, calendars) THEN Begin(e, [kind |-> "save", form |-> form])
          ELSE edits' = [edits EXCEPT ![e] = IdleEdit]
    /\ UNCHANGED <<obj, calendars>>

\* handleScalingGroupManual, handleScalingConfigManual and the confirmed tools.
Ask(e, a) ==
    /\ edits[e].pc = "idle" /\ Change
    /\ Begin(e, a)
    /\ UNCHANGED <<obj, calendars>>

\* Get, and the change worked out at this moment; the calendars are none when the
\* settings cannot be read.
Get(e) ==
    /\ edits[e].pc = "get"
    /\ \E shared \in {calendars, {}} :
           /\ IF shared = calendars THEN NoFault ELSE Fault
           /\ LET new == Edited(edits[e].ask, obj, shared, now)
              IN IF obj.there /\ new.ok
                 THEN edits' = [edits EXCEPT ![e] = [pc |-> "put", tries |-> edits[e].tries, began |-> edits[e].began,
                                    ask |-> edits[e].ask, new |-> new.obj]]
                 ELSE Answer(e, "refused")
    /\ UNCHANGED <<obj, calendars>>

\* What Update stores of the object an editor brings: the status is not part of it.
Stored(new) == [new EXCEPT !.version = obj.version + 1, !.phase = obj.phase]

\* Mutant: the object is patched over whatever is there.
PutOverAll(e) ==
    /\ edits[e].pc = "put" /\ obj.there /\ NoFault
    /\ obj' = Stored(edits[e].new)
    /\ Answer(e, "ok")
    /\ UNCHANGED calendars

\* Mutant: the deadline is worked out once, before the retries.
PutResolvedOnce(e) ==
    /\ edits[e].pc = "put" /\ obj.there /\ NoFault
    /\ obj' = IF edits[e].ask.kind \in Holds
              THEN Stored(WithOverride(obj, [active |-> edits[e].new.active, until |-> edits[e].new.until]))
              ELSE Stored(edits[e].new)
    /\ Answer(e, "ok")
    /\ UNCHANGED calendars

\* Update: refused where somebody has written since the read, and then tried again;
\* a call that fails may have been carried out.
Put(e) ==
    /\ edits[e].pc = "put"
    /\ LET mine == obj.there /\ edits[e].new.version = obj.version
       IN \/ /\ mine /\ NoFault
             /\ obj' = Stored(edits[e].new)
             /\ Answer(e, "ok")
          \/ /\ ~mine /\ NoFault
             /\ IF edits[e].tries < MaxTries /\ obj.there
                THEN edits' = [edits EXCEPT ![e] = [pc |-> "get", tries |-> edits[e].tries + 1,
                                   began |-> edits[e].began, ask |-> edits[e].ask]]
                ELSE Answer(e, "failed")
             /\ UNCHANGED obj
          \/ /\ Fault
             /\ obj' \in {obj} \cup IF mine THEN {Stored(edits[e].new)} ELSE {}
             /\ Answer(e, "failed")
    /\ UNCHANGED calendars

\* The answer goes to whoever asked.
Answered(e) ==
    /\ edits[e].pc = "done" /\ edits[e].ask.kind # "chat"
    /\ edits' = [edits EXCEPT ![e] = IdleEdit]
    /\ NoFault
    /\ UNCHANGED <<obj, calendars>>

\* deleteScalingGroup, deleteScalingConfig.
DeleteSchedule ==
    /\ obj.there /\ Change
    /\ obj' = [obj EXCEPT !.there = FALSE]
    /\ UNCHANGED <<calendars, edits>>

\* createScalingGroup, createScalingConfig: a new schedule has no override, whatever
\* the request says.
CreateSchedule(s) ==
    /\ ~obj.there /\ Change
    /\ obj' = [there |-> TRUE, version |-> obj.version + 1, schedule |-> s, exceptions |-> <<>>, calendars |-> {},
               active |-> "none", until |-> None, legacy |-> "none", phase |-> "up"]
    /\ UNCHANGED <<calendars, edits>>

\* applyCalendarSettings: an admin drops a shared calendar.
DropCalendar ==
    /\ calendars # {} /\ Change
    /\ \E c \in calendars : calendars' = calendars \ {c}
    /\ UNCHANGED <<obj, edits>>

\* The controller brings the namespaces where the decision wants them and says so in
\* the status, which is a write of its own.
Settle ==
    /\ obj.there /\ NoFault
    /\ LET want == Decide(obj, calendars, now)
       IN want # obj.phase /\ obj' = [obj EXCEPT !.phase = want, !.version = @ + 1]
    /\ UNCHANGED <<calendars, edits>>

\* What people ask for, and how a request that has begun goes on.
PeopleNext(people) ==
    \/ \E e \in people :
           \/ OpenEditor(e) \/ Answered(e)
           \/ \E s \in Schedules, cs \in {{}, DOMAIN CalendarDays} : SendForm(e, s, cs)
           \/ \E a \in Asks : Ask(e, a)
    \/ DeleteSchedule
    \/ \E s \in Schedules : CreateSchedule(s)
    \/ DropCalendar
EditNext == \E e \in Editors : Get(e) \/ Put(e)

-----------------------------------------------------------------------------
\* The editor whose write a step is.
Lands(e) == edits[e].pc = "put" /\ obj' # obj /\ edits'[e] # edits[e]

\* However requests interleave, one that is carried out changes what it is about in the
\* object as it is at that moment, and nothing anybody else has changed meanwhile: an
\* override leaves the schedule and its exceptions, an exception leaves the override and
\* the other exceptions (the RetryOnConflict of every handler).
EditsKeepTheRest ==
    \A e \in Editors : Lands(e) =>
        LET a == edits[e].ask
        IN CASE a.kind = "save" -> obj'.legacy = obj.legacy
             [] a.kind = "add" -> obj' = Stored([obj EXCEPT !.exceptions = Append(@, a.label)])
             [] a.kind = "remove" -> obj' = Stored([obj EXCEPT !.exceptions = WithoutLabel(@, a.label)])
             [] OTHER -> obj' = Stored([obj EXCEPT !.active = obj'.active, !.until = obj'.until, !.legacy = obj'.legacy])

\* An override lasts as long as was asked, counted from some moment while the request was
\* at work, and one until the next change ends at a change of the schedule it is stored
\* with, not of one that was replaced meanwhile; it has no end only where that schedule
\* has no change to come (ResolveOverride and resolveUntil inside the retries).
HoldEndsAsAsked(e) ==
    Lands(e) /\ edits[e].ask.kind \in Holds =>
        LET a == edits[e].ask
        IN \/ a.active = "none" /\ obj'.until = None
           \/ a.until > 0 /\ obj'.until \in (edits[e].began + a.until)..(now + a.until)
           \/ /\ a.until = NextTransition \/ (a.until = Unsaid /\ a.kind = "tool")
              /\ IF obj'.until = None THEN a.kind # "manual" /\ \A c \in Changes(obj', {}) : c <= now
                 ELSE obj'.until \in Changes(obj', DOMAIN CalendarDays) /\ obj'.until > edits[e].began
           \/ a.until = Forever
           \/ a.until = Unsaid /\ a.kind # "tool"
HoldsEndAsAsked == [][\A e \in Editors : HoldEndsAsAsked(e)]_<<obj, edits>>
=============================================================================
