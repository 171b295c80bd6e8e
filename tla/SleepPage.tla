------------------------------- MODULE SleepPage -------------------------------
(***************************************************************************)
(* The sleep page: while a schedule keeps its namespaces down, their       *)
(* HTTPRoutes point at CostDeck's page, with what they replaced saved on   *)
(* the route, and one ReferenceGrant, shared by all schedules, lists the   *)
(* namespaces whose routes may do so (controller/sleep.go, scaling/sleep.go *)
(* and the part of controller/release.go about routes).                    *)
(*                                                                         *)
(* The group controller and the config controller each work on one         *)
(* schedule at a time, next to each other.  A step is one API call: a      *)
(* listing of the routes, a patch of one route or a write of the grant.    *)
(* Any call may fail and the operator may restart between two of them.     *)
(***************************************************************************)
EXTENDS Integers, FiniteSets

CONSTANTS
    Controllers,     \* the reconcilers running side by side
    Schedules,       \* ScalingGroups and ScalingConfigs
    Assignments,     \* which controller reconciles a schedule: the ways to explore
    NamespacesOf,    \* the namespaces a schedule scales
    Routes,          \* the HTTPRoutes
    NamespaceOf,     \* the namespace of a route
    Apps,            \* what the rules of a route lead to when it is awake
    Page,            \* rules that lead to the sleep page
    OldPage,         \* rules that lead to the Service an earlier version used
    None,            \* no saved rules
    MaxChanges,      \* bound on what users and schedules change, deletions included
    MaxFaults        \* bound on failed calls and restarts

Namespaces == UNION {NamespacesOf[s] : s \in Schedules}

ASSUME ConstantsAssumption ==
    /\ Assignments \subseteq [Schedules -> Controllers]
    /\ NamespaceOf \in [Routes -> Namespaces]
    /\ \A s, t \in Schedules : s # t => NamespacesOf[s] \cap NamespacesOf[t] = {}
    /\ Page \notin Apps /\ OldPage \notin Apps \cup {Page}
    /\ None \notin Apps \cup {Page, OldPage}
    /\ {MaxChanges, MaxFaults} \subseteq Nat

VARIABLES
    route,      \* the rules of each route and what its sleeping mark saved
    grant,      \* the namespaces the ReferenceGrant lists, {} when there is none
    controller, \* which controller reconciles a schedule
    life,       \* whether a schedule is live, being deleted or gone
    enabled,    \* spec.sleepPage
    target,     \* whether the schedule wants its namespaces up
    settled,    \* whether they have all got there
    condition,  \* the reason of the SleepPage condition in the stored status
    worker,     \* what each controller is doing
    \* Histories, read by the properties only.
    was,        \* the rules a route had when it was put to sleep
    gaveUp,     \* the schedules deleted without a complete release
    \* How often what the bounds limit has happened.
    changes, faults

boundVars == <<changes, faults>>
scheduleVars == <<controller, life, enabled, target, settled, condition>>
vars == <<route, grant, scheduleVars, worker, was, gaveUp, boundVars>>

Rules == Apps \cup {Page, OldPage}
Jobs == {"sleep", "wake", "off", "release"}
Idle == [step |-> "idle"]
Work ==
    [step : {"allow", "grant", "sleep", "wake", "list", "write"},
     job : Jobs, schedule : Schedules, todo : SUBSET Routes, seen : SUBSET Namespaces]

TypeOK ==
    /\ route \in [Routes -> [rules : Rules, mark : Apps \cup {None}]]
    /\ grant \subseteq Namespaces
    /\ controller \in Assignments
    /\ life \in [Schedules -> {"live", "deleting", "gone"}]
    /\ enabled \in [Schedules -> BOOLEAN]
    /\ target \in [Schedules -> BOOLEAN]
    /\ settled \in [Schedules -> BOOLEAN]
    /\ condition \in [Schedules -> {"none", "Asleep", "Awake", "NoRoutes", "Failed"}]
    /\ worker \in [Controllers -> Work \cup {Idle}]
    /\ was \in [Routes -> Apps \cup {None}]
    /\ gaveUp \subseteq Schedules
    /\ changes \in 0..MaxChanges /\ faults \in 0..MaxFaults

-----------------------------------------------------------------------------
(* What the engine does to a route and to the grant.                        *)

RoutesIn(s) == {r \in Routes : NamespaceOf[r] \in NamespacesOf[s]}

\* Mutant: a route that is asleep is saved again when it is moved.
sleepingRouteSavesAgain(o) ==
    [rules |-> Page, mark |-> IF o.rules = Page THEN o.mark ELSE o.rules]

\* SleepRoutes for one route: what it led to is saved unless the route is asleep
\* already, and its rules lead to the page's current Service.
sleepingRoute(o) ==
    [rules |-> Page, mark |-> IF o.mark = None THEN o.rules ELSE o.mark]

\* Mutant: a route that no longer leads to the page only loses its mark.
wokenRouteUnlessEdited(o) ==
    IF o.rules # Page THEN [o EXCEPT !.mark = None]
    ELSE [rules |-> IF o.mark = None THEN o.rules ELSE o.mark, mark |-> None]

\* WakeRoutes for one route: only a marked one, to what the mark saved.
wokenRoute(o) ==
    IF o.mark = None THEN o ELSE [rules |-> o.mark, mark |-> None]

SleepingNamespaces == {NamespaceOf[r] : r \in {q \in Routes : route[q].mark # None}}

\* SyncSleepGrant before its write: what the grant is going to list.
SyncSleepGrant(extra) == SleepingNamespaces \cup extra

-----------------------------------------------------------------------------
(* A reconcile's part about the sleep page.                                 *)

Begin(c, s, step, job) ==
    /\ worker' = [worker EXCEPT ![c] =
                    [step |-> step, job |-> job, schedule |-> s,
                     todo |-> RoutesIn(s), seen |-> {}]]
    /\ UNCHANGED <<route, grant, scheduleVars, was, gaveUp, boundVars>>

\* Mutant: the routes are put to sleep before the grant lists them.
BeginSleepUngranted(c, s) == Begin(c, s, "sleep", "sleep")

\* The namespaces are all down: the grant comes first.
BeginSleep(c, s) == Begin(c, s, "allow", "sleep")

\* reconcileSleepPage's switch, and the release of a schedule being deleted.
\* Between two settled states the routes stay as they are.
Start(c, s) ==
    /\ worker[c] = Idle
    /\ controller[s] = c
    /\ \/ /\ life[s] = "deleting"
          /\ Begin(c, s, "wake", "release")
       \/ /\ life[s] = "live" /\ ~enabled[s] /\ condition[s] = "Asleep"
          /\ Begin(c, s, "wake", "off")
       \/ /\ life[s] = "live" /\ ~enabled[s] /\ condition[s] \notin {"none", "Asleep"}
          /\ condition' = [condition EXCEPT ![s] = "none"]
          /\ UNCHANGED <<controller, route, grant, life, enabled, target, settled, worker, was,
                         gaveUp, boundVars>>
       \/ /\ life[s] = "live" /\ enabled[s] /\ settled[s] /\ target[s]
          /\ Begin(c, s, "wake", "wake")
       \/ /\ life[s] = "live" /\ enabled[s] /\ settled[s] /\ ~target[s]
          /\ BeginSleep(c, s)

Keep == UNCHANGED <<scheduleVars, gaveUp, boundVars>>

\* SyncSleepGrant lists the sleeping namespaces; before a sleep it adds the
\* namespaces about to.
ListSleeping(c) ==
    LET w == worker[c] IN
    /\ w.step \in {"allow", "list"}
    /\ worker' = [worker EXCEPT
          ![c].step = IF w.step = "allow" THEN "grant" ELSE "write",
          ![c].seen = SyncSleepGrant(IF w.step = "allow" THEN NamespacesOf[w.schedule] ELSE {})]
    /\ UNCHANGED <<route, grant, was>> /\ Keep

\* The grant lists the namespaces about to sleep.
WriteGrant(c) ==
    /\ worker[c].step = "grant"
    /\ grant' = worker[c].seen
    /\ worker' = [worker EXCEPT ![c].step = IF worker[c].todo = {} THEN "list" ELSE "sleep"]
    /\ UNCHANGED <<route, was>> /\ Keep

SleepRoute(c, r) ==
    /\ worker[c].step = "sleep" /\ r \in worker[c].todo
    /\ route' = [route EXCEPT ![r] = sleepingRoute(@)]
    /\ was' = [was EXCEPT ![r] = IF route[r].mark = None THEN route[r].rules ELSE @]
    /\ worker' = [worker EXCEPT ![c].todo = @ \ {r}]
    /\ UNCHANGED grant /\ Keep

\* Mutant: a schedule is released without waking its routes.
WakeRouteSkipsRelease(c, r) ==
    /\ worker[c].step = "wake" /\ r \in worker[c].todo
    /\ route' = IF worker[c].job = "release" THEN route
                ELSE [route EXCEPT ![r] = wokenRoute(@)]
    /\ was' = [was EXCEPT ![r] = None]
    /\ worker' = [worker EXCEPT ![c].todo = @ \ {r}]
    /\ UNCHANGED grant /\ Keep

WakeRoute(c, r) ==
    /\ worker[c].step = "wake" /\ r \in worker[c].todo
    /\ route' = [route EXCEPT ![r] = wokenRoute(@)]
    /\ was' = [was EXCEPT ![r] = None]
    /\ worker' = [worker EXCEPT ![c].todo = @ \ {r}]
    /\ UNCHANGED grant /\ Keep

\* Every route is awake: the grant is narrowed next.
AllAwake(c) ==
    /\ worker[c].step = "wake" /\ worker[c].todo = {}
    /\ worker' = [worker EXCEPT ![c].step = "list"]
    /\ UNCHANGED <<route, grant, was>> /\ Keep

\* What the condition says at the end of a job; a released schedule loses its
\* finalizer.
Outcome(job) ==
    CASE job = "sleep" -> "NoRoutes"
      [] job = "wake" -> "Awake"
      [] OTHER -> "none"

Finish(c, reason) ==
    LET s == worker[c].schedule IN
    /\ worker' = [worker EXCEPT ![c] = Idle]
    /\ condition' = [condition EXCEPT ![s] = reason]
    /\ life' = IF worker[c].job = "release" THEN [life EXCEPT ![s] = "gone"] ELSE life
    /\ UNCHANGED <<controller, enabled, target, settled, gaveUp, boundVars>>

\* All its routes show the page.
Asleep(c) ==
    /\ worker[c].step = "sleep" /\ worker[c].todo = {}
    /\ Finish(c, "Asleep")
    /\ UNCHANGED <<route, grant, was>>

\* Mutant: the grant is kept as it is once nothing of the schedule sleeps.
NarrowGrantNever(c) ==
    /\ worker[c].step = "write"
    /\ grant' = grant
    /\ Finish(c, Outcome(worker[c].job))
    /\ UNCHANGED <<route, was>>

\* The grant is narrowed to the namespaces that were asleep when listed, and
\* removed when none was.
NarrowGrant(c) ==
    /\ worker[c].step = "write"
    /\ grant' = worker[c].seen
    /\ Finish(c, Outcome(worker[c].job))
    /\ UNCHANGED <<route, was>>

\* A call fails, the status update is refused or the operator restarts.  The
\* condition then says Failed, or what it said before.  An error of the last
\* write after a sleep without routes is ignored.  A release is tried again, or
\* given up ten minutes after the deletion.
Fault(c) ==
    LET w == worker[c] IN
    /\ w # Idle
    /\ faults < MaxFaults
    /\ faults' = faults + 1
    /\ worker' = [worker EXCEPT ![c] = Idle]
    /\ \/ /\ w.job # "release"
          /\ \/ condition' = condition
             \/ /\ ~(w.job = "sleep" /\ w.step \in {"list", "write"})
                /\ condition' = [condition EXCEPT ![w.schedule] = "Failed"]
             \/ /\ w.job = "sleep" /\ w.step \in {"list", "write"}
                /\ condition' = [condition EXCEPT ![w.schedule] = "NoRoutes"]
          /\ UNCHANGED <<life, gaveUp>>
       \/ /\ w.job = "release"
          /\ \/ UNCHANGED <<life, gaveUp>>
             \/ /\ life' = [life EXCEPT ![w.schedule] = "gone"]
                /\ gaveUp' = gaveUp \cup {w.schedule}
          /\ UNCHANGED condition
    /\ UNCHANGED <<controller, route, grant, enabled, target, settled, was, changes>>

-----------------------------------------------------------------------------
(* What happens around the operator.                                        *)

\* The schedule's hours begin or end, or a user overrides them.
Flip(s) ==
    /\ changes < MaxChanges /\ life[s] = "live"
    /\ changes' = changes + 1
    /\ target' = [target EXCEPT ![s] = ~@]
    /\ settled' = [settled EXCEPT ![s] = FALSE]
    /\ UNCHANGED <<controller, route, grant, life, enabled, condition, worker, was,
                   gaveUp, faults>>

\* The namespaces of a schedule have all reached the desired state.
Settle(s) ==
    /\ ~settled[s]
    /\ settled' = [settled EXCEPT ![s] = TRUE]
    /\ UNCHANGED <<controller, route, grant, life, enabled, target, condition, worker, was, gaveUp,
                   boundVars>>

\* A user turns spec.sleepPage on or off.
Switch(s) ==
    /\ changes < MaxChanges /\ life[s] = "live"
    /\ changes' = changes + 1
    /\ enabled' = [enabled EXCEPT ![s] = ~@]
    /\ UNCHANGED <<controller, route, grant, life, target, settled, condition, worker,
                   was, gaveUp, faults>>

\* A user deletes a schedule.
Delete(s) ==
    /\ changes < MaxChanges /\ life[s] = "live"
    /\ changes' = changes + 1
    /\ life' = [life EXCEPT ![s] = "deleting"]
    /\ UNCHANGED <<controller, route, grant, enabled, target, settled, condition, worker,
                   was, gaveUp, faults>>

\* A user, or a GitOps sync, writes a route's rules; the mark stays.
EditRoute(r, a) ==
    /\ changes < MaxChanges /\ route[r].rules # a
    /\ changes' = changes + 1
    /\ route' = [route EXCEPT ![r].rules = a]
    /\ UNCHANGED <<grant, scheduleVars, worker, was, gaveUp, faults>>

-----------------------------------------------------------------------------
\* Everything is awake, or an earlier version put the routes of a settled
\* schedule to sleep on the Service it used.
Init ==
    /\ controller \in Assignments
    /\ enabled = [s \in Schedules |-> TRUE]
    /\ target \in [Schedules -> BOOLEAN]
    /\ \E old \in {o \in SUBSET Schedules : \A s \in o : ~target[s]}, a \in Apps :
        /\ route = [r \in Routes |->
             IF \E s \in old : r \in RoutesIn(s)
             THEN [rules |-> OldPage, mark |-> a] ELSE [rules |-> a, mark |-> None]]
        /\ was = [r \in Routes |-> route[r].mark]
        /\ condition = [s \in Schedules |-> IF s \in old THEN "Asleep" ELSE "none"]
    /\ grant = SleepingNamespaces
    /\ life = [s \in Schedules |-> "live"]
    /\ settled = [s \in Schedules |-> TRUE]
    /\ worker = [c \in Controllers |-> Idle]
    /\ gaveUp = {}
    /\ changes = 0 /\ faults = 0

Step(c) ==
    \/ ListSleeping(c) \/ WriteGrant(c) \/ AllAwake(c) \/ Asleep(c) \/ NarrowGrant(c)
    \/ \E r \in Routes : SleepRoute(c, r) \/ WakeRoute(c, r)

Next ==
    \/ \E c \in Controllers : Step(c) \/ Fault(c)
    \/ \E s \in Schedules :
        Start(controller[s], s) \/ Flip(s) \/ Settle(s) \/ Switch(s) \/ Delete(s)
    \/ \E r \in Routes, a \in Apps : EditRoute(r, a)

Spec == Init /\ [][Next]_vars

\* A controller finishes the reconcile it has begun, its queue serves every
\* schedule again and again (it is requeued within a minute), and namespaces
\* reach the state the schedule wants.
Fairness ==
    /\ \A c \in Controllers : WF_vars(Step(c))
    /\ \A s \in Schedules : SF_vars(Start(controller[s], s)) /\ WF_vars(Settle(s))

FairSpec == Spec /\ Fairness

-----------------------------------------------------------------------------
(* Properties.                                                              *)

\* The comment in reconcileSleepPage: the grant comes first, so no route ever
\* points at the page without being allowed to.
NeverWithoutGrant ==
    (\A s, t \in Schedules : controller[s] = controller[t]) =>
      \A r \in Routes : route[r].rules = Page => NamespaceOf[r] \in grant

\* A woken route leads exactly where it led before CostDeck put it to sleep,
\* however often it was put to sleep again, moved to another Service or edited
\* meanwhile (SleepRoutes, WakeRoutes).
GivenBackExactly ==
    [][\A r \in Routes :
        route[r].mark # None /\ route'[r].mark = None => route'[r].rules = was[r]]_vars

\* A schedule that is gone has left no route asleep, unless its release was
\* given up (releaseNamespace before the finalizer is dropped).
GoneLeavesNoneAsleep ==
    \A s \in Schedules :
        life[s] = "gone" /\ s \notin gaveUp => \A r \in RoutesIn(s) : route[r].mark = None

\* Where everything should end, leaving aside schedules whose release was given
\* up and those with the option off, which may leave routes behind: routes show the page while their
\* schedule keeps them down and wants a page, and lead to their applications
\* otherwise; the grant lists every sleeping namespace and, where no schedule is
\* left aside and one still lives, none but the ones kept down (a schedule
\* without routes adds its namespaces and takes them off again in every pass).
wantsPage(s) == life[s] = "live" /\ enabled[s] /\ ~target[s]

InOrder ==
    LET aside == gaveUp \cup {s \in Schedules : life[s] = "live" /\ ~enabled[s]}
        namespaces(S) == UNION {NamespacesOf[s] : s \in S}
    IN  /\ \A s \in Schedules \ aside : \A r \in RoutesIn(s) :
            IF wantsPage(s) THEN route[r].rules = Page ELSE route[r].mark = None
        /\ SleepingNamespaces \ namespaces(aside) \subseteq grant
        /\ aside = {} /\ (\E s \in Schedules : life[s] = "live")
           => grant \subseteq namespaces({s \in Schedules : wantsPage(s)})

\* Once nobody changes anything any more, the routes and the grant are and stay
\* in order, whatever the controllers did to each other's grant
\* (reconcileSleepPage is repeated by every reconcile).
EndsInOrder == <>[]InOrder

=============================================================================
