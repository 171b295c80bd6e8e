----------------------------- MODULE SleepPageProofs -----------------------------
(***************************************************************************)
(* Theorems about SleepPage for every set of controllers, schedules,       *)
(* namespaces and routes and every number of changes and faults: a woken   *)
(* route is as it was, a schedule that is gone leaves no route asleep, and *)
(* with one controller no route leads to the page without the grant.       *)
(***************************************************************************)
EXTENDS SleepPage, TLAPS

\* Schedules have no namespace in common, so no route either.
LEMMA RoutesApart ==
  ASSUME NEW s \in Schedules, NEW t \in Schedules, NEW r \in RoutesIn(s) \cap RoutesIn(t)
  PROVE  s = t
BY ConstantsAssumption DEF RoutesIn

\* A route is in a namespace some schedule scales.
LEMMA SleepingNamespacesType ==
  /\ SleepingNamespaces \subseteq Namespaces
  /\ \A s \in Schedules : NamespacesOf[s] \subseteq Namespaces
BY ConstantsAssumption DEF SleepingNamespaces, Namespaces

-----------------------------------------------------------------------------
(* The types, and what a route's mark saves.                                *)

\* A route's mark is what it led to before it slept, and a route without one
\* leads to its application.
Saved ==
    \A r \in Routes :
        /\ route[r].mark = was[r]
        /\ route[r].mark = None => route[r].rules \in Apps

\* A controller at work is at a step of a job.
LEMMA AtWork ==
  ASSUME TypeOK, NEW c \in Controllers, worker[c].step # "idle"
  PROVE  worker[c] \in Work /\ worker[c] # Idle
BY DEF TypeOK, Idle

LEMMA BeginType ==
  ASSUME TypeOK, Saved, NEW c \in Controllers, NEW s \in Schedules,
         NEW step \in {"allow", "wake"}, NEW job \in Jobs, Begin(c, s, step, job)
  PROVE  TypeOK' /\ Saved'
<1>1. worker' \in [Controllers -> Work \cup {Idle}]
  BY DEF Begin, TypeOK, Work, RoutesIn
<1> QED BY <1>1 DEF Begin, TypeOK, Saved, scheduleVars, boundVars

LEMMA FinishType ==
  ASSUME TypeOK, Saved, NEW c \in Controllers, worker[c] \in Work,
         NEW reason \in {"none", "Asleep", "Awake", "NoRoutes"}, Finish(c, reason),
         grant' \subseteq Namespaces, UNCHANGED <<route, was>>
  PROVE  TypeOK' /\ Saved'
<1>1. worker[c].schedule \in Schedules
  BY DEF Work
<1>2. /\ worker' \in [Controllers -> Work \cup {Idle}]
      /\ condition' \in [Schedules -> {"none", "Asleep", "Awake", "NoRoutes", "Failed"}]
      /\ life' \in [Schedules -> {"live", "deleting", "gone"}]
  BY <1>1 DEF Finish, TypeOK
<1> QED BY <1>2 DEF Finish, TypeOK, Saved, boundVars

\* Every step keeps the types and what the marks save.
LEMMA TypeStep == TypeOK /\ Saved /\ [Next]_vars => TypeOK' /\ Saved'
<1> SUFFICES ASSUME TypeOK, Saved, [Next]_vars PROVE TypeOK' /\ Saved'
  OBVIOUS
<1> USE DEF Keep, scheduleVars, boundVars
<1>1. ASSUME NEW s \in Schedules, Start(controller[s], s) PROVE TypeOK' /\ Saved'
  <2>1. controller[s] \in Controllers
    BY ConstantsAssumption DEF TypeOK
  <2>2. CASE \E step \in {"allow", "wake"}, job \in Jobs : Begin(controller[s], s, step, job)
    BY <2>1, <2>2, BeginType
  <2>3. CASE /\ condition' = [condition EXCEPT ![s] = "none"]
             /\ UNCHANGED <<controller, route, grant, life, enabled, target, settled, worker,
                            was, gaveUp, boundVars>>
    BY <2>3 DEF TypeOK, Saved
  <2> QED BY <1>1, <2>2, <2>3 DEF Start, BeginSleep, Jobs
<1>2. ASSUME NEW c \in Controllers, ListSleeping(c) PROVE TypeOK' /\ Saved'
  <2> DEFINE listed == SyncSleepGrant(IF worker[c].step = "allow"
                                      THEN NamespacesOf[worker[c].schedule] ELSE {})
             next == IF worker[c].step = "allow" THEN "grant" ELSE "write"
  <2>1. worker[c] \in Work
    BY <1>2, AtWork DEF ListSleeping
  <2>2. listed \subseteq Namespaces
    BY <2>1, SleepingNamespacesType DEF SyncSleepGrant, Work
  <2> HIDE DEF listed
  <2>3. worker' = [worker EXCEPT ![c] = [@ EXCEPT !.step = next, !.seen = listed]]
    BY <1>2 DEF ListSleeping, TypeOK, listed
  <2>4. [worker[c] EXCEPT !.step = next, !.seen = listed] \in Work
    BY <2>1, <2>2 DEF Work
  <2>5. worker' \in [Controllers -> Work \cup {Idle}]
    BY <2>3, <2>4 DEF TypeOK
  <2> QED BY <1>2, <2>5 DEF ListSleeping, TypeOK, Saved
<1>3. ASSUME NEW c \in Controllers, WriteGrant(c) PROVE TypeOK' /\ Saved'
  <2>1. worker[c] \in Work
    BY <1>3, AtWork DEF WriteGrant
  <2>2. worker' \in [Controllers -> Work \cup {Idle}]
    BY <1>3, <2>1 DEF WriteGrant, TypeOK, Work
  <2> QED BY <1>3, <2>1, <2>2 DEF WriteGrant, TypeOK, Saved, Work
<1>4. ASSUME NEW c \in Controllers, NEW r \in Routes, SleepRoute(c, r) PROVE TypeOK' /\ Saved'
  <2>1. worker[c] \in Work
    BY <1>4, AtWork DEF SleepRoute
  <2>2. worker' \in [Controllers -> Work \cup {Idle}]
    BY <1>4, <2>1 DEF SleepRoute, TypeOK, Work
  <2>3. route' \in [Routes -> [rules : Rules, mark : Apps \cup {None}]]
    BY <1>4 DEF SleepRoute, sleepingRoute, TypeOK, Saved, Rules
  <2>4. was' \in [Routes -> Apps \cup {None}]
    BY <1>4 DEF SleepRoute, TypeOK, Saved
  <2>5. Saved'
    BY <1>4, ConstantsAssumption DEF SleepRoute, sleepingRoute, TypeOK, Saved
  <2> QED BY <1>4, <2>2, <2>3, <2>4, <2>5 DEF SleepRoute, TypeOK
<1>5. ASSUME NEW c \in Controllers, NEW r \in Routes, WakeRoute(c, r) PROVE TypeOK' /\ Saved'
  <2>1. worker[c] \in Work
    BY <1>5, AtWork DEF WakeRoute
  <2>2. worker' \in [Controllers -> Work \cup {Idle}]
    BY <1>5, <2>1 DEF WakeRoute, TypeOK, Work
  <2>3. route' \in [Routes -> [rules : Rules, mark : Apps \cup {None}]]
    BY <1>5 DEF WakeRoute, wokenRoute, TypeOK, Rules
  <2>4. was' \in [Routes -> Apps \cup {None}]
    BY <1>5 DEF WakeRoute, TypeOK
  <2>5. Saved'
    BY <1>5, ConstantsAssumption DEF WakeRoute, wokenRoute, TypeOK, Saved
  <2> QED BY <1>5, <2>2, <2>3, <2>4, <2>5 DEF WakeRoute, TypeOK
<1>6. ASSUME NEW c \in Controllers, AllAwake(c) PROVE TypeOK' /\ Saved'
  <2>1. worker[c] \in Work
    BY <1>6, AtWork DEF AllAwake
  <2>2. worker' \in [Controllers -> Work \cup {Idle}]
    BY <1>6, <2>1 DEF AllAwake, TypeOK, Work
  <2> QED BY <1>6, <2>2 DEF AllAwake, TypeOK, Saved
<1>7. ASSUME NEW c \in Controllers, Asleep(c) PROVE TypeOK' /\ Saved'
  <2>1. worker[c] \in Work /\ grant' \subseteq Namespaces /\ UNCHANGED <<route, was>>
    BY <1>7, AtWork DEF Asleep, TypeOK
  <2> QED BY <1>7, <2>1, FinishType DEF Asleep
<1>8. ASSUME NEW c \in Controllers, NarrowGrant(c) PROVE TypeOK' /\ Saved'
  <2>1. worker[c] \in Work /\ UNCHANGED <<route, was>>
    BY <1>8, AtWork DEF NarrowGrant
  <2>2. grant' \subseteq Namespaces
    BY <1>8, <2>1 DEF NarrowGrant, Work
  <2>3. Outcome(worker[c].job) \in {"none", "Asleep", "Awake", "NoRoutes"}
    BY DEF Outcome
  <2> QED BY <1>8, <2>1, <2>2, <2>3, FinishType DEF NarrowGrant
<1>9. ASSUME NEW c \in Controllers, Fault(c) PROVE TypeOK' /\ Saved'
  <2>1. worker[c] \in Work
    BY <1>9 DEF Fault, TypeOK
  <2>2. worker[c].schedule \in Schedules
    BY <2>1 DEF Work
  <2>3. worker' \in [Controllers -> Work \cup {Idle}] /\ faults' \in 0..MaxFaults
    BY <1>9, ConstantsAssumption DEF Fault, TypeOK
  <2>4. /\ condition' \in [Schedules -> {"none", "Asleep", "Awake", "NoRoutes", "Failed"}]
        /\ life' \in [Schedules -> {"live", "deleting", "gone"}]
        /\ gaveUp' \subseteq Schedules
    BY <1>9, <2>2 DEF Fault, TypeOK
  <2> QED BY <1>9, <2>3, <2>4 DEF Fault, TypeOK, Saved
<1>10. ASSUME NEW s \in Schedules, Flip(s) \/ Settle(s) \/ Switch(s) \/ Delete(s)
       PROVE  TypeOK' /\ Saved'
  <2>1. changes' \in 0..MaxChanges
    BY <1>10, ConstantsAssumption DEF Flip, Settle, Switch, Delete, TypeOK
  <2> QED BY <1>10, <2>1 DEF Flip, Settle, Switch, Delete, TypeOK, Saved
<1>11. ASSUME NEW r \in Routes, NEW a \in Apps, EditRoute(r, a) PROVE TypeOK' /\ Saved'
  <2>1. changes' \in 0..MaxChanges
    BY <1>11, ConstantsAssumption DEF EditRoute, TypeOK
  <2> QED BY <1>11, <2>1 DEF EditRoute, TypeOK, Saved, Rules
<1>12. CASE UNCHANGED vars
  BY <1>12 DEF vars, TypeOK, Saved
<1> QED
  BY <1>1, <1>2, <1>3, <1>4, <1>5, <1>6, <1>7, <1>8, <1>9, <1>10, <1>11, <1>12
  DEF Next, Step

\* Everything starts well-formed, routes an earlier version put to sleep included.
LEMMA TypeInit == Init => TypeOK /\ Saved
<1> SUFFICES ASSUME Init PROVE TypeOK /\ Saved
  OBVIOUS
<1>1. PICK old \in SUBSET Schedules, a \in Apps :
        /\ route = [r \in Routes |->
             IF \E s \in old : r \in RoutesIn(s)
             THEN [rules |-> OldPage, mark |-> a] ELSE [rules |-> a, mark |-> None]]
        /\ was = [r \in Routes |-> route[r].mark]
        /\ condition = [s \in Schedules |-> IF s \in old THEN "Asleep" ELSE "none"]
  BY DEF Init
<1>2. /\ route \in [Routes -> [rules : Rules, mark : Apps \cup {None}]]
      /\ was \in [Routes -> Apps \cup {None}]
      /\ condition \in [Schedules -> {"none", "Asleep", "Awake", "NoRoutes", "Failed"}]
      /\ Saved
  BY <1>1, ConstantsAssumption DEF Rules, Saved
<1>3. grant \subseteq Namespaces /\ changes \in 0..MaxChanges /\ faults \in 0..MaxFaults
  BY ConstantsAssumption, SleepingNamespacesType DEF Init
<1> QED BY <1>2, <1>3 DEF Init, TypeOK

\* The types hold, and a mark always says what the route led to.
THEOREM Typing == Spec => [](TypeOK /\ Saved)
BY TypeInit, TypeStep, PTL DEF Spec

\* However often a route slept, was moved to another Service or was edited
\* meanwhile, it wakes to what it led to before (SleepRoutes, WakeRoutes).
THEOREM RoutesComeBack == Spec => GivenBackExactly
<1>1. ASSUME TypeOK, Saved, [Next]_vars, NEW r \in Routes,
             route[r].mark # None, route'[r].mark = None
      PROVE  route'[r].rules = was[r]
  <2>1. CASE \E c \in Controllers : WakeRoute(c, r)
    BY <1>1, <2>1 DEF WakeRoute, wokenRoute, TypeOK, Saved
  <2>2. CASE \E c \in Controllers, q \in Routes : SleepRoute(c, q)
    BY <1>1, <2>2 DEF SleepRoute, sleepingRoute, TypeOK
  <2>3. CASE \E c \in Controllers, q \in Routes : q # r /\ WakeRoute(c, q)
    BY <1>1, <2>3 DEF WakeRoute, TypeOK
  <2>4. CASE \E q \in Routes, a \in Apps : EditRoute(q, a)
    BY <1>1, <2>4 DEF EditRoute, TypeOK
  <2>5. CASE route' = route
    BY <1>1, <2>5
  <2> QED BY <1>1, <2>1, <2>2, <2>3, <2>4, <2>5
          DEF Next, Step, Start, BeginSleep, Begin, ListSleeping, WriteGrant, AllAwake, Asleep,
              NarrowGrant, Fault, Flip, Settle, Switch, Delete, vars
<1>2. TypeOK /\ Saved /\ [Next]_vars =>
        \A r \in Routes :
          route[r].mark # None /\ route'[r].mark = None => route'[r].rules = was[r]
  BY <1>1
<1> QED BY <1>2, Typing, PTL DEF Spec, GivenBackExactly

-----------------------------------------------------------------------------
(* What a controller at work may rely on.                                   *)

\* A controller works on a schedule of its own that is not gone yet, and only
\* puts routes to sleep for a schedule that is not being released.
WorkShape ==
    \A c \in Controllers :
        LET w == worker[c] IN
        w # Idle =>
          /\ controller[w.schedule] = c
          /\ life[w.schedule] # "gone"
          /\ w.todo \subseteq RoutesIn(w.schedule)
          /\ w.job = "release" => life[w.schedule] = "deleting"
          /\ w.job = "release" => w.step \in {"wake", "list", "write"}

\* What a release has been through is awake, and all of it once it goes on to
\* the grant.
Releasing ==
    \A c \in Controllers :
        LET w == worker[c] IN
        w # Idle /\ w.job = "release" =>
          /\ w.step \in {"list", "write"} => w.todo = {}
          /\ \A r \in RoutesIn(w.schedule) \ w.todo : route[r].mark = None

ReleaseInv == WorkShape /\ Releasing /\ GoneLeavesNoneAsleep

\* A step that only moves one controller on within its job, and wakes or leaves
\* alone all routes but its own schedule's, which it may put to sleep.
LEMMA MovesOn ==
  ASSUME TypeOK, ReleaseInv, NEW c \in Controllers, worker[c] \in Work,
         UNCHANGED <<scheduleVars, gaveUp>>,
         worker' \in [Controllers -> Work \cup {Idle}],
         \A d \in Controllers \ {c} : worker'[d] = worker[d],
         worker'[c].schedule = worker[c].schedule, worker'[c].job = worker[c].job,
         worker'[c].todo \subseteq worker[c].todo,
         worker[c].job = "release" =>
           /\ worker'[c].step \in {"wake", "list", "write"}
           /\ worker'[c].step \in {"list", "write"} => worker'[c].todo = {}
           /\ \A r \in worker[c].todo \ worker'[c].todo : route'[r].mark = None,
         \A r \in Routes :
           route[r].mark = None /\ route'[r].mark # None
           => worker[c].job # "release" /\ r \in RoutesIn(worker[c].schedule)
  PROVE  ReleaseInv'
<1> USE DEF scheduleVars
<1>1. worker[c] # Idle /\ worker[c].schedule \in Schedules
  BY DEF Work, Idle
<1>2. WorkShape'
  <2> SUFFICES ASSUME NEW d \in Controllers, worker'[d] # Idle
               PROVE  /\ controller[worker'[d].schedule] = d
                      /\ life[worker'[d].schedule] # "gone"
                      /\ worker'[d].todo \subseteq RoutesIn(worker'[d].schedule)
                      /\ worker'[d].job = "release" => life[worker'[d].schedule] = "deleting"
                      /\ worker'[d].job = "release" => worker'[d].step \in {"wake", "list", "write"}
    BY DEF WorkShape, RoutesIn
  <2>1. CASE d = c
    BY <1>1, <2>1 DEF ReleaseInv, WorkShape
  <2>2. CASE d # c
    BY <2>2 DEF ReleaseInv, WorkShape
  <2> QED BY <2>1, <2>2
<1>3. Releasing'
  <2> SUFFICES ASSUME NEW d \in Controllers, worker'[d] # Idle, worker'[d].job = "release"
               PROVE  /\ worker'[d].step \in {"list", "write"} => worker'[d].todo = {}
                      /\ \A r \in RoutesIn(worker'[d].schedule) \ worker'[d].todo :
                            route'[r].mark = None
    BY DEF Releasing, RoutesIn
  <2>1. CASE d = c
    BY <1>1, <2>1 DEF ReleaseInv, Releasing, RoutesIn
  <2>2. CASE d # c
    <3>1. worker'[d] = worker[d] /\ worker[d].schedule \in Schedules
      BY <2>2 DEF TypeOK, Work
    <3>2. worker[d].schedule # worker[c].schedule
      BY <1>1, <2>2, <3>1 DEF ReleaseInv, WorkShape
    <3>3. ASSUME NEW r \in RoutesIn(worker[d].schedule) PROVE r \notin RoutesIn(worker[c].schedule)
      BY <1>1, <3>1, <3>2, RoutesApart
    <3> QED BY <3>1, <3>3 DEF ReleaseInv, Releasing, RoutesIn
  <2> QED BY <2>1, <2>2
<1>4. GoneLeavesNoneAsleep'
  <2> SUFFICES ASSUME NEW s \in Schedules, life[s] = "gone", s \notin gaveUp,
                      NEW r \in RoutesIn(s)
               PROVE  route'[r].mark = None
    BY DEF GoneLeavesNoneAsleep, RoutesIn
  <2>1. s # worker[c].schedule
    BY <1>1 DEF ReleaseInv, WorkShape
  <2>2. r \notin RoutesIn(worker[c].schedule)
    BY <1>1, <2>1, RoutesApart
  <2> QED BY <2>2 DEF ReleaseInv, GoneLeavesNoneAsleep, RoutesIn
<1> QED BY <1>2, <1>3, <1>4 DEF ReleaseInv

\* Ending a job, a release above all, which leaves no route asleep.
LEMMA EndsJob ==
  ASSUME TypeOK, ReleaseInv, NEW c \in Controllers, worker[c] \in Work,
         NEW reason, Finish(c, reason), UNCHANGED route,
         worker[c].job = "release" => worker[c].step = "write"
  PROVE  ReleaseInv'
<1> DEFINE s == worker[c].schedule
<1>1. worker[c] # Idle /\ s \in Schedules
  BY DEF Work, Idle
<1>2. \A d \in Controllers : worker'[d] = IF d = c THEN Idle ELSE worker[d]
  BY DEF Finish, TypeOK
<1>3. /\ \A t \in Schedules : life'[t] = IF t = s /\ worker[c].job = "release"
                                          THEN "gone" ELSE life[t]
      /\ UNCHANGED <<controller, gaveUp>>
  BY <1>1 DEF Finish, TypeOK
<1>4. ASSUME NEW d \in Controllers \ {c}, worker[d] # Idle
      PROVE  worker[d].schedule \in Schedules \ {s}
  BY <1>1, <1>4 DEF ReleaseInv, WorkShape, TypeOK, Work
<1>5. WorkShape'
  BY <1>2, <1>3, <1>4 DEF ReleaseInv, WorkShape, RoutesIn
<1>6. Releasing'
  BY <1>2 DEF ReleaseInv, Releasing, RoutesIn
<1>7. GoneLeavesNoneAsleep'
  <2> SUFFICES ASSUME NEW t \in Schedules, life'[t] = "gone", t \notin gaveUp,
                      NEW r \in RoutesIn(t)
               PROVE  route[r].mark = None
    BY <1>3 DEF GoneLeavesNoneAsleep, RoutesIn
  <2>1. CASE life[t] = "gone"
    BY <2>1 DEF ReleaseInv, GoneLeavesNoneAsleep
  <2>2. CASE life[t] # "gone"
    <3>1. t = s /\ worker[c].job = "release"
      BY <1>3, <2>2
    <3> QED BY <1>1, <3>1 DEF ReleaseInv, Releasing
  <2> QED BY <2>1, <2>2
<1> QED BY <1>5, <1>6, <1>7 DEF ReleaseInv

\* Every step keeps what a release relies on.
LEMMA ReleaseStep ==
  ASSUME TypeOK, TypeOK', Saved, ReleaseInv, [Next]_vars
  PROVE  ReleaseInv'
<1> USE DEF Keep
<1> DEFINE Same == UNCHANGED <<route, controller, life, worker, gaveUp>>
<1>1. ASSUME NEW s \in Schedules, Start(controller[s], s) PROVE ReleaseInv'
  <2>1. controller[s] \in Controllers
    BY ConstantsAssumption DEF TypeOK
  <2>2. CASE \E step \in {"allow", "wake"}, job \in Jobs :
               /\ Begin(controller[s], s, step, job)
               /\ worker[controller[s]] = Idle
               /\ life[s] # "gone"
               /\ job = "release" => life[s] = "deleting" /\ step = "wake"
    <3>1. PICK step \in {"allow", "wake"}, job \in Jobs :
               /\ Begin(controller[s], s, step, job)
               /\ worker[controller[s]] = Idle
               /\ life[s] # "gone"
               /\ job = "release" => life[s] = "deleting" /\ step = "wake"
      BY <2>2
    <3>2. /\ \A d \in Controllers \ {controller[s]} : worker'[d] = worker[d]
          /\ worker'[controller[s]].step = step /\ worker'[controller[s]].job = job
          /\ worker'[controller[s]].schedule = s
          /\ worker'[controller[s]].todo = RoutesIn(s)
      BY <2>1, <3>1 DEF Begin, TypeOK
    <3>3. UNCHANGED <<route, controller, life, gaveUp>>
      BY <3>1 DEF Begin, scheduleVars
    <3>4. WorkShape'
      BY <3>1, <3>2, <3>3 DEF ReleaseInv, WorkShape, RoutesIn
    <3>5. Releasing'
      BY <3>1, <3>2, <3>3 DEF ReleaseInv, Releasing, RoutesIn
    <3>6. GoneLeavesNoneAsleep'
      BY <3>3 DEF ReleaseInv, GoneLeavesNoneAsleep, RoutesIn
    <3> QED BY <3>4, <3>5, <3>6 DEF ReleaseInv
  <2>3. CASE Same
    BY <2>3 DEF ReleaseInv, WorkShape, Releasing, GoneLeavesNoneAsleep, RoutesIn
  <2> QED BY <1>1, <2>2, <2>3 DEF Start, BeginSleep, Jobs
<1>2. ASSUME NEW c \in Controllers, ListSleeping(c) \/ WriteGrant(c) \/ AllAwake(c)
      PROVE  ReleaseInv'
  <2>1. worker[c] \in Work /\ worker[c] # Idle
    BY <1>2, AtWork DEF ListSleeping, WriteGrant, AllAwake
  <2>2. worker[c].step \notin {"allow", "grant"} \/ worker[c].job # "release"
    BY <2>1 DEF ReleaseInv, WorkShape
  <2>3. /\ UNCHANGED <<route, scheduleVars, gaveUp>>
        /\ \A d \in Controllers \ {c} : worker'[d] = worker[d]
        /\ worker'[c].schedule = worker[c].schedule /\ worker'[c].job = worker[c].job
        /\ worker'[c].todo = worker[c].todo
        /\ worker[c].job = "release" =>
             /\ worker'[c].step \in {"list", "write"}
             /\ worker[c].step = "wake" => worker[c].todo = {}
    BY <1>2, <2>1, <2>2 DEF ListSleeping, WriteGrant, AllAwake, TypeOK, Work
  <2>4. worker[c].job = "release" => worker'[c].todo = {}
    BY <2>1, <2>3 DEF ReleaseInv, WorkShape, Releasing
  <2> QED BY <2>1, <2>3, <2>4, MovesOn DEF TypeOK
<1>3. ASSUME NEW c \in Controllers, NEW q \in Routes, SleepRoute(c, q) PROVE ReleaseInv'
  <2>1. worker[c] \in Work /\ worker[c] # Idle
    BY <1>3, AtWork DEF SleepRoute
  <2>2. worker[c].job # "release" /\ q \in RoutesIn(worker[c].schedule)
    BY <1>3, <2>1 DEF ReleaseInv, WorkShape, SleepRoute
  <2>3. /\ UNCHANGED <<scheduleVars, gaveUp>>
        /\ \A d \in Controllers \ {c} : worker'[d] = worker[d]
        /\ worker'[c].schedule = worker[c].schedule /\ worker'[c].job = worker[c].job
        /\ worker'[c].todo \subseteq worker[c].todo
        /\ \A r \in Routes : r # q => route'[r] = route[r]
    BY <1>3, <2>1 DEF SleepRoute, TypeOK, Work
  <2>4. \A r \in Routes :
          route[r].mark = None /\ route'[r].mark # None
          => worker[c].job # "release" /\ r \in RoutesIn(worker[c].schedule)
    BY <2>2, <2>3
  <2>5. worker' \in [Controllers -> Work \cup {Idle}]
    BY DEF TypeOK
  <2> QED BY <2>1, <2>2, <2>3, <2>4, <2>5, MovesOn
<1>4. ASSUME NEW c \in Controllers, NEW q \in Routes, WakeRoute(c, q) PROVE ReleaseInv'
  <2>1. worker[c] \in Work /\ worker[c] # Idle
    BY <1>4, AtWork DEF WakeRoute
  <2>2. /\ UNCHANGED <<scheduleVars, gaveUp>>
        /\ \A d \in Controllers \ {c} : worker'[d] = worker[d]
        /\ worker'[c].schedule = worker[c].schedule /\ worker'[c].job = worker[c].job
        /\ worker'[c].step = "wake"
        /\ worker'[c].todo = worker[c].todo \ {q}
        /\ \A r \in Routes : r # q => route'[r] = route[r]
    BY <1>4, <2>1 DEF WakeRoute, TypeOK, Work
  <2>3. route'[q].mark = None
    BY <1>4 DEF WakeRoute, wokenRoute, TypeOK
  <2> QED BY <2>1, <2>2, <2>3, MovesOn DEF TypeOK
<1>5. ASSUME NEW c \in Controllers, Asleep(c) \/ NarrowGrant(c) PROVE ReleaseInv'
  <2>1. worker[c] \in Work /\ worker[c] # Idle
    BY <1>5, AtWork DEF Asleep, NarrowGrant
  <2>2. worker[c].job = "release" => worker[c].step = "write"
    BY <1>5, <2>1 DEF Asleep, NarrowGrant, ReleaseInv, WorkShape
  <2> QED BY <1>5, <2>1, <2>2, EndsJob DEF Asleep, NarrowGrant
<1>6. ASSUME NEW c \in Controllers, Fault(c) PROVE ReleaseInv'
  <2> DEFINE s == worker[c].schedule
  <2>1. s \in Schedules /\ worker[c] # Idle /\ controller[s] = c
    BY <1>6 DEF Fault, TypeOK, Work, ReleaseInv, WorkShape
  <2>2. /\ \A d \in Controllers : worker'[d] = IF d = c THEN Idle ELSE worker[d]
        /\ UNCHANGED <<route, controller>>
    BY <1>6 DEF Fault, TypeOK
  <2>3. \/ UNCHANGED <<life, gaveUp>>
        \/ /\ gaveUp' = gaveUp \cup {s}
           /\ life' = [life EXCEPT ![s] = "gone"]
    BY <1>6 DEF Fault
  <2>4. ASSUME NEW d \in Controllers, worker'[d] # Idle
        PROVE  /\ worker'[d] = worker[d] /\ worker[d] # Idle
               /\ life'[worker[d].schedule] = life[worker[d].schedule]
    <3>1. worker[d] \in Work /\ d # c /\ worker[d].schedule \in Schedules
      BY <2>2, <2>4 DEF TypeOK, Work
    <3>2. worker[d].schedule # s
      BY <2>1, <2>2, <2>4, <3>1 DEF ReleaseInv, WorkShape
    <3> QED BY <2>2, <2>3, <2>4, <3>1, <3>2 DEF TypeOK
  <2>5. WorkShape' /\ Releasing'
    BY <2>2, <2>4 DEF ReleaseInv, WorkShape, Releasing, RoutesIn
  <2>6. GoneLeavesNoneAsleep'
    BY <2>1, <2>2, <2>3 DEF ReleaseInv, GoneLeavesNoneAsleep, RoutesIn, TypeOK
  <2> QED BY <2>5, <2>6 DEF ReleaseInv
<1>7. ASSUME NEW s \in Schedules, Delete(s) PROVE ReleaseInv'
  <2>1. /\ UNCHANGED <<route, controller, worker, gaveUp>>
        /\ life[s] = "live"
        /\ \A t \in Schedules : life'[t] = IF t = s THEN "deleting" ELSE life[t]
    BY <1>7 DEF Delete, TypeOK
  <2>2. \A c \in Controllers : worker[c] # Idle => worker[c].schedule \in Schedules
    BY DEF TypeOK, Work
  <2> QED BY <2>1, <2>2 DEF ReleaseInv, WorkShape, Releasing, GoneLeavesNoneAsleep, RoutesIn
<1>8. ASSUME NEW q \in Routes, NEW a \in Apps, EditRoute(q, a) PROVE ReleaseInv'
  <2>1. /\ UNCHANGED <<controller, life, worker, gaveUp>>
        /\ \A r \in Routes : route'[r].mark = route[r].mark
    BY <1>8 DEF EditRoute, TypeOK, scheduleVars
  <2> QED BY <2>1 DEF ReleaseInv, WorkShape, Releasing, GoneLeavesNoneAsleep, RoutesIn
<1>9. CASE Same
  BY <1>9 DEF ReleaseInv, WorkShape, Releasing, GoneLeavesNoneAsleep, RoutesIn
<1>10. ASSUME NEW s \in Schedules, Flip(s) \/ Settle(s) \/ Switch(s) PROVE Same
  BY <1>10 DEF Flip, Settle, Switch
<1>11. UNCHANGED vars => Same
  BY DEF vars, scheduleVars
<1> HIDE DEF Same
<1> QED
  BY <1>1, <1>2, <1>3, <1>4, <1>5, <1>6, <1>7, <1>8, <1>9, <1>10, <1>11 DEF Next, Step

\* A schedule that is gone leaves no route asleep unless its release was given
\* up, whatever the other schedules do meanwhile (releaseNamespace).
THEOREM NoneLeftAsleep == Spec => []GoneLeavesNoneAsleep
<1>1. Init => ReleaseInv
  BY DEF Init, ReleaseInv, WorkShape, Releasing, GoneLeavesNoneAsleep
<1>2. TypeOK /\ TypeOK' /\ Saved /\ ReleaseInv /\ [Next]_vars => ReleaseInv'
  BY ReleaseStep
<1>3. ReleaseInv => GoneLeavesNoneAsleep
  BY DEF ReleaseInv
<1> QED BY <1>1, <1>2, <1>3, Typing, PTL DEF Spec

-----------------------------------------------------------------------------
(* One controller alone with the grant.                                     *)

OneController == \A s, t \in Schedules : controller[s] = controller[t]

\* What a controller on its own is going to write of the grant covers every
\* sleeping route, and the routes it puts to sleep are granted by then.
Granted ==
    OneController =>
      /\ \A r \in Routes : route[r].rules = Page => NamespaceOf[r] \in grant
      /\ \A c \in Controllers :
          LET w == worker[c] IN
          w # Idle =>
            /\ w.step \in {"grant", "write"} => SleepingNamespaces \subseteq w.seen
            /\ w.step = "grant" => NamespacesOf[w.schedule] \subseteq w.seen
            /\ w.step = "sleep" => NamespacesOf[w.schedule] \subseteq grant

\* With one controller only one job is under way.
LEMMA Alone ==
  ASSUME TypeOK, WorkShape, OneController, NEW c \in Controllers, NEW d \in Controllers,
         worker[c] # Idle, worker[d] # Idle
  PROVE  c = d
BY DEF TypeOK, Work, WorkShape, OneController

\* A route that leads to the page is asleep.
LEMMA PageSleeps ==
  ASSUME TypeOK, Saved, NEW r \in Routes, route[r].rules = Page
  PROVE  NamespaceOf[r] \in SleepingNamespaces
BY ConstantsAssumption DEF Saved, SleepingNamespaces

LEMMA GrantedStep ==
  ASSUME TypeOK, TypeOK', Saved, Saved', WorkShape, WorkShape', Granted, [Next]_vars
  PROVE  Granted'
<1> USE DEF Keep, scheduleVars
<1> SUFFICES ASSUME OneController PROVE Granted'
  <2>1. controller' = controller
    BY DEF Next, Step, Start, BeginSleep, Begin, ListSleeping, WriteGrant, SleepRoute, WakeRoute,
           AllAwake, Asleep, Finish, NarrowGrant, Fault, Flip, Settle, Switch, Delete, EditRoute,
           vars
  <2> QED BY <2>1 DEF Granted, OneController
<1>1. ASSUME NEW s \in Schedules, Start(controller[s], s) PROVE Granted'
  <2>1. /\ UNCHANGED <<route, grant>>
        /\ \A d \in Controllers :
             worker'[d] # worker[d] => worker'[d].step \in {"allow", "wake"}
    BY <1>1 DEF Start, BeginSleep, Begin, TypeOK
  <2> QED BY <2>1 DEF Granted, SleepingNamespaces
<1>2. ASSUME NEW c \in Controllers, ListSleeping(c) PROVE Granted'
  <2>1. worker[c] \in Work /\ worker[c] # Idle
    BY <1>2, AtWork DEF ListSleeping
  <2>2. /\ UNCHANGED <<route, grant>>
        /\ \A d \in Controllers \ {c} : worker'[d] = worker[d]
        /\ worker'[c].schedule = worker[c].schedule
        /\ worker'[c].step = IF worker[c].step = "allow" THEN "grant" ELSE "write"
        /\ worker'[c].seen = SleepingNamespaces \cup
             (IF worker[c].step = "allow" THEN NamespacesOf[worker[c].schedule] ELSE {})
    BY <1>2, <2>1 DEF ListSleeping, SyncSleepGrant, TypeOK, Work
  <2>3. worker[c].step \in {"allow", "list"} /\ SleepingNamespaces' = SleepingNamespaces
    BY <1>2, <2>2 DEF ListSleeping, SleepingNamespaces
  <2>4. ASSUME NEW d \in Controllers, worker'[d] # Idle
        PROVE  /\ worker'[d].step \in {"grant", "write"} => SleepingNamespaces \subseteq worker'[d].seen
               /\ worker'[d].step = "grant" =>
                    NamespacesOf[worker'[d].schedule] \subseteq worker'[d].seen
               /\ worker'[d].step = "sleep" => NamespacesOf[worker'[d].schedule] \subseteq grant
    <3>1. CASE d = c
      BY <2>2, <2>3, <3>1
    <3>2. CASE d # c
      BY <2>2, <2>4, <3>2 DEF Granted
    <3> QED BY <3>1, <3>2
  <2> QED BY <2>2, <2>3, <2>4 DEF Granted
<1>3. ASSUME NEW c \in Controllers, WriteGrant(c) \/ NarrowGrant(c) PROVE Granted'
  <2>1. worker[c] \in Work /\ worker[c] # Idle
    BY <1>3, AtWork DEF WriteGrant, NarrowGrant
  <2>2. /\ UNCHANGED route /\ grant' = worker[c].seen
        /\ SleepingNamespaces \subseteq worker[c].seen
    BY <1>3, <2>1 DEF WriteGrant, NarrowGrant, Granted
  <2>3. \A r \in Routes : route'[r].rules = Page => NamespaceOf[r] \in grant'
    BY <2>2, PageSleeps
  <2>4. ASSUME NEW d \in Controllers, worker'[d] # Idle
        PROVE  /\ worker'[d].step \in {"list", "sleep"}
               /\ worker'[d].step = "sleep" => NamespacesOf[worker'[d].schedule] \subseteq grant'
    <3>1. d = c
      <4>1. d # c => worker'[d] = worker[d]
        BY <1>3 DEF WriteGrant, NarrowGrant, Finish, TypeOK
      <4> QED BY <2>1, <2>4, <4>1, Alone
    <3>2. WriteGrant(c)
      BY <1>3, <2>4, <3>1 DEF NarrowGrant, Finish, TypeOK
    <3>3. /\ worker'[c].schedule = worker[c].schedule
          /\ worker'[c].step \in {"list", "sleep"}
          /\ worker[c].step = "grant"
      BY <2>1, <3>2 DEF WriteGrant, TypeOK, Work
    <3> QED BY <2>1, <2>2, <3>1, <3>3 DEF Granted
  <2> QED BY <2>3, <2>4 DEF Granted
<1>4. ASSUME NEW c \in Controllers, NEW q \in Routes, SleepRoute(c, q) PROVE Granted'
  <2>1. worker[c] \in Work /\ worker[c] # Idle
    BY <1>4, AtWork DEF SleepRoute
  <2>2. /\ UNCHANGED grant
        /\ \A d \in Controllers \ {c} : worker'[d] = worker[d]
        /\ worker'[c].schedule = worker[c].schedule
        /\ worker'[c].step = "sleep" /\ worker[c].step = "sleep"
        /\ \A r \in Routes : r # q => route'[r] = route[r]
    BY <1>4, <2>1 DEF SleepRoute, TypeOK, Work
  <2>3. NamespacesOf[worker[c].schedule] \subseteq grant
    BY <2>1, <2>2 DEF Granted
  <2>4. NamespaceOf[q] \in grant
    BY <1>4, <2>1, <2>3 DEF SleepRoute, WorkShape, RoutesIn
  <2>5. \A d \in Controllers : worker'[d] # Idle => d = c
    BY <2>1, <2>2, Alone
  <2> QED BY <2>2, <2>3, <2>4, <2>5 DEF Granted
<1>5. ASSUME NEW c \in Controllers, NEW q \in Routes, WakeRoute(c, q) PROVE Granted'
  <2>1. worker[c] \in Work /\ worker[c] # Idle
    BY <1>5, AtWork DEF WakeRoute
  <2>2. /\ UNCHANGED grant
        /\ \A d \in Controllers \ {c} : worker'[d] = worker[d]
        /\ worker'[c].step = "wake"
        /\ \A r \in Routes : r # q => route'[r] = route[r]
    BY <1>5, <2>1 DEF WakeRoute, TypeOK, Work
  <2>3. route'[q].rules # Page
    BY <1>5, ConstantsAssumption DEF WakeRoute, wokenRoute, TypeOK, Saved
  <2>4. \A d \in Controllers : worker'[d] # Idle => d = c
    BY <2>1, <2>2, Alone
  <2> QED BY <2>2, <2>3, <2>4 DEF Granted
<1>6. ASSUME NEW c \in Controllers, AllAwake(c) \/ Asleep(c) \/ Fault(c) PROVE Granted'
  <2>1. /\ UNCHANGED <<route, grant>>
        /\ \A d \in Controllers :
             worker'[d] # worker[d] => worker'[d] = Idle \/ worker'[d].step = "list"
    BY <1>6, AtWork DEF AllAwake, Asleep, Finish, Fault, TypeOK, Work
  <2> QED BY <2>1 DEF Granted, SleepingNamespaces
<1>7. ASSUME NEW s \in Schedules, Flip(s) \/ Settle(s) \/ Switch(s) \/ Delete(s) PROVE Granted'
  BY <1>7 DEF Flip, Settle, Switch, Delete, Granted, OneController, SleepingNamespaces
<1>8. ASSUME NEW q \in Routes, NEW a \in Apps, EditRoute(q, a) PROVE Granted'
  <2>1. /\ UNCHANGED <<grant, worker>>
        /\ \A r \in Routes : /\ route'[r].mark = route[r].mark
                             /\ route'[r].rules = Page => route[r].rules = Page
    BY <1>8, ConstantsAssumption DEF EditRoute, TypeOK
  <2>2. SleepingNamespaces' = SleepingNamespaces
    BY <2>1 DEF SleepingNamespaces
  <2> QED BY <2>1, <2>2 DEF Granted
<1>9. CASE UNCHANGED vars
  BY <1>9 DEF vars, Granted, OneController, SleepingNamespaces
<1> QED
  BY <1>1, <1>2, <1>3, <1>4, <1>5, <1>6, <1>7, <1>8, <1>9 DEF Next, Step

\* Where one controller reconciles all schedules, a route never leads to the
\* page without being allowed to (the comment in reconcileSleepPage).
THEOREM GrantComesFirst == Spec => []NeverWithoutGrant
<1>1. Init => Granted
  <2> SUFFICES ASSUME Init PROVE Granted
    OBVIOUS
  <2>1. \A r \in Routes : route[r].rules # Page
    BY ConstantsAssumption DEF Init
  <2> QED BY <2>1 DEF Init, Granted
<1>2. Init => ReleaseInv
  BY DEF Init, ReleaseInv, WorkShape, Releasing, GoneLeavesNoneAsleep
<1>3. TypeOK /\ TypeOK' /\ Saved /\ ReleaseInv /\ [Next]_vars => ReleaseInv'
  BY ReleaseStep
<1>4. /\ TypeOK /\ TypeOK' /\ Saved /\ Saved' /\ ReleaseInv /\ ReleaseInv' /\ Granted
      /\ [Next]_vars
      => Granted'
  BY GrantedStep DEF ReleaseInv
<1>5. Granted => NeverWithoutGrant
  BY DEF Granted, OneController, NeverWithoutGrant
<1> QED BY <1>1, <1>2, <1>3, <1>4, <1>5, Typing, PTL DEF Spec
=============================================================================
