--------------------------- MODULE GroupDependencies ---------------------------
(***************************************************************************)
(* ScalingGroups that depend on each other: PlanGroups' desired states     *)
(* along the dependsOn graph, findCycles' search for cycles, and the       *)
(* reconciler that holds a group back until its dependencies are ScaledUp  *)
(* and keeps a running dependency up until its dependents are down.        *)
(*                                                                         *)
(* A group's workloads are one thing: up, down, rising, falling, or        *)
(* degraded by a failed pod (WorkloadScaling has the detail).  Every group *)
(* is reconciled by itself, from an informer cache that may lag; a status  *)
(* update computed from an outdated object is refused.                     *)
(***************************************************************************)
EXTENDS Integers, Sequences, FiniteSets, SequencesExt

CONSTANTS
    N,            \* the groups are 1..N, in the order of their names
    Specs,        \* the specs to explore: [Groups -> GroupSpec]
    Wishes,       \* the desires of its own a group may have
    NewGroups,    \* whether groups start without a phase, over running workloads
    CacheLags,    \* whether reads may lag behind
    MaxFlips,     \* bound on changes of the groups' own desires
    MaxFaults     \* bound on pods and status updates that fail

Groups == 1..N

\* A dependsOn entry that names no group.
Missing == 0

GroupSpec == [dependsOn : Seq(Groups \cup {Missing}), onDemand : BOOLEAN, dryRun : BOOLEAN]
Phases == {"", "ScaledUp", "ScaledDown", "ScalingUp", "ScalingDown",
           "WaitingForDependencies", "DryRun"}

ASSUME ConstantsAssumption ==
    /\ N \in Nat \ {0}
    /\ Specs \subseteq [Groups -> GroupSpec]
    /\ Wishes \in [Groups -> SUBSET {"up", "down", "exceptionUp", "manualUp", "manualDown"}]
    /\ NewGroups \in BOOLEAN /\ CacheLags \in BOOLEAN
    /\ MaxFlips \in Nat /\ MaxFaults \in Nat

VARIABLES
    spec,      \* each group's spec
    inCycle,   \* what findCycles makes of the specs
    wish,      \* each group's own desire: its timetable or a manual override
    phase,     \* status.phase
    cache,     \* the wish and phase of each group in the informer cache
    work,      \* the workloads of each group
    unsaved,   \* the groups whose last pass could not store its phase (for the properties)
    flips, faults

boundVars == <<flips, faults>>
dependencyVars == <<spec, inCycle, wish, phase, cache, work, unsaved, boundVars>>

dependenciesIn(s, g) == Range(s[g].dependsOn) \ {Missing}
dependencies(g) == dependenciesIn(spec, g)

-----------------------------------------------------------------------------
(* findCycles: a depth-first search, one frame of the recursion per stack   *)
(* entry, one iteration of its loops per step.                              *)

Frame(g) == [name |-> g, next |-> 1]

\* Mutant: the group the search came back to is not counted.
stackFromExclusive(stack, dep) ==
    LET i == CHOOSE k \in DOMAIN stack : stack[k].name = dep
    IN  {stack[k].name : k \in (i + 1)..Len(stack)}

\* Everything on the stack from dep onwards.
stackFrom(stack, dep) ==
    LET i == CHOOSE k \in DOMAIN stack : stack[k].name = dep
    IN  {stack[k].name : k \in i..Len(stack)}

visitStep(specs, c) ==
    LET unvisited == {g \in Groups : c.state[g] = "unvisited"}
        top == c.stack[Len(c.stack)]
        deps == specs[top.name].dependsOn
        dep == deps[top.next]
        advanced == [c.stack EXCEPT ![Len(c.stack)].next = @ + 1]
        search(stack, state, cut) == [stack |-> stack, state |-> state, inCycle |-> cut]
        push(stack, g) ==
            search(Append(stack, Frame(g)), [c.state EXCEPT ![g] = "visiting"], c.inCycle)
    IN  CASE c.stack = <<>> /\ unvisited = {} -> c
          [] c.stack = <<>> /\ unvisited # {} -> push(<<>>, Min(unvisited))
          [] c.stack # <<>> /\ top.next > Len(deps) ->
                search(Front(c.stack), [c.state EXCEPT ![top.name] = "done"], c.inCycle)
          [] OTHER ->
                IF dep = Missing THEN search(advanced, c.state, c.inCycle)
                ELSE IF c.state[dep] = "unvisited" THEN push(advanced, dep)
                ELSE IF c.state[dep] = "visiting"
                THEN search(advanced, c.state, c.inCycle \cup stackFrom(c.stack, dep))
                ELSE search(advanced, c.state, c.inCycle)

findCycles(specs) ==
    LET edges[g \in 0..N] == IF g = 0 THEN 0 ELSE edges[g - 1] + Len(specs[g].dependsOn)
        steps == 2 * N + edges[N]
        visit[k \in 0..steps] ==
            IF k = 0 THEN [stack |-> <<>>, state |-> [g \in Groups |-> "unvisited"], inCycle |-> {}]
            ELSE visitStep(specs, visit[k - 1])
    IN  visit[steps].inCycle

-----------------------------------------------------------------------------
(* PlanGroups, from what a reconcile reads of the groups.                   *)

\* What a reconcile reads of each group.
Read == [g \in Groups |-> IF CacheLags THEN cache[g] ELSE [wish |-> wish[g], phase |-> phase[g]]]

manual(w) == w \in {"manualUp", "manualDown"}

\* ownDecision: an OnDemand group only follows an override or an Up exception.
ownDecision(v, g) ==
    v[g].wish \in {"manualUp", "exceptionUp"} \/ (v[g].wish = "up" /\ ~spec[g].onDemand)

\* The dependents a group hears: none across a cycle.
dependents(g) ==
    IF g \in inCycle THEN {}
    ELSE {d \in Groups \ (inCycle \cup {g}) : g \in dependencies(d)}

isRunning(p) == p \in {"ScaledUp", "ScalingUp", "DryRun"}

\* Mutant: only what the dependents want themselves counts.
PlanActiveOwnOnly(v) ==
    [g \in Groups |->
        \/ ownDecision(v, g)
        \/ /\ ~manual(v[g].wish)
           /\ \E d \in dependents(g) :
                ownDecision(v, d) \/ (v[d].phase # "ScaledDown" /\ isRunning(v[g].phase))]

\* Mutant: a dependent on its way down no longer holds the group.
PlanActiveNoHold(v) ==
    LET active[g \in Groups] ==
            ownDecision(v, g) \/ (~manual(v[g].wish) /\ \E d \in dependents(g) : active[d])
    IN  active

\* The desired state of every group: its own desire, or a dependent that is up,
\* or one on its way down while the group itself is running; a manual override
\* always wins.
PlanActive(v) ==
    LET active[g \in Groups] ==
            \/ ownDecision(v, g)
            \/ /\ ~manual(v[g].wish)
               /\ \E d \in dependents(g) :
                    active[d] \/ (v[d].phase # "ScaledDown" /\ isRunning(v[g].phase))
    IN  active

\* Mutant: a dependency counts as there once it is on its way.
waitsRunning(v, g) ==
    /\ g \notin inCycle
    /\ \/ Missing \in Range(spec[g].dependsOn)
       \/ \E d \in dependencies(g) : ~isRunning(v[d].phase)

\* WaitingFor and MissingDependencies are not both empty.
waits(v, g) ==
    /\ g \notin inCycle
    /\ \/ Missing \in Range(spec[g].dependsOn)
       \/ \E d \in dependencies(g) : v[d].phase \notin {"ScaledUp", "DryRun"}

BlockedOnDependencies(v, up, g) == up /\ waits(v, g)

-----------------------------------------------------------------------------
(* The reconciler.                                                          *)

\* The status update at the end of a reconcile, refused when the object was read
\* from an outdated cache.
WritePhase(g, p) ==
    LET stored == CacheLags => cache[g] = [wish |-> wish[g], phase |-> phase[g]]
    IN  /\ phase' = IF stored THEN [phase EXCEPT ![g] = p] ELSE phase
        /\ unsaved' = IF stored \/ p = phase[g] THEN unsaved \ {g} ELSE unsaved \cup {g}

\* A dry run changes nothing but the phase.
DryRun(g) ==
    /\ spec[g].dryRun
    /\ UNCHANGED <<spec, inCycle, wish, cache, work, boundVars>>
    /\ WritePhase(g, "DryRun")

\* A group that wants to come up holds back until its dependencies are there;
\* one that is already up keeps running.
WaitForDependencies(g, v, up) ==
    /\ ~spec[g].dryRun
    /\ UNCHANGED <<spec, inCycle, wish, cache, work, boundVars>>
    /\ BlockedOnDependencies(v, up, g) /\ v[g].phase # "ScaledUp"
    /\ WritePhase(g, "WaitingForDependencies")

\* The stages: the group's workloads are sent towards the plan's state, and the
\* phase says whether they are there.
Scale(g, v, up) ==
    LET there == work[g] = IF up THEN "up" ELSE "down"
    IN  /\ ~spec[g].dryRun
        /\ UNCHANGED <<spec, inCycle, wish, cache, boundVars>>
        /\ ~BlockedOnDependencies(v, up, g) \/ v[g].phase = "ScaledUp"
        /\ work' = [work EXCEPT ![g] = IF ~up /\ ~there THEN "falling"
                                      ELSE IF up /\ @ \in {"down", "falling"} THEN "rising"
                                      ELSE @]
        /\ WritePhase(g, IF there THEN (IF up THEN "ScaledUp" ELSE "ScaledDown")
                         ELSE (IF up THEN "ScalingUp" ELSE "ScalingDown"))

ReconcileGroup(g) ==
    LET v == Read
        up == PlanActive(v)[g]
    IN  DryRun(g) \/ WaitForDependencies(g, v, up) \/ Scale(g, v, up)

-----------------------------------------------------------------------------
(* What happens around it.                                                  *)

\* A schedule's hours begin or end, or a user sets or lifts an override.
Flip(g, w) ==
    /\ flips < MaxFlips
    /\ w # wish[g]
    /\ flips' = flips + 1
    /\ wish' = [wish EXCEPT ![g] = w]
    /\ UNCHANGED <<spec, inCycle, phase, cache, work, unsaved, faults>>

\* The pods have started, or are gone.
PodsSettle(g) ==
    /\ work[g] \in {"rising", "falling", "degraded"}
    /\ work' = [work EXCEPT ![g] = IF @ = "falling" THEN "down" ELSE "up"]
    /\ UNCHANGED <<spec, inCycle, wish, phase, cache, unsaved, boundVars>>

\* A pod of a running group fails.
PodFails(g) ==
    /\ faults < MaxFaults
    /\ work[g] = "up"
    /\ faults' = faults + 1
    /\ work' = [work EXCEPT ![g] = "degraded"]
    /\ UNCHANGED <<spec, inCycle, wish, phase, cache, unsaved, flips>>

\* The informer catches up with one group.
CacheSync(g) ==
    /\ CacheLags
    /\ cache[g] # [wish |-> wish[g], phase |-> phase[g]]
    /\ cache' = [cache EXCEPT ![g] = [wish |-> wish[g], phase |-> phase[g]]]
    /\ UNCHANGED <<spec, inCycle, wish, phase, work, unsaved, boundVars>>

\* New groups have no phase yet, whatever their workloads do; older ones have
\* settled, with nothing up that depends on something down.
Settled ==
    \A g \in Groups :
        IF NewGroups THEN phase[g] = "" /\ work[g] = "up"
        ELSE IF spec[g].dryRun THEN phase[g] = "DryRun"
        ELSE /\ phase[g] = IF work[g] = "up" THEN "ScaledUp" ELSE "ScaledDown"
             /\ work[g] = "up" => \A d \in dependencies(g) : work[d] = "up"

DependencyInit ==
    /\ spec \in Specs
    /\ inCycle = findCycles(spec)
    /\ wish \in {w \in [Groups -> {"up", "down"}] : \A g \in Groups : w[g] \in Wishes[g]}
    /\ work \in [Groups -> {"up", "down"}]
    /\ phase \in [Groups -> {"", "ScaledUp", "ScaledDown", "DryRun"}]
    /\ Settled
    /\ cache = [g \in Groups |-> IF CacheLags THEN [wish |-> wish[g], phase |-> phase[g]]
                                 ELSE [wish |-> "down", phase |-> ""]]
    /\ unsaved = {} /\ flips = 0 /\ faults = 0

DependencyNext ==
    \E g \in Groups :
        \/ ReconcileGroup(g)
        \/ \E w \in Wishes[g] : Flip(g, w)
        \/ PodsSettle(g) \/ PodFails(g) \/ CacheSync(g)

DependencySpec == DependencyInit /\ [][DependencyNext]_dependencyVars

\* Every group is requeued for as long as it exists, pods start and stop, and
\* watches deliver.
Fairness ==
    /\ \A g \in Groups : WF_dependencyVars(ReconcileGroup(g))
    /\ WF_dependencyVars(\E g \in Groups : PodsSettle(g))
    /\ WF_dependencyVars(\E g \in Groups : CacheSync(g))

FairSpec == DependencySpec /\ Fairness

-----------------------------------------------------------------------------
(* Properties.                                                              *)

TypeOK ==
    /\ spec \in Specs
    /\ inCycle \subseteq Groups
    /\ \A g \in Groups : wish[g] \in Wishes[g]
    /\ phase \in [Groups -> Phases]
    /\ work \in [Groups -> {"up", "down", "rising", "falling", "degraded"}]
    /\ \A g \in Groups : work[g] = "falling" => ~spec[g].dryRun

\* The groups a group reaches along dependsOn through the groups of S.
ReachesThrough(s, S, g) ==
    LET reached[k \in 0..N] ==
            IF k = 0 THEN dependenciesIn(s, g)
            ELSE reached[k - 1] \cup UNION {dependenciesIn(s, h) : h \in reached[k - 1] \cap S}
    IN  reached[N]

OnCycle(s, g) == g \in ReachesThrough(s, Groups, g)

\* cut breaks the cycles of s, and is on them.
Cuts(s, cut) ==
    /\ \A g \in Groups \ cut : g \notin ReachesThrough(s, Groups \ cut, g)
    /\ \A g \in cut : OnCycle(s, g)

\* Every dependsOn cycle has a member whose dependsOn is ignored, and no group
\* outside the cycles is ignored: the plan's recursion over dependents ends
\* (findCycles, resolve).
CyclesBroken == Cuts(spec, inCycle)

Starts(g) == work[g] \in {"down", "falling"} /\ work'[g] = "rising"
Stops(g) == work[g] \in {"up", "rising", "degraded"} /\ work'[g] = "falling"

\* The cache is up to date and a group's phase tells what its last pass did.
Known(g) ==
    /\ CacheLags => cache = [h \in Groups |-> [wish |-> wish[h], phase |-> phase[h]]]
    /\ g \notin unsaved

\* From what is up to date, and tells of the group itself and of the other one, a
\* group is started only once every group it depends on is up, or was before a pod
\* of it failed, and a group that reports running is taken down only once every
\* group that depends on it is fully down, unless a manual override takes it down
\* (BlockedOnDependencies, PlanGroups' goingDown).
DependenciesOutlive ==
    [][\A g \in Groups \ inCycle :
         \A d \in {e \in dependencies(g) \ inCycle : wish[e] # "manualDown"} :
        /\ Starts(g) /\ Known(g) /\ Known(d) /\ ~spec[d].dryRun => work[d] \in {"up", "degraded"}
        /\ Stops(d) /\ Known(g) /\ isRunning(phase[d]) => work[g] = "down"]_dependencyVars

\* What the groups should do, without phases: a group is wanted when it wants to
\* be up itself or, unless overridden, a group that depends on it is wanted.
Wanted ==
    LET wanted(S) == S \cup {g \in Groups : ~manual(wish[g]) /\ dependents(g) \cap S # {}}
        own == {g \in Groups : ownDecision([h \in Groups |-> [wish |-> wish[h]]], g)}
    IN  FoldLeftDomain(LAMBDA S, k : wanted(S), own, spec)

\* What a group may have to wait for without end: a group that does not exist or
\* that a user keeps down.
Hopeless(g) ==
    \E h \in {g} \cup ReachesThrough(spec, Groups, g) :
        \/ Missing \in Range(spec[h].dependsOn)
        \/ h # g /\ wish[h] = "manualDown" /\ ~spec[h].dryRun

\* Once schedules, users and faults leave them alone, the wanted groups come up,
\* dependencies first, and the others go down, dependents first: nobody waits
\* for anybody forever (waitForDependencies, PlanGroups).
EveryoneArrives ==
    <>[](LET wanted == Wanted IN \A g \in Groups :
            \/ spec[g].dryRun
            \/ g \in wanted /\ (work[g] = "up" \/ Hopeless(g))
            \/ g \notin wanted /\ (work[g] = "down" \/ \E d \in dependents(g) : spec[d].dryRun))

\* The comment on GroupPlan.InCycle: a cycle can neither deadlock nor pin groups
\* up.  A group on a cycle that wants to be up comes up.
CycleCannotDeadlock ==
    \A g \in Groups :
        OnCycle(spec, g) /\ ~spec[g].dryRun /\ wish[g] = "up" /\ ~spec[g].onDemand
            ~> work[g] = "up" \/ wish[g] # "up"

=============================================================================
