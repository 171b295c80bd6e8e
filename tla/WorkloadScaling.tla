---------------------------- MODULE WorkloadScaling ----------------------------
(***************************************************************************)
(* One namespace under a schedule: internal/scaling's ScaleTarget taking   *)
(* its workloads (Deployments, StatefulSets, Rollouts) down to zero and    *)
(* back up in stages, with the companions (CronJobs, KEDA ScaledObjects)   *)
(* held while it is down, driven by a reconciler that keeps the recorded   *)
(* replica counts in its status.                                           *)
(*                                                                         *)
(* A pass makes one API write per step.  Between any two of its steps the  *)
(* clock may move the schedule, a user may scale a workload or toggle a    *)
(* CronJob, pods start, stop and fail, and the pass itself may end early   *)
(* (an API error, a refused status update, a restart of the operator): it  *)
(* then loses what it held in memory and the next pass starts over.        *)
(*                                                                         *)
(* A workload is its replica count, its original-replicas annotation (0    *)
(* when it has none) and its live, ready pods.                             *)
(***************************************************************************)
EXTENDS Integers, FiniteSets

CONSTANTS
    Workloads,       \* the scalable, not excluded workloads of the namespace
    Stage,           \* the stage getSequenceIndex gives each of them
    CronJobs,        \* companions suspended while the namespace is down
    ScaledObjects,   \* companions paused while the namespace is down
    MaxReplicas,     \* bound on replica counts
    SkipOnTimeout,   \* spec.featureFlags.skipOnTimeout
    CacheLags,       \* whether what a pass has read of a workload may be behind the
                     \* API server: listed at its start, or from a lagging cache
    MaxFlips,        \* bound on changes of the desired state
    MaxEdits,        \* bound on edits by users
    MaxFaults        \* bound on failed calls, restarts and pod failures

Companions == CronJobs \cup ScaledObjects
Counts == 0..MaxReplicas
Stages == {Stage[w] : w \in Workloads}

ASSUME ConstantsAssumption ==
    /\ Workloads # {} /\ IsFiniteSet(Workloads)
    /\ Stage \in [Workloads -> Nat]
    /\ CronJobs \cap ScaledObjects = {}
    /\ MaxReplicas \in Nat \ {0}
    /\ SkipOnTimeout \in BOOLEAN
    /\ CacheLags \in BOOLEAN
    /\ MaxFlips \in Nat /\ MaxEdits \in Nat /\ MaxFaults \in Nat

VARIABLES
    object,      \* what the API server holds of each workload
    cache,       \* what the operator's informer last saw of it
    companion,   \* each CronJob or ScaledObject: is it stopped, is the mark ours
    status,      \* status.originalReplicas, 0 for a workload without an entry
    desired,     \* what the timetable wants now
    \* The pass under way.
    pc, active, timedOut, originals, left, todo,
    \* Histories, read by the properties only.
    had,         \* the count CostDeck took a workload down from, while it is at zero
    disturbed,   \* what a user or a failing pod changed since the pass began
    flips, edits, faults

clusterVars == <<object, cache, companion>>
passVars == <<pc, active, timedOut, originals, left, todo>>
boundVars == <<flips, edits, faults>>
historyVars == <<had, disturbed>>
vars == <<clusterVars, status, desired, passVars, historyVars, boundVars>>

WorkloadObject == [replicas : Counts, annotation : Counts, pods : Counts]
CompanionObject == [stopped : BOOLEAN, ours : BOOLEAN]

TypeOK ==
    /\ object \in [Workloads -> WorkloadObject]
    /\ cache \in [Workloads -> WorkloadObject]
    /\ companion \in [Companions -> CompanionObject]
    /\ status \in [Workloads -> Counts]
    /\ desired \in BOOLEAN
    /\ pc \in {"idle", "hold", "enter", "scale", "release", "save"}
    /\ active \in BOOLEAN
    /\ timedOut \in BOOLEAN
    /\ originals \in [Workloads -> Counts]
    /\ left \subseteq Stages
    /\ todo \subseteq Workloads \cup Companions
    /\ had \in [Workloads -> Counts]
    /\ disturbed \subseteq Workloads \cup Companions
    /\ flips \in 0..MaxFlips /\ edits \in 0..MaxEdits /\ faults \in 0..MaxFaults

-----------------------------------------------------------------------------
(* What the engine computes from a workload it has read.                    *)

\* What the cache of an instance with live reads holds: it is never read.
Nothing == [replicas |-> 0, annotation |-> 0, pods |-> 0]

NoOriginals == [w \in Workloads |-> 0]

\* Mutant: the status is no longer the fallback for a missing annotation.
recordedReplicasNoFallback(o, original) == o.annotation

\* The count a workload had before it was scaled down: its annotation, else
\* the entry of status.originalReplicas, else zero.
recordedReplicas(o, original) ==
    IF o.annotation > 0 THEN o.annotation ELSE original

\* Mutant: what runs again, with however few replicas, is taken for restored.
targetReplicasKeepsRunning(up, current, original) ==
    IF ~up THEN 0
    ELSE IF current > 0 THEN current
    ELSE IF original > 0 THEN original
    ELSE 1

\* Mutant: the record is taken for the highest index, not for the count.
targetReplicasOneMore(up, current, original) ==
    IF ~up THEN 0
    ELSE IF original > current THEN original + 1
    ELSE IF current > 0 THEN current
    ELSE 1

targetReplicas(up, current, original) ==
    IF ~up THEN 0
    ELSE IF original > current THEN original
    ELSE IF current > 0 THEN current
    ELSE 1

\* Mutant: the annotation is only written while there is none, so a workload
\* a user restarted meanwhile keeps its first count.
setReplicasFirstRecord(o, count, record) ==
    [o EXCEPT !.replicas = count,
              !.annotation = IF record > 0 /\ @ = 0 THEN record
                             ELSE IF count > 0 THEN 0 ELSE @]

\* The object setReplicas asks for; record is zero when nothing is recorded.
setReplicas(o, count, record) ==
    [o EXCEPT !.replicas = count,
              !.annotation = IF record > 0 THEN record
                             ELSE IF count > 0 THEN 0 ELSE @]

\* A merge patch sends the fields that differ between what was read and what
\* is wanted, and leaves the others as the API server has them.
mergePatch(stored, read, wanted) ==
    [stored EXCEPT
        !.replicas = IF wanted.replicas # read.replicas THEN wanted.replicas ELSE @,
        !.annotation = IF wanted.annotation # read.annotation THEN wanted.annotation ELSE @]

\* The count scaleResource records: only when it takes a running workload down.
recordOf(o, up) == IF ~up /\ o.replicas > 0 THEN o.replicas ELSE 0

\* Mutant: a workload at its target count is never revisited.
scaleResourceAtTarget(o, up, original) ==
    LET target == targetReplicas(up, o.replicas, recordedReplicas(o, original))
    IN  IF o.replicas = target THEN o ELSE setReplicas(o, target, recordOf(o, up))

\* scaleResource: the object it wants.  A workload already at its target is
\* left alone, unless it is restored and still annotated.
scaleResource(o, up, original) ==
    LET target == targetReplicas(up, o.replicas, recordedReplicas(o, original))
    IN  IF o.replicas = target /\ (~up \/ o.annotation = 0)
        THEN o
        ELSE setReplicas(o, target, recordOf(o, up))

isResourceReady(o, up) ==
    IF up THEN o.replicas > 0 /\ o.pods >= o.replicas
          ELSE o.replicas = 0 /\ o.pods = 0

\* What a read returns: the informer cache's object, which may be behind.
Read(w) == IF CacheLags THEN cache[w] ELSE object[w]

InStage(s) == {w \in Workloads : Stage[w] = s}

isGroupReady(s) == \A w \in InStage(s) : isResourceReady(Read(w), active)

\* Mutant: stages stop in the order they start.
nextStageUnreversed(stages, up) ==
    CHOOSE s \in stages : \A t \in stages : s <= t

\* groupAndSortPriorities: stages start in order and stop in reverse.
nextStage(stages, up) ==
    CHOOSE s \in stages : \A t \in stages : IF up THEN s <= t ELSE t <= s

-----------------------------------------------------------------------------
(* The steps of a pass.                                                     *)

\* The reconciler decides, reads its status and calls ScaleTarget.  Whether
\* skipOnTimeout's window has run out is the clock's choice.
BeginPass ==
    /\ pc = "idle"
    /\ pc' = IF desired THEN "enter" ELSE "hold"
    /\ active' = desired
    /\ timedOut' \in (IF SkipOnTimeout THEN BOOLEAN ELSE {FALSE})
    /\ originals' = status
    /\ left' = Stages
    /\ todo' = Companions
    /\ disturbed' = {}
    /\ UNCHANGED <<clusterVars, status, desired, had, boundVars>>

\* Mutant: what carries the mark is taken for stopped.
holdUnmarked(o) == IF o.ours THEN o ELSE [stopped |-> TRUE, ours |-> TRUE]

\* setCronJobsSuspended and setScaledObjectsPaused on the way down: what is
\* already stopped is left alone, the rest is stopped and marked.
hold(o) == IF o.stopped THEN o ELSE [stopped |-> TRUE, ours |-> TRUE]

\* On the way up: only what carries the mark is resumed.
release(o) == IF o.ours THEN [stopped |-> FALSE, ours |-> FALSE] ELSE o

\* holdCompanions: the CronJobs, then the ScaledObjects.
HoldCompanion ==
    /\ pc = "hold"
    /\ \E c \in todo :
        /\ c \in ScaledObjects => todo \cap CronJobs = {}
        /\ companion' = [companion EXCEPT ![c] = hold(@)]
        /\ todo' = todo \ {c}
    /\ UNCHANGED <<object, cache, status, desired, pc, active, timedOut, originals,
                   left, had, disturbed, boundVars>>

\* The pass goes on to the stages that remain; after the last one an up pass
\* hands the companions back, and a down pass is finished.
Advance(remaining) ==
    /\ left' = remaining
    /\ pc' = IF remaining # {} THEN "enter" ELSE IF active THEN "release" ELSE "save"
    /\ todo' = IF remaining = {} /\ active THEN Companions ELSE {}

\* scalePriorityGroup, up to its loop: a stage already down needs no writes.
\* A failed read of a workload counts as not ready.
EnterStage ==
    LET s == nextStage(left, active) IN
    /\ pc = "enter" \/ (pc = "hold" /\ todo = {})
    /\ \/ /\ isGroupReady(s) /\ ~active
          /\ Advance(left \ {s})
       \/ /\ ~isGroupReady(s) \/ active
          /\ pc' = "scale"
          /\ todo' = InStage(s)
          /\ left' = left
    /\ UNCHANGED <<clusterVars, status, desired, active, timedOut, originals,
                   historyVars, boundVars>>

\* scaleResource for one workload of the stage: one merge patch, computed from
\* what was read.
ScaleWorkload(w) ==
    LET read == Read(w)
        wanted == scaleResource(read, active, originals[w])
        stored == mergePatch(object[w], read, wanted)
    IN  /\ pc = "scale"
        /\ w \in todo
        /\ object' = [object EXCEPT ![w] = stored]
        /\ originals' = IF recordOf(read, active) > 0
                        THEN [originals EXCEPT ![w] = recordOf(read, active)]
                        ELSE originals
        /\ had' = [had EXCEPT ![w] =
                      IF stored.replicas > 0 THEN 0
                      ELSE IF object[w].replicas > 0 THEN object[w].replicas
                      ELSE @]
        /\ todo' = todo \ {w}
        /\ UNCHANGED <<cache, companion, status, desired, pc, active, timedOut, left,
                       disturbed, boundVars>>

\* cleanupOriginals: a stage that is up forgets its recorded counts.
cleanupOriginals(s) ==
    [w \in Workloads |-> IF Stage[w] = s THEN 0 ELSE originals[w]]

\* scalePriorityGroup after its loop: on to the next stage once this one is
\* there, or when the timeout has passed, which keeps the recorded counts;
\* else the pass ends here.  A read that fails counts as not ready.
LeaveStage ==
    LET s == nextStage(left, active) IN
    /\ pc = "scale"
    /\ todo = {}
    /\ \/ /\ isGroupReady(s)
          /\ faults' = faults
          /\ originals' = IF active THEN cleanupOriginals(s) ELSE originals
          /\ Advance(left \ {s})
       \/ /\ \/ ~isGroupReady(s) /\ faults' = faults
             \/ faults < MaxFaults /\ faults' = faults + 1
          /\ originals' = originals
          /\ IF timedOut
             THEN Advance(left \ {s})
             ELSE pc' = "save" /\ UNCHANGED <<left, todo>>
    /\ UNCHANGED <<clusterVars, status, desired, active, timedOut, historyVars,
                   flips, edits>>

\* releaseCompanions: the ScaledObjects, then the CronJobs.
ReleaseCompanion ==
    /\ pc = "release"
    /\ \E c \in todo :
        /\ c \in CronJobs => todo \cap ScaledObjects = {}
        /\ companion' = [companion EXCEPT ![c] = release(@)]
        /\ todo' = todo \ {c}
    /\ UNCHANGED <<object, cache, status, desired, pc, active, timedOut, originals,
                   left, had, disturbed, boundVars>>

\* The registers of a pass that is over.
PassOver ==
    /\ pc' = "idle"
    /\ left' = {} /\ todo' = {} /\ originals' = NoOriginals
    /\ timedOut' = FALSE
    /\ disturbed' = {}

\* The reconciler stores what ScaleTarget returned.
SaveStatus ==
    /\ pc = "save" \/ (pc = "release" /\ todo = {})
    /\ status' = originals
    /\ PassOver
    /\ UNCHANGED <<clusterVars, desired, active, had, boundVars>>

\* An API call fails, the status update is refused or the operator restarts:
\* the pass ends without a status update.
AbortPass ==
    /\ pc # "idle"
    /\ faults < MaxFaults
    /\ faults' = faults + 1
    /\ PassOver
    /\ UNCHANGED <<clusterVars, status, desired, active, had, flips, edits>>

-----------------------------------------------------------------------------
(* What happens around the operator.                                        *)

\* The schedule's hours begin or end, or a user overrides them.
Flip ==
    /\ flips < MaxFlips
    /\ flips' = flips + 1
    /\ desired' = ~desired
    /\ UNCHANGED <<clusterVars, status, passVars, historyVars, edits, faults>>

\* A user, an HPA or a GitOps sync sets a replica count.
UserScales(w, n) ==
    /\ edits < MaxEdits
    /\ n # object[w].replicas
    /\ edits' = edits + 1
    /\ object' = [object EXCEPT ![w].replicas = n]
    /\ had' = [had EXCEPT ![w] = 0]
    /\ disturbed' = IF pc = "idle" THEN disturbed ELSE disturbed \cup {w}
    /\ UNCHANGED <<cache, companion, status, desired, passVars, flips, faults>>

\* A user suspends or resumes a CronJob, pauses or unpauses a ScaledObject;
\* CostDeck's mark stays as it is.
UserToggles(c) ==
    /\ edits < MaxEdits
    /\ edits' = edits + 1
    /\ companion' = [companion EXCEPT ![c].stopped = ~@]
    /\ disturbed' = IF pc = "idle" THEN disturbed ELSE disturbed \cup {c}
    /\ UNCHANGED <<object, cache, status, desired, passVars, had, flips, faults>>

\* The workload's controller brings its pods closer to the replica count.
PodsMove(w) ==
    LET o == object[w] IN
    /\ o.pods # o.replicas
    /\ \E p \in Counts :
        /\ p \in (o.pods + 1)..o.replicas \/ p \in o.replicas..(o.pods - 1)
        /\ object' = [object EXCEPT ![w].pods = p]
    /\ UNCHANGED <<cache, companion, status, desired, passVars, historyVars, boundVars>>

\* A pod fails or is evicted.
PodFails(w) ==
    /\ faults < MaxFaults
    /\ object[w].pods > 0
    /\ faults' = faults + 1
    /\ object' = [object EXCEPT ![w].pods = @ - 1]
    /\ disturbed' = IF pc = "idle" THEN disturbed ELSE disturbed \cup {w}
    /\ UNCHANGED <<cache, companion, status, desired, passVars, had, flips, edits>>

\* The informer catches up with one workload.
CacheSync(w) ==
    /\ CacheLags
    /\ cache[w] # object[w]
    /\ cache' = [cache EXCEPT ![w] = object[w]]
    /\ UNCHANGED <<object, companion, status, desired, passVars, historyVars, boundVars>>

-----------------------------------------------------------------------------
\* A settled cluster before the schedule's first pass.  A workload may have
\* been scaled down by a release that only kept its count in the status.
Init ==
    /\ object \in [Workloads -> {o \in WorkloadObject : o.annotation = 0 /\ o.pods = o.replicas}]
    /\ cache = IF CacheLags THEN object ELSE [w \in Workloads |-> Nothing]
    /\ status \in {s \in [Workloads -> Counts] :
                    \A w \in Workloads : s[w] > 0 => object[w].replicas = 0}
    /\ companion \in [Companions -> {o \in CompanionObject : ~o.ours}]
    /\ desired \in BOOLEAN
    /\ pc = "idle" /\ active = TRUE /\ timedOut = FALSE
    /\ originals = NoOriginals /\ left = {} /\ todo = {}
    /\ had = NoOriginals /\ disturbed = {}
    /\ flips = 0 /\ edits = 0 /\ faults = 0

PassStep ==
    \/ BeginPass \/ HoldCompanion \/ EnterStage
    \/ \E w \in Workloads : ScaleWorkload(w)
    \/ LeaveStage \/ ReleaseCompanion \/ SaveStatus

EnvironmentStep ==
    \/ Flip
    \/ \E w \in Workloads, n \in Counts : UserScales(w, n)
    \/ \E c \in Companions : UserToggles(c)
    \/ \E w \in Workloads : PodsMove(w) \/ PodFails(w) \/ CacheSync(w)

Next == PassStep \/ AbortPass \/ EnvironmentStep

Spec == Init /\ [][Next]_vars

\* The reconciler is requeued for as long as the schedule exists, controllers
\* start and stop pods, and watches deliver.
Fairness ==
    /\ WF_vars(PassStep)
    /\ \A w \in Workloads : WF_vars(PodsMove(w)) /\ WF_vars(CacheSync(w))

FairSpec == Spec /\ Fairness

-----------------------------------------------------------------------------
(* Properties.                                                              *)

\* A workload CostDeck took down carries the count it had, whatever happened
\* since: a pass that broke off, a lost status, a restart, a change of mind of
\* the schedule (OriginalReplicasAnnotation, scaleResource, setReplicas).
CountRemembered ==
    \A w \in Workloads : had[w] > 0 => object[w].annotation = had[w]

\* Whether a step is scaleResource's, rather than a user's or a controller's.
OperatorScales == pc = "scale" /\ todo' # todo

\* A workload the engine starts from zero comes back with at least the count
\* on record, the status standing in for a missing annotation
\* (recordedReplicas, targetReplicas).
RestoredInFull ==
    [][\A w \in Workloads :
        OperatorScales /\ object[w].replicas = 0 /\ object'[w].replicas > 0
        => object'[w].replicas >= IF object[w].annotation > 0 THEN object[w].annotation
                                                              ELSE status[w]]_vars

\* Once a pass ends with everything up, no workload carries the annotation, so
\* a later scale-to-zero by hand does not inherit it (scalePriorityGroup
\* revisits every workload on the way up).
NothingLeftBehind ==
    \A w \in Workloads :
        pc = "release" => object[w].annotation = 0

Comes(w, v) == IF active THEN Stage[w] < Stage[v] ELSE Stage[w] > Stage[v]

\* Unless the timeout lets it, the engine starts or stops a workload only when
\* every workload of the stages before is already there, apart from those that
\* a user or a failing pod moved during the pass (ScaleTarget's early return).
WorkloadsInOrder ==
    \A v \in Workloads :
        OperatorScales /\ ~timedOut /\ object'[v].replicas # object[v].replicas
        => \A w \in Workloads \ disturbed :
            Comes(w, v) => isResourceReady(object[w], active)

\* The companions frame the workloads: none is taken to zero while a CronJob or
\* ScaledObject that nobody touched during the pass could bring its pods back
\* (holdCompanions comes before anything is scaled down), and none of them is handed
\* back before every workload is up (the end of ScaleTarget).
CompanionsFrame ==
    /\ \A w \in Workloads :
        OperatorScales /\ object[w].replicas > 0 /\ object'[w].replicas = 0
        => \A c \in Companions \ disturbed : companion[c].stopped
    /\ \A c \in Companions :
        pc = "release" /\ todo' # todo /\ companion'[c] # companion[c] /\ ~timedOut
        => \A w \in Workloads \ disturbed : isResourceReady(object[w], TRUE)

\* Everything the engine moves, it moves in its turn, whatever interrupts a pass and
\* whoever interferes with it (ScaleTarget, scalePriorityGroup).
StagesInOrder == [][WorkloadsInOrder /\ CompanionsFrame]_vars

Contract == INSTANCE ReplicaContract WITH
    count <- [w \in Workloads |-> object[w].replicas],
    owed <- [w \in Workloads |-> object[w].annotation]

\* Seen from a workload's owner, everything the passes, their failures and the
\* users do to the counts is allowed by the contract (ScaleTarget as a whole).
KeepsContract == Contract!Spec

\* Where the schedule wants the namespace.
Settled ==
    \A w \in Workloads :
        /\ isResourceReady(object[w], desired)
        /\ desired => object[w].annotation = 0

\* Once the schedule, the users and the faults leave it alone, the namespace
\* reaches the desired state and stays there, and the companions with it
\* (Reconcile requeues until ScaleTarget reports ready, and after that too).
EventuallySettled ==
    <>[](/\ Settled
         /\ \A c \in Companions : IF desired THEN ~companion[c].ours ELSE companion[c].stopped)

=============================================================================
