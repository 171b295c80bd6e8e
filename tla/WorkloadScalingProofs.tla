------------------------- MODULE WorkloadScalingProofs -------------------------
(***************************************************************************)
(* Theorems about WorkloadScaling for every set of workloads, stages and   *)
(* companions and every bound: the types, that a workload taken down       *)
(* carries its count, that the passes keep ReplicaContract, and what a     *)
(* pass has behind it.  All but the types hold for reads that are not      *)
(* behind the API server (~CacheLags).                                     *)
(***************************************************************************)
EXTENDS WorkloadScaling, FiniteSetTheorems, WellFoundedInduction, TLAPS

\* nextStage picks one of the stages that remain: every finite set of naturals
\* has a first and a last one, but the proofs only need that a stage's
\* workloads are workloads, which holds of any value.
LEMMA InStageWorkloads ==
  ASSUME NEW s
  PROVE  InStage(s) \subseteq Workloads
  BY DEF InStage

\* A pass starts without counts of its own, which is a count for each workload.
LEMMA NoOriginalsType == NoOriginals \in [Workloads -> Counts]
  BY ConstantsAssumption DEF NoOriginals, Counts

\* What scaleResource asks for is a well-formed workload whose pods it leaves
\* alone (targetReplicas, setReplicas).
LEMMA ScaleResourceType ==
  ASSUME NEW o \in WorkloadObject, NEW up \in BOOLEAN, NEW r \in Counts
  PROVE  /\ scaleResource(o, up, r) \in WorkloadObject
         /\ scaleResource(o, up, r).pods = o.pods
         /\ recordOf(o, up) \in Counts
<1> DEFINE target == targetReplicas(up, o.replicas, recordedReplicas(o, r))
<1>1. target \in Counts
  BY ConstantsAssumption DEF targetReplicas, recordedReplicas, WorkloadObject, Counts
<1>2. recordOf(o, up) \in Counts
  BY ConstantsAssumption DEF recordOf, WorkloadObject, Counts
<1>3. ASSUME NEW n \in Counts, NEW k \in Counts
      PROVE  setReplicas(o, n, k) \in WorkloadObject /\ setReplicas(o, n, k).pods = o.pods
  <2>1. 0 \in Counts
    BY ConstantsAssumption DEF Counts
  <2> QED BY <2>1 DEF setReplicas, WorkloadObject
<1> HIDE DEF target
<1>4. \/ scaleResource(o, up, r) = o
      \/ scaleResource(o, up, r) = setReplicas(o, target, recordOf(o, up))
  BY DEF scaleResource, target
<1> QED BY <1>1, <1>2, <1>3, <1>4

\* A merge patch of well-formed objects is well-formed.
LEMMA MergePatchType ==
  ASSUME NEW a \in WorkloadObject, NEW b \in WorkloadObject, NEW c \in WorkloadObject
  PROVE  mergePatch(a, b, c) \in WorkloadObject
  BY DEF mergePatch, WorkloadObject

\* With a read that is up to date, the patch stores exactly what was asked for.
LEMMA FreshPatch ==
  ASSUME NEW o \in WorkloadObject, NEW n \in WorkloadObject, n.pods = o.pods
  PROVE  mergePatch(o, o, n) = n
  BY DEF mergePatch, WorkloadObject

\* The way down takes a running workload to zero and writes its count on it;
\* one already at zero is left alone.
LEMMA ScaleDown ==
  ASSUME NEW o \in WorkloadObject, NEW r \in Counts
  PROVE  /\ o.replicas > 0 => /\ scaleResource(o, FALSE, r).replicas = 0
                              /\ scaleResource(o, FALSE, r).annotation = o.replicas
         /\ o.replicas = 0 => scaleResource(o, FALSE, r) = o
  BY ConstantsAssumption DEF scaleResource, setReplicas, recordOf, targetReplicas,
     recordedReplicas, WorkloadObject, Counts

\* The way up leaves a workload running, unannotated, with no fewer replicas
\* than it has or had.
LEMMA ScaleUp ==
  ASSUME NEW o \in WorkloadObject, NEW r \in Counts
  PROVE  /\ scaleResource(o, TRUE, r).replicas > 0
         /\ scaleResource(o, TRUE, r).replicas >= o.replicas
         /\ scaleResource(o, TRUE, r).replicas >= o.annotation
         /\ scaleResource(o, TRUE, r).annotation = 0
  BY ConstantsAssumption DEF scaleResource, setReplicas, recordOf, targetReplicas,
     recordedReplicas, WorkloadObject, Counts

-----------------------------------------------------------------------------
\* Every variable keeps its type: the counts stay within the bound although
\* the engine restores them from what it recorded.
LEMMA TypeStep == TypeOK /\ [Next]_vars => TypeOK'
<1> SUFFICES ASSUME TypeOK, [Next]_vars PROVE TypeOK'
  OBVIOUS
<1> USE ConstantsAssumption
<1>1. CASE BeginPass
  BY <1>1 DEF BeginPass, TypeOK, clusterVars, boundVars
<1>2. CASE HoldCompanion
  <2> PICK c \in todo :
        /\ companion' = [companion EXCEPT ![c] = hold(@)]
        /\ todo' = todo \ {c}
    BY <1>2 DEF HoldCompanion
  <2>1. companion' \in [Companions -> CompanionObject]
    BY DEF TypeOK, hold, CompanionObject
  <2> QED BY <1>2, <2>1 DEF HoldCompanion, TypeOK, boundVars
<1>3. CASE EnterStage
  <2>1. left' \subseteq Stages /\ todo' \subseteq Workloads \cup Companions
        /\ pc' \in {"enter", "scale", "release", "save"}
    BY <1>3, InStageWorkloads DEF EnterStage, Advance, TypeOK
  <2> QED BY <1>3, <2>1 DEF EnterStage, TypeOK, clusterVars, historyVars, boundVars
<1>4. ASSUME NEW w \in Workloads, ScaleWorkload(w) PROVE TypeOK'
  <2> DEFINE read == Read(w)
             wanted == scaleResource(read, active, originals[w])
             stored == mergePatch(object[w], read, wanted)
  <2>1. read \in WorkloadObject /\ object[w] \in WorkloadObject
    BY DEF TypeOK, Read
  <2>2. wanted \in WorkloadObject /\ recordOf(read, active) \in Counts
    BY <2>1, ScaleResourceType DEF TypeOK
  <2>3. stored \in WorkloadObject
    BY <2>1, <2>2, MergePatchType
  <2>4. object' \in [Workloads -> WorkloadObject]
    BY <1>4, <2>3 DEF ScaleWorkload, TypeOK
  <2>5. originals' \in [Workloads -> Counts]
    BY <1>4, <2>2 DEF ScaleWorkload, TypeOK
  <2>6. had' \in [Workloads -> Counts]
    <3>1. object[w].replicas \in Counts /\ 0 \in Counts
      BY <2>1 DEF WorkloadObject, Counts
    <3> QED BY <1>4, <3>1 DEF ScaleWorkload, TypeOK
  <2> QED BY <1>4, <2>4, <2>5, <2>6 DEF ScaleWorkload, TypeOK, boundVars
<1>5. CASE LeaveStage
  <2>1. left' \subseteq Stages /\ todo' \subseteq Workloads \cup Companions
        /\ pc' \in {"enter", "scale", "release", "save"}
    BY <1>5 DEF LeaveStage, Advance, TypeOK
  <2>2. originals' \in [Workloads -> Counts]
    BY <1>5 DEF LeaveStage, cleanupOriginals, TypeOK, Counts
  <2>3. faults' \in 0..MaxFaults
    BY <1>5 DEF LeaveStage, TypeOK
  <2> QED BY <1>5, <2>1, <2>2, <2>3 DEF LeaveStage, TypeOK, clusterVars, historyVars
<1>6. CASE ReleaseCompanion
  <2> PICK c \in todo :
        /\ companion' = [companion EXCEPT ![c] = release(@)]
        /\ todo' = todo \ {c}
    BY <1>6 DEF ReleaseCompanion
  <2>1. companion' \in [Companions -> CompanionObject]
    BY DEF TypeOK, release, CompanionObject
  <2> QED BY <1>6, <2>1 DEF ReleaseCompanion, TypeOK, boundVars
<1>7. CASE SaveStatus
  BY <1>7, NoOriginalsType DEF SaveStatus, PassOver, TypeOK, clusterVars, boundVars
<1>8. CASE AbortPass
  <2>1. faults' \in 0..MaxFaults
    BY <1>8 DEF AbortPass, TypeOK
  <2> QED BY <1>8, <2>1, NoOriginalsType DEF AbortPass, PassOver, TypeOK, clusterVars
<1>9. CASE Flip
  BY <1>9 DEF Flip, TypeOK, clusterVars, passVars, historyVars
<1>10. ASSUME NEW w \in Workloads, NEW n \in Counts, UserScales(w, n) PROVE TypeOK'
  <2>1. object' \in [Workloads -> WorkloadObject]
    BY <1>10 DEF UserScales, TypeOK, WorkloadObject
  <2> QED BY <1>10, <2>1 DEF UserScales, TypeOK, passVars, Counts
<1>11. ASSUME NEW c \in Companions, UserToggles(c) PROVE TypeOK'
  <2>1. companion' \in [Companions -> CompanionObject]
    BY <1>11 DEF UserToggles, TypeOK, CompanionObject
  <2> QED BY <1>11, <2>1 DEF UserToggles, TypeOK, passVars
<1>12. ASSUME NEW w \in Workloads, PodsMove(w) PROVE TypeOK'
  <2>1. object' \in [Workloads -> WorkloadObject]
    BY <1>12 DEF PodsMove, TypeOK, WorkloadObject
  <2> QED BY <1>12, <2>1 DEF PodsMove, TypeOK, passVars, historyVars, boundVars
<1>13. ASSUME NEW w \in Workloads, PodFails(w) PROVE TypeOK'
  <2>1. object' \in [Workloads -> WorkloadObject]
    BY <1>13 DEF PodFails, TypeOK, WorkloadObject, Counts
  <2> QED BY <1>13, <2>1 DEF PodFails, TypeOK, passVars
<1>14. ASSUME NEW w \in Workloads, CacheSync(w) PROVE TypeOK'
  BY <1>14 DEF CacheSync, TypeOK, passVars, historyVars, boundVars
<1>15. CASE UNCHANGED vars
  BY <1>15 DEF vars, clusterVars, passVars, historyVars, boundVars, TypeOK
<1> QED
  BY <1>1, <1>2, <1>3, <1>4, <1>5, <1>6, <1>7, <1>8, <1>9, <1>10, <1>11, <1>12, <1>13,
     <1>14, <1>15 DEF Next, PassStep, EnvironmentStep

\* The types hold in every state of the specification, with lagging reads too.
THEOREM Typing == Spec => []TypeOK
<1>1. Init => TypeOK
  <2> SUFFICES ASSUME Init PROVE TypeOK
    OBVIOUS
  <2>1. Nothing \in WorkloadObject /\ 0 \in Counts
    BY ConstantsAssumption DEF Nothing, WorkloadObject, Counts
  <2>2. object \in [Workloads -> WorkloadObject] /\ cache \in [Workloads -> WorkloadObject]
    BY <2>1 DEF Init
  <2>3. companion \in [Companions -> CompanionObject]
    BY DEF Init
  <2>4. flips \in 0..MaxFlips /\ edits \in 0..MaxEdits /\ faults \in 0..MaxFaults
    BY ConstantsAssumption DEF Init
  <2> QED BY <2>2, <2>3, <2>4, NoOriginalsType DEF Init, TypeOK
<1> QED BY <1>1, TypeStep, PTL DEF Spec

-----------------------------------------------------------------------------
\* The strengthening that makes CountRemembered inductive: a workload CostDeck
\* has at zero is at zero, so only a scaling step can move it.
HeldAtZero ==
    \A w \in Workloads :
        had[w] > 0 => object[w].replicas = 0 /\ object[w].annotation = had[w]

\* With fresh reads a scaling step stores what scaleResource asks for.
LEMMA FreshStep ==
  ASSUME ~CacheLags, TypeOK, NEW w \in Workloads, ScaleWorkload(w)
  PROVE  object' = [object EXCEPT ![w] = scaleResource(object[w], active, originals[w])]
<1>1. object[w] \in WorkloadObject /\ originals[w] \in Counts /\ active \in BOOLEAN
  BY DEF TypeOK
<1>2. /\ scaleResource(object[w], active, originals[w]) \in WorkloadObject
      /\ scaleResource(object[w], active, originals[w]).pods = object[w].pods
  BY <1>1, ScaleResourceType
<1>3. mergePatch(object[w], object[w], scaleResource(object[w], active, originals[w]))
      = scaleResource(object[w], active, originals[w])
  BY <1>1, <1>2, FreshPatch
<1> QED BY <1>3 DEF ScaleWorkload, Read

\* Pods come and go without touching the counts.
LEMMA PodsOnly ==
  ASSUME TypeOK, NEW w \in Workloads, PodsMove(w) \/ PodFails(w)
  PROVE  \A v \in Workloads : /\ object'[v].replicas = object[v].replicas
                              /\ object'[v].annotation = object[v].annotation
<1>1. PICK p : object' = [object EXCEPT ![w].pods = p]
  <2>1. CASE PodsMove(w)
    BY <2>1 DEF PodsMove
  <2>2. CASE PodFails(w)
    BY <2>2 DEF PodFails
  <2> QED BY <2>1, <2>2
<1> QED BY <1>1 DEF TypeOK, WorkloadObject

\* Every step keeps the count of a workload that is down on the workload.
LEMMA HeldStep ==
  ASSUME ~CacheLags, TypeOK, HeldAtZero, [Next]_vars
  PROVE  HeldAtZero'
<1>1. ASSUME NEW w \in Workloads, ScaleWorkload(w) PROVE HeldAtZero'
  <2> DEFINE new == scaleResource(object[w], active, originals[w])
  <2>1. object[w] \in WorkloadObject /\ originals[w] \in Counts /\ active \in BOOLEAN
    BY DEF TypeOK
  <2>2. object' = [object EXCEPT ![w] = new]
    BY <1>1, FreshStep
  <2>3. object'[w] = new /\ \A v \in Workloads \ {w} : object'[v] = object[v]
    BY <2>2 DEF TypeOK
  <2>4. \A v \in Workloads \ {w} : had'[v] = had[v]
    BY <1>1 DEF ScaleWorkload, TypeOK
  <2>5. had'[w] = IF new.replicas > 0 THEN 0
                  ELSE IF object[w].replicas > 0 THEN object[w].replicas ELSE had[w]
    <3>1. mergePatch(object[w], Read(w), scaleResource(Read(w), active, originals[w])) = new
      BY <1>1, <2>3 DEF ScaleWorkload, TypeOK
    <3> QED BY <1>1, <3>1 DEF ScaleWorkload, TypeOK
  <2> HIDE DEF new
  <2>6. had'[w] > 0 => object'[w].replicas = 0 /\ object'[w].annotation = had'[w]
    <3>1. CASE active
      <4>1. new.replicas > 0
        BY <2>1, <3>1, ScaleUp DEF new
      <4> QED BY <2>5, <4>1
    <3>2. CASE ~active
      <4>1. active = FALSE
        BY <2>1, <3>2
      <4>2. CASE object[w].replicas > 0
        <5>1. new.replicas = 0 /\ new.annotation = object[w].replicas
          BY <2>1, <4>1, <4>2, ScaleDown DEF new
        <5> QED BY <2>3, <2>5, <4>2, <5>1
      <4>3. CASE object[w].replicas = 0
        <5>1. new = object[w]
          BY <2>1, <4>1, <4>3, ScaleDown DEF new
        <5> QED BY <2>3, <2>5, <4>3, <5>1 DEF HeldAtZero
      <4> QED BY <2>1, <4>2, <4>3 DEF WorkloadObject, Counts
    <3> QED BY <3>1, <3>2
  <2> QED BY <2>3, <2>4, <2>6 DEF HeldAtZero
<1>2. ASSUME NEW w \in Workloads, NEW n \in Counts, UserScales(w, n) PROVE HeldAtZero'
  BY <1>2 DEF UserScales, HeldAtZero, TypeOK
<1>3. ASSUME NEW w \in Workloads, PodsMove(w) \/ PodFails(w) PROVE HeldAtZero'
  <2>1. had' = had
    BY <1>3 DEF PodsMove, PodFails, historyVars
  <2>2. \A v \in Workloads : /\ object'[v].replicas = object[v].replicas
                            /\ object'[v].annotation = object[v].annotation
    BY <1>3, PodsOnly
  <2> QED BY <2>1, <2>2 DEF HeldAtZero
<1>4. CASE UNCHANGED <<object, had>>
  BY <1>4 DEF HeldAtZero
<1>5. \/ \E w \in Workloads : \/ ScaleWorkload(w) \/ PodsMove(w) \/ PodFails(w)
                            \/ \E n \in Counts : UserScales(w, n)
      \/ UNCHANGED <<object, had>>
  BY DEF Next, PassStep, EnvironmentStep, BeginPass, HoldCompanion, EnterStage, LeaveStage,
     ReleaseCompanion, SaveStatus, AbortPass, Flip, UserToggles, CacheSync, vars, clusterVars,
     historyVars
<1> QED BY <1>1, <1>2, <1>3, <1>4, <1>5

\* A workload CostDeck took down always carries the count it had, for every
\* number of workloads, stages, flips of the schedule, edits and faults, as long
\* as the engine's reads are up to date (scaleResource, setReplicas).
THEOREM CountIsRemembered ==
  ASSUME ~CacheLags
  PROVE  Spec => []CountRemembered
<1>1. Init => HeldAtZero
  BY DEF Init, HeldAtZero, NoOriginals
<1>2. TypeOK /\ HeldAtZero /\ [Next]_vars => HeldAtZero'
  BY HeldStep
<1>3. HeldAtZero => CountRemembered
  BY DEF HeldAtZero, CountRemembered
<1> QED BY <1>1, <1>2, <1>3, Typing, PTL DEF Spec

-----------------------------------------------------------------------------
\* Every step is a step of the contract or leaves the counts alone.
LEMMA ContractStep ==
  ASSUME ~CacheLags, TypeOK, [Next]_vars
  PROVE  [Contract!Next]_Contract!contractVars
<1> DEFINE count == [w \in Workloads |-> object[w].replicas]
           owed == [w \in Workloads |-> object[w].annotation]
<1>1. ASSUME NEW w \in Workloads, ScaleWorkload(w)
      PROVE  [Contract!Next]_Contract!contractVars
  <2> DEFINE new == scaleResource(object[w], active, originals[w])
  <2>1. /\ object[w] \in WorkloadObject /\ originals[w] \in Counts /\ active \in BOOLEAN
    BY DEF TypeOK
  <2>2. object' = [object EXCEPT ![w] = new]
    BY <1>1, FreshStep
  <2>3. /\ count' = [count EXCEPT ![w] = new.replicas]
        /\ owed' = [owed EXCEPT ![w] = new.annotation]
    BY <2>2 DEF TypeOK
  <2>4. /\ count[w] = object[w].replicas /\ owed[w] = object[w].annotation
    OBVIOUS
  <2>5. new.replicas \in Counts
    BY <2>1, ScaleResourceType DEF WorkloadObject
  <2> HIDE DEF new, count, owed
  <2>6. CASE active
    <3>1. /\ new.replicas > 0 /\ new.annotation = 0
          /\ new.replicas >= count[w] /\ new.replicas >= owed[w]
      BY <2>1, <2>4, <2>6, ScaleUp DEF new
    <3>2. Contract!GiveBack(w)
      BY <2>3, <2>5, <3>1 DEF Contract!GiveBack, Contract!Counts, Counts, count, owed
    <3> QED BY <3>2 DEF Contract!Next
  <2>7. CASE ~active /\ object[w].replicas > 0
    <3>1. new.replicas = 0 /\ new.annotation = count[w]
      BY <2>1, <2>4, <2>7, ScaleDown DEF new
    <3>2. Contract!SetAside(w)
      BY <2>3, <2>4, <2>7, <3>1 DEF Contract!SetAside, count, owed
    <3> QED BY <3>2 DEF Contract!Next
  <2>8. CASE ~active /\ object[w].replicas = 0
    <3>1. new = object[w]
      BY <2>1, <2>8, ScaleDown DEF new
    <3>2. object' = object
      BY <2>2, <3>1 DEF TypeOK
    <3> QED BY <3>2 DEF Contract!contractVars
  <2> QED BY <2>1, <2>6, <2>7, <2>8 DEF WorkloadObject, Counts
<1>2. ASSUME NEW w \in Workloads, NEW n \in Counts, UserScales(w, n)
      PROVE  [Contract!Next]_Contract!contractVars
  <2>1. /\ count' = [count EXCEPT ![w] = n]
        /\ owed' = owed
    BY <1>2 DEF UserScales, TypeOK, WorkloadObject
  <2>2. Contract!Edit(w)
    BY <2>1 DEF Contract!Edit, Contract!Counts, Counts
  <2> QED BY <2>2 DEF Contract!Next
<1>3. ASSUME NEW w \in Workloads, PodsMove(w) \/ PodFails(w)
      PROVE  [Contract!Next]_Contract!contractVars
  <2>1. count' = count /\ owed' = owed
    BY <1>3, PodsOnly
  <2> QED BY <2>1 DEF Contract!contractVars
<1>4. CASE object' = object
  BY <1>4 DEF Contract!contractVars
<1>5. \/ \E w \in Workloads : \/ ScaleWorkload(w) \/ PodsMove(w) \/ PodFails(w)
                            \/ \E n \in Counts : UserScales(w, n)
      \/ object' = object
  BY DEF Next, PassStep, EnvironmentStep, BeginPass, HoldCompanion, EnterStage, LeaveStage,
     ReleaseCompanion, SaveStatus, AbortPass, Flip, UserToggles, CacheSync, vars, clusterVars,
     historyVars
<1> QED BY <1>1, <1>2, <1>3, <1>4, <1>5

\* The engine, with all its passes, interruptions and users, implements the
\* contract a workload's owner can rely on: set aside with a debt, given back
\* in full (ScaleTarget as a whole, reads up to date).
THEOREM ContractIsKept ==
  ASSUME ~CacheLags
  PROVE  Spec => KeepsContract
<1>1. Init => Contract!Init
  <2> SUFFICES ASSUME Init PROVE Contract!Init
    OBVIOUS
  <2>1. object \in [Workloads -> {o \in WorkloadObject : o.annotation = 0 /\ o.pods = o.replicas}]
    BY DEF Init
  <2> QED BY <2>1 DEF Contract!Init, Contract!Counts, Counts, WorkloadObject
<1>2. TypeOK /\ [Next]_vars => [Contract!Next]_Contract!contractVars
  BY ContractStep
<1> QED BY <1>1, <1>2, Typing, PTL DEF Spec, KeepsContract, Contract!Spec

-----------------------------------------------------------------------------
\* Every set of natural numbers has a least one.
LEMMA LeastNatural ==
  ASSUME NEW S \in SUBSET Nat, S # {}
  PROVE  \E m \in S : \A n \in S : m <= n
<1> DEFINE R == OpToRel(<, Nat)
<1>1. IsWellFoundedOn(R, Nat)
  BY NatLessThanWellFounded
<1>2. \A x, y \in Nat : <<x, y>> \in R <=> x < y
  BY DEF OpToRel
<1> HIDE DEF R
<1>3. PICK m \in S : \A n \in S : ~(<<n, m>> \in R)
  BY <1>1, WFMin
<1>4. ASSUME NEW n \in S PROVE m <= n
  <2>1. m \in Nat /\ n \in Nat
    OBVIOUS
  <2>2. ~(n < m)
    BY <2>1, <1>2, <1>3
  <2> QED BY <2>1, <2>2
<1> QED BY <1>4

\* Every finite set of natural numbers has a greatest one: a least
\* counterexample would have one, its other elements' or the one left out.
LEMMA GreatestNatural ==
  ASSUME NEW S \in SUBSET Nat, IsFiniteSet(S), S # {}
  PROVE  \E m \in S : \A n \in S : n <= m
<1> DEFINE R == StrictSubsetOrdering(S)
           Bad == {T \in SUBSET S : T # {} /\ ~\E m \in T : \A n \in T : n <= m}
<1>1. IsWellFoundedOn(R, SUBSET S)
  BY FS_StrictSubsetOrderingWellFounded, FS_FiniteSubsetsOfFinite
<1>2. ASSUME NEW T \in SUBSET S, NEW U \in SUBSET S
      PROVE  <<T, U>> \in R <=> T \subseteq U /\ T # U
  BY DEF StrictSubsetOrdering
<1> HIDE DEF R
<1>3. SUFFICES ASSUME Bad # {} PROVE FALSE
  OBVIOUS
<1>4. PICK T \in Bad : \A U \in Bad : ~(<<U, T>> \in R)
  BY <1>1, <1>3, WFMin
<1>5. PICK x \in T : TRUE
  OBVIOUS
<1>6. T \ {x} \notin Bad
  <2>1. T \in SUBSET S /\ T \ {x} \in SUBSET S
    OBVIOUS
  <2>2. <<T \ {x}, T>> \in R
    BY <1>2, <1>5, <2>1
  <2> QED BY <1>4, <2>2
<1>7. CASE T \ {x} = {}
  BY <1>5, <1>7
<1>8. CASE T \ {x} # {}
  <2>1. PICK m \in T \ {x} : \A n \in T \ {x} : n <= m
    BY <1>6, <1>8
  <2>2. x \in Nat /\ m \in Nat
    OBVIOUS
  <2>3. CASE x <= m
    BY <2>1, <2>3
  <2>4. CASE m < x
    <3>1. \A n \in T : n <= x
      BY <2>1, <2>2, <2>4
    <3> QED BY <3>1
  <2> QED BY <2>2, <2>3, <2>4
<1> QED BY <1>7, <1>8

\* The stages are finitely many natural numbers.
LEMMA StagesFinite == Stages \in SUBSET Nat /\ IsFiniteSet(Stages) /\ Stages # {}
<1>1. Stage \in Surjection(Workloads, Stages)
  BY ConstantsAssumption DEF Surjection, Stages
<1>2. IsFiniteSet(Stages)
  BY <1>1, ConstantsAssumption, FS_Surjection
<1> QED BY <1>2, ConstantsAssumption DEF Stages

\* nextStage takes the first of the stages that remain on the way up and the
\* last on the way down (groupAndSortPriorities).
LEMMA NextStageIsNext ==
  ASSUME NEW stages \in SUBSET Stages, stages # {}, NEW up \in BOOLEAN
  PROVE  /\ nextStage(stages, up) \in stages
         /\ \A t \in stages : IF up THEN nextStage(stages, up) <= t
                                    ELSE t <= nextStage(stages, up)
<1>1. stages \in SUBSET Nat /\ IsFiniteSet(stages)
  BY StagesFinite, FS_Subset
<1>2. \E s \in stages : \A t \in stages : IF up THEN s <= t ELSE t <= s
  <2>1. CASE up
    <3>1. PICK s \in stages : \A t \in stages : s <= t
      BY <1>1, LeastNatural
    <3> QED BY <2>1, <3>1
  <2>2. CASE ~up
    <3>1. PICK s \in stages : \A t \in stages : t <= s
      BY <1>1, GreatestNatural
    <3> QED BY <2>2, <3>1
  <2> QED BY <2>1, <2>2
<1> QED BY <1>2 DEF nextStage

-----------------------------------------------------------------------------
(* Where a pass is: what it has behind it and what it still has before it.  *)

\* The stages that remain and the work in hand go with the step the pass is at.
PassShape ==
    /\ pc = "hold" => ~active /\ left = Stages
    /\ pc \in {"enter", "scale"} => left # {}
    /\ pc = "scale" => todo \subseteq InStage(nextStage(left, active))
    /\ pc = "release" => active /\ left = {}

\* What an up pass has dealt with is unannotated.
Swept ==
    active /\ pc \in {"enter", "scale", "release"} =>
      \A w \in Workloads :
        \/ Stage[w] \notin left
        \/ pc = "scale" /\ Stage[w] = nextStage(left, active) /\ w \notin todo
        => object[w].annotation = 0

\* What it has yet to deal with it restores from the stored counts.
Recorded ==
    active /\ pc \in {"enter", "scale"} =>
      \A w \in Workloads : Stage[w] \in left => originals[w] = status[w]

\* The stages behind a pass that has not run out of time are where it wants
\* them, apart from what was disturbed.
BehindIsReady ==
    ~timedOut /\ pc \in {"hold", "enter", "scale", "release"} =>
      \A w \in Workloads \ disturbed :
        Stage[w] \notin left => isResourceReady(object[w], active)

\* On the way down the companions are held before any stage is.
CompanionsHeld ==
    /\ pc = "hold" => \A c \in Companions \ (todo \cup disturbed) : companion[c].stopped
    /\ ~active /\ pc \in {"enter", "scale"} =>
         \A c \in Companions \ disturbed : companion[c].stopped

PassInv == PassShape /\ Swept /\ Recorded /\ BehindIsReady /\ CompanionsHeld

\* In a scaling step the stage is one of those that remain, and every other
\* stage of the remaining ones comes after it.
LEMMA StageInHand ==
  ASSUME TypeOK, PassShape, pc \in {"enter", "scale"}
  PROVE  /\ nextStage(left, active) \in left
         /\ \A t \in left : IF active THEN nextStage(left, active) <= t
                                      ELSE t <= nextStage(left, active)
BY NextStageIsNext DEF TypeOK, PassShape

\* Bringing pods closer to the count, or undoing nothing else, leaves a ready
\* workload ready.
LEMMA PodsMoveKeepsReady ==
  ASSUME TypeOK, NEW w \in Workloads, PodsMove(w), NEW v \in Workloads, NEW up \in BOOLEAN,
         isResourceReady(object[v], up)
  PROVE  isResourceReady(object'[v], up)
<1>1. PICK p \in Counts :
        /\ p \in (object[w].pods + 1)..object[w].replicas
           \/ p \in object[w].replicas..(object[w].pods - 1)
        /\ object' = [object EXCEPT ![w].pods = p]
  BY DEF PodsMove
<1>2. /\ object[w].pods \in Nat /\ object[w].replicas \in Nat /\ p \in Nat
      /\ object'[w].pods = p /\ object'[w].replicas = object[w].replicas
      /\ v # w => object'[v] = object[v]
  BY <1>1, ConstantsAssumption DEF TypeOK, WorkloadObject, Counts
<1>3. CASE v = w
  BY <1>1, <1>2, <1>3 DEF isResourceReady
<1> QED BY <1>2, <1>3

LEMMA PassInvInit == Init => PassInv
BY DEF Init, PassInv, PassShape, Swept, Recorded, BehindIsReady, CompanionsHeld

\* One write of an up or a down pass.
LEMMA PassInvScale ==
  ASSUME ~CacheLags, TypeOK, PassInv, NEW w \in Workloads, ScaleWorkload(w)
  PROVE  PassInv'
<1> DEFINE new == scaleResource(object[w], active, originals[w])
           s == nextStage(left, active)
<1>1. /\ object' = [object EXCEPT ![w] = new]
      /\ object'[w] = new
      /\ \A v \in Workloads \ {w} : object'[v] = object[v]
  BY FreshStep DEF TypeOK
<1>2. /\ UNCHANGED <<companion, status, pc, active, timedOut, left, disturbed>>
      /\ pc = "scale" /\ w \in todo /\ todo' = todo \ {w}
      /\ left # {} /\ todo \subseteq InStage(s) /\ Stage[w] = s /\ active \in BOOLEAN
  BY DEF ScaleWorkload, PassInv, PassShape, TypeOK, InStage
<1>3. s \in left
  BY <1>2, StageInHand DEF PassInv
<1>4. PassShape'
  BY <1>2 DEF PassShape, InStage
<1>5. Swept'
  <2> SUFFICES ASSUME active, NEW v \in Workloads,
                      Stage[v] \notin left \/ (Stage[v] = s /\ v \notin todo \ {w})
               PROVE  object'[v].annotation = 0
    BY <1>2 DEF Swept
  <2>1. CASE v = w
    <3>1. object[w] \in WorkloadObject /\ originals[w] \in Counts /\ active = TRUE
      BY DEF TypeOK
    <3>2. new.annotation = 0
      BY <3>1, ScaleUp
    <3> QED BY <1>1, <2>1, <3>2
  <2>2. CASE v # w
    BY <1>1, <1>2, <2>2 DEF PassInv, Swept
  <2> QED BY <2>1, <2>2
<1>6. Recorded'
  <2> SUFFICES ASSUME active PROVE originals' = originals
    BY <1>2 DEF PassInv, Recorded
  <2> QED BY DEF ScaleWorkload, recordOf
<1>7. BehindIsReady'
  <2> SUFFICES ASSUME ~timedOut, NEW v \in Workloads \ disturbed, Stage[v] \notin left
               PROVE  isResourceReady(object'[v], active)
    BY <1>2 DEF BehindIsReady
  <2>1. v # w
    BY <1>2, <1>3
  <2> QED BY <1>1, <1>2, <2>1 DEF PassInv, BehindIsReady
<1>8. CompanionsHeld'
  BY <1>2 DEF PassInv, CompanionsHeld
<1> QED BY <1>4, <1>5, <1>6, <1>7, <1>8 DEF PassInv

\* A stage that is found or has become ready joins those behind the pass.
LEMMA PassInvAdvance ==
  ASSUME ~CacheLags, TypeOK, PassInv, pc \in {"enter", "scale"} \/ (pc = "hold" /\ todo = {}),
         NEW s, s = nextStage(left, active),
         active => pc = "scale" /\ todo = {},
         isGroupReady(s) \/ timedOut, Advance(left \ {s}),
         \A w \in Workloads : Stage[w] # s => originals'[w] = originals[w],
         UNCHANGED <<object, companion, status, active, timedOut, disturbed>>
  PROVE  PassInv'
<1>1. /\ left' = left \ {s}
      /\ pc' = IF left' # {} THEN "enter" ELSE IF active THEN "release" ELSE "save"
  BY DEF Advance
<1>2. PassShape'
  BY <1>1 DEF PassShape
<1>3. Swept'
  BY <1>1 DEF PassInv, Swept
<1>4. Recorded'
  BY <1>1 DEF PassInv, Recorded
<1>5. BehindIsReady'
  <2> SUFFICES ASSUME ~timedOut, NEW v \in Workloads \ disturbed, Stage[v] \notin left \ {s}
               PROVE  isResourceReady(object[v], active)
    BY <1>1 DEF BehindIsReady
  <2>1. CASE Stage[v] = s
    BY <2>1 DEF isGroupReady, InStage, Read
  <2>2. CASE Stage[v] # s
    BY <2>2 DEF PassInv, BehindIsReady
  <2> QED BY <2>1, <2>2
<1>6. CompanionsHeld'
  BY <1>1 DEF PassInv, PassShape, CompanionsHeld
<1> QED BY <1>2, <1>3, <1>4, <1>5, <1>6 DEF PassInv

\* Every step keeps the account a pass has of what is behind it.
LEMMA PassInvStep ==
  ASSUME ~CacheLags, TypeOK, PassInv, [Next]_vars
  PROVE  PassInv'
<1>1. CASE BeginPass
  BY <1>1, StagesFinite
  DEF BeginPass, clusterVars, TypeOK, PassInv, PassShape, Swept, Recorded, BehindIsReady,
      CompanionsHeld, Stages
<1>2. CASE HoldCompanion
  <2> PICK c \in todo :
        /\ companion' = [companion EXCEPT ![c] = hold(@)]
        /\ todo' = todo \ {c}
    BY <1>2 DEF HoldCompanion
  <2>1. pc = "hold" /\ UNCHANGED <<object, status, pc, active, timedOut, originals, left, disturbed>>
    BY <1>2 DEF HoldCompanion
  <2>2. PassShape' /\ Swept' /\ Recorded' /\ BehindIsReady'
    BY <2>1 DEF PassInv, PassShape, Swept, Recorded, BehindIsReady
  <2>3. CompanionsHeld'
    BY <2>1 DEF PassInv, PassShape, CompanionsHeld, hold, TypeOK, CompanionObject
  <2> QED BY <2>2, <2>3 DEF PassInv
<1>3. CASE EnterStage
  <2> DEFINE s == nextStage(left, active)
  <2>1. /\ pc = "enter" \/ (pc = "hold" /\ todo = {})
        /\ UNCHANGED <<object, companion, status, active, timedOut, originals, disturbed>>
    BY <1>3 DEF EnterStage, clusterVars, historyVars
  <2>2. CASE isGroupReady(s) /\ ~active /\ Advance(left \ {s})
    <3> HIDE DEF s
    <3> QED BY <2>1, <2>2, PassInvAdvance DEF s
  <2>3. CASE pc' = "scale" /\ todo' = InStage(s) /\ left' = left
    <3>1. left # {}
      BY <2>1, StagesFinite DEF PassInv, PassShape
    <3>2. PassShape'
      BY <2>1, <2>3, <3>1 DEF PassShape
    <3>3. Swept'
      BY <2>1, <2>3 DEF PassInv, PassShape, Swept, InStage
    <3>4. Recorded' /\ BehindIsReady' /\ CompanionsHeld'
      BY <2>1, <2>3 DEF PassInv, PassShape, Recorded, BehindIsReady, CompanionsHeld
    <3> QED BY <3>2, <3>3, <3>4 DEF PassInv
  <2> QED BY <1>3, <2>2, <2>3 DEF EnterStage
<1>4. ASSUME NEW w \in Workloads, ScaleWorkload(w) PROVE PassInv'
  BY <1>4, PassInvScale
<1>5. CASE LeaveStage
  <2> DEFINE s == nextStage(left, active)
  <2>1. /\ pc = "scale" /\ todo = {}
        /\ UNCHANGED <<object, companion, status, active, timedOut, disturbed>>
    BY <1>5 DEF LeaveStage, clusterVars, historyVars
  <2>2. \A w \in Workloads : Stage[w] # s => originals'[w] = originals[w]
    BY <1>5 DEF LeaveStage, cleanupOriginals
  <2>3. CASE Advance(left \ {s}) /\ (isGroupReady(s) \/ timedOut)
    <3> HIDE DEF s
    <3> QED BY <2>1, <2>2, <2>3, PassInvAdvance DEF s
  <2>4. CASE pc' = "save"
    BY <2>1, <2>4 DEF PassInv, PassShape, Swept, Recorded, BehindIsReady, CompanionsHeld
  <2> QED BY <1>5, <2>3, <2>4 DEF LeaveStage
<1>6. CASE ReleaseCompanion
  <2>1. pc = "release"
        /\ UNCHANGED <<object, status, pc, active, timedOut, originals, left, disturbed>>
    BY <1>6 DEF ReleaseCompanion
  <2> QED BY <2>1 DEF PassInv, PassShape, Swept, Recorded, BehindIsReady, CompanionsHeld
<1>7. CASE SaveStatus \/ AbortPass
  <2>1. pc' = "idle"
    BY <1>7 DEF SaveStatus, AbortPass, PassOver
  <2> QED BY <2>1 DEF PassInv, PassShape, Swept, Recorded, BehindIsReady, CompanionsHeld
<1>8. CASE Flip \/ (\E w \in Workloads : CacheSync(w)) \/ UNCHANGED vars
  <2>1. UNCHANGED <<object, companion, status, passVars, disturbed>>
    BY <1>8 DEF Flip, CacheSync, vars, clusterVars, historyVars
  <2> QED BY <2>1 DEF passVars, PassInv, PassShape, Swept, Recorded, BehindIsReady,
                      CompanionsHeld
<1>9. ASSUME NEW w \in Workloads, NEW n \in Counts, UserScales(w, n) PROVE PassInv'
  <2>1. /\ UNCHANGED <<companion, status, passVars>>
        /\ disturbed' = IF pc = "idle" THEN disturbed ELSE disturbed \cup {w}
        /\ \A v \in Workloads : /\ object'[v].annotation = object[v].annotation
                                /\ v # w => object'[v] = object[v]
    BY <1>9 DEF UserScales, TypeOK, WorkloadObject
  <2> QED BY <2>1 DEF passVars, PassInv, PassShape, Swept, Recorded, BehindIsReady,
                      CompanionsHeld
<1>10. ASSUME NEW c \in Companions, UserToggles(c) PROVE PassInv'
  <2>1. /\ UNCHANGED <<object, status, passVars>>
        /\ disturbed' = IF pc = "idle" THEN disturbed ELSE disturbed \cup {c}
        /\ \A d \in Companions : d # c => companion'[d] = companion[d]
    BY <1>10 DEF UserToggles, TypeOK, CompanionObject
  <2> QED BY <2>1 DEF passVars, PassInv, PassShape, Swept, Recorded, BehindIsReady,
                      CompanionsHeld
<1>11. ASSUME NEW w \in Workloads, PodsMove(w) PROVE PassInv'
  <2>1. UNCHANGED <<companion, status, passVars, disturbed>>
    BY <1>11 DEF PodsMove, historyVars
  <2>2. \A v \in Workloads : object'[v].annotation = object[v].annotation
    BY <1>11, PodsOnly
  <2>3. BehindIsReady'
    BY <1>11, <2>1, PodsMoveKeepsReady DEF passVars, PassInv, BehindIsReady, TypeOK
  <2> QED BY <2>1, <2>2, <2>3 DEF passVars, PassInv, PassShape, Swept, Recorded, CompanionsHeld
<1>12. ASSUME NEW w \in Workloads, PodFails(w) PROVE PassInv'
  <2>1. /\ UNCHANGED <<companion, status, passVars>>
        /\ disturbed' = IF pc = "idle" THEN disturbed ELSE disturbed \cup {w}
        /\ \A v \in Workloads : v # w => object'[v] = object[v]
    BY <1>12 DEF PodFails, TypeOK, WorkloadObject
  <2>2. \A v \in Workloads : object'[v].annotation = object[v].annotation
    BY <1>12, PodsOnly
  <2> QED BY <2>1, <2>2 DEF passVars, PassInv, PassShape, Swept, Recorded, BehindIsReady,
                           CompanionsHeld
<1> QED
  BY <1>1, <1>2, <1>3, <1>4, <1>5, <1>6, <1>7, <1>8, <1>9, <1>10, <1>11, <1>12
  DEF Next, PassStep, EnvironmentStep

\* The account holds in every state, with reads that are up to date.
THEOREM PassAccount ==
  ASSUME ~CacheLags
  PROVE  Spec => []PassInv
<1>1. TypeOK /\ PassInv /\ [Next]_vars => PassInv'
  BY PassInvStep
<1> QED BY <1>1, PassInvInit, Typing, PTL DEF Spec

\* Once an up pass has been through every stage no workload is annotated, for
\* every number of stages and whoever interferes (scalePriorityGroup).
THEOREM NothingIsLeftBehind ==
  ASSUME ~CacheLags
  PROVE  Spec => []NothingLeftBehind
<1>1. PassInv => NothingLeftBehind
  BY DEF PassInv, PassShape, Swept, NothingLeftBehind
<1> QED BY <1>1, PassAccount, PTL

\* A workload the engine starts from zero gets back its count, annotated or
\* stored (recordedReplicas, targetReplicas).
THEOREM StartsAreInFull ==
  ASSUME ~CacheLags
  PROVE  Spec => RestoredInFull
<1> DEFINE Full == \A w \in Workloads :
        OperatorScales /\ object[w].replicas = 0 /\ object'[w].replicas > 0
        => object'[w].replicas >= IF object[w].annotation > 0 THEN object[w].annotation
                                                              ELSE status[w]
<1>1. ASSUME TypeOK, PassInv, [Next]_vars PROVE Full
  <2> SUFFICES ASSUME NEW w \in Workloads, OperatorScales,
                      object[w].replicas = 0, object'[w].replicas > 0
               PROVE  object'[w].replicas >= IF object[w].annotation > 0
                                             THEN object[w].annotation ELSE status[w]
    OBVIOUS
  <2>1. ScaleWorkload(w)
    <3>1. object' # object
      OBVIOUS
    <3>2. PICK v \in Workloads : ScaleWorkload(v)
      BY <1>1, <3>1 DEF OperatorScales, Next, PassStep, EnvironmentStep, BeginPass,
         HoldCompanion, EnterStage, LeaveStage, ReleaseCompanion, SaveStatus, AbortPass, Flip,
         UserScales, UserToggles, PodsMove, PodFails, CacheSync, vars, clusterVars, passVars
    <3>3. v = w
      BY <1>1, <3>2, FreshStep DEF TypeOK
    <3> QED BY <3>2, <3>3
  <2> DEFINE new == scaleResource(object[w], active, originals[w])
  <2>2. object'[w] = new /\ object[w] \in WorkloadObject /\ originals[w] \in Counts
    BY <1>1, <2>1, FreshStep DEF TypeOK
  <2>3. active = TRUE
    <3>1. active = FALSE => new = object[w]
      BY <2>2, ScaleDown
    <3> QED BY <1>1, <2>2, <3>1 DEF TypeOK
  <2>4. originals[w] = status[w]
    BY <1>1, <2>1, <2>3, StageInHand DEF PassInv, PassShape, Recorded, ScaleWorkload, InStage
  <2>5. new.replicas >= IF object[w].annotation > 0 THEN object[w].annotation
                                                    ELSE originals[w]
    BY <2>2, <2>3, ConstantsAssumption
    DEF scaleResource, setReplicas, recordOf, targetReplicas, recordedReplicas,
        WorkloadObject, Counts
  <2> QED BY <2>2, <2>4, <2>5
<1> QED BY <1>1, Typing, PassAccount, PTL DEF Spec, RestoredInFull

\* Nothing is moved before its turn: workloads stage by stage, companions
\* stopped before anything is and handed back after everything is up
\* (ScaleTarget, holdCompanions, releaseCompanions).
THEOREM TurnsAreKept ==
  ASSUME ~CacheLags
  PROVE  Spec => StagesInOrder
<1>1. ASSUME TypeOK, PassInv, [Next]_vars PROVE WorkloadsInOrder /\ CompanionsFrame
  <2>1. ASSUME OperatorScales, NEW v \in Workloads, object'[v].replicas # object[v].replicas
        PROVE  ScaleWorkload(v)
    <3>1. object' # object
      BY <2>1
    <3>2. PICK w \in Workloads : ScaleWorkload(w)
      BY <1>1, <2>1, <3>1 DEF OperatorScales, Next, PassStep, EnvironmentStep, BeginPass,
         HoldCompanion, EnterStage, LeaveStage, ReleaseCompanion, SaveStatus, AbortPass, Flip,
         UserScales, UserToggles, PodsMove, PodFails, CacheSync, vars, clusterVars, passVars
    <3>3. v = w
      BY <1>1, <2>1, <3>2, FreshStep DEF TypeOK
    <3> QED BY <3>2, <3>3
  <2>2. WorkloadsInOrder
    <3> SUFFICES ASSUME NEW v \in Workloads, OperatorScales, ~timedOut,
                        object'[v].replicas # object[v].replicas,
                        NEW w \in Workloads \ disturbed, Comes(w, v)
                 PROVE  isResourceReady(object[w], active)
      BY DEF WorkloadsInOrder
    <3>1. pc = "scale" /\ v \in todo
      BY <2>1 DEF ScaleWorkload
    <3>2. Stage[v] = nextStage(left, active)
      BY <1>1, <3>1 DEF PassInv, PassShape, InStage
    <3>3. Stage[w] \notin left
      BY <1>1, <3>1, <3>2, StageInHand, ConstantsAssumption DEF PassInv, Comes, TypeOK
    <3> QED BY <1>1, <3>1, <3>3 DEF PassInv, BehindIsReady
  <2>3. ASSUME NEW w \in Workloads, OperatorScales, object[w].replicas > 0,
               object'[w].replicas = 0
        PROVE  \A c \in Companions \ disturbed : companion[c].stopped
    <3>1. ScaleWorkload(w)
      BY <1>1, <2>1, <2>3
    <3>2. /\ object'[w] = scaleResource(object[w], active, originals[w])
          /\ object[w] \in WorkloadObject /\ originals[w] \in Counts /\ active \in BOOLEAN
      BY <1>1, <3>1, FreshStep DEF TypeOK
    <3>3. ~active
      <4>1. active = TRUE => scaleResource(object[w], active, originals[w]).replicas > 0
        BY <3>2, ScaleUp
      <4> QED BY <2>3, <3>2, <4>1
    <3> QED BY <1>1, <3>1, <3>3 DEF PassInv, CompanionsHeld, ScaleWorkload
  <2>4. ASSUME pc = "release", ~timedOut
        PROVE  \A w \in Workloads \ disturbed : isResourceReady(object[w], TRUE)
    BY <1>1, <2>4 DEF PassInv, PassShape, BehindIsReady, TypeOK
  <2> QED BY <2>2, <2>3, <2>4 DEF CompanionsFrame
<1> QED BY <1>1, Typing, PassAccount, PTL DEF Spec, StagesInOrder
=============================================================================
