--------------------------- MODULE GroupStagesProofs ---------------------------
(***************************************************************************)
(* Theorems about GroupStages for any namespaces, cloud resources and      *)
(* specs, any number of faults and changes and any time: targets begin to  *)
(* move in the order of their stages, what stands around the workloads     *)
(* moves in its turn, and a group that is gone has given everything back.  *)
(***************************************************************************)
EXTENDS GroupStages, FiniteSetTheorems, TLAPS

-----------------------------------------------------------------------------
(* The stages.                                                              *)

Count(active) == Len(Stages(active))

\* The stages are numbered from one and share no target.
LEMMA StagesShape ==
  ASSUME spec \in Specs, NEW active \in BOOLEAN
  PROVE  /\ Stages(active) \in Seq(SUBSET Targets)
         /\ Count(active) \in Nat /\ DOMAIN Stages(active) = 1..Count(active)
         /\ \A i, j \in DOMAIN Stages(active) :
                i # j => Stages(active)[i] \cap Stages(active)[j] = {}
<1> DEFINE missing == Namespaces \ UNION {spec.seq[i] : i \in DOMAIN spec.seq}
           stages == IF missing = {} THEN spec.seq ELSE Append(spec.seq, missing)
<1>1. /\ spec.seq \in Seq(SUBSET Targets)
      /\ \A i, j \in DOMAIN spec.seq : i # j => spec.seq[i] \cap spec.seq[j] = {}
  BY StageAssumption
<1>2. missing \in SUBSET Targets /\ \A i \in DOMAIN spec.seq : spec.seq[i] \cap missing = {}
  BY DEF Targets
<1> HIDE DEF missing
<1>3. /\ stages \in Seq(SUBSET Targets)
      /\ \A i, j \in DOMAIN stages : i # j => stages[i] \cap stages[j] = {}
  <2>1. CASE missing = {}
    BY <1>1, <2>1
  <2>2. CASE missing # {}
    <3>1. stages = Append(spec.seq, missing)
      BY <2>2
    <3> QED BY <1>1, <1>2, <3>1
  <2> QED BY <2>1, <2>2
<1>4. Stages(active) = IF active THEN stages ELSE Reverse(stages)
  BY DEF Stages, missing
<1> HIDE DEF stages
<1>5. CASE active
  BY <1>3, <1>4, <1>5 DEF Count
<1>6. CASE ~active
  <2>1. PICK n \in Nat : n = Len(stages) /\ DOMAIN stages = 1..n
    BY <1>3
  <2>2. Stages(active) = [i \in 1..n |-> stages[n - i + 1]]
    BY <1>4, <1>6, <2>1 DEF Reverse
  <2>3. \A i \in 1..n : n - i + 1 \in 1..n
    BY <2>1
  <2>4. Stages(active) \in [1..n -> SUBSET Targets]
    BY <1>3, <2>1, <2>2, <2>3
  <2>5. Stages(active) \in Seq(SUBSET Targets) /\ Len(Stages(active)) = n
    BY <2>1, <2>4
  <2>6. \A i, j \in 1..n : i # j => n - i + 1 # n - j + 1
    BY <2>1
  <2>7. \A i, j \in 1..n : i # j => Stages(active)[i] \cap Stages(active)[j] = {}
    <3> TAKE i, j \in 1..n
    <3> HAVE i # j
    <3>1. /\ Stages(active)[i] = stages[n - i + 1]
          /\ Stages(active)[j] = stages[n - j + 1]
      BY <2>2
    <3>2. n - i + 1 \in DOMAIN stages /\ n - j + 1 \in DOMAIN stages
      BY <2>1, <2>3
    <3>3. n - i + 1 # n - j + 1
      BY <2>6
    <3> QED BY <1>3, <3>1, <3>2, <3>3, Zenon
  <2> QED BY <2>1, <2>4, <2>5, <2>7 DEF Count
<1> QED BY <1>5, <1>6

\* Every namespace of the group is in a stage.
LEMMA StagesCover ==
  ASSUME spec \in Specs, NEW active \in BOOLEAN, NEW n \in Namespaces
  PROVE  \E i \in DOMAIN Stages(active) : n \in Stages(active)[i]
<1> DEFINE missing == Namespaces \ UNION {spec.seq[i] : i \in DOMAIN spec.seq}
           stages == IF missing = {} THEN spec.seq ELSE Append(spec.seq, missing)
<1>1. PICK len \in Nat : spec.seq \in Seq(SUBSET Targets) /\ len = Len(spec.seq) /\ DOMAIN spec.seq = 1..len
  BY StageAssumption
<1>2. n \in missing \/ \E i \in 1..len : n \in spec.seq[i]
  BY <1>1
<1>3. missing \in SUBSET Targets
  BY DEF Targets
<1>4. Stages(active) = IF active THEN stages ELSE Reverse(stages)
  BY DEF Stages
<1> HIDE DEF missing
<1>5. stages \in Seq(SUBSET Targets) /\ \E i \in 1..Len(stages) : n \in stages[i]
  <2>1. CASE missing = {}
    BY <1>1, <1>2, <2>1
  <2>2. CASE missing # {}
    <3>1. stages = Append(spec.seq, missing)
      BY <2>2
    <3>2. stages \in Seq(SUBSET Targets) /\ Len(stages) = len + 1 /\ stages[len + 1] = missing
      BY <1>1, <1>3, <3>1
    <3>3. \A i \in 1..len : stages[i] = spec.seq[i]
      BY <1>1, <1>3, <3>1
    <3> QED BY <1>1, <1>2, <3>2, <3>3
  <2> QED BY <2>1, <2>2
<1> HIDE DEF stages
<1>6. PICK k \in Nat : k = Len(stages) /\ DOMAIN stages = 1..k
  BY <1>5
<1>7. PICK i \in 1..k : n \in stages[i]
  BY <1>5, <1>6
<1>8. CASE active
  BY <1>4, <1>6, <1>7, <1>8
<1>9. CASE ~active
  <2>1. Stages(active) = [j \in 1..k |-> stages[k - j + 1]]
    BY <1>4, <1>6, <1>9 DEF Reverse
  <2>2. k - i + 1 \in 1..k /\ k - (k - i + 1) + 1 = i
    BY <1>6, <1>7
  <2> QED BY <1>7, <2>1, <2>2
<1> QED BY <1>8, <1>9

LEMMA StageOfIs ==
  ASSUME spec \in Specs, NEW active \in BOOLEAN,
         NEW i \in DOMAIN Stages(active), NEW t \in Stages(active)[i]
  PROVE  StageOf(t, active) = i
<1>1. \A j \in DOMAIN Stages(active) : t \in Stages(active)[j] => j = i
  BY StagesShape
<1> QED BY <1>1 DEF StageOf

\* The stages stay the same while the spec does.
LEMMA SameStages ==
  ASSUME spec' = spec
  PROVE  /\ \A active \in BOOLEAN : Stages(active)' = Stages(active)
         /\ \A active \in BOOLEAN, t \in Targets : StageOf(t, active)' = StageOf(t, active)
<1>1. \A active \in BOOLEAN : Stages(active)' = Stages(active)
  BY DEF Stages
<1> QED BY <1>1 DEF StageOf

\* A set of stages with all those before each of its own has its size for a last member.
LEMMA BeginningOf ==
  ASSUME NEW n \in Nat, NEW P \in SUBSET (1..n),
         \A i \in P : \A j \in 1..i - 1 : j \in P
  PROVE  P = 1..Cardinality(P) /\ Cardinality(P) \in Nat
<1>1. IsFiniteSet(P)
  <2>1. IsFiniteSet(1..n)
    BY FS_Interval
  <2> QED BY <2>1, FS_Subset
<1>2. PICK k \in Nat : k = Cardinality(P)
  BY <1>1, FS_CardinalityType
<1>3. \A i \in P : i <= k
  <2> TAKE i \in P
  <2>1. 1..i \subseteq P /\ i \in Nat
    OBVIOUS
  <2>2. Cardinality(1..i) = i
    BY <2>1, FS_Interval
  <2> QED BY <1>1, <1>2, <2>1, <2>2, FS_Subset
<1>4. P \subseteq 1..k
  BY <1>3
<1>5. Cardinality(1..k) = k /\ IsFiniteSet(1..k)
  BY <1>2, FS_Interval
<1>6. P = 1..k
  BY <1>2, <1>4, <1>5, FS_Subset
<1> QED BY <1>2, <1>6

LEMMA MaxOfTwo ==
  ASSUME NEW a \in Int, NEW b \in Int
  PROVE  Max({a, b}) = IF a >= b THEN a ELSE b
<1>1. CASE a >= b
  <2>1. a \in {a, b} /\ \A y \in {a, b} : a >= y
    BY <1>1
  <2> QED BY <1>1, <2>1 DEF Max
<1>2. CASE ~(a >= b)
  <2>1. b \in {a, b} /\ \A y \in {a, b} : b >= y
    BY <1>2
  <2> QED BY <1>2, <2>1 DEF Max
<1> QED BY <1>1, <1>2

-----------------------------------------------------------------------------
(* Stages in turn.                                                          *)

Phases == {"ScaledUp", "ScaledDown", "ScalingUp", "ScalingDown", "gone"}
StatusSet == [phase : Phases, stage : Nat, since : Int, stopped : SUBSET Clouds]
PassSet == [busy : {TRUE}, stale : BOOLEAN, status : StatusSet]
MovesSet ==
    [active : BOOLEAN, begun : SUBSET Targets, met : SUBSET Targets, late : SUBSET Targets,
     unsure : BOOLEAN, lost : SUBSET (Targets \cup {"git"}), ours : SUBSET Clouds,
     dropped : SUBSET Namespaces, abandoned : BOOLEAN]
Member ==
    [work : {"up", "stopping", "down", "starting"},
     svc : {"up", "stopping", "down", "starting", "off"}, mark : {"none", "stopped", "starting"}]

StageShape ==
    /\ now \in Nat /\ spec \in Specs /\ want \in BOOLEAN
    /\ status \in StatusSet
    /\ pass \in {NoPass} \cup PassSet
    /\ moves \in MovesSet
    /\ ns \in [Namespaces -> Member]

\* The stages that a status says are behind were met, or given up on.
Behind(st, m) ==
    st.phase = InProgress(m.active) =>
        \A j \in DOMAIN Stages(m.active) :
            j <= st.stage => Stages(m.active)[j] \subseteq m.met \cup m.late

\* What StagesInTurn says of an account of the transition.
InTurn(m) ==
    \A t \in m.begun :
        \A j \in 1..StageOf(t, m.active) - 1 : Stages(m.active)[j] \subseteq m.met \cup m.late

\* Unless the group was edited or turned unnoticed, the stored status and the one about to
\* be stored count only stages that the account has as met or given up on.
TurnInv ==
    /\ StageShape
    /\ ~moves.unsure =>
        /\ InTurn(moves)
        /\ Behind(status, moves)
        /\ pass.busy => Behind(pass.status, moves)

LEMMA TurnInit == Init => TurnInv
<1> SUFFICES ASSUME Init PROVE TurnInv
  OBVIOUS
<1>1. StageShape
  <2>1. /\ now \in Nat /\ want \in BOOLEAN /\ pass = NoPass
    BY DEF Init
  <2>2. spec \in Specs
    BY StageAssumption DEF Init
  <2>3. status \in StatusSet
    BY DEF Init, StatusSet, Phases
  <2>4. moves \in MovesSet
    BY DEF Init, MovesSet
  <2>5. ns \in [Namespaces -> Member]
    BY DEF Init, Member
  <2> QED BY <2>1, <2>2, <2>3, <2>4, <2>5 DEF StageShape
<1>2. ~pass.busy /\ moves.begun = {} /\ status.phase # InProgress(moves.active)
  BY DEF Init, NoPass, InProgress
<1> QED BY <1>1, <1>2 DEF TurnInv, InTurn, Behind

-----------------------------------------------------------------------------
\* A pass that begins a transition, and the targets of a pass that are there.
Fresh(active) == status.phase # InProgress(active)
There(active, bad, scaled) ==
    {t \in scaled : Ready(t, active, Late(StageOf(t, active), active), bad)}

\* What a pass makes of the begun, the met, the late and the doubt of the account.
BegunNow(active, scaled) == scaled \cup (IF Fresh(active) THEN {} ELSE moves.begun)
MetNow(active, bad, scaled) ==
    There(active, bad, scaled) \cup (IF Fresh(active) THEN {} ELSE moves.met)
LateNow(active, bad, scaled) ==
    (IF Fresh(active) THEN {} ELSE moves.late) \cup
        {t \in scaled \ There(active, bad, scaled) : spec.skip /\ Late(StageOf(t, active), active)}
UnsureNow(active) == ~Fresh(active) /\ (moves.unsure \/ moves.active # active)

\* What a pass in one direction makes of the account, given the target whose calls fail
\* and those it worked on.
LEMMA AccountTyped ==
  ASSUME StageShape, NEW active \in BOOLEAN, NEW bad, NEW scaled \in SUBSET Targets,
         NEW worked \in SUBSET scaled, NEW m, m = Account(active, bad, scaled, worked)
  PROVE  /\ m \in MovesSet /\ m.active = active /\ m.lost = moves.lost
         /\ m.dropped = moves.dropped /\ m.abandoned = moves.abandoned
<1>1. /\ moves \in MovesSet /\ moves.begun \subseteq Targets /\ moves.met \subseteq Targets
      /\ moves.late \subseteq Targets /\ moves.ours \subseteq Clouds
  BY DEF StageShape, MovesSet
<1>2. PICK begun \in SUBSET Targets :
         begun = scaled \cup (IF Fresh(active) THEN {} ELSE moves.begun)
  BY <1>1
<1>3. PICK met \in SUBSET Targets :
         met = There(active, bad, scaled) \cup (IF Fresh(active) THEN {} ELSE moves.met)
  BY <1>1 DEF There
<1>4. PICK late \in SUBSET Targets :
         late = (IF Fresh(active) THEN {} ELSE moves.late) \cup
                {t \in scaled \ There(active, bad, scaled) :
                    spec.skip /\ Late(StageOf(t, active), active)}
  BY <1>1
<1>5. PICK unsure \in BOOLEAN :
         unsure = (~Fresh(active) /\ (moves.unsure \/ moves.active # active))
  OBVIOUS
<1>6. PICK ours \in SUBSET Clouds :
         ours = (moves.ours \cup {c \in worked \cap Clouds : Scale(c, active) = "stopping"})
                \ {c \in worked \cap Clouds : active /\ cloud[c] = "running"}
  BY <1>1
<1>7. m = [moves EXCEPT !.active = active, !.begun = begun, !.met = met, !.late = late,
                        !.unsure = unsure, !.ours = ours]
  BY <1>2, <1>3, <1>4, <1>5, <1>6 DEF Account, Fresh, There
<1>8. /\ m \in MovesSet /\ m.active = active /\ m.begun = begun /\ m.met = met /\ m.late = late
      /\ m.unsure = unsure /\ m.ours = ours /\ m.lost = moves.lost
      /\ m.dropped = moves.dropped /\ m.abandoned = moves.abandoned
  BY <1>1, <1>2, <1>3, <1>4, <1>5, <1>6, <1>7 DEF MovesSet
<1> QED BY <1>8

LEMMA AccountShape ==
  ASSUME StageShape, NEW active \in BOOLEAN, NEW bad, NEW scaled \in SUBSET Targets,
         NEW worked \in SUBSET scaled, NEW m, m = Account(active, bad, scaled, worked)
  PROVE  /\ m.begun = BegunNow(active, scaled) /\ m.met = MetNow(active, bad, scaled)
         /\ m.late = LateNow(active, bad, scaled) /\ (m.unsure <=> UnsureNow(active))
<1>1. moves \in MovesSet
  BY DEF StageShape
<1>2. m.begun = BegunNow(active, scaled)
  BY <1>1 DEF Account, BegunNow, Fresh, MovesSet
<1>3. m.met = MetNow(active, bad, scaled)
  BY <1>1 DEF Account, MetNow, Fresh, There, MovesSet
<1>4. m.late = LateNow(active, bad, scaled)
  BY <1>1 DEF Account, LateNow, Fresh, There, MovesSet
<1>5. m.unsure <=> UnsureNow(active)
  BY <1>1 DEF Account, UnsureNow, Fresh, MovesSet
<1> QED BY <1>2, <1>3, <1>4, <1>5

LEMMA AccountOurs ==
  ASSUME StageShape, NEW active \in BOOLEAN, NEW bad, NEW scaled \in SUBSET Targets,
         NEW worked \in SUBSET scaled, NEW m, m = Account(active, bad, scaled, worked)
  PROVE  m.ours = (moves.ours \cup {c \in worked \cap Clouds : Scale(c, active) = "stopping"})
                  \ {c \in worked \cap Clouds : active /\ cloud[c] = "running"}
<1>1. moves \in MovesSet
  BY DEF StageShape
<1> QED BY <1>1 DEF Account, MovesSet

\* The stages a pass reaches come before those it does not.
LEMMA ReachedFromTheFirst ==
  ASSUME StageShape, NEW active \in BOOLEAN, NEW done,
         NEW i \in Reached(active, done), NEW j \in 1..i - 1
  PROVE  j \in Reached(active, done) /\ (Late(j, active) \/ j \in done)
<1>1. Count(active) \in Nat /\ DOMAIN Stages(active) = 1..Count(active)
  BY StagesShape DEF StageShape
<1>2. i \in 1..Count(active) /\ \A k \in 1..i - 1 : Late(k, active) \/ k \in done
  BY <1>1 DEF Reached
<1>3. j \in 1..Count(active) /\ \A k \in 1..j - 1 : k \in 1..i - 1
  BY <1>1, <1>2
<1> QED BY <1>1, <1>2, <1>3 DEF Reached

\* Every stage that a pass reaches and that is done or late is in the account.
LEMMA PassedIsAccounted ==
  ASSUME StageShape, NEW active \in BOOLEAN, NEW bad, NEW worked \in SUBSET Targets,
         NEW done, done = DoneStages(active, bad), NEW scaled, scaled = Scaled(active, done),
         worked \subseteq scaled,
         NEW m, m = Account(active, bad, scaled, worked), ~m.unsure,
         ~moves.unsure => Behind(status, moves),
         NEW i \in Reached(active, done), Late(i, active) \/ i \in done
  PROVE  Stages(active)[i] \subseteq m.met \cup m.late
<1>1. /\ Count(active) \in Nat /\ DOMAIN Stages(active) = 1..Count(active)
      /\ Stages(active) \in Seq(SUBSET Targets)
  BY StagesShape DEF StageShape
<1>2. i \in 1..Count(active) /\ Stages(active)[i] \subseteq scaled
  BY <1>1 DEF Reached, Scaled
<1>3. scaled \subseteq Targets
  BY <1>1 DEF Reached, Scaled
<1>4. /\ m.met = There(active, bad, scaled) \cup (IF Fresh(active) THEN {} ELSE moves.met)
      /\ m.late = (IF Fresh(active) THEN {} ELSE moves.late) \cup
                {t \in scaled \ There(active, bad, scaled) :
                    spec.skip /\ Late(StageOf(t, active), active)}
      /\ ~(~Fresh(active) /\ (moves.unsure \/ moves.active # active))
  <2>1. scaled \in SUBSET Targets /\ worked \in SUBSET scaled
    BY <1>3
  <2>2. /\ m.met = MetNow(active, bad, scaled) /\ m.late = LateNow(active, bad, scaled)
        /\ m.unsure <=> UnsureNow(active)
    BY <2>1, AccountShape
  <2> QED BY <2>2 DEF MetNow, LateNow, UnsureNow
<1>5. \A t \in Stages(active)[i] : StageOf(t, active) = i
  BY <1>1, <1>2, StageOfIs DEF StageShape
<1>6. CASE i \in done
  <2>1. \A t \in Stages(active)[i] : Ready(t, active, Late(i, active), bad)
    BY <1>6 DEF DoneStages
  <2>2. Stages(active)[i] \subseteq There(active, bad, scaled)
    BY <1>2, <1>5, <2>1 DEF There
  <2> QED BY <1>4, <2>2
<1>7. CASE Late(i, active)
  <2>1. status.stage \in Nat /\ now \in Nat
    BY DEF StageShape, StatusSet
  <2>2. CASE spec.skip
    BY <1>2, <1>4, <1>5, <1>7, <2>2
  <2>3. CASE ~spec.skip
    <3>1. i <= Progress(active).stage
      BY <1>7, <2>3 DEF Late
    <3>2. ~Fresh(active) /\ i <= status.stage
      BY <1>1, <1>2, <2>1, <3>1 DEF Progress, Fresh
    <3>3. ~moves.unsure /\ moves.active = active
      BY <1>4, <3>2
    <3>4. Stages(active)[i] \subseteq moves.met \cup moves.late
      BY <1>1, <1>2, <3>2, <3>3 DEF Behind, Fresh
    <3> QED BY <1>4, <3>2, <3>4
  <2> QED BY <2>2, <2>3
<1> QED BY <1>6, <1>7

\* The stages that a pass leaves behind it are the first ones.
Over(active, done) == {i \in Reached(active, done) : i \in done \/ Late(i, active)}

LEMMA OverIsTheFirst ==
  ASSUME StageShape, NEW active \in BOOLEAN, NEW done
  PROVE  /\ Cardinality(Over(active, done)) \in Nat
         /\ Over(active, done) = 1..Cardinality(Over(active, done))
<1>1. Count(active) \in Nat /\ DOMAIN Stages(active) = 1..Count(active)
  BY StagesShape DEF StageShape
<1>2. Over(active, done) \in SUBSET (1..Count(active))
  BY <1>1 DEF Over, Reached
<1>3. \A i \in Over(active, done) : \A j \in 1..i - 1 : j \in Over(active, done)
  BY ReachedFromTheFirst DEF Over
<1> QED BY <1>1, <1>2, <1>3, BeginningOf

\* What a pass works on, which of the released cloud resources it starts, and what it
\* makes of the status.
Worked(active, bad, effect, scaled) ==
    {t \in scaled : /\ t # bad \/ effect
                    /\ t \in Clouds => t \in spec.ext /\ ~CloudFails(t, active)}
Started(bad) == {c \in Released \ {bad} : ~CloudFails(c, TRUE)}
NewStopped(active, bad, worked) ==
    Recorded(Recorded(status.stopped, Started(bad), TRUE), (worked \ {bad}) \cap Clouds, active)
NewStatus(active, bad, done, worked) ==
    LET ready == AllReady(active, done)
        over == Cardinality(Over(active, done))
    IN [phase |-> IF ~ready THEN InProgress(active) ELSE IF active THEN "ScaledUp" ELSE "ScaledDown",
        stage |-> IF ready THEN 0 ELSE Max({over, Progress(active).stage}),
        since |-> IF ready THEN 0 ELSE IF over > Progress(active).stage THEN now ELSE Progress(active).since,
        stopped |-> NewStopped(active, bad, worked)]

LEMMA NewStatusShape ==
  ASSUME StageShape, NEW active \in BOOLEAN, NEW bad, NEW done, NEW worked,
         NEW st, st = NewStatus(active, bad, done, worked)
  PROVE  /\ st \in StatusSet
         /\ ~AllReady(active, done) =>
                /\ st.phase = InProgress(active)
                /\ st.stage \in {Cardinality(Over(active, done)), Progress(active).stage}
         /\ AllReady(active, done) => st.phase = IF active THEN "ScaledUp" ELSE "ScaledDown"
         /\ st.stopped = NewStopped(active, bad, worked)
<1>1. /\ status \in StatusSet /\ now \in Nat /\ status.stopped \subseteq Clouds
      /\ status.stage \in Nat /\ status.since \in Int
  BY DEF StageShape, StatusSet
<1>2. Progress(active).stage \in Nat /\ Progress(active).since \in Int
  BY <1>1 DEF Progress
<1>3. PICK over \in Nat : over = Cardinality(Over(active, done))
  BY OverIsTheFirst
<1>4. Max({over, Progress(active).stage}) \in {over, Progress(active).stage}
  BY <1>2, MaxOfTwo
<1>5. PICK stopped \in SUBSET Clouds : stopped = NewStopped(active, bad, worked)
  <2>1. Recorded(status.stopped, Started(bad), TRUE) \subseteq Clouds
    BY <1>1 DEF Recorded
  <2> QED BY <2>1 DEF NewStopped, Recorded
<1>6. PICK phase \in Phases :
         phase = IF ~AllReady(active, done) THEN InProgress(active)
                 ELSE IF active THEN "ScaledUp" ELSE "ScaledDown"
  BY DEF Phases, InProgress
<1>7. PICK stage \in Nat :
         stage = IF AllReady(active, done) THEN 0 ELSE Max({over, Progress(active).stage})
  BY <1>2, <1>3, <1>4
<1>8. PICK since \in Int :
         since = IF AllReady(active, done) THEN 0
                 ELSE IF over > Progress(active).stage THEN now ELSE Progress(active).since
  BY <1>1, <1>2
<1>9. st = [phase |-> phase, stage |-> stage, since |-> since, stopped |-> stopped]
  BY <1>3, <1>5, <1>6, <1>7, <1>8 DEF NewStatus
<1>10. /\ st \in StatusSet /\ st.phase = phase /\ st.stage = stage /\ st.stopped = stopped
  <2>1. phase \in Phases /\ stage \in Nat /\ since \in Int /\ stopped \in SUBSET Clouds
    BY <1>5, <1>6, <1>7, <1>8
  <2>2. st \in StatusSet
    BY <1>9, <2>1 DEF StatusSet
  <2> QED BY <1>9, <2>2
<1> QED BY <1>3, <1>4, <1>5, <1>6, <1>7, <1>10

\* What a pass does, in the terms above.
LEMMA PassShape ==
  ASSUME StageShape, NEW active \in BOOLEAN, NEW bad, NEW effect \in BOOLEAN,
         NEW done, done = DoneStages(active, bad), PassOver(active, bad, effect, done),
         NEW scaled, scaled = Scaled(active, done),
         NEW worked, worked = Worked(active, bad, effect, scaled),
         NEW m, m = Account(active, bad, scaled, worked)
  PROVE  /\ scaled \in SUBSET Targets /\ worked \in SUBSET scaled
         /\ spec' = spec /\ want' = want /\ status' = status /\ deleted' = deleted
         /\ ns' = [n \in Namespaces |->
                IF n \in worked THEN ScaleWithServices(n, active, Late(StageOf(n, active), active))
                ELSE ns[n]]
         /\ pass' = [busy |-> TRUE, stale |-> FALSE, status |-> NewStatus(active, bad, done, worked)]
         /\ moves' \in MovesSet
         /\ moves'.active = active /\ moves'.begun = m.begun /\ moves'.met = m.met
         /\ moves'.late = m.late /\ moves'.unsure = m.unsure
         /\ moves'.dropped = moves.dropped /\ moves'.abandoned = moves.abandoned
         /\ moves'.ours = m.ours \ {c \in Started(bad) : cloud[c] = "running"}
         /\ moves'.lost = moves.lost \cup ({bad} \cap worked)
<1>1. /\ Count(active) \in Nat /\ DOMAIN Stages(active) = 1..Count(active)
      /\ Stages(active) \in Seq(SUBSET Targets)
  BY StagesShape DEF StageShape
<1>2. scaled \in SUBSET Targets /\ worked \in SUBSET scaled
  <2>1. \A i \in Reached(active, done) : Stages(active)[i] \subseteq Targets
    BY <1>1 DEF Reached
  <2>2. scaled \in SUBSET Targets
    BY <2>1 DEF Scaled
  <2>3. worked \in SUBSET scaled
    BY DEF Worked
  <2> QED BY <2>2, <2>3
<1>3. /\ m \in MovesSet /\ m.active = active /\ m.lost = moves.lost
      /\ m.dropped = moves.dropped /\ m.abandoned = moves.abandoned
  BY <1>2, AccountTyped
<1>4. Pass(active, bad, effect, done, scaled)
  BY DEF PassOver
<1>5. spec' = spec /\ want' = want /\ status' = status /\ deleted' = deleted
  BY <1>4 DEF Pass
<1>6. ns' = [n \in Namespaces |->
                IF n \in worked THEN ScaleWithServices(n, active, Late(StageOf(n, active), active))
                ELSE ns[n]]
  BY <1>4 DEF Pass, Worked
<1>7. pass' = [busy |-> TRUE, stale |-> FALSE, status |-> NewStatus(active, bad, done, worked)]
  BY <1>4 DEF Pass, Worked, Started, NewStatus, NewStopped, Over
<1>8. PICK ours \in SUBSET Clouds : ours = m.ours \ {c \in Started(bad) : cloud[c] = "running"}
  BY <1>3 DEF MovesSet
<1>9. PICK lost \in SUBSET (Targets \cup {"git"}) : lost = m.lost \cup ({bad} \cap worked)
  BY <1>2, <1>3 DEF MovesSet
<1>10. moves' = [m EXCEPT !.ours = ours, !.lost = lost]
  BY <1>3, <1>4, <1>8, <1>9 DEF Pass, Worked, Started, MovesSet
<1>11. PICK f : f = [m EXCEPT !.ours = ours, !.lost = lost]
  OBVIOUS
<1>12. /\ f \in MovesSet /\ f.active = m.active /\ f.begun = m.begun /\ f.met = m.met
       /\ f.late = m.late /\ f.unsure = m.unsure /\ f.dropped = m.dropped
       /\ f.abandoned = m.abandoned /\ f.ours = ours /\ f.lost = lost
  <2>1. ours \in SUBSET Clouds /\ lost \in SUBSET (Targets \cup {"git"})
    BY <1>8, <1>9
  <2>2. f \in MovesSet
    BY <1>3, <1>11, <2>1 DEF MovesSet
  <2>3. /\ f.active = m.active /\ f.begun = m.begun /\ f.met = m.met
        /\ f.late = m.late /\ f.unsure = m.unsure /\ f.dropped = m.dropped
        /\ f.abandoned = m.abandoned /\ f.ours = ours /\ f.lost = lost
    BY <1>3, <1>11 DEF MovesSet
  <2> QED BY <2>2, <2>3
<1>13. moves' = f
  BY <1>10, <1>11
<1> QED BY <1>2, <1>3, <1>5, <1>6, <1>7, <1>8, <1>9, <1>12, <1>13

-----------------------------------------------------------------------------
(* Services.                                                                *)

LEMMA StartShape ==
  ASSUME NEW s \in Member
  PROVE  /\ Start(s) \in Member /\ Start(s).work = s.work
         /\ s.mark = "stopped" => Start(s).svc = "starting" /\ Start(s).mark = "starting"
         /\ s.mark # "stopped" => Start(s) = s
BY DEF Start, Member

\* HibernateServices on the way up: started, and forgotten once it runs.
AwakeTo(s, n, h) ==
    /\ h \in Member /\ h.work = s.work /\ h.svc = Start(s).svc
    /\ Start(s).svc \in {"up", "off"} \/ n \in Blind => h.mark = "none"
    /\ ~(Start(s).svc \in {"up", "off"} \/ n \in Blind) => h.mark = Start(s).mark

LEMMA HibernateUp ==
  ASSUME NEW s \in Member, NEW n,
         NEW h, h = HibernateServices(s, TRUE, n \in Blind)
  PROVE  AwakeTo(s, n, h)
<1>1. PICK f \in Member : f = Start(s) /\ f.work = s.work
  BY StartShape
<1>2. CASE f.svc \in {"up", "off"} \/ n \in Blind
  <2>1. h = [f EXCEPT !.mark = "none"]
    BY <1>1, <1>2 DEF HibernateServices, serviceReady
  <2> QED BY <1>1, <1>2, <2>1 DEF AwakeTo, Member
<1>3. CASE ~(f.svc \in {"up", "off"} \/ n \in Blind)
  <2>1. h = f
    BY <1>1, <1>3 DEF HibernateServices, serviceReady
  <2> QED BY <1>1, <1>3, <2>1 DEF AwakeTo
<1> QED BY <1>2, <1>3

\* ScaleWithServices on the way up: the services first, the workloads over what runs.
ScaledUpTo(n, s) ==
    /\ s \in Member
    /\ s.work = "up" => ns[n].work = "up"
    /\ ns[n].work = "up" => s.work = "up"
    /\ ~Covered(n) => s.svc = ns[n].svc /\ s.mark = ns[n].mark
    /\ s.svc \in {ns[n].svc, "starting"}
    /\ Covered(n) => s.svc = Start(ns[n]).svc
    /\ Covered(n) /\ (s.svc \in {"up", "off"} \/ n \in Blind) => s.mark = "none"
    /\ Covered(n) /\ ~(s.svc \in {"up", "off"} \/ n \in Blind) => s.mark = Start(ns[n]).mark
    /\ s.work = "starting" /\ ns[n].work # "starting" => ~Covered(n) \/ s.mark = "none"
    /\ s.work \in {"stopping", "down"} => Covered(n) /\ s.mark # "none"

LEMMA ScaleUp ==
  ASSUME NEW n \in Namespaces, ns \in [Namespaces -> Member], NEW late,
         NEW s, s = ScaleWithServices(n, TRUE, late)
  PROVE  ScaledUpTo(n, s)
<1>1. PICK f \in Member : f = ns[n]
  OBVIOUS
<1>2. PICK h : h = HibernateServices(f, TRUE, n \in Blind)
  OBVIOUS
<1>3. AwakeTo(f, n, h)
  BY <1>1, <1>2, HibernateUp
<1>4. PICK awake \in Member : /\ awake = IF Covered(n) THEN h ELSE f
                              /\ awake.work = f.work
  BY <1>1, <1>3 DEF AwakeTo
<1>5. PICK w \in {"up", "stopping", "down", "starting"} :
         w = IF awake.work \in {"down", "stopping"} THEN "starting" ELSE awake.work
  BY <1>4 DEF Member
<1>6. s = IF Covered(n) /\ awake.mark # "none" THEN awake ELSE [awake EXCEPT !.work = w]
  BY <1>1, <1>2, <1>4, <1>5 DEF ScaleWithServices
<1>7. /\ s \in Member /\ s.svc = awake.svc /\ s.mark = awake.mark
      /\ s.work = IF Covered(n) /\ awake.mark # "none" THEN f.work ELSE w
  BY <1>4, <1>5, <1>6 DEF Member
<1>8. Start(f).svc \in {f.svc, "starting"}
  BY <1>1, StartShape
<1> QED BY <1>1, <1>3, <1>4, <1>5, <1>7, <1>8 DEF ScaledUpTo, AwakeTo

\* On the way down: the workloads first, the services under what is down or late.
ScaledDownTo(n, s, late) ==
    /\ s \in Member
    /\ s.work = "down" <=> ns[n].work = "down"
    /\ s.work # "starting"
    /\ ~(Covered(n) /\ WorkloadsDone(n, late)) => s.svc = ns[n].svc /\ s.mark = ns[n].mark
    /\ Covered(n) /\ WorkloadsDone(n, late) => s.svc \in {"off", "down", "stopping"}
    /\ ns[n].svc \in {"off", "down", "stopping"} => s.svc = ns[n].svc /\ s.mark = ns[n].mark
    /\ s.svc # ns[n].svc => s.svc = "stopping"
    /\ s.mark # ns[n].mark \/ s.svc # ns[n].svc =>
           Covered(n) /\ s.svc = "stopping" /\ s.mark = "stopped"

LEMMA ScaleDown ==
  ASSUME NEW n \in Namespaces, ns \in [Namespaces -> Member], NEW late,
         NEW s, s = ScaleWithServices(n, FALSE, late)
  PROVE  ScaledDownTo(n, s, late)
<1>2. PICK f \in Member : f = ns[n]
  OBVIOUS
<1>3. PICK st : st = IF f.work \in {"up", "starting"} THEN [f EXCEPT !.work = "stopping"] ELSE f
  OBVIOUS
<1>4. /\ st \in Member /\ st.svc = f.svc /\ st.mark = f.mark /\ st.work # "starting"
      /\ st.work = "down" <=> f.work = "down"
  <2>1. CASE f.work \in {"up", "starting"}
    BY <1>2, <1>3, <2>1 DEF Member
  <2>2. CASE f.work \notin {"up", "starting"}
    BY <1>2, <1>3, <2>2 DEF Member
  <2> QED BY <2>1, <2>2
<1>5. PICK h : h = HibernateServices(st, FALSE, n \in Blind)
  OBVIOUS
<1>6. s = IF Covered(n) /\ WorkloadsDone(n, late) THEN h ELSE st
  BY <1>2, <1>3, <1>5 DEF ScaleWithServices
<1>7. /\ h \in Member /\ h.work = st.work /\ h.svc \in {"off", "down", "stopping"}
      /\ st.svc \in {"off", "down", "stopping"} => h = st
      /\ st.svc \notin {"off", "down", "stopping"} => h.svc = "stopping" /\ h.mark = "stopped"
  <2>1. CASE st.svc \in {"off", "down", "stopping"}
    BY <1>4, <1>5, <2>1 DEF HibernateServices, stoppedAlready
  <2>2. CASE st.svc \notin {"off", "down", "stopping"}
    <3>1. h = [st EXCEPT !.svc = "stopping", !.mark = "stopped"]
      BY <1>5, <2>2 DEF HibernateServices, stoppedAlready
    <3> QED BY <1>4, <2>2, <3>1 DEF Member
  <2> QED BY <2>1, <2>2
<1> QED BY <1>2, <1>4, <1>6, <1>7 DEF ScaledDownTo

-----------------------------------------------------------------------------
(* A pass keeps the account true.                                           *)

LEMMA MembersTyped ==
  ASSUME ns \in [Namespaces -> Member], NEW active \in BOOLEAN, NEW worked,
         ns' = [n \in Namespaces |->
                IF n \in worked THEN ScaleWithServices(n, active, Late(StageOf(n, active), active))
                ELSE ns[n]]
  PROVE  ns' \in [Namespaces -> Member]
<1>1. \A n \in Namespaces : ScaleWithServices(n, active, Late(StageOf(n, active), active)) \in Member
  <2> TAKE n \in Namespaces
  <2>1. PICK s : s = ScaleWithServices(n, active, Late(StageOf(n, active), active))
    OBVIOUS
  <2>2. CASE active
    <3>1. ScaledUpTo(n, s)
      BY <2>1, <2>2, ScaleUp
    <3> QED BY <2>1, <3>1 DEF ScaledUpTo
  <2>3. CASE ~active
    <3>1. ScaledDownTo(n, s, Late(StageOf(n, active), active))
      BY <2>1, <2>3, ScaleDown
    <3> QED BY <2>1, <3>1 DEF ScaledDownTo
  <2> QED BY <2>2, <2>3
<1> QED BY <1>1

LEMMA PassTurn ==
  ASSUME TurnInv, now' = now, NEW active \in BOOLEAN, NEW bad, NEW effect \in BOOLEAN,
         PassOver(active, bad, effect, DoneStages(active, bad))
  PROVE  TurnInv'
<1>1. PICK done : done = DoneStages(active, bad)
  OBVIOUS
<1>2. PICK scaled : scaled = Scaled(active, done)
  OBVIOUS
<1>3. PICK worked : worked = Worked(active, bad, effect, scaled)
  OBVIOUS
<1>4. PICK m : m = Account(active, bad, scaled, worked)
  OBVIOUS
<1>5. PICK st : st = NewStatus(active, bad, done, worked)
  OBVIOUS
<1>6. StageShape /\ PassOver(active, bad, effect, done)
  BY <1>1 DEF TurnInv
<1>7. /\ scaled \in SUBSET Targets /\ worked \in SUBSET scaled
      /\ spec' = spec /\ want' = want /\ status' = status
      /\ ns' = [n \in Namespaces |->
                IF n \in worked THEN ScaleWithServices(n, active, Late(StageOf(n, active), active))
                ELSE ns[n]]
      /\ pass' = [busy |-> TRUE, stale |-> FALSE, status |-> st]
      /\ moves' \in MovesSet
      /\ moves'.active = active /\ moves'.begun = m.begun /\ moves'.met = m.met
      /\ moves'.late = m.late /\ moves'.unsure = m.unsure
  BY <1>1, <1>2, <1>3, <1>4, <1>5, <1>6, PassShape
<1>8. /\ m.begun = scaled \cup (IF Fresh(active) THEN {} ELSE moves.begun)
      /\ There(active, bad, scaled) \subseteq m.met
      /\ ~Fresh(active) => moves.met \subseteq m.met /\ moves.late \subseteq m.late
      /\ m.unsure <=> ~Fresh(active) /\ (moves.unsure \/ moves.active # active)
  <2>1. scaled \in SUBSET Targets /\ worked \in SUBSET scaled
    BY <1>7
  <2>2. /\ m.begun = BegunNow(active, scaled) /\ m.met = MetNow(active, bad, scaled)
        /\ m.late = LateNow(active, bad, scaled) /\ (m.unsure <=> UnsureNow(active))
    BY <1>4, <1>6, <2>1, AccountShape
  <2> QED BY <2>2 DEF BegunNow, MetNow, LateNow, UnsureNow
<1>9. /\ st \in StatusSet
      /\ ~AllReady(active, done) =>
             /\ st.phase = InProgress(active)
             /\ st.stage \in {Cardinality(Over(active, done)), Progress(active).stage}
      /\ AllReady(active, done) => st.phase = IF active THEN "ScaledUp" ELSE "ScaledDown"
  BY <1>5, <1>6, NewStatusShape
<1>10. StageShape'
  <2>1. ns' \in [Namespaces -> Member]
    BY <1>6, <1>7, MembersTyped DEF StageShape
  <2>2. pass' \in PassSet
    BY <1>7, <1>9 DEF PassSet
  <2> QED BY <1>6, <1>7, <2>1, <2>2 DEF StageShape
<1>11. \A b \in BOOLEAN : Stages(b)' = Stages(b)
  BY <1>7, SameStages
<1>12. /\ Count(active) \in Nat /\ DOMAIN Stages(active) = 1..Count(active)
       /\ ~moves.unsure => InTurn(moves) /\ Behind(status, moves)
  BY <1>6, StagesShape DEF StageShape, TurnInv
<1>13. ASSUME ~m.unsure, NEW i \in Over(active, done)
       PROVE  Stages(active)[i] \subseteq m.met \cup m.late
  <2>1. worked \in SUBSET Targets /\ worked \subseteq scaled
    BY <1>7
  <2>2. i \in Reached(active, done) /\ (Late(i, active) \/ i \in done)
    BY <1>13 DEF Over
  <2> QED BY <1>1, <1>2, <1>4, <1>6, <1>12, <1>13, <2>1, <2>2, PassedIsAccounted
<1>14. ASSUME ~m.unsure, NEW t \in m.begun, NEW j \in 1..StageOf(t, active) - 1
       PROVE  Stages(active)[j] \subseteq m.met \cup m.late
  <2>1. CASE t \in scaled
    <3>1. PICK i \in Reached(active, done) : t \in Stages(active)[i]
      BY <1>2, <2>1 DEF Scaled
    <3>2. StageOf(t, active) = i
      BY <1>6, <3>1, StageOfIs DEF Reached, StageShape
    <3>3. j \in Over(active, done)
      BY <1>6, <1>14, <3>1, <3>2, ReachedFromTheFirst DEF Over
    <3> QED BY <1>13, <1>14, <3>3
  <2>2. CASE t \notin scaled
    <3>1. ~Fresh(active) /\ t \in moves.begun
      BY <1>8, <1>14, <2>2
    <3>2. ~moves.unsure /\ moves.active = active
      BY <1>8, <1>14, <3>1
    <3>3. Stages(active)[j] \subseteq moves.met \cup moves.late
      BY <1>12, <1>14, <3>1, <3>2 DEF InTurn
    <3> QED BY <1>8, <3>1, <3>3
  <2> QED BY <2>1, <2>2
<1>15. ASSUME ~m.unsure, ~Fresh(active), NEW j \in DOMAIN Stages(active), j <= status.stage
       PROVE  Stages(active)[j] \subseteq m.met \cup m.late
  <2>1. ~moves.unsure /\ moves.active = active
    BY <1>8, <1>15
  <2>2. Stages(active)[j] \subseteq moves.met \cup moves.late
    BY <1>12, <1>15, <2>1 DEF Behind, Fresh
  <2> QED BY <1>8, <1>15, <2>2
<1>16. ASSUME ~m.unsure, st.phase = InProgress(active), NEW j \in DOMAIN Stages(active), j <= st.stage
       PROVE  Stages(active)[j] \subseteq m.met \cup m.late
  <2>1. st.stage \in {Cardinality(Over(active, done)), Progress(active).stage}
    BY <1>9, <1>16 DEF InProgress
  <2>2. CASE st.stage = Cardinality(Over(active, done))
    <3>1. j \in Over(active, done)
      BY <1>6, <1>12, <1>16, <2>2, OverIsTheFirst
    <3> QED BY <1>13, <1>16, <3>1
  <2>3. CASE st.stage = Progress(active).stage
    <3>1. status.stage \in Nat /\ j \in Nat \ {0}
      BY <1>6, <1>12 DEF StageShape, StatusSet
    <3>2. ~Fresh(active) /\ j <= status.stage
      BY <1>16, <2>3, <3>1 DEF Progress, Fresh
    <3> QED BY <1>15, <1>16, <3>2
  <2> QED BY <2>1, <2>2, <2>3
<1>17. \A t \in Targets : StageOf(t, active)' = StageOf(t, active)
  BY <1>7, SameStages
<1>18. ~moves'.unsure => InTurn(moves)'
  <2> SUFFICES ASSUME ~m.unsure, NEW t \in m.begun, NEW j \in 1..StageOf(t, active)' - 1
               PROVE  Stages(active)'[j] \subseteq m.met \cup m.late
    BY <1>7 DEF InTurn
  <2>1. t \in Targets
    BY <1>7 DEF MovesSet
  <2> QED BY <1>11, <1>14, <1>17, <2>1
<1>19. ~moves'.unsure => Behind(status, moves)' /\ Behind(pass.status, moves)'
  BY <1>7, <1>11, <1>15, <1>16 DEF Behind, Fresh, InProgress
<1> QED BY <1>10, <1>18, <1>19 DEF TurnInv

-----------------------------------------------------------------------------
(* The other steps.                                                         *)

\* What only stores, loses, releases or forgets changes nothing of the account that
\* TurnInv speaks of.
LEMMA SameAccount ==
  ASSUME TurnInv, StageShape', spec' = spec,
         moves'.active = moves.active, moves'.begun = moves.begun, moves'.met = moves.met,
         moves'.late = moves.late, moves'.unsure = moves.unsure,
         \/ status' = status \/ (pass.busy /\ status' = pass.status) \/ status'.phase = "gone",
         pass'.busy => pass.busy /\ pass'.status = pass.status
  PROVE  TurnInv'
<1>1. \A b \in BOOLEAN : Stages(b)' = Stages(b)
  BY SameStages
<1>2. \A b \in BOOLEAN, t \in Targets : StageOf(t, b)' = StageOf(t, b)
  BY SameStages
<1>3. moves.active \in BOOLEAN /\ moves.begun \subseteq Targets
  BY DEF TurnInv, StageShape, MovesSet
<1> SUFFICES ASSUME ~moves.unsure
             PROVE  InTurn(moves)' /\ Behind(status, moves)'
                    /\ (pass'.busy => Behind(pass.status, moves)')
  BY DEF TurnInv
<1>4. InTurn(moves) /\ Behind(status, moves) /\ (pass.busy => Behind(pass.status, moves))
  BY DEF TurnInv
<1>5. InTurn(moves)'
  BY <1>1, <1>2, <1>3, <1>4 DEF InTurn
<1>6. Behind(status, moves)'
  BY <1>1, <1>3, <1>4 DEF Behind, InProgress
<1>7. pass'.busy => Behind(pass.status, moves)'
  BY <1>1, <1>3, <1>4 DEF Behind
<1> QED BY <1>5, <1>6, <1>7

LEMMA UpdateTurn ==
  ASSUME TurnInv, UpdateStatus, now' = now
  PROVE  TurnInv'
<1>1. /\ StageShape /\ moves \in MovesSet /\ pass \in PassSet
  BY DEF TurnInv, StageShape, UpdateStatus, NoPass
<1>2. PICK lost \in SUBSET (Targets \cup {"git"}) : moves' = [moves EXCEPT !.lost = lost]
  BY <1>1 DEF UpdateStatus, MovesSet
<1>3. PICK f : f = [moves EXCEPT !.lost = lost]
  OBVIOUS
<1>4. /\ f \in MovesSet /\ f.active = moves.active /\ f.begun = moves.begun /\ f.met = moves.met
      /\ f.late = moves.late /\ f.unsure = moves.unsure
  BY <1>1, <1>2, <1>3 DEF MovesSet
<1>5. moves' = f
  BY <1>2, <1>3
<1>6. /\ status' = status \/ status' = pass.status
      /\ pass' = NoPass /\ pass.busy /\ spec' = spec /\ want' = want /\ ns' = ns
  BY DEF UpdateStatus
<1>7. status' \in StatusSet
  BY <1>1, <1>6 DEF StageShape, PassSet
<1>8. StageShape'
  BY <1>1, <1>4, <1>5, <1>6, <1>7 DEF StageShape
<1> QED BY <1>4, <1>5, <1>6, <1>8, SameAccount DEF NoPass

LEMMA ReleaseShape ==
  ASSUME ns \in [Namespaces -> Member], NEW n \in Namespaces, NEW s, s = ReleaseNamespace(n)
  PROVE  /\ s \in Member
         /\ scaledByThem => s.work \notin {"stopping", "down"} /\ (Covered(n) => s.mark = "none")
         /\ ~scaledByThem => s = ns[n]
         /\ ~Covered(n) => s.mark = ns[n].mark
<1>1. PICK f \in Member : f = ns[n]
  OBVIOUS
<1>2. PICK g \in Member : g = [Start(f) EXCEPT !.mark = "none"] /\ g.mark = "none"
  <2>1. PICK h \in Member : h = Start(f)
    BY <1>1, StartShape
  <2>2. PICK e : e = [h EXCEPT !.mark = "none"]
    OBVIOUS
  <2>3. e \in Member /\ e.mark = "none"
    BY <2>1, <2>2 DEF Member
  <2> QED BY <2>1, <2>2, <2>3
<1>3. PICK e \in Member : /\ e = (IF Covered(n) THEN g ELSE f)
                          /\ Covered(n) => e.mark = "none"
                          /\ ~Covered(n) => e.mark = f.mark
  BY <1>1, <1>2
<1>4. PICK w \in {"up", "starting"} :
         w = IF e.work \in {"down", "stopping"} THEN "starting" ELSE e.work
  BY <1>3 DEF Member
<1>5. s = IF scaledByThem THEN [e EXCEPT !.work = w] ELSE f
  BY <1>1, <1>2, <1>3, <1>4 DEF ReleaseNamespace, ReleaseServices
<1>6. CASE scaledByThem
  <2>1. s = [e EXCEPT !.work = w]
    BY <1>5, <1>6
  <2>2. s \in Member /\ s.work = w /\ s.mark = e.mark
    BY <1>3, <1>4, <2>1 DEF Member
  <2> QED BY <1>1, <1>3, <1>4, <1>6, <2>2
<1>7. CASE ~scaledByThem
  BY <1>1, <1>5, <1>7
<1> QED BY <1>6, <1>7

LEMMA FinalizeTurn ==
  ASSUME TurnInv, NEW bad, Finalize(bad), now' = now
  PROVE  TurnInv'
<1>1. StageShape /\ moves \in MovesSet /\ status \in StatusSet
  BY DEF TurnInv, StageShape
<1>2. PICK ours \in SUBSET Clouds :
         \E failed \in BOOLEAN : moves' = [moves EXCEPT !.ours = ours, !.abandoned = failed]
  BY <1>1 DEF Finalize, MovesSet
<1>3. PICK failed \in BOOLEAN : moves' = [moves EXCEPT !.ours = ours, !.abandoned = failed]
  BY <1>2
<1>4. PICK f : f = [moves EXCEPT !.ours = ours, !.abandoned = failed]
  OBVIOUS
<1>5. /\ f \in MovesSet /\ f.active = moves.active /\ f.begun = moves.begun /\ f.met = moves.met
      /\ f.late = moves.late /\ f.unsure = moves.unsure
  BY <1>1, <1>2, <1>3, <1>4 DEF MovesSet
<1>6. moves' = f
  BY <1>3, <1>4
<1>7. /\ status' = status \/ status' = [status EXCEPT !.phase = "gone"]
      /\ pass' = pass /\ spec' = spec /\ want' = want
  BY DEF Finalize
<1>8. status' \in StatusSet /\ (status' = status \/ status'.phase = "gone")
  BY <1>1, <1>7 DEF StatusSet, Phases
<1>9. ns' \in [Namespaces -> Member]
  <2>1. \A n \in Namespaces : ReleaseNamespace(n) \in Member
    BY <1>1, ReleaseShape DEF StageShape
  <2>2. ns' = [n \in Namespaces |-> IF n = bad THEN ns[n] ELSE ReleaseNamespace(n)]
    BY DEF Finalize
  <2> QED BY <1>1, <2>1, <2>2 DEF StageShape
<1>10. StageShape'
  BY <1>1, <1>5, <1>6, <1>7, <1>8, <1>9 DEF StageShape
<1> QED BY <1>5, <1>6, <1>7, <1>8, <1>10, SameAccount

\* A pass that is under way when the group is edited or deleted is stale from then on.
LEMMA StalePass ==
  ASSUME StageShape, pass' = IF pass.busy THEN [pass EXCEPT !.stale = TRUE] ELSE pass
  PROVE  /\ pass' \in {NoPass} \cup PassSet
         /\ pass'.busy => pass.busy /\ pass'.status = pass.status
         /\ pass.busy => pass'.busy
<1>1. CASE pass = NoPass
  BY <1>1 DEF NoPass
<1>2. CASE pass \in PassSet
  BY <1>2 DEF PassSet
<1> QED BY <1>1, <1>2 DEF StageShape

LEMMA EditTurn ==
  ASSUME TurnInv, Edit
  PROVE  TurnInv'
<1>1. StageShape /\ moves \in MovesSet
  BY DEF TurnInv, StageShape
<1>2. PICK dropped \in SUBSET Namespaces :
         moves' = [moves EXCEPT !.unsure = TRUE, !.dropped = dropped]
  <2>1. spec.rules \subseteq Namespaces /\ moves.dropped \subseteq Namespaces
    BY <1>1, StageAssumption DEF StageShape, MovesSet
  <2> QED BY <2>1 DEF Edit
<1>3. PICK f : f = [moves EXCEPT !.unsure = TRUE, !.dropped = dropped]
  OBVIOUS
<1>4. f \in MovesSet /\ f.unsure
  BY <1>1, <1>2, <1>3 DEF MovesSet
<1>5. moves' = f
  BY <1>2, <1>3
<1>6. /\ now' = now /\ spec' \in Specs /\ want' = want /\ status' = status /\ ns' = ns
      /\ pass' = IF pass.busy THEN [pass EXCEPT !.stale = TRUE] ELSE pass
  BY DEF Edit, Change
<1>7. StageShape'
  BY <1>1, <1>4, <1>5, <1>6, StalePass DEF StageShape
<1> QED BY <1>4, <1>5, <1>7 DEF TurnInv

LEMMA DeleteTurn ==
  ASSUME TurnInv, Delete
  PROVE  TurnInv'
<1>1. /\ now' = now /\ spec' = spec /\ want' = want /\ status' = status /\ ns' = ns /\ moves' = moves
      /\ pass' = IF pass.busy THEN [pass EXCEPT !.stale = TRUE] ELSE pass
  BY DEF Delete, Change
<1>2. StageShape'
  BY <1>1, StalePass DEF TurnInv, StageShape
<1>3. pass'.busy => pass.busy /\ pass'.status = pass.status
  BY <1>1, StalePass DEF TurnInv
<1> QED BY <1>1, <1>2, <1>3, SameAccount

\* Everything that happens around the group.
Around ==
    \/ Time \/ Flip \/ SwitchProvider \/ SyncByHand
    \/ \E n \in Namespaces : WorkArrives(n) \/ ServiceArrives(n) \/ PersonStops(n) \/ Sync(n)
    \/ \E c \in Clouds : CloudArrives(c)

\* What does not touch the group: its status, its spec and the account stay, and of a
\* namespace the workloads or the service move on by themselves, are synced or stopped.
LEMMA AroundShape ==
  ASSUME StageShape, Around
  PROVE  /\ now' \in Nat /\ want' \in BOOLEAN /\ spec' = spec /\ status' = status /\ pass' = pass
         /\ moves' = moves /\ deleted' = deleted /\ ns' \in [Namespaces -> Member]
         /\ \A n \in Namespaces :
                /\ ns'[n].mark = ns[n].mark
                /\ ns'[n].work \in {ns[n].work, "starting"}
                   \/ (ns[n].work = "stopping" /\ ns'[n].work = "down")
                   \/ (ns[n].work = "starting" /\ ns'[n].work = "up")
                /\ \/ ns'[n].svc \in {ns[n].svc, "off"}
                   \/ ns[n].svc = "stopping" /\ ns'[n].svc = "down"
                   \/ ns[n].svc = "starting" /\ ns'[n].svc = "up"
<1>1. ns \in [Namespaces -> Member] /\ now \in Nat /\ want \in BOOLEAN
  BY DEF StageShape
<1>2. CASE Time \/ Flip \/ SwitchProvider \/ SyncByHand \/ \E c \in Clouds : CloudArrives(c)
  <2>1. /\ spec' = spec /\ status' = status /\ pass' = pass /\ moves' = moves /\ ns' = ns
        /\ deleted' = deleted /\ want' \in {want, ~want} /\ now' \in {now, now + 1}
    BY <1>2 DEF Time, Flip, SwitchProvider, SyncByHand, CloudArrives, stageVars, Tick, Change,
                NoFault, clockVars
  <2>2. want' \in BOOLEAN
    BY <1>1, <2>1, Zenon
  <2>3. now' \in Nat
    BY <1>1, <2>1
  <2> QED BY <1>1, <2>1, <2>2, <2>3
<1>3. ASSUME NEW n \in Namespaces,
             WorkArrives(n) \/ ServiceArrives(n) \/ PersonStops(n) \/ Sync(n)
      PROVE  /\ now' = now /\ want' = want /\ spec' = spec /\ status' = status /\ pass' = pass
             /\ moves' = moves /\ deleted' = deleted
  BY <1>3 DEF WorkArrives, ServiceArrives, PersonStops, Sync, Change, NoFault, clockVars
<1>4. ASSUME NEW n \in Namespaces, WorkArrives(n) \/ Sync(n)
      PROVE  \E w \in {"up", "down", "starting"} :
                 /\ ns' = [ns EXCEPT ![n].work = w]
                 /\ \/ w = "starting"
                    \/ ns[n].work = "stopping" /\ w = "down"
                    \/ ns[n].work = "starting" /\ w = "up"
  BY <1>1, <1>4 DEF WorkArrives, Sync, Arrives, Member
<1>5. ASSUME NEW n \in Namespaces, ServiceArrives(n) \/ PersonStops(n)
      PROVE  \E v \in {"up", "down", "off"} :
                 /\ ns' = [ns EXCEPT ![n].svc = v]
                 /\ \/ v = "off"
                    \/ ns[n].svc = "stopping" /\ v = "down"
                    \/ ns[n].svc = "starting" /\ v = "up"
  BY <1>1, <1>5 DEF ServiceArrives, PersonStops, Arrives, Member
<1>6. ASSUME NEW n \in Namespaces, WorkArrives(n) \/ Sync(n)
      PROVE  /\ ns' \in [Namespaces -> Member]
             /\ \A k \in Namespaces :
                    /\ ns'[k].mark = ns[k].mark /\ ns'[k].svc = ns[k].svc
                    /\ \/ ns'[k].work \in {ns[k].work, "starting"}
                       \/ ns[k].work = "stopping" /\ ns'[k].work = "down"
                       \/ ns[k].work = "starting" /\ ns'[k].work = "up"
  BY <1>1, <1>4, <1>6 DEF Member
<1>7. ASSUME NEW n \in Namespaces, ServiceArrives(n) \/ PersonStops(n)
      PROVE  /\ ns' \in [Namespaces -> Member]
             /\ \A k \in Namespaces :
                    /\ ns'[k].mark = ns[k].mark /\ ns'[k].work = ns[k].work
                    /\ \/ ns'[k].svc \in {ns[k].svc, "off"}
                       \/ ns[k].svc = "stopping" /\ ns'[k].svc = "down"
                       \/ ns[k].svc = "starting" /\ ns'[k].svc = "up"
  BY <1>1, <1>5, <1>7 DEF Member
<1>8. ASSUME NEW n \in Namespaces,
             WorkArrives(n) \/ ServiceArrives(n) \/ PersonStops(n) \/ Sync(n)
      PROVE  /\ ns' \in [Namespaces -> Member]
             /\ \A k \in Namespaces :
                /\ ns'[k].mark = ns[k].mark
                /\ ns'[k].work \in {ns[k].work, "starting"}
                   \/ (ns[k].work = "stopping" /\ ns'[k].work = "down")
                   \/ (ns[k].work = "starting" /\ ns'[k].work = "up")
                /\ \/ ns'[k].svc \in {ns[k].svc, "off"}
                   \/ ns[k].svc = "stopping" /\ ns'[k].svc = "down"
                   \/ ns[k].svc = "starting" /\ ns'[k].svc = "up"
  BY <1>6, <1>7, <1>8
<1> QED BY <1>1, <1>2, <1>3, <1>8 DEF Around

LEMMA AroundTurn ==
  ASSUME TurnInv, Around
  PROVE  TurnInv'
<1>1. /\ now' \in Nat /\ want' \in BOOLEAN /\ spec' = spec /\ status' = status /\ pass' = pass
      /\ moves' = moves /\ ns' \in [Namespaces -> Member]
  BY AroundShape DEF TurnInv
<1>2. StageShape'
  BY <1>1 DEF TurnInv, StageShape
<1> QED BY <1>1, <1>2, SameAccount

\* The steps of the specification.
LEMMA Steps ==
  ASSUME StageShape, [Next]_vars
  PROVE  \/ /\ ~Gone /\ ~pass.busy /\ deleted = None /\ now' = now
            /\ \E bad \in Targets \cup {"git", "nothing"}, effect \in BOOLEAN :
                   PassOver(want, bad, effect, DoneStages(want, bad))
         \/ UpdateStatus /\ now' = now
         \/ \E bad \in Targets \cup {"git", "nothing"} : Finalize(bad) /\ now' = now
         \/ Delete \/ Edit \/ Around \/ UNCHANGED vars
<1>1. CASE Reconcile
  BY <1>1 DEF Reconcile, NoFault, Fault, clockVars
<1>2. CASE UpdateStatus
  BY <1>2 DEF UpdateStatus, NoFault, Fault, clockVars
<1>3. CASE NoFault /\ Finalize("nothing")
  BY <1>3 DEF NoFault, clockVars
<1>4. CASE Fault /\ \E bad \in Targets \cup {"git"} : Finalize(bad)
  BY <1>4 DEF Fault
<1>5. CASE Time \/ Delete \/ Edit \/ Flip \/ SwitchProvider \/ SyncByHand
  BY <1>5 DEF Around
<1>6. CASE \/ \E n \in Namespaces : WorkArrives(n) \/ ServiceArrives(n) \/ PersonStops(n) \/ Sync(n)
           \/ \E c \in Clouds : CloudArrives(c)
  BY <1>6 DEF Around
<1> QED BY <1>1, <1>2, <1>3, <1>4, <1>5, <1>6 DEF Next, Controller

LEMMA TurnStep ==
  ASSUME TurnInv, [Next]_vars
  PROVE  TurnInv'
<1>1. StageShape /\ want \in BOOLEAN
  BY DEF TurnInv, StageShape
<1>2. CASE UNCHANGED vars
  <2>1. /\ StageShape' /\ spec' = spec /\ moves' = moves /\ status' = status /\ pass' = pass
    BY <1>1, <1>2 DEF StageShape, vars, stageVars, clockVars
  <2> QED BY <2>1, SameAccount
<1>3. ASSUME NEW bad, NEW effect \in BOOLEAN, now' = now,
             PassOver(want, bad, effect, DoneStages(want, bad))
      PROVE  TurnInv'
  <2>1. PICK active \in BOOLEAN : active = want
    BY <1>1
  <2> QED BY <1>3, <2>1, PassTurn
<1> QED BY <1>1, <1>2, <1>3, Steps, UpdateTurn, FinalizeTurn, EditTurn, DeleteTurn, AroundTurn

\* For every sequence of stages, every set of targets and any number of faults, edits and
\* turns: a target begins to move only when the stages before it have been there in the same
\* transition, or have used up their time (Reconcile's loop and currentStage).
THEOREM TurnsAreTaken == Spec => []StagesInTurn
<1>1. TurnInv => StagesInTurn
  BY DEF TurnInv, InTurn, StagesInTurn
<1> QED BY <1>1, TurnInit, TurnStep, PTL DEF Spec

-----------------------------------------------------------------------------
(* What stands around the workloads.                                        *)

GitShape ==
    git \in [kind : {"argo", "flux", "set"}, reach : {git.reach}, heals : BOOLEAN,
             automated : BOOLEAN, mark : BOOLEAN]

\* While the group is there, the mark says what the service is doing for it.
Marked ==
    deleted = None =>
        \A n \in Namespaces \ Blind :
            /\ ns[n].svc \in {"stopping", "down"} => ns[n].mark = "stopped"
            /\ ns[n].svc = "starting" => ns[n].mark = "starting"

\* What was met on the way down has a service that nothing is left to stop of, also when
\* GitOps has brought the workloads back since.
MetIsStopped ==
    deleted = None /\ ~moves.unsure /\ ~moves.active =>
        \A n \in Namespaces \cap moves.met : Covered(n) => ns[n].svc \in {"off", "down", "stopping"}

FrameInv ==
    /\ TurnInv /\ GitShape /\ (git.kind = "flux" => git.automated)
    /\ Marked /\ MetIsStopped

LEMMA FrameInit == Init => FrameInv
<1> SUFFICES ASSUME Init PROVE FrameInv
  OBVIOUS
<1>1. GitShape /\ git.automated
  BY StageAssumption DEF Init, GitShape
<1>2. Marked /\ MetIsStopped
  BY DEF Init, Marked, MetIsStopped
<1> QED BY <1>1, <1>2, TurnInit DEF FrameInv

\* Pausing, resuming and switching to manual sync keep the shape and the kind.
LEMMA GitKept ==
  ASSUME GitShape, git.kind = "flux" => git.automated,
         \/ git' \in {git, Paused, Resumed}
         \/ git' = [git EXCEPT !.automated = FALSE, !.heals = FALSE] /\ git.kind = "argo"
  PROVE  GitShape' /\ (git'.kind = "flux" => git'.automated)
<1>1. PICK R : git \in [kind : {"argo", "flux", "set"}, reach : {R}, heals : BOOLEAN,
                        automated : BOOLEAN, mark : BOOLEAN]
  BY DEF GitShape
<1>2. PICK h \in BOOLEAN : h = (git.kind = "flux" \/ git.automated)
  OBVIOUS
<1>3. \/ git' = git
      \/ git' = [git EXCEPT !.heals = FALSE, !.mark = TRUE]
      \/ git' = [git EXCEPT !.heals = h, !.mark = FALSE]
      \/ git' = [git EXCEPT !.automated = FALSE, !.heals = FALSE] /\ git.kind = "argo"
  BY <1>2 DEF Paused, Resumed
<1>4. PICK g : g = git
  OBVIOUS
<1>5. PICK f : f = git'
  OBVIOUS
<1>6. \/ f = g
      \/ f = [g EXCEPT !.heals = FALSE, !.mark = TRUE]
      \/ f = [g EXCEPT !.heals = h, !.mark = FALSE]
      \/ f = [g EXCEPT !.automated = FALSE, !.heals = FALSE] /\ g.kind = "argo"
  BY <1>3, <1>4, <1>5
<1>7. /\ f \in [kind : {"argo", "flux", "set"}, reach : {R}, heals : BOOLEAN,
                automated : BOOLEAN, mark : BOOLEAN]
      /\ f.kind = g.kind
      /\ f.kind = "flux" => f.automated = g.automated
  BY <1>1, <1>2, <1>4, <1>6
<1>8. f.reach = R
  BY <1>7
<1> QED BY <1>4, <1>5, <1>7, <1>8 DEF GitShape

\* A namespace that a pass finds there has been worked on; on the way down its workloads are
\* down, on the way up they are up.
LEMMA ThereIsWorked ==
  ASSUME StageShape, NEW active \in BOOLEAN, NEW bad, NEW effect, NEW scaled,
         NEW n \in Namespaces \cap There(active, bad, scaled)
  PROVE  /\ n \in Worked(active, bad, effect, scaled)
         /\ ns[n].work = IF active THEN "up" ELSE "down"
         /\ \A s : s = ScaleWithServices(n, active, Late(StageOf(n, active), active)) =>
                ~Covered(n) \/ n \in Blind \/ serviceReady(s, active)
<1>1. n \in scaled /\ n # bad /\ NamespaceReady(n, active, Late(StageOf(n, active), active))
  BY DEF There, Ready
<1>2. n \notin Clouds
  BY StageAssumption
<1>3. PICK s : s = ScaleWithServices(n, active, Late(StageOf(n, active), active))
  OBVIOUS
<1>4. /\ s.work = IF active THEN "up" ELSE "down"
      /\ ~Covered(n) \/ n \in Blind \/ serviceReady(s, active)
  BY <1>1, <1>3 DEF NamespaceReady
<1>5. ns[n].work = IF active THEN "up" ELSE "down"
  <2>1. ns \in [Namespaces -> Member]
    BY DEF StageShape
  <2>2. CASE active
    <3>1. ScaledUpTo(n, s)
      BY <1>3, <2>1, <2>2, ScaleUp
    <3> QED BY <1>4, <2>2, <3>1 DEF ScaledUpTo
  <2>3. CASE ~active
    <3>1. ScaledDownTo(n, s, Late(StageOf(n, active), active))
      BY <1>3, <2>1, <2>3, ScaleDown
    <3> QED BY <1>4, <2>3, <3>1 DEF ScaledDownTo
  <2> QED BY <2>2, <2>3
<1> QED BY <1>1, <1>2, <1>3, <1>4, <1>5 DEF Worked

\* What a pass makes of one namespace.
LEMMA MemberAfterPass ==
  ASSUME FrameInv, deleted = None, NEW active \in BOOLEAN, NEW n \in Namespaces, NEW late,
         NEW s, s = ScaleWithServices(n, active, late)
  PROVE  /\ n \notin Blind =>
                /\ s.svc \in {"stopping", "down"} => s.mark = "stopped"
                /\ s.svc = "starting" => s.mark = "starting"
         /\ active /\ s.svc = "stopping" => ns[n].svc = "stopping"
         /\ s.work = "starting" /\ ns[n].work # "starting" /\ Covered(n) =>
                s.mark = "none" /\ (s.svc \in {"up", "off"} \/ n \in Blind)
<1>1. /\ ns \in [Namespaces -> Member] /\ ns[n] \in Member
      /\ n \notin Blind => /\ ns[n].svc \in {"stopping", "down"} => ns[n].mark = "stopped"
                           /\ ns[n].svc = "starting" => ns[n].mark = "starting"
  BY DEF FrameInv, TurnInv, StageShape, Marked
<1>2. CASE active
  <2>1. /\ s \in Member
        /\ ~Covered(n) => s.svc = ns[n].svc /\ s.mark = ns[n].mark
        /\ s.svc \in {ns[n].svc, "starting"}
        /\ Covered(n) => s.svc = Start(ns[n]).svc
        /\ Covered(n) /\ ~(s.svc \in {"up", "off"} \/ n \in Blind) => s.mark = Start(ns[n]).mark
        /\ s.work = "starting" /\ ns[n].work # "starting" => ~Covered(n) \/ s.mark = "none"
    <3>1. s = ScaleWithServices(n, TRUE, late) /\ ns \in [Namespaces -> Member]
      BY <1>1, <1>2
    <3>2. ScaledUpTo(n, s)
      BY <3>1, ScaleUp
    <3> QED BY <3>2 DEF ScaledUpTo
  <2>2. /\ ns[n].mark = "stopped" => Start(ns[n]).svc = "starting" /\ Start(ns[n]).mark = "starting"
        /\ ns[n].mark # "stopped" => Start(ns[n]) = ns[n]
    BY <1>1, StartShape
  <2>3. n \notin Blind => /\ s.svc \in {"stopping", "down"} => s.mark = "stopped"
                          /\ s.svc = "starting" => s.mark = "starting"
    BY <1>1, <2>1, <2>2
  <2>4. s.work = "starting" /\ ns[n].work # "starting" /\ Covered(n) =>
                s.mark = "none" /\ (s.svc \in {"up", "off"} \/ n \in Blind)
    BY <1>1, <2>1, <2>3 DEF Member
  <2> QED BY <2>1, <2>3, <2>4
<1>3. CASE ~active
  <2>1. /\ s \in Member /\ s.work # "starting"
        /\ s.mark # ns[n].mark \/ s.svc # ns[n].svc => s.svc = "stopping" /\ s.mark = "stopped"
    <3>1. s = ScaleWithServices(n, FALSE, late) /\ ns \in [Namespaces -> Member]
      BY <1>1, <1>3
    <3>2. ScaledDownTo(n, s, late)
      BY <3>1, ScaleDown
    <3> QED BY <3>2 DEF ScaledDownTo
  <2> QED BY <1>1, <1>3, <2>1
<1> QED BY <1>2, <1>3

\* Self-heal comes back only while sync is automated.
LEMMA ResumedHeals ==
  ASSUME GitShape, git.kind = "flux" => git.automated, git.mark, git' = Resumed
  PROVE  git'.heals => git.automated
<1>1. PICK R : git \in [kind : {"argo", "flux", "set"}, reach : {R}, heals : BOOLEAN,
                        automated : BOOLEAN, mark : BOOLEAN]
  BY DEF GitShape
<1>2. git'.heals = (git.kind = "flux" \/ git.automated)
  BY <1>1 DEF Resumed
<1> QED BY <1>2, Zenon

\* A pass keeps the frame, and stops and starts what is in it in order.
LEMMA PassFrame ==
  ASSUME FrameInv, now' = now, deleted = None, NEW active \in BOOLEAN, NEW bad,
         NEW effect \in BOOLEAN, PassOver(active, bad, effect, DoneStages(active, bad))
  PROVE  /\ FrameInv'
         /\ ServicesOutliveWorkloads /\ ResumedWhenAllUp
<1>1. PICK done : done = DoneStages(active, bad)
  OBVIOUS
<1>2. PICK scaled : scaled = Scaled(active, done)
  OBVIOUS
<1>3. PICK worked : worked = Worked(active, bad, effect, scaled)
  OBVIOUS
<1>4. PICK m : m = Account(active, bad, scaled, worked)
  OBVIOUS
<1>5. StageShape /\ PassOver(active, bad, effect, done) /\ Pass(active, bad, effect, done, scaled)
  BY <1>1, <1>2 DEF FrameInv, TurnInv, PassOver
<1>6. /\ scaled \in SUBSET Targets /\ worked \in SUBSET scaled
      /\ spec' = spec /\ deleted' = deleted
      /\ ns' = [n \in Namespaces |->
                IF n \in worked THEN ScaleWithServices(n, active, Late(StageOf(n, active), active))
                ELSE ns[n]]
      /\ moves'.active = active /\ moves'.met = m.met
      /\ moves'.late = m.late /\ moves'.unsure = m.unsure
  BY <1>1, <1>2, <1>3, <1>4, <1>5, PassShape
<1>7. /\ m.met = MetNow(active, bad, scaled) /\ m.late = LateNow(active, bad, scaled)
      /\ m.unsure <=> UnsureNow(active)
  <2>1. scaled \in SUBSET Targets /\ worked \in SUBSET scaled
    BY <1>6
  <2> QED BY <1>4, <1>5, <2>1, AccountShape
<1>8. Marked'
  <2> SUFFICES ASSUME NEW n \in Namespaces \ Blind
               PROVE  /\ ns'[n].svc \in {"stopping", "down"} => ns'[n].mark = "stopped"
                      /\ ns'[n].svc = "starting" => ns'[n].mark = "starting"
    BY DEF Marked
  <2>1. PICK s : s = ScaleWithServices(n, active, Late(StageOf(n, active), active))
    OBVIOUS
  <2>2. /\ s.svc \in {"stopping", "down"} => s.mark = "stopped"
        /\ s.svc = "starting" => s.mark = "starting"
    BY <2>1, MemberAfterPass
  <2>3. ns'[n] = s \/ ns'[n] = ns[n]
    BY <1>6, <2>1
  <2>4. /\ ns[n].svc \in {"stopping", "down"} => ns[n].mark = "stopped"
        /\ ns[n].svc = "starting" => ns[n].mark = "starting"
    BY DEF FrameInv, Marked
  <2> QED BY <2>2, <2>3, <2>4
<1>9. MetIsStopped'
  <2> SUFFICES ASSUME ~m.unsure, ~active, NEW n \in Namespaces \cap m.met, Covered(n)
               PROVE  ns'[n].svc \in {"off", "down", "stopping"}
    BY <1>6 DEF MetIsStopped, Covered
  <2>1. PICK s : s = ScaleWithServices(n, active, Late(StageOf(n, active), active))
    OBVIOUS
  <2>2. ScaledDownTo(n, s, Late(StageOf(n, active), active))
    BY <1>5, <2>1, ScaleDown DEF StageShape
  <2>3. CASE n \in There(active, bad, scaled)
    <3>1. n \in worked /\ ns[n].work = "down"
      BY <1>3, <1>5, <2>3, ThereIsWorked
    <3>2. ns'[n] = s
      BY <1>6, <2>1, <3>1
    <3> QED BY <2>2, <3>1, <3>2 DEF ScaledDownTo, WorkloadsDone
  <2>4. CASE n \notin There(active, bad, scaled)
    <3>1. n \in moves.met /\ ~moves.unsure /\ ~moves.active
      BY <1>7, <2>4 DEF MetNow, UnsureNow
    <3>2. ns[n].svc \in {"off", "down", "stopping"}
      BY <3>1 DEF FrameInv, MetIsStopped
    <3>3. ns'[n] = s \/ ns'[n] = ns[n]
      BY <1>6, <2>1
    <3> QED BY <2>2, <3>2, <3>3 DEF ScaledDownTo
  <2> QED BY <2>3, <2>4
<1>10. \/ git' = git
       \/ ~active /\ git' = Paused
       \/ active /\ AllReady(active, done) /\ git' = Resumed
  BY <1>5 DEF Pass
<1>11. GitShape' /\ (git'.kind = "flux" => git'.automated)
  BY <1>10, GitKept DEF FrameInv
<1>12. TurnInv'
  BY PassTurn DEF FrameInv
<1>13. ASSUME NEW n \in Namespaces, ns'[n].svc = "stopping", ns[n].svc # "stopping"
       PROVE  ns[n].work = "down" \/ n \in moves'.late \/ moves'.unsure
  <2>1. PICK s : s = ScaleWithServices(n, active, Late(StageOf(n, active), active))
    OBVIOUS
  <2>2. n \in worked /\ ns'[n] = s
    BY <1>6, <1>13, <2>1
  <2>3. ~active
    BY <1>13, <2>1, <2>2, MemberAfterPass
  <2>4. ScaledDownTo(n, s, Late(StageOf(n, active), active))
    BY <1>5, <2>1, <2>3, ScaleDown DEF StageShape
  <2>5. Covered(n) /\ WorkloadsDone(n, Late(StageOf(n, active), active))
    BY <1>13, <2>2, <2>4 DEF ScaledDownTo
  <2> SUFFICES ASSUME ns[n].work # "down", n \notin m.late, ~m.unsure PROVE FALSE
    BY <1>6
  <2>6. Late(StageOf(n, active), active)
    BY <2>5 DEF WorkloadsDone
  <2>7. n \notin There(active, bad, scaled)
    BY <1>5, <2>3, ThereIsWorked
  <2>8. ~spec.skip /\ n \in scaled
    BY <1>6, <1>7, <2>2, <2>6, <2>7 DEF LateNow
  <2>9. PICK k \in Reached(active, done) : n \in Stages(active)[k]
    BY <1>2, <2>8 DEF Scaled
  <2>10. /\ StageOf(n, active) = k /\ k \in DOMAIN Stages(active) /\ k \in Nat \ {0}
    BY <1>5, <2>9, StageOfIs, StagesShape DEF Reached, StageShape
  <2>11. status.stage \in Nat /\ k <= Progress(active).stage
    BY <1>5, <2>6, <2>8, <2>10 DEF Late, StageShape, StatusSet
  <2>12. ~Fresh(active) /\ k <= status.stage
    BY <2>10, <2>11 DEF Progress, Fresh
  <2>13. ~moves.unsure /\ moves.active = active
    BY <1>7, <2>12 DEF UnsureNow
  <2>14. n \in moves.met \cup moves.late
    BY <2>9, <2>10, <2>12, <2>13 DEF FrameInv, TurnInv, Behind, Fresh
  <2>15. n \in moves.met
    BY <1>7, <2>12, <2>14 DEF LateNow
  <2>16. ns[n].svc \in {"off", "down", "stopping"}
    BY <2>3, <2>5, <2>13, <2>15 DEF FrameInv, MetIsStopped
  <2> QED BY <1>13, <2>2, <2>4, <2>16 DEF ScaledDownTo
<1>14. ASSUME NEW n \in Namespaces, ns'[n].work = "starting", ns[n].work # "starting", Covered(n)
       PROVE  ns'[n].mark = "none" /\ (ns'[n].svc \in {"up", "off"} \/ n \in Blind)
  <2>1. PICK s : s = ScaleWithServices(n, active, Late(StageOf(n, active), active))
    OBVIOUS
  <2>2. ns'[n] = s
    BY <1>6, <1>14, <2>1
  <2> QED BY <1>14, <2>1, <2>2, MemberAfterPass
<1>15. ServicesOutliveWorkloads
  BY <1>13, <1>14 DEF ServicesOutliveWorkloads
<1>16. ASSUME git.mark, ~git'.mark
       PROVE  (\A n \in Namespaces : ns[n].work = "up") /\ (git'.heals => git.automated)
  <2>1. active /\ AllReady(active, done) /\ git' = Resumed
    BY <1>10, <1>16 DEF Paused
  <2>2. \A n \in Namespaces : ns[n].work = "up"
    <3> TAKE n \in Namespaces
    <3>1. PICK k \in DOMAIN Stages(active) : n \in Stages(active)[k]
      BY <1>5, StagesCover DEF StageShape
    <3>2. StageOf(n, active) = k
      BY <1>5, <3>1, StageOfIs DEF StageShape
    <3>3. k \in done
      BY <2>1, <3>1 DEF AllReady
    <3>4. Ready(n, active, Late(k, active), bad)
      BY <1>1, <3>1, <3>3 DEF DoneStages
    <3>5. n \in There(active, bad, Namespaces)
      BY <3>2, <3>4 DEF There
    <3> QED BY <1>5, <2>1, <3>5, ThereIsWorked
  <2>3. git'.heals => git.automated
    BY <1>16, <2>1, ResumedHeals DEF FrameInv
  <2> QED BY <2>2, <2>3
<1>17. ResumedWhenAllUp
  BY <1>16 DEF ResumedWhenAllUp
<1> QED BY <1>8, <1>9, <1>11, <1>12, <1>15, <1>17 DEF FrameInv

LEMMA FrameStep ==
  ASSUME FrameInv, [Next]_vars
  PROVE  /\ FrameInv'
         /\ ServicesOutliveWorkloads /\ ResumedWhenAllUp
<1>1. StageShape /\ want \in BOOLEAN /\ now \in Nat /\ TurnInv'
  BY TurnStep DEF FrameInv, TurnInv, StageShape
<1>2. /\ GitShape /\ (git.kind = "flux" => git.automated) /\ Marked /\ MetIsStopped
      /\ moves \in MovesSet
  BY DEF FrameInv, TurnInv, StageShape
<1>3. ASSUME NEW bad, NEW effect \in BOOLEAN, now' = now, deleted = None,
             PassOver(want, bad, effect, DoneStages(want, bad))
      PROVE  FrameInv' /\ ServicesOutliveWorkloads /\ ResumedWhenAllUp
  <2>1. PICK active \in BOOLEAN : active = want
    BY <1>1
  <2> QED BY <1>3, <2>1, PassFrame
<1>4. CASE UpdateStatus
  <2>1. /\ ns' = ns /\ git' = git /\ deleted' = deleted /\ spec' = spec /\ ~pass'.busy
        /\ \E lost : moves' = [moves EXCEPT !.lost = lost]
    BY <1>4 DEF UpdateStatus, NoPass
  <2>2. /\ moves'.active = moves.active /\ moves'.met = moves.met /\ moves'.unsure = moves.unsure
    BY <1>2, <2>1 DEF MovesSet
  <2>3. Marked' /\ MetIsStopped' /\ GitShape' /\ (git'.kind = "flux" => git'.automated)
    BY <1>2, <2>1, <2>2 DEF Marked, MetIsStopped, Covered, GitShape
  <2>4. ServicesOutliveWorkloads /\ ResumedWhenAllUp
    BY <2>1 DEF ServicesOutliveWorkloads, ResumedWhenAllUp
  <2> QED BY <1>1, <2>3, <2>4 DEF FrameInv
<1>5. ASSUME NEW bad, Finalize(bad)
      PROVE  FrameInv' /\ ServicesOutliveWorkloads /\ ResumedWhenAllUp
  <2>1. deleted # None /\ deleted' = deleted /\ pass' = pass /\ git' \in {git, Resumed}
    BY <1>5 DEF Finalize
  <2>2. Marked' /\ MetIsStopped'
    BY <2>1 DEF Marked, MetIsStopped
  <2>3. GitShape' /\ (git'.kind = "flux" => git'.automated)
    BY <1>2, <2>1, GitKept
  <2>4. git.mark /\ ~git'.mark => (git'.heals => git.automated)
    BY <1>2, <2>1, ResumedHeals
  <2>5. ServicesOutliveWorkloads /\ ResumedWhenAllUp
    BY <2>1, <2>4 DEF ServicesOutliveWorkloads, ResumedWhenAllUp
  <2> QED BY <1>1, <2>2, <2>3, <2>5 DEF FrameInv
<1>6. CASE Edit
  <2>1. /\ ns' = ns /\ git' = git /\ deleted' = deleted
        /\ pass' = IF pass.busy THEN [pass EXCEPT !.stale = TRUE] ELSE pass
        /\ \E dropped : moves' = [moves EXCEPT !.unsure = TRUE, !.dropped = dropped]
    BY <1>6 DEF Edit
  <2>2. moves'.unsure
    BY <1>2, <2>1 DEF MovesSet
  <2>3. Marked' /\ MetIsStopped' /\ GitShape' /\ (git'.kind = "flux" => git'.automated)
    BY <1>2, <2>1, <2>2 DEF Marked, MetIsStopped, GitShape
  <2>4. pass'.busy => pass.busy
    BY <1>1, <2>1, StalePass
  <2>5. ServicesOutliveWorkloads /\ ResumedWhenAllUp
    BY <2>1, <2>4 DEF ServicesOutliveWorkloads, ResumedWhenAllUp
  <2> QED BY <1>1, <2>3, <2>5 DEF FrameInv
<1>7. CASE Delete
  <2>1. /\ git' = git /\ deleted' = now
        /\ pass' = IF pass.busy THEN [pass EXCEPT !.stale = TRUE] ELSE pass
    BY <1>7 DEF Delete
  <2>2. deleted' # None
    BY <1>1, <2>1 DEF None
  <2>3. Marked' /\ MetIsStopped' /\ GitShape' /\ (git'.kind = "flux" => git'.automated)
    BY <1>2, <2>1, <2>2 DEF Marked, MetIsStopped, GitShape
  <2>4. pass'.busy => pass.busy
    BY <1>1, <2>1, StalePass
  <2>5. ServicesOutliveWorkloads /\ ResumedWhenAllUp
    BY <2>1, <2>4 DEF ServicesOutliveWorkloads, ResumedWhenAllUp
  <2> QED BY <1>1, <2>3, <2>5 DEF FrameInv
<1>8. CASE Around
  <2>1. /\ spec' = spec /\ pass' = pass /\ moves' = moves /\ deleted' = deleted
        /\ \A n \in Namespaces :
               /\ ns'[n].mark = ns[n].mark
               /\ \/ ns'[n].svc \in {ns[n].svc, "off"}
                  \/ ns[n].svc = "stopping" /\ ns'[n].svc = "down"
                  \/ ns[n].svc = "starting" /\ ns'[n].svc = "up"
    BY <1>1, <1>8, AroundShape
  <2>2. Marked'
    BY <1>2, <2>1 DEF Marked
  <2>3. MetIsStopped'
    BY <1>2, <2>1 DEF MetIsStopped, Covered
  <2>4. \/ git' = git
        \/ git' = [git EXCEPT !.automated = FALSE, !.heals = FALSE] /\ git.kind = "argo"
    BY <1>8 DEF Around, Time, Flip, SwitchProvider, SyncByHand, WorkArrives, ServiceArrives,
                PersonStops, Sync, CloudArrives, stageVars
  <2>5. GitShape' /\ (git'.kind = "flux" => git'.automated)
    BY <1>2, <2>4, GitKept
  <2>6. git'.mark = git.mark
    BY <1>2, <2>4 DEF GitShape
  <2>7. ServicesOutliveWorkloads /\ ResumedWhenAllUp
    BY <2>1, <2>6 DEF ServicesOutliveWorkloads, ResumedWhenAllUp
  <2> QED BY <1>1, <2>2, <2>3, <2>5, <2>7 DEF FrameInv
<1>9. CASE UNCHANGED vars
  <2>1. /\ spec' = spec /\ pass' = pass /\ moves' = moves /\ deleted' = deleted /\ ns' = ns
        /\ git' = git
    BY <1>9 DEF vars, stageVars
  <2>2. Marked' /\ MetIsStopped' /\ GitShape' /\ (git'.kind = "flux" => git'.automated)
    BY <1>2, <2>1 DEF Marked, MetIsStopped, Covered, GitShape
  <2>3. ServicesOutliveWorkloads /\ ResumedWhenAllUp
    BY <2>1 DEF ServicesOutliveWorkloads, ResumedWhenAllUp
  <2> QED BY <1>1, <2>2, <2>3 DEF FrameInv
<1> QED BY <1>1, <1>3, <1>4, <1>5, <1>6, <1>7, <1>8, <1>9, Steps

\* For every group: services are stopped only under workloads that are down or given up on
\* and workloads are started only over services that run, and GitOps is resumed only when all
\* of the group is up (ScaleWithServices, resumeGitOps).
THEOREM FrameStands == Spec => FramedInOrder
<1>1. FrameInv /\ [Next]_vars => ServicesOutliveWorkloads /\ ResumedWhenAllUp
  BY FrameStep
<1>2. FrameInv /\ [Next]_vars => FrameInv'
  BY FrameStep
<1> QED BY <1>1, <1>2, FrameInit, PTL DEF Spec, FramedInOrder

-----------------------------------------------------------------------------
(* What a group that is gone leaves.                                        *)

CloudShape == cloud \in [Clouds -> {"running", "stopping", "stopped", "starting"}]

\* What still stops was stopped by the group, and the account has it.
StoppingIsOurs == \A c \in Clouds : cloud[c] = "stopping" => c \in moves.ours

\* What the group stopped is recorded, in the stored status and in the one about to be
\* stored, except what was lost and what the pass that is not stored yet has begun.
OursRecorded ==
    /\ moves.ours \subseteq status.stopped \cup moves.lost \cup (IF pass.busy THEN moves.begun ELSE {})
    /\ pass.busy => moves.ours \subseteq pass.status.stopped \cup moves.lost

\* A namespace that somebody has to bring up again.
LeftDown(n) ==
    \/ ns[n].work \in {"stopping", "down"}
    \/ Covered(n) /\ ns[n].mark # "none" /\ n \notin moves.dropped

\* The stored status tells of what is down, except what was lost and what the pass that is
\* not stored yet has begun.
DownRecorded ==
    \A n \in Namespaces :
        LeftDown(n) /\ n \notin moves.lost => status.phase # "ScaledUp" \/ (pass.busy /\ n \in moves.begun)

\* A mark outside the rules was left there by an edit.
MarksDropped == \A n \in Namespaces : ns[n].mark # "none" /\ ~Covered(n) => n \in moves.dropped

\* A pass that says all is up has left nothing down; and passes end before the group does.
PassTells ==
    pass.busy => /\ pass.status.phase # "gone" /\ status.phase # "gone"
                 /\ pass.status.phase = "ScaledUp" => \A n \in Namespaces : ~LeftDown(n)

GiveInv ==
    /\ FrameInv /\ CloudShape
    /\ StoppingIsOurs /\ OursRecorded /\ DownRecorded /\ MarksDropped /\ PassTells
    /\ GoneGivesBack

LEMMA GiveInit == Init => GiveInv
<1> SUFFICES ASSUME Init PROVE GiveInv
  OBVIOUS
<1>1. CloudShape /\ StoppingIsOurs
  BY DEF Init, CloudShape, StoppingIsOurs
<1>2. OursRecorded
  BY DEF Init, OursRecorded, NoPass
<1>3. DownRecorded /\ MarksDropped
  BY DEF Init, DownRecorded, MarksDropped, LeftDown
<1>4. PassTells /\ GoneGivesBack
  BY DEF Init, PassTells, GoneGivesBack, NoPass, Gone
<1> QED BY <1>1, <1>2, <1>3, <1>4, FrameInit DEF GiveInv

\* What a start or a stop makes of a cloud resource.
LEMMA ScaleIs ==
  ASSUME CloudShape, NEW c \in Clouds, NEW active \in BOOLEAN
  PROVE  /\ Scale(c, active) \in {"running", "stopping", "stopped", "starting"}
         /\ Scale(c, TRUE) = "stopping" => cloud[c] = "stopping"
         /\ Scale(c, TRUE) = "running" <=> cloud[c] = "running"
         /\ IsReady(c, Scale(c, TRUE), TRUE) => cloud[c] = "running"
<1>1. cloud[c] \in {"running", "stopping", "stopped", "starting"}
  BY DEF CloudShape
<1>2. /\ Scale(c, active) \in {"running", "stopping", "stopped", "starting"}
      /\ Scale(c, TRUE) = "stopping" => cloud[c] = "stopping"
      /\ Scale(c, TRUE) = "running" <=> cloud[c] = "running"
  BY <1>1 DEF Scale
<1>3. IsReady(c, Scale(c, TRUE), TRUE) => Scale(c, TRUE) = "running"
  BY DEF IsReady, isAWSReady, isGCPReady, isAzureReady
<1> QED BY <1>2, <1>3

\* A pass records what it stops, and forgets only what it has seen running.
LEMMA PassClouds ==
  ASSUME StageShape, CloudShape, StoppingIsOurs, moves.ours \subseteq status.stopped \cup moves.lost,
         NEW active \in BOOLEAN, NEW bad, NEW effect \in BOOLEAN,
         PassOver(active, bad, effect, DoneStages(active, bad))
  PROVE  CloudShape' /\ StoppingIsOurs' /\ OursRecorded'
<1>1. PICK done : done = DoneStages(active, bad)
  OBVIOUS
<1>2. PICK scaled : scaled = Scaled(active, done)
  OBVIOUS
<1>3. PICK worked : worked = Worked(active, bad, effect, scaled)
  OBVIOUS
<1>4. PICK m : m = Account(active, bad, scaled, worked)
  OBVIOUS
<1>5. PICK st : st = NewStatus(active, bad, done, worked)
  OBVIOUS
<1>6. PassOver(active, bad, effect, done) /\ Pass(active, bad, effect, done, scaled)
  BY <1>1, <1>2 DEF PassOver
<1>7. /\ scaled \in SUBSET Targets /\ worked \in SUBSET scaled /\ status' = status
      /\ pass' = [busy |-> TRUE, stale |-> FALSE, status |-> st]
      /\ moves'.begun = m.begun
      /\ moves'.ours = m.ours \ {c \in Started(bad) : cloud[c] = "running"}
      /\ moves'.lost = moves.lost \cup ({bad} \cap worked)
  BY <1>1, <1>2, <1>3, <1>4, <1>5, <1>6, PassShape
<1>8. scaled \in SUBSET Targets /\ worked \in SUBSET scaled
  BY <1>7
<1>9. m.ours = (moves.ours \cup {c \in worked \cap Clouds : Scale(c, active) = "stopping"})
               \ {c \in worked \cap Clouds : active /\ cloud[c] = "running"}
  BY <1>4, <1>8, AccountOurs
<1>10. scaled \subseteq m.begun
  <2>1. moves \in MovesSet
    BY DEF StageShape
  <2> QED BY <1>4, <2>1 DEF Account, MovesSet
<1>11. st.stopped = NewStopped(active, bad, worked)
  BY <1>5, NewStatusShape
<1>12. cloud' = [c \in Clouds |-> IF c \in Started(bad) THEN Scale(c, TRUE)
                                  ELSE IF c \in worked THEN Scale(c, active) ELSE cloud[c]]
  BY <1>3, <1>6 DEF Pass, Started, Worked
<1>13. CloudShape'
  <2>1. \A c \in Clouds : /\ Scale(c, TRUE) \in {"running", "stopping", "stopped", "starting"}
                          /\ Scale(c, active) \in {"running", "stopping", "stopped", "starting"}
    BY ScaleIs
  <2> QED BY <1>12, <2>1 DEF CloudShape
<1>14. StoppingIsOurs'
  <2> SUFFICES ASSUME NEW c \in Clouds, cloud'[c] = "stopping" PROVE c \in moves'.ours
    BY DEF StoppingIsOurs
  <2>1. CASE c \in Started(bad)
    <3>1. cloud[c] = "stopping"
      BY <1>12, <2>1, ScaleIs
    <3> QED BY <1>7, <1>9, <3>1 DEF StoppingIsOurs
  <2>2. CASE c \notin Started(bad) /\ c \in worked
    <3>1. Scale(c, active) = "stopping" /\ (active => cloud[c] = "stopping")
      BY <1>12, <2>2, ScaleIs
    <3> QED BY <1>7, <1>9, <2>2, <3>1
  <2>3. CASE c \notin Started(bad) /\ c \notin worked
    BY <1>7, <1>9, <1>12, <2>3 DEF StoppingIsOurs
  <2> QED BY <2>1, <2>2, <2>3
<1>15. ASSUME NEW c \in moves'.ours
       PROVE  c \in st.stopped \cup moves'.lost /\ c \in status.stopped \cup moves'.lost \cup m.begun
  <2>1. /\ c \in Clouds
        /\ c \in moves.ours \/ (c \in worked /\ Scale(c, active) = "stopping")
        /\ ~(c \in worked /\ active /\ cloud[c] = "running")
        /\ ~(c \in Started(bad) /\ cloud[c] = "running")
    BY <1>7, <1>9, <1>15 DEF StageShape, MovesSet
  <2>2. IsReady(c, Scale(c, TRUE), TRUE) => cloud[c] = "running"
    BY <2>1, ScaleIs
  <2>3. CASE c \in moves.ours
    <3>1. CASE c \in moves.lost
      BY <1>7, <3>1
    <3>2. CASE c \in status.stopped
      BY <1>11, <2>1, <2>2, <3>2 DEF NewStopped, Recorded
    <3> QED BY <2>3, <3>1, <3>2
  <2>4. CASE c \notin moves.ours
    <3>1. c \in worked /\ ~active
      BY <2>1, <2>4, ScaleIs DEF StoppingIsOurs
    <3>2. CASE c = bad
      BY <1>7, <3>1, <3>2
    <3>3. CASE c # bad
      BY <1>8, <1>10, <1>11, <2>1, <3>1, <3>3 DEF NewStopped, Recorded
    <3> QED BY <3>2, <3>3
  <2> QED BY <2>3, <2>4
<1>16. OursRecorded'
  BY <1>7, <1>15 DEF OursRecorded
<1> QED BY <1>13, <1>14, <1>16

\* A pass that finds every stage there has worked on every namespace.
LEMMA AllReadyIsThere ==
  ASSUME StageShape, NEW active \in BOOLEAN, NEW bad, NEW done, done = DoneStages(active, bad),
         NEW scaled, scaled = Scaled(active, done), AllReady(active, done), NEW n \in Namespaces
  PROVE  n \in There(active, bad, scaled)
<1>1. PICK k \in DOMAIN Stages(active) : n \in Stages(active)[k]
  BY StagesCover DEF StageShape
<1>2. StageOf(n, active) = k
  BY <1>1, StageOfIs DEF StageShape
<1>3. k \in done /\ Ready(n, active, Late(k, active), bad)
  BY <1>1 DEF AllReady, DoneStages
<1>4. Count(active) \in Nat /\ DOMAIN Stages(active) = 1..Count(active)
  BY StagesShape DEF StageShape
<1>5. k \in Reached(active, done)
  <2>1. \A j \in 1..k - 1 : j \in done
    BY <1>1, <1>4 DEF AllReady
  <2> QED BY <1>1, <2>1 DEF Reached
<1>6. n \in scaled
  BY <1>1, <1>5 DEF Scaled
<1> QED BY <1>2, <1>3, <1>6 DEF There

\* The status a pass is about to store tells of what the pass leaves down.
LEMMA PassMembers ==
  ASSUME StageShape, DownRecorded, MarksDropped, ~pass.busy, status.phase # "gone",
         NEW active \in BOOLEAN, NEW bad, NEW effect \in BOOLEAN,
         PassOver(active, bad, effect, DoneStages(active, bad))
  PROVE  DownRecorded' /\ MarksDropped' /\ PassTells'
<1>1. PICK done : done = DoneStages(active, bad)
  OBVIOUS
<1>2. PICK scaled : scaled = Scaled(active, done)
  OBVIOUS
<1>3. PICK worked : worked = Worked(active, bad, effect, scaled)
  OBVIOUS
<1>4. PICK m : m = Account(active, bad, scaled, worked)
  OBVIOUS
<1>5. PICK st : st = NewStatus(active, bad, done, worked)
  OBVIOUS
<1>6. PassOver(active, bad, effect, done)
  BY <1>1
<1>7. /\ scaled \in SUBSET Targets /\ worked \in SUBSET scaled /\ status' = status /\ spec' = spec
      /\ ns' = [n \in Namespaces |->
                IF n \in worked THEN ScaleWithServices(n, active, Late(StageOf(n, active), active))
                ELSE ns[n]]
      /\ pass' = [busy |-> TRUE, stale |-> FALSE, status |-> st]
      /\ moves'.begun = m.begun /\ moves'.dropped = moves.dropped
      /\ moves'.lost = moves.lost \cup ({bad} \cap worked)
  BY <1>1, <1>2, <1>3, <1>4, <1>5, <1>6, PassShape
<1>8. scaled \subseteq m.begun
  <2>1. moves \in MovesSet
    BY DEF StageShape
  <2> QED BY <1>4, <2>1 DEF Account, MovesSet
<1>9. /\ st.phase = "ScaledUp" => active /\ AllReady(active, done)
      /\ st.phase # "gone"
  <2>1. /\ st \in StatusSet
        /\ ~AllReady(active, done) =>
             /\ st.phase = InProgress(active)
             /\ st.stage \in {Cardinality(Over(active, done)), Progress(active).stage}
        /\ AllReady(active, done) => st.phase = IF active THEN "ScaledUp" ELSE "ScaledDown"
        /\ st.stopped = NewStopped(active, bad, worked)
    BY <1>5, NewStatusShape
  <2> QED BY <2>1 DEF InProgress
<1>10. \A n \in Namespaces : n \notin worked => (LeftDown(n)' <=> LeftDown(n))
  BY <1>7 DEF LeftDown, Covered
<1>11. DownRecorded'
  <2> SUFFICES ASSUME NEW n \in Namespaces, LeftDown(n)', n \notin moves'.lost
               PROVE  status.phase # "ScaledUp" \/ n \in m.begun
    BY <1>7 DEF DownRecorded
  <2>1. CASE n \in worked
    BY <1>7, <1>8, <2>1
  <2>2. CASE n \notin worked
    BY <1>7, <1>10, <2>2 DEF DownRecorded
  <2> QED BY <2>1, <2>2
<1>12. MarksDropped'
  <2> SUFFICES ASSUME NEW n \in Namespaces, ~Covered(n)
               PROVE  ns'[n].mark = ns[n].mark
    BY <1>7 DEF MarksDropped, Covered
  <2>1. PICK s : s = ScaleWithServices(n, active, Late(StageOf(n, active), active))
    OBVIOUS
  <2>2. s.mark = ns[n].mark
    <3>1. CASE active
      <4>1. ScaledUpTo(n, s)
        BY <2>1, <3>1, ScaleUp DEF StageShape
      <4> QED BY <4>1 DEF ScaledUpTo
    <3>2. CASE ~active
      <4>1. ScaledDownTo(n, s, Late(StageOf(n, active), active))
        BY <2>1, <3>2, ScaleDown DEF StageShape
      <4> QED BY <4>1 DEF ScaledDownTo
    <3> QED BY <3>1, <3>2
  <2> QED BY <1>7, <2>1, <2>2
<1>13. ASSUME st.phase = "ScaledUp", NEW n \in Namespaces
       PROVE  ~LeftDown(n)'
  <2>1. active /\ n \in There(active, bad, scaled)
    BY <1>1, <1>2, <1>9, <1>13, AllReadyIsThere
  <2>2. PICK s : s = ScaleWithServices(n, active, Late(StageOf(n, active), active))
    OBVIOUS
  <2>3. /\ n \in worked /\ ns[n].work = "up"
        /\ ~Covered(n) \/ n \in Blind \/ serviceReady(s, active)
    BY <1>3, <2>1, <2>2, ThereIsWorked
  <2>4. ScaledUpTo(n, s)
    BY <2>1, <2>2, ScaleUp DEF StageShape
  <2>5. s.work = "up" /\ (Covered(n) => s.mark = "none")
    BY <2>1, <2>3, <2>4 DEF ScaledUpTo, serviceReady
  <2>6. ns'[n] = s
    BY <1>7, <2>2, <2>3
  <2> QED BY <1>7, <2>5, <2>6 DEF LeftDown, Covered
<1>14. PassTells'
  BY <1>7, <1>9, <1>13 DEF PassTells
<1> QED BY <1>11, <1>12, <1>14

\* Storing the status, or losing it, leaves nothing unaccounted for.
LEMMA UpdateGives ==
  ASSUME GiveInv, FrameInv', UpdateStatus
  PROVE  GiveInv'
<1>1. /\ StageShape /\ moves \in MovesSet /\ pass.busy
      /\ CloudShape /\ StoppingIsOurs /\ OursRecorded /\ DownRecorded /\ MarksDropped /\ PassTells
  BY DEF GiveInv, FrameInv, TurnInv, StageShape, UpdateStatus
<1>2. /\ ns' = ns /\ spec' = spec /\ cloud' = cloud /\ ~pass'.busy
      /\ \/ /\ status' = pass.status
            /\ moves' = [moves EXCEPT !.lost = (moves.lost \cap moves.ours) \ pass.status.stopped]
         \/ /\ status' = status
            /\ moves' = [moves EXCEPT !.lost = moves.lost \cup moves.begun]
  BY <1>1 DEF UpdateStatus, NoPass, MovesSet
<1>3. /\ moves'.ours = moves.ours /\ moves'.dropped = moves.dropped
      /\ \/ /\ status' = pass.status
            /\ moves'.lost = (moves.lost \cap moves.ours) \ pass.status.stopped
         \/ /\ status' = status
            /\ moves'.lost = moves.lost \cup moves.begun
  BY <1>1, <1>2 DEF MovesSet
<1>4. CloudShape' /\ StoppingIsOurs'
  BY <1>1, <1>2, <1>3 DEF CloudShape, StoppingIsOurs
<1>5. OursRecorded'
  BY <1>1, <1>2, <1>3 DEF OursRecorded
<1>6. \A n \in Namespaces : LeftDown(n)' <=> LeftDown(n)
  BY <1>2, <1>3 DEF LeftDown, Covered
<1>7. DownRecorded'
  BY <1>1, <1>2, <1>3, <1>6 DEF DownRecorded, PassTells
<1>8. MarksDropped'
  BY <1>1, <1>2, <1>3 DEF MarksDropped, Covered
<1>9. PassTells' /\ ~Gone'
  BY <1>1, <1>2 DEF PassTells, Gone
<1> QED BY <1>4, <1>5, <1>7, <1>8, <1>9 DEF GiveInv, GoneGivesBack

\* A release that goes through starts what the status tells of, and that is everything.
LEMMA FinalizeGives ==
  ASSUME GiveInv, FrameInv', NEW bad, Finalize(bad)
  PROVE  GiveInv'
<1>1. /\ StageShape /\ moves \in MovesSet /\ status \in StatusSet /\ ns \in [Namespaces -> Member]
      /\ CloudShape /\ StoppingIsOurs /\ OursRecorded /\ DownRecorded /\ MarksDropped /\ GitShape
  BY DEF GiveInv, FrameInv, TurnInv, StageShape
<1>2. PICK started : started = {c \in status.stopped \ {bad} : ~CloudFails(c, TRUE)}
  OBVIOUS
<1>3. PICK failed \in BOOLEAN :
         failed <=> (bad # "nothing" \/ \E c \in status.stopped : c \notin started \/ cloud[c] # "running")
  OBVIOUS
<1>4. /\ ~Gone /\ ~pass.busy /\ pass' = pass /\ spec' = spec
      /\ ns' = [n \in Namespaces |-> IF n = bad THEN ns[n] ELSE ReleaseNamespace(n)]
      /\ cloud' = [c \in Clouds |-> IF c \in started THEN Scale(c, TRUE) ELSE cloud[c]]
      /\ git' = IF bad = "git" THEN git ELSE Resumed
      /\ status' = status \/ status' = [status EXCEPT !.phase = "gone"]
  BY <1>2 DEF Finalize
<1>5. moves' = [moves EXCEPT !.ours = moves.ours \ {c \in started : cloud[c] = "running"},
                             !.abandoned = failed]
  <2>1. moves' = [moves EXCEPT
             !.ours = moves.ours \ {c \in started : cloud[c] = "running"},
             !.abandoned = (bad # "nothing" \/ \E c \in status.stopped : c \notin started \/ cloud[c] # "running")]
    BY <1>1, <1>2 DEF Finalize, MovesSet
  <2> QED BY <1>3, <2>1
<1>6. /\ moves'.ours = moves.ours \ {c \in started : cloud[c] = "running"}
      /\ moves'.abandoned = failed /\ moves'.lost = moves.lost /\ moves'.dropped = moves.dropped
  BY <1>1, <1>5 DEF MovesSet
<1>7. /\ status'.stopped = status.stopped
      /\ status'.phase \in {status.phase, "gone"}
  BY <1>1, <1>4 DEF StatusSet
<1>8. CloudShape' /\ StoppingIsOurs'
  <2>1. \A c \in Clouds : /\ Scale(c, TRUE) \in {"running", "stopping", "stopped", "starting"}
                          /\ Scale(c, TRUE) = "stopping" => cloud[c] = "stopping"
    BY <1>1, ScaleIs
  <2>2. CloudShape'
    BY <1>1, <1>4, <2>1 DEF CloudShape
  <2>3. StoppingIsOurs'
    BY <1>1, <1>4, <1>6, <2>1 DEF StoppingIsOurs
  <2> QED BY <2>2, <2>3
<1>9. OursRecorded'
  BY <1>1, <1>4, <1>6, <1>7 DEF OursRecorded
<1>10. ASSUME NEW n \in Namespaces
       PROVE  /\ LeftDown(n)' => LeftDown(n)
              /\ n # bad /\ scaledByThem => ~LeftDown(n)'
              /\ ~Covered(n) => ns'[n].mark = ns[n].mark
  <2>1. PICK s : s = ReleaseNamespace(n)
    OBVIOUS
  <2>2. /\ s \in Member
        /\ scaledByThem => s.work \notin {"stopping", "down"} /\ (Covered(n) => s.mark = "none")
        /\ ~scaledByThem => s = ns[n]
        /\ ~Covered(n) => s.mark = ns[n].mark
    BY <1>1, <2>1, ReleaseShape
  <2>3. ns'[n] = IF n = bad THEN ns[n] ELSE s
    BY <1>4, <2>1
  <2> QED BY <1>4, <1>6, <2>2, <2>3 DEF LeftDown, Covered
<1>11. DownRecorded' /\ MarksDropped' /\ PassTells'
  <2>1. DownRecorded'
    BY <1>1, <1>4, <1>6, <1>7, <1>10 DEF DownRecorded
  <2>2. MarksDropped'
    BY <1>1, <1>4, <1>6, <1>10 DEF MarksDropped, Covered
  <2>3. PassTells'
    BY <1>4 DEF PassTells
  <2> QED BY <2>1, <2>2, <2>3
<1>12. GoneGivesBack'
  <2> SUFFICES ASSUME ~failed
               PROVE  /\ moves'.ours \subseteq moves.lost /\ ~git'.mark
                      /\ \A n \in Namespaces \ moves.lost :
                             /\ ns'[n].work \in {"up", "starting"}
                             /\ Covered(n) => ns'[n].mark = "none" \/ n \in moves.dropped
    BY <1>4, <1>6 DEF GoneGivesBack, Covered
  <2>1. bad = "nothing" /\ \A c \in status.stopped : c \in started /\ cloud[c] = "running"
    BY <1>3
  <2>2. moves'.ours \subseteq moves.lost
    BY <1>1, <1>4, <1>6, <2>1 DEF OursRecorded
  <2>3. ~git'.mark
    BY <1>1, <1>4, <2>1 DEF Resumed, GitShape
  <2>4. ASSUME NEW n \in Namespaces \ moves.lost
        PROVE  /\ ns'[n].work \in {"up", "starting"}
               /\ Covered(n) => ns'[n].mark = "none" \/ n \in moves.dropped
    <3>1. n # bad
      BY <2>1, StageAssumption DEF Targets
    <3>2. ~LeftDown(n)'
      <4>1. CASE scaledByThem
        BY <1>10, <3>1, <4>1
      <4>2. CASE ~scaledByThem
        BY <1>1, <1>4, <1>10, <4>2 DEF DownRecorded, scaledByThem
      <4> QED BY <4>1, <4>2
    <3>3. ns'[n] \in Member
      BY DEF FrameInv, TurnInv, StageShape
    <3> QED BY <1>4, <1>6, <3>2, <3>3 DEF LeftDown, Covered, Member
  <2> QED BY <2>2, <2>3, <2>4
<1> QED BY <1>8, <1>9, <1>11, <1>12 DEF GiveInv

\* Edits and everything around the group.
LEMMA OthersGive ==
  ASSUME GiveInv, FrameInv', Delete \/ Edit \/ Around
  PROVE  GiveInv'
<1>1. /\ StageShape /\ moves \in MovesSet /\ ns \in [Namespaces -> Member]
      /\ CloudShape /\ StoppingIsOurs /\ OursRecorded /\ DownRecorded /\ MarksDropped /\ PassTells
  BY DEF GiveInv, FrameInv, TurnInv, StageShape
<1>2. /\ ~Gone /\ status' = status
      /\ pass'.busy <=> pass.busy
      /\ pass'.busy => pass'.status = pass.status
  <2>1. CASE Delete \/ Edit
    <3>1. /\ ~Gone /\ status' = status
          /\ pass' = IF pass.busy THEN [pass EXCEPT !.stale = TRUE] ELSE pass
      BY <2>1 DEF Delete, Edit
    <3> QED BY <1>1, <3>1, StalePass
  <2>2. CASE Around
    <3>1. pass' = pass /\ status' = status
      BY <1>1, <2>2, AroundShape
    <3>2. ~Gone
      BY <2>2 DEF Around, Time, Flip, SwitchProvider, SyncByHand, WorkArrives, ServiceArrives,
                  PersonStops, Sync, CloudArrives
    <3> QED BY <3>1, <3>2
  <2> QED BY <2>1, <2>2
<1>3. /\ moves'.ours = moves.ours /\ moves'.lost = moves.lost /\ moves'.begun = moves.begun
      /\ \A n \in Namespaces : LeftDown(n)' => LeftDown(n)
      /\ MarksDropped'
  <2>1. CASE Edit
    <3>1. /\ ns' = ns
          /\ moves' = [moves EXCEPT
                 !.unsure = TRUE,
                 !.dropped = moves.dropped \cup {n \in spec.rules \ spec'.rules : ns[n].mark # "none"}]
      BY <1>1, <2>1 DEF Edit, MovesSet
    <3>2. /\ moves'.ours = moves.ours /\ moves'.lost = moves.lost /\ moves'.begun = moves.begun
          /\ moves'.dropped = moves.dropped \cup {n \in spec.rules \ spec'.rules : ns[n].mark # "none"}
      BY <1>1, <3>1 DEF MovesSet
    <3>3. \A n \in Namespaces : LeftDown(n)' => LeftDown(n)
      BY <1>1, <3>1, <3>2 DEF LeftDown, Covered, MarksDropped
    <3>4. MarksDropped'
      BY <1>1, <3>1, <3>2 DEF Covered, MarksDropped
    <3> QED BY <3>2, <3>3, <3>4
  <2>2. CASE Delete
    <3>1. ns' = ns /\ moves' = moves /\ spec' = spec
      BY <2>2 DEF Delete
    <3> QED BY <1>1, <3>1 DEF LeftDown, Covered, MarksDropped
  <2>3. CASE Around
    <3>1. /\ moves' = moves /\ spec' = spec
          /\ \A n \in Namespaces :
                /\ ns'[n].mark = ns[n].mark
                /\ ns'[n].work \in {ns[n].work, "starting"}
                   \/ (ns[n].work = "stopping" /\ ns'[n].work = "down")
                   \/ (ns[n].work = "starting" /\ ns'[n].work = "up")
      BY <1>1, <2>3, AroundShape
    <3> QED BY <1>1, <3>1 DEF LeftDown, Covered, MarksDropped
  <2> QED BY <2>1, <2>2, <2>3
<1>4. CloudShape' /\ (\A c \in Clouds : cloud'[c] = "stopping" => cloud[c] = "stopping")
  <2>1. CASE cloud' = cloud
    BY <1>1, <2>1 DEF CloudShape
  <2>2. ASSUME NEW c \in Clouds, CloudArrives(c)
        PROVE  CloudShape' /\ (\A d \in Clouds : cloud'[d] = "stopping" => cloud[d] = "stopping")
    BY <1>1, <2>2 DEF CloudArrives, CloudShape
  <2>3. cloud' = cloud \/ \E c \in Clouds : CloudArrives(c)
    BY DEF Delete, Edit, Around, Time, Flip, SwitchProvider, SyncByHand, WorkArrives,
           ServiceArrives, PersonStops, Sync, stageVars
  <2> QED BY <2>1, <2>2, <2>3
<1>5. StoppingIsOurs'
  BY <1>1, <1>3, <1>4 DEF StoppingIsOurs
<1>6. OursRecorded'
  BY <1>1, <1>2, <1>3 DEF OursRecorded
<1>7. DownRecorded'
  BY <1>1, <1>2, <1>3 DEF DownRecorded
<1>8. PassTells'
  BY <1>1, <1>2, <1>3 DEF PassTells
<1>9. GoneGivesBack'
  BY <1>2 DEF GoneGivesBack, Gone
<1> QED BY <1>3, <1>4, <1>5, <1>6, <1>7, <1>8, <1>9 DEF GiveInv

LEMMA GiveStep ==
  ASSUME GiveInv, [Next]_vars
  PROVE  GiveInv'
<1>1. FrameInv' /\ StageShape /\ want \in BOOLEAN
  BY FrameStep DEF GiveInv, FrameInv, TurnInv, StageShape
<1>2. ASSUME NEW bad, NEW effect \in BOOLEAN, ~Gone, ~pass.busy,
             PassOver(want, bad, effect, DoneStages(want, bad))
      PROVE  GiveInv'
  <2>1. PICK active \in BOOLEAN : active = want
    BY <1>1
  <2>2. /\ CloudShape /\ StoppingIsOurs /\ OursRecorded /\ DownRecorded /\ MarksDropped
        /\ status.phase # "gone" /\ PassOver(active, bad, effect, DoneStages(active, bad))
    BY <1>2, <2>1 DEF GiveInv, Gone
  <2>3. moves.ours \subseteq status.stopped \cup moves.lost
    BY <1>2, <2>2 DEF OursRecorded
  <2>4. CloudShape' /\ StoppingIsOurs' /\ OursRecorded'
    BY <1>1, <2>2, <2>3, PassClouds
  <2>5. DownRecorded' /\ MarksDropped' /\ PassTells'
    BY <1>1, <1>2, <2>2, PassMembers
  <2>6. status' = status
    BY <2>2 DEF PassOver, Pass
  <2>7. GoneGivesBack'
    BY <1>2, <2>6 DEF GoneGivesBack, Gone
  <2> QED BY <1>1, <2>4, <2>5, <2>7 DEF GiveInv
<1>3. CASE UNCHANGED vars
  <2>1. /\ spec' = spec /\ pass' = pass /\ moves' = moves /\ deleted' = deleted /\ ns' = ns
        /\ git' = git /\ status' = status /\ cloud' = cloud
    BY <1>3 DEF vars, stageVars
  <2>2. /\ CloudShape /\ StoppingIsOurs /\ OursRecorded /\ DownRecorded /\ MarksDropped
        /\ PassTells /\ GoneGivesBack
    BY DEF GiveInv
  <2>3. CloudShape' /\ StoppingIsOurs' /\ OursRecorded'
    BY <2>1, <2>2 DEF CloudShape, StoppingIsOurs, OursRecorded
  <2>4. DownRecorded' /\ MarksDropped' /\ PassTells'
    BY <2>1, <2>2 DEF DownRecorded, MarksDropped, PassTells, LeftDown, Covered
  <2>5. GoneGivesBack'
    BY <2>1, <2>2 DEF GoneGivesBack, Gone, Covered
  <2> QED BY <1>1, <2>3, <2>4, <2>5 DEF GiveInv
<1> QED BY <1>1, <1>2, <1>3, Steps, UpdateGives, FinalizeGives, OthersGive

\* For every group, however its passes and statuses failed and whoever edited it on the way:
\* once it is gone without having given up, all it had stopped and not lost is started, its
\* cloud resources run and GitOps is resumed (finalize, releaseExternalTargets).
THEOREM GoneGaveBack == Spec => []GoneGivesBack
<1>1. GiveInv => GoneGivesBack
  BY DEF GiveInv
<1> QED BY <1>1, GiveInit, GiveStep, PTL DEF Spec
=============================================================================
