---------------------------- MODULE LeaderJobsProofs ----------------------------
(***************************************************************************)
(* Theorems about LeaderJobs, for any number of namespaces, any settings,  *)
(* channels, budgets, risks and schedules, and however often the leader    *)
(* breaks off: preview namespaces are deleted as their users were told, no *)
(* more of them in an hour than allowed, the cost history books every hour *)
(* once, on one day, for what it cost, no channel is told the same thing   *)
(* twice, and what was told and is open is not lost.                       *)
(***************************************************************************)
EXTENDS LeaderJobs, FiniteSetTheorems, SequenceTheorems, WellFoundedInduction, TLAPS

-----------------------------------------------------------------------------
(* Time and the shapes of the cleanup's state.                              *)

NewsTypes == [uid : Nat \ {0}, created : Nat, label : Int, listed : BOOLEAN,
              expires : Nat \cup {None}, warned : Nat \cup {None}]
Entries == [name : Names, uid : Nat \ {0}, expires : Nat, protected : BOOLEAN, warned : BOOLEAN]
WalkShape == [pc : {"walk", "record"}, plan : Seq(Entries), at : Nat, budget : Int, warn : Nat]
StampShape == [pc : {"stamp"}, plan : Seq(Entries), at : Nat, budget : Int, warn : Nat,
               until : Nat, postponed : BOOLEAN]
Deleted == [name : Names, uid : Nat, at : Nat, recorded : BOOLEAN]

CleanupShape ==
    /\ now \in Nat
    /\ namespaces \in [Names -> NewsTypes \cup {Absent}]
    /\ lives \in [Names -> Nat]
    /\ setting \in Settings
    /\ deletedLog \in Seq(Nat)
    /\ reaper \in {Idle} \cup WalkShape \cup StampShape
    /\ reaper # Idle /\ reaper.pc # "walk" => reaper.plan # <<>>
    /\ told \in [Names -> SUBSET Nat]
    /\ promised \in [Names -> Nat \cup {None}]
    /\ deletions \subseteq Deleted

\* A warning on a namespace, or counted in a plan, was posted for that expiry; and what
\* the API answered before the plan was made is in the namespace and in the plan.
AsTold(n) ==
    /\ namespaces[n] # Absent /\ namespaces[n].warned # None => namespaces[n].warned \in told[n]
    /\ namespaces[n] # Absent /\ promised[n] # None =>
         namespaces[n].expires # None /\ namespaces[n].expires >= promised[n]
PlannedAsTold(e) ==
    /\ e.warned => e.expires \in told[e.name]
    /\ promised[e.name] <= e.expires

TellInv ==
    /\ CleanupShape
    /\ \A n \in Names : AsTold(n)
    /\ reaper # Idle => \A i \in DOMAIN reaper.plan : PlannedAsTold(reaper.plan[i])
    /\ reaper # Idle /\ reaper.pc = "stamp" =>
         /\ reaper.until \in told[Entry.name]
         /\ IF reaper.postponed THEN reaper.until >= Entry.expires ELSE reaper.until = Entry.expires

LEMMA PlannedShape ==
  ASSUME CleanupShape, NEW n \in Names, namespaces[n] # Absent, NEW t \in Settings
  PROVE  /\ Planned(n, namespaces[n], t) \in Entries
         /\ Planned(n, namespaces[n], t).name = n
         /\ AsTold(n) => PlannedAsTold(Planned(n, namespaces[n], t))
<1>1. /\ namespaces[n] \in NewsTypes /\ promised[n] \in Nat \cup {None}
  BY DEF CleanupShape
<1>2. t.ttl \in Nat \cup {None}
  BY CleanupAssumption
<1>3. /\ namespaces[n].expires \in Nat \cup {None} /\ namespaces[n].created \in Nat
      /\ namespaces[n].uid \in Nat \ {0} /\ namespaces[n].label \in Int
      /\ namespaces[n].listed \in BOOLEAN /\ namespaces[n].warned \in Nat \cup {None}
  BY <1>1 DEF NewsTypes
<1>4. PICK x \in Nat, k \in BOOLEAN :
        /\ Planned(n, namespaces[n], t) =
             [name |-> n, uid |-> namespaces[n].uid, expires |-> x, protected |-> k,
              warned |-> namespaces[n].warned = x]
        /\ namespaces[n].expires # None => x = namespaces[n].expires
  <2>1. CASE namespaces[n].expires # None
    BY <1>3, <2>1 DEF Planned, protected
  <2>2. CASE namespaces[n].expires = None /\ Life(namespaces[n], t) = None
    BY <1>3, <2>2 DEF Planned
  <2>3. CASE namespaces[n].expires = None /\ Life(namespaces[n], t) # None
    <3>1. Life(namespaces[n], t) \in Nat
      BY <1>2, <1>3, <2>3 DEF Life, ParseTTL, None
    <3>2. namespaces[n].created + Life(namespaces[n], t) \in Nat
      BY <1>3, <3>1
    <3>3. protected(n, namespaces[n]) \in BOOLEAN
      BY <1>3 DEF protected
    <3> HIDE DEF Life, protected
    <3> QED BY <2>3, <3>2, <3>3 DEF Planned
  <2> QED BY <2>1, <2>2, <2>3
<1>5. PICK e : e = Planned(n, namespaces[n], t)
  OBVIOUS
<1>6. /\ e \in Entries /\ e.name = n /\ e.expires = x
      /\ (e.warned => namespaces[n].warned = x)
  <2>1. PICK b \in BOOLEAN : b = (namespaces[n].warned = x)
    OBVIOUS
  <2>2. e = [name |-> n, uid |-> namespaces[n].uid, expires |-> x, protected |-> k, warned |-> b]
    BY <1>4, <1>5, <2>1
  <2>3. e \in Entries /\ e.name = n /\ e.expires = x /\ e.warned = b
    BY <1>3, <2>2 DEF Entries
  <2>4. b => namespaces[n].warned = x
    BY <2>1, Zenon
  <2> QED BY <2>3, <2>4
<1>7. ASSUME AsTold(n) PROVE PlannedAsTold(e)
  <2>1. e.warned => x \in told[n]
    BY <1>4, <1>6, <1>7 DEF AsTold, None
  <2>2. promised[n] <= x
    BY <1>1, <1>3, <1>4, <1>7 DEF AsTold, None
  <2> QED BY <1>6, <2>1, <2>2 DEF PlannedAsTold
<1> QED BY <1>5, <1>6, <1>7

\* The fields of a run, whether it walks or stamps.
LEMMA RunShape ==
  ASSUME CleanupShape, reaper # Idle
  PROVE  /\ reaper.pc \in {"walk", "record", "stamp"}
         /\ reaper.plan \in Seq(Entries) /\ reaper.at \in Nat /\ reaper.budget \in Int
         /\ reaper.warn \in Nat
         /\ reaper.pc # "stamp" => reaper \in WalkShape
         /\ reaper.pc = "stamp" => reaper \in StampShape
         /\ reaper.plan # <<>> =>
              /\ Entry \in Entries /\ Entry = reaper.plan[1] /\ 1 \in DOMAIN reaper.plan
              /\ Tail(reaper.plan) \in Seq(Entries)
              /\ \A i \in DOMAIN Tail(reaper.plan) :
                    i + 1 \in DOMAIN reaper.plan /\ Tail(reaper.plan)[i] = reaper.plan[i + 1]
<1>1. reaper \in WalkShape \cup StampShape
  BY DEF CleanupShape
<1>2. /\ reaper.plan \in Seq(Entries) /\ reaper.at \in Nat /\ reaper.budget \in Int
      /\ reaper.warn \in Nat
  BY <1>1 DEF WalkShape, StampShape
<1>3. /\ reaper.pc \in {"walk", "record", "stamp"}
      /\ reaper.pc # "stamp" => reaper \in WalkShape
      /\ reaper.pc = "stamp" => reaper \in StampShape
  BY <1>1 DEF WalkShape, StampShape
<1>4. ASSUME NEW s \in Seq(Entries), s # <<>>
      PROVE  /\ Head(s) \in Entries /\ Head(s) = s[1] /\ 1 \in DOMAIN s
             /\ Tail(s) \in Seq(Entries)
             /\ \A i \in DOMAIN Tail(s) : i + 1 \in DOMAIN s /\ Tail(s)[i] = s[i + 1]
  BY <1>4, HeadTailProperties, LenProperties, EmptySeq
<1> QED BY <1>2, <1>3, <1>4 DEF Entry

\* What the run goes on to when it is done with an entry.
LEMMA RunGoesOn ==
  ASSUME CleanupShape, reaper # Idle, reaper.plan # <<>>, reaper.pc # "stamp",
         NEW b \in Int, NEW r, r = Onwards([reaper EXCEPT !.budget = b])
  PROVE  /\ r \in WalkShape /\ r.pc = "walk" /\ r.plan = Tail(reaper.plan) /\ r.at = reaper.at
         /\ r.warn = reaper.warn /\ r.budget = b
<1>1. reaper \in WalkShape /\ Tail(reaper.plan) \in Seq(Entries)
  BY RunShape
<1>2. PICK q : q = [reaper EXCEPT !.budget = b]
  OBVIOUS
<1>3. q \in WalkShape /\ q.plan = reaper.plan /\ q.at = reaper.at /\ q.warn = reaper.warn
      /\ q.budget = b
  BY <1>1, <1>2 DEF WalkShape
<1>4. r = [q EXCEPT !.plan = Tail(q.plan), !.pc = "walk"]
  BY <1>2 DEF Onwards
<1>5. PICK tail : tail = Tail(q.plan) /\ tail \in Seq(Entries)
  BY <1>1, <1>3
<1>6. r = [q EXCEPT !.plan = tail, !.pc = "walk"]
  BY <1>4, <1>5
<1> QED BY <1>1, <1>3, <1>5, <1>6 DEF WalkShape

\* A step of the reaper that warns nobody and deletes nothing.
LEMMA QuietStep ==
  ASSUME TellInv, CleanupShape', UNCHANGED <<namespaces, told, promised>>, reaper # Idle,
         reaper' # Idle => /\ reaper'.pc # "stamp"
                           /\ \/ reaper'.plan = reaper.plan
                              \/ reaper.plan # <<>> /\ reaper'.plan = Tail(reaper.plan)
  PROVE  TellInv'
<1>1. ASSUME reaper' # Idle, NEW i \in DOMAIN reaper'.plan PROVE PlannedAsTold(reaper'.plan[i])
  <2>1. PICK j \in DOMAIN reaper.plan : reaper'.plan[i] = reaper.plan[j]
    BY <1>1, RunShape DEF TellInv
  <2> QED BY <2>1 DEF TellInv
<1>2. ASSUME reaper' # Idle, NEW i \in DOMAIN reaper'.plan PROVE PlannedAsTold(reaper.plan[i])'
  BY <1>1, <1>2 DEF PlannedAsTold
<1>3. \A n \in Names : AsTold(n)'
  BY DEF TellInv, AsTold
<1> QED BY <1>2, <1>3 DEF TellInv

LEMMA BudgetShape ==
  ASSUME CleanupShape, NEW at \in Nat
  PROVE  deletionBudget(at) \in Int
<1> DEFINE recent == {i \in DOMAIN deletedLog : at - deletedLog[i] < Hour}
<1>1. IsFiniteSet(DOMAIN deletedLog)
  BY LenProperties, FS_Interval DEF CleanupShape
<1>2. IsFiniteSet(recent)
  BY <1>1, FS_Subset
<1>3. Cardinality(recent) \in Nat
  BY <1>2, FS_CardinalityType
<1> QED BY <1>3, CleanupAssumption DEF deletionBudget

LEMMA BeginsStep ==
  ASSUME TellInv, RunBegins
  PROVE  TellInv'
<1>1. PICK plan \in Sorted(Plan(setting)) :
        reaper' = [pc |-> "walk", plan |-> plan, at |-> now, budget |-> deletionBudget(now),
                   warn |-> warnBefore(setting)]
  BY DEF RunBegins
<1>2. /\ CleanupShape /\ now' = now /\ reaper = Idle
      /\ UNCHANGED <<namespaces, lives, setting, deletedLog, told, promised, deletions>>
  BY DEF RunBegins, NoFault, clockVars, TellInv
<1> DEFINE there == {m \in Names : namespaces[m] # Absent}
           planned == {Planned(n, namespaces[n], setting) : n \in there}
<1>3. planned \subseteq Entries /\ \A e \in planned : PlannedAsTold(e)
  BY <1>2, PlannedShape DEF TellInv, CleanupShape
<1>4. IsFiniteSet(planned) /\ Cardinality(planned) \in Nat
  <2> DEFINE f == [n \in there |-> Planned(n, namespaces[n], setting)]
  <2>1. IsFiniteSet(there)
    BY CleanupAssumption, FS_Subset
  <2>2. f \in [there -> planned] /\ \A e \in planned : \E n \in there : f[n] = e
    OBVIOUS
  <2>3. f \in Surjection(there, planned)
    BY <2>2 DEF Surjection
  <2> QED BY <2>1, <2>3, FS_Surjection, FS_CardinalityType
<1>5. plan \in [1..Cardinality(planned) -> planned]
  BY DEF Sorted, Plan, SetToSeqs
<1> HIDE DEF planned
<1>6. plan \in Seq(Entries) /\ \A i \in DOMAIN plan : PlannedAsTold(plan[i])
  BY <1>3, <1>4, <1>5
<1>7. warnBefore(setting) \in Nat /\ deletionBudget(now) \in Int /\ now \in Nat
  BY <1>2, CleanupAssumption, BudgetShape DEF warnBefore, CleanupShape
<1>8. reaper' \in WalkShape /\ reaper'.pc = "walk" /\ reaper'.plan = plan
  BY <1>1, <1>6, <1>7 DEF WalkShape
<1>9. CleanupShape'
  BY <1>2, <1>8 DEF CleanupShape
<1>10. \A n \in Names : AsTold(n)'
  BY <1>2 DEF TellInv, AsTold
<1>11. ASSUME NEW i \in DOMAIN reaper'.plan PROVE PlannedAsTold(reaper.plan[i])'
  BY <1>2, <1>6, <1>8 DEF PlannedAsTold
<1> QED BY <1>8, <1>9, <1>10, <1>11 DEF TellInv

LEMMA QuietSteps ==
  ASSUME TellInv, SkipEntry \/ RecordDeletion \/ RunEnds \/ RunBreaksOff
  PROVE  TellInv'
<1>1. /\ CleanupShape /\ now' = now /\ reaper # Idle
      /\ UNCHANGED <<namespaces, lives, setting, told, promised>>
  BY DEF TellInv, SkipEntry, RecordDeletion, RunEnds, RunBreaksOff, NoFault, Fault, clockVars,
         Walking, Idle
<1>2. PICK b : b = reaper.budget
  OBVIOUS
<1>3. CASE SkipEntry \/ RecordDeletion
  <2>1. /\ reaper.plan # <<>> /\ reaper.pc # "stamp" /\ reaper' = Onwards(reaper)
    BY <1>1, <1>3 DEF SkipEntry, RecordDeletion, Walking, CleanupShape
  <2>2. reaper \in WalkShape /\ b \in Int
    BY <1>1, <1>2, <2>1, RunShape
  <2>3. reaper = [reaper EXCEPT !.budget = b]
    BY <1>2, <2>2 DEF WalkShape
  <2>4. PICK r : r = reaper'
    OBVIOUS
  <2>5. r = Onwards([reaper EXCEPT !.budget = b])
    BY <2>1, <2>3, <2>4
  <2>6. reaper' \in WalkShape /\ reaper'.pc = "walk" /\ reaper'.plan = Tail(reaper.plan)
    BY <1>1, <2>1, <2>2, <2>4, <2>5, RunGoesOn
  <2>7. CASE UNCHANGED <<deletedLog, deletions>>
    <3>1. CleanupShape'
      BY <1>1, <2>6, <2>7 DEF CleanupShape
    <3> QED BY <1>1, <2>1, <2>6, <3>1, QuietStep
  <2>8. CASE /\ deletedLog' = SubSeq(<<reaper.at>> \o deletedLog, 1,
                   IF Len(deletedLog) < LogSize THEN Len(deletedLog) + 1 ELSE LogSize)
             /\ deletions' = {[d EXCEPT !.recorded = @ \/ (d.name = Entry.name /\ d.uid = Entry.uid)]
                              : d \in deletions}
    <3>1. reaper.at \in Nat /\ deletedLog \in Seq(Nat)
      BY <1>1, RunShape DEF CleanupShape
    <3>2. /\ <<reaper.at>> \o deletedLog \in Seq(Nat)
          /\ Len(<<reaper.at>> \o deletedLog) = Len(deletedLog) + 1
      BY <3>1, ConcatProperties
    <3>0. PICK k : k = IF Len(deletedLog) < LogSize THEN Len(deletedLog) + 1 ELSE LogSize
      OBVIOUS
    <3>3. PICK l \in Seq(Nat) : l = <<reaper.at>> \o deletedLog
      BY <3>2
    <3>7. k \in Nat /\ k <= Len(l)
      BY <3>0, <3>1, <3>2, <3>3, LenProperties, CleanupAssumption
    <3>4. deletedLog' \in Seq(Nat)
      <4>1. \A i \in 1..k : l[i] \in Nat
        BY <3>7, ElementOfSeq, LenProperties
      <4> QED BY <2>8, <3>0, <3>3, <3>7, <4>1, SubSeqProperties
    <3>5. deletions' \subseteq Deleted
      <4>1. ASSUME NEW d \in Deleted, NEW c \in BOOLEAN
            PROVE  [d EXCEPT !.recorded = c] \in Deleted
        BY DEF Deleted
      <4>2. ASSUME NEW d \in deletions
            PROVE  [d EXCEPT !.recorded = @ \/ (d.name = Entry.name /\ d.uid = Entry.uid)]
                     \in Deleted
        <5>1. PICK c \in BOOLEAN : c = (d.recorded \/ (d.name = Entry.name /\ d.uid = Entry.uid))
          OBVIOUS
        <5>2. d \in Deleted
          BY <1>1 DEF CleanupShape
        <5> QED BY <4>1, <5>1, <5>2, Zenon
      <4> QED BY <2>8, <4>2
    <3>6. CleanupShape'
      BY <1>1, <2>6, <3>4, <3>5 DEF CleanupShape
    <3> QED BY <1>1, <2>1, <2>6, <3>6, QuietStep
  <2> QED BY <1>3, <2>7, <2>8 DEF SkipEntry, RecordDeletion
<1>4. CASE RunEnds \/ RunBreaksOff
  <2>1. reaper' = Idle /\ UNCHANGED <<deletedLog, deletions>>
    BY <1>4 DEF RunEnds, RunBreaksOff
  <2>2. CleanupShape'
    BY <1>1, <2>1 DEF CleanupShape
  <2> QED BY <1>1, <2>1, <2>2, QuietStep
<1> QED BY <1>3, <1>4

LEMMA WarnStep ==
  ASSUME TellInv, WarnEntry
  PROVE  TellInv'
<1>1. /\ CleanupShape /\ now' = now /\ reaper # Idle /\ reaper.pc = "walk" /\ reaper.plan # <<>>
      /\ UNCHANGED <<namespaces, lives, setting, deletedLog, promised, deletions>>
      /\ reaper.warn > 0
  BY DEF TellInv, WarnEntry, NoFault, Fault, clockVars, Walking, Idle
<1>2. /\ Entry \in Entries /\ reaper.at \in Nat /\ reaper.warn \in Nat /\ reaper.budget \in Int
      /\ reaper.plan \in Seq(Entries)
  BY <1>1, RunShape
<1>3. CASE reaper' = Idle /\ told' = told
  <2>1. CleanupShape'
    BY <1>1, <1>3 DEF CleanupShape
  <2> QED BY <1>1, <1>3, <2>1, QuietStep
<1>4. CASE reaper' # Idle
  <2> DEFINE u == IF Expired THEN reaper.at + reaper.warn ELSE Entry.expires
  <2>1. PICK until, e : until = u /\ e = Entry
    OBVIOUS
  <2>2. PICK late \in BOOLEAN : late = Expired
    <3>1. Expired \in BOOLEAN
      BY <1>2 DEF Expired, Entries
    <3> HIDE DEF Expired
    <3> QED BY <3>1
  <2>3. /\ told' = [told EXCEPT ![e.name] = @ \cup {until}]
        /\ reaper' = [pc |-> "stamp", plan |-> reaper.plan, at |-> reaper.at,
                      budget |-> reaper.budget, warn |-> reaper.warn, until |-> until,
                      postponed |-> late]
    BY <1>4, <2>1, <2>2 DEF WarnEntry
  <2>4. /\ e \in Entries /\ e.name \in Names /\ e.expires \in Nat /\ until \in Nat
        /\ IF late THEN until >= e.expires ELSE until = e.expires
    <3>1. e \in Entries /\ e.name \in Names /\ e.expires \in Nat
      BY <1>2, <2>1 DEF Entries
    <3>2. CASE late
      <4>1. reaper.at >= e.expires /\ until = reaper.at + reaper.warn
        BY <2>1, <2>2, <3>2 DEF Expired
      <4> QED BY <1>2, <3>1, <3>2, <4>1
    <3>3. CASE ~late
      BY <2>1, <2>2, <3>1, <3>3
    <3> QED BY <3>1, <3>2, <3>3
  <2>5. /\ told' \in [Names -> SUBSET Nat] /\ until \in told'[e.name]
        /\ \A n \in Names : told[n] \subseteq told'[n]
    BY <1>1, <2>3, <2>4 DEF CleanupShape
  <2>6. /\ reaper' \in StampShape /\ reaper'.plan = reaper.plan /\ reaper'.until = until
        /\ reaper'.postponed = late /\ reaper'.pc = "stamp" /\ Entry' = e
    BY <1>2, <2>1, <2>2, <2>3, <2>4 DEF StampShape, Entry
  <2>7. CleanupShape'
    BY <1>1, <2>5, <2>6 DEF CleanupShape
  <2>8. ASSUME NEW i \in DOMAIN reaper'.plan PROVE PlannedAsTold(reaper.plan[i])'
    <3>1. PlannedAsTold(reaper.plan[i]) /\ reaper.plan[i].name \in Names
      <4>1. reaper.plan[i] \in Entries
        BY <1>2, <2>6, ElementOfSeq, LenProperties
      <4> QED BY <1>1, <2>6, <4>1 DEF TellInv, Entries
    <3> QED BY <1>1, <2>5, <2>6, <3>1 DEF PlannedAsTold
  <2>9. \A n \in Names : AsTold(n)'
    BY <1>1, <2>5 DEF TellInv, AsTold
  <2> QED BY <2>4, <2>5, <2>6, <2>7, <2>8, <2>9 DEF TellInv
<1> QED BY <1>3, <1>4 DEF WarnEntry, Idle

LEMMA StampStep ==
  ASSUME TellInv, StampWarning
  PROVE  TellInv'
<1>1. /\ CleanupShape /\ now' = now /\ reaper # Idle /\ reaper.pc = "stamp" /\ reaper.plan # <<>>
      /\ UNCHANGED <<lives, setting, deletedLog, told, promised, deletions>>
  BY DEF TellInv, StampWarning, NoFault, clockVars, CleanupShape, Idle
<1>2. /\ Entry \in Entries /\ reaper \in StampShape /\ reaper.at \in Nat /\ reaper.warn \in Nat
      /\ reaper.budget \in Int /\ Tail(reaper.plan) \in Seq(Entries)
      /\ reaper.until \in Nat /\ reaper.postponed \in BOOLEAN
  BY <1>1, RunShape DEF StampShape
<1>3. CASE reaper' = Idle /\ namespaces' = namespaces
  <2>1. CleanupShape'
    BY <1>1, <1>3 DEF CleanupShape
  <2> QED BY <1>1, <1>3, <2>1, QuietStep
<1>4. CASE namespaces' # namespaces \/ reaper' # Idle
  <2>1. PICK n \in Names, until \in Nat, x \in Nat \cup {None} :
          /\ n = Entry.name /\ until = reaper.until
          /\ x = IF reaper.postponed THEN until ELSE namespaces[n].expires
    <3>1. Entry.name \in Names /\ namespaces[Entry.name] \in NewsTypes
      BY <1>1, <1>2, <1>4 DEF Entries, CleanupShape, StampWarning
    <3> QED BY <1>2, <3>1 DEF NewsTypes
  <2>2. /\ namespaces[n] # Absent /\ namespaces[n] \in NewsTypes
        /\ namespaces' = [namespaces EXCEPT ![n].warned = until, ![n].expires = x]
        /\ reaper' = [pc |-> "walk", plan |-> Tail(reaper.plan), at |-> reaper.at,
                      budget |-> reaper.budget, warn |-> reaper.warn]
    BY <1>1, <1>4, <2>1 DEF StampWarning, CleanupShape
  <2>3. /\ reaper' \in WalkShape /\ reaper'.pc = "walk" /\ reaper'.plan = Tail(reaper.plan)
        /\ reaper' # Idle
    BY <1>2, <2>2 DEF WalkShape, Idle
  <2>4. /\ namespaces'[n] \in NewsTypes /\ namespaces'[n].warned = until
        /\ namespaces'[n].expires = x
        /\ \A m \in Names \ {n} : namespaces'[m] = namespaces[m]
        /\ namespaces' \in [Names -> NewsTypes \cup {Absent}]
    BY <1>1, <2>1, <2>2 DEF NewsTypes, CleanupShape
  <2>5. CleanupShape'
    BY <1>1, <2>3, <2>4 DEF CleanupShape
  <2>6. ASSUME NEW i \in DOMAIN reaper'.plan PROVE PlannedAsTold(reaper.plan[i])'
    <3>1. PlannedAsTold(reaper'.plan[i])
      <4>1. i + 1 \in DOMAIN reaper.plan /\ reaper'.plan[i] = reaper.plan[i + 1]
        BY <1>1, <2>3, RunShape
      <4> QED BY <1>1, <4>1 DEF TellInv
    <3> QED BY <1>1, <3>1 DEF PlannedAsTold
  <2>7. AsTold(n)'
    <3>1. until \in told'[n]
      BY <1>1, <2>1 DEF TellInv
    <3>2. ASSUME promised[n] # None PROVE x # None /\ x >= promised[n]
      <4>1. /\ namespaces[n].expires # None /\ namespaces[n].expires >= promised[n]
            /\ promised[n] \in Nat /\ namespaces[n].expires \in Nat
        BY <1>1, <2>2, <3>2 DEF TellInv, AsTold, CleanupShape, NewsTypes
      <4>2. promised[n] <= Entry.expires /\ Entry.expires \in Nat
        BY <1>1, <1>2, <2>1, RunShape DEF TellInv, PlannedAsTold, Entries
      <4>3. reaper.postponed => until >= Entry.expires
        BY <1>1, <2>1 DEF TellInv
      <4> QED BY <1>2, <2>1, <4>1, <4>2, <4>3 DEF None
    <3> QED BY <1>1, <2>4, <3>1, <3>2 DEF AsTold
  <2>8. \A m \in Names \ {n} : AsTold(m)'
    BY <1>1, <2>4 DEF TellInv, AsTold
  <2> QED BY <2>3, <2>5, <2>6, <2>7, <2>8 DEF TellInv
<1> QED BY <1>3, <1>4

LEMMA DeleteStep ==
  ASSUME TellInv, DeleteEntry
  PROVE  TellInv'
<1>1. /\ CleanupShape /\ now' = now /\ reaper # Idle /\ reaper.pc = "walk" /\ reaper.plan # <<>>
      /\ UNCHANGED <<lives, setting, deletedLog, told, promised>>
  BY DEF TellInv, DeleteEntry, NoFault, clockVars, Walking, Idle
<1>2. /\ Entry \in Entries /\ reaper \in WalkShape /\ reaper.budget \in Int /\ reaper.at \in Nat
      /\ reaper.plan \in Seq(Entries)
  BY <1>1, RunShape
<1>3. CASE /\ namespaces[Entry.name].uid = Entry.uid
           /\ namespaces' = [namespaces EXCEPT ![Entry.name] = Absent]
           /\ reaper' = [reaper EXCEPT !.pc = "record", !.budget = @ - 1]
           /\ deletions' = deletions \cup
                {[name |-> Entry.name, uid |-> Entry.uid, at |-> reaper.at, recorded |-> FALSE]}
  <2>1. /\ namespaces' \in [Names -> NewsTypes \cup {Absent}]
        /\ \A n \in Names : namespaces'[n] \in {Absent, namespaces[n]}
    BY <1>1, <1>2, <1>3 DEF CleanupShape, Entries
  <2>2. reaper' \in WalkShape /\ reaper'.plan = reaper.plan /\ reaper'.pc = "record"
    <3>1. PICK b \in Int : b = reaper.budget - 1
      BY <1>2
    <3>2. reaper' = [reaper EXCEPT !.pc = "record", !.budget = b]
      BY <1>3, <3>1
    <3> QED BY <1>2, <3>2 DEF WalkShape
  <2>3. deletions' \subseteq Deleted
    <3>1. Entry.name \in Names /\ Entry.uid \in Nat
      BY <1>2 DEF Entries
    <3>2. [name |-> Entry.name, uid |-> Entry.uid, at |-> reaper.at, recorded |-> FALSE] \in Deleted
      BY <1>2, <3>1 DEF Deleted
    <3> QED BY <1>1, <1>3, <3>2 DEF CleanupShape
  <2>4. CleanupShape'
    BY <1>1, <2>1, <2>2, <2>3 DEF CleanupShape
  <2>5. \A n \in Names : AsTold(n)'
    BY <1>1, <2>1 DEF TellInv, AsTold
  <2>6. ASSUME NEW i \in DOMAIN reaper'.plan PROVE PlannedAsTold(reaper.plan[i])'
    <3>1. PlannedAsTold(reaper.plan[i])
      BY <1>1, <2>2 DEF TellInv
    <3> QED BY <1>1, <2>2, <3>1 DEF PlannedAsTold
  <2> QED BY <2>2, <2>4, <2>5, <2>6 DEF TellInv
<1>4. CASE /\ reaper' = Onwards([reaper EXCEPT !.budget = @ - 1])
           /\ UNCHANGED <<namespaces, deletions>>
  <2>0. PICK b \in Int : b = reaper.budget - 1
    BY <1>2
  <2>1. PICK r : r = reaper' /\ b = reaper.budget - 1
    BY <2>0
  <2>2. r = Onwards([reaper EXCEPT !.budget = b])
    BY <1>4, <2>1
  <2>3. reaper' \in WalkShape /\ reaper'.pc = "walk" /\ reaper'.plan = Tail(reaper.plan)
    BY <1>1, <2>1, <2>2, RunGoesOn
  <2>4. CleanupShape'
    BY <1>1, <1>4, <2>3 DEF CleanupShape
  <2> QED BY <1>1, <1>4, <2>3, <2>4, QuietStep
<1> QED BY <1>3, <1>4 DEF DeleteEntry

\* What people do with a namespace.
LEMMA NamespaceChange ==
  ASSUME TellInv, now' = now, NEW n \in Names, NEW ns \in NewsTypes \cup {Absent},
         NEW pr \in Nat \cup {None},
         namespaces' = [namespaces EXCEPT ![n] = ns],
         promised' = [promised EXCEPT ![n] = pr],
         lives' \in [Names -> Nat],
         UNCHANGED <<setting, deletedLog, reaper, told, deletions>>,
         ns # Absent /\ ns.warned # None => ns.warned \in told[n],
         ns # Absent /\ pr # None => ns.expires # None /\ ns.expires >= pr,
         reaper = Idle \/ pr \in {None, promised[n]}
  PROVE  TellInv'
<1>1. /\ namespaces'[n] = ns /\ promised'[n] = pr
      /\ \A m \in Names \ {n} : namespaces'[m] = namespaces[m] /\ promised'[m] = promised[m]
      /\ namespaces' \in [Names -> NewsTypes \cup {Absent}]
      /\ promised' \in [Names -> Nat \cup {None}]
  BY DEF TellInv, CleanupShape
<1>2. CleanupShape'
  BY <1>1 DEF TellInv, CleanupShape
<1>3. \A m \in Names : AsTold(m)'
  BY <1>1 DEF TellInv, AsTold
<1>4. ASSUME reaper # Idle, NEW i \in DOMAIN reaper.plan PROVE PlannedAsTold(reaper.plan[i])'
  <2>1. reaper.plan[i] \in Entries
    BY <1>4, RunShape, ElementOfSeq, LenProperties DEF TellInv
  <2>2. /\ reaper.plan[i].name \in Names /\ reaper.plan[i].expires \in Nat
        /\ PlannedAsTold(reaper.plan[i])
    BY <1>4, <2>1 DEF TellInv, Entries
  <2>3. promised'[reaper.plan[i].name] <= reaper.plan[i].expires
    BY <1>1, <1>4, <2>2 DEF PlannedAsTold, None
  <2> QED BY <2>2, <2>3 DEF PlannedAsTold
<1>5. reaper # Idle /\ reaper.pc = "stamp" =>
        (/\ reaper.until \in told[Entry.name]
         /\ IF reaper.postponed THEN reaper.until >= Entry.expires
            ELSE reaper.until = Entry.expires)'
  BY DEF TellInv, Entry
<1> QED BY <1>2, <1>3, <1>4, <1>5 DEF TellInv

LEMMA PeopleStep ==
  ASSUME TellInv,
         \/ \E t \in Settings : SaveSetting(t)
         \/ \E n \in Names, by \in Extensions : Extend(n, by)
         \/ \E n \in Names : CreateNamespace(n) \/ EditNamespace(n)
  PROVE  TellInv'
<1>0. CleanupShape /\ Labels \cup {NoLabel} \subseteq Int
  BY CleanupAssumption DEF TellInv, NoLabel, OffLabel, BadLabel
<1>1. ASSUME NEW t \in Settings, SaveSetting(t) PROVE TellInv'
  <2>1. /\ now' = now /\ setting' \in Settings
        /\ UNCHANGED <<namespaces, lives, deletedLog, reaper, told, promised, deletions>>
    BY <1>1 DEF SaveSetting, Change
  <2>2. CleanupShape'
    BY <1>0, <2>1 DEF CleanupShape
  <2> QED BY <2>1, <2>2 DEF TellInv, AsTold, PlannedAsTold, Entry
<1>2. ASSUME NEW n \in Names, NEW by \in Extensions, Extend(n, by) PROVE TellInv'
  <2>1. /\ now' = now /\ namespaces[n] # Absent /\ namespaces[n] \in NewsTypes
        /\ UNCHANGED <<lives, setting, deletedLog, reaper, told, deletions>>
    BY <1>0, <1>2 DEF Extend, Change, CleanupShape
  <2>2. PICK e : e = Planned(n, namespaces[n], setting)
    OBVIOUS
  <2>3. /\ e \in Entries /\ PlannedAsTold(e) /\ e.name = n
        /\ by \in Nat \ {0} /\ now \in Nat /\ e.expires \in Nat
        /\ promised \in [Names -> Nat \cup {None}]
    BY <1>0, <2>1, <2>2, PlannedShape, CleanupAssumption DEF TellInv, CleanupShape, Entries
  <2>4. PICK until \in Nat : until = (IF e.expires < now THEN now ELSE e.expires) + by
    BY <2>3
  <2>5. /\ namespaces' = [namespaces EXCEPT ![n].expires = until, ![n].warned = None]
        /\ promised' = IF reaper = Idle THEN [promised EXCEPT ![n] = until] ELSE promised
    BY <1>2, <2>2, <2>4 DEF Extend
  <2>6. PICK ns : ns = [namespaces[n] EXCEPT !.expires = until, !.warned = None]
    OBVIOUS
  <2>7. ns \in NewsTypes /\ ns.warned = None /\ ns.expires = until
    BY <2>1, <2>6 DEF NewsTypes
  <2>8. namespaces' = [namespaces EXCEPT ![n] = ns]
    BY <1>0, <2>5, <2>6 DEF CleanupShape
  <2>9. PICK pr \in Nat \cup {None} : pr = IF reaper = Idle THEN until ELSE promised[n]
    BY <2>3
  <2>10. promised' = [promised EXCEPT ![n] = pr]
    BY <2>3, <2>5, <2>9
  <2>11. pr # None => until # None /\ until >= pr
    BY <2>3, <2>4, <2>9 DEF PlannedAsTold, None
  <2>12. lives' \in [Names -> Nat]
    BY <1>0, <2>1 DEF CleanupShape
  <2> QED BY <2>1, <2>7, <2>8, <2>9, <2>10, <2>11, <2>12, NamespaceChange
<1>3. ASSUME NEW n \in Names, CreateNamespace(n) PROVE TellInv'
  <2>1. PICK label \in Labels \cup {NoLabel} :
          namespaces' = [namespaces EXCEPT ![n] = Fresh(lives[n] + 1, label)]
    BY <1>3 DEF CreateNamespace
  <2>2. PICK ns : ns = Fresh(lives[n] + 1, label)
    OBVIOUS
  <2>3. ns \in NewsTypes /\ ns.warned = None
    BY <1>0, <2>2 DEF Fresh, NewsTypes, CleanupShape
  <2>4. /\ now' = now /\ lives' \in [Names -> Nat]
        /\ promised' = [promised EXCEPT ![n] = None]
        /\ UNCHANGED <<setting, deletedLog, reaper, told, deletions>>
    BY <1>0, <1>3 DEF CreateNamespace, Change, CleanupShape
  <2> QED BY <2>1, <2>2, <2>3, <2>4, NamespaceChange
<1>4. ASSUME NEW n \in Names, EditNamespace(n) PROVE TellInv'
  <2>1. /\ now' = now /\ lives' \in [Names -> Nat] /\ promised' = [promised EXCEPT ![n] = promised[n]]
        /\ UNCHANGED <<setting, deletedLog, reaper, told, deletions>>
        /\ namespaces[n] # Absent /\ namespaces[n] \in NewsTypes
        /\ promised[n] \in Nat \cup {None} /\ AsTold(n)
    BY <1>0, <1>4 DEF EditNamespace, Change, CleanupShape, TellInv
  <2>2. PICK ns : /\ namespaces' = [namespaces EXCEPT ![n] = ns]
                  /\ \/ \E label \in Labels \cup {NoLabel} :
                          ns = [namespaces[n] EXCEPT !.label = label]
                     \/ ns = [namespaces[n] EXCEPT !.listed = ~@]
                     \/ ns = Absent
    BY <1>4 DEF EditNamespace
  <2>3. \/ ns = Absent
        \/ /\ ns \in NewsTypes /\ ns.warned = namespaces[n].warned
           /\ ns.expires = namespaces[n].expires
    BY <1>0, <2>1, <2>2 DEF NewsTypes
  <2>4. CASE ns = Absent
    BY <2>1, <2>2, <2>4, NamespaceChange
  <2>5. CASE ns # Absent
    BY <2>1, <2>2, <2>3, <2>5, NamespaceChange DEF AsTold
  <2> QED BY <2>4, <2>5
<1> QED BY <1>1, <1>2, <1>3, <1>4

LEMMA TimeSteps == [Next]_vars => now' = now \/ (now' = now + 1 /\ now < MaxTime)
<1> USE DEF NoFault, Fault, Change, clockVars
<1>1. ASSUME LedgerNext PROVE now' = now
  BY <1>1 DEF LedgerNext, SampleBegins, SampleStored, SampleLost, ClusterChanges, Zenon
<1>2. ASSUME BudgetNext PROVE now' = now
  BY <1>2 DEF BudgetNext, CheckBegins, PostAlert, StoreAlerts, AlertsLost, Answering, Zenon
<1>3. ASSUME RiskNext PROVE now' = now
  BY <1>3 DEF RiskNext, ForgetOpen, AssessBegins, PostRisks, FeedRisks, SaveRisks, AssessLost,
              RiskChanges, Answering
<1>4. ASSUME DigestNext PROVE now' = now
  BY <1>4 DEF DigestNext, MarkFirst, DigestDue, PostDigest, SaveDigest, MarkSent, DigestLost,
              SendNow, DeleteReport, SaveSchedule, Answering
<1>5. ASSUME CleanupNext PROVE now' = now
  BY <1>5 DEF CleanupNext, RunBegins, SkipEntry, WarnEntry, StampWarning, DeleteEntry,
              RecordDeletion, RunEnds, RunBreaksOff, SaveSetting, Extend, CreateNamespace,
              EditNamespace
<1> QED BY <1>1, <1>2, <1>3, <1>4, <1>5 DEF Next, Tick, vars

LEMMA TimeIsNat == now \in Nat /\ [Next]_vars => now' \in Nat
BY TimeSteps

LEMMA TellStep == TellInv /\ [Next]_vars => TellInv'
<1> SUFFICES ASSUME TellInv, [Next]_vars PROVE TellInv'
  OBVIOUS
<1>1. CASE UNCHANGED cleanupVars
  <2>1. now' \in Nat
    BY TimeIsNat DEF TellInv, CleanupShape
  <2> QED BY <1>1, <2>1 DEF cleanupVars, TellInv, CleanupShape, AsTold, PlannedAsTold, Entry
<1>2. CASE CleanupNext
  BY <1>2, BeginsStep, QuietSteps, WarnStep, StampStep, DeleteStep, PeopleStep DEF CleanupNext
<1> QED BY <1>1, <1>2 DEF Next, vars

LEMMA TellInit == Init => TellInv
<1> SUFFICES ASSUME CleanupInit, now = 0 PROVE TellInv
  BY DEF Init, ClockInit
<1>1. ASSUME NEW n \in Names
      PROVE  /\ namespaces[n] \in NewsTypes /\ namespaces[n].warned = None
             /\ promised[n] = None
  BY DEF CleanupInit, Fresh, NewsTypes, NoLabel, None
<1>2. CleanupShape
  <2>1. namespaces \in [Names -> NewsTypes \cup {Absent}]
    BY <1>1 DEF CleanupInit
  <2>2. deletedLog \in Seq(Nat)
    BY EmptySeq DEF CleanupInit
  <2> QED BY <2>1, <2>2 DEF CleanupInit, CleanupShape, Idle
<1> QED BY <1>1, <1>2 DEF CleanupInit, TellInv, AsTold, Idle

\* A preview namespace is deleted only after a message that named the moment, where
\* messages are sent, and never before the time an extension was answered with; for all
\* settings, runs that break off and namespaces that are made anew meanwhile (Reaper.Run,
\* warn, Extend).
THEOREM NobodyIsSurprised == Spec => DeletesAsTold
<1>1. ASSUME TellInv, [Next]_vars, NEW n \in Names, Deletes(n)
      PROVE  /\ reaper.warn > 0 => \E until \in told[n] : until = Entry.expires /\ until <= reaper.at
             /\ promised[n] <= reaper.at
  <2>1. PICK d \in deletions' : /\ d \notin deletions /\ d.name = n /\ ~d.recorded
    BY <1>1 DEF Deletes
  <2>2. deletions' # deletions /\ CleanupNext
    BY <1>1, <2>1 DEF Next, vars, cleanupVars
  <2>3. CASE RecordDeletion
    <3>1. PICK o \in deletions :
            d = [o EXCEPT !.recorded = @ \/ (o.name = Entry.name /\ o.uid = Entry.uid)]
      BY <2>1, <2>2, <2>3 DEF RecordDeletion
    <3>2. o \in Deleted
      BY <1>1 DEF TellInv, CleanupShape
    <3>3. PICK c \in BOOLEAN : c = (o.recorded \/ (o.name = Entry.name /\ o.uid = Entry.uid))
      OBVIOUS
    <3>4. d = [o EXCEPT !.recorded = c]
      BY <3>1, <3>3, Zenon
    <3>5. ~c
      BY <2>1, <3>2, <3>4 DEF Deleted
    <3>6. ~o.recorded /\ o.recorded \in BOOLEAN
      BY <3>2, <3>3, <3>5, Zenon DEF Deleted
    <3>7. d = o
      BY <3>2, <3>4, <3>5, <3>6 DEF Deleted
    <3> QED BY <2>1, <3>7
  <2>4. CASE DeleteEntry
    <3>1. /\ reaper # Idle /\ reaper.plan # <<>> /\ Expired
          /\ reaper.warn = 0 \/ Entry.warned
      BY <2>4 DEF DeleteEntry, Walking, Idle
    <3>2. /\ Entry \in Entries /\ PlannedAsTold(Entry)
          /\ reaper.at \in Nat /\ reaper.warn \in Nat
      BY <1>1, <3>1, RunShape DEF TellInv
    <3>3. Entry.name = n
      BY <2>1, <2>2, <2>4 DEF DeleteEntry
    <3>4. /\ Entry.expires \in Nat /\ Entry.expires <= reaper.at
          /\ promised[n] \in Nat \cup {None}
      BY <1>1, <3>1, <3>2 DEF Entries, Expired, TellInv, CleanupShape
    <3>5. promised[n] <= Entry.expires /\ (Entry.warned => Entry.expires \in told[n])
      BY <3>2, <3>3 DEF PlannedAsTold
    <3> QED BY <3>1, <3>2, <3>4, <3>5 DEF None
  <2>5. RecordDeletion \/ DeleteEntry
    BY <2>2 DEF CleanupNext, RunBegins, SkipEntry, WarnEntry, StampWarning, RunEnds, RunBreaksOff,
                SaveSetting, Extend, CreateNamespace, EditNamespace
  <2> QED BY <2>3, <2>4, <2>5
<1>2. TellInv /\ [Next]_vars =>
        \A n \in Names : Deletes(n) =>
          /\ reaper.warn > 0 => \E until \in told[n] : until = Entry.expires /\ until <= reaper.at
          /\ promised[n] <= reaper.at
  BY <1>1
<1> QED BY <1>2, TellInit, TellStep, PTL DEF Spec, DeletesAsTold

-----------------------------------------------------------------------------
(* The limit of an hour.  The record keeps only the newest deletions, so    *)
(* what makes a new run count rightly is that they are the right ones.      *)

RecordedSince(c) == {d \in deletions : d.recorded /\ c < d.at}
RecordedInHour(t) == {d \in {e \in deletions : t - Hour < e.at /\ e.at <= t} : d.recorded}

\* A namespace is deleted once, and its name's next one is another.
DeletedOnce ==
    /\ IsFiniteSet(deletions)
    /\ \A d \in deletions : d.at <= now /\ d.uid <= lives[d.name]
    /\ \A d, e \in deletions : d.name = e.name /\ d.uid = e.uid => d = e
    /\ \A n \in Names : namespaces[n] # Absent =>
         /\ namespaces[n].uid = lives[n]
         /\ \A d \in deletions : d.name = n => d.uid # lives[n]

\* However many were recorded since a moment, the record begins with as many later
\* than it, as far as it has room.
Remembers ==
    \A c \in Int, k \in 1..LogSize :
        k <= Cardinality(RecordedSince(c)) => k \in DOMAIN deletedLog /\ deletedLog[k] > c

\* What a run may still delete, and what it has yet to record, fits into its hour.
RunFits ==
    reaper # Idle =>
        /\ reaper.at <= now /\ \A d \in deletions : d.at <= reaper.at
        /\ reaper.budget + Cardinality(RecordedSince(reaper.at - Hour))
             + (IF reaper.pc = "record" THEN 1 ELSE 0) <= MaxDeletionsAnHour
        /\ reaper.pc = "record" =>
             /\ reaper.budget >= 0
             /\ \E d \in deletions : d.name = Entry.name /\ d.uid = Entry.uid /\ d.at = reaper.at

HourInv ==
    TellInv /\ now <= MaxTime /\ DeletedOnce /\ Remembers /\ RunFits /\ HourlyLimitKept

LEMMA CountIsNat ==
  ASSUME DeletedOnce, NEW c
  PROVE  IsFiniteSet(RecordedSince(c)) /\ Cardinality(RecordedSince(c)) \in Nat
BY FS_Subset, FS_CardinalityType DEF DeletedOnce, RecordedSince

\* A run that goes on, or ends, without a deletion.
LEMMA FitsOn ==
  ASSUME HourInv, TellInv', now <= now', UNCHANGED deletions,
         reaper' # Idle =>
           /\ reaper # Idle /\ reaper'.at = reaper.at /\ reaper'.budget <= reaper.budget
           /\ reaper' = reaper \/ reaper'.pc # "record"
  PROVE  RunFits'
<1> SUFFICES ASSUME reaper' # Idle PROVE RunFits'
  BY DEF RunFits
<1>1. /\ reaper # Idle /\ reaper'.at = reaper.at /\ reaper'.budget <= reaper.budget
      /\ reaper' = reaper \/ reaper'.pc # "record"
  OBVIOUS
<1>2. /\ reaper.budget \in Int /\ reaper.at \in Nat /\ reaper'.budget \in Int
      /\ reaper'.at \in Nat /\ now \in Nat /\ now' \in Nat
  <2>1. CleanupShape /\ CleanupShape'
    BY DEF HourInv, TellInv
  <2>2. reaper.budget \in Int /\ reaper.at \in Nat
    BY <1>1, <2>1, RunShape
  <2>3. reaper \in WalkShape \cup StampShape /\ reaper' \in WalkShape \cup StampShape
    BY <1>1, <2>1 DEF CleanupShape
  <2>4. reaper'.budget \in Int /\ reaper'.at \in Nat
    BY <2>3 DEF WalkShape, StampShape
  <2> QED BY <2>1, <2>2, <2>4 DEF CleanupShape
<1>3. PICK n \in Nat : n = Cardinality(RecordedSince(reaper.at - Hour))
  BY CountIsNat DEF HourInv
<1>4. RecordedSince(reaper.at - Hour)' = RecordedSince(reaper.at - Hour)
  BY <1>1 DEF RecordedSince
<1>5. n = Cardinality(RecordedSince(reaper.at - Hour))'
  BY <1>3, <1>4
<1>6. /\ reaper.at <= now /\ \A d \in deletions : d.at <= reaper.at
      /\ reaper.budget + n + (IF reaper.pc = "record" THEN 1 ELSE 0) <= MaxDeletionsAnHour
      /\ reaper.pc = "record" =>
           /\ reaper.budget >= 0
           /\ \E d \in deletions : d.name = Entry.name /\ d.uid = Entry.uid /\ d.at = reaper.at
  BY <1>1, <1>3 DEF HourInv, RunFits
<1>7. (reaper.at <= now /\ \A d \in deletions : d.at <= reaper.at)'
  BY <1>1, <1>2, <1>6
<1>8. /\ reaper'.budget + n + (IF reaper'.pc = "record" THEN 1 ELSE 0) <= MaxDeletionsAnHour
      /\ reaper'.pc = "record" => reaper' = reaper
  BY <1>1, <1>2, <1>6, CleanupAssumption
<1>9. reaper'.pc = "record" =>
        /\ reaper'.budget >= 0
        /\ (\E d \in deletions : d.name = Entry.name /\ d.uid = Entry.uid /\ d.at = reaper.at)'
  BY <1>6, <1>8 DEF Entry
<1> QED BY <1>5, <1>7, <1>8, <1>9 DEF RunFits

\* A step that deletes nothing and records nothing.
LEMMA CalmHour ==
  ASSUME HourInv, TellInv', RunFits', now <= now', now' <= MaxTime,
         UNCHANGED <<deletions, deletedLog>>,
         \A n \in Names :
            /\ lives'[n] >= lives[n]
            /\ namespaces'[n] # Absent =>
                 /\ namespaces'[n].uid = lives'[n]
                 /\ lives'[n] > lives[n] \/ namespaces[n] # Absent
  PROVE  HourInv'
<1>1. CleanupShape /\ CleanupShape' /\ DeletedOnce
  BY DEF HourInv, TellInv
<1>2. ASSUME NEW d \in deletions PROVE (d.at <= now /\ d.uid <= lives[d.name])'
  <2>1. d \in Deleted /\ lives \in [Names -> Nat] /\ lives' \in [Names -> Nat]
        /\ now \in Nat /\ now' \in Nat
    BY <1>1 DEF CleanupShape
  <2>2. d.at <= now /\ d.uid <= lives[d.name]
    BY <1>1 DEF DeletedOnce
  <2> QED BY <2>1, <2>2 DEF Deleted
<1>3. ASSUME NEW n \in Names, namespaces'[n] # Absent, NEW d \in deletions, d.name = n
      PROVE  d.uid # lives'[n]
  <2>1. d \in Deleted /\ lives[n] \in Nat /\ lives'[n] \in Nat
    BY <1>1 DEF CleanupShape
  <2>2. d.uid \in Nat /\ d.uid <= lives[n]
    BY <1>1, <1>3, <2>1 DEF DeletedOnce, Deleted
  <2>3. namespaces[n] # Absent => d.uid # lives[n]
    BY <1>1, <1>3 DEF DeletedOnce
  <2> QED BY <1>3, <2>1, <2>2, <2>3
<1>4. DeletedOnce'
  BY <1>1, <1>2, <1>3 DEF DeletedOnce
<1>5. Remembers'
  BY DEF HourInv, Remembers, RecordedSince
<1>6. HourlyLimitKept'
  BY DEF HourInv, HourlyLimitKept
<1> QED BY <1>4, <1>5, <1>6 DEF HourInv

\* A new run counts at least what was recorded in the hour before it.
LEMMA BeginsFits ==
  ASSUME HourInv, TellInv', RunBegins
  PROVE  RunFits'
<1>1. PICK plan :
        reaper' = [pc |-> "walk", plan |-> plan, at |-> now, budget |-> deletionBudget(now),
                   warn |-> warnBefore(setting)]
  BY DEF RunBegins
<1>2. /\ CleanupShape /\ DeletedOnce /\ now' = now /\ deletions' = deletions
  BY DEF HourInv, TellInv, RunBegins, NoFault, clockVars
<1>3. now \in Nat /\ now \in 0..MaxTime /\ MaxDeletionsAnHour \in Nat /\ LogSize \in Nat
      /\ MaxDeletionsAnHour <= LogSize /\ Hour \in Nat
  BY <1>2, ClockAssumption, CleanupAssumption DEF HourInv, CleanupShape
<1>4. PICK c \in Int : c = now - Hour
  BY <1>3
<1>5. PICK n \in Nat : n = Cardinality(RecordedSince(c))
  BY <1>2, CountIsNat
<1>6. n <= MaxDeletionsAnHour
  <2>1. \A d \in deletions : d.at <= now
    BY <1>2 DEF DeletedOnce
  <2>2. RecordedSince(c) = RecordedInHour(now)
    BY <1>4, <2>1 DEF RecordedSince, RecordedInHour
  <2>3. Cardinality(RecordedInHour(now)) <= MaxDeletionsAnHour
    BY <1>3 DEF HourInv, HourlyLimitKept, RecordedInHour
  <2> QED BY <1>5, <2>2, <2>3
<1> DEFINE recent == {i \in DOMAIN deletedLog : now - deletedLog[i] < Hour}
<1>7. IsFiniteSet(recent) /\ Cardinality(recent) \in Nat
  <2>1. IsFiniteSet(DOMAIN deletedLog)
    BY <1>2, LenProperties, FS_Interval DEF CleanupShape
  <2>2. IsFiniteSet(recent)
    BY <2>1, FS_Subset
  <2> QED BY <2>2, FS_CardinalityType
<1>8. 1..n \subseteq recent
  <2> SUFFICES ASSUME NEW k \in 1..n PROVE k \in recent
    OBVIOUS
  <2>1. k \in 1..LogSize /\ k <= Cardinality(RecordedSince(c))
    BY <1>3, <1>5, <1>6
  <2>2. k \in DOMAIN deletedLog /\ deletedLog[k] > c
    BY <2>1 DEF HourInv, Remembers
  <2>3. deletedLog[k] \in Nat
    BY <1>2, <2>2, LenProperties DEF CleanupShape
  <2> QED BY <1>3, <1>4, <2>2, <2>3
<1>9. n <= Cardinality(recent)
  <2>1. Cardinality(1..n) = n
    BY FS_Interval
  <2> HIDE DEF recent
  <2> QED BY <1>7, <1>8, <2>1, FS_Subset
<1>10. deletionBudget(now) = MaxDeletionsAnHour - Cardinality(recent)
  BY DEF deletionBudget
<1> HIDE DEF recent
<1>11. PICK b \in Int : b = deletionBudget(now) /\ b + n <= MaxDeletionsAnHour
  BY <1>3, <1>7, <1>9, <1>10
<1>12. reaper'.at = now /\ reaper'.budget = b /\ reaper'.pc = "walk"
  BY <1>1, <1>11
<1>13. n = Cardinality(RecordedSince(reaper.at - Hour))'
  BY <1>2, <1>4, <1>5, <1>12 DEF RecordedSince
<1>14. (reaper.at <= now /\ \A d \in deletions : d.at <= reaper.at)'
  BY <1>2, <1>3, <1>12 DEF DeletedOnce
<1> QED BY <1>11, <1>12, <1>13, <1>14 DEF RunFits

\* A deletion takes its place in the run's budget before it is recorded.
LEMMA DeletesInHour ==
  ASSUME HourInv, TellInv', DeleteEntry
  PROVE  HourInv'
<1>1. /\ CleanupShape /\ CleanupShape' /\ DeletedOnce /\ now' = now /\ reaper # Idle
      /\ reaper.pc = "walk" /\ reaper.plan # <<>> /\ reaper.budget > 0
      /\ UNCHANGED <<lives, setting, deletedLog, told, promised>>
  BY DEF HourInv, TellInv, DeleteEntry, Walking, NoFault, clockVars, Idle
<1>2. /\ reaper.budget \in Int /\ reaper.at \in Nat /\ Entry \in Entries /\ now \in Nat
      /\ reaper \in WalkShape
  BY <1>1, RunShape DEF CleanupShape
<1>3. CASE /\ namespaces[Entry.name].uid = Entry.uid
           /\ namespaces' = [namespaces EXCEPT ![Entry.name] = Absent]
           /\ reaper' = [reaper EXCEPT !.pc = "record", !.budget = @ - 1]
           /\ deletions' = deletions \cup
                {[name |-> Entry.name, uid |-> Entry.uid, at |-> reaper.at, recorded |-> FALSE]}
  <2>1. PICK e, at, new :
          /\ e = Entry /\ at = reaper.at
          /\ new = [name |-> e.name, uid |-> e.uid, at |-> at, recorded |-> FALSE]
    OBVIOUS
  <2>2. /\ e.name \in Names /\ e.uid \in Nat \ {0} /\ at \in Nat
        /\ new.name = e.name /\ new.uid = e.uid /\ new.at = at /\ new.recorded = FALSE
        /\ deletions' = deletions \cup {new}
    BY <1>2, <1>3, <2>1 DEF Entries
  <2>3. /\ reaper' # Idle /\ reaper'.at = at /\ reaper'.budget = reaper.budget - 1
        /\ reaper'.pc = "record" /\ reaper'.plan = reaper.plan /\ Entry' = e
    BY <1>2, <1>3, <2>1 DEF WalkShape, Entry, Idle
  <2>4. \A c : RecordedSince(c)' = RecordedSince(c)
    BY <2>2 DEF RecordedSince
  <2>5. at <= now /\ \A d \in deletions : d.at <= at
    BY <1>1, <2>1 DEF HourInv, RunFits
  <2>6. RunFits'
    <3>1. PICK n \in Nat : n = Cardinality(RecordedSince(reaper.at - Hour))
      BY <1>1, CountIsNat
    <3>2. reaper.budget + n <= MaxDeletionsAnHour
      BY <1>1, <1>2, <3>1 DEF HourInv, RunFits
    <3>3. n = Cardinality(RecordedSince(reaper.at - Hour))'
      BY <2>1, <2>3, <2>4, <3>1
    <3>4. (\A d \in deletions : d.at <= reaper.at)'
      BY <2>2, <2>3, <2>5
    <3>5. (\E d \in deletions : d.name = Entry.name /\ d.uid = Entry.uid /\ d.at = reaper.at)'
      BY <2>2, <2>3
    <3>6. reaper'.budget >= 0 /\ reaper'.budget + n + 1 <= MaxDeletionsAnHour
      BY <1>1, <1>2, <2>3, <3>2, CleanupAssumption
    <3> QED BY <1>1, <2>3, <2>5, <3>3, <3>4, <3>5, <3>6 DEF RunFits
  <2>7. /\ namespaces[e.name] # Absent
        /\ e.uid = lives[e.name] /\ \A d \in deletions : d.name = e.name => d.uid # e.uid
    <3>1. namespaces[e.name] # Absent
      BY <1>3, <2>1, <2>2 DEF Absent
    <3> QED BY <1>1, <1>3, <2>1, <2>2, <3>1 DEF DeletedOnce
  <2>8. DeletedOnce'
    <3>1. IsFiniteSet(deletions')
      BY <1>1, <2>2, FS_AddElement DEF DeletedOnce
    <3>2. (\A d \in deletions : d.at <= now /\ d.uid <= lives[d.name])'
      BY <1>1, <2>2, <2>5, <2>7 DEF DeletedOnce
    <3>3. (\A d, f \in deletions : d.name = f.name /\ d.uid = f.uid => d = f)'
      BY <1>1, <2>2, <2>7 DEF DeletedOnce
    <3>4. ASSUME NEW n \in Names, namespaces'[n] # Absent
          PROVE  n # e.name /\ namespaces'[n] = namespaces[n]
      BY <1>1, <1>3, <2>1, <3>4 DEF CleanupShape
    <3>5. (\A n \in Names : namespaces[n] # Absent =>
             /\ namespaces[n].uid = lives[n]
             /\ \A d \in deletions : d.name = n => d.uid # lives[n])'
      BY <1>1, <2>2, <3>4 DEF DeletedOnce
    <3> QED BY <3>1, <3>2, <3>3, <3>5 DEF DeletedOnce
  <2>9. Remembers'
    BY <1>1, <2>4 DEF HourInv, Remembers
  <2>10. HourlyLimitKept'
    <3>1. ASSUME NEW t \in 0..MaxTime PROVE RecordedInHour(t)' = RecordedInHour(t)
      BY <2>2 DEF RecordedInHour
    <3> QED BY <3>1 DEF HourInv, HourlyLimitKept, RecordedInHour
  <2> QED BY <1>1, <2>6, <2>8, <2>9, <2>10 DEF HourInv
<1>4. CASE /\ reaper' = Onwards([reaper EXCEPT !.budget = @ - 1])
           /\ UNCHANGED <<namespaces, deletions>>
  <2>1. PICK b \in Int : b = reaper.budget - 1
    BY <1>2
  <2>2. PICK r : r = reaper'
    OBVIOUS
  <2>3. r = Onwards([reaper EXCEPT !.budget = b])
    BY <1>4, <2>1, <2>2
  <2>4. reaper'.pc = "walk" /\ reaper'.at = reaper.at /\ reaper'.budget = b
    BY <1>1, <2>2, <2>3, RunGoesOn
  <2>5. RunFits'
    BY <1>1, <1>2, <1>4, <2>1, <2>4, FitsOn
  <2>6. \A n \in Names : lives[n] \in Nat
    BY <1>1 DEF CleanupShape
  <2> QED BY <1>1, <1>2, <1>4, <2>5, <2>6, CalmHour DEF HourInv, DeletedOnce
<1> QED BY <1>3, <1>4 DEF DeleteEntry

\* The deletion the run has just recorded.
LEMMA RecordsInHour ==
  ASSUME HourInv, TellInv', RecordDeletion, deletions' # deletions \/ deletedLog' # deletedLog
  PROVE  HourInv'
<1>1. /\ CleanupShape /\ CleanupShape' /\ DeletedOnce /\ now' = now /\ reaper # Idle
      /\ reaper.pc = "record" /\ reaper' = Onwards(reaper) /\ reaper.plan # <<>>
      /\ UNCHANGED <<namespaces, lives, setting, told, promised>>
      /\ deletedLog' = SubSeq(<<reaper.at>> \o deletedLog, 1,
                              IF Len(deletedLog) < LogSize THEN Len(deletedLog) + 1 ELSE LogSize)
      /\ deletions' = {[d EXCEPT !.recorded = @ \/ (d.name = Entry.name /\ d.uid = Entry.uid)]
                          : d \in deletions}
  <2>1. CleanupShape /\ CleanupShape' /\ DeletedOnce
    BY DEF HourInv, TellInv
  <2>2. reaper.pc = "record" /\ reaper # Idle
    BY DEF RecordDeletion, Idle
  <2>3. reaper.plan # <<>>
    BY <2>1, <2>2 DEF CleanupShape
  <2> QED BY <2>1, <2>2, <2>3 DEF RecordDeletion, NoFault, Fault, clockVars
<1>2. /\ reaper.budget \in Int /\ reaper.at \in Nat /\ Entry \in Entries /\ now \in Nat
      /\ reaper \in WalkShape /\ Tail(reaper.plan) \in Seq(Entries)
  BY <1>1, RunShape DEF CleanupShape
<1>3. PICK at \in Nat, b \in Int, e \in Entries : at = reaper.at /\ b = reaper.budget /\ e = Entry
  BY <1>2
<1>4. PICK n \in Nat : n = Cardinality(RecordedSince(at - Hour))
  BY <1>1, CountIsNat
<1>5. /\ at <= now /\ \A d \in deletions : d.at <= at
      /\ b >= 0 /\ b + n + 1 <= MaxDeletionsAnHour
      /\ \E d \in deletions : d.name = e.name /\ d.uid = e.uid /\ d.at = at
  BY <1>1, <1>2, <1>3, <1>4 DEF HourInv, RunFits
<1>6. PICK old \in deletions : old.name = e.name /\ old.uid = e.uid /\ old.at = at
  BY <1>5
<1>7. old \in Deleted
  BY <1>1 DEF CleanupShape
<1>8. PICK new : new = [old EXCEPT !.recorded = TRUE]
  OBVIOUS
<1>9. /\ new.name = old.name /\ new.uid = old.uid /\ new.at = at /\ new.recorded = TRUE
  BY <1>6, <1>7, <1>8 DEF Deleted
\* One entry of the deletions changes.
<1>10. deletions' = (deletions \ {old}) \cup {new}
  <2> DEFINE mark(d) == [d EXCEPT !.recorded = @ \/ (d.name = Entry.name /\ d.uid = Entry.uid)]
  <2>1. mark(old) = new
    <3>1. (old.name = Entry.name /\ old.uid = Entry.uid) = TRUE
      BY <1>3, <1>6
    <3>2. (old.recorded \/ (old.name = Entry.name /\ old.uid = Entry.uid)) = TRUE
      BY <3>1, Zenon
    <3>3. PICK yes : yes = (old.recorded \/ (old.name = Entry.name /\ old.uid = Entry.uid))
      OBVIOUS
    <3>4. mark(old) = [old EXCEPT !.recorded = yes]
      BY <3>3, Zenon
    <3>5. yes = TRUE
      BY <3>2, <3>3, Zenon
    <3> QED BY <1>8, <3>4, <3>5, Zenon
  <2>2. ASSUME NEW d \in deletions \ {old} PROVE mark(d) = d
    <3>1. d \in Deleted
      BY <1>1 DEF CleanupShape
    <3>2. (d.name = Entry.name /\ d.uid = Entry.uid) = FALSE
      BY <1>1, <1>3, <1>6 DEF DeletedOnce
    <3>3. PICK c \in BOOLEAN : c = (d.recorded \/ (d.name = Entry.name /\ d.uid = Entry.uid))
      OBVIOUS
    <3>4. d.recorded \in BOOLEAN
      BY <3>1 DEF Deleted
    <3>5. c = d.recorded
      BY <3>2, <3>3, <3>4, Zenon
    <3>6. mark(d) = [d EXCEPT !.recorded = c]
      BY <3>3, Zenon
    <3> QED BY <3>1, <3>5, <3>6 DEF Deleted
  <2>3. deletions' = {mark(d) : d \in deletions}
    BY <1>1, Zenon
  <2> HIDE DEF mark
  <2> QED BY <2>1, <2>2, <2>3
<1>11. reaper'.pc = "walk" /\ reaper'.at = at /\ reaper'.budget = b
  <2>1. PICK r : r = reaper'
    OBVIOUS
  <2>2. reaper = [reaper EXCEPT !.budget = b]
    BY <1>2, <1>3 DEF WalkShape
  <2>3. r = Onwards([reaper EXCEPT !.budget = b])
    BY <1>1, <2>1, <2>2
  <2> QED BY <1>1, <1>3, <2>1, <2>3, RunGoesOn
\* It is one more in every span that has the moment of this run, and no more in others.
<1>12. ASSUME NEW c \in Int
       PROVE  /\ Cardinality(RecordedSince(c)') <= Cardinality(RecordedSince(c)) + 1
              /\ c >= at => RecordedSince(c)' = {}
  <2>1. ASSUME NEW d \in RecordedSince(c)' PROVE d \in RecordedSince(c) \cup {new}
    BY <1>10 DEF RecordedSince
  <2>2. PICK S : S = RecordedSince(c)
    OBVIOUS
  <2>3. IsFiniteSet(S) /\ Cardinality(S) \in Nat
    BY <1>1, <2>2, CountIsNat
  <2>4. IsFiniteSet(S \cup {new}) /\ Cardinality(S \cup {new}) <= Cardinality(S) + 1
    <3>1. /\ IsFiniteSet(S \cup {new})
          /\ Cardinality(S \cup {new}) \in {Cardinality(S), Cardinality(S) + 1}
      <4>1. CASE new \in S
        <5>1. S \cup {new} = S
          BY <4>1
        <5> QED BY <2>3, <5>1
      <4>2. CASE new \notin S
        BY <2>3, <4>2, FS_AddElement
      <4> QED BY <4>1, <4>2
    <3> QED BY <2>3, <3>1
  <2>5. RecordedSince(c)' \subseteq S \cup {new}
    BY <2>1, <2>2
  <2>6. /\ Cardinality(RecordedSince(c)') <= Cardinality(S \cup {new})
        /\ Cardinality(RecordedSince(c)') \in Nat /\ Cardinality(S \cup {new}) \in Nat
    BY <2>4, <2>5, FS_Subset, FS_CardinalityType
  <2>7. ASSUME c >= at, NEW d \in RecordedSince(c)' PROVE FALSE
    <3>1. d \in deletions \cup {new} /\ c < d.at
      BY <1>10, <2>7 DEF RecordedSince
    <3>2. d.at <= at /\ d.at \in Nat
      BY <1>1, <1>5, <1>9, <3>1 DEF CleanupShape, Deleted
    <3> QED BY <2>7, <3>1, <3>2
  <2> QED BY <2>2, <2>3, <2>4, <2>6, <2>7
<1>13. RunFits'
  <2>1. at - Hour \in Int /\ MaxDeletionsAnHour \in Nat
    BY CleanupAssumption
  <2>2. PICK m : m = Cardinality(RecordedSince(at - Hour)')
    OBVIOUS
  <2>3. m <= n + 1
    BY <1>4, <1>12, <2>1, <2>2
  <2>4. m = Cardinality(RecordedSince(reaper.at - Hour))'
    BY <1>11, <2>2 DEF RecordedSince
  <2>5. m \in Nat
    <3>1. IsFiniteSet(deletions')
      BY <1>1, <1>10, FS_Subset, FS_AddElement DEF DeletedOnce
    <3>2. RecordedSince(at - Hour)' \subseteq deletions'
      BY DEF RecordedSince
    <3> QED BY <2>2, <3>1, <3>2, FS_Subset, FS_CardinalityType
  <2>6. b + m <= MaxDeletionsAnHour
    BY <1>3, <1>5, <2>1, <2>3, <2>5
  <2>7. (\A d \in deletions : d.at <= reaper.at)'
    BY <1>5, <1>9, <1>10, <1>11
  <2>8. (reaper.at <= now)'
    BY <1>1, <1>5, <1>11
  <2>9. (reaper.budget + Cardinality(RecordedSince(reaper.at - Hour))
           + (IF reaper.pc = "record" THEN 1 ELSE 0) <= MaxDeletionsAnHour)'
    <3>1. (IF reaper.pc = "record" THEN 1 ELSE 0)' = 0
      BY <1>11
    <3> QED BY <1>11, <2>4, <2>5, <2>6, <3>1
  <2>10. reaper'.pc # "record"
    BY <1>11
  <2> QED BY <2>7, <2>8, <2>9, <2>10 DEF RunFits
<1>14. DeletedOnce'
  <2>1. IsFiniteSet(deletions')
    BY <1>1, <1>10, FS_Subset, FS_AddElement DEF DeletedOnce
  <2>2. (\A d \in deletions : d.at <= now /\ d.uid <= lives[d.name])'
    BY <1>1, <1>6, <1>9, <1>10 DEF DeletedOnce
  <2>3. (\A d, f \in deletions : d.name = f.name /\ d.uid = f.uid => d = f)'
    BY <1>1, <1>9, <1>10 DEF DeletedOnce
  <2>4. ASSUME NEW x \in Names, namespaces'[x] # Absent
        PROVE  /\ namespaces'[x].uid = lives'[x]
               /\ \A d \in deletions' : d.name = x => d.uid # lives'[x]
    <3>1. namespaces[x] # Absent
      BY <1>1, <2>4
    <3>2. /\ namespaces[x].uid = lives[x]
          /\ \A d \in deletions : d.name = x => d.uid # lives[x]
      BY <1>1, <3>1 DEF DeletedOnce
    <3>3. \A d \in deletions' : d.name = x => d.uid # lives[x]
      BY <1>6, <1>9, <1>10, <3>2
    <3> QED BY <1>1, <3>2, <3>3
  <2> QED BY <2>1, <2>2, <2>3, <2>4 DEF DeletedOnce
\* The record has this run's moment first and the older ones one place further on.
<1>15. Remembers'
  <2> SUFFICES ASSUME NEW c \in Int, NEW k \in 1..LogSize,
                      k <= Cardinality(RecordedSince(c)')
               PROVE  k \in DOMAIN deletedLog' /\ deletedLog'[k] > c
    BY DEF Remembers
  <2>1. PICK l : l = <<at>> \o deletedLog
    OBVIOUS
  <2>2. PICK m : m = IF Len(deletedLog) < LogSize THEN Len(deletedLog) + 1 ELSE LogSize
    OBVIOUS
  <2>3. /\ deletedLog \in Seq(Nat) /\ Len(deletedLog) \in Nat
        /\ DOMAIN deletedLog = 1..Len(deletedLog) /\ LogSize \in Nat
    BY <1>1, LenProperties, CleanupAssumption DEF CleanupShape
  <2>4. /\ l \in Seq(Nat) /\ Len(l) = Len(deletedLog) + 1 /\ l[1] = at
        /\ \A i \in 1..Len(deletedLog) : l[i + 1] = deletedLog[i]
    BY <1>3, <2>1, <2>3, ConcatProperties, LenProperties
  <2>5. m \in Nat /\ m <= Len(l) /\ deletedLog' = SubSeq(l, 1, m)
    BY <1>1, <1>3, <2>1, <2>2, <2>3, <2>4
  <2>6. DOMAIN deletedLog' = 1..m /\ \A i \in 1..m : deletedLog'[i] = l[i]
    BY <2>4, <2>5, SubSeqProperties
  <2>7. PICK r \in Nat : r = Cardinality(RecordedSince(c))
    BY <1>1, CountIsNat
  <2>8. c < at
    <3>1. Cardinality({}) = 0
      BY FS_EmptySet
    <3>2. c >= at => k <= 0
      BY <1>12, <3>1
    <3> QED BY <1>3, <3>2
  <2>9. Cardinality(RecordedSince(c)') \in Nat
    <3>1. RecordedSince(c)' \subseteq deletions'
      BY DEF RecordedSince
    <3> QED BY <1>14, <3>1, FS_Subset, FS_CardinalityType DEF DeletedOnce
  <2>10. k - 1 <= r
    BY <1>12, <2>7, <2>9
  <2>11. CASE k = 1
    <3>1. 1 \in 1..m
      BY <2>2, <2>3, <2>11
    <3> QED BY <2>4, <2>6, <2>8, <2>11, <3>1
  <2>12. CASE k # 1
    <3>1. PICK j \in 1..LogSize : j = k - 1
      BY <2>3, <2>12
    <3>2. j \in DOMAIN deletedLog /\ deletedLog[j] > c
      BY <2>7, <2>10, <3>1 DEF HourInv, Remembers
    <3>3. k \in 1..m /\ l[k] = deletedLog[j]
      BY <2>2, <2>3, <2>4, <3>1, <3>2
    <3> QED BY <2>6, <3>2, <3>3
  <2> QED BY <2>11, <2>12
<1>16. HourlyLimitKept'
  <2> SUFFICES ASSUME NEW t \in 0..MaxTime
               PROVE  Cardinality(RecordedInHour(t)') <= MaxDeletionsAnHour
    BY DEF HourlyLimitKept, RecordedInHour
  <2>0. Hour \in Nat /\ MaxDeletionsAnHour \in Nat /\ at - Hour \in Int /\ t \in Int
    BY CleanupAssumption, ClockAssumption
  <2>1. CASE t - Hour < at /\ at <= t
    <3>1. RecordedInHour(t)' \subseteq RecordedSince(at - Hour)'
      <4> SUFFICES ASSUME NEW d \in RecordedInHour(t)' PROVE at - Hour < d.at
        BY DEF RecordedInHour, RecordedSince
      <4>1. d \in deletions' /\ t - Hour < d.at
        BY DEF RecordedInHour
      <4>2. d.at \in Nat
        BY <1>1, <4>1 DEF CleanupShape, Deleted
      <4> QED BY <2>0, <2>1, <4>1, <4>2
    <3>2. PICK S, T : S = RecordedInHour(t)' /\ T = RecordedSince(at - Hour)'
      OBVIOUS
    <3>3. T \subseteq deletions'
      BY <3>2 DEF RecordedSince
    <3>4. IsFiniteSet(T) /\ Cardinality(T) \in Nat
      BY <1>14, <3>3, FS_Subset, FS_CardinalityType DEF DeletedOnce
    <3>5. Cardinality(S) \in Nat /\ Cardinality(S) <= Cardinality(T)
      BY <3>1, <3>2, <3>4, FS_Subset, FS_CardinalityType
    <3>6. Cardinality(T) <= n + 1
      BY <1>4, <1>12, <2>0, <3>2
    <3> QED BY <1>3, <1>5, <2>0, <3>2, <3>4, <3>5, <3>6
  <2>2. CASE ~(t - Hour < at /\ at <= t)
    <3>1. RecordedInHour(t)' = RecordedInHour(t)
      BY <1>6, <1>9, <1>10, <2>2 DEF RecordedInHour
    <3>2. Cardinality(RecordedInHour(t)) <= MaxDeletionsAnHour
      BY DEF HourInv, HourlyLimitKept, RecordedInHour
    <3> QED BY <3>1, <3>2
  <2> QED BY <2>1, <2>2
<1> QED BY <1>1, <1>13, <1>14, <1>15, <1>16 DEF HourInv

LEMMA ClockSteps == HourInv /\ [Next]_vars => now' \in Nat /\ now <= now' /\ now' <= MaxTime
<1> SUFFICES ASSUME HourInv, [Next]_vars PROVE now' = now \/ (now' = now + 1 /\ now < MaxTime)
  BY ClockAssumption DEF HourInv, TellInv, CleanupShape
<1> QED BY TimeSteps

LEMMA HourStep == HourInv /\ [Next]_vars => HourInv'
<1> SUFFICES ASSUME HourInv, [Next]_vars PROVE HourInv'
  OBVIOUS
<1>1. /\ TellInv /\ TellInv' /\ CleanupShape /\ CleanupShape' /\ DeletedOnce
      /\ now <= now' /\ now' <= MaxTime
  BY TellStep, ClockSteps DEF HourInv, TellInv
<1>2. ASSUME NEW n \in Names
      PROVE  /\ lives[n] \in Nat /\ lives'[n] \in Nat
             /\ namespaces[n] # Absent => namespaces[n] \in NewsTypes /\ namespaces[n].uid = lives[n]
  BY <1>1 DEF CleanupShape, DeletedOnce
<1>3. CASE UNCHANGED cleanupVars
  <2>1. RunFits'
    <3>1. reaper # Idle => reaper'.budget <= reaper.budget
      BY <1>1, <1>3, RunShape DEF cleanupVars
    <3> QED BY <1>1, <1>3, <3>1, FitsOn DEF cleanupVars
  <2> QED BY <1>1, <1>2, <1>3, <2>1, CalmHour DEF cleanupVars
<1>4. CASE RunBegins
  <2>1. RunFits'
    BY <1>1, <1>4, BeginsFits
  <2> QED BY <1>1, <1>2, <1>4, <2>1, CalmHour DEF RunBegins
<1>5. CASE DeleteEntry
  BY <1>1, <1>5, DeletesInHour
<1>6. CASE RecordDeletion /\ (deletions' # deletions \/ deletedLog' # deletedLog)
  BY <1>1, <1>6, RecordsInHour
<1>7. CASE \/ RecordDeletion /\ UNCHANGED <<deletions, deletedLog>>
           \/ SkipEntry
  <2>1. /\ reaper # Idle /\ reaper.pc # "stamp" /\ reaper.plan # <<>>
        /\ reaper' = Onwards(reaper)
        /\ UNCHANGED <<namespaces, lives, deletions, deletedLog>>
    BY <1>1, <1>7 DEF RecordDeletion, SkipEntry, Walking, Idle, CleanupShape
  <2>0. PICK r : r = reaper'
    OBVIOUS
  <2>2. PICK b \in Int : b = reaper.budget
    BY <1>1, <2>1, RunShape
  <2>3. reaper = [reaper EXCEPT !.budget = b]
    BY <1>1, <2>1, <2>2, RunShape DEF WalkShape
  <2>4. r = Onwards([reaper EXCEPT !.budget = b])
    BY <2>0, <2>1, <2>3
  <2>5. reaper'.pc = "walk" /\ reaper'.at = reaper.at /\ reaper'.budget = reaper.budget
    BY <1>1, <2>0, <2>1, <2>2, <2>4, RunGoesOn
  <2>6. RunFits'
    BY <1>1, <2>1, <2>2, <2>5, FitsOn
  <2> QED BY <1>1, <1>2, <2>1, <2>6, CalmHour
<1>8. CASE RunEnds \/ RunBreaksOff
  <2>1. reaper' = Idle /\ UNCHANGED <<namespaces, lives, deletions, deletedLog>>
    BY <1>8 DEF RunEnds, RunBreaksOff
  <2>2. RunFits'
    BY <2>1 DEF RunFits
  <2> QED BY <1>1, <1>2, <2>1, <2>2, CalmHour
<1>9. CASE WarnEntry
  <2>1. UNCHANGED <<namespaces, lives, deletions, deletedLog>> /\ reaper # Idle
    BY <1>9 DEF WarnEntry, Walking, Idle
  <2>2. reaper' # Idle => /\ reaper'.at = reaper.at /\ reaper'.budget = reaper.budget
                          /\ reaper'.pc = "stamp"
    BY <1>9 DEF WarnEntry
  <2>3. RunFits'
    BY <1>1, <2>1, <2>2, FitsOn, RunShape
  <2> QED BY <1>1, <1>2, <2>1, <2>3, CalmHour
<1>10. CASE StampWarning
  <2>1. UNCHANGED <<lives, deletions, deletedLog>> /\ reaper # Idle /\ Entry \in Entries
    BY <1>1, <1>10, RunShape DEF StampWarning, Idle, CleanupShape
  <2>2. reaper' # Idle => /\ reaper'.at = reaper.at /\ reaper'.budget = reaper.budget
                          /\ reaper'.pc = "walk"
    BY <1>10 DEF StampWarning
  <2>3. RunFits'
    BY <1>1, <2>1, <2>2, FitsOn, RunShape
  <2>4. ASSUME NEW n \in Names, namespaces'[n] # Absent
        PROVE  namespaces[n] # Absent /\ namespaces'[n].uid = namespaces[n].uid
    BY <1>1, <1>2, <1>10, <2>1, <2>4 DEF StampWarning, CleanupShape, Entries, NewsTypes
  <2> QED BY <1>1, <1>2, <2>1, <2>3, <2>4, CalmHour
<1>11. CASE \/ \E t \in Settings : SaveSetting(t)
            \/ \E n \in Names, by \in Extensions : Extend(n, by)
            \/ \E n \in Names : CreateNamespace(n) \/ EditNamespace(n)
  <2>1. UNCHANGED <<reaper, deletions, deletedLog>>
    BY <1>11 DEF SaveSetting, Extend, CreateNamespace, EditNamespace
  <2>2. RunFits'
    BY <1>1, <2>1, FitsOn, RunShape
  <2>3. ASSUME NEW n \in Names
        PROVE  /\ lives'[n] >= lives[n]
               /\ namespaces'[n] # Absent =>
                    /\ namespaces'[n].uid = lives'[n]
                    /\ lives'[n] > lives[n] \/ namespaces[n] # Absent
    <3>1. CASE UNCHANGED <<namespaces, lives>>
      BY <1>2, <3>1
    <3>2. ASSUME NEW m \in Names, NEW by \in Extensions, Extend(m, by)
          PROVE  lives' = lives /\ (namespaces'[n] # Absent =>
                   namespaces[n] # Absent /\ namespaces'[n].uid = namespaces[n].uid)
      BY <1>1, <1>2, <3>2 DEF Extend, CleanupShape, NewsTypes
    <3>3. ASSUME NEW m \in Names, CreateNamespace(m)
          PROVE  \/ lives'[n] = lives[n] + 1 /\ namespaces'[n].uid = lives'[n]
                 \/ lives'[n] = lives[n] /\ namespaces'[n] = namespaces[n]
      BY <1>1, <1>2, <3>3 DEF CreateNamespace, CleanupShape, Fresh
    <3>4. ASSUME NEW m \in Names, EditNamespace(m)
          PROVE  lives' = lives /\ (namespaces'[n] # Absent =>
                   namespaces[n] # Absent /\ namespaces'[n].uid = namespaces[n].uid)
      <4>1. lives' = lives /\ namespaces[m] # Absent /\ namespaces[m] \in NewsTypes
        BY <1>2, <3>4 DEF EditNamespace
      <4>2. PICK ns : /\ namespaces' = [namespaces EXCEPT ![m] = ns]
                      /\ \/ \E label \in Labels \cup {NoLabel} :
                              ns = [namespaces[m] EXCEPT !.label = label]
                         \/ ns = [namespaces[m] EXCEPT !.listed = ~@]
                         \/ ns = Absent
        BY <3>4 DEF EditNamespace
      <4>3. ns = Absent \/ ns.uid = namespaces[m].uid
        BY <4>1, <4>2 DEF NewsTypes
      <4> QED BY <1>1, <4>1, <4>2, <4>3 DEF CleanupShape
    <3> QED BY <1>2, <1>11, <3>1, <3>2, <3>3, <3>4 DEF SaveSetting
  <2> QED BY <1>1, <2>1, <2>2, <2>3, CalmHour
<1>12. CleanupNext => HourInv'
  BY <1>4, <1>5, <1>6, <1>7, <1>8, <1>9, <1>10, <1>11 DEF CleanupNext
<1> QED BY <1>3, <1>12 DEF Next, vars

LEMMA HourInit == Init => HourInv
<1> SUFFICES ASSUME Init PROVE HourInv
  OBVIOUS
<1>1. /\ TellInv /\ now = 0 /\ reaper = Idle /\ deletions = {}
      /\ \A n \in Names : namespaces[n].uid = 1 /\ lives[n] = 1
  BY TellInit DEF Init, ClockInit, CleanupInit, Fresh
<1>2. IsFiniteSet({}) /\ Cardinality({}) = 0
  BY FS_EmptySet
<1>3. DeletedOnce
  BY <1>1, <1>2 DEF DeletedOnce
<1>4. Remembers
  <2>1. \A c : RecordedSince(c) = {}
    BY <1>1 DEF RecordedSince
  <2> QED BY <1>2, <2>1, CleanupAssumption DEF Remembers
<1>5. HourlyLimitKept
  <2>1. \A t : RecordedInHour(t) = {}
    BY <1>1 DEF RecordedInHour
  <2> QED BY <1>2, <2>1, CleanupAssumption DEF HourlyLimitKept, RecordedInHour
<1> QED BY <1>1, <1>3, <1>4, <1>5, ClockAssumption DEF HourInv, RunFits

\* What the runs of any hour delete and record stays within the limit, however often a
\* run breaks off before it records, however many runs an hour has, and though the
\* record keeps only its newest entries (deletionBudget, record, Reaper.Run).
THEOREM DeletionsAreRationed == Spec => []HourlyLimitKept
<1>1. HourInv => HourlyLimitKept
  BY DEF HourInv
<1> QED BY <1>1, HourInit, HourStep, PTL DEF Spec

LEMMA LeastNumber ==
    ASSUME NEW S \in SUBSET Nat, S # {}
    PROVE  \E m \in S : \A k \in S : m <= k
<1> DEFINE R == {p \in Nat \X Nat : p[1] < p[2]}
<1>1. IsWellFoundedOn(R, Nat)
  BY NatLessThanWellFounded DEF OpToRel
<1>2. PICK m \in S : \A k \in S : ~(<<k, m>> \in R)
  <2> HIDE DEF R
  <2> QED BY <1>1, WFMin
<1>3. \A k \in S : ~(k < m)
  BY <1>2
<1> QED BY <1>3

\* Induction over the subsets of a finite set, with the sets that are done collected in G.
LEMMA SubsetInduction ==
  ASSUME NEW S, IsFiniteSet(S), NEW G,
         \A T \in SUBSET S : (\A x \in T : T \ {x} \in G) => T \in G
  PROVE  \A T \in SUBSET S : T \in G
<1> DEFINE D == {n \in Nat : \E T \in SUBSET S : T \notin G /\ Cardinality(T) = n}
<1>1. ASSUME NEW T \in SUBSET S PROVE IsFiniteSet(T) /\ Cardinality(T) \in Nat
  BY <1>1, FS_Subset, FS_CardinalityType
<1>2. SUFFICES ASSUME D # {} PROVE FALSE
  BY <1>1
<1>3. PICK n \in D : \A k \in D : n <= k
  <2> HIDE DEF D
  <2>1. D \in SUBSET Nat
    BY DEF D
  <2> QED BY <1>2, <2>1, LeastNumber
<1>4. PICK T \in SUBSET S : T \notin G /\ Cardinality(T) = n
  BY <1>3
<1>5. ASSUME NEW x \in T PROVE T \ {x} \in G
  <2>1. T \ {x} \in SUBSET S /\ Cardinality(T \ {x}) = n - 1
    BY <1>1, <1>4, <1>5, FS_RemoveElement
  <2>2. n \in Nat /\ n - 1 \in Nat
    BY <1>1, <1>3, <2>1
  <2>3. T \ {x} \notin G => n - 1 \in D
    BY <2>1, <2>2
  <2> HIDE DEF D
  <2>4. n - 1 \notin D
    BY <1>3, <2>2
  <2> QED BY <2>3, <2>4
<1> QED BY <1>4, <1>5

-----------------------------------------------------------------------------
(* Sums over finite sets, as the folds of the community modules compute     *)
(* them: one element at a time, whichever CHOOSE takes first.               *)

Some(s) == CHOOSE x \in s : TRUE
Adding(w, S, f) == f = [s \in SUBSET S |-> IF s = {} THEN 0 ELSE w[Some(s)] + f[s \ {Some(s)}]]

LEMMA SomeIs == ASSUME NEW s, s # {} PROVE Some(s) \in s
BY DEF Some

LEMMA AddingExists ==
  ASSUME NEW S, IsFiniteSet(S), NEW w
  PROVE  \E f : Adding(w, S, f)
<1> DEFINE Level(n) == {s \in SUBSET S : Cardinality(s) <= n}
           Defined(n) == \E f : f = [s \in Level(n) |-> IF s = {} THEN 0 ELSE w[Some(s)] + f[s \ {Some(s)}]]
           D == {n \in Nat : ~Defined(n)}
<1>1. ASSUME NEW s \in SUBSET S
      PROVE  /\ IsFiniteSet(s) /\ Cardinality(s) \in Nat /\ Cardinality(s) <= Cardinality(S)
             /\ s # {} => s \ {Some(s)} \in SUBSET S /\ Cardinality(s \ {Some(s)}) = Cardinality(s) - 1
             /\ Cardinality(s) = 0 => s = {}
  <2>1. IsFiniteSet(s) /\ Cardinality(s) \in Nat /\ Cardinality(s) <= Cardinality(S)
    BY <1>1, FS_Subset, FS_CardinalityType
  <2>2. s # {} => Cardinality(s \ {Some(s)}) = Cardinality(s) - 1
    BY <2>1, SomeIs, FS_RemoveElement
  <2>3. Cardinality(s) = 0 => s = {}
    BY <2>1, FS_EmptySet
  <2> QED BY <2>1, <2>2, <2>3
<1>2. Defined(0)
  <2>1. PICK f : f = [s \in Level(0) |-> 0]
    OBVIOUS
  <2>2. ASSUME NEW s \in Level(0) PROVE s = {}
    <3>1. s \in SUBSET S /\ Cardinality(s) <= 0
      BY <2>2
    <3>2. Cardinality(s) \in Nat /\ (Cardinality(s) = 0 => s = {})
      BY <1>1, <3>1
    <3> QED BY <3>1, <3>2
  <2>3. f = [s \in Level(0) |-> IF s = {} THEN 0 ELSE w[Some(s)] + f[s \ {Some(s)}]]
    BY <2>1, <2>2
  <2> QED BY <2>3
<1>3. ASSUME NEW n \in Nat, n # 0, Defined(n - 1) PROVE Defined(n)
  <2>1. PICK f : f = [s \in Level(n - 1) |-> IF s = {} THEN 0 ELSE w[Some(s)] + f[s \ {Some(s)}]]
    BY <1>3
  <2>2. PICK g : g = [s \in Level(n) |-> IF s = {} THEN 0 ELSE w[Some(s)] + f[s \ {Some(s)}]]
    OBVIOUS
  <2>3. ASSUME NEW s \in Level(n - 1) PROVE s \in Level(n) /\ f[s] = g[s]
    <3>1. s \in Level(n)
      <4>1. s \in SUBSET S /\ Cardinality(s) <= n - 1
        BY <2>3
      <4>2. Cardinality(s) \in Nat
        BY <1>1, <4>1
      <4>3. Cardinality(s) <= n
        BY <1>3, <4>1, <4>2
      <4> QED BY <4>1, <4>3
    <3> HIDE DEF Level
    <3> QED BY <2>1, <2>2, <2>3, <3>1
  <2>4. ASSUME NEW s \in Level(n), s # {} PROVE s \ {Some(s)} \in Level(n - 1)
    BY <1>1, <1>3, <2>4
  <2>5. g = [s \in Level(n) |-> IF s = {} THEN 0 ELSE w[Some(s)] + g[s \ {Some(s)}]]
    <3> HIDE DEF Level
    <3> QED BY <2>2, <2>3, <2>4
  <2> QED BY <2>5
<1>4. \A n \in Nat : Defined(n)
  <2>1. SUFFICES ASSUME D # {} PROVE FALSE
    OBVIOUS
  <2>2. PICK n \in D : \A k \in D : n <= k
    <3> HIDE DEF D
    <3>1. D \in SUBSET Nat
      BY DEF D
    <3> QED BY <2>1, <3>1, LeastNumber
  <2> HIDE DEF Defined
  <2>3. n \in Nat /\ ~Defined(n)
    BY <2>2
  <2>4. n # 0 /\ n - 1 \in Nat
    BY <1>2, <2>3
  <2>5. n - 1 \notin D
    <3> HIDE DEF D
    <3> QED BY <2>2, <2>3, <2>4
  <2> QED BY <1>3, <2>3, <2>4, <2>5
<1>5. Cardinality(S) \in Nat /\ Level(Cardinality(S)) = SUBSET S
  BY <1>1, FS_CardinalityType
<1>6. Defined(Cardinality(S))
  <2> HIDE DEF Defined
  <2> QED BY <1>4, <1>5
<1> QED BY <1>5, <1>6 DEF Adding

LEMMA AddingStep ==
  ASSUME NEW S, NEW w, NEW f, Adding(w, S, f), NEW T \in SUBSET S
  PROVE  f[T] = IF T = {} THEN 0 ELSE w[Some(T)] + f[T \ {Some(T)}]
<1> HIDE DEF Some
<1> QED BY DEF Adding

\* The order does not matter.
LEMMA AddingIs ==
  ASSUME NEW S, IsFiniteSet(S), NEW w, \A x \in S : w[x] \in Int, NEW f, Adding(w, S, f)
  PROVE  /\ f[{}] = 0
         /\ \A T \in SUBSET S : f[T] \in Int
         /\ \A T \in SUBSET S : \A x \in S \ T : f[T \cup {x}] = w[x] + f[T]
<1>1. f[{}] = 0
  BY AddingStep
<1>2. \A T \in SUBSET S : f[T] \in Int
  <2> DEFINE G == {T \in SUBSET S : f[T] \in Int}
  <2>1. ASSUME NEW T \in SUBSET S, \A x \in T : T \ {x} \in G PROVE T \in G
    <3>1. CASE T = {}
      BY <1>1, <3>1
    <3>2. CASE T # {}
      <4>1. PICK x \in T : x = Some(T)
        BY <3>2, SomeIs
      <4>2. f[T] = w[x] + f[T \ {x}]
        BY <3>2, <4>1, AddingStep
      <4>3. f[T \ {x}] \in Int /\ w[x] \in Int
        BY <2>1
      <4> QED BY <4>2, <4>3
    <3> QED BY <3>1, <3>2
  <2>2. \A T \in SUBSET S : T \in G
    <3> HIDE DEF G
    <3> QED BY <2>1, SubsetInduction
  <2> QED BY <2>2
<1>3. \A T \in SUBSET S : \A x \in T : f[T] = w[x] + f[T \ {x}]
  <2> DEFINE G == {T \in SUBSET S : \A x \in T : f[T] = w[x] + f[T \ {x}]}
  <2>1. ASSUME NEW T \in SUBSET S, \A x \in T : T \ {x} \in G PROVE T \in G
    <3>1. SUFFICES ASSUME NEW x \in T PROVE f[T] = w[x] + f[T \ {x}]
      OBVIOUS
    <3>2. PICK y \in T : y = Some(T)
      BY SomeIs
    <3>3. f[T] = w[y] + f[T \ {y}]
      BY <3>2, AddingStep
    <3>4. CASE x # y
      <4>1. PICK R \in SUBSET S : R = T \ {x, y}
        OBVIOUS
      <4>2. f[T \ {y}] = w[x] + f[R]
        <5>1. x \in T \ {y} /\ (T \ {y}) \ {x} = R
          BY <3>4, <4>1
        <5> QED BY <2>1, <5>1
      <4>3. f[T \ {x}] = w[y] + f[R]
        <5>1. y \in T \ {x} /\ (T \ {x}) \ {y} = R
          BY <3>4, <4>1
        <5> QED BY <2>1, <5>1
      <4>4. f[R] \in Int /\ w[x] \in Int /\ w[y] \in Int
        BY <1>2
      <4> QED BY <3>3, <4>2, <4>3, <4>4
    <3> QED BY <3>3, <3>4
  <2>2. \A T \in SUBSET S : T \in G
    <3> HIDE DEF G
    <3> QED BY <2>1, SubsetInduction
  <2> QED BY <2>2
<1>4. ASSUME NEW T \in SUBSET S, NEW x \in S \ T PROVE f[T \cup {x}] = w[x] + f[T]
  <2>1. (T \cup {x}) \ {x} = T /\ T \cup {x} \in SUBSET S
    BY <1>4
  <2> QED BY <1>3, <2>1
<1> QED BY <1>1, <1>2, <1>4

LEMMA AddingSame ==
  ASSUME NEW S, NEW w, NEW f, Adding(w, S, f), NEW R, NEW v, NEW g, Adding(v, R, g),
         NEW U, IsFiniteSet(U), U \subseteq S, U \subseteq R, \A x \in U : w[x] = v[x]
  PROVE  f[U] = g[U]
<1> DEFINE G == {T \in SUBSET U : f[T] = g[T]}
<1>1. ASSUME NEW T \in SUBSET U, \A x \in T : T \ {x} \in G PROVE T \in G
  <2>1. /\ f[T] = IF T = {} THEN 0 ELSE w[Some(T)] + f[T \ {Some(T)}]
        /\ g[T] = IF T = {} THEN 0 ELSE v[Some(T)] + g[T \ {Some(T)}]
    <3>1. T \in SUBSET S /\ T \in SUBSET R
      OBVIOUS
    <3>2. f[T] = IF T = {} THEN 0 ELSE w[Some(T)] + f[T \ {Some(T)}]
      <4> HIDE DEF Some
      <4> QED BY <3>1 DEF Adding
    <3>3. g[T] = IF T = {} THEN 0 ELSE v[Some(T)] + g[T \ {Some(T)}]
      <4> HIDE DEF Some
      <4> QED BY <3>1 DEF Adding
    <3> QED BY <3>2, <3>3
  <2>2. T # {} => Some(T) \in T
    BY SomeIs
  <2>3. T # {} => f[T \ {Some(T)}] = g[T \ {Some(T)}]
    BY <1>1, <2>2
  <2> QED BY <2>1, <2>2, <2>3
<1>2. \A T \in SUBSET U : T \in G
  <2> HIDE DEF G
  <2> QED BY <1>1, SubsetInduction
<1> QED BY <1>2

\* What a set of bookings costs.
Cost(S) == FoldSet(LAMBDA x, sum : x.bill + sum, 0, S)
Bills(S) == [x \in S |-> x.bill]

LEMMA CostIsSum ==
  ASSUME NEW S, IsFiniteSet(S)
  PROVE  \E f : Adding(Bills(S), S, f) /\ Cost(S) = f[S]
<1> DEFINE Iterates(f) == f = [s \in SUBSET S |-> IF s = {} THEN 0
                                ELSE (CHOOSE x \in s : TRUE).bill + f[s \ {CHOOSE x \in s : TRUE}]]
           iter == CHOOSE f : Iterates(f)
<1>1. ASSUME NEW f PROVE Iterates(f) <=> Adding(Bills(S), S, f)
  <2>1. ASSUME NEW s \in SUBSET S, s # {} PROVE Bills(S)[Some(s)] = Some(s).bill
    BY <2>1, SomeIs DEF Bills
  <2>2. Iterates(f) <=> f = [s \in SUBSET S |-> IF s = {} THEN 0
                                ELSE Some(s).bill + f[s \ {Some(s)}]]
    BY Zenon DEF Some
  <2> HIDE DEF Iterates, Some, Bills
  <2> QED BY <2>1, <2>2 DEF Adding
<1>2. Cost(S) = iter[S]
  BY Zenon DEF Cost, FoldSet, MapThenFoldSet
<1>3. Iterates(iter)
  <2>1. PICK f : Adding(Bills(S), S, f)
    BY AddingExists
  <2>2. Iterates(f)
    <3> HIDE DEF Iterates
    <3> QED BY <1>1, <2>1
  <2> QED BY <2>2
<1> QED BY <1>1, <1>2, <1>3

\* One more booking.
LEMMA CostOfOneMore ==
  ASSUME NEW S, IsFiniteSet(S), \A x \in S : x.bill \in Int, NEW y, y \notin S, y.bill \in Int
  PROVE  Cost(S) \in Int /\ Cost(S \cup {y}) = y.bill + Cost(S)
<1> DEFINE R == S \cup {y}
<1>1. IsFiniteSet(R)
  BY FS_AddElement
<1>2. PICK f : Adding(Bills(S), S, f) /\ Cost(S) = f[S]
  BY CostIsSum
<1>3. PICK g : Adding(Bills(R), R, g) /\ Cost(R) = g[R]
  BY <1>1, CostIsSum
<1>4. /\ \A x \in S : Bills(S)[x] \in Int /\ Bills(S)[x] = Bills(R)[x]
      /\ \A x \in R : Bills(R)[x] \in Int
      /\ Bills(R)[y] = y.bill
  BY DEF Bills
<1>5. f[S] = g[S]
  <2>1. S \subseteq R
    OBVIOUS
  <2> HIDE DEF R
  <2> QED BY <1>2, <1>3, <1>4, <2>1, AddingSame
<1>6. f[S] \in Int
  BY <1>2, <1>4, AddingIs
<1>7. g[S \cup {y}] = Bills(R)[y] + g[S]
  <2>1. S \in SUBSET R /\ y \in R \ S
    OBVIOUS
  <2> HIDE DEF R
  <2> QED BY <1>1, <1>3, <1>4, <2>1, AddingIs
<1> QED BY <1>2, <1>3, <1>4, <1>5, <1>6, <1>7

LEMMA CostOfNothing == Cost({}) = 0
<1>1. PICK f : Adding(Bills({}), {}, f) /\ Cost({}) = f[{}]
  BY FS_EmptySet, CostIsSum
<1> QED BY <1>1, AddingStep

\* The ticks of a sample, one after the other.
Span(m, n, d, b) == {[tick |-> t, date |-> d, bill |-> b] : t \in m + 1 .. m + n}

LEMMA SpanGrows ==
  ASSUME NEW m \in Int, NEW n \in Nat, NEW d, NEW b, NEW y,
         y = [tick |-> m + n + 1, date |-> d, bill |-> b]
  PROVE  Span(m, n + 1, d, b) = Span(m, n, d, b) \cup {y} /\ y \notin Span(m, n, d, b)
<1>1. m + 1 .. m + (n + 1) = (m + 1 .. m + n) \cup {m + n + 1}
  OBVIOUS
<1>2. Span(m, n + 1, d, b) = Span(m, n, d, b) \cup {y}
  BY <1>1 DEF Span
<1>3. \A x \in Span(m, n, d, b) : x.tick \in m + 1 .. m + n
  BY DEF Span
<1>4. y.tick = m + n + 1
  OBVIOUS
<1> QED BY <1>2, <1>3, <1>4

LEMMA CostOfSpan ==
  ASSUME NEW S, IsFiniteSet(S), \A x \in S : x.bill \in Int,
         NEW m \in Int, NEW k \in Nat, NEW d, NEW b \in Int, S \cap Span(m, k, d, b) = {}
  PROVE  /\ IsFiniteSet(S \cup Span(m, k, d, b)) /\ Cost(S) \in Int
         /\ Cardinality(S \cup Span(m, k, d, b)) = Cardinality(S) + k
         /\ Cost(S \cup Span(m, k, d, b)) = Cost(S) + k * b
<1> DEFINE With(n) == S \cup Span(m, n, d, b)
           Good(n) == /\ IsFiniteSet(With(n)) /\ Cardinality(With(n)) = Cardinality(S) + n
                      /\ Cost(With(n)) = Cost(S) + n * b
           D == {n \in 0..k : ~Good(n)}
<1>1. Cost(S) \in Int /\ Cardinality(S) \in Nat
  <2>1. PICK f : Adding(Bills(S), S, f) /\ Cost(S) = f[S]
    BY CostIsSum
  <2>2. \A x \in S : Bills(S)[x] \in Int
    BY DEF Bills
  <2> QED BY <2>1, <2>2, AddingIs, FS_CardinalityType
<1>2. Good(0)
  <2>1. With(0) = S
    BY DEF Span
  <2>2. 0 * b = 0
    OBVIOUS
  <2> HIDE DEF With
  <2> QED BY <1>1, <2>1, <2>2
<1>3. ASSUME NEW n \in Nat, n < k, Good(n) PROVE Good(n + 1)
  <2>1. PICK y : y = [tick |-> m + n + 1, date |-> d, bill |-> b]
    OBVIOUS
  <2>2. Span(m, n + 1, d, b) = Span(m, n, d, b) \cup {y} /\ y \notin Span(m, n, d, b)
    BY <2>1, SpanGrows
  <2>3. y \notin S
    <3>1. m + n + 1 \in m + 1 .. m + k
      BY <1>3
    <3>2. y \in Span(m, k, d, b)
      BY <2>1, <3>1 DEF Span
    <3> QED BY <3>2
  <2>4. With(n + 1) = With(n) \cup {y} /\ y \notin With(n)
    BY <2>2, <2>3
  <2>5. (\A x \in With(n) : x.bill \in Int) /\ y.bill = b
    BY <2>1 DEF Span
  <2>6. (n + 1) * b = n * b + b
    OBVIOUS
  <2> HIDE DEF With
  <2>7. /\ IsFiniteSet(With(n + 1)) /\ Cardinality(With(n + 1)) = Cardinality(With(n)) + 1
    BY <1>3, <2>4, FS_AddElement
  <2>8. Cost(With(n + 1)) = b + Cost(With(n))
    BY <1>3, <2>4, <2>5, CostOfOneMore
  <2>9. n * b \in Int
    OBVIOUS
  <2> QED BY <1>1, <1>3, <2>6, <2>7, <2>8, <2>9
<1>4. D = {}
  <2>1. SUFFICES ASSUME D # {} PROVE FALSE
    OBVIOUS
  <2>2. PICK n \in D : \A j \in D : n <= j
    <3> HIDE DEF D
    <3>1. D \in SUBSET Nat
      BY DEF D
    <3> QED BY <2>1, <3>1, LeastNumber
  <2> HIDE DEF Good
  <2>3. n \in 0..k /\ ~Good(n)
    BY <2>2
  <2>4. n # 0 /\ n - 1 \in Nat /\ n - 1 < k /\ (n - 1) + 1 = n /\ n - 1 \in 0..k
    BY <1>2, <2>3
  <2>5. n - 1 \notin D
    <3> HIDE DEF D
    <3>1. n - 1 \in D => n <= n - 1
      BY <2>2
    <3> QED BY <2>3, <3>1
  <2>6. Good(n - 1)
    BY <2>4, <2>5
  <2>7. Good((n - 1) + 1)
    BY <1>3, <2>4, <2>6
  <2> QED BY <2>3, <2>4, <2>7
<1>5. Good(k)
  <2> HIDE DEF Good
  <2> QED BY <1>4
<1> QED BY <1>1, <1>5

\* The sum of the costs of the namespaces.
LEMMA SumIs ==
  ASSUME NEW S, IsFiniteSet(S), NEW w \in [S -> Int]
  PROVE  Sum(w) \in Int
<1> DEFINE Iterates(f) == f = [s \in SUBSET S |-> IF s = {} THEN 0
                                ELSE w[CHOOSE x \in s : TRUE] + f[s \ {CHOOSE x \in s : TRUE}]]
           iter == CHOOSE f : Iterates(f)
<1>1. ASSUME NEW f PROVE Iterates(f) <=> Adding(w, S, f)
  BY Zenon DEF Adding, Some
<1>2. Sum(w) = iter[S]
  <2>1. DOMAIN w = S
    OBVIOUS
  <2> QED BY <2>1, Zenon DEF Sum, FoldFunction, FoldFunctionOnSet, MapThenFoldSet
<1>3. Iterates(iter)
  <2>1. PICK f : Adding(w, S, f)
    BY AddingExists
  <2>2. Iterates(f)
    <3> HIDE DEF Iterates
    <3> QED BY <1>1, <2>1
  <2> QED BY <2>2
<1>4. Adding(w, S, iter)
  <2> HIDE DEF Iterates, iter
  <2> QED BY <1>1, <1>3
<1>5. \A x \in S : w[x] \in Int
  OBVIOUS
<1>6. iter[S] \in Int
  <2> HIDE DEF iter
  <2> QED BY <1>4, <1>5, AddingIs
<1> QED BY <1>2, <1>6

-----------------------------------------------------------------------------
(* The cost history.                                                        *)

Day == [date : Nat, hours : Nat, bill : Int, cost : [Namespaces -> Int]]
Ledgers == [currency : Currencies \cup {NoCurrency}, since : Nat \cup {None}, last : Nat \cup {None},
            days : Seq(Day)]
Samples == [at : Nat, currency : Currencies, bill : Int, cost : [Namespaces -> Int]]

LEMMA DivIs ==
  ASSUME NEW v \in Int, NEW n \in Nat \ {0}
  PROVE  v \div n \in Int /\ n * (v \div n) <= v /\ v < n * (v \div n) + n
OBVIOUS

\* A quotient is the only one with its remainder.
LEMMA QuotientIs ==
  ASSUME NEW v \in Int, NEW n \in Nat \ {0}, NEW q \in Int, n * q <= v, v < n * q + n
  PROVE  v \div n = q
<1>1. PICK p \in Int : p = v \div n
  BY DivIs
<1>2. n * p <= v /\ v < n * p + n
  BY <1>1, DivIs
<1>3. CASE p < q
  <2>1. n * (q - p) >= n
    BY <1>3
  <2>2. n * (q - p) = n * q - n * p
    OBVIOUS
  <2> QED BY <1>2, <2>1, <2>2
<1>4. CASE q < p
  <2>1. n * (p - q) >= n
    BY <1>4
  <2>2. n * (p - q) = n * p - n * q
    OBVIOUS
  <2> QED BY <1>2, <2>1, <2>2
<1> QED BY <1>1, <1>3, <1>4

LEMMA MinIs ==
  ASSUME NEW S \in SUBSET Nat, S # {}
  PROVE  Min(S) \in S /\ \A k \in S : Min(S) <= k
BY LeastNumber DEF Min

LEMMA RoundIs ==
  ASSUME NEW v \in Int
  PROVE  /\ Round(v) \in Int /\ Round(Round(v)) = Round(v)
         /\ 2 * (Round(v) - v) <= Unit /\ 2 * (v - Round(v)) <= Unit
<1>1. Unit \in Nat \ {0}
  BY LedgerAssumption
<1>2. PICK q \in Int : q = (2 * v + Unit) \div (2 * Unit)
  BY <1>1, DivIs
<1>3. (2 * Unit) * q <= 2 * v + Unit /\ 2 * v + Unit < (2 * Unit) * q + 2 * Unit
  <2>1. PICK w \in Int, m \in Nat \ {0} : w = 2 * v + Unit /\ m = 2 * Unit
    BY <1>1
  <2>2. m * (w \div m) <= w /\ w < m * (w \div m) + m
    BY DivIs
  <2> QED BY <1>2, <2>1, <2>2
<1>4. PICK r \in Int : r = q * Unit
  BY <1>1
<1>5. (2 * Unit) * q = 2 * r
  BY <1>1, <1>4
<1>6. Round(v) = r
  BY <1>2, <1>4 DEF Round
<1>7. (2 * r + Unit) \div (2 * Unit) = q
  <2>1. /\ 2 * r + Unit \in Int /\ 2 * Unit \in Nat \ {0}
        /\ (2 * Unit) * q <= 2 * r + Unit /\ 2 * r + Unit < (2 * Unit) * q + 2 * Unit
    BY <1>1, <1>5
  <2> QED BY <2>1, QuotientIs
<1>8. Round(r) = r
  BY <1>4, <1>7 DEF Round
<1> QED BY <1>1, <1>3, <1>5, <1>6, <1>8

LEMMA RoundedIs ==
  ASSUME NEW d \in Day
  PROVE  /\ rounded(d) \in Day
         /\ rounded(d).date = d.date /\ rounded(d).hours = d.hours /\ rounded(d).bill = Round(d.bill)
<1>1. PICK b \in Int : b = Round(d.bill)
  BY RoundIs DEF Day
<1>2. PICK c \in [Namespaces -> Int] : c = [n \in Namespaces |-> Round(d.cost[n])]
  <2>1. \A n \in Namespaces : d.cost[n] \in Int
    BY DEF Day
  <2>2. \A n \in Namespaces : Round(d.cost[n]) \in Int
    BY <2>1, RoundIs
  <2> QED BY <2>2
<1>3. rounded(d) = [d EXCEPT !.bill = b, !.cost = c]
  BY <1>1, <1>2, Zenon DEF rounded
<1> QED BY <1>1, <1>3 DEF Day

\* The end of a list from some place on.
EndOf(out, days, k) ==
    /\ k \in Nat /\ k + Len(out) = Len(days)
    /\ \A i \in DOMAIN out : i + k \in DOMAIN days /\ out[i] = days[i + k]

LEMMA SubSeqIsEnd ==
  ASSUME NEW ds \in Seq(Day), NEW m \in 1..Len(ds) + 1
  PROVE  SubSeq(ds, m, Len(ds)) \in Seq(Day) /\ EndOf(SubSeq(ds, m, Len(ds)), ds, m - 1)
<1>1. PICK n \in Nat : n = Len(ds)
  BY LenProperties
<1>2. DOMAIN ds = 1..n /\ \A i \in 1..n : ds[i] \in Day
  BY <1>1, LenProperties, ElementOfSeq
<1>3. PICK o : o = SubSeq(ds, m, n)
  OBVIOUS
<1>4. o = [i \in 1..(n - m + 1) |-> ds[i + m - 1]]
  BY <1>1, <1>3
<1>5. o \in Seq(Day) /\ Len(o) = n - m + 1
  <2>1. \A i \in 1..(n - m + 1) : i + m - 1 \in 1..n
    BY <1>1
  <2>2. o \in [1..(n - m + 1) -> Day]
    BY <1>2, <1>4, <2>1
  <2>3. n - m + 1 \in Nat
    BY <1>1
  <2> HIDE <1>4
  <2> QED BY <2>2, <2>3
<1> QED BY <1>1, <1>2, <1>3, <1>4, <1>5 DEF EndOf

LEMMA LedgerNumbers ==
  /\ DayTicks \in Nat \ {0} /\ MaxGap \in Nat \ {0} /\ Unit \in Nat \ {0}
  /\ RetentionDays \in Nat \ {0} /\ MaxEncodedDays \in Nat \ {0}
BY LedgerAssumption, Zenon

LEMMA DateIs ==
  ASSUME NEW t \in Nat
  PROVE  DateOf(t) \in Nat /\ DayTicks * DateOf(t) <= t /\ t < DayTicks * DateOf(t) + DayTicks
<1>1. PICK n \in Nat \ {0} : n = DayTicks
  BY LedgerNumbers
<1>2. PICK q \in Int : q = t \div n /\ n * q <= t /\ t < n * q + n
  BY DivIs
<1>3. CASE q < 0
  <2>1. n * q <= n * (-1)
    BY <1>3
  <2> QED BY <1>2, <2>1
<1> QED BY <1>1, <1>2, <1>3 DEF DateOf

LEMMA DatesGoOn ==
  ASSUME NEW t \in Nat, NEW u \in Nat, t <= u
  PROVE  DateOf(t) \in Nat /\ DateOf(u) \in Nat /\ DateOf(t) <= DateOf(u)
<1>1. PICK n \in Nat \ {0} : n = DayTicks
  BY LedgerNumbers
<1>2. PICK p \in Nat, q \in Nat : p = DateOf(t) /\ q = DateOf(u)
  BY DateIs
<1>3. n * p <= t /\ u < n * q + n
  BY <1>1, <1>2, DateIs
<1>4. CASE q < p
  <2>1. n * (q + 1) <= n * p
    BY <1>4
  <2>2. n * (q + 1) = n * q + n
    OBVIOUS
  <2> QED BY <1>3, <2>1, <2>2
<1> QED BY <1>2, <1>4

LEMMA TrimIs ==
  ASSUME NEW ds \in Seq(Day), ds # <<>>, NEW at \in Nat, ds[Len(ds)].date = DateOf(at)
  PROVE  /\ trim(ds, at) \in Seq(Day) /\ trim(ds, at) # <<>>
         /\ \E k : EndOf(trim(ds, at), ds, k)
<1> DEFINE recent == {i \in DOMAIN ds : ds[i].date >= DateOf(at) - RetentionDays + 1}
<1>1. PICK n \in Nat : n = Len(ds) /\ DOMAIN ds = 1..n /\ n # 0
  BY LenProperties, EmptySeq
<1>2. n \in recent
  <2>1. DateOf(at) \in Int
    BY DateIs
  <2>2. DateOf(at) >= DateOf(at) - RetentionDays + 1
    BY <2>1, LedgerNumbers
  <2> QED BY <1>1, <2>2
<1>3. PICK m : m = Min(recent \cup {n + 1})
  OBVIOUS
<1>4. m \in 1..n
  <2>1. recent \cup {n + 1} \in SUBSET Nat /\ recent \subseteq 1..n
    BY <1>1
  <2> HIDE DEF recent
  <2>2. m \in recent \cup {n + 1} /\ m <= n
    BY <1>2, <1>3, <2>1, MinIs
  <2> QED BY <1>1, <2>1, <2>2
<1>5. trim(ds, at) = SubSeq(ds, m, Len(ds))
  BY <1>1, <1>3 DEF trim
<1>6. SubSeq(ds, m, Len(ds)) \in Seq(Day) /\ EndOf(SubSeq(ds, m, Len(ds)), ds, m - 1)
  BY <1>1, <1>4, SubSeqIsEnd
<1>7. SubSeq(ds, m, Len(ds)) # <<>>
  <2>1. m - 1 + Len(SubSeq(ds, m, Len(ds))) = n
    BY <1>1, <1>6 DEF EndOf
  <2>2. Len(SubSeq(ds, m, Len(ds))) # 0
    BY <1>4, <2>1
  <2> QED BY <1>6, <2>2, EmptySeq
<1> QED BY <1>5, <1>6, <1>7

LEMMA EncodeIs ==
  ASSUME NEW l \in Ledgers
  PROVE  /\ Encode(l) \in Ledgers
         /\ Encode(l).currency = l.currency /\ Encode(l).last = l.last
         /\ l.days # <<>> => Encode(l).days # <<>>
         /\ \E k : /\ k \in Nat /\ k + Len(Encode(l).days) = Len(l.days)
                   /\ \A i \in DOMAIN Encode(l).days :
                        i + k \in DOMAIN l.days /\ Encode(l).days[i] = rounded(l.days[i + k])
<1>1. PICK ds \in Seq(Day) : ds = l.days
  BY DEF Ledgers
<1>2. PICK n \in Nat : n = Len(ds) /\ DOMAIN ds = 1..n /\ (n = 0 <=> ds = <<>>)
  BY LenProperties, EmptySeq
<1>3. PICK m : m = IF n > MaxEncodedDays THEN n - MaxEncodedDays + 1 ELSE 1
  OBVIOUS
<1>4. m \in 1..n + 1 /\ (n # 0 => m <= n)
  BY <1>3, LedgerNumbers
<1>5. PICK o : o = SubSeq(ds, m, n)
  OBVIOUS
<1>6. o \in Seq(Day) /\ EndOf(o, ds, m - 1)
  BY <1>2, <1>4, <1>5, SubSeqIsEnd
<1>7. PICK k \in Nat : k = Len(o) /\ DOMAIN o = 1..k
  BY <1>6, LenProperties
<1>8. PICK r : r = [i \in DOMAIN o |-> rounded(o[i])]
  OBVIOUS
<1>9. r \in Seq(Day) /\ Len(r) = k /\ DOMAIN r = 1..k
  <2>1. \A i \in 1..k : o[i] \in Day
    BY <1>6, <1>7, ElementOfSeq
  <2>2. \A i \in 1..k : rounded(o[i]) \in Day
    BY <2>1, RoundedIs
  <2>3. r \in [1..k -> Day]
    BY <1>7, <1>8, <2>2
  <2> QED BY <2>3
<1>10. Encode(l) = [l EXCEPT !.days = r]
  BY <1>1, <1>2, <1>3, <1>5, <1>8 DEF Encode
<1>11. /\ Encode(l) \in Ledgers /\ Encode(l).days = r
       /\ Encode(l).currency = l.currency /\ Encode(l).last = l.last
  BY <1>9, <1>10 DEF Ledgers
<1>12. k + (m - 1) = n
  BY <1>2, <1>6, <1>7 DEF EndOf
<1>13. ds # <<>> => r # <<>>
  BY <1>2, <1>4, <1>9, <1>12
<1>14. \A i \in 1..k : i + (m - 1) \in DOMAIN ds /\ r[i] = rounded(ds[i + (m - 1)])
  BY <1>6, <1>7, <1>8 DEF EndOf
<1>15. m - 1 \in Nat
  BY <1>4
<1> QED BY <1>1, <1>2, <1>9, <1>11, <1>12, <1>13, <1>14, <1>15

\* days with some hours added to its last one, which is the date's.
Onto(ds, days, date, hours, cost) ==
    /\ ds \in Seq(Day) /\ ds # <<>> /\ ds[Len(ds)].date = date
    /\ \A i \in 1..Len(ds) - 1 : i \in DOMAIN days /\ ds[i] = days[i]
    /\ \/ /\ days # <<>> /\ days[Len(days)].date = date /\ Len(ds) = Len(days)
          /\ ds[Len(ds)].hours = days[Len(days)].hours + hours
          /\ ds[Len(ds)].bill = days[Len(days)].bill + cost
       \/ /\ days # <<>> => days[Len(days)].date # date
          /\ Len(ds) = Len(days) + 1
          /\ ds[Len(ds)].hours = hours /\ ds[Len(ds)].bill = cost

LEMMA WithDayIs ==
  ASSUME NEW days \in Seq(Day), NEW date \in Nat, NEW w, w = WithDay(days, date)
  PROVE  /\ w \in Seq(Day) /\ w # <<>> /\ w[Len(w)].date = date
         /\ \A i \in 1..Len(w) - 1 : i \in DOMAIN days /\ w[i] = days[i]
         /\ \/ days # <<>> /\ days[Len(days)].date = date /\ w = days
            \/ /\ days # <<>> => days[Len(days)].date # date
               /\ Len(w) = Len(days) + 1 /\ w[Len(w)].hours = 0 /\ w[Len(w)].bill = 0
<1>1. PICK n \in Nat : n = Len(days) /\ DOMAIN days = 1..n /\ (n = 0 <=> days = <<>>)
  BY LenProperties, EmptySeq
<1>2. days # <<>> => Last(days) = days[n]
  BY <1>1 DEF Last
<1>3. CASE days # <<>> /\ days[n].date = date
  <2>1. w = days
    BY <1>2, <1>3 DEF WithDay
  <2> QED BY <1>1, <1>3, <2>1
<1>4. CASE ~(days # <<>> /\ days[n].date = date)
  <2>1. PICK z : z = [date |-> date, hours |-> 0, bill |-> 0, cost |-> [x \in Namespaces |-> 0]]
    OBVIOUS
  <2>2. z \in Day /\ z.date = date /\ z.hours = 0 /\ z.bill = 0
    <3>1. [x \in Namespaces |-> 0] \in [Namespaces -> Int]
      OBVIOUS
    <3> QED BY <2>1, <3>1 DEF Day
  <2>3. w = Append(days, z)
    BY <1>2, <1>4, <2>1 DEF WithDay
  <2>4. /\ w \in Seq(Day) /\ Len(w) = n + 1 /\ w[n + 1] = z /\ w # <<>>
        /\ \A i \in 1..n : w[i] = days[i]
    BY <1>1, <2>2, <2>3, AppendProperties, EmptySeq
  <2> QED BY <1>1, <1>4, <2>2, <2>4
<1> QED BY <1>1, <1>3, <1>4

LEMMA BooksOnto ==
  ASSUME NEW days \in Seq(Day), NEW date \in Nat, NEW w, w = WithDay(days, date),
         NEW hours \in Nat, NEW c \in Int, NEW e \in Day, e.date = w[Len(w)].date,
         e.hours = w[Len(w)].hours + hours, e.bill = w[Len(w)].bill + c,
         NEW ds, ds = [w EXCEPT ![Len(w)] = e]
  PROVE  Onto(ds, days, date, hours, c)
<1>1. PICK n \in Nat : n = Len(w) /\ DOMAIN w = 1..n /\ n # 0 /\ w \in [1..n -> Day]
  <2>1. w \in Seq(Day) /\ w # <<>>
    BY WithDayIs
  <2> QED BY <2>1, LenProperties, EmptySeq
<1>2. PICK d \in Day : d = w[n]
  BY <1>1
<1>4. e \in Day /\ e.date = d.date /\ e.hours = d.hours + hours /\ e.bill = d.bill + c
  BY <1>1, <1>2
<1>5. ds = [w EXCEPT ![n] = e]
  BY <1>1
<1>6. ds \in [1..n -> Day] /\ ds[n] = e /\ \A i \in 1..n - 1 : ds[i] = w[i]
  <2>1. PICK g \in [1..n -> Day] : g = w
    BY <1>1
  <2>4. ds = [g EXCEPT ![n] = e]
    BY <1>5, <2>1, Zenon
  <2>5. ASSUME NEW k \in Nat, k # 0 PROVE k \in 1..k
    BY <2>5
  <2>6. n \in 1..n
    BY <1>1, <2>5
  <2>2. ds = [g EXCEPT ![n] = e] /\ n \in 1..n
    BY <2>4, <2>6
  <2>3. e \in Day
    BY <1>4
  <2> QED BY <2>1, <2>2, <2>3
<1>7. ds \in Seq(Day) /\ Len(ds) = n /\ ds # <<>>
  <2>1. ASSUME NEW E, NEW g \in [1..n -> E] PROVE g \in Seq(E) /\ Len(g) = n
    BY <1>1
  <2>2. ds \in Seq(Day) /\ Len(ds) = n
    BY <1>6, <2>1
  <2> QED BY <1>1, <2>2, EmptySeq
<1>8. w[n].date = date /\ (\A i \in 1..n - 1 : i \in DOMAIN days /\ w[i] = days[i])
  <2>1. w[Len(w)].date = date /\ (\A i \in 1..Len(w) - 1 : i \in DOMAIN days /\ w[i] = days[i])
    BY WithDayIs
  <2>2. n = Len(w)
    BY <1>1
  <2> QED BY <2>1, <2>2
<1>9. CASE days # <<>> /\ days[Len(days)].date = date /\ w = days
  BY <1>1, <1>2, <1>4, <1>6, <1>7, <1>8, <1>9 DEF Onto
<1>10. CASE /\ days # <<>> => days[Len(days)].date # date
            /\ n = Len(days) + 1 /\ w[n].hours = 0 /\ w[n].bill = 0
  BY <1>1, <1>2, <1>4, <1>6, <1>7, <1>8, <1>10 DEF Onto
<1>11. \/ days # <<>> /\ days[Len(days)].date = date /\ w = days
       \/ /\ days # <<>> => days[Len(days)].date # date
          /\ n = Len(days) + 1 /\ w[n].hours = 0 /\ w[n].bill = 0
  <2>1. \/ days # <<>> /\ days[Len(days)].date = date /\ w = days
        \/ /\ days # <<>> => days[Len(days)].date # date
           /\ Len(w) = Len(days) + 1 /\ w[Len(w)].hours = 0 /\ w[Len(w)].bill = 0
    BY WithDayIs
  <2>2. n = Len(w)
    BY <1>1
  <2> QED BY <2>1, <2>2
<1> QED BY <1>9, <1>10, <1>11

\* The samples that book time.
Timely(l, s) == l.last # None /\ l.currency = s.currency /\ s.at - l.last \in 1..MaxGap

LEMMA AddIs ==
  ASSUME NEW l \in Ledgers, NEW s \in Samples, l.currency = NoCurrency => l.last = None
  PROVE  /\ Add(l, s) \in Ledgers /\ Add(l, s).last = s.at /\ Add(l, s).currency = s.currency
         /\ l.currency \notin {NoCurrency, s.currency} => Add(l, s).days = <<>>
         /\ l.currency \in {NoCurrency, s.currency} /\ ~Timely(l, s) => Add(l, s).days = l.days
         /\ Timely(l, s) =>
              /\ Add(l, s).days # <<>>
              /\ \E ds, k : /\ Onto(ds, l.days, DateOf(s.at), s.at - l.last, s.bill * (s.at - l.last))
                            /\ EndOf(Add(l, s).days, ds, k)
<1>1. /\ s.at \in Nat /\ s.currency \in Currencies /\ s.bill \in Int /\ s.cost \in [Namespaces -> Int]
      /\ s.currency # NoCurrency
  <2>1. NoCurrency \notin Currencies
    BY LedgerAssumption, Zenon
  <2> QED BY <2>1 DEF Samples
<1>2. /\ l.currency \in Currencies \cup {NoCurrency} /\ l.since \in Nat \cup {None}
      /\ l.last \in Nat \cup {None} /\ l.days \in Seq(Day)
  BY DEF Ledgers
<1> DEFINE opened(x) == [x EXCEPT !.currency = s.currency, !.last = s.at,
                                  !.since = IF @ = None THEN s.at ELSE @]
           plus(day, hours) ==
               [day EXCEPT !.hours = @ + hours, !.bill = @ + s.bill * hours,
                           !.cost = [n \in Namespaces |-> @[n] + s.cost[n] * hours]]
           onto(days, hours) == trim([days EXCEPT ![Len(days)] = plus(@, hours)], s.at)
<1>3. ASSUME NEW x \in Ledgers
      PROVE  /\ opened(x) \in Ledgers /\ opened(x).last = s.at /\ opened(x).currency = s.currency
             /\ opened(x).days = x.days
  <2>1. PICK z \in Nat \cup {None} : z = IF x.since = None THEN s.at ELSE x.since
    BY <1>1 DEF Ledgers
  <2>4. opened(x) = [x EXCEPT !.currency = s.currency, !.last = s.at, !.since = z]
    BY <2>1
  <2>2. opened(x) = [currency |-> s.currency, since |-> z, last |-> s.at, days |-> x.days]
    <3> HIDE DEF opened
    <3> QED BY <2>4 DEF Ledgers
  <2>3. x.days \in Seq(Day)
    BY DEF Ledgers
  <2> HIDE DEF opened
  <2> QED BY <1>1, <2>1, <2>2, <2>3 DEF Ledgers
<1>4. CASE l.currency \notin {NoCurrency, s.currency}
  <2>1. EmptyLedger \in Ledgers /\ EmptyLedger.last = None /\ EmptyLedger.days = <<>>
    BY EmptySeq DEF EmptyLedger, Ledgers
  <2>2. Add(l, s) = opened(EmptyLedger)
    BY <1>4, <2>1 DEF Add
  <2>3. ~Timely(l, s)
    BY <1>4 DEF Timely
  <2> HIDE DEF opened
  <2> QED BY <1>3, <1>4, <2>1, <2>2, <2>3
<1>5. CASE l.currency \in {NoCurrency, s.currency} /\ ~Timely(l, s)
  <2>1. l.last = None \/ s.at - l.last <= 0 \/ s.at - l.last > MaxGap
    <3>1. CASE l.currency = NoCurrency
      BY <3>1
    <3>2. CASE l.currency = s.currency /\ l.last # None
      <4>1. s.at - l.last \notin 1..MaxGap
        BY <1>5, <3>2 DEF Timely
      <4>2. s.at - l.last \in Int
        BY <1>1, <1>2, <3>2
      <4> QED BY <4>1, <4>2, LedgerNumbers
    <3> QED BY <1>5, <3>1, <3>2
  <2>2. Add(l, s) = opened(l)
    BY <1>5, <2>1 DEF Add
  <2> HIDE DEF opened
  <2> QED BY <1>3, <1>5, <2>2
<1>6. CASE Timely(l, s)
  <2>1. PICK h \in Nat : h = s.at - l.last /\ h >= 1 /\ h <= MaxGap /\ l.last # None
    BY <1>6, LedgerNumbers DEF Timely
  <2>2. PICK w : w = WithDay(l.days, DateOf(s.at))
    OBVIOUS
  <2>3. DateOf(s.at) \in Nat
    BY <1>1, DateIs
  <2>4. PICK ds : ds = [w EXCEPT ![Len(w)] = plus(@, h)]
    OBVIOUS
  <2>5. PICK c \in Int : c = s.bill * h
    BY <1>1
  <2>6. ASSUME NEW d \in Day
        PROVE  /\ plus(d, h) \in Day /\ plus(d, h).date = d.date
               /\ plus(d, h).hours = d.hours + h /\ plus(d, h).bill = d.bill + c
    <3>1. PICK m \in [Namespaces -> Int] : m = [n \in Namespaces |-> d.cost[n] + s.cost[n] * h]
      <4>1. ASSUME NEW n \in Namespaces PROVE d.cost[n] + s.cost[n] * h \in Int
        <5>1. d.cost[n] \in Int /\ s.cost[n] \in Int
          BY <1>1 DEF Day
        <5> QED BY <5>1
      <4> QED BY <4>1
    <3>4. plus(d, h) = [d EXCEPT !.hours = d.hours + h, !.bill = d.bill + c, !.cost = m]
      BY <2>5, <3>1
    <3>2. plus(d, h) = [date |-> d.date, hours |-> d.hours + h, bill |-> d.bill + c, cost |-> m]
      <4> HIDE DEF plus
      <4> QED BY <3>4 DEF Day
    <3>3. d.date \in Nat /\ d.hours + h \in Nat /\ d.bill + c \in Int
      BY DEF Day
    <3> HIDE DEF plus
    <3> QED BY <3>1, <3>2, <3>3 DEF Day
  <2>7. Onto(ds, l.days, DateOf(s.at), h, c)
    <3>1. w[Len(w)] \in Day
      <4>1. w \in Seq(Day) /\ w # <<>>
        BY <1>2, <2>2, <2>3, WithDayIs
      <4> QED BY <4>1, LenProperties, EmptySeq, ElementOfSeq
    <3>2. PICK e : e = plus(w[Len(w)], h)
      OBVIOUS
    <3>3. ds = [w EXCEPT ![Len(w)] = e]
      BY <2>4, <3>2
    <3>4. /\ e \in Day /\ e.date = w[Len(w)].date
          /\ e.hours = w[Len(w)].hours + h /\ e.bill = w[Len(w)].bill + c
      <4> HIDE DEF plus
      <4> QED BY <2>6, <3>1, <3>2
    <3> QED BY <1>2, <2>2, <2>3, <3>3, <3>4, BooksOnto
  <2>8. PICK t : t = trim(ds, s.at)
    OBVIOUS
  <2>9. t \in Seq(Day) /\ t # <<>> /\ \E k : EndOf(t, ds, k)
    BY <1>1, <2>7, <2>8, TrimIs DEF Onto
  <2>10. Add(l, s) = [opened(l) EXCEPT !.days = t]
    <3>1. ~(l.currency # NoCurrency /\ l.currency # s.currency)
      BY <1>6 DEF Timely
    <3>2. ~(l.last = None \/ h <= 0 \/ h > MaxGap)
      BY <2>1, LedgerNumbers
    <3>3. Add(l, s) = [opened(l) EXCEPT !.days = onto(WithDay(@, DateOf(s.at)), h)]
      BY <2>1, <3>1, <3>2, Zenon DEF Add
    <3>4. onto(w, h) = t
      BY <2>4, <2>8
    <3>5. opened(l).days = l.days
      BY <1>2, <1>3
    <3> HIDE DEF opened, onto
    <3> QED BY <2>2, <3>3, <3>4, <3>5
  <2>11. Add(l, s) \in Ledgers /\ Add(l, s).days = t /\ Add(l, s).last = s.at /\ Add(l, s).currency = s.currency
    <3>1. PICK o \in Ledgers : o = opened(l) /\ o.last = s.at /\ o.currency = s.currency
      BY <1>3
    <3>2. Add(l, s) = [o EXCEPT !.days = t]
      BY <2>10, <3>1
    <3> QED BY <2>9, <3>1, <3>2 DEF Ledgers
  <2>12. l.currency \in {NoCurrency, s.currency}
    BY <1>6 DEF Timely
  <2> QED BY <1>6, <2>1, <2>5, <2>7, <2>9, <2>11, <2>12
<1> QED BY <1>4, <1>5, <1>6

-----------------------------------------------------------------------------
(* The history and the ticks that were booked.                              *)

Booking == [tick : Nat, date : Nat, bill : Int]
On(bk, date) == {x \in bk : x.date = date}

\* What a day is off by is at most some halves of a unit.
Within(day, bk, n) ==
    2 * (day.bill - Cost(On(bk, day.date))) <= Unit * n
        /\ 2 * (Cost(On(bk, day.date)) - day.bill) <= Unit * n

\* A stored day, and one that is about to be rounded.
DayInv(day, bk) ==
    /\ day.hours = Cardinality(On(bk, day.date))
    /\ day.bill = Round(day.bill) /\ Within(day, bk, day.hours)
Ready(day, bk) ==
    /\ day.hours = Cardinality(On(bk, day.date))
    /\ \/ day.bill = Round(day.bill) /\ Within(day, bk, day.hours)
       \/ Within(day, bk, day.hours - 1)

\* The days are in order and none is before the last booking.
InOrder(ds, bk) ==
    /\ ds \in Seq(Day)
    /\ \A i, j \in DOMAIN ds : i < j => ds[i].date < ds[j].date
    /\ \A x \in bk : ds # <<>> /\ x.date <= ds[Len(ds)].date
GoodDays(ds, bk) == InOrder(ds, bk) /\ \A i \in DOMAIN ds : DayInv(ds[i], bk)
ReadyDays(ds, bk) == InOrder(ds, bk) /\ \A i \in DOMAIN ds : Ready(ds[i], bk)

\* No tick twice, none after the last sample, and each on the day of its sample.
Bookings(bk, last) ==
    /\ IsFiniteSet(bk) /\ bk \subseteq Booking
    /\ \A x, y \in bk : x.tick = y.tick => x = y
    /\ \A x \in bk : /\ x.tick <= last
                     /\ DayTicks * x.date - MaxGap < x.tick /\ x.tick < DayTicks * x.date + DayTicks

HistoryInv(l, bk) ==
    /\ l \in Ledgers /\ (l.currency = NoCurrency => l.last = None)
    /\ Bookings(bk, l.last) /\ GoodDays(l.days, bk)
    /\ l.days # <<>> => l.last # None /\ l.days[Len(l.days)].date <= DateOf(l.last)

LEMMA CostIsInt ==
  ASSUME NEW S, IsFiniteSet(S), \A x \in S : x.bill \in Int
  PROVE  Cost(S) \in Int /\ Cardinality(S) \in Nat
<1>1. PICK f : Adding(Bills(S), S, f) /\ Cost(S) = f[S]
  BY CostIsSum
<1>2. \A x \in S : Bills(S)[x] \in Int
  BY DEF Bills
<1> QED BY <1>1, <1>2, AddingIs, FS_CardinalityType

LEMMA OnIs ==
  ASSUME NEW bk, NEW last, Bookings(bk, last), NEW d
  PROVE  /\ IsFiniteSet(On(bk, d)) /\ (\A x \in On(bk, d) : x.bill \in Int)
         /\ Cost(On(bk, d)) \in Int /\ Cardinality(On(bk, d)) \in Nat
<1>1. IsFiniteSet(On(bk, d))
  BY FS_Subset DEF On, Bookings
<1>2. \A x \in On(bk, d) : x.bill \in Int
  BY DEF On, Bookings, Booking
<1> QED BY <1>1, <1>2, CostIsInt

LEMMA RoundedKeeps ==
  ASSUME NEW bk, NEW last, Bookings(bk, last), NEW d \in Day, Ready(d, bk)
  PROVE  DayInv(rounded(d), bk)
<1>1. PICK r : r = rounded(d)
  OBVIOUS
<1>2. r.date = d.date /\ r.hours = d.hours /\ r.bill = Round(d.bill)
  BY <1>1, RoundedIs
<1>3. d.bill \in Int /\ d.hours \in Nat
  BY DEF Day
<1>4. PICK c \in Int : c = Cost(On(bk, d.date))
  BY OnIs
<1>5. PICK v \in Int : v = d.bill
  BY <1>3
<1>6. /\ Round(v) \in Int /\ Round(Round(v)) = Round(v)
      /\ 2 * (Round(v) - v) <= Unit /\ 2 * (v - Round(v)) <= Unit
  BY RoundIs
<1>7. PICK u \in Nat \ {0}, h \in Nat : u = Unit /\ h = d.hours
  BY <1>3, LedgerNumbers
<1>8. u * (h - 1) = u * h - u
  OBVIOUS
<1>9. 2 * (Round(v) - c) <= u * h /\ 2 * (c - Round(v)) <= u * h
  <2>1. CASE v = Round(v) /\ 2 * (v - c) <= u * h /\ 2 * (c - v) <= u * h
    BY <2>1
  <2>2. CASE 2 * (v - c) <= u * (h - 1) /\ 2 * (c - v) <= u * (h - 1)
    <3>1. PICK w \in Int, p \in Int : w = Round(v) /\ p = u * h
      BY <1>6
    <3> QED BY <1>6, <1>7, <1>8, <2>2, <3>1
  <2> QED BY <1>4, <1>5, <1>7, <2>1, <2>2 DEF Ready, Within
<1>10. DayInv(r, bk)
  BY <1>2, <1>4, <1>5, <1>6, <1>7, <1>9 DEF DayInv, Within, Ready
<1> QED BY <1>1, <1>10

LEMMA SaveKeeps ==
  ASSUME NEW bk, NEW last, Bookings(bk, last), NEW ds, ReadyDays(ds, bk),
         NEW out \in Seq(Day), ds # <<>> => out # <<>>,
         NEW k \in Nat, k + Len(out) = Len(ds),
         \A i \in DOMAIN out : i + k \in DOMAIN ds /\ out[i] = rounded(ds[i + k])
  PROVE  /\ GoodDays(out, bk)
         /\ out # <<>> => ds # <<>> /\ out[Len(out)].date = ds[Len(ds)].date
<1>1. PICK n \in Nat : n = Len(out) /\ DOMAIN out = 1..n /\ (n = 0 <=> out = <<>>)
  BY LenProperties, EmptySeq
<1>2. ds \in Seq(Day)
  BY DEF ReadyDays, InOrder
<1>3. PICK m \in Nat : m = Len(ds) /\ DOMAIN ds = 1..m /\ (m = 0 <=> ds = <<>>)
  BY <1>2, LenProperties, EmptySeq
<1>4. ASSUME NEW i \in 1..n
      PROVE  i + k \in 1..m /\ out[i].date = ds[i + k].date /\ DayInv(out[i], bk)
  <2>1. i + k \in 1..m /\ out[i] = rounded(ds[i + k])
    BY <1>1, <1>3
  <2>2. ds[i + k] \in Day /\ Ready(ds[i + k], bk)
    BY <1>2, <1>3, <2>1, ElementOfSeq DEF ReadyDays
  <2> QED BY <2>1, <2>2, RoundedIs, RoundedKeeps
<1>5. \A i, j \in 1..n : i < j => out[i].date < out[j].date
  <2>1. \A i, j \in 1..m : i < j => ds[i].date < ds[j].date
    BY <1>3 DEF ReadyDays, InOrder
  <2> SUFFICES ASSUME NEW i \in 1..n, NEW j \in 1..n, i < j PROVE out[i].date < out[j].date
    OBVIOUS
  <2>2. i + k < j + k
    OBVIOUS
  <2> QED BY <1>4, <2>1, <2>2
<1>6. out # <<>> => ds # <<>> /\ out[n].date = ds[m].date
  <2>1. n # 0 => n \in 1..n /\ n + k = m
    BY <1>1, <1>3
  <2> QED BY <1>1, <1>3, <1>4, <2>1
<1>7. \A x \in bk : out # <<>> /\ x.date <= out[n].date
  BY <1>1, <1>3, <1>6 DEF ReadyDays, InOrder
<1> QED BY <1>1, <1>3, <1>4, <1>5, <1>6, <1>7 DEF GoodDays, InOrder

LEMMA BooksSpan ==
  ASSUME NEW bk, NEW last \in Nat, Bookings(bk, last), NEW at \in Nat, NEW h \in Nat,
         h = at - last, h <= MaxGap, NEW b \in Int, NEW nb, nb = bk \cup Span(last, h, DateOf(at), b)
  PROVE  Bookings(nb, at) /\ bk \cap Span(last, h, DateOf(at), b) = {}
<1>1. PICK d \in Nat : d = DateOf(at) /\ DayTicks * d <= at /\ at < DayTicks * d + DayTicks
  BY DateIs
<1>2. PICK S : S = Span(last, h, d, b)
  OBVIOUS
<1>3. ASSUME NEW x \in S
      PROVE  /\ x \in Booking /\ x.date = d /\ x.bill = b /\ last < x.tick /\ x.tick <= at
             /\ x = [tick |-> x.tick, date |-> d, bill |-> b]
  <2>1. PICK t \in last + 1 .. last + h : x = [tick |-> t, date |-> d, bill |-> b]
    BY <1>2 DEF Span
  <2>2. t \in Nat /\ last < t /\ t <= at
    OBVIOUS
  <2> QED BY <2>1, <2>2 DEF Booking
<1>4. \A x \in S : /\ DayTicks * x.date - MaxGap < x.tick /\ x.tick < DayTicks * x.date + DayTicks
  <2> SUFFICES ASSUME NEW x \in S
               PROVE  DayTicks * x.date - MaxGap < x.tick /\ x.tick < DayTicks * x.date + DayTicks
    OBVIOUS
  <2>1. PICK p \in Int : p = DayTicks * d
    BY LedgerNumbers
  <2>2. x.tick \in Nat
    BY <1>3 DEF Booking
  <2> QED BY <1>1, <1>3, <2>1, <2>2, LedgerNumbers
<1>5. IsFiniteSet(bk) /\ bk \subseteq Booking /\ \A x \in bk : x.tick <= last /\ x.tick \in Nat
  BY DEF Bookings, Booking
<1>6. bk \cap S = {}
  BY <1>3, <1>5
<1>7. IsFiniteSet(bk \cup S)
  <2>1. \A x \in bk : x.bill \in Int
    BY <1>5 DEF Booking
  <2>2. IsFiniteSet(bk \cup Span(last, h, d, b))
    BY <1>2, <1>5, <1>6, <2>1, CostOfSpan
  <2> QED BY <1>2, <2>2
<1>8. nb = bk \cup S
  BY <1>1, <1>2
<1>9. \A x, y \in nb : x.tick = y.tick => x = y
  <2> SUFFICES ASSUME NEW x \in nb, NEW y \in nb, x.tick = y.tick PROVE x = y
    OBVIOUS
  <2>1. CASE x \in bk /\ y \in bk
    BY <2>1 DEF Bookings
  <2>2. CASE x \in S /\ y \in S
    BY <1>3, <2>2
  <2>3. CASE (x \in bk /\ y \in S) \/ (x \in S /\ y \in bk)
    BY <1>3, <1>5, <2>3
  <2> QED BY <1>8, <2>1, <2>2, <2>3
<1>10. \A x \in nb : /\ x.tick <= at
                     /\ DayTicks * x.date - MaxGap < x.tick /\ x.tick < DayTicks * x.date + DayTicks
  <2> SUFFICES ASSUME NEW x \in nb
               PROVE  /\ x.tick <= at
                      /\ DayTicks * x.date - MaxGap < x.tick /\ x.tick < DayTicks * x.date + DayTicks
    OBVIOUS
  <2>1. CASE x \in bk
    <3>1. x.tick <= last /\ x.tick \in Nat /\ last <= at
      BY <1>5, <2>1
    <3>2. DayTicks * x.date - MaxGap < x.tick /\ x.tick < DayTicks * x.date + DayTicks
      BY <2>1 DEF Bookings
    <3> QED BY <3>1, <3>2
  <2> QED BY <1>3, <1>4, <1>8, <2>1
<1> QED BY <1>1, <1>2, <1>3, <1>5, <1>6, <1>7, <1>8, <1>9, <1>10 DEF Bookings

\* What some ticks cost.
Worth(h, b) == h * b

Elapsed(last, h, at) == h = at - last /\ 1 <= h /\ h <= MaxGap
NotAfter(days, at) == days # <<>> => days[Len(days)].date <= DateOf(at)

LEMMA CostOnDay ==
  ASSUME NEW bk, NEW last \in Nat, Bookings(bk, last), NEW h \in Nat, NEW d \in Nat, NEW b \in Int,
         bk \cap Span(last, h, d, b) = {}
  PROVE  /\ Cost(On(bk, d) \cup Span(last, h, d, b)) = Cost(On(bk, d)) + Worth(h, b)
         /\ Cardinality(On(bk, d) \cup Span(last, h, d, b)) = Cardinality(On(bk, d)) + h
<1>1. PICK B : B = On(bk, d)
  OBVIOUS
<1>2. IsFiniteSet(B) /\ \A x \in B : x.bill \in Int
  BY <1>1, OnIs
<1>3. last \in Int /\ B \cap Span(last, h, d, b) = {} /\ h * b = Worth(h, b)
  BY <1>1 DEF On, Worth
<1>4. /\ Cost(B \cup Span(last, h, d, b)) = Cost(B) + h * b
      /\ Cardinality(B \cup Span(last, h, d, b)) = Cardinality(B) + h
  BY <1>2, <1>3, CostOfSpan
<1> QED BY <1>1, <1>3, <1>4

\* A booking leaves the days ready to be rounded.
LEMMA OntoReady ==
  ASSUME NEW bk, NEW last \in Nat, Bookings(bk, last), NEW days, GoodDays(days, bk),
         NEW at \in Nat, NEW h \in Nat, Elapsed(last, h, at), NEW b \in Int,
         NotAfter(days, at),
         NEW ds, Onto(ds, days, DateOf(at), h, Worth(h, b)),
         NEW nb, nb = bk \cup Span(last, h, DateOf(at), b)
  PROVE  ReadyDays(ds, nb)
<1>1. PICK d \in Nat : d = DateOf(at)
  BY DateIs
<1>2. PICK S : S = Span(last, h, d, b)
  OBVIOUS
<1>3. Bookings(nb, at) /\ bk \cap S = {} /\ nb = bk \cup S
  <2>1. h = at - last /\ h <= MaxGap
    BY DEF Elapsed
  <2> QED BY <1>1, <1>2, <2>1, BooksSpan
<1>4. \A x \in S : x.date = d
  BY <1>2 DEF Span
<1>5. PICK n \in Nat : n = Len(days) /\ DOMAIN days = 1..n /\ (n = 0 <=> days = <<>>)
  BY LenProperties, EmptySeq DEF GoodDays, InOrder
<1>6. PICK m \in Nat : m = Len(ds) /\ DOMAIN ds = 1..m /\ m # 0
  BY LenProperties, EmptySeq DEF Onto
<1>7. ds \in Seq(Day) /\ ds[m].date = d /\ \A i \in 1..m - 1 : i \in 1..n /\ ds[i] = days[i]
  BY <1>1, <1>5, <1>6 DEF Onto
<1>8. days \in Seq(Day) /\ \A i \in 1..n : days[i] \in Day
  BY <1>5, ElementOfSeq DEF GoodDays, InOrder
<1>9. \A e : e # d => On(nb, e) = On(bk, e)
  BY <1>3, <1>4 DEF On
<1>10. On(nb, d) = On(bk, d) \cup S
  BY <1>3, <1>4 DEF On
<1>11. PICK c \in Int, z \in Nat : c = Cost(On(bk, d)) /\ z = Cardinality(On(bk, d))
  BY OnIs
<1>13. PICK v \in Int : v = Worth(h, b)
  BY DEF Worth
<1>12. Cost(On(nb, d)) = c + v /\ Cardinality(On(nb, d)) = z + h
  <2>2. bk \cap Span(last, h, d, b) = {}
    BY <1>2, <1>3
  <2>1. /\ Cost(On(bk, d) \cup Span(last, h, d, b)) = Cost(On(bk, d)) + Worth(h, b)
        /\ Cardinality(On(bk, d) \cup Span(last, h, d, b)) = Cardinality(On(bk, d)) + h
    BY <2>2, CostOnDay
  <2> QED BY <1>2, <1>10, <1>11, <1>13, <2>1
\* The day of the booking.
<1>15. Ready(ds[m], nb)
  <2>1. CASE /\ days # <<>> /\ days[n].date = d /\ ds[m].hours = days[n].hours + h
             /\ ds[m].bill = days[n].bill + v
    <3>1. DayInv(days[n], bk) /\ days[n] \in Day
      BY <1>5, <1>8, <2>1 DEF GoodDays
    <3>2. PICK o \in Int : o = days[n].bill /\ days[n].hours = z
      BY <1>11, <2>1, <3>1 DEF DayInv, Day
    <3>3. 2 * (o - c) <= Unit * z /\ 2 * (c - o) <= Unit * z
      BY <1>11, <2>1, <3>1, <3>2 DEF DayInv, Within
    <3>4. Unit * z <= Unit * (z + h - 1)
      <4>5. 1 <= h
        BY DEF Elapsed
      <4>1. PICK u \in Nat : u = Unit
        BY LedgerNumbers
      <4>2. u * (h - 1) >= 0
        BY <4>5
      <4>3. u * (z + h - 1) = u * z + u * (h - 1)
        OBVIOUS
      <4>4. PICK p \in Int, q \in Int : p = u * z /\ q = u * (h - 1)
        OBVIOUS
      <4> QED BY <4>1, <4>2, <4>3, <4>4
    <3>5. PICK p \in Int, q \in Int : p = Unit * z /\ q = Unit * (z + h - 1)
      BY LedgerNumbers
    <3>6. 2 * ((o + v) - (c + v)) <= q /\ 2 * ((c + v) - (o + v)) <= q
      BY <3>3, <3>4, <3>5
    <3>7. ds[m].hours = z + h /\ ds[m].bill = o + v
      BY <2>1, <3>2
    <3>8. ds[m].hours = Cardinality(On(nb, ds[m].date)) /\ Cost(On(nb, ds[m].date)) = c + v
      BY <1>7, <1>12, <3>7
    <3>9. ds[m].hours - 1 = z + h - 1
      BY <3>7
    <3>10. Within(ds[m], nb, ds[m].hours - 1)
      BY <3>5, <3>6, <3>7, <3>8, <3>9 DEF Within
    <3> QED BY <3>8, <3>10 DEF Ready
  <2>2. CASE (days # <<>> => days[n].date # d) /\ ds[m].hours = h /\ ds[m].bill = v
    <3>1. On(bk, d) = {}
      <4>1. SUFFICES ASSUME NEW x \in bk, x.date = d PROVE FALSE
        BY DEF On
      <4>2. days # <<>> /\ x.date <= days[n].date /\ days[n].date <= d
        BY <1>1, <1>5 DEF GoodDays, InOrder, NotAfter
      <4>3. days[n].date \in Nat
        BY <1>5, <1>8, <4>2 DEF Day
      <4> QED BY <2>2, <4>1, <4>2, <4>3
    <3>2. c = 0 /\ z = 0
      BY <1>11, <3>1, CostOfNothing, FS_EmptySet
    <3>3. PICK q \in Int : q = Unit * (h - 1)
      BY LedgerNumbers
    <3>4. q >= 0
      <4>1. PICK u \in Nat : u = Unit
        BY LedgerNumbers
      <4>3. 1 <= h
        BY DEF Elapsed
      <4>2. u * (h - 1) >= 0
        BY <4>3
      <4> QED BY <3>3, <4>1, <4>2
    <3>5. Cost(On(nb, d)) = v /\ Cardinality(On(nb, d)) = h
      BY <1>12, <3>2
    <3>6. 2 * (v - v) <= q
      BY <3>4
    <3> QED BY <1>7, <2>2, <3>3, <3>5, <3>6 DEF Ready, Within
  <2>3. \/ /\ days # <<>> /\ days[n].date = d /\ ds[m].hours = days[n].hours + h
           /\ ds[m].bill = days[n].bill + v
        \/ (days # <<>> => days[n].date # d) /\ ds[m].hours = h /\ ds[m].bill = v
    BY <1>1, <1>5, <1>6, <1>13 DEF Onto
  <2> QED BY <2>1, <2>2, <2>3
\* The days before it.
<1>16. \A i \in 1..m - 1 : ds[i].date < d
  <2> SUFFICES ASSUME NEW i \in 1..m - 1 PROVE ds[i].date < d
    OBVIOUS
  <2>1. i \in 1..n /\ ds[i] = days[i] /\ days # <<>> /\ n \in 1..n
    BY <1>5, <1>7
  <2>2. days[i].date \in Nat /\ days[n].date \in Nat /\ days[n].date <= d
    BY <1>1, <1>5, <1>8, <2>1 DEF Day, NotAfter
  <2>3. i < n => days[i].date < days[n].date
    BY <1>5, <2>1 DEF GoodDays, InOrder
  <2>4. m = n \/ days[n].date # d
    BY <1>1, <1>5, <1>6, <2>1 DEF Onto
  <2> QED BY <2>1, <2>2, <2>3, <2>4
<1>17. ASSUME NEW i \in 1..m PROVE Ready(ds[i], nb)
  <2>1. CASE i = m
    BY <1>15, <2>1
  <2>2. CASE i # m
    <3>1. i \in 1..m - 1
      BY <2>2
    <3>2. i \in 1..n /\ ds[i] = days[i] /\ ds[i].date < d
      BY <1>7, <1>16, <3>1
    <3>3. DayInv(ds[i], bk)
      BY <1>5, <3>2 DEF GoodDays
    <3>4. On(nb, ds[i].date) = On(bk, ds[i].date)
      <4>1. ds[i].date # d
        BY <1>8, <3>2 DEF Day
      <4> QED BY <1>9, <4>1
    <3> QED BY <3>3, <3>4 DEF DayInv, Ready, Within
  <2> QED BY <2>1, <2>2
<1>18. \A i, j \in 1..m : i < j => ds[i].date < ds[j].date
  <2> SUFFICES ASSUME NEW i \in 1..m, NEW j \in 1..m, i < j PROVE ds[i].date < ds[j].date
    OBVIOUS
  <2>1. i \in 1..m - 1
    OBVIOUS
  <2>2. CASE j = m
    BY <1>7, <1>16, <2>1, <2>2
  <2>3. CASE j # m
    <3>1. j \in 1..m - 1
      BY <2>3
    <3>2. i \in 1..n /\ j \in 1..n /\ ds[i] = days[i] /\ ds[j] = days[j]
      BY <1>7, <2>1, <3>1
    <3> QED BY <1>5, <3>2 DEF GoodDays, InOrder
  <2> QED BY <2>2, <2>3
<1>19. \A x \in nb : x.date <= ds[m].date
  <2> SUFFICES ASSUME NEW x \in bk PROVE x.date <= d
    BY <1>3, <1>4, <1>7
  <2>1. days # <<>> /\ x.date <= days[n].date /\ days[n].date <= d
    BY <1>1, <1>5 DEF GoodDays, InOrder, NotAfter
  <2>2. days[n].date \in Nat
    BY <1>5, <1>8, <2>1 DEF Day
  <2>3. x.date \in Nat
    BY DEF Bookings, Booking
  <2> QED BY <2>1, <2>2, <2>3
<1>20. ds # <<>>
  BY DEF Onto
<1> QED BY <1>6, <1>7, <1>17, <1>18, <1>19, <1>20 DEF ReadyDays, InOrder

LEMMA NoBooking ==
  ASSUME NEW l, NEW s, ~Timely(l, s) PROVE Books(l, s) = {}
BY DEF Books, Timely

\* A sample that is stored.
LEMMA StoreKeeps ==
  ASSUME NEW l, NEW bk, HistoryInv(l, bk), NEW s \in Samples, l.last <= s.at,
         NEW h, h = Encode(Add(l, s)),
         NEW nb, nb = (IF l.currency \in {NoCurrency, s.currency} THEN bk ELSE {}) \cup Books(l, s)
  PROVE  HistoryInv(h, nb) /\ h.last = s.at
<1>1. /\ l \in Ledgers /\ (l.currency = NoCurrency => l.last = None)
      /\ l.last \in Nat \cup {None} /\ l.days \in Seq(Day)
  BY DEF HistoryInv, Ledgers
<1>2. s.at \in Nat /\ s.bill \in Int /\ s.currency \in Currencies /\ s.currency # NoCurrency
  <2>1. NoCurrency \notin Currencies
    BY LedgerAssumption, Zenon
  <2> QED BY <2>1 DEF Samples
<1>3. PICK a \in Ledgers : a = Add(l, s) /\ a.last = s.at /\ a.currency = s.currency
  BY <1>1, AddIs
<1>4. /\ h \in Ledgers /\ h.last = s.at /\ h.currency = s.currency
      /\ a.days # <<>> => h.days # <<>>
  BY <1>3, EncodeIs
<1>5. PICK k \in Nat : /\ k + Len(h.days) = Len(a.days)
                       /\ \A i \in DOMAIN h.days :
                            i + k \in DOMAIN a.days /\ h.days[i] = rounded(a.days[i + k])
  BY <1>3, EncodeIs
<1>6. h.days \in Seq(Day) /\ a.days \in Seq(Day)
  BY <1>4 DEF Ledgers
<1>7. ASSUME NEW last, Bookings(bk, last), l.last = last PROVE Bookings(bk, s.at)
  <2>1. \A x \in bk : x.tick <= s.at
    <3> SUFFICES ASSUME NEW x \in bk PROVE x.tick <= s.at
      OBVIOUS
    <3>1. x.tick <= last /\ x.tick \in Nat
      BY <1>7 DEF Bookings, Booking
    <3> QED BY <1>1, <1>2, <1>7, <3>1 DEF None
  <2> QED BY <1>7, <2>1 DEF Bookings
<1>8. CASE l.currency \notin {NoCurrency, s.currency}
  <2>1. nb = {}
    BY <1>8, NoBooking DEF Timely
  <2>2. a.days = <<>>
    BY <1>1, <1>3, <1>8, AddIs
  <2>3. h.days = <<>>
    <3>1. Len(a.days) = 0
      BY <2>2
    <3>2. Len(h.days) \in Nat /\ (Len(h.days) = 0 => h.days = <<>>)
      BY <1>6, LenProperties, EmptySeq
    <3> QED BY <1>5, <3>1, <3>2
  <2>4. Bookings(nb, s.at)
    BY <2>1, FS_EmptySet DEF Bookings
  <2>5. GoodDays(h.days, nb)
    BY <1>6, <2>1, <2>3 DEF GoodDays, InOrder
  <2> QED BY <1>2, <1>4, <2>3, <2>4, <2>5 DEF HistoryInv
<1>9. CASE l.currency \in {NoCurrency, s.currency} /\ ~Timely(l, s)
  <2>1. nb = bk
    BY <1>9, NoBooking
  <2>2. a.days = l.days
    BY <1>1, <1>3, <1>9, AddIs
  <2>3. Bookings(bk, s.at) /\ Bookings(bk, l.last) /\ GoodDays(l.days, bk)
    BY <1>7 DEF HistoryInv
  <2>4. ReadyDays(l.days, bk)
    BY <2>3 DEF GoodDays, ReadyDays, DayInv, Ready
  <2>5. /\ GoodDays(h.days, bk)
        /\ h.days # <<>> => l.days # <<>> /\ h.days[Len(h.days)].date = l.days[Len(l.days)].date
    BY <1>4, <1>5, <1>6, <2>2, <2>3, <2>4, SaveKeeps
  <2>6. h.days # <<>> => h.days[Len(h.days)].date <= DateOf(s.at)
    <3> SUFFICES ASSUME h.days # <<>> PROVE h.days[Len(h.days)].date <= DateOf(s.at)
      OBVIOUS
    <3>1. l.last # None /\ h.days[Len(h.days)].date <= DateOf(l.last)
      BY <2>5 DEF HistoryInv
    <3>2. l.last \in Nat /\ h.days[Len(h.days)] \in Day
      BY <1>1, <1>6, <3>1, LenProperties, EmptySeq, ElementOfSeq
    <3>3. DateOf(l.last) <= DateOf(s.at) /\ DateOf(l.last) \in Nat /\ DateOf(s.at) \in Nat
      BY <1>2, <3>2, DatesGoOn
    <3> QED BY <3>1, <3>2, <3>3 DEF Day
  <2>7. h.last # None /\ h.currency # NoCurrency
    BY <1>2, <1>4 DEF None
  <2> QED BY <1>4, <2>1, <2>3, <2>5, <2>6, <2>7 DEF HistoryInv
<1>10. CASE Timely(l, s)
  <2>1. PICK last \in Nat : last = l.last /\ s.at - last \in 1..MaxGap
    BY <1>1, <1>10 DEF Timely
  <2>2. PICK g \in Nat : g = s.at - last /\ 1 <= g /\ g <= MaxGap
    BY <1>2, <2>1
  <2>3. Books(l, s) = Span(last, g, DateOf(s.at), s.bill)
    <3>1. last + g = s.at
      BY <1>2, <2>2
    <3>2. Books(l, s) = {[tick |-> t, date |-> DateOf(s.at), bill |-> s.bill] : t \in l.last + 1..s.at}
      BY <1>10 DEF Books, Timely
    <3> QED BY <2>1, <3>1, <3>2 DEF Span
  <2>4. nb = bk \cup Span(last, g, DateOf(s.at), s.bill)
    BY <1>10, <2>3 DEF Timely
  <2>5. PICK ds, j : /\ Onto(ds, l.days, DateOf(s.at), s.at - l.last, s.bill * (s.at - l.last))
                     /\ EndOf(a.days, ds, j) /\ a.days # <<>>
    BY <1>1, <1>3, <1>10, AddIs
  <2>6. Bookings(bk, last) /\ GoodDays(l.days, bk)
    BY <2>1 DEF HistoryInv
  <2>7. Bookings(nb, s.at)
    BY <1>2, <2>1, <2>2, <2>4, <2>6, BooksSpan
  <2>8. NotAfter(l.days, s.at)
    <3> SUFFICES ASSUME l.days # <<>> PROVE l.days[Len(l.days)].date <= DateOf(s.at)
      BY DEF NotAfter
    <3>1. l.days[Len(l.days)].date <= DateOf(last)
      BY <2>1 DEF HistoryInv
    <3>2. l.days[Len(l.days)] \in Day
      BY <1>1, LenProperties, EmptySeq, ElementOfSeq
    <3>3. DateOf(last) <= DateOf(s.at) /\ DateOf(last) \in Nat /\ DateOf(s.at) \in Nat
      BY <1>2, <2>2, DatesGoOn
    <3> QED BY <3>1, <3>2, <3>3 DEF Day
  <2>9. ReadyDays(ds, nb)
    <3>1. Onto(ds, l.days, DateOf(s.at), g, Worth(g, s.bill)) /\ Elapsed(last, g, s.at)
      <4>1. Worth(g, s.bill) = s.bill * g
        BY <1>2 DEF Worth
      <4> QED BY <2>1, <2>2, <2>5, <4>1 DEF Elapsed
    <3> QED BY <1>2, <2>2, <2>4, <2>6, <2>8, <3>1, OntoReady
  <2>10. /\ j + k \in Nat /\ (j + k) + Len(h.days) = Len(ds) /\ h.days # <<>>
         /\ \A i \in DOMAIN h.days : i + (j + k) \in DOMAIN ds /\ h.days[i] = rounded(ds[i + (j + k)])
    <3>1. /\ j \in Nat /\ j + Len(a.days) = Len(ds)
          /\ \A i \in DOMAIN a.days : i + j \in DOMAIN ds /\ a.days[i] = ds[i + j]
      BY <2>5 DEF EndOf
    <3>2. Len(a.days) \in Nat /\ Len(h.days) \in Nat /\ DOMAIN h.days = 1..Len(h.days)
      BY <1>6, LenProperties
    <3>3. ASSUME NEW i \in DOMAIN h.days
          PROVE  i + (j + k) \in DOMAIN ds /\ h.days[i] = rounded(ds[i + (j + k)])
      <4>1. i + k \in DOMAIN a.days /\ h.days[i] = rounded(a.days[i + k])
        BY <1>5
      <4>2. (i + k) + j \in DOMAIN ds /\ a.days[i + k] = ds[(i + k) + j]
        BY <3>1, <4>1
      <4>3. (i + k) + j = i + (j + k)
        BY <3>1, <3>2
      <4> QED BY <4>1, <4>2, <4>3
    <3>4. (j + k) + Len(h.days) = Len(ds) /\ j + k \in Nat
      <4>1. PICK p \in Nat, q \in Nat : p = Len(a.days) /\ q = Len(h.days)
        BY <3>2
      <4>2. k + q = p
        BY <1>5, <4>1
      <4>3. j + p = Len(ds) /\ j \in Nat
        BY <3>1, <4>1
      <4>4. (j + k) + q = Len(ds) /\ j + k \in Nat
        BY <4>2, <4>3
      <4> QED BY <4>1, <4>4
    <3> QED BY <1>4, <2>5, <3>3, <3>4
  <2>11. /\ GoodDays(h.days, nb) /\ h.days[Len(h.days)].date = ds[Len(ds)].date
    <3>1. PICK f \in Nat : f = j + k
      BY <2>10
    <3>2. /\ f + Len(h.days) = Len(ds) /\ (ds # <<>> => h.days # <<>>)
          /\ \A i \in DOMAIN h.days : i + f \in DOMAIN ds /\ h.days[i] = rounded(ds[i + f])
      BY <2>10, <3>1
    <3>3. /\ GoodDays(h.days, nb)
          /\ h.days # <<>> => h.days[Len(h.days)].date = ds[Len(ds)].date
      BY <1>6, <2>7, <2>9, <3>2, SaveKeeps
    <3> QED BY <2>10, <3>3
  <2>12. h.days[Len(h.days)].date <= DateOf(s.at)
    <3>1. DateOf(s.at) \in Nat /\ ds[Len(ds)].date = DateOf(s.at)
      BY <1>2, <2>5, DateIs DEF Onto
    <3> QED BY <2>11, <3>1
  <2>13. h.last # None /\ h.currency # NoCurrency
    BY <1>2, <1>4 DEF None
  <2> QED BY <1>4, <2>7, <2>11, <2>12, <2>13 DEF HistoryInv
<1> QED BY <1>8, <1>9, <1>10

\* The hours of a day that keeps its bookings.
LEMMA HoursBounded ==
  ASSUME NEW bk, NEW last, Bookings(bk, last), NEW d \in Nat
  PROVE  Cardinality(On(bk, d)) <= DayTicks - 1 + MaxGap
<1>1. PICK p \in Int, n \in Nat \ {0}, g \in Nat \ {0} : p = DayTicks * d /\ n = DayTicks /\ g = MaxGap
  BY LedgerNumbers
<1>2. PICK f : f = [x \in On(bk, d) |-> x.tick]
  OBVIOUS
<1>3. PICK I : I = p - g + 1 .. p + n - 1
  OBVIOUS
<1>4. IsFiniteSet(I) /\ Cardinality(I) = n - 1 + g
  <2>1. PICK a \in Int, b \in Int : a = p - g + 1 /\ b = p + n - 1
    OBVIOUS
  <2>2. IsFiniteSet(a..b) /\ Cardinality(a..b) = IF a > b THEN 0 ELSE b - a + 1
    BY FS_Interval
  <2> QED BY <1>3, <2>1, <2>2
<1>5. \A x \in On(bk, d) : x.tick \in I
  <2> SUFFICES ASSUME NEW x \in On(bk, d) PROVE x.tick \in I
    OBVIOUS
  <2>1. x \in bk /\ x.date = d
    BY DEF On
  <2>2. /\ x.tick \in Nat
        /\ DayTicks * x.date - MaxGap < x.tick /\ x.tick < DayTicks * x.date + DayTicks
    BY <2>1 DEF Bookings, Booking
  <2>3. p - g < x.tick /\ x.tick < p + n
    BY <1>1, <2>1, <2>2
  <2> QED BY <1>3, <2>2, <2>3
<1>6. f \in Injection(On(bk, d), I)
  <2>1. f \in [On(bk, d) -> I]
    BY <1>2, <1>5
  <2>2. \A x, y \in On(bk, d) : f[x] = f[y] => x = y
    BY <1>2 DEF On, Bookings
  <2> QED BY <2>1, <2>2 DEF Injection, IsInjective
<1>7. Cardinality(On(bk, d)) <= Cardinality(I)
  BY <1>4, <1>6, FS_Injection
<1> QED BY <1>1, <1>4, <1>7

\* The sample under way was made of the history as it is, which only samples change,
\* and is not older than its last sample.
LedgerInv ==
    /\ now \in Nat /\ HistoryInv(history, booked) /\ history.last <= now
    /\ cluster \in [cost : [Namespaces -> Costs], currency : Currencies]
    /\ collector.pc = "built" =>
         /\ collector.ledger = history /\ collector.snap \in Samples
         /\ history.last <= collector.snap.at /\ collector.snap.at <= now

LEMMA LedgerStarts == Init => LedgerInv
<1> SUFFICES ASSUME LedgerInit, now = 0 PROVE LedgerInv
  BY DEF Init, ClockInit
<1>1. EmptyLedger \in Ledgers /\ EmptyLedger.last = None /\ EmptyLedger.days = <<>>
  BY EmptySeq DEF EmptyLedger, Ledgers
<1>2. Bookings({}, None)
  BY FS_EmptySet DEF Bookings
<1>3. GoodDays(<<>>, {})
  BY EmptySeq DEF GoodDays, InOrder
<1>4. HistoryInv(history, booked)
  BY <1>1, <1>2, <1>3 DEF HistoryInv, LedgerInit
<1>5. cluster \in [cost : [Namespaces -> Costs], currency : Currencies]
  <2>1. (CHOOSE c \in Costs : TRUE) \in Costs /\ (CHOOSE c \in Currencies : TRUE) \in Currencies
    BY LedgerAssumption, Zenon
  <2>2. PICK c \in Costs, u \in Currencies :
          cluster = [cost |-> [n \in Namespaces |-> c], currency |-> u]
    BY <2>1, Zenon DEF LedgerInit
  <2>3. [n \in Namespaces |-> c] \in [Namespaces -> Costs]
    OBVIOUS
  <2> QED BY <2>2, <2>3
<1>6. collector.pc # "built"
  BY DEF LedgerInit, NoSample
<1>7. history.last <= now
  BY <1>1 DEF LedgerInit, None
<1> QED BY <1>4, <1>5, <1>6, <1>7 DEF LedgerInv

LEMMA LedgerStep == LedgerInv /\ [Next]_vars => LedgerInv'
<1> SUFFICES ASSUME LedgerInv, [Next]_vars PROVE LedgerInv'
  OBVIOUS
<1>1. now \in Nat /\ now' \in Nat /\ now <= now'
  BY TimeSteps DEF LedgerInv
<1>2. history.last \in Int /\ HistoryInv(history, booked)
  <2>1. history \in Ledgers /\ None \in Int
    BY DEF LedgerInv, HistoryInv, None
  <2> QED BY <2>1 DEF LedgerInv, Ledgers
<1>3. CASE UNCHANGED ledgerVars
  <2>1. UNCHANGED <<cluster, history, collector, booked>>
    BY <1>3 DEF ledgerVars
  <2>2. HistoryInv(history, booked)' /\ history'.last <= now'
    <3>1. HistoryInv(history', booked')
      BY <1>2, <2>1
    <3>2. history'.last <= now'
      BY <1>1, <1>2, <2>1 DEF LedgerInv
    <3> QED BY <3>1, <3>2
  <2>3. collector.pc = "built" => collector.snap.at <= now'
    <3>1. collector.pc = "built" => collector.snap.at \in Int /\ collector.snap.at <= now
      BY DEF LedgerInv, Samples
    <3> QED BY <1>1, <3>1
  <2> QED BY <1>1, <2>1, <2>2, <2>3 DEF LedgerInv
<1>4. CASE SampleBegins
  <2>1. UNCHANGED <<cluster, history, booked, now>> /\ collector' =
          [pc |-> "built", ledger |-> history, snap |-> Build(now, cluster)]
    BY <1>4 DEF SampleBegins, NoFault, clockVars
  <2>2. Build(now, cluster) \in Samples /\ Build(now, cluster).at = now
    <3>1. cluster.cost \in [Namespaces -> Int] /\ cluster.currency \in Currencies
      <4>1. Costs \subseteq Int
        BY LedgerAssumption
      <4> QED BY <4>1 DEF LedgerInv
    <3>2. Sum(cluster.cost) \in Int /\ NodeOverhead \in Int
      <4>1. IsFiniteSet(Namespaces) /\ NodeOverhead \in Nat
        BY LedgerAssumption, Zenon
      <4> QED BY <3>1, <4>1, SumIs
    <3>3. PICK b \in Int : b = NodeOverhead + Sum(cluster.cost)
      BY <3>2
    <3> QED BY <1>1, <3>1, <3>3 DEF Build, Samples
  <2>3. HistoryInv(history, booked)'
    BY <1>2, <2>1
  <2> QED BY <1>1, <2>1, <2>2, <2>3 DEF LedgerInv
<1>5. CASE SampleStored
  <2>1. /\ collector.pc = "built" /\ collector.ledger = history /\ collector.snap \in Samples
        /\ history.last <= collector.snap.at /\ collector.snap.at <= now
    BY <1>5 DEF SampleStored, LedgerInv
  <2>2. PICK s \in Samples : s = collector.snap
    BY <2>1
  <2>3. /\ history' = Encode(Add(history, s)) /\ UNCHANGED <<cluster, now>>
        /\ booked' = (IF history.currency \in {NoCurrency, s.currency} THEN booked ELSE {})
                        \cup Books(history, s)
        /\ collector' = NoSample
    BY <1>5, <2>1, <2>2 DEF SampleStored, NoFault, clockVars
  <2>4. HistoryInv(history', booked') /\ history'.last = s.at
    BY <1>2, <2>1, <2>2, <2>3, StoreKeeps
  <2>5. HistoryInv(history, booked)'
    BY <2>4
  <2>6. collector'.pc # "built"
    BY <2>3 DEF NoSample
  <2> QED BY <1>1, <2>1, <2>2, <2>3, <2>4, <2>5, <2>6 DEF LedgerInv
<1>6. CASE SampleLost \/ ClusterChanges
  <2>1. /\ UNCHANGED <<history, booked, now>> /\ (collector' = collector \/ collector' = NoSample)
        /\ cluster' \in [cost : [Namespaces -> Costs], currency : Currencies]
    <3>1. CASE SampleLost
      BY <3>1 DEF SampleLost, Fault, LedgerInv
    <3>2. CASE ClusterChanges
      <4>1. cluster \in [cost : [Namespaces -> Costs], currency : Currencies]
        BY DEF LedgerInv
      <4>2. cluster' \in [cost : [Namespaces -> Costs], currency : Currencies]
        BY <3>2, <4>1 DEF ClusterChanges
      <4> QED BY <3>2, <4>2 DEF ClusterChanges, Change
    <3> QED BY <1>6, <3>1, <3>2
  <2>2. NoSample.pc # "built"
    BY DEF NoSample
  <2>3. HistoryInv(history, booked)'
    BY <1>2, <2>1
  <2> QED BY <1>1, <2>1, <2>2, <2>3 DEF LedgerInv
<1>7. LedgerNext => LedgerInv'
  BY <1>4, <1>5, <1>6 DEF LedgerNext
<1>8. [Next]_vars => LedgerNext \/ UNCHANGED ledgerVars
  <2>1. BudgetNext => UNCHANGED ledgerVars
    BY DEF BudgetNext, CheckBegins, PostAlert, StoreAlerts, AlertsLost
  <2> QED BY <2>1 DEF Next, vars
<1> QED BY <1>3, <1>7, <1>8

\* Every tick is booked once and on one day, whatever fails, for any settings: of every
\* day the ledger keeps, the hours are the ticks booked on its date and the bill is what
\* they cost but for the rounding of each save (Ledger.Add, Encode, Collector.Sample).
THEOREM EveryTickBookedOnce == Spec => []BookedOnce
<1>1. LedgerInv => BookedOnce
  <2> SUFFICES ASSUME LedgerInv PROVE BookedOnce
    OBVIOUS
  <2>1. Bookings(booked, history.last) /\ GoodDays(history.days, booked)
    BY DEF LedgerInv, HistoryInv
  <2>2. \A x, y \in booked : x.tick = y.tick => x = y
    BY <2>1 DEF Bookings
  <2>3. \A i, j \in DOMAIN history.days : i < j => history.days[i].date < history.days[j].date
    BY <2>1 DEF GoodDays, InOrder
  <2>4. ASSUME NEW i \in DOMAIN history.days
        PROVE  /\ history.days[i].hours = Cardinality(On(booked, history.days[i].date))
               /\ history.days[i].hours <= DayTicks - 1 + MaxGap
               /\ Within(history.days[i], booked, history.days[i].hours)
    <3>1. DayInv(history.days[i], booked)
      BY <2>1, <2>4 DEF GoodDays
    <3>2. history.days[i] \in Day
      BY <2>1, <2>4, LenProperties, ElementOfSeq DEF GoodDays, InOrder
    <3>3. history.days[i].date \in Nat
      BY <3>2 DEF Day
    <3> QED BY <2>1, <3>1, <3>3, HoursBounded DEF DayInv
  <2> QED BY <2>2, <2>3, <2>4 DEF BookedOnce, Within, On, Cost
<1> QED BY <1>1, LedgerStarts, LedgerStep, PTL DEF Spec

-----------------------------------------------------------------------------
(* The messages a channel took are numbered in order.                       *)

NextNo(c) == Cardinality({m \in sent : m.to = c})

Numbered ==
    /\ IsFiniteSet(sent)
    /\ \A m \in sent : m.no \in Nat /\ m.no < NextNo(m.to)

\* Some messages at once, each the next one of its channel.
Telling(new) ==
    /\ IsFiniteSet(new) /\ sent' = sent \cup new
    /\ \A m \in new : m.no = NextNo(m.to)

\* What Told adds.
Copies(key, at, to) == {[key |-> key, to |-> c, at |-> at, no |-> NextNo(c)] : c \in to}

LEMMA TellsInOrder ==
  ASSUME Numbered, NEW new, Telling(new)
  PROVE  /\ Numbered'
         /\ \A x, y \in sent' : x.no < y.no /\ x.to = y.to => x \in sent /\ (y \in sent \/ y \in new)
<1> DEFINE To(c) == {x \in sent : x.to = c}
           ToNow(c) == {x \in sent' : x.to = c}
<1>1. IsFiniteSet(sent')
  BY FS_Union DEF Numbered, Telling
<1>2. ASSUME NEW c
      PROVE  /\ IsFiniteSet(ToNow(c)) /\ IsFiniteSet(To(c)) /\ To(c) \subseteq ToNow(c)
             /\ Cardinality(To(c)) \in Nat /\ Cardinality(ToNow(c)) \in Nat
             /\ Cardinality(To(c)) <= Cardinality(ToNow(c))
             /\ To(c) # ToNow(c) => Cardinality(To(c)) < Cardinality(ToNow(c))
  <2>1. IsFiniteSet(ToNow(c)) /\ To(c) \subseteq ToNow(c)
    BY <1>1, FS_Subset DEF Telling
  <2> HIDE DEF To, ToNow
  <2> QED BY <2>1, FS_Subset, FS_CardinalityType
<1>3. ASSUME NEW m \in sent PROVE m.no \in Nat /\ m.no < Cardinality(To(m.to))
  BY DEF Numbered, NextNo
<1>4. ASSUME NEW m \in new PROVE m.no = Cardinality(To(m.to)) /\ m \notin sent
  <2>1. m.no = Cardinality(To(m.to))
    BY DEF Telling, NextNo
  <2> HIDE DEF To
  <2> QED BY <1>2, <1>3, <2>1
<1>5. ASSUME NEW m \in sent' PROVE m.no \in Nat /\ m.no < Cardinality(ToNow(m.to))
  <2>1. CASE m \in sent
    <3> HIDE DEF To, ToNow
    <3> QED BY <1>2, <1>3, <2>1
  <2>2. CASE m \in new
    <3>1. To(m.to) # ToNow(m.to)
      BY <1>4, <2>2
    <3> HIDE DEF To, ToNow
    <3> QED BY <1>2, <1>4, <2>2, <3>1
  <2> QED BY <2>1, <2>2 DEF Telling
<1>6. Numbered'
  BY <1>1, <1>5 DEF Numbered, NextNo
<1>7. ASSUME NEW x \in sent', NEW y \in sent', x.no < y.no, x.to = y.to
      PROVE  x \in sent /\ (y \in sent \/ y \in new)
  <2>1. /\ x \in sent \/ x \in new
        /\ y \in sent \/ y \in new
    BY DEF Telling
  <2>2. ASSUME x \in new PROVE FALSE
    <3> HIDE DEF To
    <3>1. y \in sent => y.no < Cardinality(To(x.to)) /\ y.no \in Nat
      BY <1>3, <1>7
    <3>2. y \in new => y.no = Cardinality(To(x.to))
      BY <1>4, <1>7
    <3>3. x.no = Cardinality(To(x.to)) /\ Cardinality(To(x.to)) \in Nat
      BY <1>2, <1>4, <2>2
    <3> QED BY <1>7, <2>1, <3>1, <3>2, <3>3
  <2> QED BY <2>1, <2>2
<1> QED BY <1>6, <1>7

LEMMA PostIs ==
  ASSUME NEW event, NEW up, NEW post, post = Post(AlertChannels, event, up)
  PROVE  /\ post.delivered \subseteq DOMAIN AlertChannels
         /\ post.err \/ post.nowhere => post.delivered = {}
<1>1. PICK tried : tried = Tried(AlertChannels, event) /\ tried \subseteq DOMAIN AlertChannels
  BY DEF Tried
<1>2. PICK took : took = {c \in tried : Takes(c, AlertChannels[c], c \in up)}
  OBVIOUS
<1>3. PICK s : s = Send(AlertChannels, event, up)
  OBVIOUS
<1>4. PICK e \in BOOLEAN : e = (took = {} /\ tried # {})
  OBVIOUS
<1>5. s = [delivered |-> took, err |-> e]
  <2>1. s = [delivered |-> took, err |-> took = {} /\ tried # {}]
    BY <1>1, <1>2, <1>3 DEF Send
  <2> QED BY <1>4, <2>1, Zenon
<1>6. PICK n \in BOOLEAN : n = (~s.err /\ s.delivered = {})
  OBVIOUS
<1>7. post = [delivered |-> s.delivered, err |-> s.err, nowhere |-> n]
  <2>1. post = [delivered |-> s.delivered, err |-> s.err, nowhere |-> ~s.err /\ s.delivered = {}]
    BY <1>3 DEF Post
  <2> QED BY <1>6, <2>1, Zenon
<1>8. s.delivered = took /\ (e => took = {}) /\ (n => took = {})
  <2>1. s.delivered = took
    BY <1>5
  <2>2. e => took = {}
    BY <1>4, Zenon
  <2>3. n => s.delivered = {}
    BY <1>6, Zenon
  <2> QED BY <2>1, <2>2, <2>3
<1>9. post.delivered = took /\ post.err = e /\ post.nowhere = n
  BY <1>5, <1>7, <1>8
<1> QED BY <1>1, <1>2, <1>8, <1>9

LEMMA ToldIs ==
  ASSUME NEW key, NEW at, NEW post, post.delivered \subseteq DOMAIN AlertChannels
  PROVE  /\ Told(key, at, post) = sent \cup Copies(key, at, post.delivered)
         /\ IsFiniteSet(Copies(key, at, post.delivered))
         /\ \A m \in Copies(key, at, post.delivered) :
               m.key = key /\ m.at = at /\ m.no = NextNo(m.to)
         /\ post.delivered = {} => Copies(key, at, post.delivered) = {}
<1> DEFINE new == Copies(key, at, post.delivered)
<1>1. Told(key, at, post) = sent \cup new
  BY DEF Told, Copies, NextNo
<1>2. IsFiniteSet(post.delivered)
  BY FeedAssumption, FS_Subset
<1> DEFINE f == [c \in post.delivered |-> [key |-> key, to |-> c, at |-> at, no |-> NextNo(c)]]
<1>3. f \in [post.delivered -> new] /\ \A m \in new : \E c \in post.delivered : f[c] = m
  BY DEF Copies
<1>4. f \in Surjection(post.delivered, new)
  BY <1>3 DEF Surjection
<1>5. IsFiniteSet(new)
  BY <1>2, <1>4, FS_Surjection
<1>6. ASSUME NEW m \in new
      PROVE m.key = key /\ m.at = at /\ m.no = NextNo(m.to)
  BY DEF Copies
<1>7. post.delivered = {} => new = {}
  BY DEF Copies
<1> QED BY <1>1, <1>5, <1>6, <1>7

-----------------------------------------------------------------------------
(* The digest.                                                              *)

\* The occasion after a moment lies after it.
LEMMA DigestIsLater ==
  ASSUME NEW at \in Schedules, NEW after \in Nat
  PROVE  NextDigest(at, after) \in Nat /\ NextDigest(at, after) > after
<1>1. /\ Week \in Nat /\ Week > 0 /\ at \in Nat /\ at < Week
  BY DigestAssumption
<1>2. PICK q \in Nat, r \in Nat : r < Week /\ after + 1 = q * Week + r
  <2>1. PICK q, r : q = (after + 1) \div Week /\ r = (after + 1) % Week
    OBVIOUS
  <2>2. q \in Nat /\ r \in Nat /\ r < Week
    BY <1>1, <2>1
  <2>3. after + 1 = q * Week + r
    BY <1>1, <2>1
  <2> QED BY <2>2, <2>3
<1>3. ASSUME NEW k \in Nat PROVE (k * Week + at) % Week = at
  <2>1. PICK d \in Nat, m \in Nat :
          d = (k * Week + at) \div Week /\ m = (k * Week + at) % Week /\ m < Week
          /\ k * Week + at = d * Week + m
    <3>1. k * Week + at \in Nat
      BY <1>1
    <3>2. ASSUME NEW v \in Nat
          PROVE  /\ v \div Week \in Nat /\ v % Week \in Nat /\ v % Week < Week
                 /\ v = (v \div Week) * Week + (v % Week)
      BY <1>1
    <3> QED BY <3>1, <3>2
  <2>2. d * Week < (k + 1) * Week /\ k * Week < (d + 1) * Week
    BY <1>1, <2>1
  <2>3. d < k + 1 /\ k < d + 1
    BY <1>1, <2>1, <2>2
  <2>4. d = k
    BY <2>1, <2>3
  <2> QED BY <1>1, <2>1, <2>4
<1>4. \E t \in after + 1..after + Week : t % Week = at
  <2>1. CASE at >= r
    <3>1. q * Week + at \in after + 1..after + Week
      BY <1>1, <1>2, <2>1
    <3> QED BY <1>3, <3>1
  <2>2. CASE at < r
    <3>1. (q + 1) * Week + at \in after + 1..after + Week
      BY <1>1, <1>2, <2>2
    <3> QED BY <1>3, <3>1
  <2> QED BY <1>1, <1>2, <2>1, <2>2
<1>5. NextDigest(at, after) \in after + 1..after + Week
  BY <1>4 DEF NextDigest
<1> QED BY <1>1, <1>5

\* What was sent of a digest is known: it lies behind the stored mark, or is of the
\* occasion the tick is about to mark.
DigestKnown(x) ==
    \/ reports.sent # None /\ x.key.period <= reports.sent
    \/ digester # NoTick /\ digester.pc # "post" /\ x.key = DigestKey(digester.due)

DigestInv ==
    /\ now \in Nat
    /\ schedule \in [enabled : BOOLEAN, at : Schedules]
    /\ "sent" \in DOMAIN reports /\ reports.sent \in Nat \cup {None} /\ reports.sent <= now
    /\ digester # NoTick =>
         /\ digester \in [pc : {"post", "save", "mark"}, at : Nat, due : Nat, of : Schedules]
         /\ reports.sent # None /\ reports.sent < digester.due
         /\ digester.due <= digester.at /\ digester.at <= now
    /\ \A x \in sent : x.key.kind = "digest" =>
         x.key.period \in Nat /\ (x.key \notin forgotten => DigestKnown(x))

LEMMA DigestStays ==
  ASSUME DigestInv, OncePerOccasion, schedule' \in [enabled : BOOLEAN, at : Schedules],
         UNCHANGED digester, reports'.sent = reports.sent, "sent" \in DOMAIN reports',
         now <= now', now' \in Nat, sent \subseteq sent', forgotten \subseteq forgotten',
         \A x \in sent' : x.key.kind = "digest" => x \in sent
  PROVE  DigestInv' /\ OncePerOccasion'
<1>1. OncePerOccasion'
  BY DEF OncePerOccasion
<1>2. ASSUME digester' # NoTick PROVE digester'.at <= now'
  <2>1. digester.at \in Nat /\ digester.at <= now /\ now \in Nat
    BY <1>2 DEF DigestInv
  <2> QED BY <2>1
<1>3. reports'.sent <= now'
  BY DEF DigestInv, None
<1>4. ASSUME NEW x \in sent', x.key.kind = "digest", x.key \notin forgotten' PROVE DigestKnown(x)'
  BY <1>4 DEF DigestInv, DigestKnown
<1> QED BY <1>1, <1>2, <1>3, <1>4 DEF DigestInv

LEMMA DigestStep ==
  ASSUME Numbered, DigestInv, OncePerOccasion, DigestNext
  PROVE  Numbered' /\ DigestInv' /\ OncePerOccasion'
<1>1. now' = now
  BY DEF DigestNext, MarkFirst, DigestDue, PostDigest, SaveDigest, MarkSent, DigestLost, SendNow,
         DeleteReport, SaveSchedule, Answering, NoFault, Fault, Change, clockVars
<1>2. CASE PostDigest
  <2>1. PICK post :
          /\ post.delivered \subseteq DOMAIN AlertChannels
          /\ post.err \/ post.nowhere => post.delivered = {}
          /\ sent' = Told(DigestKey(digester.due), digester.at, post)
          /\ IF post.err \/ post.nowhere
             THEN digester' = NoTick
             ELSE digester' = [digester EXCEPT !.pc = "save"]
    BY <1>2, PostIs DEF PostDigest
  <2>2. PICK key, at : key = DigestKey(digester.due) /\ at = digester.at
    OBVIOUS
  <2>3. PICK new : new = Copies(key, at, post.delivered)
    OBVIOUS
  <2>4. Telling(new) /\ \A m \in new : m.key = key
    <3>1. /\ Told(key, at, post) = sent \cup new /\ IsFiniteSet(new)
          /\ \A m \in new : m.key = key /\ m.no = NextNo(m.to)
      BY <2>1, <2>3, ToldIs
    <3> QED BY <2>1, <2>2, <3>1 DEF Telling
  <2>5. /\ Numbered'
        /\ \A x, y \in sent' : x.no < y.no /\ x.to = y.to => x \in sent /\ (y \in sent \/ y \in new)
    BY <2>4, TellsInOrder
  <2>6. /\ digester # NoTick /\ digester.pc = "post"
        /\ digester \in [pc : {"post", "save", "mark"}, at : Nat, due : Nat, of : Schedules]
        /\ UNCHANGED <<schedule, reports, forgotten>>
    BY <1>2 DEF PostDigest, NoTick, DigestInv
  <2>7. key.kind = "digest" /\ key.period = digester.due
    BY <2>2 DEF DigestKey
  <2>8. ASSUME NEW x \in sent, x.key.kind = "digest", x.key \notin forgotten
        PROVE  reports.sent # None /\ x.key.period <= reports.sent /\ x.key.period < digester.due
    BY <2>6, <2>8 DEF DigestInv, DigestKnown, None
  <2>9. OncePerOccasion'
    BY <2>4, <2>5, <2>6, <2>7, <2>8 DEF OncePerOccasion
  <2>10. \/ digester' = NoTick /\ new = {}
         \/ /\ digester' # NoTick /\ digester'.pc = "save"
            /\ digester'.due = digester.due /\ digester'.at = digester.at
            /\ digester' \in [pc : {"post", "save", "mark"}, at : Nat, due : Nat, of : Schedules]
    BY <2>1, <2>3, <2>6, ToldIs DEF NoTick
  <2>11. ASSUME NEW x \in sent', x.key.kind = "digest"
         PROVE  x.key.period \in Nat /\ (x.key \notin forgotten' => DigestKnown(x)')
    <3>1. CASE x \in sent
      BY <2>6, <2>8, <2>11, <3>1 DEF DigestInv, DigestKnown
    <3>2. CASE x \in new
      BY <2>2, <2>4, <2>6, <2>7, <2>10, <3>2 DEF DigestKnown
    <3> QED BY <2>4, <3>1, <3>2 DEF Telling
  <2>12. DigestInv'
    BY <1>1, <2>6, <2>10, <2>11 DEF DigestInv
  <2> QED BY <2>5, <2>9, <2>12
<1>3. ASSUME UNCHANGED sent PROVE Numbered'
  BY <1>3 DEF Numbered, NextNo
<1>4. CASE SendNow \/ DeleteReport \/ SaveSchedule
  <2>1. /\ UNCHANGED <<digester, sent, forgotten>> /\ "sent" \in DOMAIN reports'
        /\ reports'.sent = reports.sent
        /\ schedule' \in [enabled : BOOLEAN, at : Schedules]
    BY <1>4 DEF SendNow, DeleteReport, SaveSchedule, feedVars, DigestInv
  <2> QED BY <1>1, <1>3, <2>1, DigestStays DEF DigestInv
<1>5. CASE MarkFirst
  <2>1. /\ UNCHANGED <<schedule, digester, sent, forgotten>> /\ digester = NoTick
        /\ "sent" \in DOMAIN reports' /\ reports'.sent = now
    BY <1>5 DEF MarkFirst, feedVars, DigestInv
  <2>2. ASSUME NEW x \in sent, x.key.kind = "digest", x.key \notin forgotten PROVE DigestKnown(x)'
    BY <2>1, <2>2 DEF DigestInv, DigestKnown, None
  <2>3. DigestInv'
    BY <1>1, <2>1, <2>2 DEF DigestInv
  <2> QED BY <1>3, <2>1, <2>3 DEF OncePerOccasion
<1>6. CASE DigestDue
  <2>1. /\ UNCHANGED <<schedule, reports, sent, forgotten>> /\ digester = NoTick
        /\ reports.sent \in Nat /\ schedule.at \in Schedules
    BY <1>6 DEF DigestDue, feedVars, DigestInv
  <2>2. PICK due, of : due = NextDigest(schedule.at, reports.sent) /\ of = schedule.at /\ of \in Schedules
    BY <2>1
  <2>3. /\ now >= due /\ digester' = [pc |-> "post", at |-> now, due |-> due, of |-> of]
        /\ due \in Nat /\ due > reports.sent
    BY <1>6, <2>1, <2>2, DigestIsLater DEF DigestDue
  <2>4. ASSUME NEW x \in sent, x.key.kind = "digest", x.key \notin forgotten PROVE DigestKnown(x)'
    BY <2>1, <2>4 DEF DigestInv, DigestKnown
  <2>5. DigestInv'
    <3>1. /\ now \in Nat /\ digester'.due = due /\ digester'.at = now
          /\ digester' \in [pc : {"post", "save", "mark"}, at : Nat, due : Nat, of : Schedules]
      BY <2>2, <2>3 DEF DigestInv
    <3> QED BY <1>1, <2>1, <2>3, <2>4, <3>1 DEF DigestInv, None
  <2> QED BY <1>3, <2>1, <2>5 DEF OncePerOccasion
<1>7. CASE SaveDigest \/ MarkSent \/ DigestLost
  <2>1. /\ UNCHANGED <<schedule, sent>> /\ digester # NoTick
        /\ digester \in [pc : {"post", "save", "mark"}, at : Nat, due : Nat, of : Schedules]
        /\ forgotten \subseteq forgotten' /\ "sent" \in DOMAIN reports'
    <3>1. digester # NoTick
      BY <1>7 DEF SaveDigest, MarkSent, DigestLost, NoTick
    <3>2. digester \in [pc : {"post", "save", "mark"}, at : Nat, due : Nat, of : Schedules]
      BY <3>1 DEF DigestInv
    <3>3. UNCHANGED <<schedule, sent>> /\ forgotten \subseteq forgotten'
      BY <1>7 DEF SaveDigest, MarkSent, DigestLost, feedVars
    <3>4. "sent" \in DOMAIN reports'
      <4>1. CASE SaveDigest
        BY <4>1 DEF SaveDigest, DigestInv
      <4>2. CASE MarkSent
        BY <4>2 DEF MarkSent, DigestInv
      <4>3. CASE DigestLost
        BY <4>3 DEF DigestLost, DigestInv
      <4> QED BY <1>7, <4>1, <4>2, <4>3
    <3> QED BY <3>1, <3>2, <3>3, <3>4
  <2>2. \/ /\ digester'.pc = "mark" /\ digester' = [digester EXCEPT !.pc = "mark"] /\ digester.pc = "save"
           /\ reports'.sent = reports.sent
        \/ digester' = NoTick /\ reports'.sent = digester.at
        \/ /\ digester' = NoTick /\ reports'.sent = reports.sent
           /\ digester.pc # "post" => DigestKey(digester.due) \in forgotten'
    BY <1>7, <2>1 DEF SaveDigest, MarkSent, DigestLost, DigestInv
  <2>3. /\ reports.sent \in Nat /\ reports.sent < digester.due /\ digester.due <= digester.at
        /\ digester.at <= now /\ now \in Nat
    BY <2>1 DEF DigestInv
  <2>4. ASSUME NEW x \in sent, x.key.kind = "digest", x.key \notin forgotten' PROVE DigestKnown(x)'
    <3>1. x.key.period \in Nat /\ DigestKnown(x)
      BY <2>1, <2>4 DEF DigestInv
    <3>2. x.key = DigestKey(digester.due) => x.key.period = digester.due
      BY DEF DigestKey
    <3> QED BY <2>1, <2>2, <2>3, <2>4, <3>1, <3>2 DEF DigestKnown, None, NoTick
  <2>5. DigestInv'
    <3>1. digester' # NoTick =>
            /\ digester' \in [pc : {"post", "save", "mark"}, at : Nat, due : Nat, of : Schedules]
            /\ digester'.at = digester.at /\ digester'.due = digester.due
            /\ reports'.sent = reports.sent
      BY <2>1, <2>2
    <3> QED BY <1>1, <2>1, <2>2, <2>3, <2>4, <3>1 DEF DigestInv, None
  <2> QED BY <1>3, <2>1, <2>5 DEF OncePerOccasion
<1> QED BY <1>2, <1>4, <1>5, <1>6, <1>7 DEF DigestNext

-----------------------------------------------------------------------------
(* The risks.                                                               *)

\* A map of announcements knows that risk k was announced at t, or that is long ago.
Announced(map, k, t, at) ==
    \/ k \in DOMAIN map /\ map[k] >= t
    \/ at - t >= RealertAfter

\* The time a check works with.
RiskTime == IF assessor = NoAssessment THEN now ELSE assessor.at

\* What was announced is stored, or about to be; and a check that is under way knows it.
RiskKnown(x) ==
    /\ \/ Announced(riskState.fired, x.key.of, x.at, RiskTime)
       \/ assessor # NoAssessment /\ assessor.pc # "post" /\ x.key.of \in assessor.fresh
    /\ assessor # NoAssessment => Announced(assessor.fired, x.key.of, x.at, assessor.at)

Moments(map, at) == \A k \in DOMAIN map : map[k] \in Nat /\ map[k] <= at

RiskInv ==
    /\ now \in Nat /\ critical \subseteq Risks
    /\ "fired" \in DOMAIN riskState /\ Moments(riskState.fired, RiskTime)
    /\ assessor # NoAssessment =>
         /\ {"pc", "fired", "fresh", "at"} \subseteq DOMAIN assessor
         /\ assessor.pc \in {"post", "feed", "save"} /\ assessor.at \in Nat /\ assessor.at <= now
         /\ assessor.fresh \subseteq Risks /\ Moments(assessor.fired, assessor.at)
         /\ assessor.pc = "post" =>
              /\ assessor.fired = riskState.fired
              /\ \A k \in assessor.fresh :
                    k \in DOMAIN riskState.fired =>
                      assessor.at - riskState.fired[k] >= RealertAfter
    /\ \A x \in sent : x.key.kind = "risk" =>
         /\ x.key = RiskKey(x.key.of) /\ x.at \in Nat /\ x.at <= RiskTime
         /\ x.key \notin forgotten => RiskKnown(x)

LEMMA RiskTimeGoesOn ==
  ASSUME RiskInv, now <= now', now' \in Nat,
         assessor' = NoAssessment \/ assessor'.at = RiskTime
  PROVE  RiskTime \in Nat /\ RiskTime <= now /\ RiskTime' \in Nat /\ RiskTime <= RiskTime'
BY DEF RiskInv, RiskTime

LEMMA LongerAgo ==
  ASSUME NEW map, NEW k, NEW t \in Nat, NEW at \in Nat, NEW later \in Nat, at <= later,
         Announced(map, k, t, at)
  PROVE  Announced(map, k, t, later)
BY RiskAssumption DEF Announced

LEMMA RiskStays ==
  ASSUME RiskInv, OnceADay, UNCHANGED <<riskState, assessor>>, critical' \subseteq Risks,
         now <= now', now' \in Nat, sent \subseteq sent', forgotten \subseteq forgotten',
         \A x \in sent' : x.key.kind = "risk" => x \in sent
  PROVE  RiskInv' /\ OnceADay'
<1>1. OnceADay'
  BY DEF OnceADay
<1>2. RiskTime \in Nat /\ RiskTime' \in Nat /\ RiskTime <= RiskTime'
  BY RiskTimeGoesOn DEF RiskTime
<1>3. ASSUME assessor' # NoAssessment PROVE assessor'.at <= now' /\ RiskTime' = RiskTime
  <2>1. assessor.at \in Nat /\ assessor.at <= now /\ now \in Nat
    BY <1>3 DEF RiskInv
  <2> QED BY <1>3, <2>1 DEF RiskTime
<1>4. Moments(riskState.fired, RiskTime)'
  <2>1. \A k \in DOMAIN riskState.fired : riskState.fired[k] \in Nat /\ riskState.fired[k] <= RiskTime
    BY DEF RiskInv, Moments
  <2>2. \A k \in DOMAIN riskState.fired : riskState.fired[k] \in Nat /\ riskState.fired[k] <= RiskTime'
    BY <1>2, <2>1
  <2> QED BY <2>2 DEF Moments
<1>5. ASSUME NEW x \in sent, x.key.kind = "risk"
      PROVE  (x.at <= RiskTime)' /\ (x.key \notin forgotten' => RiskKnown(x)')
  <2>1. x.at \in Nat /\ x.at <= RiskTime /\ (x.key \notin forgotten' => RiskKnown(x))
    BY <1>5 DEF RiskInv
  <2>2. Announced(riskState.fired, x.key.of, x.at, RiskTime) =>
          Announced(riskState'.fired, x.key.of, x.at, RiskTime')
    BY <1>2, <2>1, LongerAgo
  <2>3. x.key \notin forgotten' => RiskKnown(x)'
    BY <2>1, <2>2 DEF RiskKnown, Announced
  <2> QED BY <1>2, <2>1, <2>3
<1> QED BY <1>1, <1>3, <1>4, <1>5 DEF RiskInv, Moments

LEMMA PostRisksStep ==
  ASSUME Numbered, RiskInv, OnceADay, PostRisks
  PROVE  Numbered' /\ RiskInv' /\ OnceADay' /\ \A x \in sent' : x \in sent \/ x.key.kind = "risk"
<1>1. /\ assessor # NoAssessment /\ assessor.pc = "post" /\ now' = now
      /\ UNCHANGED <<critical, riskState, forgotten>>
  BY DEF PostRisks, NoAssessment, NoFault, Fault, Answering, clockVars
<1>2. PICK at, fresh : at = assessor.at /\ fresh = assessor.fresh /\ at \in Nat
  BY <1>1 DEF RiskInv
<1>3. /\ now \in Nat /\ at <= now /\ fresh \subseteq Risks /\ Moments(riskState.fired, at)
      /\ {"pc", "fired", "fresh", "at"} \subseteq DOMAIN assessor
      /\ assessor.fired = riskState.fired
      /\ \A k \in fresh :
            k \in DOMAIN riskState.fired => at - riskState.fired[k] >= RealertAfter
      /\ RiskTime = at /\ "fired" \in DOMAIN riskState /\ critical \subseteq Risks
  BY <1>1, <1>2 DEF RiskInv, RiskTime
<1>4. CASE UNCHANGED sent /\ fresh = {} /\ assessor' = [assessor EXCEPT !.pc = "save"]
  <2>1. /\ assessor' # NoAssessment /\ assessor'.pc = "save" /\ assessor'.at = at
        /\ assessor'.fired = assessor.fired /\ assessor'.fresh = fresh
        /\ {"pc", "fired", "fresh", "at"} \subseteq DOMAIN assessor'
    BY <1>1, <1>2, <1>3, <1>4 DEF NoAssessment
  <2>2. RiskTime' = at
    BY <2>1 DEF RiskTime
  <2>3. ASSUME NEW x \in sent, x.key.kind = "risk", x.key \notin forgotten PROVE RiskKnown(x)'
    BY <1>1, <1>2, <1>3, <2>1, <2>2, <2>3 DEF RiskInv, RiskKnown
  <2>4. RiskInv'
    BY <1>1, <1>2, <1>3, <1>4, <2>1, <2>2, <2>3 DEF RiskInv
  <2> QED BY <1>1, <1>4, <2>4 DEF Numbered, NextNo, OnceADay
<1>5. CASE fresh # {}
  <2>1. PICK post :
          /\ post.delivered \subseteq DOMAIN AlertChannels
          /\ post.err \/ post.nowhere => post.delivered = {}
          /\ sent' = sent \cup UNION {Told(RiskKey(k), at, post) : k \in fresh}
          /\ assessor' = IF post.err THEN [assessor EXCEPT !.pc = "save", !.fresh = {}]
                         ELSE [assessor EXCEPT !.pc = "feed", !.fired = Marked(@, fresh, at)]
    BY <1>1, <1>2, <1>5, PostIs DEF PostRisks
  <2>2. PICK each : each = [k \in fresh |-> Copies(RiskKey(k), at, post.delivered)]
    OBVIOUS
  <2>3. ASSUME NEW k \in fresh
        PROVE  /\ Told(RiskKey(k), at, post) = sent \cup each[k] /\ IsFiniteSet(each[k])
               /\ \A m \in each[k] : m.key = RiskKey(k) /\ m.at = at /\ m.no = NextNo(m.to)
               /\ post.delivered = {} => each[k] = {}
    BY <2>1, <2>2, ToldIs
  <2>4. PICK new : new = UNION {each[k] : k \in fresh}
    OBVIOUS
  <2>5. ASSUME NEW m \in new
        PROVE  \E k \in fresh : m.key = RiskKey(k) /\ m.at = at /\ m.no = NextNo(m.to)
    BY <2>3, <2>4
  <2>6. sent' = sent \cup new
    <3>1. PICK all : all = {Told(RiskKey(k), at, post) : k \in fresh}
      OBVIOUS
    <3>2. sent' = sent \cup UNION all
      BY <2>1, <3>1, Zenon
    <3>3. all = {sent \cup each[k] : k \in fresh}
      BY <2>3, <3>1
    <3>4. ASSUME NEW m \in UNION all PROVE m \in sent \cup new
      BY <2>4, <3>3
    <3>5. ASSUME NEW m \in new PROVE m \in UNION all
      BY <2>4, <3>3
    <3>6. PICK u : u = UNION all
      OBVIOUS
    <3>7. sent' = sent \cup u
      BY <3>2, <3>6, Zenon
    <3>8. \A m \in u : m \in sent \cup new
      BY <3>4, <3>6, Zenon
    <3>9. \A m \in new : m \in u
      BY <3>5, <3>6, Zenon
    <3> QED BY <3>7, <3>8, <3>9
  <2>7. IsFiniteSet(new)
    <3>1. IsFiniteSet(fresh)
      BY <1>3, RiskAssumption, FS_Subset
    <3>2. PICK all : all = {each[k] : k \in fresh}
      OBVIOUS
    <3>3. each \in Surjection(fresh, all)
      BY <2>2, <3>2 DEF Surjection
    <3>4. IsFiniteSet(all) /\ \A T \in all : IsFiniteSet(T)
      BY <2>3, <3>1, <3>2, <3>3, FS_Surjection
    <3> QED BY <2>4, <3>2, <3>4, FS_UNION
  <2>8. Telling(new)
    BY <2>5, <2>6, <2>7 DEF Telling
  <2>9. /\ Numbered'
        /\ \A x, y \in sent' : x.no < y.no /\ x.to = y.to => x \in sent /\ (y \in sent \/ y \in new)
    BY <2>8, TellsInOrder
  <2>10. ASSUME NEW x \in sent, x.key.kind = "risk"
         PROVE  /\ x.key = RiskKey(x.key.of) /\ x.at \in Nat /\ x.at <= at
                /\ x.key \notin forgotten => Announced(riskState.fired, x.key.of, x.at, at)
    BY <1>1, <1>3, <2>10 DEF RiskInv, RiskKnown
  <2>11. OnceADay'
    <3>1. ASSUME NEW x \in sent', NEW y \in sent', x.no < y.no, x.key.kind = "risk",
                 x.key = y.key, x.to = y.to, x.key \notin forgotten
          PROVE  y.at - x.at >= RealertAfter
      <4>1. x \in sent /\ (y \in sent \/ y \in new)
        BY <2>9, <3>1
      <4>2. CASE y \in sent
        BY <3>1, <4>1, <4>2 DEF OnceADay
      <4>3. CASE y \in new
        <5>1. PICK k \in fresh : y.key = RiskKey(k) /\ y.at = at
          BY <2>5, <4>3
        <5>2. x.key.of = k
          BY <3>1, <5>1 DEF RiskKey
        <5>3. /\ x.at \in Nat /\ x.at <= at
              /\ Announced(riskState.fired, k, x.at, at)
          BY <2>10, <3>1, <4>1, <5>2
        <5>4. k \in DOMAIN riskState.fired =>
                riskState.fired[k] \in Nat /\ at - riskState.fired[k] >= RealertAfter
          BY <1>3 DEF Moments
        <5>5. k \in DOMAIN riskState.fired /\ riskState.fired[k] >= x.at => at - x.at >= RealertAfter
          BY <1>2, <5>3, <5>4, RiskAssumption
        <5> QED BY <5>1, <5>3, <5>5 DEF Announced
      <4> QED BY <4>1, <4>2, <4>3
    <3> QED BY <1>1, <3>1 DEF OnceADay
  <2>12. /\ assessor' # NoAssessment /\ assessor'.pc \in {"feed", "save"} /\ assessor'.at = at
         /\ {"pc", "fired", "fresh", "at"} \subseteq DOMAIN assessor'
         /\ \/ post.err /\ assessor'.fired = assessor.fired /\ assessor'.fresh = {}
            \/ /\ ~post.err /\ assessor'.fired = Marked(assessor.fired, fresh, at)
               /\ assessor'.fresh = fresh
    <3>1. CASE post.err
      BY <1>2, <1>3, <2>1, <3>1 DEF NoAssessment
    <3>2. CASE ~post.err
      BY <1>2, <1>3, <2>1, <3>2 DEF NoAssessment
    <3> QED BY <3>1, <3>2
  <2>13. PICK map : map = Marked(riskState.fired, fresh, at)
    OBVIOUS
  <2>14. /\ DOMAIN map = fresh \cup DOMAIN riskState.fired
         /\ \A k \in DOMAIN map : map[k] = IF k \in fresh THEN at ELSE riskState.fired[k]
    BY <2>13 DEF Marked
  <2>15. Moments(map, at)
    BY <1>2, <1>3, <2>14 DEF Moments
  <2>16. Moments(assessor'.fired, at)
    BY <1>3, <2>12, <2>13, <2>15
  <2>17. RiskTime' = at
    BY <2>12 DEF RiskTime
  <2>18. ASSUME NEW x \in sent', x.key.kind = "risk"
         PROVE  /\ x.key = RiskKey(x.key.of) /\ x.at \in Nat /\ x.at <= at
                /\ x.key \notin forgotten => RiskKnown(x)'
    <3>1. CASE x \in sent
      <4>1. ASSUME x.key \notin forgotten PROVE Announced(assessor'.fired, x.key.of, x.at, at)
        <5>1. Announced(riskState.fired, x.key.of, x.at, at)
          BY <2>10, <2>18, <3>1, <4>1
        <5>2. Announced(map, x.key.of, x.at, at)
          BY <2>10, <2>14, <2>18, <3>1, <5>1 DEF Announced
        <5> QED BY <1>3, <2>12, <2>13, <5>1, <5>2
      <4>2. x.key \notin forgotten => RiskKnown(x)'
        BY <1>1, <2>10, <2>12, <2>17, <2>18, <3>1, <4>1 DEF RiskKnown
      <4> QED BY <2>10, <2>18, <3>1, <4>2
    <3>2. CASE x \in new
      <4>1. PICK k \in fresh : x.key = RiskKey(k) /\ x.at = at
        BY <2>5, <3>2
      <4>2. x.key.of = k
        BY <4>1 DEF RiskKey
      <4>3. ~post.err
        BY <2>1, <2>3, <2>4, <3>2
      <4>4. Announced(map, k, at, at)
        BY <1>2, <2>14, <4>1 DEF Announced
      <4> QED BY <1>2, <1>3, <2>12, <2>13, <2>17, <4>1, <4>2, <4>3, <4>4 DEF RiskKnown
    <3> QED BY <2>6, <3>1, <3>2
  <2>19. RiskInv'
    BY <1>1, <1>2, <1>3, <2>12, <2>16, <2>17, <2>18 DEF RiskInv
  <2>20. \A x \in sent' : x \in sent \/ x.key.kind = "risk"
    <3>1. \A k : RiskKey(k).kind = "risk"
      BY DEF RiskKey
    <3> QED BY <2>5, <2>6, <3>1
  <2> QED BY <2>9, <2>11, <2>19, <2>20
<1> QED BY <1>1, <1>2, <1>4, <1>5 DEF PostRisks

LEMMA RiskStep ==
  ASSUME Numbered, RiskInv, OnceADay, RiskNext
  PROVE  Numbered' /\ RiskInv' /\ OnceADay'
<1>0. now' = now /\ now \in Nat
  BY DEF RiskNext, ForgetOpen, AssessBegins, PostRisks, FeedRisks, SaveRisks, AssessLost,
         RiskChanges, Answering, NoFault, Fault, Change, clockVars, RiskInv
<1>1. CASE PostRisks
  BY <1>1, PostRisksStep
<1>2. ASSUME UNCHANGED sent, RiskInv', forgotten \subseteq forgotten'
      PROVE Numbered' /\ RiskInv' /\ OnceADay'
  BY <1>2 DEF Numbered, NextNo, OnceADay
<1>3. CASE RiskChanges
  <2>1. UNCHANGED <<riskState, assessor, sent, forgotten>> /\ critical' \subseteq Risks
    <3>1. critical \subseteq Risks
      BY DEF RiskInv
    <3>2. critical' = critical \/ \E k \in Risks : critical' \in {critical \ {k}, critical \cup {k}}
      BY <1>3 DEF RiskChanges
    <3> QED BY <1>3, <3>1, <3>2 DEF RiskChanges, feedVars
  <2>2. RiskInv'
    BY <1>0, <2>1, RiskStays
  <2> QED BY <1>2, <2>1, <2>2
<1>4. CASE ForgetOpen
  <2>1. /\ UNCHANGED <<assessor, critical, sent, forgotten>> /\ assessor = NoAssessment
        /\ riskState'.fired = riskState.fired /\ "fired" \in DOMAIN riskState'
    BY <1>4 DEF ForgetOpen, feedVars, RiskInv
  <2>2. RiskInv'
    BY <1>0, <2>1 DEF RiskInv, RiskTime, RiskKnown, Moments
  <2> QED BY <1>2, <2>1, <2>2
<1>5. CASE AssessBegins
  <2>1. PICK seen, blind, open :
          /\ seen \subseteq critical
          /\ assessor' = [pc |-> "post", at |-> now, seen |-> seen, blind |-> blind, open |-> open,
                          fired |-> riskState.fired,
                          fresh |-> announceable(seen, riskState.fired, now)]
    <3>1. PICK blind : LET last == riskState.open
                           seen == {k \in critical : RiskNamespace[k] \notin blind}
                           unseen == {k \in DOMAIN last : RiskNamespace[k] \in blind}
           IN assessor' =
                [pc |-> "post", at |-> now, seen |-> seen, blind |-> blind,
                 open |-> [k \in seen \cup unseen |-> IF k \in DOMAIN last THEN last[k] ELSE now],
                 fired |-> riskState.fired,
                 fresh |-> announceable(seen, riskState.fired, now)]
      BY <1>5 DEF AssessBegins
    <3> QED BY <3>1
  <2>2. PICK fresh : /\ fresh = announceable(seen, riskState.fired, now) /\ fresh \subseteq critical
                     /\ \A k \in fresh :
                          k \in DOMAIN riskState.fired => now - riskState.fired[k] >= RealertAfter
    BY <2>1 DEF announceable
  <2>3. /\ UNCHANGED <<critical, riskState, sent, forgotten>> /\ assessor = NoAssessment
    BY <1>5 DEF AssessBegins, feedVars
  <2>4. /\ assessor' # NoAssessment /\ assessor'.pc = "post" /\ assessor'.at = now
        /\ assessor'.fired = riskState.fired /\ assessor'.fresh = fresh
        /\ {"pc", "fired", "fresh", "at"} \subseteq DOMAIN assessor'
    BY <2>1, <2>2 DEF NoAssessment
  <2>5. RiskTime = now /\ RiskTime' = now
    BY <2>3, <2>4 DEF RiskTime
  <2>6. RiskInv'
    BY <1>0, <2>2, <2>3, <2>4, <2>5 DEF RiskInv, RiskKnown
  <2> QED BY <1>2, <2>3, <2>6
<1>6. CASE FeedRisks
  <2>1. /\ UNCHANGED <<critical, riskState, sent, forgotten>> /\ assessor # NoAssessment
        /\ assessor.pc = "feed" /\ assessor' = [assessor EXCEPT !.pc = "save"]
    BY <1>6 DEF FeedRisks, NoAssessment
  <2>2. /\ assessor' # NoAssessment /\ assessor'.pc = "save" /\ assessor'.at = assessor.at
        /\ assessor'.fired = assessor.fired /\ assessor'.fresh = assessor.fresh
        /\ {"pc", "fired", "fresh", "at"} \subseteq DOMAIN assessor'
    BY <2>1 DEF RiskInv, NoAssessment
  <2>3. RiskTime' = RiskTime
    BY <2>1, <2>2 DEF RiskTime
  <2>4. RiskInv'
    BY <1>0, <2>1, <2>2, <2>3 DEF RiskInv, RiskKnown
  <2> QED BY <1>2, <2>1, <2>4
<1>7. CASE SaveRisks
  <2>1. PICK kept : /\ kept = {k \in DOMAIN assessor.fired :
                                  k \in DOMAIN assessor.open \/ assessor.at - assessor.fired[k] <= FiredKept}
                    /\ riskState' = [open |-> assessor.open, fired |-> [k \in kept |-> assessor.fired[k]]]
    BY <1>7 DEF SaveRisks
  <2>2. /\ UNCHANGED <<critical, sent, forgotten>> /\ assessor # NoAssessment /\ assessor' = NoAssessment
    BY <1>7 DEF SaveRisks, NoAssessment, feedVars
  <2>3. /\ DOMAIN riskState'.fired = kept /\ "fired" \in DOMAIN riskState'
        /\ \A k \in kept : riskState'.fired[k] = assessor.fired[k]
    BY <2>1
  <2>4. /\ assessor.at \in Nat /\ assessor.at <= now /\ Moments(assessor.fired, assessor.at)
        /\ RiskTime = assessor.at /\ RiskTime' = now
    BY <1>0, <2>2 DEF RiskInv, RiskTime
  <2>5. Moments(riskState.fired, RiskTime)'
    BY <1>0, <2>1, <2>3, <2>4 DEF Moments
  <2>6. ASSUME NEW x \in sent, x.key.kind = "risk", x.key \notin forgotten PROVE RiskKnown(x)'
    <3>1. x.at \in Nat /\ Announced(assessor.fired, x.key.of, x.at, assessor.at)
      BY <2>2, <2>6 DEF RiskInv, RiskKnown
    <3>2. PICK k, f : k = x.key.of /\ f = assessor.fired
      OBVIOUS
    <3>3. k \in DOMAIN f => f[k] \in Nat /\ f[k] <= assessor.at
      BY <2>4, <3>2 DEF Moments
    <3>4. CASE k \in DOMAIN f /\ f[k] >= x.at /\ k \notin kept
      <4>1. assessor.at - f[k] > FiredKept
        BY <2>1, <2>4, <3>2, <3>3, <3>4, RiskAssumption
      <4>2. now - x.at >= RealertAfter
        BY <1>0, <2>4, <3>1, <3>3, <3>4, <4>1, RiskAssumption
      <4> QED BY <2>2, <2>4, <4>2 DEF RiskKnown, Announced
    <3>5. CASE k \in kept /\ f[k] >= x.at
      BY <2>2, <2>3, <3>2, <3>5 DEF RiskKnown, Announced
    <3>6. CASE assessor.at - x.at >= RealertAfter
      <4>1. now - x.at >= RealertAfter
        BY <1>0, <2>4, <3>1, <3>6, RiskAssumption
      <4> QED BY <2>2, <2>4, <4>1 DEF RiskKnown, Announced
    <3> QED BY <3>1, <3>2, <3>4, <3>5, <3>6 DEF Announced
  <2>7. ASSUME NEW x \in sent, x.key.kind = "risk" PROVE x.at <= now /\ x.at \in Nat
    BY <1>0, <2>4, <2>7 DEF RiskInv
  <2>8. RiskInv'
    BY <1>0, <2>2, <2>3, <2>4, <2>5, <2>6, <2>7 DEF RiskInv
  <2> QED BY <1>2, <2>2, <2>8
<1>8. CASE AssessLost
  <2>1. /\ UNCHANGED <<critical, riskState, sent>> /\ assessor # NoAssessment /\ assessor' = NoAssessment
        /\ forgotten \subseteq forgotten'
        /\ assessor.pc # "post" => \A k \in assessor.fresh : RiskKey(k) \in forgotten'
    BY <1>8 DEF AssessLost, NoAssessment, RiskInv
  <2>2. /\ assessor.at \in Nat /\ assessor.at <= now /\ RiskTime = assessor.at /\ RiskTime' = now
    BY <1>0, <2>1 DEF RiskInv, RiskTime
  <2>3. Moments(riskState.fired, RiskTime)'
    BY <1>0, <2>1, <2>2 DEF RiskInv, Moments
  <2>4. ASSUME NEW x \in sent, x.key.kind = "risk", x.key \notin forgotten' PROVE RiskKnown(x)'
    <3>1. x.at \in Nat /\ x.key = RiskKey(x.key.of) /\ RiskKnown(x)
      BY <2>1, <2>4 DEF RiskInv
    <3>2. Announced(riskState.fired, x.key.of, x.at, assessor.at)
      BY <2>1, <2>2, <2>4, <3>1 DEF RiskKnown
    <3>3. Announced(riskState'.fired, x.key.of, x.at, now)
      BY <1>0, <2>1, <2>2, <3>1, <3>2, LongerAgo
    <3> QED BY <2>1, <2>2, <3>3 DEF RiskKnown
  <2>5. ASSUME NEW x \in sent, x.key.kind = "risk" PROVE x.at <= now /\ x.at \in Nat
    BY <1>0, <2>2, <2>5 DEF RiskInv
  <2>6. RiskInv'
    BY <1>0, <2>1, <2>2, <2>3, <2>4, <2>5 DEF RiskInv
  <2> QED BY <1>2, <2>1, <2>6
<1> QED BY <1>1, <1>3, <1>4, <1>5, <1>6, <1>7, <1>8 DEF RiskNext

-----------------------------------------------------------------------------
(* The budgets and the days that cost more than usual.                      *)

AlertKeys == [kind : {"budget", "forecast", "anomaly"}, of : {b.name : b \in Budgets} \cup Namespaces,
              period : Int, threshold : Int]

\* The period a check speaks of.
Current(kind, at) == IF kind = "anomaly" THEN DateOf(at) - 1 ELSE Month(at)

SameCase(k, l) == k.kind = l.kind /\ k.of = l.of /\ k.period = l.period

\* The thresholds a key's budget has, and the keys one of them makes redundant.
Limits(k) ==
    IF k.kind = "budget" THEN UNION {Thresholds(b) : b \in {c \in Budgets : c.name = k.of}} ELSE {0}
Taken(k) == {[k EXCEPT !.threshold = t] : t \in {u \in Limits(k) : u <= k.threshold}}

\* An alert a check at time at may post.
Due(p, at) ==
    /\ p.key \in AlertKeys /\ p.key.period = Current(p.key.kind, at) /\ p.key.threshold \in Limits(p.key)
    /\ Taken(p.key) \subseteq {p.key} \cup p.also
    /\ \A l \in p.also : l \in AlertKeys /\ l.period = Current(l.kind, at)

\* Any set of thresholds has a highest one.
LEMMA HighestIs ==
  ASSUME NEW S, S \subseteq 1..1000, S # {}
  PROVE  \E m \in S : \A u \in S : u <= m
<1> DEFINE D == {n \in Nat : 1000 - n \in S}
<1>1. PICK n \in D : \A k \in D : n <= k
  <2>1. D \subseteq Nat /\ D # {}
    <3>1. PICK u : u \in S
      OBVIOUS
    <3>2. u \in 1..1000
      BY <3>1
    <3>3. 1000 - u \in Nat /\ 1000 - (1000 - u) = u
      BY <3>2
    <3>4. 1000 - u \in D
      BY <3>1, <3>3
    <3> QED BY <3>4
  <2> HIDE DEF D
  <2>2. D \in SUBSET Nat
    BY <2>1
  <2>3. \E n \in D : \A k \in D : n <= k
    BY <2>1, <2>2, LeastNumber
  <2> QED BY <2>3
<1>2. ASSUME NEW u \in S PROVE u <= 1000 - n
  <2>1. u \in 1..1000 /\ n \in Nat
    BY <1>1, <1>2
  <2>2. 1000 - u \in D
    BY <1>2, <2>1
  <2>3. n <= 1000 - u
    <3> HIDE DEF D
    <3> QED BY <1>1, <2>2
  <2> QED BY <2>1, <2>3
<1>3. 1000 - n \in S
  BY <1>1
<1> QED BY <1>2, <1>3

LEMMA ThresholdsAre ==
  ASSUME NEW b \in Budgets
  PROVE  Thresholds(b) \subseteq 1..1000
BY BudgetAssumption DEF Thresholds

LEMMA LimitsAre ==
  ASSUME NEW b \in Budgets, NEW k, k.kind = "budget", k.of = b.name
  PROVE  Limits(k) = Thresholds(b)
<1>1. {c \in Budgets : c.name = k.of} = {b}
  BY BudgetAssumption
<1> QED BY <1>1 DEF Limits

LEMMA MonthIs ==
  ASSUME NEW t \in Nat
  PROVE  Month(t) \in Nat /\ DateOf(t) \in Nat
BY LedgerAssumption, BudgetAssumption DEF Month, MonthOf, DateOf

\* The alerts of a budget.
Reached(b, l, s) == {t \in Thresholds(b) : Spent(b, l, s.at) * 100 >= b.limit * t}
Highest(b, l, s) == CHOOSE t \in Reached(b, l, s) : \A u \in Reached(b, l, s) : u <= t
Over(b, m, h) == [key |-> Key("budget", b.name, m, h),
                  also |-> {Key("budget", b.name, m, t) : t \in {u \in Thresholds(b) : u < h}}]
Soon(b, m) == [key |-> Key("forecast", b.name, m, 0), also |-> {}]

LEMMA BudgetAlertIs ==
  ASSUME NEW l, NEW s, NEW p \in budgetAlerts(l, s)
  PROVE  \E b \in Budgets :
            \/ p = Over(b, Month(s.at), Highest(b, l, s)) /\ Highest(b, l, s) \in Thresholds(b)
            \/ p = Soon(b, Month(s.at))
<1>1. PICK over : over = {Over(b, Month(s.at), Highest(b, l, s))
                            : b \in {c \in Budgets : c.limit > 0 /\ Reached(c, l, s) # {}}}
  OBVIOUS
<1>2. PICK soon : soon = {Soon(b, Month(s.at))
                            : b \in {c \in Budgets : /\ c.limit > 0 /\ c.forecast
                                                     /\ Spent(c, l, s.at) < c.limit
                                                     /\ Forecast(c, l, s) > c.limit}}
  OBVIOUS
<1>3. budgetAlerts(l, s) = over \cup soon
  BY <1>1, <1>2, Zenon DEF budgetAlerts, Reached, Highest, Over, Soon
<1>4. ASSUME NEW b \in Budgets, Reached(b, l, s) # {} PROVE Highest(b, l, s) \in Thresholds(b)
  <2>1. PICK R : R = Reached(b, l, s)
    OBVIOUS
  <2>2. R \subseteq Thresholds(b) /\ R # {}
    BY <1>4, <2>1 DEF Reached
  <2>3. R \subseteq 1..1000
    BY <2>2, ThresholdsAre
  <2>4. \E t \in R : \A u \in R : u <= t
    BY <2>2, <2>3, HighestIs
  <2>5. (CHOOSE t \in R : \A u \in R : u <= t) \in R
    BY <2>4
  <2> QED BY <2>1, <2>2, <2>5 DEF Highest
<1>5. CASE p \in over
  BY <1>1, <1>4, <1>5
<1>6. CASE p \in soon
  BY <1>2, <1>6
<1> QED BY <1>3, <1>5, <1>6

LEMMA OverIs ==
  ASSUME NEW b \in Budgets, NEW at \in Nat, NEW h \in Thresholds(b), NEW p, p = Over(b, Month(at), h)
  PROVE  Due(p, at) /\ p.key.kind = "budget" /\ p.key.of = b.name
<1>1. PICK m \in Nat : m = Month(at)
  BY MonthIs
<1>2. Thresholds(b) \subseteq 1..1000
  BY ThresholdsAre
<1>3. /\ p.key = [kind |-> "budget", of |-> b.name, period |-> m, threshold |-> h]
      /\ p.also = {[kind |-> "budget", of |-> b.name, period |-> m, threshold |-> t]
                     : t \in {u \in Thresholds(b) : u < h}}
  BY <1>1 DEF Over, Key
<1>4. Limits(p.key) = Thresholds(b)
  BY <1>3, LimitsAre
<1>5. ASSUME NEW k \in Taken(p.key) PROVE k \in {p.key} \cup p.also
  <2>1. PICK t \in Thresholds(b) : t <= h /\ k = [p.key EXCEPT !.threshold = t]
    BY <1>3, <1>4 DEF Taken
  <2>2. k = [kind |-> "budget", of |-> b.name, period |-> m, threshold |-> t]
    BY <1>3, <2>1
  <2>3. t = h \/ t < h
    <3>1. t \in 1..1000 /\ h \in 1..1000 /\ t <= h
      BY <1>2, <2>1
    <3> QED BY <3>1
  <2> QED BY <1>3, <2>2, <2>3
<1>6. p.key \in AlertKeys /\ p.key.period = Current(p.key.kind, at)
  BY <1>1, <1>2, <1>3 DEF AlertKeys, Current
<1>7. ASSUME NEW k \in p.also PROVE k \in AlertKeys /\ k.period = Current(k.kind, at)
  <2>1. PICK t \in Thresholds(b) : k = [kind |-> "budget", of |-> b.name, period |-> m, threshold |-> t]
    BY <1>3
  <2> QED BY <1>1, <1>2, <2>1 DEF AlertKeys, Current
<1>8. p.key.threshold \in Limits(p.key)
  BY <1>3, <1>4
<1> QED BY <1>3, <1>5, <1>6, <1>7, <1>8 DEF Due

LEMMA SoonIs ==
  ASSUME NEW b \in Budgets, NEW at \in Nat, NEW p, p = Soon(b, Month(at))
  PROVE  Due(p, at) /\ p.key.kind = "forecast" /\ p.key.of = b.name
<1>1. PICK m \in Nat : m = Month(at)
  BY MonthIs
<1>2. p.key = [kind |-> "forecast", of |-> b.name, period |-> m, threshold |-> 0] /\ p.also = {}
  BY <1>1 DEF Soon, Key
<1>3. Limits(p.key) = {0}
  BY <1>2 DEF Limits
<1>4. Taken(p.key) \subseteq {p.key}
  BY <1>2, <1>3 DEF Taken
<1> QED BY <1>1, <1>2, <1>3, <1>4 DEF Due, AlertKeys, Current

LEMMA BudgetDue ==
  ASSUME NEW l, NEW s, s.at \in Nat, NEW p \in budgetAlerts(l, s)
  PROVE  /\ Due(p, s.at) /\ p.key.kind \in {"budget", "forecast"}
         /\ \A q \in budgetAlerts(l, s) : SameCase(p.key, q.key) => p = q
<1> DEFINE over(b) == Over(b, Month(s.at), Highest(b, l, s))
           soon(b) == Soon(b, Month(s.at))
<1>1. ASSUME NEW q \in budgetAlerts(l, s)
      PROVE  \E b \in Budgets :
               /\ Due(q, s.at) /\ q.key.of = b.name
               /\ \/ q = over(b) /\ q.key.kind = "budget"
                  \/ q = soon(b) /\ q.key.kind = "forecast"
  <2>1. PICK b \in Budgets :
           \/ q = over(b) /\ Highest(b, l, s) \in Thresholds(b)
           \/ q = soon(b)
    BY BudgetAlertIs
  <2> QED BY <2>1, OverIs, SoonIs
<1> HIDE DEF over, soon
<1>2. ASSUME NEW q \in budgetAlerts(l, s), SameCase(p.key, q.key) PROVE p = q
  <2>1. PICK b \in Budgets : /\ p.key.of = b.name
                             /\ \/ p = over(b) /\ p.key.kind = "budget"
                                \/ p = soon(b) /\ p.key.kind = "forecast"
    BY <1>1
  <2>2. PICK c \in Budgets : /\ q.key.of = c.name
                             /\ \/ q = over(c) /\ q.key.kind = "budget"
                                \/ q = soon(c) /\ q.key.kind = "forecast"
    BY <1>1
  <2>3. b = c
    <3>1. b.name = c.name
      BY <1>2, <2>1, <2>2 DEF SameCase
    <3> QED BY <3>1, BudgetAssumption
  <2> QED BY <1>2, <2>1, <2>2, <2>3 DEF SameCase
<1> QED BY <1>1, <1>2

LEMMA AnomalyDue ==
  ASSUME NEW l, NEW s, s.at \in Nat, NEW p \in anomalyAlerts(l, s)
  PROVE  /\ Due(p, s.at) /\ p.key.kind = "anomaly"
         /\ \A q \in anomalyAlerts(l, s) : SameCase(p.key, q.key) => p = q
<1>1. PICK d, days : d \in Nat /\ d = DateOf(s.at) /\ days = Complete(l, s)
  BY MonthIs
<1>2. Jumped(days) \subseteq Namespaces
  BY Zenon DEF Jumped
<1>3. ASSUME NEW q \in anomalyAlerts(l, s)
      PROVE  \E n \in Namespaces : q = [key |-> Key("anomaly", n, d - 1, 0), also |-> {}]
  BY <1>1, <1>2, <1>3 DEF anomalyAlerts
<1>4. ASSUME NEW q \in anomalyAlerts(l, s)
      PROVE  /\ q.key = [kind |-> "anomaly", of |-> q.key.of, period |-> d - 1, threshold |-> 0]
             /\ q.also = {} /\ q.key.of \in Namespaces
             /\ q = [key |-> Key("anomaly", q.key.of, d - 1, 0), also |-> {}]
  <2>1. PICK n \in Namespaces : q = [key |-> Key("anomaly", n, d - 1, 0), also |-> {}]
    BY <1>3
  <2> QED BY <2>1 DEF Key
<1>5. Due(p, s.at)
  <2>1. /\ p.key = [kind |-> "anomaly", of |-> p.key.of, period |-> d - 1, threshold |-> 0]
        /\ p.also = {} /\ p.key.of \in Namespaces
    BY <1>4
  <2>2. Limits(p.key) = {0}
    BY <2>1 DEF Limits
  <2>3. Taken(p.key) \subseteq {p.key}
    BY <2>1, <2>2 DEF Taken
  <2>4. p.key \in AlertKeys /\ p.key.period = Current(p.key.kind, s.at)
    BY <1>1, <2>1 DEF AlertKeys, Current
  <2> QED BY <2>1, <2>2, <2>3, <2>4 DEF Due
<1>6. ASSUME NEW q \in anomalyAlerts(l, s), SameCase(p.key, q.key) PROVE p = q
  BY <1>4, <1>6 DEF SameCase
<1>7. p.key.kind = "anomaly"
  BY <1>3 DEF Key
<1> QED BY <1>5, <1>6, <1>7

\* What a check has to post: alerts of the moment, one of a kind.
DueOnce(pending, at) ==
    /\ \A p \in pending : Due(p, at)
    /\ \A p, q \in pending : SameCase(p.key, q.key) => p = q

LEMMA AlertsDue ==
  ASSUME NEW l, NEW s, s.at \in Nat
  PROVE  DueOnce(budgetAlerts(l, s) \cup anomalyAlerts(l, s), s.at)
<1>1. ASSUME NEW p \in budgetAlerts(l, s)
      PROVE  /\ Due(p, s.at) /\ p.key.kind # "anomaly"
             /\ \A q \in budgetAlerts(l, s) : SameCase(p.key, q.key) => p = q
  BY BudgetDue
<1>2. ASSUME NEW p \in anomalyAlerts(l, s)
      PROVE  /\ Due(p, s.at) /\ p.key.kind = "anomaly"
             /\ \A q \in anomalyAlerts(l, s) : SameCase(p.key, q.key) => p = q
  BY AnomalyDue
<1> QED BY <1>1, <1>2 DEF DueOnce, SameCase

\* Periods go on with the time, and within a month of days every period does.
LEMMA PeriodsGoOn ==
  ASSUME NEW t \in Nat, NEW u \in Nat, t <= u, NEW kind
  PROVE  /\ Current(kind, t) \in Int /\ Current(kind, u) \in Int
         /\ Current(kind, t) <= Current(kind, u)
         /\ u - t > MonthDays * DayTicks => Current(kind, t) < Current(kind, u)
<1>1. PICK D \in Nat \ {0}, M \in Nat \ {0} : D = DayTicks /\ M = MonthDays
  BY LedgerAssumption, BudgetAssumption
<1>2. ASSUME NEW n \in Nat \ {0}, NEW v \in Nat
      PROVE  /\ v \div n \in Nat /\ n * (v \div n) <= v /\ v < n * (v \div n) + n
  OBVIOUS
<1>3. ASSUME NEW n \in Nat \ {0}, NEW v \in Nat, NEW w \in Nat, v <= w
      PROVE  v \div n <= w \div n
  <2>1. PICK a \in Nat, b \in Nat : /\ a = v \div n /\ b = w \div n
                                    /\ n * a <= v /\ w < n * b + n
    BY <1>2
  <2>2. n * a < n * (b + 1)
    BY <1>3, <2>1
  <2>3. a < b + 1
    BY <2>1, <2>2
  <2> QED BY <2>1, <2>3
<1>4. ASSUME NEW n \in Nat \ {0}, NEW v \in Nat, NEW k \in Nat
      PROVE  (v + n * k) \div n = (v \div n) + k
  <2>1. PICK a \in Nat, b \in Nat : /\ a = v \div n /\ b = (v + n * k) \div n
                                    /\ n * a <= v /\ v < n * a + n
                                    /\ n * b <= v + n * k /\ v + n * k < n * b + n
    <3>1. v + n * k \in Nat
      OBVIOUS
    <3> QED BY <1>2, <3>1
  <2>2. n * (a + k) < n * (b + 1) /\ n * b < n * (a + k + 1)
    BY <2>1
  <2>3. a + k < b + 1 /\ b < a + k + 1
    BY <2>1, <2>2
  <2> QED BY <2>1, <2>3
<1>5. PICK d \in Nat, e \in Nat : d = DateOf(t) /\ e = DateOf(u) /\ d = t \div D /\ e = u \div D
  BY <1>1, MonthIs DEF DateOf
<1>6. d <= e
  BY <1>3, <1>5
<1>7. d \div M <= e \div M /\ d \div M \in Nat /\ e \div M \in Nat
  BY <1>2, <1>3, <1>6
<1>8. ASSUME u - t > M * D PROVE d + M <= e /\ (d \div M) + 1 <= e \div M
  <2>1. t + D * M \in Nat /\ t + D * M <= u
    BY <1>8
  <2>2. (t + D * M) \div D <= e
    BY <1>3, <1>5, <2>1
  <2>3. d + M <= e
    BY <1>4, <1>5, <2>2
  <2>4. (d + M * 1) \div M = (d \div M) + 1
    BY <1>4
  <2>5. d + M \in Nat /\ M * 1 = M
    OBVIOUS
  <2>6. (d + M) \div M <= e \div M
    BY <1>3, <2>3, <2>5
  <2> QED BY <2>3, <2>4, <2>5, <2>6
<1>9. Current(kind, t) = (IF kind = "anomaly" THEN d - 1 ELSE d \div M)
  BY <1>1, <1>5 DEF Current, Month, MonthOf
<1>10. Current(kind, u) = (IF kind = "anomaly" THEN e - 1 ELSE e \div M)
  BY <1>1, <1>5 DEF Current, Month, MonthOf
<1> QED BY <1>1, <1>6, <1>7, <1>8, <1>9, <1>10

\* The moment the next check, or the one under way, speaks of, and the alerts that
\* are then of no concern any more.
CheckTime == IF alerter = NoCheck THEN now ELSE alerter.at
Past(k, at) == k.period < Current(k.kind, at)

\* The keys of a map fired in the period they name.
Fired(map, at) ==
    \A k \in DOMAIN map : /\ k \in AlertKeys /\ map[k] \in Nat /\ map[k] <= at
                          /\ k.period = Current(k.kind, map[k])

Noted(k) == \E i \in DOMAIN alerter.fresh : alerter.fresh[i].key = k

\* What was sent is known by the stored keys or by the check under way, which knows
\* what is stored too.
BudgetKnown(x) ==
    /\ Past(x.key, CheckTime) \/ Taken(x.key) \subseteq DOMAIN fired \/ (alerter # NoCheck /\ Noted(x.key))
    /\ alerter # NoCheck => Past(x.key, alerter.at) \/ Taken(x.key) \subseteq DOMAIN alerter.fired

BudgetMessage(x) == x.key.kind \in {"budget", "forecast", "anomaly"}

CheckInv ==
    /\ {"pc", "at", "pending", "fired", "fresh"} \subseteq DOMAIN alerter /\ alerter.pc = "post"
    /\ alerter.at \in Nat /\ alerter.at <= now
    /\ DueOnce(alerter.pending, alerter.at)
    /\ \A p \in alerter.pending : p.key \notin DOMAIN fired
    /\ alerter.fresh \in Seq([key : AlertKeys, at : Nat])
    /\ \A i \in DOMAIN alerter.fresh : \A p \in alerter.pending : ~SameCase(alerter.fresh[i].key, p.key)
    /\ Fired(alerter.fired, alerter.at)

BudgetInv ==
    /\ now \in Nat
    /\ alerter # NoCheck => CheckInv
    /\ Fired(fired, CheckTime)
    /\ \A x \in sent : BudgetMessage(x) =>
         /\ x.key \in AlertKeys
         /\ x.key \notin forgotten => BudgetKnown(x)

\* What is past stays past.
LEMMA StaysPast ==
  ASSUME NEW k \in AlertKeys, NEW t \in Nat, NEW u \in Nat, t <= u, Past(k, t)
  PROVE  Past(k, u)
<1>1. PICK kind, period : kind = k.kind /\ period = k.period /\ period \in Int
  BY DEF AlertKeys
<1>2. /\ Current(kind, t) \in Int /\ Current(kind, u) \in Int
      /\ Current(kind, t) <= Current(kind, u)
  BY PeriodsGoOn
<1> QED BY <1>1, <1>2 DEF Past

LEMMA FiredLater ==
  ASSUME NEW map, NEW t \in Nat, NEW u \in Nat, t <= u, Fired(map, t)
  PROVE  Fired(map, u)
BY DEF Fired

LEMMA BudgetStays ==
  ASSUME BudgetInv, OncePerThreshold, UNCHANGED <<alerter, fired>>,
         now <= now', now' \in Nat, sent \subseteq sent', forgotten \subseteq forgotten',
         \A x \in sent' : BudgetMessage(x) => x \in sent
  PROVE  BudgetInv' /\ OncePerThreshold'
<1>1. OncePerThreshold'
  BY DEF OncePerThreshold, BudgetMessage
<1>2. ASSUME alerter' # NoCheck PROVE CheckInv'
  <2>1. CheckInv /\ alerter.at \in Nat /\ alerter.at <= now /\ now \in Nat
    BY <1>2 DEF BudgetInv, CheckInv
  <2>2. alerter.at <= now'
    BY <2>1
  <2> QED BY <2>1, <2>2 DEF CheckInv
<1>3. CheckTime \in Nat /\ CheckTime' \in Nat /\ CheckTime <= CheckTime'
  BY DEF BudgetInv, CheckInv, CheckTime
<1>4. Fired(fired, CheckTime)'
  <2>1. Fired(fired, CheckTime')
    BY <1>3, FiredLater DEF BudgetInv
  <2> QED BY <2>1
<1>5. ASSUME NEW x \in sent', BudgetMessage(x)
      PROVE  x.key \in AlertKeys /\ (x.key \notin forgotten' => BudgetKnown(x)')
  <2>1. x.key \in AlertKeys /\ (x.key \notin forgotten' => BudgetKnown(x))
    BY <1>5 DEF BudgetInv
  <2>2. Past(x.key, CheckTime) => Past(x.key, CheckTime')
    BY <1>3, <2>1, StaysPast
  <2>3. BudgetKnown(x) => BudgetKnown(x)'
    BY <2>2 DEF BudgetKnown, Noted, Past
  <2> QED BY <2>1, <2>3
<1> QED BY <1>1, <1>2, <1>4, <1>5 DEF BudgetInv, BudgetMessage

\* A key of the same case with a lower threshold of the budget is taken.
LEMMA LowerIsTaken ==
  ASSUME NEW k \in AlertKeys, NEW l \in AlertKeys, SameCase(k, l),
         l.threshold \in Limits(l), l.threshold <= k.threshold
  PROVE  l \in Taken(k)
<1>1. Limits(k) = Limits(l)
  BY DEF SameCase, Limits
<1>2. l = [k EXCEPT !.threshold = l.threshold]
  BY DEF SameCase, AlertKeys
<1> QED BY <1>1, <1>2 DEF Taken

\* What is posted is due and was not stored before, and so are the keys that go with it.
PostsDue ==
    /\ alerter # NoCheck /\ alerter'.at = alerter.at
    /\ \A x \in sent' : x \in sent \/ (x.key \notin DOMAIN fired /\ x.key.threshold \in Limits(x.key))
    /\ \A k \in DOMAIN alerter'.fired :
          k \in DOMAIN alerter.fired \/ k.period = Current(k.kind, alerter.at)

LEMMA PostAlertStep ==
  ASSUME Numbered, BudgetInv, OncePerThreshold, PostAlert
  PROVE  /\ Numbered' /\ BudgetInv' /\ OncePerThreshold' /\ PostsDue
         /\ \A x \in sent' : x \in sent \/ BudgetMessage(x)
<1>1. now' = now /\ UNCHANGED <<fired, forgotten>>
  BY DEF PostAlert, Answering, NoFault, Fault, clockVars
<1>2. alerter # NoCheck /\ CheckInv /\ alerter.pending # {}
  BY DEF PostAlert, NoCheck, BudgetInv
<1>a. PICK up : LET p == CHOOSE q \in alerter.pending : TRUE
                    post == Post(AlertChannels, "alerts", up)
                    done == [alerter EXCEPT !.pending = @ \ {p}]
                IN /\ sent' = Told(p.key, alerter.at, post)
                   /\ alerter' = IF post.err THEN done
                                 ELSE [done EXCEPT !.fired = Marked(@, {p.key} \cup p.also, alerter.at),
                                                   !.fresh = Append(@, [key |-> p.key, at |-> alerter.at])]
  BY DEF PostAlert
<1>b. PICK p : p = CHOOSE q \in alerter.pending : TRUE
  OBVIOUS
<1>c. PICK post : post = Post(AlertChannels, "alerts", up)
  OBVIOUS
<1>d. PICK done : done = [alerter EXCEPT !.pending = @ \ {p}]
  OBVIOUS
<1>3. /\ p \in alerter.pending
      /\ post.delivered \subseteq DOMAIN AlertChannels
      /\ post.err => post.delivered = {}
      /\ sent' = Told(p.key, alerter.at, post)
      /\ alerter' = IF post.err THEN done
                    ELSE [done EXCEPT !.fired = Marked(@, {p.key} \cup p.also, alerter.at),
                                      !.fresh = Append(@, [key |-> p.key, at |-> alerter.at])]
  BY <1>2, <1>a, <1>b, <1>c, <1>d, PostIs
<1>4. PICK at, key, new :
        /\ at \in Nat /\ key \in AlertKeys
        /\ at = alerter.at /\ key = p.key /\ new = Copies(key, at, post.delivered)
  BY <1>2, <1>3 DEF CheckInv, DueOnce, Due
<1>5. Telling(new) /\ (\A m \in new : m.key = key) /\ (new # {} => ~post.err)
  <2>1. /\ Told(key, at, post) = sent \cup new /\ IsFiniteSet(new)
        /\ \A m \in new : m.key = key /\ m.no = NextNo(m.to)
        /\ post.delivered = {} => new = {}
    BY <1>3, <1>4, ToldIs
  <2> QED BY <1>3, <1>4, <2>1 DEF Telling
<1>6. /\ Numbered'
      /\ \A x, y \in sent' : x.no < y.no /\ x.to = y.to => x \in sent /\ (y \in sent \/ y \in new)
  BY <1>5, TellsInOrder
<1>7. Due(p, at) /\ key \notin DOMAIN fired /\ BudgetMessage([key |-> key])
  BY <1>2, <1>3, <1>4 DEF CheckInv, DueOnce, AlertKeys, BudgetMessage
<1>8. ASSUME NEW x \in sent, x.key \notin forgotten, SameCase(x.key, key), key.threshold <= x.key.threshold
      PROVE  FALSE
  <2>1. BudgetMessage(x)
    BY <1>7, <1>8 DEF SameCase, BudgetMessage
  <2>2. x.key \in AlertKeys /\ BudgetKnown(x) /\ CheckTime = at
    BY <1>2, <1>4, <1>8, <2>1 DEF BudgetInv, CheckTime
  <2>3. ~Past(x.key, at)
    <3>1. x.key.period = Current(x.key.kind, at)
      BY <1>4, <1>7, <1>8 DEF Due, SameCase
    <3>2. PICK kind, period : kind = x.key.kind /\ period = x.key.period /\ period \in Int
      BY <2>2 DEF AlertKeys
    <3>3. ~(period < Current(kind, at))
      BY <3>1, <3>2
    <3> QED BY <3>2, <3>3 DEF Past
  <2>4. ~Noted(x.key)
    BY <1>2, <1>3, <1>4, <1>8 DEF CheckInv, Noted
  <2>5. key \in Taken(x.key)
    BY <1>4, <1>7, <1>8, <2>2, LowerIsTaken DEF Due
  <2> QED BY <1>7, <2>2, <2>3, <2>4, <2>5 DEF BudgetKnown
<1>9. OncePerThreshold'
  <2>1. ASSUME NEW x \in sent, NEW y \in new, x.key \notin forgotten,
               x.key.kind = y.key.kind, x.key.of = y.key.of, x.key.period = y.key.period,
               y.key.threshold <= x.key.threshold
        PROVE  FALSE
    BY <1>5, <1>8, <2>1 DEF SameCase
  <2>2. ASSUME NEW x \in sent', NEW y \in sent', x.no < y.no, BudgetMessage(x), x.to = y.to,
               x.key.kind = y.key.kind, x.key.of = y.key.of, x.key.period = y.key.period,
               y.key.threshold <= x.key.threshold, x.key \notin forgotten'
        PROVE  FALSE
    BY <1>1, <1>6, <2>1, <2>2 DEF OncePerThreshold, BudgetMessage
  <2> QED BY <2>2 DEF OncePerThreshold, BudgetMessage
<1>10. /\ alerter'.pending = alerter.pending \ {p} /\ alerter'.at = at /\ alerter'.pc = "post"
       /\ {"pc", "at", "pending", "fired", "fresh"} \subseteq DOMAIN alerter'
       /\ alerter' # NoCheck
       /\ IF post.err THEN alerter'.fired = alerter.fired /\ alerter'.fresh = alerter.fresh
          ELSE /\ alerter'.fired = Marked(alerter.fired, {key} \cup p.also, at)
               /\ alerter'.fresh = Append(alerter.fresh, [key |-> key, at |-> at])
  <2>1. CASE post.err
    BY <1>2, <1>3, <1>4, <1>d, <2>1 DEF CheckInv, NoCheck
  <2>2. CASE ~post.err
    BY <1>2, <1>3, <1>4, <1>d, <2>2 DEF CheckInv, NoCheck
  <2> QED BY <2>1, <2>2
<1>11. Fired(alerter'.fired, at) /\ DOMAIN alerter.fired \subseteq DOMAIN alerter'.fired
  <2>1. Fired(alerter.fired, at)
    BY <1>2, <1>4 DEF CheckInv
  <2>2. CASE post.err
    BY <1>10, <2>1, <2>2
  <2>3. CASE ~post.err
    <3>1. PICK keys, map : keys = {key} \cup p.also /\ map = alerter.fired
      OBVIOUS
    <3>2. ASSUME NEW k \in keys PROVE k \in AlertKeys /\ k.period = Current(k.kind, at)
      BY <1>4, <1>7, <3>1, <3>2 DEF Due
    <3>3. /\ DOMAIN alerter'.fired = keys \cup DOMAIN map
          /\ \A k \in keys : alerter'.fired[k] = at
          /\ \A k \in DOMAIN map : k \notin keys => alerter'.fired[k] = map[k]
      <4>1. alerter'.fired = Marked(map, keys, at)
        BY <1>10, <2>3, <3>1
      <4>2. PICK marked : marked = Marked(map, keys, at)
        OBVIOUS
      <4>3. /\ DOMAIN marked = keys \cup DOMAIN map
            /\ \A k \in keys : marked[k] = at
            /\ \A k \in DOMAIN map : k \notin keys => marked[k] = map[k]
        BY <4>2 DEF Marked
      <4> QED BY <4>1, <4>2, <4>3
    <3> QED BY <1>4, <2>1, <3>1, <3>2, <3>3 DEF Fired
  <2> QED BY <2>2, <2>3
<1>12. /\ alerter'.fresh \in Seq([key : AlertKeys, at : Nat])
       /\ \A k : Noted(k) => Noted(k)'
       /\ ~post.err => Noted(key)'
       /\ \A i \in DOMAIN alerter'.fresh : alerter'.fresh[i].key = key \/ Noted(alerter'.fresh[i].key)
  <2>a. PICK E : E = [key : AlertKeys, at : Nat]
    OBVIOUS
  <2>b. PICK f : f = alerter.fresh /\ f \in Seq(E)
    BY <1>2, <2>a DEF CheckInv
  <2>c. PICK e : e = [key |-> key, at |-> at]
    OBVIOUS
  <2>1. e \in E /\ e = [key |-> key, at |-> at] /\ e.key = key
    <3>1. e \in [key : AlertKeys, at : Nat]
      BY <1>4, <2>c
    <3> QED BY <2>a, <2>c, <3>1
  <2>2. CASE post.err
    BY <1>10, <2>a, <2>b, <2>2 DEF Noted
  <2>3. CASE ~post.err
    <3>1. PICK g : g = Append(f, e) /\ g = alerter'.fresh
      BY <1>10, <2>b, <2>1, <2>3
    <3>2. /\ g \in Seq(E) /\ Len(g) = Len(f) + 1 /\ Len(f) \in Nat
          /\ \A i \in 1..Len(f) : g[i] = f[i]
          /\ g[Len(g)] = e
          /\ DOMAIN g = 1..Len(g) /\ DOMAIN f = 1..Len(f)
      BY <2>b, <2>1, <3>1
    <3>3. \A i \in DOMAIN g : i \in DOMAIN f \/ i = Len(g)
      BY <3>2
    <3>4. DOMAIN f \subseteq DOMAIN g /\ Len(g) \in DOMAIN g
      BY <3>2
    <3> QED BY <2>a, <2>b, <2>1, <3>1, <3>2, <3>3, <3>4 DEF Noted
  <2> QED BY <2>2, <2>3
<1>13. CheckInv'
  <2>1. DueOnce(alerter'.pending, at)
    BY <1>2, <1>4, <1>10 DEF CheckInv, DueOnce
  <2>2. ASSUME NEW i \in DOMAIN alerter'.fresh, NEW q \in alerter'.pending,
               SameCase(alerter'.fresh[i].key, q.key)
        PROVE  FALSE
    <3>1. q \in alerter.pending /\ q # p
      BY <1>10, <2>2
    <3>2. ~SameCase(key, q.key)
      BY <1>2, <1>3, <1>4, <3>1 DEF CheckInv, DueOnce
    <3>3. \A k : Noted(k) => ~SameCase(k, q.key)
      BY <1>2, <3>1 DEF CheckInv, Noted
    <3> QED BY <1>12, <2>2, <3>2, <3>3
  <2> QED BY <1>1, <1>2, <1>4, <1>10, <1>11, <1>12, <2>1, <2>2 DEF CheckInv
<1>14. CheckTime = at /\ CheckTime' = at
  BY <1>2, <1>4, <1>10 DEF CheckTime
<1>15. ASSUME NEW x \in sent', BudgetMessage(x)
       PROVE  x.key \in AlertKeys /\ (x.key \notin forgotten' => BudgetKnown(x)')
  <2>1. CASE x \in sent
    <3>1. x.key \in AlertKeys /\ (x.key \notin forgotten => BudgetKnown(x))
      BY <1>15, <2>1 DEF BudgetInv
    <3>2. BudgetKnown(x) => BudgetKnown(x)'
      BY <1>1, <1>2, <1>4, <1>10, <1>11, <1>12, <1>14 DEF BudgetKnown, Past
    <3> QED BY <1>1, <3>1, <3>2
  <2>2. CASE x \in new
    <3>1. ~post.err /\ x.key = key
      BY <1>5, <2>2
    <3>2. Noted(key)'
      BY <1>12, <3>1
    <3>3. Taken(key) \subseteq DOMAIN alerter'.fired
      <4>1. Taken(key) \subseteq {key} \cup p.also
        BY <1>4, <1>7 DEF Due
      <4>2. DOMAIN alerter'.fired = ({key} \cup p.also) \cup DOMAIN alerter.fired
        <5>1. PICK marked : marked = Marked(alerter.fired, {key} \cup p.also, at)
          OBVIOUS
        <5>2. DOMAIN marked = ({key} \cup p.also) \cup DOMAIN alerter.fired
          BY <5>1 DEF Marked
        <5> QED BY <1>10, <3>1, <5>1, <5>2
      <4> QED BY <4>1, <4>2
    <3> QED BY <1>4, <1>10, <3>1, <3>2, <3>3 DEF BudgetKnown
  <2> QED BY <1>5, <2>1, <2>2 DEF Telling
<1>16. BudgetInv'
  <2>1. Fired(fired, CheckTime)'
    BY <1>1, <1>14 DEF BudgetInv
  <2> QED BY <1>1, <1>13, <1>15, <2>1 DEF BudgetInv
<1>17. \A x \in sent' : x \in sent \/ BudgetMessage(x)
  BY <1>5, <1>7 DEF Telling, BudgetMessage
<1>18. PostsDue
  <2>1. \A x \in sent' : x \in sent \/ (x.key \notin DOMAIN fired /\ x.key.threshold \in Limits(x.key))
    BY <1>4, <1>5, <1>7 DEF Telling, Due
  <2>2. ASSUME NEW k \in DOMAIN alerter'.fired, k \notin DOMAIN alerter.fired
        PROVE  k.period = Current(k.kind, at)
    <3>1. ~post.err
      BY <1>10, <2>2
    <3>2. PICK marked : marked = Marked(alerter.fired, {key} \cup p.also, at)
      OBVIOUS
    <3>3. DOMAIN marked = ({key} \cup p.also) \cup DOMAIN alerter.fired
      BY <3>2 DEF Marked
    <3> QED BY <1>4, <1>7, <1>10, <2>2, <3>1, <3>2, <3>3 DEF Due
  <2> QED BY <1>2, <1>4, <1>10, <2>1, <2>2 DEF PostsDue
<1> QED BY <1>6, <1>9, <1>16, <1>17, <1>18

LEMMA BudgetStep ==
  ASSUME Numbered, BudgetInv, OncePerThreshold, BudgetNext
  PROVE  /\ Numbered' /\ BudgetInv' /\ OncePerThreshold'
         /\ \A x \in sent' : x \in sent \/ BudgetMessage(x)
<1>0. now' = now /\ now \in Nat
  BY DEF BudgetNext, CheckBegins, PostAlert, StoreAlerts, AlertsLost, Answering, NoFault, Fault,
         clockVars, BudgetInv
<1>1. CASE PostAlert
  BY <1>1, PostAlertStep
<1>2. ASSUME UNCHANGED sent, BudgetInv', forgotten \subseteq forgotten'
      PROVE  /\ Numbered' /\ BudgetInv' /\ OncePerThreshold'
             /\ \A x \in sent' : x \in sent \/ BudgetMessage(x)
  BY <1>2 DEF Numbered, NextNo, OncePerThreshold
<1>3. CASE CheckBegins
  <2>1. PICK s : s = Build(now, cluster)
    OBVIOUS
  <2>2. PICK all : all = budgetAlerts(history, s) \cup anomalyAlerts(history, s)
    OBVIOUS
  <2>3. PICK due : /\ due = {p \in all : p.key \notin DOMAIN fired}
                   /\ alerter' = [pc |-> "post", at |-> now, pending |-> due, fired |-> fired,
                                  fresh |-> <<>>]
    BY <1>3, <2>1, <2>2 DEF CheckBegins
  <2>4. alerter = NoCheck /\ UNCHANGED <<sent, forgotten, fired>>
    BY <1>3 DEF CheckBegins, feedVars
  <2>5. s.at = now
    BY <2>1 DEF Build
  <2>6. DueOnce(due, now)
    <3>1. DueOnce(all, now)
      BY <1>0, <2>2, <2>5, AlertsDue
    <3> QED BY <2>3, <3>1 DEF DueOnce
  <2>7. /\ alerter' # NoCheck /\ alerter'.pc = "post" /\ alerter'.at = now /\ alerter'.pending = due
        /\ alerter'.fired = fired /\ alerter'.fresh = <<>>
        /\ {"pc", "at", "pending", "fired", "fresh"} \subseteq DOMAIN alerter'
    BY <2>3 DEF NoCheck
  <2>8. CheckTime = now /\ CheckTime' = now
    BY <2>4, <2>7 DEF CheckTime
  <2>9. Fired(fired, now)
    BY <2>4, <2>8 DEF BudgetInv
  <2>10. CheckInv'
    <3>1. DOMAIN alerter'.fresh = {} /\ alerter'.fresh \in Seq([key : AlertKeys, at : Nat])
      BY <2>7
    <3>2. \A p \in due : p.key \notin DOMAIN fired
      BY <2>3
    <3> QED BY <1>0, <2>4, <2>6, <2>7, <2>9, <3>1, <3>2 DEF CheckInv
  <2>11. ASSUME NEW x \in sent, BudgetMessage(x), x.key \notin forgotten PROVE BudgetKnown(x)'
    <3>1. BudgetKnown(x)
      BY <2>11 DEF BudgetInv
    <3> QED BY <2>4, <2>7, <2>8, <3>1 DEF BudgetKnown, Past
  <2>12. BudgetInv'
    BY <1>0, <2>4, <2>8, <2>9, <2>10, <2>11 DEF BudgetInv, BudgetMessage
  <2> QED BY <1>2, <2>4, <2>12
<1>4. CASE StoreAlerts
  <2>1. UNCHANGED <<sent, forgotten>> /\ alerter # NoCheck /\ alerter' = NoCheck
    BY <1>4 DEF StoreAlerts, NoCheck
  <2>2. PICK at, map : /\ at \in Nat /\ at = alerter.at /\ map = alerter.fired /\ at <= now
                      /\ Fired(map, at) /\ Fired(fired, at)
    BY <2>1 DEF BudgetInv, CheckInv, CheckTime
  <2>3. CheckTime = at /\ CheckTime' = now
    BY <1>0, <2>1, <2>2 DEF CheckTime
  <2>4. ASSUME NEW x \in sent, BudgetMessage(x), x.key \notin forgotten
        PROVE  /\ Past(x.key, now) \/ Taken(x.key) \subseteq DOMAIN fired \/ Noted(x.key)
               /\ Past(x.key, now) \/ Taken(x.key) \subseteq DOMAIN map
               /\ x.key \in AlertKeys
               /\ Past(x.key, at) => Past(x.key, now)
    <3>1. BudgetKnown(x) /\ x.key \in AlertKeys
      BY <2>4 DEF BudgetInv
    <3>2. Past(x.key, at) => Past(x.key, now)
      BY <1>0, <2>2, <3>1, StaysPast
    <3> QED BY <2>1, <2>2, <2>3, <3>1, <3>2 DEF BudgetKnown
  <2>5. CASE alerter.fresh = <<>>
    <3>1. UNCHANGED fired
      BY <1>4, <2>5 DEF StoreAlerts
    <3>2. \A k : ~Noted(k)
      BY <2>5 DEF Noted
    <3>3. Fired(fired, now)
      BY <1>0, <2>2, FiredLater
    <3>4. BudgetInv'
      BY <1>0, <2>1, <2>3, <2>4, <3>1, <3>2, <3>3 DEF BudgetInv, BudgetKnown, BudgetMessage, Past
    <3> QED BY <1>2, <2>1, <3>4
  <2>6. CASE alerter.fresh # <<>>
    <3>1. PICK kept : /\ kept = {k \in DOMAIN map : at - map[k] <= FiredRetention}
                      /\ fired' = [k \in kept |-> map[k]]
      BY <1>4, <2>2, <2>6 DEF StoreAlerts
    <3>2. Fired(map, now)
      BY <1>0, <2>2, FiredLater
    <3>3. Fired(fired', now)
      BY <3>1, <3>2 DEF Fired
    <3>4. ASSUME NEW x \in sent, BudgetMessage(x), x.key \notin forgotten, ~Past(x.key, now)
          PROVE  Taken(x.key) \subseteq kept
      <4>1. Taken(x.key) \subseteq DOMAIN map /\ ~Past(x.key, at) /\ x.key \in AlertKeys
        BY <2>4, <3>4
      <4>2. ASSUME NEW k \in Taken(x.key), k \notin kept PROVE FALSE
        <5>1. k.kind = x.key.kind /\ k.period = x.key.period
          BY <4>1 DEF Taken, AlertKeys
        <5>2. k \in DOMAIN map /\ k.period = Current(k.kind, map[k]) /\ map[k] \in Nat /\ map[k] <= at
          BY <2>2, <4>1, <4>2 DEF Fired
        <5>3. at - map[k] > MonthDays * DayTicks
          <6>1. at - map[k] > FiredRetention
            BY <2>2, <3>1, <4>2, <5>2, BudgetAssumption
          <6>2. MonthDays * DayTicks \in Nat
            BY BudgetAssumption, LedgerAssumption
          <6> QED BY <2>2, <5>2, <6>1, <6>2, BudgetAssumption
        <5>4. Current(k.kind, map[k]) < Current(k.kind, at)
          BY <2>2, <5>2, <5>3, PeriodsGoOn
        <5> QED BY <4>1, <5>1, <5>2, <5>4 DEF Past
      <4> QED BY <4>2
    <3>5. BudgetInv'
      BY <1>0, <2>1, <2>3, <2>4, <3>1, <3>3, <3>4 DEF BudgetInv, BudgetKnown, BudgetMessage, Past
    <3> QED BY <1>2, <2>1, <3>5
  <2> QED BY <2>5, <2>6
<1>5. CASE AlertsLost
  <2>1. /\ UNCHANGED <<sent, fired>> /\ alerter # NoCheck /\ alerter' = NoCheck
        /\ forgotten' = forgotten \cup {alerter.fresh[i].key : i \in DOMAIN alerter.fresh}
    BY <1>5 DEF AlertsLost, NoCheck
  <2>2. PICK at \in Nat : at = alerter.at /\ at <= now /\ Fired(fired, at)
    BY <2>1 DEF BudgetInv, CheckInv, CheckTime
  <2>3. CheckTime = at /\ CheckTime' = now
    BY <1>0, <2>1, <2>2 DEF CheckTime
  <2>4. Fired(fired, now)
    BY <1>0, <2>2, FiredLater
  <2>5. ASSUME NEW x \in sent, BudgetMessage(x), x.key \notin forgotten' PROVE BudgetKnown(x)'
    <3>1. BudgetKnown(x) /\ x.key \in AlertKeys
      BY <2>1, <2>5 DEF BudgetInv
    <3>2. Past(x.key, at) => Past(x.key, now)
      BY <1>0, <2>2, <3>1, StaysPast
    <3>3. ~Noted(x.key)
      BY <2>1, <2>5 DEF Noted
    <3> QED BY <2>1, <2>2, <2>3, <3>1, <3>2, <3>3 DEF BudgetKnown, Past
  <2>6. BudgetInv'
    BY <1>0, <2>1, <2>3, <2>4, <2>5 DEF BudgetInv, BudgetMessage
  <2> QED BY <1>2, <2>1, <2>6
<1> QED BY <1>1, <1>3, <1>4, <1>5 DEF BudgetNext

-----------------------------------------------------------------------------
(* Since when a risk is open.                                               *)

\* A stored check that does not end the row of a risk, and where such rows begin.
Holds(c, k) == k \in c.seen \/ RiskNamespace[k] \in c.blind
Rows(cs, k) == {i \in DOMAIN cs : k \in cs[i].seen /\ \A j \in i..Len(cs) : Holds(cs[j], k)}

\* The open risks, and since when, are what the checks amount to.
OpenSince(cs, open) ==
    /\ DOMAIN open = {k \in Risks : Rows(cs, k) # {}}
    /\ \A k \in DOMAIN open : open[k] = cs[Min(Rows(cs, k))].at

LEMMA RowsGoOn ==
  ASSUME NEW E, NEW cs \in Seq(E), NEW c \in E, NEW k
  PROVE  /\ Rows(cs, k) \subseteq 1..Len(cs)
         /\ ~Holds(c, k) => Rows(Append(cs, c), k) = {}
         /\ Holds(c, k) /\ k \in c.seen => Rows(Append(cs, c), k) = Rows(cs, k) \cup {Len(cs) + 1}
         /\ Holds(c, k) /\ k \notin c.seen => Rows(Append(cs, c), k) = Rows(cs, k)
<1>a. PICK n, ds : n = Len(cs) /\ ds = Append(cs, c)
  OBVIOUS
<1>1. /\ n \in Nat /\ n = Len(cs) /\ ds = Append(cs, c) /\ Len(ds) = n + 1
      /\ DOMAIN cs = 1..n /\ DOMAIN ds = 1..(n + 1)
      /\ ds[n + 1] = c
      /\ \A i \in 1..n : ds[i] = cs[i]
  BY <1>a
<1>2. Rows(cs, k) \subseteq 1..n
  BY <1>1 DEF Rows
<1>3. \A i \in Rows(ds, k) : i \in 1..(n + 1) /\ k \in ds[i].seen /\ \A j \in i..(n + 1) : Holds(ds[j], k)
  BY <1>1 DEF Rows
<1>4. ~Holds(c, k) => Rows(ds, k) = {}
  BY <1>1, <1>3
<1>5. ASSUME NEW i \in 1..n, Holds(c, k) PROVE i \in Rows(cs, k) <=> i \in Rows(ds, k)
  <2>1. \A j \in i..n : ds[j] = cs[j]
    BY <1>1
  <2>2. i..(n + 1) = i..n \cup {n + 1}
    BY <1>1
  <2> QED BY <1>1, <1>5, <2>1, <2>2 DEF Rows
<1>6. Holds(c, k) => (n + 1 \in Rows(ds, k) <=> k \in c.seen)
  <2>1. (n + 1)..(n + 1) = {n + 1}
    BY <1>1
  <2> QED BY <1>1, <2>1 DEF Rows
<1>7. 1..(n + 1) = 1..n \cup {n + 1}
  BY <1>1
<1> QED BY <1>1, <1>2, <1>3, <1>4, <1>5, <1>6, <1>7

\* A check that carries what is open on keeps it so.
LEMMA CheckGoesOn ==
  ASSUME NEW E, NEW cs \in Seq(E), NEW c \in E, c.seen \subseteq Risks,
         NEW old, OpenSince(cs, old), NEW open,
         DOMAIN open = c.seen \cup {k \in DOMAIN old : RiskNamespace[k] \in c.blind},
         \A k \in DOMAIN open : open[k] = IF k \in DOMAIN old THEN old[k] ELSE c.at
  PROVE  OpenSince(Append(cs, c), open)
<1>a. PICK n, ds : n = Len(cs) /\ ds = Append(cs, c)
  OBVIOUS
<1>1. /\ n \in Nat /\ n = Len(cs) /\ ds = Append(cs, c)
      /\ ds[n + 1] = c
      /\ \A i \in 1..n : ds[i] = cs[i]
  BY <1>a
<1>2. DOMAIN old = {k \in Risks : Rows(cs, k) # {}}
  BY DEF OpenSince
<1>3. ASSUME NEW k
      PROVE  /\ Rows(cs, k) \subseteq 1..n
             /\ ~Holds(c, k) => Rows(ds, k) = {}
             /\ Holds(c, k) /\ k \in c.seen => Rows(ds, k) = Rows(cs, k) \cup {n + 1}
             /\ Holds(c, k) /\ k \notin c.seen => Rows(ds, k) = Rows(cs, k)
  BY <1>1, RowsGoOn
<1>4. DOMAIN open = {k \in Risks : Rows(ds, k) # {}}
  BY <1>2, <1>3 DEF Holds
<1>5. ASSUME NEW k \in DOMAIN open PROVE open[k] = ds[Min(Rows(ds, k))].at
  <2>1. Holds(c, k)
    BY <1>5 DEF Holds
  <2>2. CASE k \in DOMAIN old
    <3>1. PICK m : /\ m = Min(Rows(cs, k)) /\ m \in Rows(cs, k) /\ m \in 1..n
                   /\ \A i \in Rows(cs, k) : m <= i
      <4>1. Rows(cs, k) \in SUBSET Nat /\ Rows(cs, k) # {}
        BY <1>2, <1>3, <2>2
      <4> QED BY <1>3, <4>1, MinIs
    <3>2. Rows(ds, k) \in {Rows(cs, k), Rows(cs, k) \cup {n + 1}} /\ Rows(cs, k) \subseteq 1..n
      BY <1>3, <2>1
    <3>3. PICK l : /\ l = Min(Rows(ds, k)) /\ l \in Rows(ds, k)
                   /\ \A i \in Rows(ds, k) : l <= i
      <4>1. Rows(ds, k) \in SUBSET Nat /\ Rows(ds, k) # {}
        BY <1>1, <3>1, <3>2
      <4> QED BY <4>1, MinIs
    <3>4. m \in Rows(ds, k) /\ l <= m
      BY <3>1, <3>3, <3>2
    <3>5. l \in Rows(cs, k)
      BY <1>1, <3>1, <3>3, <3>2, <3>4
    <3>6. l = m
      BY <1>1, <3>1, <3>2, <3>4, <3>5
    <3>7. open[k] = cs[m].at
      BY <2>2, <3>1 DEF OpenSince
    <3> QED BY <1>1, <3>1, <3>3, <3>6, <3>7
  <2>3. CASE k \notin DOMAIN old
    <3>1. Rows(cs, k) = {} /\ k \in c.seen
      BY <1>2, <2>3
    <3>2. Rows(ds, k) = {n + 1}
      BY <1>3, <2>1, <3>1
    <3>3. Min(Rows(ds, k)) = n + 1
      <4>1. {n + 1} \in SUBSET Nat /\ {n + 1} # {}
        BY <1>1
      <4> QED BY <3>2, <4>1, MinIs
    <3> QED BY <1>1, <2>3, <3>3
  <2> QED BY <2>2, <2>3
<1> QED BY <1>1, <1>4, <1>5 DEF OpenSince

StoredChecks == Seq([at : Nat, seen : SUBSET Risks, blind : SUBSET {RiskNamespace[k] : k \in Risks}])

SinceInv ==
    /\ "open" \in DOMAIN riskState /\ checks \in StoredChecks
    /\ OpenSince(checks, riskState.open)
    /\ assessor # NoAssessment =>
         /\ {"open", "seen", "blind"} \subseteq DOMAIN assessor
         /\ assessor.seen \subseteq Risks /\ assessor.blind \subseteq {RiskNamespace[k] : k \in Risks}
         /\ DOMAIN assessor.open =
              assessor.seen \cup {k \in DOMAIN riskState.open : RiskNamespace[k] \in assessor.blind}
         /\ \A k \in DOMAIN assessor.open :
               assessor.open[k] = IF k \in DOMAIN riskState.open THEN riskState.open[k] ELSE assessor.at

LEMMA SinceStep ==
  ASSUME SinceInv, RiskInv, RiskNext
  PROVE  SinceInv'
<1>1. CASE ForgetOpen
  <2>1. /\ assessor = NoAssessment /\ assessor' = NoAssessment /\ checks' = <<>>
        /\ "open" \in DOMAIN riskState' /\ riskState'.open = <<>>
    BY <1>1 DEF ForgetOpen, SinceInv
  <2>2. \A k : Rows(<<>>, k) = {}
    BY DEF Rows
  <2>3. checks' \in StoredChecks
    BY <2>1 DEF StoredChecks
  <2> QED BY <2>1, <2>2, <2>3 DEF SinceInv, OpenSince
<1>2. CASE AssessBegins
  <2>1. PICK blind : /\ blind \in SUBSET {RiskNamespace[k] : k \in Risks}
                     /\ LET last == riskState.open
                            seen == {k \in critical : RiskNamespace[k] \notin blind}
                            unseen == {k \in DOMAIN last : RiskNamespace[k] \in blind}
                        IN assessor' =
                             [pc |-> "post", at |-> now, seen |-> seen, blind |-> blind,
                              open |-> [k \in seen \cup unseen |-> IF k \in DOMAIN last THEN last[k] ELSE now],
                              fired |-> riskState.fired,
                              fresh |-> announceable(seen, riskState.fired, now)]
    BY <1>2 DEF AssessBegins
  <2>2. PICK last, seen, unseen :
          /\ last = riskState.open /\ seen = {k \in critical : RiskNamespace[k] \notin blind}
          /\ unseen = {k \in DOMAIN last : RiskNamespace[k] \in blind}
    OBVIOUS
  <2>3. /\ {"open", "seen", "blind"} \subseteq DOMAIN assessor'
        /\ assessor'.seen = seen /\ assessor'.blind = blind /\ assessor'.at = now
        /\ assessor'.open = [k \in seen \cup unseen |-> IF k \in DOMAIN last THEN last[k] ELSE now]
    BY <2>1, <2>2
  <2>4. seen \subseteq Risks
    BY <2>2 DEF RiskInv
  <2>5. UNCHANGED <<riskState, checks>>
    BY <1>2 DEF AssessBegins
  <2> QED BY <2>1, <2>2, <2>3, <2>4, <2>5 DEF SinceInv
<1>3. CASE PostRisks \/ FeedRisks
  <2>1. assessor # NoAssessment /\ UNCHANGED <<riskState, checks>>
    BY <1>3 DEF PostRisks, FeedRisks, NoAssessment
  <2>2. /\ {"open", "seen", "blind", "at"} \subseteq DOMAIN assessor
        /\ {"open", "seen", "blind"} \subseteq DOMAIN assessor'
        /\ assessor'.open = assessor.open /\ assessor'.seen = assessor.seen
        /\ assessor'.blind = assessor.blind /\ assessor'.at = assessor.at
    <3>1. {"open", "seen", "blind", "at"} \subseteq DOMAIN assessor
      BY <2>1 DEF SinceInv, RiskInv
    <3>2. \/ assessor' = [assessor EXCEPT !.pc = "save"]
          \/ assessor' = [assessor EXCEPT !.pc = "save", !.fresh = {}]
          \/ \E marked : assessor' = [assessor EXCEPT !.pc = "feed", !.fired = marked]
      BY <1>3 DEF PostRisks, FeedRisks
    <3> QED BY <3>1, <3>2
  <2> QED BY <2>1, <2>2 DEF SinceInv
<1>4. CASE SaveRisks
  <2>a. PICK c : c = [at |-> assessor.at, seen |-> assessor.seen, blind |-> assessor.blind]
    OBVIOUS
  <2>b. PICK kept : riskState' = [open |-> assessor.open, fired |-> [k \in kept |-> assessor.fired[k]]]
    BY <1>4 DEF SaveRisks
  <2>1. /\ c = [at |-> assessor.at, seen |-> assessor.seen, blind |-> assessor.blind]
        /\ checks' = Append(checks, c)
        /\ riskState' = [open |-> assessor.open, fired |-> [k \in kept |-> assessor.fired[k]]]
        /\ assessor # NoAssessment /\ assessor' = NoAssessment
    BY <1>4, <2>a, <2>b DEF SaveRisks, NoAssessment
  <2>2. PICK E : E = [at : Nat, seen : SUBSET Risks, blind : SUBSET {RiskNamespace[k] : k \in Risks}]
    OBVIOUS
  <2>3. assessor.at \in Nat /\ assessor.seen \subseteq Risks
        /\ assessor.blind \subseteq {RiskNamespace[k] : k \in Risks}
    BY <2>1 DEF SinceInv, RiskInv
  <2>4. /\ c \in E /\ c.seen = assessor.seen /\ c.blind = assessor.blind /\ c.at = assessor.at
        /\ checks \in Seq(E)
    BY <2>1, <2>2, <2>3 DEF SinceInv, StoredChecks
  <2>5. OpenSince(Append(checks, c), assessor.open)
    BY <2>1, <2>3, <2>4, CheckGoesOn DEF SinceInv
  <2>6. checks' \in Seq(E)
    BY <2>1, <2>4
  <2>7. "open" \in DOMAIN riskState' /\ riskState'.open = assessor.open
    BY <2>1
  <2> QED BY <2>1, <2>2, <2>5, <2>6, <2>7 DEF SinceInv, StoredChecks
<1>5. CASE AssessLost
  <2>1. UNCHANGED <<riskState, checks>> /\ assessor' = NoAssessment
    BY <1>5 DEF AssessLost
  <2> QED BY <2>1 DEF SinceInv
<1>6. CASE RiskChanges
  BY <1>6 DEF RiskChanges, SinceInv
<1> QED BY <1>1, <1>2, <1>3, <1>4, <1>5, <1>6 DEF RiskNext

LEMMA SinceFirst ==
  ASSUME SinceInv
  PROVE  SinceFirstSeen
<1>1. \A k : Rows(checks, k) =
               {i \in DOMAIN checks :
                  /\ k \in checks[i].seen
                  /\ \A j \in i..Len(checks) :
                        k \in checks[j].seen \/ RiskNamespace[k] \in checks[j].blind}
  BY Zenon DEF Rows, Holds
<1> QED BY <1>1, Zenon DEF SinceInv, OpenSince, SinceFirstSeen

-----------------------------------------------------------------------------
(* All jobs.                                                                *)

\* A job adds messages of its own kind and takes none away.
Adds(kinds) ==
    /\ sent \subseteq sent' /\ forgotten \subseteq forgotten'
    /\ \A x \in sent' : x \in sent \/ x.key.kind \in kinds

LEMMA ToldAdds ==
  ASSUME NEW key, NEW at, NEW post
  PROVE  /\ sent \subseteq Told(key, at, post)
         /\ \A x \in Told(key, at, post) : x \in sent \/ x.key = key
<1>1. PICK new : new = Copies(key, at, post.delivered)
  OBVIOUS
<1>2. Told(key, at, post) = sent \cup new
  BY <1>1 DEF Told, Copies, NextNo
<1>3. \A m \in new : m.key = key
  BY <1>1 DEF Copies
<1> QED BY <1>2, <1>3

LEMMA DigestAdds ==
  ASSUME DigestNext
  PROVE  Adds({"digest"})
<1>1. CASE PostDigest
  <2>1. PICK key, at, post :
          sent' = Told(key, at, post) /\ key.kind = "digest" /\ UNCHANGED forgotten
    <3>1. PICK post : sent' = Told(DigestKey(digester.due), digester.at, post)
      BY <1>1 DEF PostDigest
    <3>2. DigestKey(digester.due).kind = "digest" /\ UNCHANGED forgotten
      BY <1>1 DEF PostDigest, DigestKey
    <3> QED BY <3>1, <3>2
  <2> QED BY <2>1, ToldAdds DEF Adds
<1>2. CASE MarkFirst \/ DigestDue \/ SaveDigest \/ MarkSent \/ DigestLost
  BY <1>2 DEF MarkFirst, DigestDue, SaveDigest, MarkSent, DigestLost, feedVars, Adds
<1>3. CASE SendNow \/ DeleteReport \/ SaveSchedule
  BY <1>3 DEF SendNow, DeleteReport, SaveSchedule, feedVars, Adds
<1> QED BY <1>1, <1>2, <1>3 DEF DigestNext

LEMMA RiskAdds ==
  ASSUME RiskNext
  PROVE  Adds({"risk"})
<1>1. CASE PostRisks
  <2>1. forgotten' = forgotten
    BY <1>1 DEF PostRisks
  <2>2. CASE UNCHANGED sent
    BY <2>1, <2>2 DEF Adds
  <2>3. CASE ~UNCHANGED sent
    <3>1. PICK post : sent' = sent \cup UNION {Told(RiskKey(k), assessor.at, post) : k \in assessor.fresh}
      BY <1>1, <2>3 DEF PostRisks
    <3>2. \A k : RiskKey(k).kind = "risk"
      BY DEF RiskKey
    <3>3. ASSUME NEW x \in sent', x \notin sent PROVE x.key.kind = "risk"
      <4>1. PICK k : x \in Told(RiskKey(k), assessor.at, post)
        BY <3>1, <3>3
      <4> QED BY <3>2, <3>3, <4>1, ToldAdds
    <3> QED BY <2>1, <3>1, <3>3 DEF Adds
  <2> QED BY <2>2, <2>3
<1>2. CASE ForgetOpen \/ AssessBegins \/ FeedRisks \/ SaveRisks \/ RiskChanges
  BY <1>2 DEF ForgetOpen, AssessBegins, FeedRisks, SaveRisks, RiskChanges, feedVars, Adds
<1>3. CASE AssessLost
  BY <1>3 DEF AssessLost, Adds
<1> QED BY <1>1, <1>2, <1>3 DEF RiskNext

LEMMA BudgetAdds ==
  ASSUME BudgetNext, \A x \in sent' : x \in sent \/ BudgetMessage(x)
  PROVE  Adds({"budget", "forecast", "anomaly"})
<1>1. CASE PostAlert
  <2>1. PICK key, at, post : sent' = Told(key, at, post) /\ UNCHANGED forgotten
    BY <1>1 DEF PostAlert
  <2> QED BY <2>1, ToldAdds DEF Adds, BudgetMessage
<1>2. CASE CheckBegins \/ StoreAlerts \/ AlertsLost
  BY <1>2 DEF CheckBegins, StoreAlerts, AlertsLost, feedVars, Adds
<1> QED BY <1>1, <1>2 DEF BudgetNext

-----------------------------------------------------------------------------
(* The feed.                                                                *)

FeedEvents == [key : AlertKeys \cup {RiskKey(k) : k \in Risks}, at : Nat]
KeysOf(events) == {events[i].key : i \in DOMAIN events}

LEMMA FedIs ==
  ASSUME NEW events \in Seq(FeedEvents), NEW fresh \in Seq(FeedEvents)
  PROVE  /\ Fed(events, fresh) \in Seq(FeedEvents)
         /\ Len(Fed(events, fresh)) < MaxAlertEvents =>
              /\ Len(events) < MaxAlertEvents
              /\ KeysOf(events) \cup KeysOf(fresh) \subseteq KeysOf(Fed(events, fresh))
<1>1. PICK all, n, m : all = fresh \o events /\ n = Len(fresh) /\ m = Len(events)
  OBVIOUS
<1>2. PICK E : E = FeedEvents
  OBVIOUS
<1>3. /\ all \in Seq(E) /\ n \in Nat /\ m \in Nat /\ Len(all) = n + m
      /\ DOMAIN all = 1..(n + m) /\ DOMAIN fresh = 1..n /\ DOMAIN events = 1..m
      /\ \A i \in 1..n : all[i] = fresh[i]
      /\ \A i \in 1..m : all[n + i] = events[i]
  BY <1>1, <1>2
<1>4. PICK l : l = IF n + m < MaxAlertEvents THEN n + m ELSE MaxAlertEvents
  OBVIOUS
<1>5. l \in Nat /\ l <= n + m /\ (l < MaxAlertEvents => l = n + m /\ m < MaxAlertEvents)
  BY <1>3, <1>4, FeedAssumption
<1>6. Fed(events, fresh) = SubSeq(all, 1, l)
  BY <1>1, <1>4 DEF Fed
<1>7. PICK f : f = SubSeq(all, 1, l)
  OBVIOUS
<1>8. /\ f \in Seq(E) /\ Len(f) = l /\ DOMAIN f = 1..l
      /\ \A i \in 1..l : f[i] = all[i]
  BY <1>3, <1>5, <1>7
<1>9. ASSUME l < MaxAlertEvents
      PROVE  KeysOf(events) \cup KeysOf(fresh) \subseteq KeysOf(f)
  <2>1. l = n + m
    BY <1>5, <1>9
  <2>2. ASSUME NEW i \in 1..n PROVE fresh[i].key \in KeysOf(f)
    <3>1. i \in 1..l /\ f[i] = fresh[i]
      BY <1>3, <1>8, <2>1
    <3> QED BY <1>8, <3>1 DEF KeysOf
  <2>3. ASSUME NEW i \in 1..m PROVE events[i].key \in KeysOf(f)
    <3>1. n + i \in 1..l /\ f[n + i] = events[i]
      BY <1>3, <1>8, <2>1
    <3> QED BY <1>8, <3>1 DEF KeysOf
  <2> QED BY <1>3, <2>2, <2>3 DEF KeysOf
<1>10. f = Fed(events, fresh)
  BY <1>6, <1>7
<1>11. f \in Seq(FeedEvents) /\ Len(f) = l
  BY <1>2, <1>8
<1>12. Len(f) < MaxAlertEvents =>
         m < MaxAlertEvents /\ KeysOf(events) \cup KeysOf(fresh) \subseteq KeysOf(f)
  BY <1>5, <1>9, <1>11
<1> QED BY <1>1, <1>10, <1>11, <1>12

\* A finite set has an order, and each names all of its elements.
LEMMA OrderIs ==
  ASSUME NEW S, IsFiniteSet(S)
  PROVE  /\ SetToSeqs(S) # {}
         /\ \A order \in SetToSeqs(S) :
               /\ order \in [1..Cardinality(S) -> S]
               /\ \A k \in S : \E i \in DOMAIN order : order[i] = k
<1>1. PICK n \in Nat : n = Cardinality(S)
  BY FS_CardinalityType
<1>2. IsFiniteSet(1..n) /\ Cardinality(1..n) = n
  BY <1>1, FS_Interval
<1>3. PICK orders : orders = {f \in [1..n -> S] : \A i, j \in 1..n : i # j => f[i] # f[j]}
  OBVIOUS
<1>4. orders = SetToSeqs(S)
  BY <1>1, <1>3 DEF SetToSeqs
<1>5. orders # {}
  <2>1. ExistsBijection(1..n, S)
    BY <1>1, <1>2, FS_SameCardinalityBij
  <2>2. PICK g : g \in Bijection(1..n, S)
    BY <2>1 DEF ExistsBijection
  <2>3. g \in orders
    BY <1>3, <2>2 DEF Bijection, Injection, IsInjective
  <2> QED BY <2>3
<1>6. ASSUME NEW order \in orders
      PROVE  order \in [1..n -> S] /\ \A k \in S : \E i \in DOMAIN order : order[i] = k
  <2>1. order \in [1..n -> S] /\ \A i, j \in 1..n : i # j => order[i] # order[j]
    BY <1>3, <1>6
  <2>2. IsInjective(order)
    BY <2>1 DEF IsInjective
  <2>3. order \in Injection(1..n, S)
    BY <2>1, <2>2 DEF Injection
  <2>4. order \in Surjection(1..n, S)
    BY <1>1, <1>2, <2>3, FS_Injection
  <2> QED BY <2>1, <2>4 DEF Surjection
<1> QED BY <1>1, <1>4, <1>5, <1>6

\* What is stored as announced is in the feed while it has room.
RiskFed == \A k \in DOMAIN riskState.fired : RiskKey(k) \in KeysOf(feed)
AssessedFed ==
    assessor # NoAssessment /\ assessor.pc = "save" =>
        \A k \in DOMAIN assessor.fired : RiskKey(k) \in KeysOf(feed)
BudgetFed == \A x \in sent : x.key \in DOMAIN fired /\ x.key \notin forgotten => x.key \in KeysOf(feed)

FeedInv ==
    /\ feed \in Seq(FeedEvents)
    /\ Len(feed) < MaxAlertEvents => RiskFed /\ AssessedFed /\ BudgetFed
    /\ assessor # NoAssessment /\ assessor.pc = "feed" =>
         DOMAIN assessor.fired \subseteq DOMAIN riskState.fired \cup assessor.fresh
    /\ alerter # NoCheck =>
         \A k \in DOMAIN alerter.fired : k \in DOMAIN fired \/ k.period = Current(k.kind, alerter.at)
    /\ \A x \in sent : BudgetMessage(x) => x.key.threshold \in Limits(x.key)

LEMMA FeedKept ==
  ASSUME FeedInv
  PROVE  FeedKeepsEvery
BY DEF FeedInv, FeedKeepsEvery, RiskFed, BudgetFed, KeysOf

\* Messages of the other senders are none of the budgets'.
LEMMA OthersFed ==
  ASSUME NEW kinds, kinds \cap {"budget", "forecast", "anomaly"} = {}, Adds(kinds), BudgetInv, FeedInv,
         UNCHANGED <<alerter, fired>>
  PROVE  /\ BudgetFed => \A x \in sent' : x.key \in DOMAIN fired' /\ x.key \notin forgotten' => x.key \in KeysOf(feed)
         /\ \A x \in sent' : BudgetMessage(x) => x.key.threshold \in Limits(x.key)
         /\ alerter' # NoCheck =>
              \A k \in DOMAIN alerter'.fired : k \in DOMAIN fired' \/ k.period = Current(k.kind, alerter'.at)
<1>1. \A k \in DOMAIN fired : k.kind \in {"budget", "forecast", "anomaly"}
  BY DEF BudgetInv, Fired, AlertKeys
<1>2. \A x \in sent' : x \in sent \/ (~BudgetMessage(x) /\ x.key \notin DOMAIN fired)
  BY <1>1 DEF Adds, BudgetMessage
<1>3. forgotten \subseteq forgotten'
  BY DEF Adds
<1> QED BY <1>2, <1>3 DEF FeedInv, BudgetFed

LEMMA FeedStays ==
  ASSUME NEW kinds, kinds \cap {"budget", "forecast", "anomaly"} = {}, Adds(kinds), BudgetInv, FeedInv,
         UNCHANGED <<alerter, fired, feed, riskState, assessor>>
  PROVE  FeedInv'
<1>1. /\ BudgetFed => BudgetFed'
      /\ \A x \in sent' : BudgetMessage(x) => x.key.threshold \in Limits(x.key)
      /\ alerter' # NoCheck =>
              \A k \in DOMAIN alerter'.fired : k \in DOMAIN fired' \/ k.period = Current(k.kind, alerter'.at)
  BY OthersFed DEF BudgetFed
<1> QED BY <1>1 DEF FeedInv, RiskFed, AssessedFed, BudgetMessage

LEMMA FeedRiskStep ==
  ASSUME RiskInv, RiskInv', BudgetInv, FeedInv, RiskNext, UNCHANGED budgetVars
  PROVE  FeedInv'
<1>1. UNCHANGED <<alerter, fired>> /\ Adds({"risk"})
  BY RiskAdds DEF budgetVars
<1>2. /\ BudgetFed => \A x \in sent' : x.key \in DOMAIN fired' /\ x.key \notin forgotten' => x.key \in KeysOf(feed)
      /\ \A x \in sent' : BudgetMessage(x) => x.key.threshold \in Limits(x.key)
      /\ alerter' # NoCheck =>
              \A k \in DOMAIN alerter'.fired : k \in DOMAIN fired' \/ k.period = Current(k.kind, alerter'.at)
  BY <1>1, OthersFed
<1>3. ASSUME UNCHANGED feed, RiskFed => RiskFed', RiskFed /\ AssessedFed => AssessedFed',
             assessor' # NoAssessment /\ assessor'.pc = "feed" =>
               DOMAIN assessor'.fired \subseteq DOMAIN riskState'.fired \cup assessor'.fresh
      PROVE  FeedInv'
  BY <1>2, <1>3 DEF FeedInv, BudgetFed, BudgetMessage
<1>4. CASE ForgetOpen
  <2>1. /\ assessor = NoAssessment /\ UNCHANGED <<assessor, feed>>
        /\ riskState'.fired = riskState.fired
    BY <1>4 DEF ForgetOpen, feedVars, RiskInv
  <2> QED BY <1>3, <2>1 DEF RiskFed, AssessedFed
<1>5. CASE AssessBegins
  <2>1. UNCHANGED <<riskState, feed>> /\ assessor'.pc = "post"
    BY <1>5 DEF AssessBegins, feedVars
  <2> QED BY <1>3, <2>1 DEF RiskFed, AssessedFed
<1>6. CASE PostRisks
  <2>1. /\ assessor # NoAssessment /\ assessor.pc = "post" /\ UNCHANGED <<riskState, feed>>
        /\ assessor.fired = riskState.fired
        /\ {"pc", "fired", "fresh"} \subseteq DOMAIN assessor
    BY <1>6 DEF PostRisks, NoAssessment, RiskInv
  <2>2. \/ assessor'.pc = "save" /\ assessor'.fired = assessor.fired
        \/ /\ assessor'.pc = "feed" /\ assessor'.fresh = assessor.fresh
           /\ DOMAIN assessor'.fired = DOMAIN assessor.fired \cup assessor.fresh
    <3>1. \/ assessor' = [assessor EXCEPT !.pc = "save"]
          \/ assessor' = [assessor EXCEPT !.pc = "save", !.fresh = {}]
          \/ assessor' = [assessor EXCEPT !.pc = "feed",
                            !.fired = Marked(assessor.fired, assessor.fresh, assessor.at)]
      BY <1>6, <2>1 DEF PostRisks
    <3>2. PICK map : map = Marked(assessor.fired, assessor.fresh, assessor.at)
      OBVIOUS
    <3>3. DOMAIN map = DOMAIN assessor.fired \cup assessor.fresh
      BY <3>2 DEF Marked
    <3> QED BY <2>1, <3>1, <3>2, <3>3
  <2> QED BY <1>3, <2>1, <2>2 DEF RiskFed, AssessedFed
<1>7. CASE FeedRisks
  <2>1. /\ assessor # NoAssessment /\ assessor.pc = "feed" /\ UNCHANGED riskState
        /\ assessor' = [assessor EXCEPT !.pc = "save"]
        /\ {"pc", "fired", "fresh"} \subseteq DOMAIN assessor
        /\ assessor.fresh \subseteq Risks /\ assessor.at \in Nat
    BY <1>7 DEF FeedRisks, NoAssessment, RiskInv
  <2>2. assessor'.pc = "save" /\ assessor'.fired = assessor.fired
    BY <2>1
  <2>3. IsFiniteSet(assessor.fresh)
    BY <2>1, RiskAssumption, FS_Subset
  <2>4. PICK order : order = CHOOSE s \in SetToSeqs(assessor.fresh) : TRUE
    OBVIOUS
  <2>5. /\ order \in [1..Cardinality(assessor.fresh) -> assessor.fresh]
        /\ \A k \in assessor.fresh : \E i \in DOMAIN order : order[i] = k
    <3>1. order \in SetToSeqs(assessor.fresh)
      BY <2>3, <2>4, OrderIs
    <3> QED BY <2>3, <3>1, OrderIs
  <2>6. PICK fresh : fresh = [i \in DOMAIN order |-> [key |-> RiskKey(order[i]), at |-> assessor.at]]
    OBVIOUS
  <2>7. feed' = Fed(feed, fresh)
    BY <1>7, <2>4, <2>6 DEF FeedRisks
  <2>8. fresh \in Seq(FeedEvents)
    <3>1. PICK n \in Nat : n = Cardinality(assessor.fresh)
      BY <2>3, FS_CardinalityType
    <3>2. \A i \in 1..n : [key |-> RiskKey(order[i]), at |-> assessor.at] \in FeedEvents
      BY <2>1, <2>5, <3>1 DEF FeedEvents
    <3>3. PICK E : E = FeedEvents
      OBVIOUS
    <3>4. fresh \in [1..n -> E]
      BY <2>5, <2>6, <3>1, <3>2, <3>3
    <3> QED BY <3>3, <3>4
  <2>9. \A k \in assessor.fresh : RiskKey(k) \in KeysOf(fresh)
    BY <2>5, <2>6 DEF KeysOf
  <2>10. /\ feed' \in Seq(FeedEvents)
         /\ Len(feed') < MaxAlertEvents =>
              Len(feed) < MaxAlertEvents /\ KeysOf(feed) \cup KeysOf(fresh) \subseteq KeysOf(feed')
    BY <2>7, <2>8, FedIs DEF FeedInv
  <2>11. ASSUME Len(feed') < MaxAlertEvents PROVE RiskFed' /\ AssessedFed' /\ BudgetFed'
    <3>1. RiskFed /\ BudgetFed /\ KeysOf(feed) \cup KeysOf(fresh) \subseteq KeysOf(feed')
      BY <2>10, <2>11 DEF FeedInv
    <3>2. RiskFed'
      BY <2>1, <3>1 DEF RiskFed
    <3>3. AssessedFed'
      BY <2>1, <2>2, <2>9, <3>1 DEF AssessedFed, RiskFed, FeedInv
    <3>4. BudgetFed'
      BY <1>2, <3>1 DEF BudgetFed
    <3> QED BY <3>2, <3>3, <3>4
  <2> QED BY <1>2, <2>2, <2>10, <2>11 DEF FeedInv, BudgetMessage
<1>8. CASE SaveRisks
  <2>1. /\ assessor # NoAssessment /\ assessor.pc = "save" /\ assessor' = NoAssessment /\ UNCHANGED feed
    BY <1>8 DEF SaveRisks, NoAssessment, feedVars
  <2>2. DOMAIN riskState'.fired \subseteq DOMAIN assessor.fired
    BY <1>8 DEF SaveRisks
  <2>3. AssessedFed => RiskFed'
    BY <2>1, <2>2 DEF AssessedFed, RiskFed
  <2> QED BY <1>2, <2>1, <2>3 DEF FeedInv, AssessedFed, BudgetFed, BudgetMessage
<1>9. CASE AssessLost
  <2>1. assessor' = NoAssessment /\ UNCHANGED <<riskState, feed>>
    BY <1>9 DEF AssessLost
  <2> QED BY <1>3, <2>1 DEF RiskFed, AssessedFed
<1>10. CASE RiskChanges
  <2>1. UNCHANGED <<assessor, riskState, feed>>
    BY <1>10 DEF RiskChanges, feedVars
  <2> QED BY <1>3, <2>1 DEF RiskFed, AssessedFed, FeedInv
<1> QED BY <1>4, <1>5, <1>6, <1>7, <1>8, <1>9, <1>10 DEF RiskNext

LEMMA FeedBudgetStep ==
  ASSUME Numbered, OncePerThreshold, BudgetInv, BudgetInv', FeedInv, BudgetNext, UNCHANGED riskVars
  PROVE  FeedInv'
<1>1. UNCHANGED <<riskState, assessor>>
  BY DEF riskVars
<1>2. ASSUME UNCHANGED feed, BudgetFed => BudgetFed',
             alerter' # NoCheck =>
               \A k \in DOMAIN alerter'.fired : k \in DOMAIN fired' \/ k.period = Current(k.kind, alerter'.at),
             \A x \in sent' : BudgetMessage(x) => x.key.threshold \in Limits(x.key)
      PROVE  FeedInv'
  BY <1>1, <1>2 DEF FeedInv, RiskFed, AssessedFed, BudgetMessage
<1>3. CASE CheckBegins
  <2>1. UNCHANGED <<feed, sent, forgotten, fired>> /\ alerter'.fired = fired
    BY <1>3 DEF CheckBegins, feedVars
  <2> QED BY <1>2, <2>1 DEF BudgetFed, FeedInv
<1>4. CASE PostAlert
  <2>1. UNCHANGED <<feed, forgotten, fired>> /\ PostsDue
    BY <1>4, PostAlertStep DEF PostAlert
  <2> QED BY <1>2, <2>1 DEF PostsDue, BudgetFed, FeedInv
<1>5. CASE AlertsLost
  <2>1. UNCHANGED <<feed, sent, fired>> /\ alerter' = NoCheck /\ forgotten \subseteq forgotten'
    BY <1>5 DEF AlertsLost
  <2> QED BY <1>2, <2>1 DEF BudgetFed, FeedInv
<1>6. CASE StoreAlerts
  <2>1. UNCHANGED <<sent, forgotten>> /\ alerter # NoCheck /\ alerter' = NoCheck
    BY <1>6 DEF StoreAlerts, NoCheck
  <2>2. CASE alerter.fresh = <<>>
    <3>1. UNCHANGED <<feed, fired>>
      BY <1>6, <2>2 DEF StoreAlerts
    <3> QED BY <1>2, <2>1, <3>1 DEF BudgetFed, FeedInv
  <2>3. CASE alerter.fresh # <<>>
    <3>1. feed' = Fed(feed, alerter.fresh) /\ DOMAIN fired' \subseteq DOMAIN alerter.fired
      BY <1>6, <2>3 DEF StoreAlerts
    <3>2. alerter.fresh \in Seq(FeedEvents)
      <4>1. [key : AlertKeys, at : Nat] \subseteq FeedEvents
        BY DEF FeedEvents
      <4>2. PICK D, E : D = [key : AlertKeys, at : Nat] /\ E = FeedEvents /\ D \subseteq E
        BY <4>1
      <4>3. alerter.fresh \in Seq(D)
        BY <2>1, <4>2 DEF BudgetInv, CheckInv
      <4>4. alerter.fresh \in Seq(E)
        <5>1. PICK f, n : f = alerter.fresh /\ n \in Nat /\ n = Len(f) /\ f \in [1..n -> D]
          BY <4>3
        <5>2. f \in [1..n -> E]
          BY <4>2, <5>1
        <5> QED BY <5>1, <5>2
      <4> QED BY <4>2, <4>4
    <3>3. /\ feed' \in Seq(FeedEvents)
          /\ Len(feed') < MaxAlertEvents =>
               /\ Len(feed) < MaxAlertEvents
               /\ KeysOf(feed) \cup KeysOf(alerter.fresh) \subseteq KeysOf(feed')
      BY <3>1, <3>2, FedIs DEF FeedInv
    <3>4. ASSUME NEW x \in sent, x.key \in DOMAIN fired', x.key \notin DOMAIN fired, x.key \notin forgotten
          PROVE  x.key \in KeysOf(alerter.fresh)
      <4>1. PICK at \in Nat : at = alerter.at /\ Fired(alerter.fired, at) /\ CheckTime = at
        BY <2>1 DEF BudgetInv, CheckInv, CheckTime
      <4>2. x.key \in AlertKeys /\ x.key.period = Current(x.key.kind, at)
        BY <2>1, <3>1, <3>4, <4>1 DEF FeedInv, Fired
      <4>3. BudgetMessage(x)
        BY <4>2 DEF AlertKeys, BudgetMessage
      <4>4. BudgetKnown(x) /\ x.key.threshold \in Limits(x.key)
        BY <3>4, <4>3 DEF BudgetInv, FeedInv
      <4>5. ~Past(x.key, at)
        <5>1. PICK kind, period : kind = x.key.kind /\ period = x.key.period /\ period \in Int
          BY <4>2 DEF AlertKeys
        <5>2. ~(period < Current(kind, at))
          BY <4>2, <5>1
        <5> QED BY <5>1, <5>2 DEF Past
      <4>6. x.key \in Taken(x.key)
        <5>1. x.key.threshold <= x.key.threshold
          BY <4>2 DEF AlertKeys
        <5> QED BY <4>2, <4>4, <5>1, LowerIsTaken DEF SameCase
      <4>7. Noted(x.key)
        BY <3>4, <4>1, <4>4, <4>5, <4>6 DEF BudgetKnown
      <4> QED BY <4>7 DEF Noted, KeysOf
    <3>5. ASSUME Len(feed') < MaxAlertEvents PROVE RiskFed' /\ AssessedFed' /\ BudgetFed'
      <4>1. /\ RiskFed /\ AssessedFed /\ BudgetFed
            /\ KeysOf(feed) \cup KeysOf(alerter.fresh) \subseteq KeysOf(feed')
        BY <3>3, <3>5 DEF FeedInv
      <4>2. RiskFed' /\ AssessedFed'
        BY <1>1, <4>1 DEF RiskFed, AssessedFed
      <4>3. BudgetFed'
        BY <2>1, <3>4, <4>1 DEF BudgetFed
      <4> QED BY <4>2, <4>3
    <3> QED BY <1>1, <2>1, <3>3, <3>5 DEF FeedInv, BudgetMessage
  <2> QED BY <2>2, <2>3
<1> QED BY <1>3, <1>4, <1>5, <1>6 DEF BudgetNext

-----------------------------------------------------------------------------
(* All jobs together.                                                       *)

MessagesInv == Numbered /\ DigestInv /\ RiskInv /\ BudgetInv /\ NothingToldTwice

LEMMA MessagesInit == Init => MessagesInv
<1> SUFFICES ASSUME Init PROVE MessagesInv
  OBVIOUS
<1>1. sent = {} /\ now = 0
  BY DEF Init, FeedInit, ClockInit
<1>2. Numbered
  BY <1>1, FS_EmptySet DEF Numbered
<1>3. DigestInv
  BY <1>1 DEF Init, DigestInit, DigestInv, None
<1>4. RiskInv
  BY <1>1 DEF Init, RiskInit, RiskInv, Moments
<1>5. BudgetInv
  BY <1>1 DEF Init, BudgetInit, BudgetInv, Fired
<1>6. NothingToldTwice
  BY <1>1 DEF NothingToldTwice, OncePerThreshold, OnceADay, OncePerOccasion
<1> QED BY <1>2, <1>3, <1>4, <1>5, <1>6 DEF MessagesInv

LEMMA MessagesStep == MessagesInv /\ [Next]_vars => MessagesInv'
<1> SUFFICES ASSUME MessagesInv, [Next]_vars PROVE MessagesInv'
  OBVIOUS
<1>1. /\ Numbered /\ DigestInv /\ RiskInv /\ BudgetInv
      /\ OncePerThreshold /\ OnceADay /\ OncePerOccasion
  BY DEF MessagesInv, NothingToldTwice
<1>2. now' \in Nat /\ now <= now'
  <2>1. now \in Nat
    BY <1>1 DEF BudgetInv
  <2> QED BY <2>1, TimeSteps
<1>3. ASSUME Adds({"budget", "forecast", "anomaly", "risk"}), UNCHANGED digestVars
      PROVE  DigestInv' /\ OncePerOccasion'
  <2>1. \A x \in sent' : x.key.kind = "digest" => x \in sent
    BY <1>3 DEF Adds
  <2> QED BY <1>1, <1>2, <1>3, <2>1, DigestStays DEF digestVars, DigestInv, Adds
<1>4. ASSUME Adds({"budget", "forecast", "anomaly", "digest"}), UNCHANGED riskVars
      PROVE  RiskInv' /\ OnceADay'
  <2>1. \A x \in sent' : x.key.kind = "risk" => x \in sent
    BY <1>4 DEF Adds
  <2>2. critical' \subseteq Risks
    BY <1>1, <1>4 DEF RiskInv, riskVars
  <2> QED BY <1>1, <1>2, <1>4, <2>1, <2>2, RiskStays DEF riskVars, Adds
<1>5. ASSUME Adds({"risk", "digest"}), UNCHANGED budgetVars
      PROVE  BudgetInv' /\ OncePerThreshold'
  <2>1. \A x \in sent' : BudgetMessage(x) => x \in sent
    BY <1>5 DEF Adds, BudgetMessage
  <2> QED BY <1>1, <1>2, <1>5, <2>1, BudgetStays DEF budgetVars, Adds
<1>6. ASSUME UNCHANGED <<feedVars, digestVars, riskVars, budgetVars>> PROVE MessagesInv'
  <2>1. Numbered'
    BY <1>1, <1>6 DEF Numbered, NextNo, feedVars
  <2>2. \A kinds : Adds(kinds)
    BY <1>6 DEF Adds, feedVars
  <2> QED BY <1>3, <1>4, <1>5, <1>6, <2>1, <2>2 DEF MessagesInv, NothingToldTwice
<1>7. CASE BudgetNext /\ UNCHANGED <<riskVars, digestVars>>
  <2>1. /\ Numbered' /\ BudgetInv' /\ OncePerThreshold'
        /\ \A x \in sent' : x \in sent \/ BudgetMessage(x)
    BY <1>1, <1>7, BudgetStep
  <2>2. Adds({"budget", "forecast", "anomaly"})
    BY <1>7, <2>1, BudgetAdds
  <2>3. Adds({"budget", "forecast", "anomaly", "risk"}) /\ Adds({"budget", "forecast", "anomaly", "digest"})
    BY <2>2 DEF Adds
  <2> QED BY <1>3, <1>4, <1>7, <2>1, <2>3 DEF MessagesInv, NothingToldTwice
<1>8. CASE RiskNext /\ UNCHANGED <<budgetVars, digestVars>>
  <2>1. Numbered' /\ RiskInv' /\ OnceADay'
    BY <1>1, <1>8, RiskStep
  <2>2. Adds({"risk"})
    BY <1>8, RiskAdds
  <2>3. Adds({"budget", "forecast", "anomaly", "risk"}) /\ Adds({"risk", "digest"})
    BY <2>2 DEF Adds
  <2> QED BY <1>3, <1>5, <1>8, <2>1, <2>3 DEF MessagesInv, NothingToldTwice
<1>9. CASE DigestNext /\ UNCHANGED <<budgetVars, riskVars>>
  <2>1. Numbered' /\ DigestInv' /\ OncePerOccasion'
    BY <1>1, <1>9, DigestStep
  <2>2. Adds({"digest"})
    BY <1>9, DigestAdds
  <2>3. Adds({"budget", "forecast", "anomaly", "digest"}) /\ Adds({"risk", "digest"})
    BY <2>2 DEF Adds
  <2> QED BY <1>4, <1>5, <1>9, <2>1, <2>3 DEF MessagesInv, NothingToldTwice
<1>10. CASE UNCHANGED <<feedVars, budgetVars, riskVars, digestVars>>
  BY <1>6, <1>10
<1> QED BY <1>7, <1>8, <1>9, <1>10 DEF Next, vars

\* No channel is told the same thing twice, for any channels, budgets, schedules and
\* risks, whichever of the three senders posts, whatever channels are down, whenever a
\* check or a digest breaks off and however keys are dropped from what is stored; only
\* what could not be stored may be told again (Alerter.fire, RiskAlerter.Check,
\* DigestScheduler.Tick).
THEOREM NothingIsToldTwice == Spec => []NothingToldTwice
<1>1. MessagesInv => NothingToldTwice
  BY DEF MessagesInv
<1> QED BY <1>1, MessagesInit, MessagesStep, PTL DEF Spec

NewsInv == MessagesInv /\ FeedInv /\ SinceInv

LEMMA NewsInit == Init => NewsInv
<1> SUFFICES ASSUME Init PROVE NewsInv
  OBVIOUS
<1>1. sent = {} /\ feed = <<>> /\ alerter = NoCheck
  BY DEF Init, FeedInit, BudgetInit
<1>2. /\ riskState = [open |-> <<>>, fired |-> <<>>] /\ assessor = NoAssessment /\ checks = <<>>
  BY DEF Init, RiskInit
<1>3. DOMAIN riskState.open = {} /\ DOMAIN riskState.fired = {} /\ "open" \in DOMAIN riskState
  BY <1>2
<1>4. FeedInv
  <2>1. feed \in Seq(FeedEvents)
    BY <1>1
  <2> QED BY <1>1, <1>2, <1>3, <2>1 DEF FeedInv, RiskFed, AssessedFed, BudgetFed
<1>5. SinceInv
  <2>1. \A k : Rows(<<>>, k) = {}
    BY DEF Rows
  <2>2. checks \in StoredChecks
    BY <1>2 DEF StoredChecks
  <2> QED BY <1>2, <1>3, <2>1, <2>2 DEF SinceInv, OpenSince
<1> QED BY <1>4, <1>5, MessagesInit DEF NewsInv

LEMMA NewsStep == NewsInv /\ [Next]_vars => NewsInv'
<1> SUFFICES ASSUME NewsInv, [Next]_vars PROVE NewsInv'
  OBVIOUS
<1>1. MessagesInv /\ FeedInv /\ SinceInv /\ MessagesInv'
  BY MessagesStep DEF NewsInv
<1>2. /\ Numbered /\ OncePerThreshold /\ RiskInv /\ BudgetInv
      /\ RiskInv' /\ BudgetInv'
  BY <1>1 DEF MessagesInv, NothingToldTwice
<1>3. ASSUME UNCHANGED riskVars PROVE SinceInv'
  BY <1>1, <1>3 DEF SinceInv, riskVars
<1>4. CASE BudgetNext /\ UNCHANGED riskVars
  <2>1. FeedInv'
    BY <1>1, <1>2, <1>4, FeedBudgetStep
  <2> QED BY <1>1, <1>3, <1>4, <2>1 DEF NewsInv
<1>5. CASE RiskNext /\ UNCHANGED budgetVars
  <2>1. FeedInv'
    BY <1>1, <1>2, <1>5, FeedRiskStep
  <2>2. SinceInv'
    BY <1>1, <1>2, <1>5, SinceStep
  <2> QED BY <1>1, <2>1, <2>2 DEF NewsInv
<1>6. CASE DigestNext /\ UNCHANGED <<budgetVars, riskVars>>
  <2>1. Adds({"digest"}) /\ UNCHANGED feed
    BY <1>6, DigestAdds DEF DigestNext, MarkFirst, DigestDue, PostDigest, SaveDigest, MarkSent,
       DigestLost, SendNow, DeleteReport, SaveSchedule, feedVars
  <2>2. FeedInv'
    BY <1>1, <1>2, <1>6, <2>1, FeedStays DEF budgetVars, riskVars
  <2> QED BY <1>1, <1>3, <1>6, <2>2 DEF NewsInv
<1>7. CASE UNCHANGED <<feedVars, budgetVars, riskVars>>
  <2>1. Adds({}) /\ UNCHANGED feed
    BY <1>7 DEF Adds, feedVars
  <2>2. FeedInv'
    BY <1>1, <1>2, <1>7, <2>1, FeedStays DEF budgetVars, riskVars
  <2> QED BY <1>1, <1>3, <1>7, <2>2 DEF NewsInv
<1> QED BY <1>4, <1>5, <1>6, <1>7 DEF Next, vars

\* Nothing the alerters know gets lost or looks new, for any risks, budgets and sizes of
\* the feed, whatever fails between posting, feeding and storing: what is stored as told
\* is in the feed while it has room, and the open risks and their ages are what the
\* stored checks amount to (AppendAlertEvents, Alerter.fire, keepUnseen, SaveRiskState).
THEOREM NothingIsForgotten == Spec => []NothingForgotten
<1>1. NewsInv => NothingForgotten
  BY FeedKept, SinceFirst DEF NewsInv, NothingForgotten
<1> QED BY <1>1, NewsInit, NewsStep, PTL DEF Spec
=============================================================================
