------------------------- MODULE NamespaceOwnershipProofs -------------------------
(***************************************************************************)
(* A theorem about NamespaceOwnership for any groups, namespaces, specs    *)
(* and configs, any number of changes and faults, with stored or cached    *)
(* claims: nobody moves a namespace against the group that owns it.        *)
(*                                                                         *)
(* No invariant is needed.  What has to be shown is that two readings of   *)
(* the claims agree about the owner: a reconcile takes the claims of the   *)
(* other groups as they are stored, and its own by the labels of now.      *)
(***************************************************************************)
EXTENDS NamespaceOwnership, FiniteSetTheorems, TLAPS

\* The groups that claim a namespace by name, and by selector, in a view.
ByName(view, n) ==
    {g \in Groups : view[g].there /\ ~view[g].dryRun /\ n \in view[g].listed}
BySelector(view, n) ==
    {g \in Groups : view[g].there /\ ~view[g].dryRun /\ view[g].selector /\ n \in view[g].selected}

\* A set of numbers that has a member has a least one: as many numbers from 1 on as are
\* below all its members end just there.
LEMMA LeastNumber ==
    ASSUME NEW S \in SUBSET Nat, NEW n \in S
    PROVE  \E m \in S : \A k \in S : m <= k
<1> DEFINE below == {k \in 1..n : \A s \in S : k <= s}
<1>1. \A i \in below : 1..i \subseteq below
  OBVIOUS
<1>2. IsFiniteSet(below) /\ Cardinality(below) \in Nat
  <2>1. n \in Nat /\ below \in SUBSET (1..n)
    OBVIOUS
  <2> HIDE DEF below
  <2>2. IsFiniteSet(1..n)
    BY <2>1, FS_Interval
  <2>3. IsFiniteSet(below)
    BY <2>1, <2>2, FS_Subset
  <2> QED BY <2>3, FS_CardinalityType
<1>3. PICK c \in Nat : c = Cardinality(below)
  BY <1>2
<1>4. \A i \in below : i <= c
  <2> TAKE i \in below
  <2>1. i \in Nat /\ 1..i \subseteq below
    BY <1>1
  <2> HIDE DEF below
  <2>2. Cardinality(1..i) = i
    BY <2>1, FS_Interval
  <2> QED BY <1>2, <1>3, <2>1, <2>2, FS_Subset
<1>5. below = 1..c
  <2>1. below \subseteq 1..c
    BY <1>3, <1>4
  <2> HIDE DEF below
  <2>2. IsFiniteSet(1..c) /\ Cardinality(1..c) = c
    BY <1>3, FS_Interval
  <2> QED BY <1>3, <2>1, <2>2, FS_Subset
<1>6. CASE c = n
  <2>1. \A s \in S : n <= s
    BY <1>5, <1>6
  <2> QED BY <2>1
<1>7. CASE c # n
  <2>1. c + 1 \in 1..n /\ c + 1 \notin below
    <3>1. c + 1 \notin 1..c /\ n \in Nat
      BY <1>3
    <3>2. c = 0 \/ c \in 1..c
      BY <1>3
    <3>3. c <= n
      BY <1>5, <3>1, <3>2
    <3> QED BY <1>3, <1>5, <1>7, <3>1, <3>3
  <2>2. PICK s \in S : ~(c + 1 <= s)
    BY <2>1
  <2>3. \A k \in S : c <= k
    BY <1>3, <1>5
  <2> QED BY <1>3, <2>2, <2>3
<1> QED BY <1>6, <1>7

\* The oldest of a set is the member below all others, and none but of the empty set.
LEMMA OldestIs ==
    ASSUME NEW S \in SUBSET Groups, NEW g \in Groups
    PROVE  oldest(S) = g <=> g \in S /\ \A h \in S : g <= h
<1>1. Groups \subseteq Nat /\ None \notin Groups
  BY ConstantsAssumption DEF None
<1>2. CASE S = {}
  BY <1>1, <1>2 DEF oldest
<1>3. CASE S # {}
  <2>1. PICK x \in S : \A h \in S : x <= h
    <3>1. PICK y \in S : TRUE
      BY <1>3
    <3>2. S \in SUBSET Nat
      BY <1>1
    <3> QED BY <3>1, <3>2, LeastNumber
  <2>2. oldest(S) = CHOOSE y \in S : \A h \in S : y <= h
    BY <1>3 DEF oldest
  <2>3. oldest(S) \in S /\ \A h \in S : oldest(S) <= h
    BY <2>1, <2>2
  <2>4. oldest(S) \in Nat /\ g \in Nat
    BY <1>1, <2>3
  <2>5. ASSUME g \in S, \A h \in S : g <= h PROVE oldest(S) = g
    <3>1. g <= oldest(S) /\ oldest(S) <= g
      BY <2>3, <2>5
    <3> QED BY <2>4, <3>1
  <2> QED BY <2>3, <2>5
<1> QED BY <1>2, <1>3

\* Who owns a namespace in a view: the oldest group that lists it, or without one
\* the oldest that selects it.
LEMMA OwnerIs ==
    ASSUME NEW view, NEW n \in Namespaces, NEW g \in Groups
    PROVE  NamespaceOwners(view)[n] = g
           <=> \/ g \in ByName(view, n) /\ \A h \in ByName(view, n) : g <= h
               \/ /\ ByName(view, n) = {}
                  /\ g \in BySelector(view, n) /\ \A h \in BySelector(view, n) : g <= h
<1> DEFINE acting == {h \in Groups : view[h].there /\ ~view[h].dryRun}
           byName == {h \in acting : n \in view[h].listed}
           bySelector == {h \in acting : view[h].selector /\ n \in view[h].selected}
<1>1. byName = ByName(view, n) /\ bySelector = BySelector(view, n)
  BY DEF ByName, BySelector
<1>2. NamespaceOwners(view)[n]
      = IF byName # {} THEN oldest(byName) ELSE oldest(bySelector)
  BY DEF NamespaceOwners
<1>3. byName \in SUBSET Groups /\ bySelector \in SUBSET Groups
  OBVIOUS
<1> HIDE DEF acting, byName, bySelector
<1>4. oldest(byName) = g <=> g \in byName /\ \A h \in byName : g <= h
  BY <1>3, OldestIs
<1>5. oldest(bySelector) = g <=> g \in bySelector /\ \A h \in bySelector : g <= h
  BY <1>3, OldestIs
<1> QED BY <1>1, <1>2, <1>4, <1>5

\* A group that owns a namespace by the stored claims and by the labels owns it when
\* another group s is judged by its labels of now, and the rest as stored.
LEMMA OwnerStays ==
    ASSUME NEW g \in Groups, NEW s \in Groups \ {g}, NEW n \in Namespaces, Owns(g, n),
           NEW selected, selected = IF spec[s].selector THEN matches[s] ELSE {}
    PROVE  NamespaceOwners([Actual EXCEPT ![s] = claim(s, selected)])[n] = g
<1> DEFINE labels == [h \in Groups |-> claim(h, matches[h])]
           mixed == [Actual EXCEPT ![s] = claim(s, selected)]
<1>1. NamespaceOwners(Actual)[n] = g /\ NamespaceOwners(labels)[n] = g
  BY DEF Owns
<1>2. \A h \in Groups :
          /\ h \in ByName(Actual, n) <=> h \in ByName(labels, n)
          /\ h \in ByName(mixed, n) <=> h \in ByName(labels, n)
  BY DEF ByName, Actual, claim
<1>3. ByName(Actual, n) = ByName(labels, n) /\ ByName(mixed, n) = ByName(labels, n)
  BY <1>2 DEF ByName
<1>4. \A h \in Groups \ {s} : h \in BySelector(mixed, n) <=> h \in BySelector(Actual, n)
  BY DEF BySelector, Actual
<1>5. s \in BySelector(mixed, n) => s \in BySelector(labels, n)
  BY DEF BySelector, Actual, claim
<1>6. BySelector(mixed, n) \subseteq Groups
  BY DEF BySelector
<1> HIDE DEF labels, mixed
<1>7. CASE ByName(labels, n) # {}
  BY <1>1, <1>3, <1>7, OwnerIs DEF mixed
<1>8. CASE ByName(labels, n) = {}
  <2>1. g \in BySelector(Actual, n) /\ \A h \in BySelector(Actual, n) : g <= h
    BY <1>1, <1>3, <1>8, OwnerIs
  <2>2. \A h \in BySelector(labels, n) : g <= h
    BY <1>1, <1>8, OwnerIs
  <2>3. g \in BySelector(mixed, n)
    BY <1>4, <2>1
  <2>4. \A h \in BySelector(mixed, n) : g <= h
    BY <1>4, <1>5, <1>6, <2>1, <2>2
  <2>5. NamespaceOwners(mixed)[n] = g
    BY <1>3, <1>8, <2>3, <2>4, OwnerIs
  <2> QED BY <2>5 DEF mixed
<1> QED BY <1>7, <1>8

\* The owner stays the owner when another group goes.
LEMMA OwnerOutlives ==
    ASSUME NEW g \in Groups, NEW s \in Groups \ {g}, NEW n \in Namespaces,
           NamespaceOwners(Actual)[n] = g
    PROVE  NamespaceOwners([Actual EXCEPT ![s].there = FALSE])[n] = g
<1> DEFINE without == [Actual EXCEPT ![s].there = FALSE]
<1>1. \A h \in Groups \ {s} :
          /\ h \in ByName(without, n) <=> h \in ByName(Actual, n)
          /\ h \in BySelector(without, n) <=> h \in BySelector(Actual, n)
  BY DEF ByName, BySelector, Actual
<1>2. s \notin ByName(without, n) /\ s \notin BySelector(without, n)
  BY DEF ByName, BySelector, Actual, claim
<1>3. ByName(without, n) = ByName(Actual, n) \ {s}
  BY <1>1, <1>2 DEF ByName
<1>4. BySelector(without, n) = BySelector(Actual, n) \ {s}
  BY <1>1, <1>2 DEF BySelector
<1> HIDE DEF without
<1>5. NamespaceOwners(without)[n] = g
  <2>1. CASE g \in ByName(Actual, n)
    BY <1>3, <2>1, OwnerIs
  <2>2. CASE g \notin ByName(Actual, n)
    BY <1>3, <1>4, <2>2, OwnerIs
  <2> QED BY <2>1, <2>2
<1> QED BY <1>5 DEF without

-----------------------------------------------------------------------------
\* What the views of a reconcile are when the list is not behind.
LEMMA ListedIsActual ==
    ASSUME UpToDate PROVE Listed = Actual
BY DEF UpToDate, Listed

\* A pass moves no namespace that is neither the group's nor let go of.
LEMMA PassKeeps ==
    ASSUME NEW s, NEW d, NEW failed, NEW slow, NEW n, n \notin d.mine, n \notin d.freed
    PROVE  n \in GroupPass(s, d, failed, slow).down <=> n \in down
BY DEF GroupPass

\* A pass leaves its own namespaces where the group wants them, if it moves them.
LEMMA PassObeys ==
    ASSUME NEW s, NEW d, NEW failed, NEW slow, NEW n, n \notin d.freed, ~spec[s].dryRun,
           ~(n \in GroupPass(s, d, failed, slow).down <=> n \in down)
    PROVE  n \in GroupPass(s, d, failed, slow).down <=> ~wants[s]
<1>1. CASE wants[s]
  BY <1>1 DEF GroupPass
<1>2. CASE ~wants[s]
  BY <1>2 DEF GroupPass
<1> QED BY <1>1, <1>2

LEMMA OwnerIsNotDry ==
    ASSUME NEW g \in Groups, NEW n \in Namespaces, NamespaceOwners(Actual)[n] = g
    PROVE  ~spec[g].dryRun /\ g \in Groups /\ g # None
<1>1. g \in ByName(Actual, n) \/ g \in BySelector(Actual, n)
  BY OwnerIs
<1> QED BY <1>1, ConstantsAssumption DEF ByName, BySelector, Actual, claim

\* A group that owns a namespace by its labels has it among its members.
LEMMA OwnerIsMember ==
    ASSUME NEW g \in Groups, NEW n \in Namespaces, Owns(g, n)
    PROVE  n \in members(g, IF spec[g].selector THEN matches[g] ELSE {})
<1> DEFINE labels == [h \in Groups |-> claim(h, matches[h])]
<1>1. g \in ByName(labels, n) \/ g \in BySelector(labels, n)
  BY OwnerIs DEF Owns
<1> QED BY <1>1 DEF ByName, BySelector, claim, members

-----------------------------------------------------------------------------
(* The reconciles.                                                          *)

LEMMA ReconcileObeys ==
    ASSUME NEW s \in Groups, NEW trouble, ReconcileGroup(s, trouble), UpToDate,
           NEW g \in Groups, NEW n \in Namespaces, Owns(g, n), ~(n \in down' <=> n \in down)
    PROVE  n \in down' <=> ~wants[g]
<1> DEFINE selected == IF spec[s].selector THEN matches[s] ELSE {}
           owners == NamespaceOwners([Actual EXCEPT ![s] = claim(s, selected)])
           departed == departedNamespaces(status[s], members(s, selected))
           taken == ownedByOthers(owners, s)
<1>1. Division(s).mine = members(s, selected) \ taken /\ Division(s).freed = departed \ taken
  BY ListedIsActual DEF Division
<1>2. down' = GroupPass(s, Division(s), trouble.failed, trouble.slow).down
  BY DEF ReconcileGroup
<1>3. CASE s # g
  <2>1. owners[n] = g
    BY <1>3, OwnerStays
  <2>2. n \in taken
    BY <1>3, <2>1, OwnerIsNotDry DEF Owns, ownedByOthers
  <2> HIDE DEF taken, departed, selected
  <2>3. n \notin Division(s).mine /\ n \notin Division(s).freed
    BY <1>1, <2>2
  <2> QED BY <1>2, <2>3, PassKeeps
<1>4. CASE s = g
  <2>1. n \notin departed
    BY <1>4, OwnerIsMember DEF departedNamespaces
  <2>2. ~spec[s].dryRun
    BY <1>4, OwnerIsNotDry DEF Owns
  <2> HIDE DEF taken, departed, selected
  <2>3. n \notin Division(s).freed
    BY <1>1, <2>1
  <2> QED BY <1>2, <1>4, <2>2, <2>3, PassObeys
<1> QED BY <1>3, <1>4

\* finalize hands the namespace over, or never had it.
LEMMA FinalizeKeeps ==
    ASSUME NEW s \in Groups, NEW trouble, FinalizeGroup(s, trouble), UpToDate,
           NEW g \in Groups, NEW n \in Namespaces, Owns(g, n)
    PROVE  n \in down' <=> n \in down
<1>1. s # g /\ NamespaceOwners(Actual)[n] = g
  BY DEF FinalizeGroup, Owns
<1>2. [Actual EXCEPT ![s] = claim(s, status[s].selected)] = Actual
  BY DEF Actual
<1>3. NamespaceOwners([Listed EXCEPT ![s] = claim(s, status[s].selected)])[n] = g
  BY <1>1, <1>2, ListedIsActual
<1>4. successors(s)[n] = g
  BY <1>1, OwnerOutlives, ListedIsActual DEF successors
<1>5. g # None
  BY <1>1, OwnerIsNotDry
<1>6. n \in GroupRelease(s, trouble.failed).down <=> n \in down
  BY <1>4, <1>5 DEF GroupRelease
<1> QED BY <1>6 DEF FinalizeGroup

LEMMA ConfigKeeps ==
    ASSUME NEW c \in Configs, NEW trouble, UpToDate,
           ReconcileConfig(c, trouble) \/ FinalizeConfig(c, trouble),
           NEW g \in Groups, NEW n \in Namespaces, Owns(g, n)
    PROVE  n \in down' <=> n \in down
<1>1. CASE c # n
  <2>1. CASE ReconcileConfig(c, trouble)
    <3>1. down' = ConfigPass(c, trouble.slow).down
      BY <2>1 DEF ReconcileConfig
    <3> QED BY <1>1, <3>1 DEF ConfigPass
  <2>2. CASE FinalizeConfig(c, trouble)
    BY <1>1, <2>2 DEF FinalizeConfig
  <2> QED BY <2>1, <2>2
<1>2. CASE c = n
  <2>1. isManagedByGroup(c)
    BY <1>2, ListedIsActual, OwnerIsNotDry DEF isManagedByGroup, Owns
  <2>2. CASE ReconcileConfig(c, trouble)
    <3>1. down' = ConfigPass(c, trouble.slow).down
      BY <2>2 DEF ReconcileConfig
    <3> QED BY <2>1, <3>1 DEF ConfigPass
  <2>3. CASE FinalizeConfig(c, trouble)
    BY <2>1, <2>3 DEF FinalizeConfig
  <2> QED BY <2>2, <2>3
<1> QED BY <1>1, <1>2

(* Types.                                                                   *)

\* The type invariant, and that every schedule has a spec.
Typed == TypeOK /\ spec \in [Schedules -> GroupSpec \cup ConfigSpec]

Status == [phase : Phases, selected : SUBSET Namespaces, managed : SUBSET Namespaces,
           recorded : SUBSET Namespaces, shown : BOOLEAN]
ConfigStatus == [phase : Phases \cup {"OverriddenByGroup"}, recorded : BOOLEAN, shown : BOOLEAN]

LEMMA TroubleIsCounted ==
    ASSUME Typed, NEW trouble \in Troubles, Count(trouble)
    PROVE  faults' \in 0..MaxFaults /\ trouble.failed \subseteq Namespaces
<1>1. MaxFaults \in Nat /\ faults \in 0..MaxFaults
  BY ConstantsAssumption DEF Typed, TypeOK
<1>2. CASE trouble = NoTrouble
  BY <1>1, <1>2 DEF Count, NoTrouble
<1>3. CASE trouble # NoTrouble
  <2>1. faults < MaxFaults
    BY <1>3 DEF Troubles
  <2>2. faults' = faults + 1
    BY <1>3 DEF Count
  <2>3. trouble.failed \subseteq Namespaces
    BY DEF Troubles
  <2> QED BY <1>1, <2>1, <2>2, <2>3
<1> QED BY <1>2, <1>3

\* What a reconcile of a group works with, and what it makes of it.
LEMMA DivisionTyped ==
    ASSUME Typed, NEW g \in Groups
    PROVE  /\ Division(g).selected \subseteq Namespaces /\ Division(g).mine \subseteq Namespaces
           /\ Division(g).handed \subseteq Namespaces /\ Division(g).freed \subseteq Namespaces
<1> DEFINE selected == IF spec[g].selector THEN matches[g] ELSE {}
<1>1. selected \subseteq Namespaces /\ spec[g].listed \subseteq Namespaces
  BY DEF Typed, TypeOK, GroupSpec
<1>2. status[g] \in Status
  BY DEF Typed, TypeOK, Status
<1> HIDE DEF selected
<1>3. members(g, selected) \subseteq Namespaces
  BY <1>1 DEF members
<1>4. departedNamespaces(status[g], members(g, selected)) \subseteq Namespaces
  BY <1>2 DEF departedNamespaces, Status
<1> QED BY <1>1, <1>3, <1>4 DEF Division, selected

LEMMA PassTyped ==
    ASSUME Typed, NEW g \in Groups, NEW d, NEW failed \in SUBSET Namespaces, NEW slow,
           d.selected \subseteq Namespaces, d.mine \subseteq Namespaces,
           d.handed \subseteq Namespaces, d.freed \subseteq Namespaces
    PROVE  /\ GroupPass(g, d, failed, slow).status \in Status
           /\ GroupPass(g, d, failed, slow).down \subseteq Namespaces
           /\ GroupPass(g, d, failed, slow).asleep \subseteq Namespaces
<1>1. status[g] \in Status /\ down \subseteq Namespaces /\ asleep \subseteq Namespaces
  BY DEF Typed, TypeOK, Status
<1>2. spec[g] \in GroupSpec /\ wants[g] \in BOOLEAN
  BY DEF Typed, TypeOK, Schedules
<1> DEFINE sp == spec[g]
           st == status[g]
           up == wants[g]
           gone == d.freed \ failed
           restored == {n \in gone : restores(st.phase, n \in st.recorded)}
           kept == [st EXCEPT !.selected = d.selected,
                              !.managed = managedNamespaces(d.mine,
                                                            (d.handed \cup d.freed) \cap failed),
                              !.recorded = @ \ ((d.handed \cup d.freed) \ failed)]
           tried == d.mine \ failed
           ready == tried = d.mine /\ ~slow
           moved == [kept EXCEPT
                  !.phase = settledPhase(up, ready),
                  !.recorded = IF up THEN @ ELSE @ \cup (tried \ (down \ restored)),
                  !.shown = sp.page /\ IF ready THEN ~up /\ d.mine # {} ELSE @]
<1>3. kept \in Status
  BY <1>1 DEF Status, managedNamespaces
<1>4. tried \subseteq Namespaces /\ ready \in BOOLEAN
  OBVIOUS
<1>5. settledPhase(up, ready) \in Phases
  BY DEF settledPhase, Phases
<1>6. (sp.page /\ IF ready THEN ~up /\ d.mine # {} ELSE kept.shown) \in BOOLEAN
  BY <1>2, <1>3 DEF Status, GroupSpec
<1> HIDE DEF kept, tried, ready, restored
<1>7. moved \in Status
  BY <1>3, <1>4, <1>5, <1>6 DEF Status
<1>8. [kept EXCEPT !.phase = "DryRun"] \in Status
  BY <1>3 DEF Status, Phases
<1>9. GroupPass(g, d, failed, slow).status \in {moved, [kept EXCEPT !.phase = "DryRun"]}
  BY DEF GroupPass, kept, tried, ready, restored
<1>10. /\ GroupPass(g, d, failed, slow).down \subseteq Namespaces
       /\ GroupPass(g, d, failed, slow).asleep \subseteq Namespaces
  BY <1>1 DEF GroupPass
<1> QED BY <1>7, <1>8, <1>9, <1>10

LEMMA ReconcileGroupTyped ==
    ASSUME Typed, NEW g \in Groups, NEW trouble \in Troubles, ReconcileGroup(g, trouble)
    PROVE  Typed'
<1>1. PICK pass : /\ pass = GroupPass(g, Division(g), trouble.failed, trouble.slow)
                  /\ status' = [status EXCEPT ![g] = IF trouble.refused THEN @ ELSE pass.status]
                  /\ down' = pass.down
                  /\ asleep' = pass.asleep
  BY DEF ReconcileGroup
<1>2. faults' \in 0..MaxFaults /\ trouble.failed \in SUBSET Namespaces
  BY TroubleIsCounted DEF ReconcileGroup
<1>3. /\ pass.status \in Status /\ pass.down \subseteq Namespaces
      /\ pass.asleep \subseteq Namespaces
  BY <1>1, <1>2, DivisionTyped, PassTyped
<1>4. status' \in [Groups -> Status]
  BY <1>1, <1>3 DEF Typed, TypeOK, Status
<1> QED BY <1>1, <1>2, <1>3, <1>4 DEF ReconcileGroup, userVars, Typed, TypeOK, Status

LEMMA FinalizeGroupTyped ==
    ASSUME Typed, NEW g \in Groups, NEW trouble \in Troubles, FinalizeGroup(g, trouble)
    PROVE  Typed'
<1>1. faults' \in 0..MaxFaults /\ trouble.failed \in SUBSET Namespaces
  BY TroubleIsCounted DEF FinalizeGroup
<1>2. /\ GroupRelease(g, trouble.failed).failed \subseteq Namespaces
      /\ GroupRelease(g, trouble.failed).down \subseteq down
      /\ GroupRelease(g, trouble.failed).asleep \subseteq asleep
  BY <1>1 DEF GroupRelease
<1>3. down' \subseteq Namespaces /\ asleep' \subseteq Namespaces /\ abandoned' \subseteq Namespaces
  BY <1>2 DEF FinalizeGroup, Typed, TypeOK
<1>4. life' \in [Schedules -> {"live", "deleting", "gone"}]
  BY DEF FinalizeGroup, Typed, TypeOK
<1> QED BY <1>1, <1>3, <1>4 DEF FinalizeGroup, userVars, Typed, TypeOK

LEMMA ReconcileConfigTyped ==
    ASSUME Typed, NEW c \in Configs, NEW trouble \in Troubles, ReconcileConfig(c, trouble)
    PROVE  Typed'
<1>1. PICK pass : /\ pass = ConfigPass(c, trouble.slow)
                  /\ config' = [config EXCEPT ![c] = IF trouble.refused THEN @ ELSE pass.status]
                  /\ down' = pass.down
                  /\ asleep' = pass.asleep
  BY DEF ReconcileConfig
<1>2. faults' \in 0..MaxFaults
  BY TroubleIsCounted DEF ReconcileConfig
<1>3. /\ config[c] \in ConfigStatus /\ down \subseteq Namespaces /\ asleep \subseteq Namespaces
      /\ c \in Namespaces /\ spec[c] \in ConfigSpec /\ wants[c] \in BOOLEAN
  BY ConstantsAssumption DEF Typed, TypeOK, ConfigStatus, Schedules
<1>4. pass.down \subseteq Namespaces /\ pass.asleep \subseteq Namespaces
  BY <1>1, <1>3 DEF ConfigPass
<1>5. pass.status \in ConfigStatus
  <2> DEFINE up == wants[c]
             ready == ~trouble.slow
             st == config[c]
             moved == [phase |-> settledPhase(up, ready),
                       recorded |-> st.recorded \/ (~up /\ c \notin down),
                       shown |-> spec[c].page /\ IF ready THEN ~up ELSE st.shown]
  <2>1. settledPhase(up, ready) \in Phases
    BY DEF settledPhase, Phases
  <2>2. /\ (st.recorded \/ (~up /\ c \notin down)) \in BOOLEAN
        /\ (spec[c].page /\ IF ready THEN ~up ELSE st.shown) \in BOOLEAN
    BY <1>3 DEF ConfigStatus, ConfigSpec
  <2>3. moved \in ConfigStatus
    BY <2>1, <2>2 DEF ConfigStatus
  <2>4. /\ [st EXCEPT !.phase = "OverriddenByGroup"] \in ConfigStatus
        /\ [st EXCEPT !.phase = "DryRun"] \in ConfigStatus
    BY <1>3 DEF ConfigStatus, Phases
  <2>5. pass.status \in {moved, [st EXCEPT !.phase = "OverriddenByGroup"],
                         [st EXCEPT !.phase = "DryRun"]}
    BY <1>1 DEF ConfigPass
  <2> QED BY <2>3, <2>4, <2>5
<1>6. config' \in [Configs -> ConfigStatus]
  BY <1>1, <1>5 DEF Typed, TypeOK, ConfigStatus
<1> QED BY <1>1, <1>2, <1>4, <1>6 DEF ReconcileConfig, userVars, Typed, TypeOK, ConfigStatus

LEMMA FinalizeConfigTyped ==
    ASSUME Typed, NEW c \in Configs, NEW trouble \in Troubles, FinalizeConfig(c, trouble)
    PROVE  Typed'
<1>1. faults' \in 0..MaxFaults
  BY TroubleIsCounted DEF FinalizeConfig
<1>2. life' \in [Schedules -> {"live", "deleting", "gone"}]
  BY DEF FinalizeConfig, Typed, TypeOK
<1>3. down' \subseteq Namespaces /\ asleep' \subseteq Namespaces /\ abandoned' \subseteq Namespaces
  BY ConstantsAssumption DEF FinalizeConfig, Typed, TypeOK
<1> QED BY <1>1, <1>2, <1>3 DEF FinalizeConfig, userVars, Typed, TypeOK

LEMMA ChangeTyped ==
    ASSUME Typed, Change
    PROVE  Typed'
<1>1. changes' \in 0..MaxChanges
  BY ConstantsAssumption DEF Change, Typed, TypeOK
<1>2. /\ spec' \in [Schedules -> GroupSpec \cup ConfigSpec]
      /\ \A g \in Groups : spec'[g] \in GroupSpec
      /\ \A c \in Configs : spec'[c] \in ConfigSpec
      /\ matches' \in [Groups -> SUBSET Namespaces]
      /\ wants' \in [Schedules -> BOOLEAN]
      /\ life' \in [Schedules -> {"live", "deleting", "gone"}]
  <2>1. CASE \E s \in Schedules : Flip(s)
    BY <2>1 DEF Flip, Typed, TypeOK
  <2>2. CASE \E s \in Schedules : Edit(s)
    BY <2>2, ConstantsAssumption DEF Edit, Schedules, Typed, TypeOK
  <2>3. CASE \E s \in Schedules : Delete(s)
    BY <2>3 DEF Delete, userVars, Typed, TypeOK
  <2>4. CASE \E g \in Groups, n \in Namespaces : Relabel(g, n)
    BY <2>4 DEF Relabel, Typed, TypeOK
  <2> QED BY <2>1, <2>2, <2>3, <2>4 DEF Change
<1> QED BY <1>1, <1>2 DEF Change, Typed, TypeOK

LEMMA ClaimTyped ==
    ASSUME Typed PROVE Actual \in [Groups -> Claims]
BY DEF Typed, TypeOK, Actual, claim, Claims, GroupSpec

LEMMA TypedInit ==
    ASSUME Init PROVE Typed
<1>1. spec \in [Schedules -> GroupSpec \cup ConfigSpec]
  <2>1. GroupSpecs \cup ConfigSpecs \subseteq GroupSpec \cup ConfigSpec
    BY ConstantsAssumption
  <2>2. spec \in [Schedules -> GroupSpecs \cup ConfigSpecs]
    BY DEF Init
  <2> QED BY <2>1, <2>2
<1>2. /\ \A g \in Groups : spec[g] \in GroupSpec
      /\ \A c \in Configs : spec[c] \in ConfigSpec
  BY ConstantsAssumption DEF Init
<1>3. matches \in [Groups -> SUBSET Namespaces] /\ wants \in [Schedules -> BOOLEAN]
  BY DEF Init
<1>4. life \in [Schedules -> {"live", "deleting", "gone"}]
  BY DEF Init
<1>5. status \in [Groups -> Status] /\ config \in [Configs -> ConfigStatus]
  BY DEF Init, Status, ConfigStatus, Phases
<1>6. Actual \in [Groups -> Claims]
  BY <1>2, <1>5 DEF Actual, claim, Claims, GroupSpec, Status
<1>7. down \subseteq Namespaces /\ asleep \subseteq Namespaces /\ abandoned \subseteq Namespaces
  BY DEF Init
<1>8. changes \in 0..MaxChanges /\ faults \in 0..MaxFaults
  <2>1. changes = 0 /\ faults = 0
    BY DEF Init
  <2> QED BY <2>1, ConstantsAssumption
<1>9. seen \in [Groups -> Claims]
  BY <1>6 DEF Init
<1> QED BY <1>1, <1>2, <1>3, <1>4, <1>5, <1>7, <1>8, <1>9 DEF Typed, TypeOK, Status, ConfigStatus

LEMMA TypedStep ==
    ASSUME Typed, [Next]_vars PROVE Typed'
<1>1. ASSUME NEW s \in Groups, NEW trouble \in Troubles, Reconcile(s, trouble) PROVE Typed'
  BY <1>1, ReconcileGroupTyped, FinalizeGroupTyped DEF Reconcile
<1>2. ASSUME NEW s \in Configs, NEW trouble \in Troubles, Reconcile(s, trouble) PROVE Typed'
  BY <1>2, ReconcileConfigTyped, FinalizeConfigTyped, ConstantsAssumption DEF Reconcile
<1>3. ASSUME NEW g \in Groups, CacheSync(g) PROVE Typed'
  <2>1. seen' \in [Groups -> Claims]
    BY <1>3, ClaimTyped DEF CacheSync, Typed, TypeOK
  <2> QED BY <1>3, <2>1 DEF CacheSync, userVars, boundVars, Typed, TypeOK
<1>4. CASE Change
  BY <1>4, ChangeTyped
<1>5. CASE UNCHANGED vars
  BY <1>5 DEF vars, userVars, boundVars, Typed, TypeOK
<1> QED BY <1>1, <1>2, <1>3, <1>4, <1>5 DEF Next, Schedules

\* Every variable keeps its type: namespaces that are down, asleep or abandoned are
\* namespaces, whatever a spec, a label or a stored status says.
THEOREM Typing == Spec => [](TypeOK /\ Typed)
<1>1. Typed => TypeOK
  BY DEF Typed
<1> QED BY <1>1, TypedInit, TypedStep, PTL DEF Spec

\* No reconcile of another schedule moves a namespace away from where its owning
\* group wants it: a group leaves what plan.ConflictingNamespaces names, finalize
\* hands over to successors, and a config asks isManagedByGroup.
THEOREM OwnersAreObeyed == Spec => OwnerUndisturbed
<1>1. Typed /\ [Next]_vars =>
          \A n \in (down \ down') \cup (down' \ down) :
             \A g \in Groups :
                UpToDate /\ Owns(g, n) /\ Owns(g, n)' => (n \in down' <=> ~wants[g])
  <2> SUFFICES ASSUME Typed, Typed', [Next]_vars, NEW n \in (down \ down') \cup (down' \ down),
                      NEW g \in Groups, UpToDate, Owns(g, n)
               PROVE  n \in down' <=> ~wants[g]
    BY TypedStep
  <2>1. n \in Namespaces /\ ~(n \in down' <=> n \in down)
    BY DEF Typed, TypeOK
  <2>2. ASSUME NEW s \in Groups, NEW trouble \in Troubles, Reconcile(s, trouble)
        PROVE  n \in down' <=> ~wants[g]
    BY <2>1, <2>2, ReconcileObeys, FinalizeKeeps DEF Reconcile
  <2>3. ASSUME NEW s \in Configs, NEW trouble \in Troubles, Reconcile(s, trouble)
        PROVE  FALSE
    BY <2>1, <2>3, ConfigKeeps, ConstantsAssumption DEF Reconcile
  <2>4. \A h \in Groups : ~CacheSync(h)
    BY <2>1 DEF CacheSync
  <2>5. ~Change /\ ~UNCHANGED vars
    BY <2>1 DEF Change, vars
  <2> QED BY <2>2, <2>3, <2>4, <2>5 DEF Next, Schedules
<1> QED BY <1>1, Typing, PTL DEF Spec, OwnerUndisturbed
=============================================================================
