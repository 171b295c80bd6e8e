--------------------------- MODULE NamespaceOwnership ---------------------------
(***************************************************************************)
(* Who decides about a namespace.  ScalingGroups list namespaces or select *)
(* them by label and may overlap; a namespace may have a ScalingConfig as  *)
(* well.  NamespaceOwners (scaling/dependencies.go) gives each namespace   *)
(* to one group and groups win over configs; namespaces that leave a group *)
(* or whose schedule is deleted are released or handed over                *)
(* (controller/scalinggroup_controller.go, scalingconfig_controller.go and *)
(* release.go).                                                            *)
(*                                                                         *)
(* A reconcile is one step with an outcome: some namespaces may fail, some *)
(* pods may be late, and the status update at its end may be refused.      *)
(***************************************************************************)
EXTENDS Integers, FiniteSets

CONSTANTS
    Groups,          \* ScalingGroups, numbered by age: the oldest is the least
    Namespaces,
    Configs,         \* the namespaces that have a ScalingConfig, which stands for it
    GroupSpecs,      \* the specs users give groups
    ConfigSpecs,     \* the specs users give configs
    CacheLags,       \* whether the list of groups may be behind the API server
    Patient,         \* whether users wait for the last change to settle
    MaxChanges,      \* bound on what users and clocks change
    MaxFaults        \* bound on failed calls, late pods and refused updates

None == 0
GroupSpec == [listed : SUBSET Namespaces, selector : BOOLEAN, dryRun : BOOLEAN, page : BOOLEAN]
ConfigSpec == [dryRun : BOOLEAN, page : BOOLEAN]

ASSUME ConstantsAssumption ==
    /\ Groups \subseteq Nat \ {None}
    /\ Configs \subseteq Namespaces /\ Configs \cap Groups = {}
    /\ GroupSpecs \subseteq GroupSpec /\ ConfigSpecs \subseteq ConfigSpec
    /\ CacheLags \in BOOLEAN /\ Patient \in BOOLEAN
    /\ MaxChanges \in Nat /\ MaxFaults \in Nat

Schedules == Groups \cup Configs

VARIABLES
    spec,       \* what users asked of each schedule
    matches,    \* the namespaces the labels of a group's selector match
    wants,      \* whether a schedule's hours want its namespaces up
    life,       \* whether a schedule is live, being deleted or gone
    status,     \* the stored status of a group
    config,     \* the stored status of a config
    seen,       \* what the cache says of the groups' claims
    down,       \* the namespaces whose workloads are scaled down
    asleep,     \* the namespaces whose routes show the sleep page
    abandoned,  \* the namespaces a deletion gave up on, for the properties
    changes, faults

userVars == <<spec, matches, wants>>
boundVars == <<changes, faults>>
vars == <<userVars, life, status, config, seen, down, asleep, abandoned, boundVars>>

Phases == {"", "ScaledUp", "ScaledDown", "ScalingUp", "ScalingDown", "DryRun"}
Claims ==
    [there : BOOLEAN, listed : SUBSET Namespaces, selector : BOOLEAN, dryRun : BOOLEAN,
     page : BOOLEAN, selected : SUBSET Namespaces]

TypeOK ==
    /\ \A g \in Groups : spec[g] \in GroupSpec
    /\ \A n \in Configs : spec[n] \in ConfigSpec
    /\ matches \in [Groups -> SUBSET Namespaces]
    /\ wants \in [Schedules -> BOOLEAN]
    /\ life \in [Schedules -> {"live", "deleting", "gone"}]
    /\ status \in [Groups -> [phase : Phases, selected : SUBSET Namespaces,
            managed : SUBSET Namespaces, recorded : SUBSET Namespaces, shown : BOOLEAN]]
    /\ config \in [Configs -> [phase : Phases \cup {"OverriddenByGroup"},
            recorded : BOOLEAN, shown : BOOLEAN]]
    /\ seen \in [Groups -> Claims]
    /\ down \subseteq Namespaces /\ asleep \subseteq Namespaces
    /\ abandoned \subseteq Namespaces
    /\ changes \in 0..MaxChanges /\ faults \in 0..MaxFaults

-----------------------------------------------------------------------------
(* Owners.                                                                  *)

\* What a group claims, given what its selector selects.
claim(g, selected) ==
    [there |-> life[g] # "gone", listed |-> spec[g].listed, selector |-> spec[g].selector,
     dryRun |-> spec[g].dryRun, page |-> spec[g].page, selected |-> selected]

\* The stored claims, and what a list of the groups returns.
Actual == [g \in Groups |-> claim(g, status[g].selected)]
Listed == IF CacheLags THEN seen ELSE Actual

oldest(S) == IF S = {} THEN None ELSE CHOOSE g \in S : \A h \in S : g <= h

\* NamespaceOwners: a group that lists the namespace wins over one that selects
\* it, among equals the oldest; a dry run owns nothing.  A group being deleted
\* still counts.
NamespaceOwners(view) ==
    [n \in Namespaces |->
        LET acting == {g \in Groups : view[g].there /\ ~view[g].dryRun}
            byName == {g \in acting : n \in view[g].listed}
            bySelector == {g \in acting : view[g].selector /\ n \in view[g].selected}
        IN  IF byName # {} THEN oldest(byName) ELSE oldest(bySelector)]

\* Mutant: a group scales all its members, whoever owns them.
ownedByOthersNever(owners, g) == {}

\* The namespaces another group owns, which g leaves alone.
ownedByOthers(owners, g) == {n \in Namespaces : owners[n] \notin {None, g}}

-----------------------------------------------------------------------------
(* Release.                                                                 *)

phaseReachedByScaling(phase) == phase \notin {"", "ScaledUp", "DryRun"}

\* What releaseNamespace does to one of the namespaces a schedule lets go of:
\* it restores the workloads if the schedule scaled them, and wakes the routes
\* unless the schedule is a dry run that scaled nothing.
restores(phase, recorded) == phaseReachedByScaling(phase) \/ recorded
wakes(phase, recorded) == phase # "DryRun" \/ restores(phase, recorded)

\* The namespaces whose routes handOver wakes: the new owner has no sleep page.
handOver(view, owners, S) == {n \in S : ~view[owners[n]].page}

-----------------------------------------------------------------------------
(* The reconcile of a group.                                                *)

members(g, selected) == spec[g].listed \cup IF spec[g].selector THEN selected ELSE {}

\* Mutant: only what the selector matched can leave a group.
departedNamespacesSelected(st, now) == st.selected \ now

\* The namespaces that left a group: no longer selected, or managed or recorded
\* by an earlier reconcile and not among its members now.
departedNamespaces(st, now) == (st.selected \cup st.managed \cup st.recorded) \ now

\* The phase of the target state, or of the way to it.
settledPhase(up, ready) ==
    IF ready THEN IF up THEN "ScaledUp" ELSE "ScaledDown"
             ELSE IF up THEN "ScalingUp" ELSE "ScalingDown"

\* The namespaces the group manages, and those it could not release yet.
managedNamespaces(mine, unreleased) == mine \cup unreleased

\* How a reconcile of a group divides the namespaces: the ones it scales, and the
\* ones it lets go of, to another group (some of them without a sleep page) or to
\* nobody.
Division(g) ==
    LET st == status[g]
        selected == IF spec[g].selector THEN matches[g] ELSE {}
        view == [Listed EXCEPT ![g] = claim(g, selected)]
        owners == NamespaceOwners(view)
        departed == departedNamespaces(st, members(g, selected))
        taken == ownedByOthers(owners, g)
        handed == departed \cap taken \cap (st.managed \cup st.recorded)
    IN  [selected |-> selected, mine |-> members(g, selected) \ taken,
         handed |-> handed, pageless |-> handOver(view, owners, handed),
         freed |-> departed \ taken]

\* Reconcile of a group that is not being deleted: what becomes of its status,
\* the namespaces that are down and the ones asleep, if the calls about the
\* namespaces of failed fail and slow says that pods are late.
GroupPass(g, d, failed, slow) ==
    LET sp == spec[g]
        st == status[g]
        up == wants[g]
        gone == d.freed \ failed
        restored == {n \in gone : restores(st.phase, n \in st.recorded)}
        woken == {n \in gone : wakes(st.phase, n \in st.recorded)} \cup (d.pageless \ failed)
        kept == [st EXCEPT !.selected = d.selected,
                           !.managed = managedNamespaces(d.mine,
                                                         (d.handed \cup d.freed) \cap failed),
                           !.recorded = @ \ ((d.handed \cup d.freed) \ failed)]
        tried == d.mine \ failed
        ready == tried = d.mine /\ ~slow
        toPage == IF sp.page /\ ready /\ ~up THEN d.mine ELSE {}
        fromPage == IF IF sp.page THEN ready /\ up ELSE st.shown THEN d.mine ELSE {}
    IN  IF sp.dryRun
        THEN [status |-> [kept EXCEPT !.phase = "DryRun"],
              down |-> down \ restored, asleep |-> asleep \ woken]
        ELSE [status |-> [kept EXCEPT
                  !.phase = settledPhase(up, ready),
                  !.recorded = IF up THEN @ ELSE @ \cup (tried \ (down \ restored)),
                  !.shown = sp.page /\ IF ready THEN ~up /\ d.mine # {} ELSE @],
              down |-> IF up THEN (down \ restored) \ tried ELSE (down \ restored) \cup tried,
              asleep |-> ((asleep \ woken) \ fromPage) \cup toPage]

\* What may go wrong in a pass, one thing at a time and as long as the bound
\* lasts: calls about some namespaces fail, for a release also until it is given
\* up, pods are late, or the status update is refused.
NoTrouble == [failed |-> {}, givenUp |-> FALSE, slow |-> FALSE, refused |-> FALSE]
Troubles ==
    {t \in [failed : SUBSET Namespaces, givenUp : BOOLEAN, slow : BOOLEAN, refused : BOOLEAN] :
        /\ t # NoTrouble => faults < MaxFaults
        /\ t.givenUp => t.failed # {}
        /\ t.failed # {} => ~t.slow /\ ~t.refused
        /\ ~(t.slow /\ t.refused)}
Count(trouble) == faults' = IF trouble = NoTrouble THEN faults ELSE faults + 1

ReconcileGroup(g, trouble) ==
    /\ life[g] = "live" /\ ~trouble.givenUp
    /\ UNCHANGED <<userVars, life, config, seen, abandoned, changes>>
    /\ Count(trouble)
    /\ \E d \in {Division(g)} : \E pass \in {GroupPass(g, d, trouble.failed, trouble.slow)} :
        /\ status' = [status EXCEPT ![g] = IF trouble.refused THEN @ ELSE pass.status]
        /\ down' = pass.down
        /\ asleep' = pass.asleep

\* The groups that will own the namespaces once g is gone.
successors(g) == NamespaceOwners([Listed EXCEPT ![g].there = FALSE])

\* releaseEverything for a group being deleted.
GroupRelease(g, failed) ==
    LET st == status[g]
        owners == NamespaceOwners([Listed EXCEPT ![g] = claim(g, st.selected)])
        own == members(g, st.selected)
        conflicting == own \cap ownedByOthers(owners, g)
        all == (own \cup st.managed \cup st.recorded) \ conflicting
        next == successors(g)
        handed == {n \in all : next[n] # None}
        freed == (all \ handed) \ failed
    IN  [failed |-> all \cap failed,
         down |-> down \ {n \in freed : restores(st.phase, n \in st.recorded)},
         asleep |-> asleep \ ({n \in freed : wakes(st.phase, n \in st.recorded)}
                              \cup handOver(Listed, next, handed \ failed))]

\* finalize: the group goes once everything is released, is tried again, or is
\* given up ten minutes after its deletion.
FinalizeGroup(g, trouble) ==
    /\ life[g] = "deleting" /\ ~trouble.slow /\ ~trouble.refused
    /\ UNCHANGED <<userVars, status, config, seen, changes>>
    /\ Count(trouble)
    /\ \E released \in {GroupRelease(g, trouble.failed)} :
        /\ trouble.givenUp => released.failed # {}
        /\ down' = released.down
        /\ asleep' = released.asleep
        /\ life' = IF released.failed = {} \/ trouble.givenUp
                   THEN [life EXCEPT ![g] = "gone"] ELSE life
        /\ abandoned' = IF trouble.givenUp THEN abandoned \cup released.failed ELSE abandoned

-----------------------------------------------------------------------------
(* The reconcile of a config, named by its namespace.                       *)

isManagedByGroup(n) == NamespaceOwners(Listed)[n] # None

\* Reconcile of a config that is not being deleted.  An error ends it before
\* anything is stored.
ConfigPass(n, slow) ==
    LET sp == spec[n]
        st == config[n]
        up == wants[n]
        ready == ~slow
        toPage == sp.page /\ ready /\ ~up
        fromPage == IF sp.page THEN ready /\ up ELSE st.shown
    IN  IF isManagedByGroup(n)
        THEN [status |-> [st EXCEPT !.phase = "OverriddenByGroup"],
              down |-> down, asleep |-> asleep]
        ELSE IF sp.dryRun
        THEN [status |-> [st EXCEPT !.phase = "DryRun"], down |-> down, asleep |-> asleep]
        ELSE [status |-> [phase |-> settledPhase(up, ready),
                          recorded |-> st.recorded \/ (~up /\ n \notin down),
                          shown |-> sp.page /\ IF ready THEN ~up ELSE st.shown],
              down |-> IF up THEN down \ {n} ELSE down \cup {n},
              asleep |-> IF toPage THEN asleep \cup {n}
                         ELSE IF fromPage THEN asleep \ {n} ELSE asleep]

ReconcileConfig(n, trouble) ==
    /\ life[n] = "live" /\ trouble.failed = {}
    /\ UNCHANGED <<userVars, life, status, seen, abandoned, changes>>
    /\ Count(trouble)
    /\ \E pass \in {ConfigPass(n, trouble.slow)} :
        /\ config' = [config EXCEPT ![n] = IF trouble.refused THEN @ ELSE pass.status]
        /\ down' = pass.down
        /\ asleep' = pass.asleep

\* finalize and releaseEverything of a config: a namespace that a group owns, or
\* owned when the config was last reconciled, is the group's.
FinalizeConfig(n, trouble) ==
    LET groups == config[n].phase = "OverriddenByGroup" \/ isManagedByGroup(n)
        st == config[n]
        released == ~groups /\ trouble = NoTrouble
    IN  /\ life[n] = "deleting"
        /\ trouble = NoTrouble \/ (~groups /\ trouble.failed = {n} /\ trouble.givenUp)
        /\ UNCHANGED <<userVars, status, config, seen, changes>>
        /\ Count(trouble)
        /\ down' = IF released /\ restores(st.phase, st.recorded) THEN down \ {n} ELSE down
        /\ asleep' = IF released /\ wakes(st.phase, st.recorded) THEN asleep \ {n} ELSE asleep
        /\ life' = [life EXCEPT ![n] = "gone"]
        /\ abandoned' = IF trouble.givenUp THEN abandoned \cup {n} ELSE abandoned

-----------------------------------------------------------------------------
(* Users, clocks and the cache.                                             *)

\* Every reconcile would find things as they should be.
Settled ==
    /\ \A s \in Schedules : life[s] # "deleting"
    /\ CacheLags => seen = Actual
    /\ \A g \in {h \in Groups : life[h] = "live"} :
        GroupPass(g, Division(g), {}, FALSE)
            = [status |-> status[g], down |-> down, asleep |-> asleep]
    /\ \A n \in {c \in Configs : life[c] = "live"} :
        ConfigPass(n, FALSE) = [status |-> config[n], down |-> down, asleep |-> asleep]

\* Hours begin or end, or a user overrides them.
Flip(s) ==
    /\ life[s] = "live"
    /\ wants' = [wants EXCEPT ![s] = ~@]
    /\ UNCHANGED <<spec, matches, life>>

Edit(s) ==
    /\ life[s] = "live"
    /\ \E sp \in (IF s \in Groups THEN GroupSpecs ELSE ConfigSpecs) \ {spec[s]} :
        spec' = [spec EXCEPT ![s] = sp]
    /\ UNCHANGED <<matches, wants, life>>

\* The label of a namespace changes.
Relabel(g, n) ==
    /\ life[g] = "live" /\ spec[g].selector
    /\ matches' = [matches EXCEPT ![g] = IF n \in @ THEN @ \ {n} ELSE @ \cup {n}]
    /\ UNCHANGED <<spec, wants, life>>

Delete(s) ==
    /\ life[s] = "live"
    /\ life' = [life EXCEPT ![s] = "deleting"]
    /\ UNCHANGED userVars

Change ==
    /\ changes < MaxChanges
    /\ Patient => Settled
    /\ changes' = changes + 1
    /\ \/ \E s \in Schedules : Flip(s) \/ Edit(s) \/ Delete(s)
       \/ \E g \in Groups, n \in Namespaces : Relabel(g, n)
    /\ UNCHANGED <<status, config, seen, down, asleep, abandoned, faults>>

CacheSync(g) ==
    /\ CacheLags /\ seen[g] # Actual[g]
    /\ seen' = [seen EXCEPT ![g] = Actual[g]]
    /\ UNCHANGED <<userVars, life, status, config, down, asleep, abandoned, boundVars>>

-----------------------------------------------------------------------------
Init ==
    /\ spec \in [Schedules -> GroupSpecs \cup ConfigSpecs]
    /\ \A g \in Groups : spec[g] \in GroupSpecs /\ ~spec[g].dryRun
    /\ \A n \in Configs : spec[n] \in ConfigSpecs
    /\ \E labelled \in {{}, Namespaces} :
        matches = [g \in Groups |-> IF spec[g].selector THEN labelled ELSE {}]
    /\ wants \in [Schedules -> BOOLEAN]
    /\ life = [s \in Schedules |-> "live"]
    /\ status = [g \in Groups |->
          [phase |-> "", selected |-> {}, managed |-> {}, recorded |-> {}, shown |-> FALSE]]
    /\ config = [n \in Configs |-> [phase |-> "", recorded |-> FALSE, shown |-> FALSE]]
    /\ seen = Actual
    /\ down = {} /\ asleep = {} /\ abandoned = {}
    /\ changes = 0 /\ faults = 0

Reconcile(s, trouble) ==
    IF s \in Groups THEN ReconcileGroup(s, trouble) \/ FinalizeGroup(s, trouble)
                    ELSE ReconcileConfig(s, trouble) \/ FinalizeConfig(s, trouble)

Next ==
    \/ \E s \in Schedules, trouble \in Troubles : Reconcile(s, trouble)
    \/ \E g \in Groups : CacheSync(g)
    \/ Change

Spec == Init /\ [][Next]_vars

\* Every schedule is reconciled again and again (it is requeued within five
\* minutes), in the end without trouble, and the cache follows.
Fairness ==
    /\ \A s \in Schedules : WF_vars(Reconcile(s, NoTrouble))
    /\ \A g \in Groups : WF_vars(CacheSync(g))

FairSpec == Spec /\ Fairness

-----------------------------------------------------------------------------
(* Properties.                                                              *)

\* The namespaces a dry run may keep as it found them.
InDryRun ==
    {n \in Configs : life[n] = "live" /\ spec[n].dryRun}
    \cup UNION {members(g, status[g].selected) :
                  g \in {h \in Groups : life[h] = "live" /\ spec[h].dryRun}}

\* Where a namespace should be: where its owner wants it, else where its config
\* wants it; without either it is up.
ShouldBeDown(n) ==
    LET owner == NamespaceOwners(Actual)[n]
    IN  IF owner # None THEN ~wants[owner]
        ELSE n \in Configs /\ life[n] = "live" /\ ~spec[n].dryRun /\ ~wants[n]

Undecided(n) ==
    /\ NamespaceOwners(Actual)[n] = None /\ n \in InDryRun
    /\ n \in Configs => life[n] = "gone" \/ spec[n].dryRun

\* Deleting a schedule restores what it scaled down, release brings back what a
\* group scaled down in namespaces that left it, and a shared namespace obeys
\* one owner: in the end every namespace is where its owner wants it, and
\* without an owner it is up (NamespaceOwners, release, releaseEverything).
EndsAsOwned ==
    <>[](\A n \in Namespaces \ abandoned :
            Undecided(n) \/ (n \in down <=> ShouldBeDown(n)))

\* The documentation of the removal: deleting a schedule restores what it scaled
\* down, so that once all schedules are deleted nothing is left down.
UninstallRestores == (\A s \in Schedules : life[s] = "gone") => down \subseteq abandoned

\* A live group owns a namespace by its stored selection and by the labels.
Owns(g, n) ==
    /\ life[g] = "live"
    /\ NamespaceOwners(Actual)[n] = g
    /\ NamespaceOwners([h \in Groups |-> claim(h, matches[h])])[n] = g

UpToDate == CacheLags => seen = Actual

\* No reconcile of another schedule moves a namespace away from where its
\* owning group wants it (plan.ConflictingNamespaces, successors,
\* isManagedByGroup).
OwnerUndisturbed ==
    [][\A n \in (down \ down') \cup (down' \ down) :
         \A g \in Groups :
            UpToDate /\ Owns(g, n) /\ Owns(g, n)' => (n \in down' <=> ~wants[g])]_vars

=============================================================================
