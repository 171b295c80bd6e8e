----------------------------- MODULE GroupStages -----------------------------
(***************************************************************************)
(* One ScalingGroup and what it moves, stage by stage: the workloads of    *)
(* its namespaces, the services operators run beside them (hibernate.go),  *)
(* cloud resources (cloud.go and the providers) and the GitOps object that *)
(* would bring the workloads back (gitops.go).  A reconcile is a pass over *)
(* the stages followed by a write of the status; what it moved takes its   *)
(* time, people edit and delete the group at any moment, and a status that *)
(* was read before such a change is refused.  The workloads of a namespace *)
(* are one thing here (WorkloadScaling has the detail), and the members of *)
(* the group stay the same (NamespaceOwnership has the rest).              *)
(***************************************************************************)
EXTENDS OperatorClock, FiniteSetsExt

CONSTANTS Plans,       \* how a behaviour starts: the faults and changes it may have, the
                       \* spec, and what manages the workloads: kind and reach
          Namespaces,  \* the members of the group
          Clouds,      \* cloud resources a sequence may name
          TypeOf,      \* cloud -> its type, one of ResourceTypes
          Blind,       \* namespaces whose rule has no readyField
          Specs,       \* the specs people write
          Timeout,     \* ticks skipOnTimeout gives a stage
          GiveUp       \* ticks after which a deleted group goes anyway

VARIABLES spec,     \* the group's spec: seq, ext, skip, pause, rules
          want,     \* whether the timetable wants the group up
          deleted,  \* when it was deleted, or None
          status,   \* phase, stage, since and stopped; phase "gone" at the end
          pass,     \* a pass whose status is not written yet
          ns,       \* namespace -> work, svc and mark
          cloud,    \* cloud -> its state
          enabled,  \* whether the settings enable the cloud provider
          git,      \* the GitOps object: kind, reach, heals, automated, mark
          moves     \* what this transition has begun, seen arrive and given up on; whether
                    \* the spec was edited or the direction turned unnoticed meanwhile; what was
                    \* begun by a call or under a status that was lost; the cloud resources
                    \* stopped and not seen running since; the namespaces whose rule an edit
                    \* took away with the mark still on the service

stageVars == <<spec, want, deleted, status, pass, ns, cloud, enabled, git, moves>>
vars == <<clockVars, stageVars>>

\* The types the three providers know; the VM stands for Azure's databases too.
AWSTypes == {"aurora", "ec2"}
GCPTypes == {"gce", "cloudsql"}
AzureTypes == {"vm"}
ResourceTypes == AWSTypes \cup GCPTypes \cup AzureTypes

Targets == Namespaces \cup Clouds
NoPass == [busy |-> FALSE]
Gone == status.phase = "gone"

ASSUME StageAssumption ==
    /\ \A p \in Plans : /\ p.faults \in 0..MaxFaults /\ p.changes \in 0..MaxChanges
                        /\ p.spec \in Specs /\ p.kind \in {"argo", "flux", "set"}
    /\ Namespaces \cap Clouds = {} /\ Blind \subseteq Namespaces
    /\ {"nothing", "git"} \cap Targets = {}
    /\ TypeOf \in [Clouds -> ResourceTypes]
    /\ Specs \subseteq [seq : Seq(SUBSET Targets), ext : SUBSET Clouds, skip : BOOLEAN,
                        pause : BOOLEAN, rules : SUBSET Namespaces]
    /\ \A s \in Specs : \A i, j \in DOMAIN s.seq : i # j => s.seq[i] \cap s.seq[j] = {}
    /\ Timeout \in Nat /\ GiveUp \in Nat

Init ==
    /\ now = 0
    /\ \E p \in Plans :
           /\ faults = p.faults /\ changes = p.changes /\ spec = p.spec
           /\ git = [kind |-> p.kind, reach |-> p.reach, heals |-> TRUE, automated |-> TRUE, mark |-> FALSE]
    /\ want = FALSE /\ deleted = None /\ enabled = TRUE
    /\ status = [phase |-> "ScaledUp", stage |-> 0, since |-> 0, stopped |-> {}]
    /\ pass = NoPass
    /\ ns = [n \in Namespaces |-> [work |-> "up", svc |-> "up", mark |-> "none"]]
    /\ cloud = [c \in Clouds |-> "running"]
    /\ moves = [active |-> TRUE, begun |-> {}, met |-> {}, late |-> {}, unsure |-> FALSE,
               lost |-> {}, ours |-> {}, dropped |-> {}, abandoned |-> FALSE]

-----------------------------------------------------------------------------
(* Services that operators run (hibernate.go).  A service is up, stopping,  *)
(* down, starting, or off: stopped by somebody else.                        *)

\* HibernateTargets: the rules of the group cover the services of the namespace.
Covered(n) == n \in spec.rules

\* Mutant: a service that somebody has stopped since is waited for.
WaitsForRunning(s, active) == s.svc = (IF active THEN "up" ELSE "down")

\* serviceReady: it has got there; one that somebody has stopped has the count it asks for.
serviceReady(s, active) == s.svc \in (IF active THEN {"up", "off"} ELSE {"down", "off"})

\* stoppedAlready: there is nothing for setService to stop.
stoppedAlready(s) == s.svc \in {"off", "down", "stopping"}

\* setService, to start it: recorded as starting until it has been seen running.
Start(s) == IF s.mark = "stopped" THEN [s EXCEPT !.svc = "starting", !.mark = "starting"] ELSE s

\* HibernateServices: on the way up only what the rules stopped is started, and forgotten
\* once it runs; on the way down what somebody else stopped stays theirs.  A rule without a
\* readyField waits for nothing.
HibernateServices(s, active, blind) ==
    LET started == Start(s)
    IN IF active
       THEN IF serviceReady(started, TRUE) \/ blind THEN [started EXCEPT !.mark = "none"] ELSE started
       ELSE IF stoppedAlready(s) THEN s ELSE [s EXCEPT !.svc = "stopping", !.mark = "stopped"]

\* ReleaseServices: started and forgotten, without waiting.
ReleaseServices(s) == [Start(s) EXCEPT !.mark = "none"]

\* Mutant: the services are stopped together with the workloads.
WithWorkloads(n, late) == TRUE

\* ScaleTarget of the workloads reports ready: they are down, or their time is up.
WorkloadsDone(n, late) == ns[n].work = "down" \/ late

\* ScaleWithServices: services start before the workloads and stop after them.
ScaleWithServices(n, active, late) ==
    LET s == ns[n]
        awake == IF Covered(n) THEN HibernateServices(s, TRUE, n \in Blind) ELSE s
        stopping == IF s.work \in {"up", "starting"} THEN [s EXCEPT !.work = "stopping"] ELSE s
    IN IF active
       THEN IF Covered(n) /\ awake.mark # "none" THEN awake
            ELSE [awake EXCEPT !.work = IF @ \in {"down", "stopping"} THEN "starting" ELSE @]
       ELSE IF Covered(n) /\ WorkloadsDone(n, late) THEN HibernateServices(stopping, FALSE, n \in Blind)
            ELSE stopping

\* reconcileK8sTarget, once it has scaled: services and workloads are there (ComputePhase).
NamespaceReady(n, active, late) ==
    LET s == ScaleWithServices(n, active, late)
    IN (~Covered(n) \/ n \in Blind \/ serviceReady(s, active)) /\ s.work = (IF active THEN "up" ELSE "down")

\* phaseReachedByScaling: the status shows that the group has scaled something (the replica
\* counts it records are there exactly as long).
scaledByThem == status.phase # "ScaledUp"

\* releaseNamespace: services first, everything in one pass, without waiting.
ReleaseNamespace(n) ==
    LET s == IF Covered(n) THEN ReleaseServices(ns[n]) ELSE ns[n]
    IN IF scaledByThem
       THEN [s EXCEPT !.work = IF @ \in {"down", "stopping"} THEN "starting" ELSE @]
       ELSE ns[n]

-----------------------------------------------------------------------------
(* Cloud resources.  Starting what still stops, and stopping what still      *)
(* starts, does nothing: some APIs' refusal counts as done, others' is an    *)
(* error.                                                                    *)

Refused(c, active) == cloud[c] = (IF active THEN "stopping" ELSE "starting")

\* Scale of AWSProvider: Aurora's refusal counts as done (isInvalidClusterState), EC2's fails.
scaleEC2Fails(c, active) == TypeOf[c] = "ec2" /\ Refused(c, active)

\* Scale of GCPProvider: a conflict on Cloud SQL counts as done, Compute Engine's fails.
GCPFails(c, active) == TypeOf[c] = "gce" /\ Refused(c, active)

\* Scale of AzureProvider: a conflict counts as done.
AzureFails(c, active) == FALSE

\* Resolve: the provider is enabled in the settings.
Resolve(c) == enabled

\* Provider or Scale ends in an error.
CloudFails(c, active) ==
    ~Resolve(c) \/ scaleEC2Fails(c, active) \/ GCPFails(c, active) \/ AzureFails(c, active)

\* What the start or the stop does there.
Scale(c, active) ==
    IF active /\ cloud[c] = "stopped" THEN "starting"
    ELSE IF ~active /\ cloud[c] = "running" THEN "stopping"
    ELSE cloud[c]

isAWSReady(state, active) == state = (IF active THEN "running" ELSE "stopped")
isAzureReady(state, active) == state = (IF active THEN "running" ELSE "stopped")

\* Cloud SQL is stopped once its activation policy says so.
isGCPReady(type, state, active) ==
    IF active THEN state = "running"
    ELSE state = "stopped" \/ (type = "cloudsql" /\ state = "stopping")

IsReady(c, state, active) ==
    \/ TypeOf[c] \in AWSTypes /\ isAWSReady(state, active)
    \/ TypeOf[c] \in GCPTypes /\ isGCPReady(TypeOf[c], state, active)
    \/ TypeOf[c] \in AzureTypes /\ isAzureReady(state, active)

-----------------------------------------------------------------------------
(* Pausing GitOps (gitops.go, controller/gitops.go).                        *)

\* The namespaces its inventory or its resources list; cluster-wide things are one of them.
Reach == git.reach

\* gitOpsOwnersWithWorkloads: it manages workloads of the namespace.
Manages(n) == n \in Reach

\* outsideTheSchedule: pausing it would reach beyond the group.
OutsideTheSchedule == Reach \ Namespaces

\* PauseGitOps: what heals, is nobody else's to pause and manages nothing beyond the group.
Paused ==
    IF /\ \E n \in Namespaces : Manages(n)
       /\ ~git.mark /\ git.heals /\ git.kind # "set" /\ OutsideTheSchedule = {}
    THEN [git EXCEPT !.heals = FALSE, !.mark = TRUE] ELSE git

\* ResumeGitOps: self-heal comes back only while automated sync is on.
Resumed ==
    IF git.mark THEN [git EXCEPT !.heals = (git.kind = "flux" \/ git.automated), !.mark = FALSE] ELSE git

-----------------------------------------------------------------------------
(* The stages of a pass.                                                    *)

\* getScalingStages: the sequence, then what it leaves out; backwards on the way down.
Stages(active) ==
    LET missing == Namespaces \ UNION {spec.seq[i] : i \in DOMAIN spec.seq}
        stages == IF missing = {} THEN spec.seq ELSE Append(spec.seq, missing)
    IN IF active THEN stages ELSE Reverse(stages)

InProgress(active) == IF active THEN "ScalingUp" ELSE "ScalingDown"

\* Mutant: a transition goes on at the stage the one before it was at.
WhereItWas(active) == [stage |-> status.stage, since |-> status.since]

\* A transition that is not under way begins at the first stage.
Progress(active) ==
    IF status.phase = InProgress(active) THEN [stage |-> status.stage, since |-> status.since]
    ELSE [stage |-> 0, since |-> now]

\* Stages left behind, and the current one once its time is up.
Late(i, active) ==
    LET at == Progress(active)
    IN i <= at.stage \/ (i = at.stage + 1 /\ spec.skip /\ now - at.since > Timeout)

\* reconcileTarget says that a target is there; bad is the one whose calls fail.
Ready(t, active, late, bad) ==
    /\ t # bad
    /\ IF t \in Namespaces THEN NamespaceReady(t, active, late)
       ELSE t \in spec.ext /\ ~CloudFails(t, active) /\ IsReady(t, Scale(t, active), active)

\* The stages all of whose targets are there.
DoneStages(active, bad) ==
    {i \in DOMAIN Stages(active) : \A t \in Stages(active)[i] : Ready(t, active, Late(i, active), bad)}

\* A stage starts once the ones before it are there or have used up their time.
Reached(active, done) ==
    {i \in DOMAIN Stages(active) : \A j \in 1..i - 1 : Late(j, active) \/ j \in done}


AllReady(active, done) == done = DOMAIN Stages(active)

StageOf(t, active) == CHOOSE i \in DOMAIN Stages(active) : t \in Stages(active)[i]

\* The targets of the stages a pass reaches.
Scaled(active, done) == UNION {Stages(active)[i] : i \in Reached(active, done)}

\* releaseExternalTargets: recorded targets the stages do not scale any more are started.
Released == {c \in status.stopped : c \notin spec.ext \/ \A i \in DOMAIN spec.seq : c \notin spec.seq[i]}

\* Mutant: it is recorded only once it has been seen stopped.
OnceStopped(stopped, acted, active) ==
    IF active THEN stopped \ {c \in acted : IsReady(c, Scale(c, TRUE), TRUE)}
    ELSE stopped \cup {c \in acted : IsReady(c, Scale(c, FALSE), FALSE)}

\* scaleExternalTarget, which answers: what it stops is recorded until it runs again.
Recorded(stopped, acted, active) ==
    IF active THEN stopped \ {c \in acted : IsReady(c, Scale(c, TRUE), TRUE)} ELSE stopped \cup acted

\* What the pass adds to the account of the transition.
Account(active, bad, scaled, worked) ==
    LET fresh == status.phase # InProgress(active)
        there == {t \in scaled : Ready(t, active, Late(StageOf(t, active), active), bad)}
        stops == {c \in worked \cap Clouds : Scale(c, active) = "stopping"}
        runs == {c \in worked \cap Clouds : active /\ cloud[c] = "running"}
    IN [moves EXCEPT
           !.active = active,
           !.begun = scaled \cup (IF fresh THEN {} ELSE @),
           !.met = there \cup (IF fresh THEN {} ELSE @),
           !.late = (IF fresh THEN {} ELSE @) \cup
                    {t \in scaled \ there : spec.skip /\ Late(StageOf(t, active), active)},
           !.unsure = ~fresh /\ (@ \/ moves.active # active),
           !.ours = (@ \cup stops) \ runs]

\* Reconcile, until the status is written.  One call may fail: it did nothing, or only its
\* answer was lost.  GitOps is paused before anything goes down and resumed once all is up.
Pass(active, bad, effect, done, scaled) ==
    LET worked == {t \in scaled :
                      /\ t # bad \/ effect
                      /\ t \in Clouds => t \in spec.ext /\ ~CloudFails(t, active)}
        started == {c \in Released \ {bad} : ~CloudFails(c, TRUE)}
        ready == AllReady(active, done)
        over == Cardinality({i \in Reached(active, done) : i \in done \/ Late(i, active)})
    IN /\ ns' = [n \in Namespaces |->
              IF n \in worked THEN ScaleWithServices(n, active, Late(StageOf(n, active), active)) ELSE ns[n]]
       /\ cloud' = [c \in Clouds |->
              IF c \in started THEN Scale(c, TRUE) ELSE IF c \in worked THEN Scale(c, active) ELSE cloud[c]]
       /\ git' = IF bad = "git" THEN git
                 ELSE IF ~active /\ spec.pause THEN Paused
                 ELSE IF active /\ ready THEN Resumed ELSE git
       /\ pass' = [busy |-> TRUE, stale |-> FALSE, status |->
              [phase |-> IF ~ready THEN InProgress(active) ELSE IF active THEN "ScaledUp" ELSE "ScaledDown",
               stage |-> IF ready THEN 0 ELSE Max({over, Progress(active).stage}),
               since |-> IF ready THEN 0 ELSE IF over > Progress(active).stage THEN now ELSE Progress(active).since,
               stopped |-> Recorded(Recorded(status.stopped, started, TRUE), (worked \ {bad}) \cap Clouds, active)]]
       /\ moves' = LET m == Account(active, bad, scaled, worked)
                   IN [m EXCEPT !.ours = @ \ {c \in started : cloud[c] = "running"},
                                !.lost = @ \cup ({bad} \cap worked)]
       /\ UNCHANGED <<spec, want, deleted, status, enabled>>

PassOver(active, bad, effect, done) == Pass(active, bad, effect, done, Scaled(active, done))

Reconcile ==
    /\ ~Gone /\ deleted = None /\ ~pass.busy
    /\ \/ NoFault /\ PassOver(want, "nothing", TRUE, DoneStages(want, "nothing"))
       \/ /\ Fault
          /\ \E bad \in Targets \cup {"git"}, effect \in BOOLEAN :
                 PassOver(want, bad, effect, DoneStages(want, bad))

\* updateStatus: refused when the group has changed since it was read; then the next pass
\* starts from the status as it was.
UpdateStatus ==
    /\ pass.busy
    /\ pass' = NoPass
    /\ \/ /\ NoFault /\ ~pass.stale
          /\ status' = pass.status
          /\ moves' = [moves EXCEPT !.lost = (@ \cap moves.ours) \ pass.status.stopped]
       \/ /\ IF pass.stale THEN NoFault ELSE Fault
          /\ moves' = [moves EXCEPT !.lost = @ \cup moves.begun]
          /\ UNCHANGED status
    /\ UNCHANGED <<spec, want, deleted, ns, cloud, enabled, git>>

\* finalize: everything is given back, and the group goes when that worked or has been
\* tried for long enough.
Finalize(bad) ==
    LET started == {c \in status.stopped \ {bad} : ~CloudFails(c, TRUE)}
        failed == bad # "nothing" \/ \E c \in status.stopped : c \notin started \/ cloud[c] # "running"
    IN /\ ~Gone /\ deleted # None /\ ~pass.busy
       /\ ns' = [n \in Namespaces |-> IF n = bad THEN ns[n] ELSE ReleaseNamespace(n)]
       /\ cloud' = [c \in Clouds |-> IF c \in started THEN Scale(c, TRUE) ELSE cloud[c]]
       /\ git' = IF bad = "git" THEN git ELSE Resumed
       /\ status' = IF ~failed \/ now - deleted >= GiveUp THEN [status EXCEPT !.phase = "gone"] ELSE status
       /\ moves' = [moves EXCEPT !.ours = @ \ {c \in started : cloud[c] = "running"}, !.abandoned = failed]
       /\ UNCHANGED <<spec, want, deleted, pass, enabled>>

Delete ==
    /\ ~Gone /\ deleted = None /\ Change
    /\ deleted' = now
    /\ pass' = IF pass.busy THEN [pass EXCEPT !.stale = TRUE] ELSE pass
    /\ UNCHANGED <<spec, want, status, ns, cloud, enabled, git, moves>>

-----------------------------------------------------------------------------
(* What happens around the group, until it is gone.                         *)

\* People edit the group, while a transition or a pass may be under way.
Edit ==
    /\ ~Gone /\ deleted = None /\ Change
    /\ spec' \in Specs \ {spec}
    /\ pass' = IF pass.busy THEN [pass EXCEPT !.stale = TRUE] ELSE pass
    /\ moves' = [moves EXCEPT
           !.unsure = TRUE,
           !.dropped = @ \cup {n \in spec.rules \ spec'.rules : ns[n].mark # "none"}]
    /\ UNCHANGED <<want, deleted, status, ns, cloud, enabled, git>>

\* The timetable, or a person who switches by hand.
Flip == ~Gone /\ Change /\ want' = ~want
        /\ UNCHANGED <<spec, deleted, status, pass, ns, cloud, enabled, git, moves>>

\* The settings switch the cloud provider off or on.
SwitchProvider == ~Gone /\ Change /\ enabled' = ~enabled
                  /\ UNCHANGED <<spec, want, deleted, status, pass, ns, cloud, git, moves>>

Arrives == [stopping |-> "down", starting |-> "up"]

\* Pods stop and get ready, operators and clouds get their resources there.
WorkArrives(n) ==
    /\ ns[n].work \in DOMAIN Arrives /\ ~Gone /\ NoFault
    /\ ns' = [ns EXCEPT ![n].work = Arrives[@]]
    /\ UNCHANGED <<spec, want, deleted, status, pass, cloud, enabled, git, moves>>

ServiceArrives(n) ==
    /\ ns[n].svc \in DOMAIN Arrives /\ ~Gone /\ NoFault
    /\ ns' = [ns EXCEPT ![n].svc = Arrives[@]]
    /\ UNCHANGED <<spec, want, deleted, status, pass, cloud, enabled, git, moves>>

CloudArrives(c) ==
    /\ cloud[c] \in DOMAIN Arrives /\ ~Gone /\ NoFault
    /\ cloud' = [cloud EXCEPT ![c] = IF @ = "stopping" THEN "stopped" ELSE "running"]
    /\ UNCHANGED <<spec, want, deleted, status, pass, ns, enabled, git, moves>>

\* Somebody stops a service by hand, also one that only just starts again.
PersonStops(n) ==
    /\ ns[n].svc \in {"up", "starting"} /\ ~Gone /\ Change
    /\ ns' = [ns EXCEPT ![n].svc = "off"]
    /\ UNCHANGED <<spec, want, deleted, status, pass, cloud, enabled, git, moves>>

\* GitOps brings the workloads back to what Git says.
Sync(n) ==
    /\ git.heals /\ Manages(n) /\ ns[n].work \in {"stopping", "down"} /\ ~Gone /\ NoFault
    /\ ns' = [ns EXCEPT ![n].work = "starting"]
    /\ UNCHANGED <<spec, want, deleted, status, pass, cloud, enabled, git, moves>>

\* Somebody switches an application to manual sync.
SyncByHand ==
    /\ git.automated /\ git.kind = "argo" /\ ~Gone /\ Change
    /\ git' = [git EXCEPT !.automated = FALSE, !.heals = FALSE]
    /\ UNCHANGED <<spec, want, deleted, status, pass, ns, cloud, enabled, moves>>

Time == ~Gone /\ Tick /\ UNCHANGED stageVars

Controller ==
    \/ Reconcile \/ UpdateStatus
    \/ NoFault /\ Finalize("nothing")
    \/ Fault /\ \E bad \in Targets \cup {"git"} : Finalize(bad)

Next ==
    \/ Time \/ Controller \/ Delete \/ Edit \/ Flip \/ SwitchProvider \/ SyncByHand
    \/ \E n \in Namespaces : WorkArrives(n) \/ ServiceArrives(n) \/ PersonStops(n) \/ Sync(n)
    \/ \E c \in Clouds : CloudArrives(c)

Spec == Init /\ [][Next]_vars

\* The controller reconciles every few seconds for as long as the group is not settled, and
\* once a minute then; pods, operators and clouds get there; time passes.
Fairness ==
    /\ WF_vars(Controller) /\ WF_vars(Time)
    /\ \A n \in Namespaces : WF_vars(WorkArrives(n)) /\ WF_vars(ServiceArrives(n))
    /\ \A c \in Clouds : WF_vars(CloudArrives(c))

FairSpec == Spec /\ Fairness

-----------------------------------------------------------------------------
\* A target begins to move only when everything in the stages before it has been there in
\* the same transition, or its stage has used up its time under skipOnTimeout, also when the
\* direction turns or a status is lost on the way (Reconcile's loop, currentStage).  Two
\* things in the middle are the exception: an edit of the group, because currentStage counts
\* stages of the old spec, and a turn whose status is lost, which the next turn hides.
StagesInTurn ==
    ~moves.unsure =>
        \A t \in moves.begun :
            LET active == moves.active
            IN \A j \in 1..StageOf(t, active) - 1 : Stages(active)[j] \subseteq moves.met \cup moves.late

\* "applications never run without their database": a pass stops a service only under
\* workloads that are down, unless skipOnTimeout has given them up, and starts workloads only
\* over services that run or that somebody else has stopped (ScaleWithServices).
ServicesOutliveWorkloads ==
    \A n \in Namespaces :
        pass'.busy /\ ~pass.busy =>
            /\ ns'[n].svc = "stopping" /\ ns[n].svc # "stopping" =>
                   ns[n].work = "down" \/ n \in moves'.late \/ moves'.unsure
            /\ ns'[n].work = "starting" /\ ns[n].work # "starting" /\ Covered(n) =>
                   ns'[n].mark = "none" /\ (ns'[n].svc \in {"up", "off"} \/ n \in Blind)

\* GitOps that was paused is resumed only when every workload of the group is up, also after
\* stages were skipped, or when the group is deleted; and self-heal never comes back to an
\* application that somebody has switched to manual sync (resumeGitOps, ResumeGitOps).
ResumedWhenAllUp ==
    git.mark /\ ~git'.mark =>
        /\ deleted # None \/ \A n \in Namespaces : ns[n].work = "up"
        /\ git'.heals => git.automated

\* What stands around the workloads moves in its turn too: services under them, and GitOps
\* after everything, whatever is skipped, fails or turns meanwhile.
FramedInOrder == [][ServicesOutliveWorkloads /\ ResumedWhenAllUp]_vars

\* A group that is gone, and did not give up, leaves nothing down: workloads and services
\* are started, cloud resources run and GitOps is resumed (finalize), except what was begun
\* under a status that was lost, or by a call whose answer was, and the services an edit has
\* taken out of the rules while they were stopped, which nobody starts any more.
GoneGivesBack ==
    Gone /\ ~moves.abandoned =>
        /\ moves.ours \subseteq moves.lost
        /\ ~git.mark
        /\ \A n \in Namespaces \ moves.lost :
               /\ ns[n].work \in {"up", "starting"}
               /\ Covered(n) => ns[n].mark = "none" \/ n \in moves.dropped

\* While the group is wanted up and its cloud resources can be reached, it arrives:
\* everything runs, nothing is marked any more and GitOps is back.
Reachable ==
    want /\ deleted = None /\ enabled /\ \A i \in DOMAIN spec.seq : spec.seq[i] \cap Clouds \subseteq spec.ext
Arrived ==
    /\ \A n \in Namespaces : ns[n].work = "up" /\ (Covered(n) => ns[n].svc \in {"up", "off"})
    /\ \A c \in spec.ext : (\E i \in DOMAIN spec.seq : c \in spec.seq[i]) => cloud[c] = "running"
    /\ ~git.mark /\ status.stopped = {}
ComesUp == Reachable ~> (Arrived \/ ~Reachable)
=============================================================================
