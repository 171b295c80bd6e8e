---------------------------- MODULE PreviewCleanup ----------------------------
(***************************************************************************)
(* internal/cleanup and internal/api/namespace_ttl.go: preview namespaces  *)
(* are deleted once they outlive their time to live.  The reaper plans,    *)
(* then walks its plan: it posts warnings and stamps them on the namespace,*)
(* deletes what expired and records the deletions for the hourly limit.    *)
(* Users create, label, extend and delete namespaces at any moment of a    *)
(* run, and the run may break off after every call.                        *)
(***************************************************************************)
EXTENDS OperatorClock, Notifications

CONSTANTS Names,          \* names of namespaces the selector picks
          System,         \* kube-*, default and the operator's own, among them
          Settings,       \* values of spec.namespaceTTL somebody may save
          Labels,         \* values of the costdeck.io/ttl label
          Extensions,     \* how much longer a user asks for
          Hour,           \* ticks of an hour
          MaxDeletionsAnHour, LogSize,
          DefaultWarnBefore,
          CleanupChannels,    \* the notification channels
          MaxLives        \* how often a name is created

VARIABLES namespaces,   \* name -> namespace, or Absent
          lives,        \* name -> how often it was created: the UID
          setting,      \* spec.namespaceTTL
          deletedLog,   \* the costdeck-namespace-ttl ConfigMap, newest first
          reaper,       \* the run under way
          told,         \* name -> the expiries a warning was posted for
          promised,     \* name -> the expiry Extend last answered between two runs
          deletions     \* every deletion: when its run began, and whether it was recorded

cleanupVars == <<namespaces, lives, setting, deletedLog, reaper, told, promised, deletions>>

\* The label's values that are not a duration.
NoLabel == -1
OffLabel == -2
BadLabel == -3

ASSUME CleanupAssumption ==
    /\ IsFiniteSet(Names) /\ System \subseteq Names /\ Hour \in Nat \ {0}
    /\ MaxDeletionsAnHour \in Nat /\ LogSize \in Nat /\ MaxDeletionsAnHour <= LogSize
    /\ DefaultWarnBefore \in Nat
    /\ \A t \in Settings : t.ttl \in Nat \cup {None} /\ t.warn \in Nat \cup {None}
    /\ Labels \subseteq (Nat \ {0}) \cup {OffLabel, BadLabel} /\ Extensions \subseteq Nat \ {0}

Absent == [uid |-> 0]
Idle == [pc |-> "idle"]

\* A namespace as it is created, perhaps with a label the CI sets.
Fresh(uid, label) ==
    [uid |-> uid, created |-> now, label |-> label, listed |-> FALSE,
     expires |-> None, warned |-> None]

CleanupInit ==
    /\ namespaces = [n \in Names |-> Fresh(1, NoLabel)]
    /\ lives = [n \in Names |-> 1]
    /\ setting \in Settings
    /\ deletedLog = <<>>
    /\ reaper = Idle
    /\ told = [n \in Names |-> {}]
    /\ promised = [n \in Names |-> None]
    /\ deletions = {}

-----------------------------------------------------------------------------
\* ParseTTL, of a label: days or a Go duration, always positive.
ParseTTL(label) == IF label > 0 THEN label ELSE None

\* protected, and what Plan adds: a label that cannot be read, no time to live.
protected(n, ns) ==
    \/ n \in System \/ ns.label \in {OffLabel, BadLabel} \/ ns.listed

\* The time to live: the label's, or else the setting's.
Life(ns, t) == IF ParseTTL(ns.label) # None THEN ParseTTL(ns.label) ELSE t.ttl

\* Mutant: any warning will do, also one about an earlier expiry.
PlannedAnyWarning(n, ns, t) ==
    LET entry(expires, kept) ==
            [name |-> n, uid |-> ns.uid, expires |-> expires, protected |-> kept,
             warned |-> ns.warned # None]
    IN IF ns.expires # None THEN entry(ns.expires, protected(n, ns))
       ELSE IF Life(ns, t) = None THEN entry(ns.created, TRUE)
       ELSE entry(ns.created + Life(ns, t), protected(n, ns))

\* Plan, of one namespace.  An extension, or a postponed deletion, goes before the
\* time to live; the warning counts only if it was about this very expiry.
Planned(n, ns, t) ==
    LET entry(expires, kept) ==
            [name |-> n, uid |-> ns.uid, expires |-> expires, protected |-> kept,
             warned |-> ns.warned = expires]
    IN IF ns.expires # None THEN entry(ns.expires, protected(n, ns))
       ELSE IF Life(ns, t) = None THEN entry(ns.created, TRUE)
       ELSE entry(ns.created + Life(ns, t), protected(n, ns))

Plan(t) == {Planned(n, namespaces[n], t) : n \in {m \in Names : namespaces[m] # Absent}}

\* Soonest first, the protected ones last; sort.Slice leaves ties in any order.
Sorted(entries) ==
    {s \in SetToSeqs(entries) :
        \A i, j \in DOMAIN s : i < j =>
            /\ s[i].protected => s[j].protected
            /\ s[i].protected = s[j].protected => s[i].expires <= s[j].expires}

\* Mutant: every run has the whole budget.
budgetOfARun(at) == MaxDeletionsAnHour

\* deletionBudget: what the record of the last hour leaves.
deletionBudget(at) ==
    MaxDeletionsAnHour - Cardinality({i \in DOMAIN deletedLog : at - deletedLog[i] < Hour})

warnBefore(t) == IF t.warn = None THEN DefaultWarnBefore ELSE t.warn

-----------------------------------------------------------------------------
\* Reaper.Run up to its loop: the setting, the plan and the budget are read once.
RunBegins ==
    /\ reaper = Idle /\ setting.enabled /\ ~setting.dryRun /\ setting.selector
    /\ \E plan \in Sorted(Plan(setting)) :
        reaper' = [pc |-> "walk", plan |-> plan, at |-> now, budget |-> deletionBudget(now),
                   warn |-> warnBefore(setting)]
    /\ NoFault
    /\ UNCHANGED <<namespaces, lives, setting, deletedLog, told, promised, deletions>>

Walking == reaper.pc = "walk" /\ reaper.plan # <<>>
Entry == Head(reaper.plan)
Expired == reaper.at >= Entry.expires
Onwards(r) == [r EXCEPT !.plan = Tail(@), !.pc = "walk"]

\* Nothing to do for this namespace: protected, left for later, or not yet due.
SkipEntry ==
    /\ Walking
    /\ \/ Entry.protected
       \/ /\ Expired /\ reaper.budget <= 0
          /\ reaper.warn = 0 \/ Entry.warned
       \/ ~Expired /\ (reaper.warn = 0 \/ Entry.warned \/ reaper.at < Entry.expires - reaper.warn)
    /\ reaper' = Onwards(reaper)
    /\ NoFault
    /\ UNCHANGED <<namespaces, lives, setting, deletedLog, told, promised, deletions>>

\* warn, up to the message: for a namespace that is due, or one that expired before
\* anybody was told, which gets the full lead from now on.  A message that no
\* channel took ends the run.
WarnEntry ==
    /\ Walking /\ ~Entry.protected /\ reaper.warn > 0 /\ ~Entry.warned
    /\ Expired \/ reaper.at >= Entry.expires - reaper.warn
    /\ \E up \in SUBSET DOMAIN CleanupChannels :
        /\ IF up = DOMAIN CleanupChannels THEN NoFault ELSE Fault
        /\ LET until == IF Expired THEN reaper.at + reaper.warn ELSE Entry.expires
           IN IF Send(CleanupChannels, "alerts", up).err
              THEN reaper' = Idle /\ UNCHANGED told
              ELSE /\ told' = [told EXCEPT ![Entry.name] = @ \cup {until}]
                   /\ reaper' = [pc |-> "stamp", plan |-> reaper.plan, at |-> reaper.at, budget |-> reaper.budget,
                                warn |-> reaper.warn, until |-> until, postponed |-> Expired]
    /\ UNCHANGED <<namespaces, lives, setting, deletedLog, promised, deletions>>

\* warn, the patch: by name, so whatever namespace now has it is stamped.
StampWarning ==
    /\ reaper.pc = "stamp"
    /\ \/ /\ namespaces[Entry.name] # Absent
          /\ namespaces' = [namespaces EXCEPT
                ![Entry.name].warned = reaper.until,
                ![Entry.name].expires = IF reaper.postponed THEN reaper.until ELSE @]
          /\ reaper' = [pc |-> "walk", plan |-> Tail(reaper.plan), at |-> reaper.at, budget |-> reaper.budget,
                        warn |-> reaper.warn]
          /\ NoFault
       \/ /\ namespaces[Entry.name] = Absent
          /\ reaper' = Idle /\ NoFault /\ UNCHANGED namespaces
    /\ UNCHANGED <<lives, setting, deletedLog, told, promised, deletions>>

\* delete: in the background, and only the namespace the plan saw.  One that has
\* gone or was created anew counts against this run's budget all the same.
DeleteEntry ==
    /\ Walking /\ ~Entry.protected /\ Expired /\ reaper.budget > 0
    /\ reaper.warn = 0 \/ Entry.warned
    /\ IF namespaces[Entry.name].uid = Entry.uid
       THEN /\ namespaces' = [namespaces EXCEPT ![Entry.name] = Absent]
            /\ reaper' = [reaper EXCEPT !.pc = "record", !.budget = @ - 1]
            /\ deletions' = deletions \cup
                   {[name |-> Entry.name, uid |-> Entry.uid, at |-> reaper.at, recorded |-> FALSE]}
       ELSE /\ reaper' = Onwards([reaper EXCEPT !.budget = @ - 1])
            /\ UNCHANGED <<namespaces, deletions>>
    /\ NoFault
    /\ UNCHANGED <<lives, setting, deletedLog, told, promised>>

\* record, and the announcement: neither failing stops the run.
RecordDeletion ==
    /\ reaper.pc = "record"
    /\ reaper' = Onwards(reaper)
    /\ \/ /\ NoFault
          /\ deletedLog' = SubSeq(<<reaper.at>> \o deletedLog, 1,
                                  IF Len(deletedLog) < LogSize THEN Len(deletedLog) + 1 ELSE LogSize)
          /\ deletions' = {[d EXCEPT !.recorded = @ \/ (d.name = Entry.name /\ d.uid = Entry.uid)]
                              : d \in deletions}
       \/ Fault /\ UNCHANGED <<deletedLog, deletions>>
    /\ UNCHANGED <<namespaces, lives, setting, told, promised>>

RunEnds ==
    /\ reaper.pc = "walk" /\ reaper.plan = <<>>
    /\ reaper' = Idle /\ NoFault
    /\ UNCHANGED <<namespaces, lives, setting, deletedLog, told, promised, deletions>>

\* A patch or a delete that fails ends the run, and so does a crash: the next run
\* plans anew.
RunBreaksOff ==
    /\ reaper.pc \in {"walk", "stamp", "record"}
    /\ Fault /\ reaper' = Idle
    /\ UNCHANGED <<namespaces, lives, setting, deletedLog, told, promised, deletions>>
-----------------------------------------------------------------------------
\* applyNamespaceTTLSettings: what the settings page accepts.
Acceptable(t) ==
    /\ t.enabled => t.selector /\ t.ttl # None /\ t.ttl >= Hour
    /\ t.ttl # None /\ t.warn # None => t.warn < t.ttl

SaveSetting(t) ==
    /\ t # setting /\ Acceptable(t)
    /\ setting' = t /\ Change
    /\ UNCHANGED <<namespaces, lives, deletedLog, reaper, told, promised, deletions>>

\* handleExtendNamespace and Extend: refused for what is never deleted.
Extend(n, by) ==
    /\ setting.selector /\ namespaces[n] # Absent
    /\ LET e == Planned(n, namespaces[n], setting)
           until == (IF e.expires < now THEN now ELSE e.expires) + by
       IN /\ ~e.protected
          /\ namespaces' = [namespaces EXCEPT ![n].expires = until, ![n].warned = None]
          /\ promised' = IF reaper = Idle THEN [promised EXCEPT ![n] = until] ELSE promised
    /\ Change
    /\ UNCHANGED <<lives, setting, deletedLog, reaper, told, deletions>>

\* Pipelines and people create, label, schedule and delete namespaces themselves.
CreateNamespace(n) ==
    /\ namespaces[n] = Absent /\ lives[n] < MaxLives
    /\ lives' = [lives EXCEPT ![n] = @ + 1]
    /\ \E label \in Labels \cup {NoLabel} :
        namespaces' = [namespaces EXCEPT ![n] = Fresh(lives[n] + 1, label)]
    /\ promised' = [promised EXCEPT ![n] = None]
    /\ Change /\ UNCHANGED <<setting, deletedLog, reaper, told, deletions>>

EditNamespace(n) ==
    /\ n \notin System /\ namespaces[n] # Absent
    /\ \/ \E label \in Labels \cup {NoLabel} :
            /\ label # namespaces[n].label
            /\ namespaces' = [namespaces EXCEPT ![n].label = label]
       \/ namespaces' = [namespaces EXCEPT ![n].listed = ~@]
       \/ namespaces' = [namespaces EXCEPT ![n] = Absent]
    /\ Change /\ UNCHANGED <<lives, setting, deletedLog, reaper, told, promised, deletions>>

CleanupNext ==
    \/ RunBegins \/ SkipEntry \/ WarnEntry \/ StampWarning \/ DeleteEntry
    \/ RecordDeletion \/ RunEnds \/ RunBreaksOff
    \/ \E t \in Settings : SaveSetting(t)
    \/ \E n \in Names, by \in Extensions : Extend(n, by)
    \/ \E n \in Names : CreateNamespace(n) \/ EditNamespace(n)

-----------------------------------------------------------------------------
\* A namespace this run deletes.
Deletes(n) == \E d \in deletions' \ deletions : d.name = n /\ ~d.recorded /\ namespaces'[n] = Absent

\* Nobody loses a namespace by surprise: a run that warns deletes one only when an
\* earlier message named the expiry it acts on, and that moment has come; and an
\* extension the API answered before the reaper planned is kept, whatever the setting
\* becomes, whoever is warned and however runs break off (Reaper.Run, "A namespace
\* that expired before it was warned about is warned about first"; Extend, Plan).
DeletesAsTold ==
    [][\A n \in Names : Deletes(n) =>
          /\ reaper.warn > 0 => \E until \in told[n] : until = Entry.expires /\ until <= reaper.at
          /\ promised[n] <= reaper.at]_cleanupVars

\* The limit of an hour survives restarts (deletionBudget): what is deleted by the
\* runs of any hour stays within it, but for deletions that could not be recorded.
HourlyLimitKept ==
    \A t \in 0..MaxTime :
        LET inHour == {d \in deletions : t - Hour < d.at /\ d.at <= t}
        IN Cardinality({d \in inHour : d.recorded}) <= MaxDeletionsAnHour
=============================================================================
