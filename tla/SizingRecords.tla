---------------------------- MODULE SizingRecords ----------------------------
(***************************************************************************)
(* internal/optimize and internal/api/rightsizing_actions.go: advice is    *)
(* applied to workloads or proposed as a pull request, taken back by hand, *)
(* for a whole namespace or by the guard, and every change is on record in *)
(* the namespace's NamespaceOptimization.  An operation is several calls:  *)
(* it reads, writes the workload, reads the record and writes it where     *)
(* nobody else has meanwhile.  Operators of the dashboard and the guard do *)
(* this at the same time, and every call may fail.                         *)
(***************************************************************************)
EXTENDS OperatorClock

CONSTANTS Works,        \* the workloads of the namespace
          NameOf,       \* their names: two kinds may share one
          Managed,      \* those a GitOps tool owns
          Requests,     \* the requests a workload may have
          Operators,    \* people at the dashboard
          Guard,        \* the leader's guard
          GuardPeriod,  \* ticks a change is watched for
          MaxTries      \* attempts of retry.OnError

VARIABLES req,    \* workload -> its requests
          bad,    \* workloads whose newest pods restart, crash-loop or are OOM-killed
          opt,    \* the NamespaceOptimization: version (0 before it exists), works
          calls,  \* process -> the operation under way
          was,    \* workload -> what the last change replaced
          doubt   \* workloads two operations met on, or an operation left half done

recordVars == <<req, bad, opt, calls, was, doubt>>

ASSUME RecordAssumption ==
    /\ Managed \subseteq Works /\ Requests # {}
    /\ Guard \notin Operators /\ NameOf \in [Works -> STRING]

Procs == Operators \cup {Guard}
NoRecord == [state |-> "none"]
IdleCall == [pc |-> "idle", todo |-> {}]

RecordInit ==
    /\ req = [w \in Works |-> CHOOSE v \in Requests : TRUE]
    /\ bad = {}
    /\ opt = [version |-> 0, works |-> [w \in Works |-> NoRecord]]
    /\ calls = [p \in Procs |-> IdleCall]
    /\ was = req
    /\ doubt = {}

\* The workloads an operation is at, or has read and will come to.
At(p) ==
    {t.w : t \in calls[p].todo} \cup (IF calls[p].pc \in {"idle", "next"} THEN {} ELSE {calls[p].w})
Met(works, p) == {w \in works : \E q \in Procs \ {p} : w \in At(q)}

Call(pc, w, rec) == [pc |-> pc, w |-> w, rec |-> rec, tries |-> 0, seen |-> opt, old |-> was[w], todo |-> {}]

-----------------------------------------------------------------------------
\* Apply, until the workload is written: load, refuse what GitOps would put back and
\* advice that changes nothing, note the old requests.
Apply(p, w, v) ==
    /\ calls[p].pc = "idle" /\ p \in Operators /\ w \notin Managed /\ v # req[w] /\ Change
    /\ calls' = [calls EXCEPT ![p] = Call("patch", w,
           [state |-> "applied", original |-> req[w], optimized |-> v, at |-> now])]
    /\ doubt' = doubt \cup Met({w}, p)
    /\ UNCHANGED <<req, bad, opt, was>>

\* The workload gets the requests of the advice, and new pods.
Patch(p) ==
    /\ calls[p].pc = "patch"
    /\ LET w == calls[p].w
       IN \/ /\ NoFault
             /\ req' = [req EXCEPT ![w] = calls[p].rec.optimized]
             /\ was' = [was EXCEPT ![w] = req[w]]
             /\ bad' = bad \ {w}
             /\ calls' = [calls EXCEPT ![p].pc = "get", ![p].old = was[w]]
          \/ /\ Fault
             /\ calls' = [calls EXCEPT ![p] = IdleCall]
             /\ UNCHANGED <<req, was, bad>>
    /\ UNCHANGED <<opt, doubt>>

\* proposeRightsizing: a pull request, which changes no workload, is recorded too, in
\* place of what was on record.
Propose(p, w, v) ==
    /\ calls[p].pc = "idle" /\ p \in Operators /\ v # req[w] /\ Change
    /\ calls' = [calls EXCEPT ![p] = Call("get", w,
           [state |-> "proposed", original |-> req[w], optimized |-> v, at |-> now])]
    /\ doubt' = doubt \cup Met({w}, p)
    /\ UNCHANGED <<req, bad, opt, was>>

\* Revert reads the record; what was only proposed or is back already is not restored.
Reverting(w) ==
    IF opt.works[w].state \in {"proposed", "reverted"} THEN "get" ELSE "restore"

Revert(p, w) ==
    /\ calls[p].pc = "idle" /\ p \in Operators /\ opt.works[w] # NoRecord /\ Change
    /\ calls' = [calls EXCEPT ![p] = Call(Reverting(w), w, [opt.works[w] EXCEPT !.state = "reverted"])]
    /\ doubt' = doubt \cup Met({w}, p)
    /\ UNCHANGED <<req, bad, opt, was>>

\* What ends an operation, or the part of it that is about one workload.
Finished(p) == IF calls[p].todo = {} THEN IdleCall ELSE [calls[p] EXCEPT !.pc = "next"]

\* restore: the old requests are written back.  Undoing an Apply that could not be
\* recorded ends here.
Restore(p) ==
    /\ calls[p].pc \in {"restore", "undo"}
    /\ LET w == calls[p].w
       IN \/ /\ NoFault
             /\ req' = [req EXCEPT ![w] = calls[p].rec.original]
             /\ bad' = bad \ {w}
             /\ was' = [was EXCEPT ![w] = calls[p].old]
             /\ calls' = [calls EXCEPT ![p] = IF @.pc = "undo" THEN IdleCall ELSE [@ EXCEPT !.pc = "get"]]
             /\ UNCHANGED doubt
          \/ /\ Fault
             /\ calls' = [calls EXCEPT ![p] = IF p = Guard THEN Finished(p) ELSE IdleCall]
             /\ doubt' = IF calls[p].pc = "undo" THEN doubt \cup {w} ELSE doubt
             /\ UNCHANGED <<req, bad, was>>
    /\ UNCHANGED opt

-----------------------------------------------------------------------------
\* Mutant: an Apply that could not be recorded stays.
UnrecordedStays(p) == IF p = Guard THEN Finished(p) ELSE IdleCall

\* An operation that could not be recorded: Apply is undone, and what Revert restored
\* stays restored and on record as it was.  RevertAll stops, the guard goes on.
Unrecorded(p) ==
    IF calls[p].rec.state = "applied" THEN [calls[p] EXCEPT !.pc = "undo"]
    ELSE IF p = Guard THEN Finished(p) ELSE IdleCall

Fails(p) ==
    /\ calls' = [calls EXCEPT ![p] = Unrecorded(p)]
    /\ doubt' = IF calls[p].rec.state = "reverted" THEN doubt \cup {calls[p].w} ELSE doubt

\* recordOnce reads the NamespaceOptimization and creates it when missing.
GetRecord(p) ==
    /\ calls[p].pc = "get"
    /\ \/ /\ NoFault
          /\ opt' = IF opt.version = 0 THEN [opt EXCEPT !.version = 1] ELSE opt
          /\ calls' = [calls EXCEPT ![p].pc = "update", ![p].seen = opt']
          /\ UNCHANGED doubt
       \/ Fault /\ Fails(p) /\ UNCHANGED opt
    /\ UNCHANGED <<req, bad, was>>

\* Nobody has written the record since the operation read it.
Current(p) == opt.version = calls[p].seen.version

\* Status().Update of the record as it was read, with the workload's entry replaced: refused
\* when it has changed since, which Record tries again, and when another kind of workload
\* has the name (the list of the status is a map keyed by name alone).
UpdateRecord(p) ==
    /\ calls[p].pc = "update"
    /\ LET w == calls[p].w
           taken == \E u \in Works \ {w} : NameOf[u] = NameOf[w] /\ opt.works[u] # NoRecord
       IN \/ /\ NoFault /\ Current(p) /\ ~taken
             /\ opt' = [version |-> opt.version + 1, works |-> [calls[p].seen.works EXCEPT ![w] = calls[p].rec]]
             /\ calls' = [calls EXCEPT ![p] = Finished(p)]
             /\ UNCHANGED doubt
          \/ /\ NoFault /\ ~Current(p) /\ calls[p].tries < MaxTries
             /\ calls' = [calls EXCEPT ![p].pc = "get", ![p].tries = @ + 1]
             /\ UNCHANGED <<opt, doubt>>
          \/ /\ IF Current(p) THEN (taken /\ NoFault) \/ Fault
                ELSE (calls[p].tries = MaxTries /\ NoFault) \/ Fault
             /\ Fails(p)
             /\ UNCHANGED opt
    /\ UNCHANGED <<req, bad, was>>

-----------------------------------------------------------------------------
\* RevertAll and Guard.Check read every record at the start and go through them.
ReadAll(p, picked) ==
    /\ calls[p].pc = "idle" /\ picked # {}
    /\ calls' = [calls EXCEPT ![p] = [IdleCall EXCEPT !.pc = "next",
           !.todo = {[w |-> w, rec |-> opt.works[w]] : w \in picked}]]
    /\ doubt' = doubt \cup Met(picked, p)
    /\ UNCHANGED <<req, bad, opt, was>>

RevertAll(p) ==
    /\ p \in Operators /\ Change
    /\ ReadAll(p, {w \in Works : opt.works[w].state \in {"applied", "kept"}})

Check == NoFault /\ ReadAll(Guard, {w \in Works : opt.works[w].state = "applied"})

\* The next workload of RevertAll is reverted.  The guard reverts one whose new pods are
\* in trouble, and keeps one that has been quiet for its period: it writes the record it
\* listed at the start.  Revert reads the record again.
NextOf(p) ==
    /\ calls[p].pc = "next" /\ NoFault
    /\ \E t \in calls[p].todo :
           LET rest == calls[p].todo \ {t}
               go(pc, rec) == [Call(pc, t.w, rec) EXCEPT !.todo = rest]
           IN calls' = [calls EXCEPT ![p] =
                  IF p # Guard \/ t.w \in bad
                      THEN go(Reverting(t.w), [opt.works[t.w] EXCEPT !.state = "reverted"])
                  ELSE IF now - t.rec.at >= GuardPeriod THEN go("get", [t.rec EXCEPT !.state = "kept"])
                  ELSE [@ EXCEPT !.todo = rest, !.pc = IF rest = {} THEN "idle" ELSE "next"]]
    /\ UNCHANGED <<req, bad, opt, was, doubt>>

\* The new pods of a workload restart, crash-loop or are OOM-killed.
Trouble(w) ==
    /\ opt.works[w].state = "applied" /\ w \notin bad /\ Change
    /\ bad' = bad \cup {w}
    /\ UNCHANGED <<req, opt, calls, was, doubt>>

RecordNext ==
    \/ \E p \in Procs :
        \/ \E w \in Works, v \in Requests : Apply(p, w, v) \/ Propose(p, w, v)
        \/ \E w \in Works : Revert(p, w)
        \/ RevertAll(p)
        \/ Patch(p) \/ Restore(p) \/ GetRecord(p) \/ UpdateRecord(p) \/ NextOf(p)
    \/ Check
    \/ \E w \in Works : Trouble(w)

-----------------------------------------------------------------------------
\* What a workload's record says of it.
Truthful(w) ==
    LET r == opt.works[w]
    IN CASE r.state \in {"applied", "kept"} -> req[w] = r.optimized /\ was[w] = r.original
         [] r.state = "reverted" -> req[w] = r.original
         [] OTHER -> TRUE

\* The record tells the truth about every workload no operation is at: what is applied
\* or kept is in force, with what it replaced to go back to, and what is reverted is
\* back, also when recording failed and Apply had to undo itself.  Two operations that
\* met on the workload, and a Revert or an undoing that failed half way, are the
\* exceptions (Apply, Revert, Record).
RecordTellsTruth ==
    \A w \in Works \ doubt : (\A p \in Procs : w \notin At(p)) => Truthful(w)
=============================================================================
