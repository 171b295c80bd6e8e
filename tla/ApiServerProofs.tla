---------------------------- MODULE ApiServerProofs ----------------------------
(***************************************************************************)
(* Theorems about ApiServer for every number of replicas, browsers,        *)
(* operators and workloads, however long they race: the replicas agree on  *)
(* the signing key, a sign-in leads to one session, the records of         *)
(* right-sizing say what is in force, access that was withdrawn ends, and  *)
(* advice that is followed settles and takes nothing that is needed.       *)
(***************************************************************************)
EXTENDS ApiServer, WellFoundedInduction, TLAPS

-----------------------------------------------------------------------------
(* The signing key.                                                         *)

Keys == Replicas \cup {NoKey, Unusable, "first"}

\* A replica's version of the users' Secret is not of interest here.
ReplicaOf(W) ==
    [pc : {"down", "create", "repair", "up"}, key : Keys, seen : Nat, current : BOOLEAN, wrote : W]

KeyShape ==
    /\ keySecret \in [version : Nat, key : Keys]
    /\ \E W : replica \in [Replicas -> ReplicaOf(W)]

\* A replica that read an unusable key finds it unusable still, or the version moved on:
\* it grows with every write.
KeyHeld(r) ==
    /\ Up(r) => replica[r].key \notin {NoKey, Unusable}
    /\ Up(r) /\ replica[r].current => replica[r].key = keySecret.key
    /\ replica[r].pc = "repair" =>
         /\ replica[r].seen <= keySecret.version
         /\ replica[r].seen = keySecret.version => keySecret.key = Unusable

KeyInv == KeyShape /\ \A r \in Replicas : KeyHeld(r)

LEMMA KeyInit == Init => KeyInv
<1> SUFFICES ASSUME AccountInit PROVE KeyInv
  BY DEF Init
<1>1. PICK key \in {NoKey, "first"} :
        /\ keySecret = [version |-> 0, key |-> key]
        /\ replica = [r \in Replicas |->
             [pc |-> IF key # NoKey THEN "up" ELSE "down", key |-> key, seen |-> 0,
              current |-> key # NoKey, wrote |-> 0]]
  BY DEF AccountInit
<1>2. replica \in [Replicas -> ReplicaOf({0})] /\ keySecret \in [version : Nat, key : Keys]
  BY <1>1 DEF ReplicaOf, Keys
<1>3. \A r \in Replicas : KeyHeld(r)
  BY <1>1 DEF KeyHeld, Up, NoKey, Unusable
<1> QED BY <1>2, <1>3 DEF KeyInv, KeyShape

LEMMA KeyStep == KeyInv /\ [Next]_vars => KeyInv'
<1> SUFFICES ASSUME KeyInv, [Next]_vars PROVE KeyInv'
  OBVIOUS
<1>0. PICK W : replica \in [Replicas -> ReplicaOf(W)] /\ keySecret \in [version : Nat, key : Keys]
  BY DEF KeyInv, KeyShape
<1>1. ASSUME NEW r \in Replicas, ReadKey(r) PROVE KeyInv'
  <2>1. /\ keySecret' = keySecret
        /\ \/ keySecret.key = NoKey /\ replica' = [replica EXCEPT ![r].pc = "create"]
           \/ /\ keySecret.key = Unusable
              /\ replica' = [replica EXCEPT ![r].pc = "repair", ![r].seen = keySecret.version]
           \/ /\ keySecret.key \notin {NoKey, Unusable}
              /\ replica' = [replica EXCEPT ![r].pc = "up", ![r].key = keySecret.key,
                                            ![r].current = TRUE]
    BY <1>1 DEF ReadKey, NoKey, Unusable
  <2>2. replica' \in [Replicas -> ReplicaOf(W)]
    BY <1>0, <2>1 DEF ReplicaOf
  <2>3. KeyHeld(r)'
    BY <1>0, <2>1, <2>2 DEF KeyHeld, Up, ReplicaOf
  <2>4. \A q \in Replicas \ {r} : replica'[q] = replica[q]
    BY <1>0, <2>1
  <2> QED BY <1>0, <2>1, <2>2, <2>3, <2>4 DEF KeyInv, KeyShape, KeyHeld, Up
<1>2. ASSUME NEW r \in Replicas, StoreKey(r) PROVE KeyInv'
  <2> DEFINE key == IF replica[r].pc = "create" THEN WinnersKey(r) ELSE r
             writes == replica[r].pc = "repair" \/ keySecret.key = NoKey
             refused == replica[r].pc = "repair" /\ keySecret.version # replica[r].seen
  <2>1. CASE keySecret' = keySecret /\ replica' = [replica EXCEPT ![r].pc = "down"]
    <3>1. replica' \in [Replicas -> ReplicaOf(W)]
      BY <1>0, <2>1 DEF ReplicaOf
    <3> QED BY <1>0, <2>1, <3>1 DEF KeyInv, KeyShape, KeyHeld, Up, ReplicaOf
  <2>2. CASE /\ ~refused /\ key # Unusable
             /\ keySecret' = IF writes THEN [version |-> keySecret.version + 1, key |-> key]
                             ELSE keySecret
             /\ replica' = [replica EXCEPT ![r] =
                               [@ EXCEPT !.pc = "up", !.key = key, !.current = TRUE]]
    <3>1. key \in Keys
      BY <1>0 DEF Keys, WinnersKey
    <3>2. key # NoKey /\ keySecret'.key = key
      BY <1>2, <2>2, AccountAssumption DEF StoreKey, WinnersKey
    <3>3. /\ keySecret' \in [version : Nat, key : Keys]
          /\ writes => keySecret'.version = keySecret.version + 1
      BY <1>0, <2>2, <3>1
    <3>4. writes => keySecret.key \in {NoKey, Unusable}
      BY <1>2, <2>2 DEF StoreKey, KeyInv, KeyHeld
    <3> HIDE DEF key, writes
    <3>5. /\ replica' \in [Replicas -> ReplicaOf(W)]
          /\ \A q \in Replicas \ {r} : replica'[q] = replica[q]
          /\ replica'[r].pc = "up" /\ replica'[r].key = key
      BY <1>0, <2>2, <3>1 DEF ReplicaOf
    <3>6. KeyHeld(r)'
      BY <2>2, <3>2, <3>5 DEF KeyHeld, Up
    <3>7. \A q \in Replicas \ {r} : KeyHeld(q)'
      <4>1. CASE writes
        BY <1>0, <3>2, <3>3, <3>4, <3>5, <4>1 DEF KeyInv, KeyHeld, Up, ReplicaOf
      <4>2. CASE ~writes
        BY <2>2, <3>5, <4>2 DEF KeyInv, KeyHeld, Up
      <4> QED BY <4>1, <4>2
    <3> QED BY <3>3, <3>5, <3>6, <3>7 DEF KeyInv, KeyShape
  <2> QED BY <1>2, <2>1, <2>2 DEF StoreKey
<1>3. CASE EmptyKey
  <2>1. /\ keySecret' = [version |-> keySecret.version + 1, key |-> Unusable]
        /\ replica' = [r \in Replicas |-> [replica[r] EXCEPT !.current = FALSE]]
    BY <1>3 DEF EmptyKey
  <2>2. ASSUME NEW r \in Replicas
        PROVE  /\ replica'[r] \in ReplicaOf(W) /\ ~replica'[r].current
               /\ replica'[r].pc = replica[r].pc /\ replica'[r].key = replica[r].key
               /\ replica'[r].seen = replica[r].seen
    BY <1>0, <2>1 DEF ReplicaOf
  <2>3. replica' \in [Replicas -> ReplicaOf(W)]
    BY <2>1, <2>2
  <2>4. keySecret' \in [version : Nat, key : Keys] /\ keySecret'.version = keySecret.version + 1
    BY <1>0, <2>1 DEF Keys
  <2>5. ASSUME NEW r \in Replicas PROVE KeyHeld(r)'
    <3>1. replica[r].seen \in Nat /\ keySecret.version \in Nat
      BY <1>0 DEF ReplicaOf
    <3> QED BY <2>2, <2>4, <3>1 DEF KeyInv, KeyHeld, Up
  <2> QED BY <2>3, <2>4, <2>5 DEF KeyInv, KeyShape
<1>4. ASSUME NEW r \in Replicas, Restart(r) PROVE KeyInv'
  <2>1. keySecret' = keySecret /\ replica' = [replica EXCEPT ![r].pc = "down"]
    BY <1>4 DEF Restart
  <2>2. replica' \in [Replicas -> ReplicaOf(W)]
    BY <1>0, <2>1 DEF ReplicaOf
  <2> QED BY <1>0, <2>1, <2>2 DEF KeyInv, KeyShape, KeyHeld, Up, ReplicaOf
<1>5. ASSUME NEW r \in Replicas, Forget(r) PROVE KeyInv'
  <2>1. PICK n : keySecret' = keySecret /\ replica' = [replica EXCEPT ![r].wrote = n]
    BY <1>5 DEF Forget
  <2>2. \A q \in Replicas : replica[q] \in ReplicaOf(W \cup {n})
    BY <1>0 DEF ReplicaOf
  <2>3. /\ [replica[r] EXCEPT !.wrote = n] \in ReplicaOf(W \cup {n})
        /\ replica'[r] = [replica[r] EXCEPT !.wrote = n]
        /\ \A q \in Replicas \ {r} : replica'[q] = replica[q]
    BY <1>0, <2>1 DEF ReplicaOf
  <2>4. replica' \in [Replicas -> ReplicaOf(W \cup {n})]
    BY <1>0, <2>1, <2>2, <2>3
  <2>5. /\ replica'[r].pc = replica[r].pc /\ replica'[r].key = replica[r].key
        /\ replica'[r].seen = replica[r].seen /\ replica'[r].current = replica[r].current
    BY <1>0, <2>3 DEF ReplicaOf
  <2> QED BY <1>0, <2>1, <2>3, <2>4, <2>5 DEF KeyInv, KeyShape, KeyHeld, Up
<1>6. CASE UNCHANGED <<keySecret, replica>>
  BY <1>6 DEF KeyInv, KeyShape, KeyHeld, Up
<1>7. ASSUME KeyNext PROVE \/ EmptyKey \/ UNCHANGED <<keySecret, replica>>
                           \/ \E r \in Replicas : ReadKey(r) \/ StoreKey(r) \/ Restart(r)
  BY <1>7 DEF KeyNext, LoginBuiltin
<1>8. ASSUME SessionNext \/ UserNext \/ TokenNext
      PROVE  (\E r \in Replicas : Forget(r)) \/ UNCHANGED <<keySecret, replica>>
  BY <1>8 DEF SessionNext, UserNext, TokenNext, Load, LoadEnds, ReadForWrite, Update, Begin,
              ChangeOwn, Login, LoginEnds
<1>9. ASSUME SignOnNext PROVE UNCHANGED <<keySecret, replica>>
  BY <1>9 DEF SignOnNext, BeginSignIn, Answer, CompleteSignIn, Configure, accountVars
<1> QED
  BY <1>1, <1>2, <1>3, <1>4, <1>5, <1>6, <1>7, <1>8, <1>9
  DEF Next, vars, access, accountVars

\* All replicas that came up since the Secret was last emptied sign with its
\* key, however many of them race to make or repair it (loadOrCreateSecret).
THEOREM KeyIsAgreed == Spec => []OneSigningKey
<1>1. KeyInv => OneSigningKey
  BY DEF KeyInv, KeyHeld, OneSigningKey
<1> QED BY <1>1, KeyInit, KeyStep, PTL DEF Spec

-----------------------------------------------------------------------------
(* Single sign-on.                                                          *)

\* Every sign-in has a state of its own, and the cookie of one is gone before a
\* session of it exists.
SignInInv ==
    /\ begun \in Nat
    /\ txn = [b \in Browsers |-> txn[b]]
    /\ \A b \in Browsers : txn[b] # Nothing => txn[b].state \in 0..begun - 1
    /\ \A b, d \in Browsers :
        txn[b] # Nothing /\ txn[d] # Nothing /\ txn[b].state = txn[d].state => b = d
    /\ \A a \in answers : a.browser \in Browsers
    /\ \A x \in signIns : /\ x.state \in 0..begun - 1
                          /\ \A b \in Browsers : txn[b] # Nothing => txn[b].state # x.state
    /\ OneSessionEach

LEMMA SignInStep == SignInInv /\ [Next]_vars => SignInInv'
<1> SUFFICES ASSUME SignInInv, [Next]_vars PROVE SignInInv'
  OBVIOUS
<1>1. ASSUME NEW b \in Browsers, NEW r \in Replicas, BeginSignIn(b, r) PROVE SignInInv'
  <2>1. CASE UNCHANGED <<txn, begun>>
    BY <1>1, <2>1 DEF BeginSignIn, SignInInv, OneSessionEach
  <2>2. CASE /\ txn' = [txn EXCEPT ![b] = [store |-> "txn", state |-> begun,
                                          key |-> replica[r].key, expires |-> now + TxnTTL]]
             /\ begun' = begun + 1
    <3>1. /\ txn'[b].state = begun
          /\ \A d \in Browsers \ {b} : txn'[d] = txn[d]
          /\ txn' = [d \in Browsers |-> txn'[d]]
      BY <2>2 DEF SignInInv
    <3>2. UNCHANGED <<answers, signIns>>
      BY <1>1 DEF BeginSignIn
    <3> QED BY <2>2, <3>1, <3>2 DEF SignInInv, OneSessionEach
  <2> QED BY <1>1, <2>1, <2>2 DEF BeginSignIn
<1>2. ASSUME NEW b \in Browsers, NEW p \in DOMAIN People, Answer(b, p) PROVE SignInInv'
  <2>1. UNCHANGED <<txn, begun, signIns>> /\ \A a \in answers' : a.browser \in Browsers
    BY <1>2 DEF Answer, SignInInv
  <2> QED BY <2>1 DEF SignInInv, OneSessionEach
<1>3. ASSUME NEW r \in Replicas, NEW a \in answers, CompleteSignIn(r, a) PROVE SignInInv'
  <2>1. /\ a.browser \in Browsers /\ UNCHANGED <<answers, begun>>
        /\ txn' = [txn EXCEPT ![a.browser] = Nothing]
    BY <1>3 DEF CompleteSignIn, TxnCleared, SignInInv
  <2>2. /\ txn'[a.browser] = Nothing /\ \A d \in Browsers \ {a.browser} : txn'[d] = txn[d]
        /\ txn' = [d \in Browsers |-> txn'[d]]
    BY <2>1 DEF SignInInv
  <2>3. CASE signIns' = signIns
    BY <2>1, <2>2, <2>3 DEF SignInInv, OneSessionEach
  <2>4. CASE /\ Completes(r, a)
             /\ signIns' = signIns \cup {[state |-> a.state, person |-> a.person, at |-> now,
                                          by |-> r]}
    <3>1. txn[a.browser] # Nothing /\ a.state = txn[a.browser].state
      BY <2>4 DEF Completes
    <3>2. /\ a.state \in 0..begun - 1
          /\ \A d \in Browsers : txn'[d] # Nothing => txn'[d].state # a.state
          /\ \A x \in signIns : x.state # a.state
      BY <2>1, <2>2, <3>1 DEF SignInInv
    <3> QED BY <2>1, <2>2, <2>4, <3>2 DEF SignInInv, OneSessionEach
  <2> QED BY <1>3, <2>3, <2>4 DEF CompleteSignIn
<1>4. CASE UNCHANGED signOnVars
  BY <1>4 DEF signOnVars, SignInInv, OneSessionEach
<1>5. ASSUME NEW c \in SignOns, Configure(c) PROVE UNCHANGED signOnVars
  BY <1>5 DEF Configure
<1> QED
  BY <1>1, <1>2, <1>3, <1>4, <1>5 DEF Next, vars, access, SignOnNext

\* A sign-in leads to one session at most, of one person, whichever replicas the
\* redirect reaches and however often (complete).
THEOREM SignInsAreUsedOnce == Spec => []OneSessionEach
<1>1. Init => SignInInv
  BY DEF Init, SignOnInit, SignInInv, OneSessionEach
<1>2. SignInInv => OneSessionEach
  BY DEF SignInInv
<1> QED BY <1>1, <1>2, SignInStep, PTL DEF Spec

-----------------------------------------------------------------------------
(* Right-sizing and its records.                                            *)

LEMMA TimePasses == [Next]_vars => now' = now \/ now' = now + 1
<1> SUFFICES ASSUME [Next]_vars PROVE now' = now \/ now' = now + 1
  OBVIOUS
<1> USE DEF NoFault, Fault, Change, clockVars
<1>1. ASSUME KeyNext PROVE now' = now
  BY <1>1 DEF KeyNext, EmptyKey, ReadKey, StoreKey, Restart, LoginBuiltin
<1>2. ASSUME SessionNext PROVE now' = now
  BY <1>2 DEF SessionNext, Load, LoadEnds, ReadForWrite, Update, Forget
<1>3. ASSUME UserNext PROVE now' = now
  BY <1>3 DEF UserNext, Begin, Login, LoginEnds, ChangeOwn
<1>4. ASSUME TokenNext PROVE now' = now
  BY <1>4 DEF TokenNext, Begin
<1>5. ASSUME SignOnNext PROVE now' = now
  BY <1>5 DEF SignOnNext, BeginSignIn, Answer, CompleteSignIn, Configure
<1>6. ASSUME SizingNext PROVE now' = now
  BY <1>6 DEF SizingNext, Measure, Strain, WritePolicy, ApplyAdvice, FollowPlan, FollowFix
<1>7. ASSUME RecordNext PROVE now' = now
  <2>1. ASSUME NEW p \in Procs, NEW w \in Works, NEW v \in Requests,
               Apply(p, w, v) \/ Propose(p, w, v)
        PROVE  now' = now
    BY <2>1 DEF Apply, Propose
  <2>2. ASSUME NEW p \in Procs, RevertAll(p) \/ Patch(p) \/ Restore(p)
        PROVE  now' = now
    BY <2>2 DEF RevertAll, Patch, Restore
  <2>3. ASSUME NEW p \in Procs, GetRecord(p) \/ NextOf(p) PROVE now' = now
    BY <2>3 DEF GetRecord, NextOf
  <2>4. ASSUME NEW p \in Procs, UpdateRecord(p) PROVE now' = now
    BY <2>4 DEF UpdateRecord
  <2>5. ASSUME Check \/ \E w \in Works : Trouble(w) PROVE now' = now
    BY <2>5 DEF Check, Trouble
  <2>6. ASSUME NEW p \in Procs, NEW w \in Works, Revert(p, w) PROVE now' = now
    BY <2>6 DEF Revert
  <2> HIDE DEF NoFault, Fault, Change, clockVars
  <2> QED BY <1>7, <2>1, <2>2, <2>3, <2>4, <2>5, <2>6 DEF RecordNext
<1> QED BY <1>1, <1>2, <1>3, <1>4, <1>5, <1>6, <1>7 DEF Next, Tick, vars

LEMMA TimeIsNat == now \in Nat /\ [Next]_vars => now' \in Nat
  BY TimePasses

Recs == [state : {"applied", "proposed", "kept", "reverted"}, original : Requests,
         optimized : Requests, at : Nat]
Opts == [version : Nat, works : [Works -> Recs \cup {NoRecord}]]
Todos == [w : Works, rec : Recs]
Resting == [pc : {"idle", "next"}, todo : SUBSET Todos]
Working == [pc : {"idle", "next", "patch", "get", "update", "restore", "undo"}, w : Works,
            rec : Recs, tries : Nat, seen : Opts, old : Requests, todo : SUBSET Todos]

RecordShape ==
    /\ now \in Nat
    /\ req \in [Works -> Requests]
    /\ was \in [Works -> Requests]
    /\ opt \in Opts
    /\ calls \in [Procs -> Resting \cup Working]
    /\ doubt \subseteq Works

\* An operation is at a workload.
Busy(p) == calls[p].pc \notin {"idle", "next"}

\* What operation p has read of the records: it goes through each workload once, and a
\* record that has its version is as it was read.
Reading(p) ==
    /\ calls[p].pc = "idle" => calls[p].todo = {}
    /\ \A t \in calls[p].todo :
        /\ opt.works[t.w] # NoRecord /\ t.rec.state \in {"applied", "kept"}
        /\ \A u \in calls[p].todo : t.w = u.w => t = u
        /\ Busy(p) => t.w # calls[p].w
        /\ t.w \notin doubt => t.rec = opt.works[t.w]
    /\ Busy(p) => /\ calls[p].seen.version <= opt.version
                  /\ calls[p].seen.version = opt.version => calls[p].seen.works = opt.works

\* A record says the truth of a workload with requests v that replaced o.
Says(rec, v, o) ==
    /\ rec.state \in {"applied", "kept"} => v = rec.optimized /\ o = rec.original
    /\ rec.state \in {"reverted", "proposed"} => v = rec.original

Sound(w) == Says(opt.works[w], req[w], was[w])

\* What operation p has done to the workload it is at, and what it may go back to.
Midway(p) ==
    LET c == calls[p]
        r == c.rec
        v == req[c.w]
    IN CASE c.pc = "patch" -> r.state = "applied" /\ r.original = v /\ Sound(c.w)
         [] c.pc \in {"get", "update", "undo"} /\ r.state = "applied" ->
                /\ v = r.optimized /\ was[c.w] = r.original
                /\ Says(opt.works[c.w], r.original, c.old)
         [] c.pc \in {"get", "update"} /\ r.state = "proposed" -> v = r.original /\ Sound(c.w)
         [] c.pc \in {"get", "update"} /\ r.state = "kept" ->
                Says(r, v, was[c.w]) /\ Sound(c.w)
         [] c.pc \in {"get", "update"} /\ r.state = "reverted" -> v = r.original
         [] c.pc = "restore" ->
                r.state = "reverted" /\ Sound(c.w)
         [] OTHER -> FALSE

RecordInv ==
    /\ RecordShape
    /\ \A p \in Procs : Reading(p)
    /\ \A p, q \in Procs : p # q => At(p) \cap At(q) \subseteq doubt
    /\ \A p \in Procs : Busy(p) /\ calls[p].w \notin doubt => Midway(p)
    /\ \A w \in Works \ doubt : (\A p \in Procs : ~(Busy(p) /\ calls[p].w = w)) => Sound(w)

LEMMA AtShape ==
  ASSUME RecordShape, NEW p \in Procs
  PROVE  /\ At(p) = {t.w : t \in calls[p].todo} \cup (IF Busy(p) THEN {calls[p].w} ELSE {})
         /\ calls[p] \in Resting \cup Working
         /\ calls[p].todo \subseteq Todos
         /\ Busy(p) => calls[p] \in Working
<1>1. calls[p] \in Resting \cup Working
  BY DEF RecordShape
<1>2. Busy(p) => calls[p] \in Working
  BY <1>1 DEF Busy, Resting, Working
<1>3. calls[p].todo \subseteq Todos
  BY <1>1 DEF Resting, Working
<1> QED BY <1>1, <1>2, <1>3 DEF At, Busy

\* What a step of operation p, at workload w or on its way to it, leaves of the invariant.
LEMMA RecordFrame ==
  ASSUME RecordInv, RecordShape', NEW p \in Procs, NEW w \in Works,
         Busy(p) => calls[p].w = w,
         \A q \in Procs \ {p} : calls'[q] = calls[q],
         \A u \in Works \ {w} : /\ req'[u] = req[u] /\ was'[u] = was[u]
                                /\ opt'.works[u] = opt.works[u],
         opt' = opt \/ opt'.version > opt.version,
         opt'.works[w] = NoRecord => opt.works[w] = NoRecord,
         doubt \subseteq doubt',
         UNCHANGED <<req, was, opt>> \/ Busy(p),
         \A u \in At(p)' : u \in At(p) \/ u \in doubt' \/ \A q \in Procs \ {p} : u \notin At(q),
         Reading(p)',
         (Busy(p) /\ calls[p].w \notin doubt => Midway(p))',
         w \notin doubt' => \/ \E q \in Procs : (Busy(q) /\ calls[q].w = w)'
                            \/ Sound(w)'
  PROVE  RecordInv'
<1>1. ASSUME NEW q \in Procs \ {p} PROVE At(q)' = At(q) /\ (Busy(q)' <=> Busy(q))
  BY DEF At, Busy
<1>2. \A q, r \in Procs : q # r => (At(q) \cap At(r) \subseteq doubt)'
  <2> SUFFICES ASSUME NEW q \in Procs \ {p}, NEW r \in Procs, q # r
               PROVE  At(q)' \cap At(r)' \subseteq doubt'
    OBVIOUS
  <2>1. CASE r = p
    BY <1>1, <2>1 DEF RecordInv
  <2>2. CASE r # p
    BY <1>1, <2>2 DEF RecordInv
  <2> QED BY <2>1, <2>2
<1>3. ASSUME NEW q \in Procs \ {p} PROVE Reading(q)'
  <2> USE DEF Procs
  <2>1. /\ calls'[q] = calls[q] /\ calls[q].todo \subseteq Todos
        /\ Busy(q) => calls[q] \in Working
    BY AtShape DEF RecordInv
  <2>2. ASSUME NEW t \in calls[q].todo
        PROVE  /\ opt'.works[t.w] # NoRecord
               /\ t.w \notin doubt' => t.rec = opt'.works[t.w]
    <3>1. t.w \in Works /\ t.w \in At(q) /\ opt.works[t.w] # NoRecord
      BY <2>1 DEF Todos, At, RecordInv, Reading
    <3>2. CASE t.w # w
      BY <3>1, <3>2 DEF RecordInv, Reading
    <3>3. CASE t.w = w /\ Busy(p)
      <4>1. w \in At(p)
        BY <3>3 DEF At, Busy
      <4>2. w \in doubt
        BY <3>1, <3>3, <4>1 DEF RecordInv
      <4> QED BY <3>1, <3>3, <4>2
    <3>4. CASE opt' = opt
      BY <3>1, <3>4 DEF RecordInv, Reading
    <3> QED BY <3>2, <3>3, <3>4
  <2>3. ASSUME Busy(q) PROVE /\ calls[q].seen.version <= opt'.version
                             /\ calls[q].seen.version = opt'.version =>
                                  calls[q].seen.works = opt'.works
    <3>1. /\ calls[q].seen.version \in Nat /\ opt.version \in Nat /\ opt'.version \in Nat
          /\ calls[q].seen.version <= opt.version
          /\ calls[q].seen.version = opt.version => calls[q].seen.works = opt.works
      BY <2>1, <2>3 DEF RecordInv, RecordShape, Opts, Working, Reading
    <3> QED BY <3>1
  <2> QED BY <1>1, <2>1, <2>2, <2>3 DEF RecordInv, Reading
<1>4. ASSUME NEW q \in Procs \ {p}, Busy(q), calls[q].w \notin doubt'
      PROVE  Midway(q)'
  <2>1. /\ calls'[q] = calls[q] /\ calls[q].w \in Works /\ calls[q].w \in At(q)
        /\ calls[q].w \notin doubt /\ Midway(q)
    BY <1>4, AtShape DEF RecordInv, Working, At, Busy
  <2>2. \/ UNCHANGED <<req, was, opt>>
        \/ calls[q].w # w
    <3>1. Busy(p) => w \in At(p)
      BY DEF At, Busy
    <3> QED BY <2>1, <3>1 DEF RecordInv
  <2>3. /\ req'[calls[q].w] = req[calls[q].w] /\ was'[calls[q].w] = was[calls[q].w]
        /\ opt'.works[calls[q].w] = opt.works[calls[q].w]
    BY <2>1, <2>2
  <2> QED BY <2>1, <2>3 DEF Midway, Sound
<1>5. ASSUME NEW u \in Works \ doubt', \A q \in Procs : ~(Busy(q) /\ calls[q].w = u)'
      PROVE  Sound(u)'
  <2>1. CASE u = w
    BY <1>5, <2>1
  <2>2. CASE u # w
    <3>1. \A q \in Procs : ~(Busy(q) /\ calls[q].w = u)
      BY <1>1, <1>5, <2>2
    <3>2. Sound(u)
      BY <3>1 DEF RecordInv
    <3> QED BY <2>2, <3>2 DEF Sound
  <2> QED BY <2>1, <2>2
<1> QED BY <1>1, <1>2, <1>3, <1>4, <1>5 DEF RecordInv

\* An operation that begins, at a workload that is as on record.
LEMMA BeginsAt ==
  ASSUME RecordInv, NEW p \in Procs, NEW w \in Works, NEW pc \in {"patch", "get", "restore"},
         NEW rec \in Recs, calls[p].pc \in {"idle", "next"}, NEW rest \in SUBSET calls[p].todo,
         \A t \in rest : t.w # w,
         NEW c, c = [Call(pc, w, rec) EXCEPT !.todo = rest],
         calls' = [calls EXCEPT ![p] = c],
         UNCHANGED <<req, opt, was>>, now' \in Nat,
         doubt \subseteq doubt', doubt' \subseteq Works,
         w \in At(p) \/ Met({w}, p) \subseteq doubt',
         Midway(p)' \/ w \in doubt'
  PROVE  RecordInv'
<1>1. c = [pc |-> pc, w |-> w, rec |-> rec, tries |-> 0, seen |-> opt, old |-> was[w], todo |-> rest]
  BY DEF Call
<1>2. /\ calls'[p] = [pc |-> pc, w |-> w, rec |-> rec, tries |-> 0, seen |-> opt,
                      old |-> was[w], todo |-> rest]
      /\ \A q \in Procs \ {p} : calls'[q] = calls[q]
  BY <1>1 DEF RecordInv, RecordShape
<1>3. RecordShape'
  <2>1. calls'[p] \in Working
    BY <1>2, AtShape DEF RecordInv, RecordShape, Working
  <2>2. calls' \in [Procs -> Resting \cup Working]
    BY <2>1 DEF RecordInv, RecordShape
  <2> QED BY <2>2 DEF RecordInv, RecordShape
<1>4. Reading(p)'
  BY <1>2 DEF RecordInv, Reading, Busy, RecordShape, Opts
<1>5. At(p)' = {t.w : t \in rest} \cup {w} /\ Busy(p)' /\ calls'[p].w = w
  BY <1>2 DEF At, Busy
<1>6. \A u \in At(p)' : u \in At(p) \/ u \in doubt' \/ \A q \in Procs \ {p} : u \notin At(q)
  BY <1>5 DEF At, Met
<1>7. ~Busy(p)
  BY DEF Busy
<1> QED BY <1>2, <1>3, <1>4, <1>5, <1>6, <1>7, RecordFrame, Zenon DEF RecordInv

\* The workload an idle operation begins at is as on record.
LEMMA AtRest ==
  ASSUME RecordInv, NEW p \in Procs, ~Busy(p), NEW w \in Works \ doubt,
         \/ w \in At(p)
         \/ \A q \in Procs \ {p} : w \notin At(q)
  PROVE  Sound(w)
<1>1. \A q \in Procs : ~(Busy(q) /\ calls[q].w = w)
  BY DEF RecordInv, At, Busy
<1> QED BY <1>1 DEF RecordInv

LEMMA ApplyStep ==
  ASSUME RecordInv, now' \in Nat, NEW p \in Procs, NEW w \in Works, NEW v \in Requests,
         Apply(p, w, v) \/ Propose(p, w, v)
  PROVE  RecordInv'
<1> DEFINE pc == IF Apply(p, w, v) THEN "patch" ELSE "get"
           rec == [state |-> IF Apply(p, w, v) THEN "applied" ELSE "proposed",
                   original |-> req[w], optimized |-> v, at |-> now]
<1>1. /\ calls[p].pc = "idle" /\ calls' = [calls EXCEPT ![p] = Call(pc, w, rec)]
      /\ doubt' = doubt \cup Met({w}, p) /\ UNCHANGED <<req, opt, was>>
  BY DEF Apply, Propose
<1>2. rec \in Recs
  BY DEF RecordInv, RecordShape, Recs
<1>7. Call(pc, w, rec) = [Call(pc, w, rec) EXCEPT !.todo = {}]
  <2> HIDE DEF pc, rec
  <2> QED BY DEF Call
<1>3. calls[p].todo = {} /\ At(p) = {} /\ ~Busy(p)
  BY <1>1 DEF RecordInv, Reading, At, Busy
<1>4. ASSUME w \notin doubt' PROVE Midway(p)'
  <2>1. Sound(w)
    BY <1>1, <1>3, <1>4, AtRest DEF Met
  <2>2. /\ calls'[p].pc = pc /\ calls'[p].w = w /\ calls'[p].rec = rec
    BY <1>1 DEF RecordInv, RecordShape, Call
  <2> QED BY <1>1, <2>1, <2>2 DEF Midway, Sound
<1>5. Met({w}, p) \subseteq doubt' /\ doubt' \subseteq Works
  BY <1>1 DEF Met, RecordInv, RecordShape
<1>6. pc \in {"patch", "get", "restore"}
  OBVIOUS
<1> HIDE DEF pc, rec
<1> QED BY <1>1, <1>2, <1>3, <1>4, <1>5, <1>6, <1>7, BeginsAt

LEMMA RevertStep ==
  ASSUME RecordInv, now' \in Nat, NEW p \in Procs, NEW w \in Works, Revert(p, w)
  PROVE  RecordInv'
<1> DEFINE rec == [opt.works[w] EXCEPT !.state = "reverted"]
<1>1. /\ calls[p].pc = "idle" /\ calls' = [calls EXCEPT ![p] = Call(Reverting(w), w, rec)]
      /\ doubt' = doubt \cup Met({w}, p) /\ UNCHANGED <<req, opt, was>>
      /\ opt.works[w] # NoRecord
  BY DEF Revert
<1>2. opt.works[w] \in Recs
  BY <1>1 DEF RecordInv, RecordShape, Opts
<1>3. rec \in Recs /\ rec.state = "reverted" /\ rec.original = opt.works[w].original
  BY <1>2 DEF Recs
<1>4. Call(Reverting(w), w, rec) = [Call(Reverting(w), w, rec) EXCEPT !.todo = {}]
  BY DEF Call
<1>5. calls[p].todo = {} /\ At(p) = {} /\ ~Busy(p)
  BY <1>1 DEF RecordInv, Reading, At, Busy
<1>6. ASSUME w \notin doubt' PROVE Midway(p)'
  <2>1. Sound(w)
    BY <1>1, <1>5, <1>6, AtRest DEF Met
  <2>2. /\ calls'[p].pc = Reverting(w) /\ calls'[p].w = w /\ calls'[p].rec = rec
    BY <1>1 DEF RecordInv, RecordShape, Call
  <2> HIDE DEF rec
  <2>3. CASE opt.works[w].state \in {"proposed", "reverted"}
    <3>1. req'[w] = rec.original
      BY <1>1, <1>3, <2>1, <2>3 DEF Sound, Says
    <3> QED BY <1>3, <2>2, <2>3, <3>1 DEF Midway, Reverting
  <2>4. CASE opt.works[w].state \notin {"proposed", "reverted"}
    <3>1. Sound(w)'
      BY <1>1, <2>1 DEF Sound
    <3> QED BY <1>3, <2>2, <2>4, <3>1 DEF Midway, Reverting
  <2> QED BY <2>3, <2>4
<1>7. Met({w}, p) \subseteq doubt' /\ doubt' \subseteq Works
  BY <1>1 DEF Met, RecordInv, RecordShape
<1>8. Reverting(w) \in {"patch", "get", "restore"}
  BY DEF Reverting
<1> HIDE DEF rec
<1> QED BY <1>1, <1>3, <1>4, <1>5, <1>6, <1>7, <1>8, BeginsAt

\* An operation that goes on with the workload it is at, or is done with it.
LEMMA GoesOn ==
  ASSUME RecordInv, now' \in Nat, NEW p \in Procs, Busy(p), NEW w \in Works, w = calls[p].w,
         NEW c \in Resting \cup Working, calls' = [calls EXCEPT ![p] = c],
         c.todo \subseteq calls[p].todo, c.pc = "idle" => c.todo = {},
         c.pc \notin {"idle", "next"} =>
            /\ c.w = w /\ c.seen.version <= opt'.version
            /\ c.seen.version = opt'.version => c.seen.works = opt'.works,
         req' \in [Works -> Requests], was' \in [Works -> Requests], opt' \in Opts,
         doubt \subseteq doubt', doubt' \subseteq doubt \cup {w},
         \A u \in Works \ {w} : /\ req'[u] = req[u] /\ was'[u] = was[u]
                                /\ opt'.works[u] = opt.works[u],
         opt' = opt \/ opt'.version > opt.version,
         opt'.works[w] = NoRecord => opt.works[w] = NoRecord,
         w \in doubt' \/ IF c.pc \in {"idle", "next"} THEN Sound(w)' ELSE Midway(p)'
  PROVE  RecordInv'
<1>1. calls'[p] = c /\ \A q \in Procs \ {p} : calls'[q] = calls[q]
  BY DEF RecordInv, RecordShape
<1>2. RecordShape'
  <2>1. calls' \in [Procs -> Resting \cup Working]
    BY DEF RecordInv, RecordShape
  <2> QED BY <2>1 DEF RecordInv, RecordShape
<1>3. Reading(p)'
  <2>1. calls[p].todo \subseteq Todos
    BY AtShape DEF RecordInv
  <2>2. ASSUME NEW t \in c.todo
        PROVE  t.w \in Works \ {w} /\ t.w # w /\ opt'.works[t.w] = opt.works[t.w]
    BY <2>1 DEF RecordInv, Reading, Todos
  <2> QED BY <1>1, <2>2 DEF RecordInv, Reading, Busy
<1>4. At(p)' \subseteq At(p)
  BY <1>1 DEF At, Busy
<1>5. (Busy(p) /\ calls[p].w \notin doubt => Midway(p))'
  BY <1>1 DEF Busy
<1>6. w \notin doubt' => (\E q \in Procs : (Busy(q) /\ calls[q].w = w)') \/ Sound(w)'
  BY <1>1 DEF Busy
<1> QED BY <1>1, <1>2, <1>3, <1>4, <1>5, <1>6, RecordFrame

LEMMA Onward ==
  ASSUME NEW c \in Working
  PROVE  /\ c.w \in Works /\ c.rec \in Recs /\ c.seen \in Opts /\ c.old \in Requests
         /\ c.tries \in Nat /\ c.todo \in SUBSET Todos
         /\ \A pc \in {"get", "update", "undo", "next"} :
              /\ [c EXCEPT !.pc = pc] \in Working
              /\ [c EXCEPT !.pc = pc].pc = pc /\ [c EXCEPT !.pc = pc].w = c.w
              /\ [c EXCEPT !.pc = pc].rec = c.rec /\ [c EXCEPT !.pc = pc].seen = c.seen
              /\ [c EXCEPT !.pc = pc].old = c.old /\ [c EXCEPT !.pc = pc].todo = c.todo
BY DEF Working

LEMMA Ends ==
  ASSUME RecordShape, NEW p \in Procs, Busy(p), NEW c \in {IdleCall, Finished(p)}
  PROVE  /\ c \in Resting \cup Working /\ c.todo \subseteq calls[p].todo
         /\ c.pc \in {"idle", "next"} /\ (c.pc = "idle" => c.todo = {})
<1>1. calls[p] \in Working
  BY AtShape
<1>2. IdleCall \in Resting /\ IdleCall.pc = "idle" /\ IdleCall.todo = {}
  BY DEF IdleCall, Resting
<1>3. CASE c = IdleCall
  BY <1>2, <1>3
<1>4. CASE c = [calls[p] EXCEPT !.pc = "next"]
  BY <1>1, <1>4, Onward
<1> QED BY <1>3, <1>4 DEF Finished

LEMMA PatchStep ==
  ASSUME RecordInv, now' \in Nat, NEW p \in Procs, NEW w \in Works, w = calls[p].w, Patch(p)
  PROVE  RecordInv'
<1>1. Busy(p) /\ calls[p].pc = "patch"
  BY DEF Patch, Busy
<1>2. /\ calls[p] \in Working /\ calls[p].rec \in Recs /\ RecordShape
      /\ opt \in Opts
      /\ w \notin doubt => Midway(p)
  BY <1>1, AtShape, Onward DEF RecordInv, RecordShape
<1>3. calls[p].seen.version <= opt.version
      /\ (calls[p].seen.version = opt.version => calls[p].seen.works = opt.works)
  BY <1>1 DEF RecordInv, Reading
<1>4. CASE calls' = [calls EXCEPT ![p] = IdleCall] /\ UNCHANGED <<req, was, opt, doubt>>
  <2>1. w \in doubt' \/ Sound(w)'
    BY <1>1, <1>2, <1>4 DEF Midway, Sound
  <2> QED BY <1>1, <1>2, <1>4, <2>1, Ends, GoesOn DEF RecordInv, RecordShape
<1>5. CASE /\ req' = [req EXCEPT ![w] = calls[p].rec.optimized]
           /\ was' = [was EXCEPT ![w] = req[w]]
           /\ calls' = [calls EXCEPT ![p].pc = "get", ![p].old = was[w]]
           /\ UNCHANGED <<opt, doubt>>
  <2> DEFINE c == [calls[p] EXCEPT !.pc = "get", !.old = was[w]]
  <2>1. /\ req \in [Works -> Requests] /\ was \in [Works -> Requests]
        /\ calls[p].rec.optimized \in Requests /\ opt' \in Opts
    BY <1>2, <1>5 DEF RecordInv, RecordShape, Recs
  <2>2. c \in Working /\ c.pc = "get" /\ c.w = w /\ c.rec = calls[p].rec /\ c.old = was[w]
        /\ c.todo = calls[p].todo /\ c.seen = calls[p].seen
    BY <1>2, <2>1 DEF Working
  <2>3. calls' = [calls EXCEPT ![p] = c] /\ calls'[p] = c
    BY <1>5, <1>2 DEF RecordShape
  <2>4. /\ req' \in [Works -> Requests] /\ was' \in [Works -> Requests]
        /\ req'[w] = calls[p].rec.optimized /\ was'[w] = req[w]
        /\ \A u \in Works \ {w} : req'[u] = req[u] /\ was'[u] = was[u]
    BY <1>2, <1>5, <2>1
  <2> HIDE DEF c
  <2>5. w \in doubt' \/ Midway(p)'
    BY <1>1, <1>2, <1>5, <2>2, <2>3, <2>4 DEF Midway, Sound
  <2>6. c.todo \subseteq calls[p].todo /\ c.pc # "idle" /\ c.pc # "next"
    BY <2>2
  <2>7. /\ c.w = w /\ c.seen.version <= opt'.version
        /\ c.seen.version = opt'.version => c.seen.works = opt'.works
    BY <1>3, <1>5, <2>2
  <2>8. opt' = opt /\ doubt' = doubt
    BY <1>5
  <2> QED BY <1>1, <2>1, <2>2, <2>3, <2>4, <2>5, <2>6, <2>7, <2>8, GoesOn
<1> QED BY <1>1, <1>4, <1>5 DEF Patch

LEMMA RestoreStep ==
  ASSUME RecordInv, now' \in Nat, NEW p \in Procs, NEW w \in Works, w = calls[p].w, Restore(p)
  PROVE  RecordInv'
<1>1. Busy(p) /\ calls[p].pc \in {"restore", "undo"} /\ opt' = opt
  BY DEF Restore, Busy
<1>2. /\ calls[p] \in Working /\ calls[p].rec \in Recs /\ RecordShape
      /\ opt \in Opts /\ req \in [Works -> Requests] /\ was \in [Works -> Requests]
      /\ calls[p].rec.original \in Requests /\ calls[p].old \in Requests
  BY <1>1, AtShape, Onward DEF RecordInv, RecordShape, Recs
<1>3. /\ calls[p].seen.version <= opt.version
      /\ calls[p].seen.version = opt.version => calls[p].seen.works = opt.works
  BY <1>1 DEF RecordInv, Reading
<1>4. w \notin doubt => Midway(p)
  BY <1>1 DEF RecordInv
<1>5. ASSUME NEW c \in {IdleCall, Finished(p)}, calls' = [calls EXCEPT ![p] = c],
             UNCHANGED <<req, was>>,
             doubt' = IF calls[p].pc = "undo" THEN doubt \cup {w} ELSE doubt
      PROVE  RecordInv'
  <2>1. w \in doubt' \/ Sound(w)'
    BY <1>1, <1>4, <1>5 DEF Midway, Sound
  <2>2. doubt \subseteq doubt' /\ doubt' \subseteq doubt \cup {w}
    BY <1>5
  <2> QED BY <1>1, <1>2, <1>5, <2>1, <2>2, Ends, GoesOn
<1>6. CASE /\ req' = [req EXCEPT ![w] = calls[p].rec.original]
           /\ was' = [was EXCEPT ![w] = calls[p].old]
           /\ calls' = [calls EXCEPT ![p] = IF @.pc = "undo" THEN IdleCall
                                           ELSE [@ EXCEPT !.pc = "get"]]
           /\ doubt' = doubt
  <2>1. /\ req' \in [Works -> Requests] /\ was' \in [Works -> Requests]
        /\ req'[w] = calls[p].rec.original /\ was'[w] = calls[p].old
        /\ \A u \in Works \ {w} : req'[u] = req[u] /\ was'[u] = was[u]
    BY <1>2, <1>6
  <2>2. CASE calls[p].pc = "undo"
    <3>1. calls' = [calls EXCEPT ![p] = IdleCall]
      BY <1>2, <1>6, <2>2 DEF RecordShape
    <3>2. w \in doubt' \/ Sound(w)'
      BY <1>1, <1>4, <1>6, <2>1, <2>2 DEF Midway, Sound
    <3> QED BY <1>1, <1>2, <1>6, <2>1, <3>1, <3>2, Ends, GoesOn
  <2>3. CASE calls[p].pc = "restore"
    <3> DEFINE c == [calls[p] EXCEPT !.pc = "get"]
    <3>1. /\ c \in Working /\ c.pc = "get" /\ c.w = w /\ c.rec = calls[p].rec
          /\ c.todo = calls[p].todo /\ c.seen = calls[p].seen
      BY <1>2, Onward
    <3>2. calls' = [calls EXCEPT ![p] = c] /\ calls'[p] = c
      BY <1>2, <1>6, <2>3 DEF RecordShape
    <3> HIDE DEF c
    <3>3. w \in doubt' \/ Midway(p)'
      BY <1>1, <1>4, <1>6, <2>1, <2>3, <3>1, <3>2 DEF Midway
    <3>4. c.todo \subseteq calls[p].todo /\ c.pc # "idle" /\ c.pc # "next"
      BY <3>1
    <3>5. /\ c.w = w /\ c.seen.version <= opt'.version
          /\ c.seen.version = opt'.version => c.seen.works = opt'.works
      BY <1>1, <1>3, <3>1
    <3> QED BY <1>1, <1>2, <1>6, <2>1, <3>1, <3>2, <3>3, <3>4, <3>5, GoesOn
  <2> QED BY <1>1, <2>2, <2>3
<1> QED BY <1>5, <1>6 DEF Restore

\* An operation that could not be recorded.
LEMMA FailsStep ==
  ASSUME RecordInv, now' \in Nat, NEW p \in Procs, NEW w \in Works, w = calls[p].w,
         calls[p].pc \in {"get", "update"}, Fails(p), UNCHANGED <<req, was, opt>>
  PROVE  RecordInv'
<1>1. Busy(p)
  BY DEF Busy
<1>2. /\ calls[p] \in Working /\ calls[p].rec \in Recs /\ RecordShape
      /\ opt \in Opts /\ req \in [Works -> Requests] /\ was \in [Works -> Requests]
  BY <1>1, AtShape, Onward DEF RecordInv, RecordShape
<1>3. /\ calls[p].seen.version <= opt.version
      /\ calls[p].seen.version = opt.version => calls[p].seen.works = opt.works
  BY <1>1 DEF RecordInv, Reading
<1>4. w \notin doubt => Midway(p)
  BY <1>1 DEF RecordInv
<1>5. doubt \subseteq doubt' /\ doubt' \subseteq doubt \cup {w}
  BY DEF Fails
<1>6. CASE calls[p].rec.state = "applied"
  <2> DEFINE c == [calls[p] EXCEPT !.pc = "undo"]
  <2>1. /\ c \in Working /\ c.pc = "undo" /\ c.w = w /\ c.rec = calls[p].rec
        /\ c.todo = calls[p].todo /\ c.seen = calls[p].seen /\ c.old = calls[p].old
    BY <1>2, Onward
  <2>2. calls' = [calls EXCEPT ![p] = c] /\ calls'[p] = c /\ doubt' = doubt
    BY <1>2, <1>6 DEF RecordShape, Fails, Unrecorded
  <2> HIDE DEF c
  <2>3. w \in doubt' \/ Midway(p)'
    BY <1>4, <1>6, <2>1, <2>2 DEF Midway
  <2>4. c.todo \subseteq calls[p].todo /\ c.pc # "idle" /\ c.pc # "next"
    BY <2>1
  <2>5. /\ c.w = w /\ c.seen.version <= opt'.version
        /\ c.seen.version = opt'.version => c.seen.works = opt'.works
    BY <1>3, <2>1
  <2> QED BY <1>1, <1>2, <1>5, <2>1, <2>2, <2>3, <2>4, <2>5, GoesOn
<1>7. CASE calls[p].rec.state # "applied"
  <2>1. PICK c \in {IdleCall, Finished(p)} : calls' = [calls EXCEPT ![p] = c]
    BY <1>7 DEF Fails, Unrecorded
  <2>2. w \in doubt' \/ Sound(w)'
    BY <1>2, <1>4, <1>7 DEF Midway, Sound, Fails, Recs
  <2> QED BY <1>1, <1>2, <1>5, <2>1, <2>2, Ends, GoesOn
<1> QED BY <1>6, <1>7

LEMMA GetStep ==
  ASSUME RecordInv, now' \in Nat, NEW p \in Procs, NEW w \in Works, w = calls[p].w, GetRecord(p)
  PROVE  RecordInv'
<1>1. Busy(p) /\ calls[p].pc = "get" /\ UNCHANGED <<req, was>>
  BY DEF GetRecord, Busy
<1>2. /\ calls[p] \in Working /\ calls[p].rec \in Recs /\ RecordShape
      /\ opt \in Opts /\ req \in [Works -> Requests] /\ was \in [Works -> Requests]
  BY <1>1, AtShape, Onward DEF RecordInv, RecordShape
<1>3. w \notin doubt => Midway(p)
  BY <1>1 DEF RecordInv
<1>4. CASE /\ opt' = IF opt.version = 0 THEN [opt EXCEPT !.version = 1] ELSE opt
           /\ calls' = [calls EXCEPT ![p].pc = "update", ![p].seen = opt']
           /\ doubt' = doubt
  <2> DEFINE c == [calls[p] EXCEPT !.pc = "update", !.seen = opt']
  <2>1. /\ opt' \in Opts /\ opt'.works = opt.works
        /\ opt' = opt \/ opt'.version > opt.version
    BY <1>2, <1>4 DEF Opts
  <2>2. /\ c \in Working /\ c.pc = "update" /\ c.w = w /\ c.rec = calls[p].rec
        /\ c.todo = calls[p].todo /\ c.seen = opt' /\ c.old = calls[p].old
    BY <1>2, <2>1 DEF Working
  <2>3. calls' = [calls EXCEPT ![p] = c] /\ calls'[p] = c
    BY <1>2, <1>4 DEF RecordShape
  <2> HIDE DEF c
  <2>4. w \in doubt' \/ Midway(p)'
    BY <1>1, <1>3, <1>4, <2>1, <2>2, <2>3 DEF Midway, Sound
  <2>5. c.todo \subseteq calls[p].todo /\ c.pc # "idle" /\ c.pc # "next"
    BY <2>2
  <2>6. /\ c.w = w /\ c.seen.version <= opt'.version
        /\ c.seen.version = opt'.version => c.seen.works = opt'.works
    BY <2>1, <2>2 DEF Opts
  <2> QED BY <1>1, <1>2, <1>4, <2>1, <2>2, <2>3, <2>4, <2>5, <2>6, GoesOn
<1>5. CASE Fails(p) /\ opt' = opt
  BY <1>1, <1>5, FailsStep
<1> QED BY <1>4, <1>5 DEF GetRecord

LEMMA UpdateStep ==
  ASSUME RecordInv, now' \in Nat, NEW p \in Procs, NEW w \in Works, w = calls[p].w,
         UpdateRecord(p)
  PROVE  RecordInv'
<1>1. Busy(p) /\ calls[p].pc = "update" /\ UNCHANGED <<req, was>>
  BY DEF UpdateRecord, Busy
<1>2. /\ calls[p] \in Working /\ calls[p].rec \in Recs /\ RecordShape
      /\ opt \in Opts /\ req \in [Works -> Requests] /\ was \in [Works -> Requests]
  BY <1>1, AtShape, Onward DEF RecordInv, RecordShape
<1>3. /\ calls[p].seen.version <= opt.version
      /\ calls[p].seen.version = opt.version => calls[p].seen.works = opt.works
  BY <1>1 DEF RecordInv, Reading
<1>4. w \notin doubt => Midway(p)
  BY <1>1 DEF RecordInv
<1>5. CASE /\ Current(p) /\ doubt' = doubt
           /\ opt' = [version |-> opt.version + 1,
                      works |-> [calls[p].seen.works EXCEPT ![w] = calls[p].rec]]
           /\ calls' = [calls EXCEPT ![p] = Finished(p)]
  <2>1. opt.works \in [Works -> Recs \cup {NoRecord}] /\ opt.version \in Nat
    BY <1>2 DEF Opts
  <2>2. opt' = [version |-> opt.version + 1, works |-> [opt.works EXCEPT ![w] = calls[p].rec]]
    BY <1>3, <1>5 DEF Current
  <2>3. /\ opt' \in Opts /\ opt'.works[w] = calls[p].rec /\ opt'.version > opt.version
        /\ \A u \in Works \ {w} : opt'.works[u] = opt.works[u]
    BY <1>2, <2>1, <2>2 DEF Opts
  <2>4. opt'.works[w] # NoRecord
    BY <1>2, <2>3 DEF NoRecord, Recs
  <2>5. w \in doubt' \/ Sound(w)'
    BY <1>1, <1>2, <1>4, <1>5, <2>3 DEF Midway, Sound, Says, Recs
  <2>6. PICK c \in {IdleCall, Finished(p)} : calls' = [calls EXCEPT ![p] = c]
    BY <1>5
  <2>7. doubt' = doubt
    BY <1>5
  <2>8. /\ c \in Resting \cup Working /\ c.todo \subseteq calls[p].todo
        /\ c.pc \in {"idle", "next"} /\ (c.pc = "idle" => c.todo = {})
    BY <1>1, <1>2, <2>6, Ends
  <2>9. /\ req' \in [Works -> Requests] /\ was' \in [Works -> Requests]
        /\ \A u \in Works \ {w} : /\ req'[u] = req[u] /\ was'[u] = was[u]
                                  /\ opt'.works[u] = opt.works[u]
        /\ opt' = opt \/ opt'.version > opt.version
        /\ opt'.works[w] = NoRecord => opt.works[w] = NoRecord
    BY <1>1, <1>2, <2>3, <2>4
  <2> QED BY <1>1, <2>3, <2>5, <2>6, <2>7, <2>8, <2>9, GoesOn
<1>6. CASE /\ calls' = [calls EXCEPT ![p].pc = "get", ![p].tries = @ + 1]
           /\ UNCHANGED <<opt, doubt>>
  <2> DEFINE c == [calls[p] EXCEPT !.pc = "get", !.tries = @ + 1]
  <2>1. /\ c \in Working /\ c.pc = "get" /\ c.w = w /\ c.rec = calls[p].rec
        /\ c.todo = calls[p].todo /\ c.seen = calls[p].seen /\ c.old = calls[p].old
    <3>1. calls[p].tries + 1 \in Nat
      BY <1>2 DEF Working
    <3> QED BY <1>2, <3>1 DEF Working
  <2>2. calls' = [calls EXCEPT ![p] = c] /\ calls'[p] = c
    BY <1>2, <1>6 DEF RecordShape
  <2> HIDE DEF c
  <2>3. w \in doubt' \/ Midway(p)'
    BY <1>1, <1>4, <1>6, <2>1, <2>2 DEF Midway, Sound
  <2>4. c.todo \subseteq calls[p].todo /\ c.pc # "idle" /\ c.pc # "next"
    BY <2>1
  <2>5. /\ c.w = w /\ c.seen.version <= opt'.version
        /\ c.seen.version = opt'.version => c.seen.works = opt'.works
    BY <1>3, <1>6, <2>1
  <2> QED BY <1>1, <1>2, <1>6, <2>1, <2>2, <2>3, <2>4, <2>5, GoesOn
<1>7. CASE Fails(p) /\ opt' = opt
  BY <1>1, <1>7, FailsStep
<1> QED BY <1>5, <1>6, <1>7 DEF UpdateRecord

LEMMA NextStep ==
  ASSUME RecordInv, now' \in Nat, NEW p \in Procs, NextOf(p)
  PROVE  RecordInv'
<1>1. /\ calls[p].pc = "next" /\ ~Busy(p) /\ UNCHANGED <<req, was, opt, doubt>>
      /\ RecordShape /\ calls[p].todo \subseteq Todos /\ calls[p] \in Resting \cup Working
  BY AtShape DEF NextOf, Busy, RecordInv
<1>2. PICK t \in calls[p].todo : \E rest \in SUBSET calls[p].todo :
        /\ rest = calls[p].todo \ {t}
        /\ \/ calls' = [calls EXCEPT ![p] =
                 [Call(Reverting(t.w), t.w, [opt.works[t.w] EXCEPT !.state = "reverted"])
                    EXCEPT !.todo = rest]]
           \/ calls' = [calls EXCEPT ![p] =
                 [Call("get", t.w, [t.rec EXCEPT !.state = "kept"]) EXCEPT !.todo = rest]]
           \/ calls' = [calls EXCEPT ![p] = [@ EXCEPT !.todo = rest,
                           !.pc = IF rest = {} THEN "idle" ELSE "next"]]
  BY DEF NextOf
<1>3. PICK rest \in SUBSET calls[p].todo :
        /\ rest = calls[p].todo \ {t}
        /\ \/ calls' = [calls EXCEPT ![p] =
                 [Call(Reverting(t.w), t.w, [opt.works[t.w] EXCEPT !.state = "reverted"])
                    EXCEPT !.todo = rest]]
           \/ calls' = [calls EXCEPT ![p] =
                 [Call("get", t.w, [t.rec EXCEPT !.state = "kept"]) EXCEPT !.todo = rest]]
           \/ calls' = [calls EXCEPT ![p] = [@ EXCEPT !.todo = rest,
                           !.pc = IF rest = {} THEN "idle" ELSE "next"]]
  BY <1>2
<1>4. /\ t \in Todos /\ t.w \in Works /\ t.rec \in Recs /\ t.w \in At(p)
      /\ opt.works[t.w] \in Recs /\ opt.works[t.w] # NoRecord
      /\ t.rec.state \in {"applied", "kept"}
      /\ t.w \notin doubt => t.rec = opt.works[t.w]
      /\ \A u \in rest : u.w # t.w
      /\ calls \in [Procs -> Resting \cup Working] /\ doubt \subseteq Works
  BY <1>1, <1>3 DEF RecordInv, RecordShape, Reading, Todos, Opts, At
<1>5. t.w \in doubt \/ Sound(t.w)
  BY <1>1, <1>4, AtRest
<1>6. ASSUME NEW rec \in Recs, rec = [opt.works[t.w] EXCEPT !.state = "reverted"],
             NEW c, c = [Call(Reverting(t.w), t.w, rec) EXCEPT !.todo = rest],
             calls' = [calls EXCEPT ![p] = c]
      PROVE  RecordInv'
  <2>1. rec.state = "reverted" /\ rec.original = opt.works[t.w].original
    BY <1>4, <1>6 DEF Recs
  <2>2. calls'[p].pc = Reverting(t.w) /\ calls'[p].w = t.w /\ calls'[p].rec = rec
    BY <1>4, <1>6 DEF Call
  <2>3. PICK pc \in {"patch", "get", "restore"} : pc = Reverting(t.w)
    BY DEF Reverting
  <2>4. ASSUME Sound(t.w) PROVE Midway(p)'
    <3>1. CASE opt.works[t.w].state \in {"proposed", "reverted"}
      <4>1. req'[t.w] = rec.original
        BY <1>1, <2>1, <2>4, <3>1 DEF Sound, Says
      <4> QED BY <2>1, <2>2, <3>1, <4>1 DEF Midway, Reverting
    <3>2. CASE opt.works[t.w].state \notin {"proposed", "reverted"}
      <4>1. Sound(t.w)'
        BY <1>1, <2>4 DEF Sound
      <4> QED BY <2>1, <2>2, <3>2, <4>1 DEF Midway, Reverting
    <3> QED BY <3>1, <3>2
  <2>5. /\ Midway(p)' \/ t.w \in doubt'
        /\ calls[p].pc \in {"idle", "next"} /\ UNCHANGED <<req, opt, was>>
        /\ doubt \subseteq doubt' /\ doubt' \subseteq Works
    BY <1>1, <1>4, <1>5, <2>4
  <2> QED BY <1>2, <1>3, <1>4, <1>1, <1>6, <2>3, <2>5, BeginsAt
<1>7. ASSUME NEW rec \in Recs, rec = [t.rec EXCEPT !.state = "kept"],
             NEW c, c = [Call("get", t.w, rec) EXCEPT !.todo = rest],
             calls' = [calls EXCEPT ![p] = c]
      PROVE  RecordInv'
  <2>1. /\ rec.state = "kept" /\ rec.original = t.rec.original
        /\ rec.optimized = t.rec.optimized
    BY <1>4, <1>7 DEF Recs
  <2>2. calls'[p].pc = "get" /\ calls'[p].w = t.w /\ calls'[p].rec = rec
    BY <1>4, <1>7 DEF Call
  <2>3. ASSUME t.w \notin doubt PROVE Midway(p)'
    <3>1. Sound(t.w) /\ Sound(t.w)'
      BY <1>1, <1>5, <2>3 DEF Sound
    <3>2. Says(rec, req'[t.w], was'[t.w])
      BY <1>1, <1>4, <2>1, <2>3, <3>1 DEF Sound, Says
    <3> QED BY <2>1, <2>2, <3>1, <3>2 DEF Midway
  <2>4. /\ Midway(p)' \/ t.w \in doubt'
        /\ calls[p].pc \in {"idle", "next"} /\ UNCHANGED <<req, opt, was>>
        /\ doubt \subseteq doubt' /\ doubt' \subseteq Works
    BY <1>1, <1>4, <2>3
  <2> QED BY <1>2, <1>3, <1>4, <1>1, <1>7, <2>4, BeginsAt
<1>8. CASE calls' = [calls EXCEPT ![p] = [@ EXCEPT !.todo = rest,
                        !.pc = IF rest = {} THEN "idle" ELSE "next"]]
  <2> DEFINE c == [calls[p] EXCEPT !.todo = rest, !.pc = IF rest = {} THEN "idle" ELSE "next"]
  <2>1. rest \subseteq Todos
    BY <1>1
  <2>2. /\ c \in Resting \cup Working /\ c.todo = rest /\ c.pc \in {"idle", "next"}
        /\ c.pc = "idle" => rest = {}
    BY <1>1, <2>1 DEF Resting, Working
  <2>3. calls'[p] = c /\ \A q \in Procs \ {p} : calls'[q] = calls[q]
    BY <1>4, <1>8
  <2> HIDE DEF c
  <2>4. calls' \in [Procs -> Resting \cup Working]
    <3>1. calls' = [calls EXCEPT ![p] = c]
      BY <1>4, <1>8 DEF c
    <3> QED BY <1>4, <2>2, <3>1
  <2>5. RecordShape'
    BY <1>1, <2>4 DEF RecordShape
  <2>6. Reading(p)'
    BY <1>1, <1>3, <2>2, <2>3 DEF RecordInv, Reading, Busy
  <2>7. At(p)' \subseteq At(p) /\ ~Busy(p)'
    BY <2>2, <2>3 DEF At, Busy
  <2>8. t.w \in doubt' \/ Sound(t.w)'
    BY <1>1, <1>5 DEF Sound
  <2>9. /\ \A u \in Works \ {t.w} : /\ req'[u] = req[u] /\ was'[u] = was[u]
                                    /\ opt'.works[u] = opt.works[u]
        /\ opt'.works[t.w] = NoRecord => opt.works[t.w] = NoRecord
    BY <1>1
  <2> QED BY <1>1, <1>4, <2>3, <2>5, <2>6, <2>7, <2>8, <2>9, RecordFrame
<1>9. [opt.works[t.w] EXCEPT !.state = "reverted"] \in Recs /\ [t.rec EXCEPT !.state = "kept"] \in Recs
  BY <1>4 DEF Recs
<1> QED BY <1>3, <1>6, <1>7, <1>8, <1>9

LEMMA ReadAllStep ==
  ASSUME RecordInv, now' \in Nat, NEW p \in Procs, NEW picked \in SUBSET Works, ReadAll(p, picked),
         \A w \in picked : opt.works[w].state \in {"applied", "kept"}
  PROVE  RecordInv'
<1> DEFINE todo == {[w |-> w, rec |-> opt.works[w]] : w \in picked}
<1>1. /\ calls[p].pc = "idle" /\ calls[p].todo = {} /\ ~Busy(p) /\ UNCHANGED <<req, was, opt>>
      /\ calls' = [calls EXCEPT ![p] = [pc |-> "next", todo |-> todo]]
      /\ doubt' = doubt \cup Met(picked, p) /\ picked # {}
      /\ RecordShape
  <2>1. /\ calls[p].pc = "idle" /\ picked # {} /\ doubt' = doubt \cup Met(picked, p)
        /\ calls' = [calls EXCEPT ![p] = [IdleCall EXCEPT !.pc = "next", !.todo = todo]]
        /\ UNCHANGED <<req, was, opt>>
    BY DEF ReadAll
  <2> HIDE DEF todo
  <2>2. [IdleCall EXCEPT !.pc = "next", !.todo = todo] = [pc |-> "next", todo |-> todo]
    <3>1. ASSUME NEW f, NEW x, f = [IdleCall EXCEPT !.pc = "next", !.todo = x]
          PROVE  f = [pc |-> "next", todo |-> x]
      BY <3>1 DEF IdleCall
    <3> QED BY <3>1
  <2> QED BY <2>1, <2>2 DEF RecordInv, Reading, Busy
<1>2. \A w \in picked : opt.works[w] \in Recs /\ opt.works[w] # NoRecord
  BY <1>1 DEF RecordShape, Opts, NoRecord, Recs
<1>3. todo \in SUBSET Todos
  BY <1>2 DEF Todos
<1>4. [pc |-> "next", todo |-> todo] \in Resting
  BY <1>3 DEF Resting
<1>5. /\ calls'[p] = [pc |-> "next", todo |-> todo]
      /\ \A q \in Procs \ {p} : calls'[q] = calls[q]
      /\ calls' \in [Procs -> Resting \cup Working]
  BY <1>1, <1>4 DEF RecordShape
<1>6. RecordShape'
  BY <1>1, <1>5 DEF RecordShape, Met
<1>7. Reading(p)' /\ ~Busy(p)'
  BY <1>1, <1>2, <1>5 DEF Reading, Busy
<1>8. At(p)' = picked
  <2>1. At(p)' = {t.w : t \in todo}
    <3> HIDE DEF todo
    <3> QED BY <1>5 DEF At
  <2>2. {t.w : t \in todo} = picked
    <3>1. ASSUME NEW w \in picked PROVE w \in {t.w : t \in todo}
      <4>1. [w |-> w, rec |-> opt.works[w]] \in todo
        OBVIOUS
      <4> HIDE DEF todo
      <4> QED BY <4>1
    <3>2. \A t \in todo : t.w \in picked
      OBVIOUS
    <3> HIDE DEF todo
    <3> QED BY <3>1, <3>2
  <2> QED BY <2>1, <2>2
<1>9. \A u \in At(p)' : u \in At(p) \/ u \in doubt' \/ \A q \in Procs \ {p} : u \notin At(q)
  BY <1>1, <1>8 DEF Met
<1>10. PICK w \in picked : TRUE
  BY <1>1
<1>11. ASSUME w \notin doubt' PROVE (\E q \in Procs : (Busy(q) /\ calls[q].w = w)') \/ Sound(w)'
  <2>1. Sound(w)
    BY <1>1, <1>8, <1>9, <1>10, <1>11, AtRest
  <2> QED BY <1>1, <2>1 DEF Sound
<1>12. /\ w \in Works
       /\ \A u \in Works \ {w} : /\ req'[u] = req[u] /\ was'[u] = was[u]
                                 /\ opt'.works[u] = opt.works[u]
       /\ opt'.works[w] = NoRecord => opt.works[w] = NoRecord
       /\ opt' = opt /\ doubt \subseteq doubt'
  BY <1>1, <1>10
<1> HIDE DEF todo
<1> QED BY <1>1, <1>5, <1>6, <1>7, <1>9, <1>11, <1>12, RecordFrame

LEMMA RecordStep == RecordInv /\ [Next]_vars => RecordInv'
<1> SUFFICES ASSUME RecordInv, [Next]_vars PROVE RecordInv'
  OBVIOUS
<1>1. now' \in Nat
  BY TimeIsNat DEF RecordInv, RecordShape
<1>2. CASE UNCHANGED <<req, opt, calls, was, doubt>>
  BY <1>1, <1>2
  DEF RecordInv, RecordShape, Reading, Busy, At, Midway, Sound
<1>3. ASSUME RecordNext PROVE RecordInv'
  <2>1. ASSUME NEW p \in Procs, NEW w \in Works, NEW v \in Requests,
               Apply(p, w, v) \/ Propose(p, w, v)
        PROVE  RecordInv'
    BY <1>1, <2>1, ApplyStep
  <2>2. ASSUME NEW p \in Procs, NEW w \in Works, Revert(p, w) PROVE RecordInv'
    BY <1>1, <2>2, RevertStep
  <2>3. ASSUME NEW p \in Procs, RevertAll(p) PROVE RecordInv'
    BY <1>1, <2>3, ReadAllStep DEF RevertAll
  <2>4. ASSUME NEW p \in Procs, Patch(p) \/ Restore(p) \/ GetRecord(p) \/ UpdateRecord(p)
        PROVE  RecordInv'
    <3>1. Busy(p)
      BY <2>4 DEF Patch, Restore, GetRecord, UpdateRecord, Busy
    <3>2. calls[p].w \in Works
      BY <3>1, AtShape, Onward DEF RecordInv
    <3> QED BY <1>1, <2>4, <3>2, PatchStep, RestoreStep, GetStep, UpdateStep
  <2>5. ASSUME NEW p \in Procs, NextOf(p) PROVE RecordInv'
    BY <1>1, <2>5, NextStep
  <2>6. ASSUME Check PROVE RecordInv'
    BY <1>1, <2>6, ReadAllStep DEF Check, Procs
  <2>7. ASSUME NEW w \in Works, Trouble(w) PROVE RecordInv'
    BY <1>2, <2>7 DEF Trouble
  <2> QED BY <1>3, <2>1, <2>2, <2>3, <2>4, <2>5, <2>6, <2>7 DEF RecordNext
<1> QED
  BY <1>2, <1>3 DEF Next, vars, sizing, recordVars

\* What is on record of a workload that no operation is at is true of it, however the
\* operations of people and of the guard interleave and whichever of their calls fail
\* (Apply, Revert, Record, Guard.Check).
THEOREM RecordsAreTrue == Spec => []RecordTellsTruth
<1>1. Init => RecordInv
  <2> SUFFICES ASSUME RecordInit, now = 0 PROVE RecordInv
    BY DEF Init
  <2>1. req \in [Works -> Requests] /\ was = req
    BY RecordAssumption DEF RecordInit
  <2>2. RecordShape
    BY <2>1 DEF RecordShape, RecordInit, Opts, IdleCall, Resting
  <2>3. \A p \in Procs : calls[p] = IdleCall /\ At(p) = {} /\ ~Busy(p)
    BY DEF RecordInit, IdleCall, At, Busy
  <2>4. \A w \in Works : Sound(w)
    BY DEF RecordInit, Sound, Says, NoRecord
  <2> QED BY <2>2, <2>3, <2>4 DEF RecordInv, Reading, IdleCall
<1>2. RecordInv => RecordTellsTruth
  <2> SUFFICES ASSUME RecordInv, NEW w \in Works \ doubt, \A p \in Procs : w \notin At(p)
               PROVE  Truthful(w)
    BY DEF RecordTellsTruth
  <2>1. \A p \in Procs : ~(Busy(p) /\ calls[p].w = w)
    BY DEF At, Busy
  <2>2. Sound(w)
    BY <2>1 DEF RecordInv
  <2> QED BY <2>2 DEF Truthful, Sound, Says
<1> QED BY <1>1, <1>2, RecordStep, PTL DEF Spec

-----------------------------------------------------------------------------
(* Access.                                                                  *)

\* Entries that Secret s holds, or held until t or later.
WasSo(s, data, t) ==
    \/ data = secret[s].data
    \/ \E p \in past : p.store = s /\ p.data = data /\ p.until >= t

\* Versions count up, and what was replaced is known with its time.
SecretShape ==
    /\ now \in Nat
    /\ secret = [s \in Stores |-> secret[s]]
    /\ \A s \in Stores : secret[s].version \in Nat
    /\ \A p \in past : p.until \in Nat

\* What people hold belongs to one of the Secrets.
HeldShape == \A c \in held : c.store \in Stores

\* A change under way has read the Secret it is about, some time ago.
WriteKnows(r) ==
    write[r] # Nothing =>
        /\ {"store", "pc", "tries", "seen"} \subseteq DOMAIN write[r]
        /\ write[r].store \in Stores
        /\ write[r].seen.version \in Nat
        /\ write[r].seen.version <= secret[write[r].store].version

WriteInv == write = [r \in Replicas |-> write[r]] /\ \A r \in Replicas : WriteKnows(r)

\* A read under way, and what was stored of one, is the Secret as it was during that read;
\* of the users it is no older than the change that made the replica forget.
LoadKnows(r, s) ==
    load[r][s] # Nothing =>
        /\ load[r][s].at \in Nat /\ load[r][s].at <= now
        /\ load[r][s].version \in Nat
        /\ WasSo(s, load[r][s].data, load[r][s].at)
        /\ s = "users" => load[r][s].version >= replica[r].wrote

CacheKnows(r, s) ==
    cache[r][s].at # None =>
        /\ cache[r][s].at \in Nat /\ cache[r][s].took \in Nat
        /\ cache[r][s].at <= now
        /\ cache[r][s].version \in Nat
        /\ WasSo(s, cache[r][s].data, cache[r][s].at - cache[r][s].took)
        /\ s = "users" => cache[r][s].version >= replica[r].wrote

WroteKnows(r) == replica[r].wrote \in Nat /\ replica[r].wrote <= secret["users"].version

CacheInv ==
    /\ cache = [r \in Replicas |-> [s \in Stores |-> cache[r][s]]]
    /\ load = [r \in Replicas |-> [s \in Stores |-> load[r][s]]]
    /\ \A r \in Replicas : WroteKnows(r)
    /\ \A r \in Replicas, s \in Stores : LoadKnows(r, s) /\ CacheKnows(r, s)

AccessInv == KeyInv /\ SecretShape /\ HeldShape /\ WriteInv /\ CacheInv

LEMMA AccessInit == Init => AccessInv
<1> SUFFICES ASSUME Init PROVE SecretShape /\ HeldShape /\ WriteInv /\ CacheInv
  BY KeyInit DEF AccessInv
<1>1. now = 0 /\ AccountInit
  BY DEF Init
<1>2. SecretShape
  <2>1. PICK f : secret = [s \in Stores |-> [version |-> 0, data |-> f[s]]]
    <3>1. PICK runs \in BOOLEAN : secret = [s \in Stores |-> [version |-> 0, data |->
             IF ~runs THEN <<>>
             ELSE IF s = "users" THEN [u \in Users |-> User("viewer", 1, FALSE, 0)]
             ELSE [t \in TokenNames |-> [role |-> "viewer", expires |-> None, id |-> -1]]]]
      BY <1>1 DEF AccountInit
    <3> DEFINE g == [s \in Stores |->
             IF ~runs THEN <<>>
             ELSE IF s = "users" THEN [u \in Users |-> User("viewer", 1, FALSE, 0)]
             ELSE [t \in TokenNames |-> [role |-> "viewer", expires |-> None, id |-> -1]]]
    <3>2. secret = [s \in Stores |-> [version |-> 0, data |-> g[s]]]
      BY <3>1
    <3> QED BY <3>2
  <2>2. past = {}
    BY <1>1 DEF AccountInit
  <2> QED BY <1>1, <2>1, <2>2 DEF SecretShape
<1>3. HeldShape
  <2>1. \A c \in held : c.store \in {"users", "tokens"}
    BY <1>1 DEF AccountInit
  <2> QED BY <2>1 DEF HeldShape, Stores
<1>4. WriteInv
  BY <1>1 DEF AccountInit, WriteInv, WriteKnows
<1>5. CacheInv
  <2>1. /\ cache = [r \in Replicas |-> EmptyCache]
        /\ load = [r \in Replicas |-> [s \in Stores |-> Nothing]]
    BY <1>1 DEF AccountInit
  <2>2. \A r \in Replicas, s \in Stores : LoadKnows(r, s) /\ CacheKnows(r, s)
    BY <2>1 DEF LoadKnows, CacheKnows, EmptyCache
  <2>3. \A r \in Replicas : replica[r].wrote = 0
    BY <1>1 DEF AccountInit
  <2>4. \A r \in Replicas : WroteKnows(r)
    BY <1>2, <2>3 DEF WroteKnows, SecretShape, Stores
  <2>5. /\ cache = [r \in Replicas |-> [s \in Stores |-> cache[r][s]]]
        /\ load = [r \in Replicas |-> [s \in Stores |-> load[r][s]]]
    BY <2>1 DEF EmptyCache
  <2> QED BY <2>2, <2>4, <2>5 DEF CacheInv
<1> QED BY <1>2, <1>3, <1>4, <1>5

\* Only Update writes a Secret, and what it replaces is remembered.
LEMMA SecretMoves ==
    ASSUME [Next]_vars
    PROVE  \/ UNCHANGED <<secret, past>>
           \/ \E r \in Replicas : Update(r)
<1>1. ASSUME KeyNext PROVE UNCHANGED <<secret, past>>
  BY <1>1 DEF KeyNext, EmptyKey, ReadKey, StoreKey, Restart, LoginBuiltin
<1>2. ASSUME SessionNext PROVE UNCHANGED <<secret, past>> \/ \E r \in Replicas : Update(r)
  BY <1>2 DEF SessionNext, Load, LoadEnds, ReadForWrite, Forget
<1>3. ASSUME UserNext \/ TokenNext PROVE UNCHANGED <<secret, past>>
  BY <1>3 DEF UserNext, TokenNext, Begin, Login, LoginEnds, ChangeOwn
<1>4. ASSUME SignOnNext PROVE UNCHANGED <<secret, past>>
  BY <1>4 DEF SignOnNext, BeginSignIn, Answer, CompleteSignIn, Configure, accountVars
<1> QED BY <1>1, <1>2, <1>3, <1>4 DEF Next, vars, access, accountVars

LEMMA SecretStep ==
    ASSUME SecretShape, WriteInv, [Next]_vars
    PROVE  /\ SecretShape' /\ now <= now'
           /\ \A s \in Stores : secret[s].version <= secret'[s].version
           /\ \A s \in Stores : \A d : \A t \in Int :
                t <= now /\ WasSo(s, d, t) => WasSo(s, d, t)'
<1>1. now' \in Nat /\ now <= now'
  BY TimePasses DEF SecretShape
<1>2. CASE UNCHANGED <<secret, past>>
  BY <1>1, <1>2 DEF SecretShape, WasSo
<1>3. ASSUME NEW r \in Replicas, Update(r), ~UNCHANGED <<secret, past>>
      PROVE  /\ SecretShape'
             /\ \A s \in Stores : secret[s].version <= secret'[s].version
             /\ \A s \in Stores : \A d : \A t \in Int :
                  t <= now /\ WasSo(s, d, t) => WasSo(s, d, t)'
  <2>1. PICK x \in Stores :
          /\ \E d : secret' = [secret EXCEPT ![x] = [version |-> secret[x].version + 1, data |-> d]]
          /\ past' = past \cup {[store |-> x, data |-> secret[x].data, until |-> now]}
    BY <1>3 DEF Update, WriteInv, WriteKnows
  <2>2. PICK d : secret' = [secret EXCEPT ![x] = [version |-> secret[x].version + 1, data |-> d]]
    BY <2>1
  <2>3. /\ secret' = [s \in Stores |-> secret'[s]]
        /\ secret'[x].version = secret[x].version + 1
        /\ \A s \in Stores \ {x} : secret'[s] = secret[s]
    BY <2>2 DEF SecretShape
  <2>4. SecretShape' /\ \A s \in Stores : secret[s].version <= secret'[s].version
    BY <1>1, <2>1, <2>3 DEF SecretShape
  <2>5. ASSUME NEW s \in Stores, NEW e, NEW t \in Int, t <= now, WasSo(s, e, t)
        PROVE  WasSo(s, e, t)'
    <3>1. CASE s = x /\ e = secret[x].data
      <4> DEFINE p == [store |-> x, data |-> secret[x].data, until |-> now]
      <4>1. p.store = s /\ p.data = e /\ p.until >= t
        BY <2>5, <3>1 DEF SecretShape
      <4>2. p \in past'
        BY <2>1
      <4> HIDE DEF p
      <4> QED BY <4>1, <4>2 DEF WasSo
    <3>2. CASE s # x /\ e = secret[s].data
      BY <2>3, <3>2 DEF WasSo
    <3>3. CASE \E p \in past : p.store = s /\ p.data = e /\ p.until >= t
      BY <2>1, <3>3 DEF WasSo
    <3> QED BY <2>5, <3>1, <3>2, <3>3 DEF WasSo
  <2> QED BY <2>4, <2>5
<1> QED BY <1>1, <1>2, <1>3, SecretMoves

LEMMA HeldStep ==
    ASSUME HeldShape, WriteInv, [Next]_vars
    PROVE  HeldShape'
<1>1. ASSUME NEW r, NEW k, NEW n, NEW role PROVE Cookie(r, k, n, role).store \in Stores
  BY DEF Cookie, Stores
<1>2. ASSUME \/ held' \subseteq held
             \/ \E c : c.store \in Stores /\ held' = held \cup {c}
      PROVE  HeldShape'
  BY <1>2 DEF HeldShape
<1>3. ASSUME KeyNext PROVE HeldShape'
  <2>1. ASSUME NEW r \in Replicas, LoginBuiltin(r) PROVE HeldShape'
    BY <1>1, <1>2, <2>1 DEF LoginBuiltin
  <2> QED BY <1>2, <1>3, <2>1 DEF KeyNext, EmptyKey, ReadKey, StoreKey, Restart
<1>4. ASSUME SessionNext PROVE HeldShape'
  <2>1. ASSUME NEW r \in Replicas, Update(r) PROVE HeldShape'
    <3>1. \/ held' = held
          \/ \E n, i : held' = held \cup {[kind |-> "token", store |-> "tokens", name |-> n, id |-> i]}
      BY <2>1 DEF Update
    <3> QED BY <1>2, <3>1 DEF Stores
  <2>2. ASSUME NEW r \in Replicas, Forget(r) PROVE HeldShape'
    BY <1>1, <1>2, <2>2 DEF Forget
  <2> QED BY <1>2, <1>4, <2>1, <2>2 DEF SessionNext, Load, LoadEnds, ReadForWrite
<1>5. ASSUME UserNext \/ TokenNext PROVE HeldShape'
  <2>1. ASSUME NEW r \in Replicas, LoginEnds(r) PROVE HeldShape'
    BY <1>1, <1>2, <2>1 DEF LoginEnds
  <2> QED BY <1>2, <1>5, <2>1 DEF UserNext, TokenNext, Begin, Login, ChangeOwn
<1>6. ASSUME SignOnNext PROVE HeldShape'
  <2>1. ASSUME NEW r \in Replicas, NEW a \in answers, CompleteSignIn(r, a) PROVE HeldShape'
    BY <1>1, <1>2, <2>1 DEF CompleteSignIn
  <2> QED BY <1>2, <1>6, <2>1 DEF SignOnNext, BeginSignIn, Answer, Configure, accountVars
<1> QED BY <1>2, <1>3, <1>4, <1>5, <1>6 DEF Next, vars, access, accountVars

\* A change begins with what the Secret says, keeps or renews what it read, and ends.
LEMMA WriteStep ==
    ASSUME SecretShape, HeldShape, WriteInv, [Next]_vars
    PROVE  WriteInv'
<1>0. /\ \A s \in Stores : secret[s].version <= secret'[s].version
      /\ \A s \in Stores : secret[s].version \in Nat /\ secret'[s].version \in Nat
  BY SecretStep DEF SecretShape
<1>1. ASSUME NEW r \in Replicas, NEW w, write' = [write EXCEPT ![r] = w],
             w # Nothing => /\ {"store", "pc", "tries", "seen"} \subseteq DOMAIN w
                            /\ w.store \in Stores /\ w.seen.version \in Nat
                            /\ w.seen.version <= secret'[w.store].version
      PROVE  WriteInv'
  <2>1. /\ write' = [q \in Replicas |-> write'[q]] /\ write'[r] = w
        /\ \A q \in Replicas \ {r} : write'[q] = write[q]
    BY <1>1 DEF WriteInv
  <2>2. WriteKnows(r)'
    BY <1>1, <2>1 DEF WriteKnows
  <2>3. ASSUME NEW q \in Replicas \ {r} PROVE WriteKnows(q)'
    BY <1>0, <2>1 DEF WriteInv, WriteKnows
  <2> QED BY <2>1, <2>2, <2>3 DEF WriteInv
<1>2. ASSUME write' = write PROVE WriteInv'
  BY <1>0, <1>2 DEF WriteInv, WriteKnows
<1>3. ASSUME NEW r \in Replicas, write' = [write EXCEPT ![r] = Nothing] PROVE WriteInv'
  BY <1>1, <1>3
<1>4. ASSUME NEW r \in Replicas, NEW s \in Stores, NEW op,
             write' = [write EXCEPT ![r] = [store |-> s, pc |-> "update", op |-> op, tries |-> 0,
                                            seen |-> secret[s]]]
      PROVE  WriteInv'
  <2> DEFINE w == [store |-> s, pc |-> "update", op |-> op, tries |-> 0, seen |-> secret[s]]
  <2>1. /\ {"store", "pc", "tries", "seen"} \subseteq DOMAIN w
        /\ w.store = s /\ w.seen = secret[s]
    OBVIOUS
  <2>2. write' = [write EXCEPT ![r] = w]
    BY <1>4
  <2> HIDE DEF w
  <2> QED BY <1>0, <1>1, <2>1, <2>2
<1>5. ASSUME NEW r \in Replicas, write[r] # Nothing, NEW w, write' = [write EXCEPT ![r] = w],
             DOMAIN w = DOMAIN write[r], w.store = write[r].store,
             \/ w.seen = write[r].seen
             \/ w.seen \in {secret[w.store], secret'[w.store]}
      PROVE  WriteInv'
  <2>1. WriteKnows(r)
    BY DEF WriteInv
  <2>2. /\ {"store", "pc", "tries", "seen"} \subseteq DOMAIN w /\ w.store \in Stores
        /\ write[r].seen.version \in Nat
        /\ write[r].seen.version <= secret[w.store].version
    BY <1>5, <2>1 DEF WriteKnows
  <2>3. w.seen.version \in Nat /\ w.seen.version <= secret'[w.store].version
    BY <1>0, <1>5, <2>2
  <2> QED BY <1>1, <1>5, <2>2, <2>3
<1>6. ASSUME KeyNext PROVE WriteInv'
  BY <1>2, <1>3, <1>6 DEF KeyNext, EmptyKey, ReadKey, StoreKey, Restart, LoginBuiltin
<1>7. ASSUME SessionNext PROVE WriteInv'
  <2>1. ASSUME NEW r \in Replicas, ReadForWrite(r) PROVE WriteInv'
    <3> DEFINE w == [write[r] EXCEPT !.seen = secret[write[r].store], !.pc = "update"]
    <3>1. write[r] # Nothing /\ write' = [write EXCEPT ![r] = w]
      BY <2>1 DEF ReadForWrite, WriteInv
    <3>2. "store" \in DOMAIN write[r] /\ "seen" \in DOMAIN write[r]
      BY <3>1 DEF WriteInv, WriteKnows
    <3>3. /\ DOMAIN w = DOMAIN write[r] /\ w.store = write[r].store
          /\ w.seen = secret[write[r].store]
      BY <3>2
    <3> HIDE DEF w
    <3> QED BY <1>5, <3>1, <3>3
  <2>2. ASSUME NEW r \in Replicas, Update(r) PROVE WriteInv'
    <3>1. write[r] # Nothing
      BY <2>2 DEF Update
    <3>2. "store" \in DOMAIN write[r] /\ "seen" \in DOMAIN write[r]
      BY <3>1 DEF WriteInv, WriteKnows
    <3>3. CASE write' = [write EXCEPT ![r].pc = "forget", ![r].seen = secret'[write[r].store]]
      <4> DEFINE w == [write[r] EXCEPT !.pc = "forget", !.seen = secret'[write[r].store]]
      <4>1. write' = [write EXCEPT ![r] = w]
        BY <3>3 DEF WriteInv
      <4>2. /\ DOMAIN w = DOMAIN write[r] /\ w.store = write[r].store
            /\ w.seen = secret'[write[r].store]
        BY <3>2
      <4> HIDE DEF w
      <4> QED BY <1>5, <3>1, <4>1, <4>2
    <3>4. CASE write' = [write EXCEPT ![r].pc = "read", ![r].tries = @ + 1]
      <4> DEFINE w == [write[r] EXCEPT !.pc = "read", !.tries = @ + 1]
      <4>1. write' = [write EXCEPT ![r] = w]
        BY <3>4 DEF WriteInv
      <4>2. /\ DOMAIN w = DOMAIN write[r] /\ w.store = write[r].store
            /\ w.seen = write[r].seen
        BY <3>2
      <4> HIDE DEF w
      <4> QED BY <1>5, <3>1, <4>1, <4>2
    <3>5. CASE write' = [write EXCEPT ![r] = [write[r] EXCEPT !.pc = "forget"]]
      <4> DEFINE w == [write[r] EXCEPT !.pc = "forget"]
      <4>1. write' = [write EXCEPT ![r] = w]
        BY <3>5
      <4>2. /\ DOMAIN w = DOMAIN write[r] /\ w.store = write[r].store
            /\ w.seen = write[r].seen
        BY <3>2
      <4> HIDE DEF w
      <4> QED BY <1>5, <3>1, <4>1, <4>2
    <3> QED BY <1>3, <2>2, <3>3, <3>4, <3>5 DEF Update
  <2>3. ASSUME NEW r \in Replicas, Forget(r) PROVE WriteInv'
    BY <1>3, <2>3 DEF Forget
  <2> QED BY <1>2, <1>7, <2>1, <2>2, <2>3 DEF SessionNext, Load, LoadEnds
<1>8. ASSUME UserNext \/ TokenNext PROVE WriteInv'
  <2>1. ASSUME NEW r \in Replicas, NEW c \in held, NEW op, op.store \in Stores, Begin(r, c, op)
        PROVE  WriteInv'
    BY <1>4, <2>1 DEF Begin
  <2>2. ASSUME NEW r \in Replicas, NEW c \in held, NEW p \in Passwords, ChangeOwn(r, c, p)
        PROVE  WriteInv'
    <3>1. PICK op : write' = [write EXCEPT ![r] =
             [store |-> "users", pc |-> "update", op |-> op, tries |-> 0, seen |-> secret["users"]]]
      BY <2>2 DEF ChangeOwn
    <3> QED BY <1>4, <3>1 DEF Stores
  <2>3. \A op : UserOp(op).store \in Stores /\ TokenOp(op).store \in Stores
    BY DEF UserOp, TokenOp, Stores
  <2>4. ASSUME NEW r \in Replicas, NEW u \in Users, NEW p \in Passwords, Login(r, u, p)
        PROVE  WriteInv'
    BY <1>2, <2>4 DEF Login
  <2>5. ASSUME NEW r \in Replicas, LoginEnds(r) PROVE WriteInv'
    BY <1>2, <2>5 DEF LoginEnds
  <2> QED BY <1>8, <2>1, <2>2, <2>3, <2>4, <2>5 DEF UserNext, TokenNext
<1>9. ASSUME SignOnNext PROVE write' = write
  BY <1>9 DEF SignOnNext, BeginSignIn, Answer, CompleteSignIn, Configure, accountVars
<1> QED BY <1>2, <1>6, <1>7, <1>8, <1>9 DEF Next, vars, access, accountVars

\* A replica's own version moves only with Forget.
LEMMA WroteStays ==
    ASSUME KeyInv, KeyNext
    PROVE  \A q \in Replicas : replica'[q].wrote = replica[q].wrote
<1>0. PICK W : replica \in [Replicas -> ReplicaOf(W)]
  BY DEF KeyInv, KeyShape
<1>1. ASSUME NEW r \in Replicas, NEW pc, replica' = [replica EXCEPT ![r].pc = pc]
      PROVE  \A q \in Replicas : replica'[q].wrote = replica[q].wrote
  BY <1>0, <1>1 DEF ReplicaOf
<1>2. ASSUME NEW r \in Replicas, NEW n, replica' = [replica EXCEPT ![r].pc = "repair", ![r].seen = n]
      PROVE  \A q \in Replicas : replica'[q].wrote = replica[q].wrote
  BY <1>0, <1>2 DEF ReplicaOf
<1>3. ASSUME NEW r \in Replicas, NEW k,
             \/ replica' = [replica EXCEPT ![r] =
                              [@ EXCEPT !.pc = "up", !.key = k, !.current = TRUE]]
             \/ replica' = [replica EXCEPT ![r].pc = "up", ![r].key = k, ![r].current = TRUE]
      PROVE  \A q \in Replicas : replica'[q].wrote = replica[q].wrote
  <2>1. CASE replica' = [replica EXCEPT ![r] =
                           [@ EXCEPT !.pc = "up", !.key = k, !.current = TRUE]]
    BY <1>0, <2>1 DEF ReplicaOf
  <2>2. CASE replica' = [replica EXCEPT ![r].pc = "up", ![r].key = k, ![r].current = TRUE]
    BY <1>0, <2>2 DEF ReplicaOf
  <2> QED BY <1>3, <2>1, <2>2
<1>4. ASSUME replica' = [r \in Replicas |-> [replica[r] EXCEPT !.current = FALSE]]
      PROVE  \A q \in Replicas : replica'[q].wrote = replica[q].wrote
  BY <1>0, <1>4 DEF ReplicaOf
<1>5. ASSUME NEW r \in Replicas, ReadKey(r)
      PROVE  \/ replica' = [replica EXCEPT ![r].pc = "create"]
             \/ replica' = [replica EXCEPT ![r].pc = "repair", ![r].seen = keySecret.version]
             \/ replica' = [replica EXCEPT ![r].pc = "up", ![r].key = keySecret.key,
                                           ![r].current = TRUE]
  BY <1>5 DEF ReadKey, NoKey, Unusable
<1>6. ASSUME NEW r \in Replicas, StoreKey(r)
      PROVE  \/ replica' = [replica EXCEPT ![r].pc = "down"]
             \/ \E k : replica' = [replica EXCEPT ![r] =
                              [@ EXCEPT !.pc = "up", !.key = k, !.current = TRUE]]
  BY <1>6 DEF StoreKey
<1>7. ASSUME NEW r \in Replicas, Restart(r) PROVE replica' = [replica EXCEPT ![r].pc = "down"]
  BY <1>7 DEF Restart
<1>8. ASSUME EmptyKey
      PROVE  replica' = [r \in Replicas |-> [replica[r] EXCEPT !.current = FALSE]]
  BY <1>8 DEF EmptyKey
<1>9. ASSUME NEW r \in Replicas, LoginBuiltin(r) PROVE replica' = replica
  BY <1>9 DEF LoginBuiltin
<1> QED BY <1>1, <1>2, <1>3, <1>4, <1>5, <1>6, <1>7, <1>8, <1>9 DEF KeyNext

LEMMA CacheStep ==
    ASSUME AccessInv, [Next]_vars
    PROVE  CacheInv'
<1> USE DEF AccessInv
<1>0. /\ now \in Nat /\ now' \in Nat /\ now <= now'
      /\ \A s \in Stores : secret[s].version \in Nat /\ secret'[s].version \in Nat
      /\ \A s \in Stores : secret[s].version <= secret'[s].version
      /\ \A s \in Stores : \A d : \A t \in Int : t <= now /\ WasSo(s, d, t) => WasSo(s, d, t)'
  BY SecretStep DEF SecretShape
<1>1. ASSUME NEW q \in Replicas, NEW s \in Stores, replica'[q].wrote = replica[q].wrote,
             load'[q][s] = load[q][s]
      PROVE  LoadKnows(q, s)'
  <2> SUFFICES ASSUME load[q][s] # Nothing PROVE LoadKnows(q, s)'
    BY <1>1 DEF LoadKnows
  <2>1. LoadKnows(q, s)
    BY DEF CacheInv
  <2>2. WasSo(s, load[q][s].data, load[q][s].at)'
    BY <1>0, <1>1, <2>1 DEF LoadKnows
  <2> QED BY <1>0, <1>1, <2>1, <2>2 DEF LoadKnows
<1>2. ASSUME NEW q \in Replicas, NEW s \in Stores, load'[q][s] = Nothing PROVE LoadKnows(q, s)'
  BY <1>2 DEF LoadKnows
<1>3. ASSUME NEW q \in Replicas, NEW s \in Stores,
             s = "users" => replica'[q].wrote = replica[q].wrote,
             cache'[q][s] = cache[q][s]
      PROVE  CacheKnows(q, s)'
  <2> SUFFICES ASSUME cache[q][s].at # None PROVE CacheKnows(q, s)'
    BY <1>3 DEF CacheKnows
  <2>1. CacheKnows(q, s)
    BY DEF CacheInv
  <2>2. WasSo(s, cache[q][s].data, cache[q][s].at - cache[q][s].took)'
    BY <1>0, <1>3, <2>1 DEF CacheKnows
  <2> QED BY <1>0, <1>3, <2>1, <2>2 DEF CacheKnows
<1>4. ASSUME NEW q \in Replicas, NEW s \in Stores, cache'[q][s].at = None PROVE CacheKnows(q, s)'
  BY <1>4 DEF CacheKnows
<1>5. ASSUME NEW q \in Replicas, replica'[q].wrote = replica[q].wrote PROVE WroteKnows(q)'
  BY <1>0, <1>5 DEF CacheInv, WroteKnows, Stores
<1>6. ASSUME UNCHANGED <<cache, load>>, \A q \in Replicas : replica'[q].wrote = replica[q].wrote
      PROVE  CacheInv'
  BY <1>1, <1>3, <1>5, <1>6 DEF CacheInv
<1>7. ASSUME NEW r \in Replicas, Restart(r), \A q \in Replicas : replica'[q].wrote = replica[q].wrote
      PROVE  CacheInv'
  <2>1. /\ cache' = [cache EXCEPT ![r] = EmptyCache]
        /\ load' = [load EXCEPT ![r] = [s \in Stores |-> Nothing]]
    BY <1>7 DEF Restart
  <2>2. /\ cache' = [q \in Replicas |-> [s \in Stores |-> cache'[q][s]]]
        /\ load' = [q \in Replicas |-> [s \in Stores |-> load'[q][s]]]
        /\ \A q \in Replicas \ {r}, s \in Stores : cache'[q][s] = cache[q][s] /\ load'[q][s] = load[q][s]
        /\ \A s \in Stores : cache'[r][s].at = None /\ load'[r][s] = Nothing
    BY <2>1 DEF CacheInv, EmptyCache
  <2>3. \A q \in Replicas, s \in Stores : LoadKnows(q, s)'
    BY <1>1, <1>2, <1>7, <2>2
  <2>4. \A q \in Replicas, s \in Stores : CacheKnows(q, s)'
    BY <1>3, <1>4, <1>7, <2>2
  <2> QED BY <1>5, <1>7, <2>2, <2>3, <2>4 DEF CacheInv
<1>8. ASSUME NEW r \in Replicas, NEW c \in held, Load(r, c) PROVE CacheInv'
  <2>a. PICK x : x = c.store
    OBVIOUS
  <2>b. PICK l : l = [store |-> x, cred |-> c, at |-> now, version |-> secret[x].version,
                      data |-> secret[x].data]
    OBVIOUS
  <2>1. /\ x \in Stores /\ UNCHANGED <<cache, replica, secret, past>> /\ now' = now
        /\ load' = [load EXCEPT ![r][x] = l]
    BY <1>8, <2>a, <2>b DEF Load, NoFault, clockVars, HeldShape
  <2>2. l.at = now /\ l.version = secret[x].version /\ l.data = secret[x].data
    BY <2>b
  <2>3. /\ load' = [q \in Replicas |-> [s \in Stores |-> load'[q][s]]]
        /\ load'[r][x] = l
        /\ \A q \in Replicas, s \in Stores : q # r \/ s # x => load'[q][s] = load[q][s]
    BY <2>1 DEF CacheInv
  <2>4. LoadKnows(r, x)'
    <3>1. replica'[r].wrote \in Nat /\ (x = "users" => replica'[r].wrote <= secret[x].version)
      BY <2>1 DEF CacheInv, WroteKnows
    <3>2. WasSo(x, l.data, l.at)'
      BY <2>1, <2>2 DEF WasSo
    <3> QED BY <1>0, <2>1, <2>2, <2>3, <3>1, <3>2 DEF LoadKnows
  <2>5. \A q \in Replicas, s \in Stores : LoadKnows(q, s)'
    BY <1>1, <2>1, <2>3, <2>4
  <2> QED BY <1>3, <1>5, <2>1, <2>3, <2>5 DEF CacheInv
<1>9. ASSUME NEW r \in Replicas, NEW x \in Stores, LoadEnds(r, x) PROVE CacheInv'
  <2>1. load[r][x] # Nothing /\ UNCHANGED <<replica, secret, past>> /\ now' = now
    BY <1>9 DEF LoadEnds, NoFault, Fault, clockVars
  <2>2. load' = [load EXCEPT ![r][x] = Nothing]
    BY <1>9 DEF LoadEnds
  <2>3. /\ load' = [q \in Replicas |-> [s \in Stores |-> load'[q][s]]]
        /\ load'[r][x] = Nothing
        /\ \A q \in Replicas, s \in Stores : q # r \/ s # x => load'[q][s] = load[q][s]
    BY <2>2 DEF CacheInv
  <2>4. \A q \in Replicas, s \in Stores : LoadKnows(q, s)'
    BY <1>1, <1>2, <2>1, <2>3
  <2>5. CASE cache' = cache
    BY <1>3, <1>5, <2>1, <2>3, <2>4, <2>5 DEF CacheInv
  <2>6. CASE cache' = [cache EXCEPT ![r][x] = [at |-> now, took |-> now - load[r][x].at,
                          version |-> load[r][x].version, data |-> load[r][x].data]]
    <3>a. PICK e : e = [at |-> now, took |-> now - load[r][x].at,
                        version |-> load[r][x].version, data |-> load[r][x].data]
      OBVIOUS
    <3>1. cache' = [cache EXCEPT ![r][x] = e]
      BY <2>6, <3>a
    <3>2. /\ e.at = now /\ e.took = now - load[r][x].at
          /\ e.version = load[r][x].version /\ e.data = load[r][x].data
      BY <3>a
    <3>3. /\ cache' = [q \in Replicas |-> [s \in Stores |-> cache'[q][s]]]
          /\ cache'[r][x] = e
          /\ \A q \in Replicas, s \in Stores : q # r \/ s # x => cache'[q][s] = cache[q][s]
      BY <3>1 DEF CacheInv
    <3>4. LoadKnows(r, x)
      BY DEF CacheInv
    <3>5. CacheKnows(r, x)'
      <4>1. /\ e.at \in Nat /\ e.took \in Nat /\ e.at - e.took = load[r][x].at
            /\ load[r][x].at <= now /\ e.version \in Nat
        BY <1>0, <2>1, <3>2, <3>4 DEF LoadKnows
      <4>2. WasSo(x, e.data, e.at - e.took)'
        BY <2>1, <3>2, <3>4, <4>1 DEF LoadKnows, WasSo
      <4>3. x = "users" => e.version >= replica'[r].wrote
        BY <2>1, <3>2, <3>4 DEF LoadKnows
      <4> QED BY <1>0, <2>1, <3>2, <3>3, <4>1, <4>2, <4>3 DEF CacheKnows
    <3>6. \A q \in Replicas, s \in Stores : CacheKnows(q, s)'
      BY <1>3, <2>1, <3>3, <3>5
    <3> QED BY <1>5, <2>1, <2>3, <2>4, <3>3, <3>6 DEF CacheInv
  <2> QED BY <1>9, <2>5, <2>6 DEF LoadEnds
<1>10. ASSUME NEW r \in Replicas, Forget(r) PROVE CacheInv'
  <2> DEFINE x == write[r].store
  <2>1. /\ x = "users" => load[r]["users"] = Nothing
        /\ cache' = [cache EXCEPT ![r] = [cache[r] EXCEPT ![x] = EmptyCache[x]]]
        /\ UNCHANGED <<secret, load, past>> /\ now' = now
    BY <1>10 DEF Forget, Forgotten, NoFault, clockVars
  <2>2. x \in Stores /\ write[r].seen.version \in Nat /\ write[r].seen.version <= secret[x].version
    BY <1>10 DEF Forget, WriteInv, WriteKnows
  <2>3. /\ \A q \in Replicas \ {r} : replica'[q].wrote = replica[q].wrote
        /\ x = "users" => replica'[r].wrote = write[r].seen.version
        /\ x # "users" => replica'[r].wrote = replica[r].wrote
    <3>1. PICK n : /\ replica' = [replica EXCEPT ![r].wrote = n]
                   /\ n = IF x = "users" THEN write[r].seen.version ELSE replica[r].wrote
      BY <1>10 DEF Forget, KeyInv, KeyShape
    <3>2. PICK W : replica \in [Replicas -> ReplicaOf(W)]
      BY DEF KeyInv, KeyShape
    <3>3. replica'[r].wrote = n /\ \A q \in Replicas \ {r} : replica'[q] = replica[q]
      BY <3>1, <3>2 DEF ReplicaOf
    <3> QED BY <3>1, <3>3
  <2>4. /\ cache' = [q \in Replicas |-> [s \in Stores |-> cache'[q][s]]]
        /\ cache'[r][x].at = None
        /\ \A q \in Replicas, s \in Stores : q # r \/ s # x => cache'[q][s] = cache[q][s]
    <3> HIDE DEF x
    <3>1. EmptyCache[x].at = None
      BY <2>2 DEF EmptyCache
    <3> QED BY <2>1, <2>2, <3>1 DEF CacheInv
  <2> HIDE DEF x
  <2>5. \A q \in Replicas, s \in Stores : LoadKnows(q, s)'
    <3>1. ASSUME NEW s \in Stores PROVE LoadKnows(r, s)'
      <4>1. CASE x # "users"
        BY <1>1, <2>1, <2>3, <4>1
      <4>2. CASE x = "users" /\ s = "users"
        BY <1>2, <2>1, <4>2
      <4>3. CASE x = "users" /\ s # "users"
        <5>1. LoadKnows(r, s)
          BY DEF CacheInv
        <5> QED BY <2>1, <4>3, <5>1 DEF LoadKnows, WasSo
      <4> QED BY <4>1, <4>2, <4>3
    <3> QED BY <1>1, <2>1, <2>3, <3>1
  <2>6. \A q \in Replicas, s \in Stores : CacheKnows(q, s)'
    <3>1. ASSUME NEW s \in Stores PROVE CacheKnows(r, s)'
      BY <1>3, <1>4, <2>3, <2>4
    <3> QED BY <1>3, <2>3, <2>4, <3>1
  <2>7. \A q \in Replicas : WroteKnows(q)'
    <3>1. CASE x = "users"
      BY <1>5, <2>1, <2>2, <2>3, <3>1 DEF WroteKnows
    <3> QED BY <1>5, <2>3, <3>1
  <2> QED BY <2>1, <2>4, <2>5, <2>6, <2>7 DEF CacheInv
<1>11. ASSUME UNCHANGED <<cache, load, replica>> PROVE CacheInv'
  BY <1>6, <1>11
<1>12. ASSUME KeyNext PROVE CacheInv'
  <2>1. \A q \in Replicas : replica'[q].wrote = replica[q].wrote
    BY <1>12, WroteStays
  <2>2. UNCHANGED <<cache, load>> \/ \E r \in Replicas : Restart(r)
    BY <1>12 DEF KeyNext, EmptyKey, ReadKey, StoreKey, LoginBuiltin
  <2> QED BY <1>6, <1>7, <2>1, <2>2
<1>13. ASSUME SessionNext PROVE CacheInv'
  <2>1. ASSUME NEW r \in Replicas, ReadForWrite(r) \/ Update(r) PROVE UNCHANGED <<cache, load, replica>>
    BY <2>1 DEF ReadForWrite, Update
  <2> QED BY <1>8, <1>9, <1>10, <1>11, <1>13, <2>1 DEF SessionNext
<1>14. ASSUME UserNext \/ TokenNext PROVE UNCHANGED <<cache, load, replica>>
  BY <1>14 DEF UserNext, TokenNext, Begin, Login, LoginEnds, ChangeOwn
<1>15. ASSUME SignOnNext PROVE UNCHANGED <<cache, load, replica>>
  BY <1>15 DEF SignOnNext, BeginSignIn, Answer, CompleteSignIn, Configure, accountVars
<1> QED
  BY <1>11, <1>12, <1>13, <1>14, <1>15 DEF Next, vars, access, accountVars

\* Nobody is let in by what was withdrawn longer ago than a cache may be old, on any
\* replica, however the reads, changes and restarts of all of them interleave; and the
\* replica a user was changed through forgets at once (Users.Session, Tokens.Authenticate).
THEOREM AccessEnds == Spec => []AccessEndsInTime
<1>1. AccessInv /\ [Next]_vars => AccessInv'
  BY KeyStep, SecretStep, HeldStep, WriteStep, CacheStep DEF AccessInv
<1>2. ASSUME AccessInv PROVE AccessEndsInTime
  <2>1. ASSUME NEW r \in Replicas, NEW c \in held, c.kind \in {"user", "token"}, Admits(r, c)
        PROVE  /\ \E data \in Recent(c.store, cache[r][c.store].took) :
                     Valid(c, data) /\ RoleOf(r, c) = data[c.name].role
               /\ c.store = "users" => cache[r]["users"].version >= replica[r].wrote
    <3> DEFINE e == cache[r][c.store]
    <3>1. c.store \in Stores /\ Fresh(r, c.store) /\ Valid(c, e.data)
      BY <1>2, <2>1 DEF AccessInv, HeldShape, Admits
    <3>2. e.at # None /\ CacheKnows(r, c.store) /\ now \in Nat
      BY <1>2, <3>1 DEF Fresh, AccessInv, CacheInv, SecretShape
    <3>3. now - e.at <= CacheTTL
      BY <3>1, <3>2, AccountAssumption DEF Fresh, CacheKnows
    <3>4. e.data \in Recent(c.store, e.took)
      <4>1. WasSo(c.store, e.data, e.at - e.took) /\ e.at \in Nat /\ e.took \in Nat
        BY <3>2 DEF CacheKnows
      <4>2. CASE e.data = secret[c.store].data
        BY <4>2 DEF Recent
      <4>3. ASSUME NEW p \in past, p.store = c.store, p.data = e.data, p.until >= e.at - e.took
            PROVE  e.data \in Recent(c.store, e.took)
        <5>1. p.until >= now - CacheTTL - e.took
          BY <1>2, <3>2, <3>3, <4>1, <4>3, AccountAssumption DEF AccessInv, SecretShape
        <5>2. p \in {q \in past : q.store = c.store /\ q.until >= now - CacheTTL - e.took}
          BY <4>3, <5>1
        <5> HIDE DEF e
        <5> QED BY <4>3, <5>2 DEF Recent
      <4> QED BY <4>1, <4>2, <4>3 DEF WasSo
    <3>5. RoleOf(r, c) = e.data[c.name].role
      BY <2>1 DEF RoleOf
    <3>6. c.store = "users" => cache[r]["users"].version >= replica[r].wrote
      BY <3>2 DEF CacheKnows
    <3> QED BY <3>1, <3>4, <3>5, <3>6
  <2> QED BY <2>1 DEF AccessEndsInTime
<1> QED BY <1>1, <1>2, AccessInit, PTL DEF Spec

-----------------------------------------------------------------------------
(* The advice.                                                              *)

\* Rounding up.
LEMMA CeilIs ==
  ASSUME NEW n \in Nat, NEW k \in Nat \ {0}
  PROVE  CeilDiv(n, k) \in Nat /\ n <= k * CeilDiv(n, k) /\ k * CeilDiv(n, k) < n + k
<1>1. PICK v \in Nat : v = n + k - 1
  OBVIOUS
<1>2. PICK q \in Int : q = v \div k
  OBVIOUS
<1>3. PICK r \in 0..(k - 1) : r = v % k
  OBVIOUS
<1>4. v = k * q + r
  BY <1>2, <1>3
<1>5. q >= 0
  <2>1. ASSUME q <= -1 PROVE FALSE
    <3>1. k * q <= -k
      BY <2>1
    <3> QED BY <1>3, <1>4, <3>1
  <2> QED BY <2>1
<1>6. CeilDiv(n, k) = q
  BY <1>1, <1>2 DEF CeilDiv
<1>7. n <= k * q /\ k * q < n + k
  BY <1>1, <1>3, <1>4
<1> QED BY <1>2, <1>5, <1>6, <1>7

LEMMA PercentIs ==
  ASSUME NEW n \in Nat
  PROVE  CeilDiv(n, 100) \in Nat /\ n <= 100 * CeilDiv(n, 100) /\ 100 * CeilDiv(n, 100) < n + 100
BY CeilIs

LEMMA MebibytesAre ==
  ASSUME NEW n \in Nat
  PROVE  roundMebibytes(n) \in Nat /\ n <= roundMebibytes(n) /\ roundMebibytes(n) < n + Mi
<1>1. PICK q \in Nat : q = CeilDiv(n, 100) /\ n <= 100 * q /\ 100 * q < n + 100
  BY PercentIs
<1> QED BY <1>1 DEF roundMebibytes, Mi

LEMMA RoundedCPU ==
  ASSUME NEW n \in Nat
  PROVE  roundCPU(n) \in Nat /\ n <= roundCPU(n)
<1>1. PICK q \in Nat : q = CeilDiv(n, 5) /\ n <= 5 * q /\ 5 * q < n + 5
  BY CeilIs
<1> QED BY <1>1 DEF roundCPU

\* What is asked for is no less than the demand.
LEMMA EnoughIs ==
  ASSUME NEW n \in Nat, NEW h \in Nat, h >= 100
  PROVE  CeilDiv(n * h, 100) \in Nat /\ n <= CeilDiv(n * h, 100)
<1>1. PICK v \in Nat : v = n * h /\ v >= n * 100
  <2>1. n * h \in Nat /\ n * h >= n * 100
    OBVIOUS
  <2> QED BY <2>1
<1>2. PICK q \in Nat : q = CeilDiv(v, 100) /\ v <= 100 * q
  BY PercentIs
<1>3. n <= q
  BY <1>1, <1>2
<1>4. q = CeilDiv(n * h, 100)
  BY <1>1, <1>2, Zenon
<1> QED BY <1>2, <1>3, <1>4, Zenon

LEMMA ClampIs ==
  ASSUME NEW min \in Nat, NEW max \in Nat, NEW v \in Nat
  PROVE  clamp(min, max, v) \in Nat /\ (clamp(min, max, v) >= v \/ (max > 0 /\ clamp(min, max, v) = max))
BY DEF clamp, Larger

-----------------------------------------------------------------------------
(* Options.                                                                 *)

LEMMA LeastNumber ==
  ASSUME NEW S \in SUBSET Nat, S # {}
  PROVE  \E m \in S : \A k \in S : m <= k
<1> DEFINE R == {p \in Nat \X Nat : p[1] < p[2]}
<1>1. IsWellFoundedOn(R, Nat)
  BY NatLessThanWellFounded DEF OpToRel
<1>2. PICK m \in S : \A k \in S : ~(<<k, m>> \in R)
  <2> HIDE DEF R
  <2> QED BY <1>1, WFMin
<1>3. \A k \in S : ~(k < m)
  BY <1>2
<1> QED BY <1>3

LEMMA GreatestNumber ==
  ASSUME NEW n \in Nat, NEW S \in SUBSET (1..n), S # {}
  PROVE  Max(S) \in S
<1>1. PICK T \in SUBSET Nat : T = {k \in Nat : \E i \in S : i + k = n}
  OBVIOUS
<1>2. PICK i \in S : TRUE
  OBVIOUS
<1>3. n - i \in T
  BY <1>1, <1>2
<1>4. PICK k \in T : \A j \in T : k <= j
  BY <1>1, <1>3, LeastNumber
<1>5. PICK m \in S : m + k = n
  BY <1>1, <1>4
<1>6. ASSUME NEW j \in S PROVE m >= j
  BY <1>1, <1>4, <1>5
<1> QED BY <1>5, <1>6 DEF Max

LEMMA ParseIs ==
  ASSUME NEW ts \in Seq(Token)
  PROVE  Parse(ts) \in [Flags -> Nat]
<1>1. ASSUME NEW f \in Flags,
             NEW S, S = {i \in DOMAIN ts : ts[i].flag = f /\ ts[i].value > 0}, S # {}
      PROVE  ts[Max(S)].value \in Nat
  <2>1. PICK n \in Nat : n = Len(ts) /\ DOMAIN ts = 1..n
    OBVIOUS
  <2>2. Max(S) \in S
    BY <1>1, <2>1, GreatestNumber
  <2>3. ts[Max(S)] \in Token
    BY <1>1, <2>2
  <2> QED BY <2>3 DEF Token
<1> QED BY <1>1 DEF Parse

LEMMA ParseMore ==
  ASSUME NEW ts \in Seq(Token), NEW t \in Token, t.value > 0
  PROVE  \A f \in Flags : Parse(Append(ts, t))[f] = IF f = t.flag THEN t.value ELSE Parse(ts)[f]
<1>1. PICK n \in Nat : n = Len(ts) /\ DOMAIN ts = 1..n
  OBVIOUS
<1>2. PICK us : us = Append(ts, t)
  OBVIOUS
<1>3. DOMAIN us = 1..(n + 1) /\ us[n + 1] = t /\ \A i \in 1..n : us[i] = ts[i]
  BY <1>1, <1>2
<1> SUFFICES ASSUME NEW f \in Flags PROVE Parse(us)[f] = IF f = t.flag THEN t.value ELSE Parse(ts)[f]
  BY <1>2
<1>4. PICK S : S = {i \in DOMAIN ts : ts[i].flag = f /\ ts[i].value > 0}
  OBVIOUS
<1>5. PICK U : U = {i \in DOMAIN us : us[i].flag = f /\ us[i].value > 0}
  OBVIOUS
<1>6. Parse(us)[f] = IF U = {} THEN 0 ELSE us[Max(U)].value
  BY <1>5, Zenon DEF Parse
<1>7. Parse(ts)[f] = IF S = {} THEN 0 ELSE ts[Max(S)].value
  BY <1>4, Zenon DEF Parse
<1>8. CASE f = t.flag
  <2>1. n + 1 \in U /\ \A i \in U : i \in 1..(n + 1)
    BY <1>3, <1>5, <1>8
  <2>2. Max(U) = n + 1
    <3>1. Max(U) \in U /\ \A i \in U : Max(U) >= i
      BY <2>1 DEF Max
    <3> QED BY <2>1, <3>1
  <2> QED BY <1>3, <1>6, <1>8, <2>1, <2>2
<1>9. CASE f # t.flag
  <2>1. U = S
    BY <1>1, <1>3, <1>4, <1>5, <1>9
  <2>2. S # {} => Max(S) \in 1..n
    BY <1>1, <1>4, GreatestNumber
  <2> QED BY <1>3, <1>6, <1>7, <1>9, <2>1, <2>2
<1> QED BY <1>8, <1>9

-----------------------------------------------------------------------------
(* A container and what is read of it.                                      *)

\* What OptionTokens and Inspect look at.
SameProgram(c, e) ==
    /\ e.annotation = c.annotation /\ e.command = c.command /\ e.javaImage = c.javaImage
    /\ e.args = c.args /\ e.env = c.env

LEMMA ContainerIs ==
  ASSUME NEW c \in ContainerSpec
  PROVE  /\ c.cpu \in Nat /\ c.cpuLimit \in Nat /\ c.mem \in Nat /\ c.memLimit \in Nat
         /\ c.args \in Seq(Token) /\ c.env \in [OptionVariables -> Seq(Token)]
         /\ c.cpuLimit > 0 => c.cpu <= c.cpuLimit
         /\ c.memLimit > 0 => c.mem <= c.memLimit
         /\ c.annotation \in {"", "java", "none"} /\ c.command \in {"java", "sh"} /\ c.javaImage \in BOOLEAN
BY DEF ContainerSpec

LEMMA SameContainer ==
  ASSUME NEW c \in ContainerSpec, NEW e \in ContainerSpec, SameProgram(c, e),
         e.cpu = c.cpu, e.cpuLimit = c.cpuLimit, e.mem = c.mem, e.memLimit = c.memLimit
  PROVE  e = c
<1>1. ASSUME NEW b \in ContainerSpec
      PROVE  b = [cpu |-> b.cpu, cpuLimit |-> b.cpuLimit, mem |-> b.mem, memLimit |-> b.memLimit,
                  annotation |-> b.annotation, command |-> b.command, javaImage |-> b.javaImage,
                  args |-> b.args, env |-> b.env]
  BY DEF ContainerSpec
<1>2. /\ e.annotation = c.annotation /\ e.command = c.command /\ e.javaImage = c.javaImage
      /\ e.args = c.args /\ e.env = c.env
  BY DEF SameProgram
<1>3. PICK b : b = [cpu |-> e.cpu, cpuLimit |-> e.cpuLimit, mem |-> e.mem, memLimit |-> e.memLimit,
                    annotation |-> e.annotation, command |-> e.command, javaImage |-> e.javaImage,
                    args |-> e.args, env |-> e.env]
  OBVIOUS
<1>4. e = b
  BY <1>1, <1>3, Zenon
<1>5. c = b
  BY <1>1, <1>2, <1>3
<1> QED BY <1>4, <1>5

LEMMA TokensAre ==
  ASSUME NEW c \in ContainerSpec
  PROVE  OptionTokens(c) \in Seq(Token)
<1>1. PICK e : e = c.env
  OBVIOUS
<1>2. e["JAVA_TOOL_OPTIONS"] \in Seq(Token) /\ e["JDK_JAVA_OPTIONS"] \in Seq(Token)
  BY <1>1, ContainerIs DEF OptionVariables
<1>3. e["JAVA_OPTS"] \in Seq(Token) /\ e["_JAVA_OPTIONS"] \in Seq(Token)
  BY <1>1, ContainerIs DEF OptionVariables
<1>4. (IF c.command = "java" THEN <<>> ELSE e["JAVA_OPTS"]) \in Seq(Token)
  BY <1>3
<1>5. c.args \in Seq(Token)
  BY ContainerIs
<1> QED BY <1>1, <1>2, <1>3, <1>4, <1>5 DEF OptionTokens

LEMMA OptionsAre ==
  ASSUME NEW c \in ContainerSpec
  PROVE  Options(c) \in [Flags -> Nat]
<1>1. Parse(OptionTokens(c)) \in [Flags -> Nat]
  BY TokensAre, ParseIs
<1>2. NoOptions \in [Flags -> Nat]
  <2>1. <<>> \in Seq(Token)
    OBVIOUS
  <2> QED BY <2>1, ParseIs DEF NoOptions
<1> QED BY <1>1, <1>2 DEF Options

LEMMA SameOptions ==
  ASSUME NEW c, NEW e, SameProgram(c, e)
  PROVE  Options(e) = Options(c) /\ (Inspect(e) <=> Inspect(c))
<1>1. OptionTokens(e) = OptionTokens(c)
  BY DEF SameProgram, OptionTokens
<1>2. Inspect(e) <=> Inspect(c)
  BY DEF SameProgram, Inspect
<1> QED BY <1>1, <1>2 DEF Options

LEMMA HeapIs ==
  ASSUME NEW o \in [Flags -> Nat], NEW limit \in Nat
  PROVE  HeapFor(o, limit) \in Nat
<1>1. /\ o["heap"] \in Nat /\ o["ram"] \in Nat /\ o["support"] \in Nat /\ o["maxShare"] \in Nat
      /\ o["minShare"] \in Nat
  BY DEF Flags
<1>2. PICK p \in Nat : p = IF o["ram"] > 0 THEN o["ram"] ELSE IF o["support"] = 1 THEN 0 ELSE limit
  BY <1>1
<1>3. PICK x \in Nat : x = IF o["maxShare"] > 0 THEN o["maxShare"] ELSE 25
  BY <1>1
<1>4. PICK y \in Nat : y = IF o["minShare"] > 0 THEN o["minShare"] ELSE 50
  BY <1>1
<1>5. PICK a \in Nat : a = p * y
  OBVIOUS
<1>6. PICK b \in Nat : b = p * x
  OBVIOUS
<1>7. HeapFor(o, limit) = IF o["heap"] > 0 THEN o["heap"] ELSE IF p = 0 THEN 0
                          ELSE IF a < BuiltInMaxHeapSize * 100 THEN a \div 100
                          ELSE Larger(b \div 100, BuiltInMaxHeapSize)
  BY <1>2, <1>3, <1>4, <1>5, <1>6, Zenon DEF HeapFor
<1> QED BY <1>1, <1>7 DEF Larger, BuiltInMaxHeapSize

LEMMA NativeIs ==
  ASSUME NEW h \in Nat, NEW n \in Nat
  PROVE  NativeMemory(h, n) \in Nat
<1>1. PICK q \in Nat : q = CeilDiv(n * 120, 100)
  BY EnoughIs
<1>2. PICK r \in Nat : r = CeilDiv(h, 4)
  BY CeilIs
<1> QED BY <1>1, <1>2 DEF NativeMemory, Larger, Mi

LEMMA FloorIs ==
  ASSUME NEW c \in ContainerSpec, NEW d \in PeakDemand
  PROVE  memoryFloor(c, d) \in Nat
<1>1. PICK h \in Nat : h = HeapFor(Options(c), c.memLimit)
  BY OptionsAre, ContainerIs, HeapIs
<1>2. PICK n \in Nat : n = d.nonHeap
  BY DEF PeakDemand
<1>3. PICK m \in Nat : m = NativeMemory(h, n)
  BY NativeIs
<1>4. PICK r \in Nat : r = roundMebibytes(h + m)
  BY MebibytesAre
<1> QED BY <1>1, <1>2, <1>3, <1>4 DEF memoryFloor

-----------------------------------------------------------------------------
(* What is recommended, and applied.                                        *)

LEMMA HeadroomIs ==
  ASSUME NEW d \in PeakDemand, NEW p \in PolicyBounds
  PROVE  HeadroomOf(d, p) \in Nat /\ HeadroomOf(d, p) >= 100
BY DEF PolicyBounds, HeadroomOf, Headroom

LEMMA CpuRecIs ==
  ASSUME NEW d \in PeakDemand, NEW p \in PolicyBounds
  PROVE  /\ cpuRec(d, p) \in Nat
         /\ cpuRec(d, p) >= d.cpu \/ (p.cpuMax > 0 /\ cpuRec(d, p) = roundCPU(p.cpuMax))
<1>1. PICK n \in Nat : n = d.cpu
  BY DEF PeakDemand
<1>2. PICK h \in Nat : h = HeadroomOf(d, p) /\ h >= 100
  BY HeadroomIs
<1>3. PICK q \in Nat : q = CeilDiv(n * h, 100) /\ n <= q
  BY <1>2, EnoughIs
<1>4. PICK v \in Nat : v = Larger(q, 10) /\ n <= v
  BY <1>3 DEF Larger
<1>5. PICK min \in Nat, max \in Nat : min = p.cpuMin /\ max = p.cpuMax
  BY DEF PolicyBounds
<1>6. PICK w \in Nat : w = clamp(min, max, v) /\ (w >= v \/ (max > 0 /\ w = max))
  BY ClampIs
<1>7. PICK r \in Nat : r = roundCPU(w) /\ w <= r
  BY RoundedCPU
<1>8. cpuRec(d, p) = r
  BY <1>1, <1>2, <1>3, <1>4, <1>5, <1>6, <1>7, Zenon DEF cpuRec
<1> QED BY <1>1, <1>4, <1>5, <1>6, <1>7, <1>8

LEMMA MemRecIs ==
  ASSUME NEW c \in ContainerSpec, NEW d \in PeakDemand, NEW p \in PolicyBounds
  PROVE  /\ memRec(c, d, p) \in Nat
         /\ memRec(c, d, p) >= d.mem \/ (p.memMax > 0 /\ memRec(c, d, p) = roundMebibytes(p.memMax))
<1>1. PICK n \in Nat : n = d.mem
  BY DEF PeakDemand
<1>2. PICK h \in Nat : h = HeadroomOf(d, p) /\ h >= 100
  BY HeadroomIs
<1>3. PICK q \in Nat : q = CeilDiv(n * h, 100) /\ n <= q
  BY <1>2, EnoughIs
<1>4. PICK u \in Nat : u = Larger(q, MinMemory(d)) /\ n <= u
  BY <1>3 DEF Larger, MinMemory, Mi
<1>5. PICK x \in Nat : x = roundMebibytes(u) /\ n <= x
  BY <1>4, MebibytesAre
<1>6. PICK f \in Nat : f = memoryFloor(c, d)
  BY FloorIs
<1>7. PICK v \in Nat : v = Larger(x, f) /\ n <= v
  BY <1>5 DEF Larger
<1>8. PICK min \in Nat, max \in Nat : min = p.memMin /\ max = p.memMax
  BY DEF PolicyBounds
<1>9. PICK w \in Nat : w = clamp(min, max, v) /\ (w >= v \/ (max > 0 /\ w = max))
  BY ClampIs
<1>10. PICK r \in Nat : r = roundMebibytes(w) /\ w <= r
  BY MebibytesAre
<1>11. memRec(c, d, p) = r
  BY <1>1, <1>2, <1>3, <1>4, <1>5, <1>6, <1>7, <1>8, <1>9, <1>10, Zenon DEF memRec
<1> QED BY <1>1, <1>7, <1>8, <1>9, <1>10, <1>11

\* The advice a asks for t, if it asks for something.
Effective == {"reduce", "increase", "set"}
Asks(a, t) == a.action \in Effective => a.to = t
Capped(t, limit) == IF limit > 0 /\ t > limit THEN limit ELSE t

LEMMA AdviseIs ==
  ASSUME NEW r, NEW n, NEW t, NEW b
  PROVE  Asks(advise(r, n, t, b), t)
BY DEF Asks, advise, Effective

LEMMA HeldIs ==
  ASSUME NEW a, NEW t, NEW b, Asks(a, t)
  PROVE  Asks(holdReduction(a, b), t)
BY DEF Asks, holdReduction, Effective

LEMMA AnalyzeAsks ==
  ASSUME NEW c, NEW d, NEW s, NEW p
  PROVE  /\ Asks(Analyze(c, d, s, p).cpu, cpuRec(d, p))
         /\ Asks(Analyze(c, d, s, p).mem, memRec(c, d, p))
<1>1. PICK a : a = advise(c.cpu, d.cpu, cpuRec(d, p), d.seen)
  OBVIOUS
<1>2. PICK f : f = IF memoryFloor(c, d) < memRec(c, d, p) THEN memoryFloor(c, d) ELSE memRec(c, d, p)
  OBVIOUS
<1>3. PICK m : m = IF f > c.mem THEN [action |-> IF c.mem = 0 THEN "set" ELSE "increase", to |-> memRec(c, d, p)]
                   ELSE advise(c.mem, d.mem, memRec(c, d, p), d.seen)
  OBVIOUS
<1>4. Asks(m, memRec(c, d, p))
  BY <1>3, AdviseIs DEF Asks
<1>5. PICK h : h = HoldReductions(c, d, s)
  OBVIOUS
<1>6. Analyze(c, d, s, p) = [cpu |-> holdReduction(a, h.cpu), mem |-> holdReduction(m, h.mem)]
  BY <1>1, <1>2, <1>3, <1>5, Zenon DEF Analyze
<1>7. Asks(a, cpuRec(d, p))
  BY <1>1, AdviseIs
<1>8. Asks(holdReduction(a, h.cpu), cpuRec(d, p)) /\ Asks(holdReduction(m, h.mem), memRec(c, d, p))
  BY <1>4, <1>7, HeldIs
<1> QED BY <1>6, <1>8

LEMMA SetIs ==
  ASSUME NEW r, NEW l, NEW a, NEW t, Asks(a, t)
  PROVE  setRequest(r, l, a) = IF a.action \in Effective THEN Capped(t, l) ELSE r
BY DEF setRequest, Asks, Capped, Effective

LEMMA AppliedIs ==
  ASSUME NEW c \in ContainerSpec, NEW d \in PeakDemand, NEW s, NEW p \in PolicyBounds,
         NEW e, e = Applied(c, d, s, p)
  PROVE  /\ e \in ContainerSpec /\ SameProgram(c, e) /\ e.memLimit = c.memLimit /\ e.cpuLimit = c.cpuLimit
         /\ e.cpu = IF Analyze(c, d, s, p).cpu.action \in Effective THEN Capped(cpuRec(d, p), c.cpuLimit) ELSE c.cpu
         /\ e.mem = IF Analyze(c, d, s, p).mem.action \in Effective THEN Capped(memRec(c, d, p), c.memLimit) ELSE c.mem
<1>1. PICK a : a = Analyze(c, d, s, p)
  OBVIOUS
<1>2. PICK x : x = setRequest(c.cpu, c.cpuLimit, a.cpu)
  OBVIOUS
<1>3. PICK y : y = setRequest(c.mem, c.memLimit, a.mem)
  OBVIOUS
<1>4. e = [c EXCEPT !.cpu = x, !.mem = y]
  BY <1>1, <1>2, <1>3, Zenon DEF Applied
<1>5. PICK t \in Nat, u \in Nat : t = cpuRec(d, p) /\ u = memRec(c, d, p)
  BY CpuRecIs, MemRecIs
<1>6. x = IF a.cpu.action \in Effective THEN Capped(t, c.cpuLimit) ELSE c.cpu
  BY <1>1, <1>2, <1>5, AnalyzeAsks, SetIs
<1>7. y = IF a.mem.action \in Effective THEN Capped(u, c.memLimit) ELSE c.mem
  BY <1>1, <1>3, <1>5, AnalyzeAsks, SetIs
<1>8. x \in Nat /\ (c.cpuLimit > 0 => x <= c.cpuLimit)
  <2>1. PICK k \in Nat, l \in Nat : k = c.cpu /\ l = c.cpuLimit /\ (l > 0 => k <= l)
    BY ContainerIs
  <2>2. Capped(t, l) \in Nat /\ (l > 0 => Capped(t, l) <= l)
    BY <1>5 DEF Capped
  <2>3. x = Capped(t, l) \/ x = k
    BY <1>6, <2>1
  <2> QED BY <2>1, <2>2, <2>3
<1>9. y \in Nat /\ (c.memLimit > 0 => y <= c.memLimit)
  <2>1. PICK k \in Nat, l \in Nat : k = c.mem /\ l = c.memLimit /\ (l > 0 => k <= l)
    BY ContainerIs
  <2>2. Capped(u, l) \in Nat /\ (l > 0 => Capped(u, l) <= l)
    BY <1>5 DEF Capped
  <2>3. y = Capped(u, l) \/ y = k
    BY <1>7, <2>1
  <2> QED BY <2>1, <2>2, <2>3
<1>10. e \in ContainerSpec
  BY <1>4, <1>8, <1>9 DEF ContainerSpec
<1>11. SameProgram(c, e) /\ e.memLimit = c.memLimit /\ e.cpuLimit = c.cpuLimit /\ e.cpu = x /\ e.mem = y
  BY <1>4 DEF ContainerSpec, SameProgram
<1> QED BY <1>1, <1>5, <1>6, <1>7, <1>10, <1>11

\* Advice looks at the request of its own resource only.
LEMMA SameAdvice ==
  ASSUME NEW c, NEW e, SameProgram(c, e), e.memLimit = c.memLimit, NEW d, NEW s, NEW p
  PROVE  /\ memRec(e, d, p) = memRec(c, d, p)
         /\ e.cpu = c.cpu => Analyze(e, d, s, p).cpu = Analyze(c, d, s, p).cpu
         /\ e.mem = c.mem => Analyze(e, d, s, p).mem = Analyze(c, d, s, p).mem
<1>1. Options(e) = Options(c) /\ (Inspect(e) <=> Inspect(c))
  BY SameOptions
<1>2. memoryFloor(e, d) = memoryFloor(c, d)
  BY <1>1 DEF memoryFloor, runsJava
<1>3. memRec(e, d, p) = memRec(c, d, p)
  BY <1>2 DEF memRec
<1>4. HoldReductions(e, d, s) = HoldReductions(c, d, s)
  BY DEF HoldReductions
<1>5. e.cpu = c.cpu => Analyze(e, d, s, p).cpu = Analyze(c, d, s, p).cpu
  BY <1>4 DEF Analyze
<1>6. e.mem = c.mem => Analyze(e, d, s, p).mem = Analyze(c, d, s, p).mem
  BY <1>2, <1>3, <1>4 DEF Analyze
<1> QED BY <1>3, <1>5, <1>6

\* Applying the advice twice changes nothing the second time.
LEMMA AppliedOnce ==
  ASSUME NEW c \in ContainerSpec, NEW d \in PeakDemand, NEW s, NEW p \in PolicyBounds
  PROVE  Applied(Applied(c, d, s, p), d, s, p) = Applied(c, d, s, p)
<1>1. PICK e : e = Applied(c, d, s, p)
  OBVIOUS
<1>2. PICK f : f = Applied(e, d, s, p)
  OBVIOUS
<1>3. PICK t : t = Capped(cpuRec(d, p), c.cpuLimit)
  OBVIOUS
<1>4. PICK u : u = Capped(memRec(c, d, p), c.memLimit)
  OBVIOUS
<1>5. /\ e \in ContainerSpec /\ SameProgram(c, e) /\ e.memLimit = c.memLimit /\ e.cpuLimit = c.cpuLimit
      /\ e.cpu = IF Analyze(c, d, s, p).cpu.action \in Effective THEN t ELSE c.cpu
      /\ e.mem = IF Analyze(c, d, s, p).mem.action \in Effective THEN u ELSE c.mem
  BY <1>1, <1>3, <1>4, AppliedIs
<1>6. /\ memRec(e, d, p) = memRec(c, d, p)
      /\ e.cpu = c.cpu => Analyze(e, d, s, p).cpu = Analyze(c, d, s, p).cpu
      /\ e.mem = c.mem => Analyze(e, d, s, p).mem = Analyze(c, d, s, p).mem
  BY <1>5, SameAdvice
<1>7. /\ f \in ContainerSpec /\ SameProgram(e, f) /\ f.memLimit = e.memLimit /\ f.cpuLimit = e.cpuLimit
      /\ f.cpu = IF Analyze(e, d, s, p).cpu.action \in Effective THEN t ELSE e.cpu
      /\ f.mem = IF Analyze(e, d, s, p).mem.action \in Effective THEN u ELSE e.mem
  BY <1>2, <1>3, <1>4, <1>5, <1>6, AppliedIs
<1>8. f.cpu = e.cpu
  BY <1>5, <1>6, <1>7
<1>9. f.mem = e.mem
  BY <1>5, <1>6, <1>7
<1>10. f = e
  BY <1>5, <1>7, <1>8, <1>9, SameContainer
<1> QED BY <1>1, <1>2, <1>10

LEMMA AdviseSays ==
  ASSUME NEW r, NEW n, NEW t, NEW b, NEW a, a = advise(r, n, t, b)
  PROVE  /\ a.action = "set" => r = 0
         /\ a.action = "increase" => n > r
         /\ a.action \in {"unknown", "set", "increase", "reduce", "keep"}
BY DEF advise

LEMMA HeldSays ==
  ASSUME NEW m, NEW b, NEW a, a = holdReduction(m, b)
  PROVE  /\ a.action = "reduce" => ~b
         /\ a.action \in {"set", "increase"} => a = m
BY DEF holdReduction

LEMMA CappedBelow ==
  ASSUME NEW u \in Nat, NEW limit \in Nat, NEW r \in Nat, limit > 0 => r <= limit, Capped(u, limit) < r
  PROVE  u < r /\ Capped(u, limit) = u
BY DEF Capped

\* Memory is cut where nothing holds it, or down to the maximum of a policy.
LEMMA MemoryCut ==
  ASSUME NEW c \in ContainerSpec, NEW d \in PeakDemand, NEW s \in PodPressure, NEW p \in PolicyBounds,
         Applied(c, d, s, p).mem < c.mem
  PROVE  \/ s.oomKills = 0 /\ s.evictions = 0 /\ (c.memLimit > 0 => d.mem * 10 < c.memLimit * 9)
         \/ p.memMax > 0 /\ Applied(c, d, s, p).mem <= roundMebibytes(p.memMax)
<1>1. PICK e : e = Applied(c, d, s, p)
  OBVIOUS
<1>2. PICK a : a = Analyze(c, d, s, p).mem
  OBVIOUS
<1>3. PICK u \in Nat : u = memRec(c, d, p)
  BY MemRecIs
<1>4. PICK r \in Nat, limit \in Nat : r = c.mem /\ limit = c.memLimit /\ (limit > 0 => r <= limit)
  BY ContainerIs
<1>5. PICK n \in Nat : n = d.mem
  BY DEF PeakDemand
<1>6. PICK max \in Nat : max = p.memMax
  BY DEF PolicyBounds
<1>7. e.mem = IF a.action \in Effective THEN Capped(u, limit) ELSE r
  BY <1>1, <1>2, <1>3, <1>4, AppliedIs
<1>8. a.action \in Effective /\ e.mem = Capped(u, limit) /\ Capped(u, limit) < r
  BY <1>1, <1>4, <1>7
<1>9. u < r /\ e.mem = u
  BY <1>4, <1>8, CappedBelow
<1>10. PICK h : h = HoldReductions(c, d, s)
  OBVIOUS
<1>11. PICK m : m = advise(r, n, u, d.seen)
  OBVIOUS
<1>12. a = holdReduction(m, h.mem)
  <2>1. PICK f \in Nat : f = IF memoryFloor(c, d) < u THEN memoryFloor(c, d) ELSE u
    BY FloorIs
  <2>2. f <= u
    BY <2>1, FloorIs
  <2>3. ~(f > r)
    BY <1>9, <2>2
  <2>4. a = holdReduction(IF f > r THEN [action |-> IF r = 0 THEN "set" ELSE "increase", to |-> u] ELSE m, h.mem)
    BY <1>2, <1>3, <1>4, <1>5, <1>10, <1>11, <2>1 DEF Analyze
  <2> QED BY <2>3, <2>4
<1>13. CASE a.action = "reduce"
  <2>1. ~h.mem
    BY <1>12, <1>13, HeldSays
  <2>2. ~(s.oomKills > 0 \/ s.evictions > 0 \/ (limit > 0 /\ n * 10 >= limit * 9))
    BY <1>4, <1>5, <1>10, <2>1 DEF HoldReductions
  <2>3. s.oomKills \in Nat /\ s.evictions \in Nat
    BY DEF PodPressure
  <2> QED BY <1>4, <1>5, <2>2, <2>3
<1>14. CASE a.action \in {"set", "increase"}
  <2>1. a = m
    BY <1>12, <1>14, HeldSays
  <2>2. a.action = "increase" /\ n > r
    BY <1>9, <1>11, <1>14, <2>1, AdviseSays
  <2>3. u >= n \/ (max > 0 /\ u = roundMebibytes(max))
    BY <1>3, <1>5, <1>6, MemRecIs
  <2>4. max > 0 /\ u = roundMebibytes(max)
    BY <1>9, <2>2, <2>3
  <2> QED BY <1>1, <1>6, <1>9, <2>4
<1> QED BY <1>8, <1>13, <1>14 DEF Effective

LEMMA CpuCut ==
  ASSUME NEW c \in ContainerSpec, NEW d \in PeakDemand, NEW s \in PodPressure, NEW p \in PolicyBounds,
         Applied(c, d, s, p).cpu < c.cpu
  PROVE  \/ s.throttled < 10
         \/ p.cpuMax > 0 /\ Applied(c, d, s, p).cpu <= roundCPU(p.cpuMax)
<1>1. PICK e : e = Applied(c, d, s, p)
  OBVIOUS
<1>2. PICK a : a = Analyze(c, d, s, p).cpu
  OBVIOUS
<1>3. PICK u \in Nat : u = cpuRec(d, p)
  BY CpuRecIs
<1>4. PICK r \in Nat, limit \in Nat : r = c.cpu /\ limit = c.cpuLimit /\ (limit > 0 => r <= limit)
  BY ContainerIs
<1>5. PICK n \in Nat : n = d.cpu
  BY DEF PeakDemand
<1>6. PICK max \in Nat : max = p.cpuMax
  BY DEF PolicyBounds
<1>7. e.cpu = IF a.action \in Effective THEN Capped(u, limit) ELSE r
  BY <1>1, <1>2, <1>3, <1>4, AppliedIs
<1>8. a.action \in Effective /\ e.cpu = Capped(u, limit) /\ Capped(u, limit) < r
  BY <1>1, <1>4, <1>7
<1>9. u < r /\ e.cpu = u
  BY <1>4, <1>8, CappedBelow
<1>10. PICK m : m = advise(r, n, u, d.seen)
  OBVIOUS
<1>11. a = holdReduction(m, s.throttled >= 10)
  BY <1>2, <1>3, <1>4, <1>5, <1>10 DEF Analyze, HoldReductions
<1>12. CASE a.action = "reduce"
  <2>1. ~(s.throttled >= 10)
    BY <1>11, <1>12, HeldSays
  <2>2. s.throttled \in Nat
    BY DEF PodPressure
  <2> QED BY <2>1, <2>2
<1>13. CASE a.action \in {"set", "increase"}
  <2>1. a = m
    BY <1>11, <1>13, HeldSays
  <2>2. a.action = "increase" /\ n > r
    BY <1>9, <1>10, <1>13, <2>1, AdviseSays
  <2>3. u >= n \/ (max > 0 /\ u = roundCPU(max))
    BY <1>3, <1>5, <1>6, CpuRecIs
  <2>4. max > 0 /\ u = roundCPU(max)
    BY <1>9, <2>2, <2>3
  <2> QED BY <1>1, <1>6, <1>9, <2>4
<1> QED BY <1>8, <1>12, <1>13 DEF Effective

-----------------------------------------------------------------------------
(* The fixes of risks.                                                      *)

LEMMA FixedClears ==
  ASSUME NEW c \in ContainerSpec, NEW d \in PeakDemand, NEW s, NEW code \in Assess(c, d, s),
         code \in {"oom-killed", "memory-near-limit"}, c.memLimit + d.mem > 0
  PROVE  Fixed(c, d, code).memLimit * 9 > d.mem * 10
<1>1. PICK limit \in Nat : limit = c.memLimit
  BY ContainerIs
<1>2. PICK n \in Nat : n = d.mem
  BY DEF PeakDemand
<1>3. CASE code = "oom-killed"
  <2>1. PICK x \in Nat, y \in Nat : x = limit * 3 /\ y = n * 13
    OBVIOUS
  <2>2. PICK g \in Nat : g = CeilDiv(x, 2) /\ x <= 2 * g
    BY CeilIs
  <2>3. PICK q \in Nat : q = CeilDiv(y, 10) /\ y <= 10 * q
    BY CeilIs
  <2>4. PICK w \in Nat : w = Larger(g, q) /\ g <= w /\ q <= w
    BY DEF Larger
  <2>5. PICK grown \in Nat : grown = roundMebibytes(w) /\ w <= grown
    BY MebibytesAre
  <2>6. Fixed(c, d, code).memLimit = grown
    <3>1. Fixed(c, d, code) = [c EXCEPT !.memLimit = grown, !.mem = Larger(@, grown)]
      BY <1>1, <1>2, <1>3, <2>1, <2>2, <2>3, <2>4, <2>5 DEF Fixed
    <3> QED BY <3>1 DEF ContainerSpec
  <2>7. limit + n > 0
    BY <1>1, <1>2
  <2>8. grown * 9 > n * 10
    BY <2>1, <2>2, <2>3, <2>4, <2>5, <2>7
  <2> QED BY <1>2, <2>6, <2>8
<1>4. CASE code = "memory-near-limit"
  <2>1. limit > 0 /\ n * 10 >= limit * 9
    BY <1>1, <1>2, <1>4 DEF Assess, RiskFindings
  <2>2. PICK y \in Nat : y = n * 5
    OBVIOUS
  <2>3. PICK q \in Nat : q = CeilDiv(y, 4) /\ y <= 4 * q
    BY CeilIs
  <2>4. PICK grown \in Nat : grown = roundMebibytes(q) /\ q <= grown
    BY MebibytesAre
  <2>5. Fixed(c, d, code).memLimit = grown
    <3>1. Fixed(c, d, code) = [c EXCEPT !.memLimit = grown]
      BY <1>2, <1>4, <2>2, <2>3, <2>4 DEF Fixed
    <3> QED BY <3>1 DEF ContainerSpec
  <2>6. grown * 9 > n * 10
    BY <2>1, <2>2, <2>3, <2>4
  <2> QED BY <1>2, <2>5, <2>6
<1> QED BY <1>3, <1>4

\* What the API server takes.
Allowed(e) == e.memLimit > 0 => e.mem <= e.memLimit

LEMMA FixesAre ==
  ASSUME NEW limit \in Nat, NEW n \in Nat
  PROVE  /\ roundMebibytes(Larger(CeilDiv(limit * 3, 2), CeilDiv(n * 13, 10))) \in Nat
         /\ roundMebibytes(CeilDiv(n * 12, 10)) \in Nat /\ roundMebibytes(CeilDiv(n * 5, 4)) \in Nat
<1>1. PICK g \in Nat : g = CeilDiv(limit * 3, 2)
  BY CeilIs
<1>2. PICK q \in Nat : q = CeilDiv(n * 13, 10)
  BY CeilIs
<1>3. PICK w \in Nat : w = Larger(g, q)
  BY DEF Larger
<1>4. PICK x \in Nat : x = CeilDiv(n * 12, 10)
  BY CeilIs
<1>5. PICK y \in Nat : y = CeilDiv(n * 5, 4)
  BY CeilIs
<1>6. roundMebibytes(w) \in Nat /\ roundMebibytes(x) \in Nat /\ roundMebibytes(y) \in Nat
  BY MebibytesAre
<1> QED BY <1>1, <1>2, <1>3, <1>4, <1>5, <1>6

LEMMA FixedIs ==
  ASSUME NEW c \in ContainerSpec, NEW d \in PeakDemand, NEW code, NEW e, e = Fixed(c, d, code), Allowed(e)
  PROVE  e \in ContainerSpec
<1>1. PICK n \in Nat : n = d.mem
  BY DEF PeakDemand
<1>2. PICK limit \in Nat, r \in Nat, k \in Nat, l \in Nat :
        limit = c.memLimit /\ r = c.mem /\ k = c.cpu /\ l = c.cpuLimit /\ (l > 0 => k <= l)
  BY ContainerIs
<1>3. PICK grown \in Nat : grown = roundMebibytes(Larger(CeilDiv(limit * 3, 2), CeilDiv(n * 13, 10)))
  BY FixesAre
<1>4. PICK request \in Nat : request = roundMebibytes(CeilDiv(n * 12, 10))
  BY FixesAre
<1>5. PICK near \in Nat : near = roundMebibytes(CeilDiv(n * 5, 4))
  BY FixesAre
<1>6. CASE code = "cpu-throttled"
  <2>1. PICK m \in Nat : m = 2 * l /\ (m > 0 => k <= m)
    BY <1>2
  <2>2. e = [c EXCEPT !.cpuLimit = m]
    BY <1>2, <1>6, <2>1 DEF Fixed
  <2> QED BY <1>2, <2>1, <2>2 DEF ContainerSpec
<1>7. CASE code = "oom-killed"
  <2>1. e = [c EXCEPT !.memLimit = grown, !.mem = Larger(r, grown)]
    BY <1>1, <1>2, <1>3, <1>7 DEF Fixed
  <2>2. PICK x \in Nat : x = Larger(r, grown)
    BY DEF Larger
  <2>3. PICK b : b = [c EXCEPT !.memLimit = grown]
    OBVIOUS
  <2>4. e = [b EXCEPT !.mem = x]
    BY <2>1, <2>2, <2>3
  <2>5. e.mem = x /\ e.memLimit = grown
    BY <2>3, <2>4 DEF ContainerSpec
  <2>6. grown > 0 => x <= grown
    BY <2>5 DEF Allowed
  <2> QED BY <1>2, <2>3, <2>4, <2>6 DEF ContainerSpec
<1>8. CASE code = "memory-near-limit"
  <2>1. e = [c EXCEPT !.memLimit = near]
    BY <1>1, <1>5, <1>8 DEF Fixed
  <2> QED BY <1>2, <2>1 DEF ContainerSpec, Allowed
<1>9. CASE code = "evicted"
  <2>1. e = [c EXCEPT !.mem = Larger(r, request)]
    BY <1>1, <1>2, <1>4, <1>9 DEF Fixed
  <2>2. Larger(r, request) \in Nat
    BY DEF Larger
  <2> QED BY <1>2, <2>1, <2>2 DEF ContainerSpec, Allowed
<1>10. CASE code \notin {"cpu-throttled", "oom-killed", "memory-near-limit", "evicted"}
  <2>1. e = c
    BY <1>10 DEF Fixed
  <2> QED BY <2>1
<1> QED BY <1>6, <1>7, <1>8, <1>9, <1>10

-----------------------------------------------------------------------------
(* The plan for a heap.                                                     *)

LEMMA NativeGrows ==
  ASSUME NEW h \in Nat, NEW k \in Nat, NEW n \in Nat
  PROVE  6400 <= NativeMemory(h, n) /\ (h <= k => NativeMemory(h, n) <= NativeMemory(k, n))
<1>1. PICK q \in Nat : q = CeilDiv(n * 120, 100)
  BY EnoughIs
<1>2. PICK x \in Nat : x = CeilDiv(h, 4) /\ 4 * x < h + 4
  BY CeilIs
<1>3. PICK y \in Nat : y = CeilDiv(k, 4) /\ k <= 4 * y
  <2>1. CeilDiv(k, 4) \in Nat /\ k <= 4 * CeilDiv(k, 4)
    BY CeilIs
  <2> QED BY <2>1
<1>4. h <= k => x <= y
  BY <1>2, <1>3
<1> QED BY <1>1, <1>2, <1>3, <1>4 DEF NativeMemory, Larger, Mi

\* The plan with heap H and memory M.
PlanOf(o, H, M) ==
    [heap |-> H, memory |-> M,
     option |-> IF o["heap"] > 0 THEN [flag |-> "heap", value |-> H]
                ELSE [flag |-> "maxShare", value |-> (H * 100) \div M]]

LEMMA PlanIs ==
  ASSUME NEW d \in PeakDemand
  PROVE  \E H, M \in Nat : /\ 12800 <= H /\ 2 * d.afterGC <= H /\ H + NativeMemory(H, d.nonHeap) <= M
                           /\ \A o : PlanFor(o, d) = PlanOf(o, H, M)
<1>1. PICK g \in Nat, n \in Nat : g = d.afterGC /\ n = d.nonHeap
  BY DEF PeakDemand
<1>2. PICK x \in Nat : x = Larger(g * 2, 128 * Mi) /\ 12800 <= x /\ 2 * g <= x
  BY DEF Larger, Mi
<1>3. PICK y \in Nat : y = roundMebibytes(x) /\ x <= y
  BY MebibytesAre
<1>4. PICK w \in Nat : w = NativeMemory(y, n)
  BY NativeIs
<1>5. PICK z \in Nat : z = roundMebibytes(y + w) /\ y + w <= z
  BY MebibytesAre
<1>6. ASSUME NEW o PROVE PlanFor(o, d) = PlanOf(o, y, z)
  <2>1. y = roundMebibytes(Larger(d.afterGC * 2, 128 * Mi))
    BY <1>1, <1>2, <1>3
  <2>2. z = roundMebibytes(y + NativeMemory(y, d.nonHeap))
    BY <1>1, <1>4, <1>5
  <2> QED BY <2>1, <2>2 DEF PlanFor, PlanOf
<1> QED BY <1>1, <1>2, <1>3, <1>4, <1>5, <1>6

\* The heap under a limit so small that the JVM takes the larger share.
LEMMA SmallHeap ==
  ASSUME NEW M \in Nat, NEW H \in Nat, NEW w \in Nat, NEW y \in 50..100, NEW g \in Nat, NEW a, NEW h,
         a = M * y, h = a \div 100, a < 1248000,
         H + w <= M, 12800 <= H, 6400 <= w, 2 * g <= H
  PROVE  h \in Nat /\ 0 < h /\ h < 12480 /\ g * 10 <= h * 8
<1>1. a \in Nat /\ a >= M * 50
  OBVIOUS
<1>2. PICK r \in 0..99 : r = a % 100
  BY <1>1
<1>3. h \in Int /\ a = 100 * h + r
  BY <1>1, <1>2
<1> QED BY <1>1, <1>2, <1>3

\* The share of a memory of M that a heap of H takes, with g of live data.
ShareOf(M, H, g, k) == 0 < M /\ k = (H * 100) \div M /\ k > 1 /\ 12800 <= H /\ 2 * g <= H
Holds(h, H, g) == h \in Nat /\ 0 < h /\ h <= H /\ g * 10 <= h * 8

LEMMA SharedHeap ==
  ASSUME NEW M \in Nat, NEW H \in Nat, NEW k \in Nat, NEW g \in Nat, ShareOf(M, H, g, k)
  PROVE  Holds(Larger((M * k) \div 100, BuiltInMaxHeapSize), H, g)
<1>0. PICK h : h = Larger((M * k) \div 100, BuiltInMaxHeapSize)
  OBVIOUS
<1> USE DEF ShareOf, Holds
<1>1. PICK v \in Nat : v = H * 100
  OBVIOUS
<1>2. PICK b \in Nat : b = M * k
  OBVIOUS
<1>3. b >= 2 * M
  BY <1>2
<1>4. PICK r \in Nat : r = v % M /\ r < M
  BY <1>1
<1>5. v = b + r
  BY <1>1, <1>2, <1>4
<1>6. PICK q \in Int : q = b \div 100
  OBVIOUS
<1>7. PICK u \in 0..99 : u = b % 100
  OBVIOUS
<1>8. b = 100 * q + u
  BY <1>6, <1>7
<1>9. h = Larger(q, 12480)
  BY <1>0, <1>2, <1>6 DEF BuiltInMaxHeapSize
<1>10. q <= H
  BY <1>1, <1>4, <1>5, <1>7, <1>8
<1>11. g * 10 <= q * 8
  BY <1>1, <1>3, <1>4, <1>5, <1>7, <1>8
<1> QED BY <1>0, <1>9, <1>10, <1>11 DEF Larger

\* Heaps that a container of M, planned for a heap of H, has no finding about.
Fits(h, H, M, d) ==
    /\ h \in Nat /\ 0 < h /\ h < M /\ h + NativeMemory(h, d.nonHeap) <= M
    /\ d.afterGC * 10 <= h * 8 /\ h * 8 < H * 10

\* A heap no larger than planned, and large enough, fits.
LEMMA FitsIs ==
  ASSUME NEW d \in PeakDemand, NEW H \in Nat, NEW M \in Nat, NEW h \in Nat
  PROVE  0 < h /\ h <= H /\ d.afterGC * 10 <= h * 8 /\ H + NativeMemory(H, d.nonHeap) <= M => Fits(h, H, M, d)
<1>1. PICK g \in Nat, n \in Nat : g = d.afterGC /\ n = d.nonHeap
  BY DEF PeakDemand
<1>2. PICK w \in Nat : w = NativeMemory(h, n)
  BY NativeIs
<1>3. PICK u \in Nat : u = NativeMemory(H, n)
  BY NativeIs
<1>4. 6400 <= w /\ (h <= H => w <= u)
  BY <1>2, <1>3, NativeGrows
<1> QED BY <1>1, <1>2, <1>3, <1>4 DEF Fits

\* The options that a plan leaves: its own, and the others as they were.
Replanned(o, b, H, M) ==
    LET t == PlanOf(o, H, M).option
    IN  b \in [Flags -> Nat] /\ \A f \in Flags : b[f] = IF f = t.flag THEN t.value ELSE o[f]

\* Options whose heap the limit decides.
ByLimit(o) == o["ram"] = 0 /\ o["support"] # 1 /\ o["minShare"] \in {0} \cup 50..100

\* The plan gives the heap the memory it needs.
HeapPlan(d, H, M) == 12800 <= H /\ 2 * d.afterGC <= H /\ H + NativeMemory(H, d.nonHeap) <= M
Shares(o, H, M) == PlanOf(o, H, M).option.value > 1

LEMMA ReplannedFits ==
  ASSUME NEW o \in [Flags -> Nat], NEW b, NEW d \in PeakDemand, NEW H \in Nat, NEW M \in Nat,
         Replanned(o, b, H, M), ByLimit(o), HeapPlan(d, H, M), Shares(o, H, M)
  PROVE  Fits(HeapFor(b, M), H, M, d) /\ (b["heap"] > 0 \/ (b["maxShare"] > 0 /\ b["support"] # 1))
<1>1. PICK g \in Nat, n \in Nat : g = d.afterGC /\ n = d.nonHeap
  BY DEF PeakDemand
<1>2. PICK w \in Nat : w = NativeMemory(H, n)
  BY NativeIs
<1>3. 12800 <= H /\ 2 * g <= H /\ H + w <= M /\ 6400 <= w
  BY <1>1, <1>2, NativeGrows DEF HeapPlan
<1>4. PICK z \in Nat : z = o["heap"]
  BY DEF Flags
<1>5. CASE z > 0
  <2>1. b["heap"] = H
    BY <1>4, <1>5 DEF Replanned, PlanOf, Flags
  <2>2. H > 0
    BY <1>3
  <2>3. HeapFor(b, M) = H
    BY <2>1, <2>2 DEF HeapFor
  <2>4. Fits(H, H, M, d)
    BY <1>1, <1>2, <1>3, FitsIs
  <2> QED BY <2>1, <2>2, <2>3, <2>4
<1>6. CASE z = 0
  <2>1. PICK k \in Nat : k = (H * 100) \div M /\ k > 1
    <3>1. PlanOf(o, H, M).option.value = (H * 100) \div M
      BY <1>4, <1>6 DEF PlanOf
    <3>2. (H * 100) \div M \in Int
      BY <1>3
    <3> QED BY <3>1, <3>2 DEF Shares
  <2>2. \A f \in Flags : b[f] = IF f = "maxShare" THEN k ELSE o[f]
    <3>1. PlanOf(o, H, M).option = [flag |-> "maxShare", value |-> k]
      BY <1>4, <1>6, <2>1 DEF PlanOf
    <3> QED BY <3>1 DEF Replanned
  <2>3. /\ b["heap"] = 0 /\ b["maxShare"] = k /\ b["ram"] = 0 /\ b["support"] # 1
        /\ b["minShare"] \in {0} \cup 50..100
    BY <1>4, <1>6, <2>2 DEF ByLimit, Flags
  <2>4. PICK y \in 50..100 : y = IF b["minShare"] > 0 THEN b["minShare"] ELSE 50
    BY <2>3
  <2>5. PICK a \in Nat : a = M * y
    OBVIOUS
  <2>6. HeapFor(b, M) = IF a < 1248000 THEN a \div 100 ELSE Larger((M * k) \div 100, BuiltInMaxHeapSize)
    <3>1. PICK m \in Nat : m = IF b["ram"] > 0 THEN b["ram"] ELSE IF b["support"] = 1 THEN 0 ELSE M
      BY <2>3
    <3>2. PICK x \in Nat : x = IF b["maxShare"] > 0 THEN b["maxShare"] ELSE 25
      BY <2>3
    <3>3. PICK e \in Nat : e = m * y
      OBVIOUS
    <3>4. PICK f \in Nat : f = m * x
      OBVIOUS
    <3>5. HeapFor(b, M) = IF b["heap"] > 0 THEN b["heap"] ELSE IF m = 0 THEN 0
                          ELSE IF e < BuiltInMaxHeapSize * 100 THEN e \div 100
                          ELSE Larger(f \div 100, BuiltInMaxHeapSize)
      BY <2>4, <3>1, <3>2, <3>3, <3>4, Zenon DEF HeapFor
    <3>6. m = M /\ x = k /\ m # 0
      BY <1>3, <2>1, <2>3, <3>1, <3>2
    <3>7. e = a /\ f = M * k
      BY <2>5, <3>3, <3>4, <3>6
    <3>8. BuiltInMaxHeapSize * 100 = 1248000
      BY DEF BuiltInMaxHeapSize
    <3>9. ~(b["heap"] > 0)
      BY <2>3
    <3> QED BY <3>5, <3>6, <3>7, <3>8, <3>9
  <2>7. CASE a < 1248000
    <3>1. PICK h : h = a \div 100
      OBVIOUS
    <3>2. h \in Nat /\ 0 < h /\ h < 12480 /\ g * 10 <= h * 8
      BY <1>3, <2>5, <2>7, <3>1, SmallHeap
    <3>3. h <= H
      BY <1>3, <3>2
    <3>4. Fits(h, H, M, d)
      BY <1>1, <1>2, <1>3, <3>2, <3>3, FitsIs
    <3> QED BY <2>1, <2>3, <2>6, <2>7, <3>1, <3>4
  <2>8. CASE ~(a < 1248000)
    <3>1. PICK h : h = Larger((M * k) \div 100, BuiltInMaxHeapSize)
      OBVIOUS
    <3>2. 0 < M
      BY <1>3
    <3>3. h \in Nat /\ 0 < h /\ h <= H /\ g * 10 <= h * 8
      <4>1. ShareOf(M, H, g, k)
        BY <1>3, <2>1, <3>2 DEF ShareOf
      <4>2. Holds(h, H, g)
        BY <3>1, <4>1, SharedHeap
      <4> QED BY <4>2 DEF Holds
    <3>4. Fits(h, H, M, d)
      BY <1>1, <1>2, <1>3, <3>3, FitsIs
    <3> QED BY <2>1, <2>3, <2>6, <2>8, <3>1, <3>4
  <2> QED BY <2>7, <2>8
<1> QED BY <1>4, <1>5, <1>6

\* A container with that heap has nothing wrong with it.
LEMMA NothingWrong ==
  ASSUME NEW b, NEW c, NEW d \in PeakDemand, NEW H \in Nat, NEW M \in Nat, NEW h, h = HeapFor(b, M),
         c.mem = M, c.memLimit = M, PlanFor(b, d).heap = H, Fits(h, H, M, d),
         b["heap"] > 0 \/ (b["maxShare"] > 0 /\ b["support"] # 1), b["heap"] \in Nat, b["maxShare"] \in Nat
  PROVE  Audit(b, c, d) \cap (RiskFindings \cup {"heap-oversized", "default-heap"}) = {}
<1>1. PICK g \in Nat, n \in Nat : g = d.afterGC /\ n = d.nonHeap
  BY DEF PeakDemand
<1>2. PICK w \in Nat : w = NativeMemory(h, n)
  BY NativeIs DEF Fits
<1>3. h \in Nat /\ 0 < h /\ h < M /\ h + w <= M /\ g * 10 <= h * 8 /\ h * 8 < H * 10
  BY <1>1, <1>2 DEF Fits
<1>4. PICK F : F = Audit(b, c, d)
  OBVIOUS
<1>5. PICK problem : problem = IF b["support"] = 1 /\ b["heap"] = 0 /\ b["ram"] = 0 THEN "container-support-off"
                               ELSE IF ~(h > 0) THEN "no-memory-limit"
                               ELSE IF M > 0 /\ h >= M THEN "heap-over-limit"
                               ELSE IF M > 0 /\ M - h < w THEN "no-room-for-native"
                               ELSE "none"
  OBVIOUS
<1>6. problem = "none"
  BY <1>3, <1>5
<1>7. F = {code \in {"container-support-off", "no-memory-limit", "heap-over-limit", "no-room-for-native"} :
              code = problem}
          \cup {code \in {"default-heap"} :
                  /\ h > 0 /\ b["heap"] = 0 /\ b["maxShare"] = 0 /\ b["ram"] = 0
                  /\ M > BuiltInMaxHeapSize * 4}
          \cup {code \in {"request-below-heap"} : h > 0 /\ M > 0 /\ M < h + w}
          \cup {code \in {"heap-tight"} : h > 0 /\ g > 0 /\ g * 10 > h * 8}
          \cup {code \in {"heap-oversized"} :
                  h > 0 /\ g > 0 /\ ~(h > 0 /\ g > 0 /\ g * 10 > h * 8) /\ H * 10 <= h * 8}
          \cup {code \in {"heap-differs"} : h > 0 /\ d.used * 100 > h * 105}
          \cup {code \in {"serial-gc"} : b["gc"] = 0 /\ serialCollector(b, c)}
  BY <1>1, <1>2, <1>4, <1>5 DEF Audit
<1>8. ~(M < h + w) /\ ~(g * 10 > h * 8) /\ ~(H * 10 <= h * 8)
  BY <1>3
<1>9. ~(b["heap"] = 0 /\ b["maxShare"] = 0)
  OBVIOUS
<1>10. F \subseteq {"heap-differs", "serial-gc"}
  BY <1>6, <1>7, <1>8, <1>9
<1> QED BY <1>4, <1>10 DEF RiskFindings

LEMMA WithMemory ==
  ASSUME NEW c \in ContainerSpec, NEW M \in Nat, NEW v \in [OptionVariables -> Seq(Token)],
         NEW e, e = [c EXCEPT !.mem = M, !.memLimit = M, !.env = v, !.annotation = "java"]
  PROVE  e \in ContainerSpec
<1>1. PICK V : V = [OptionVariables -> Seq(Token)]
  OBVIOUS
<1>2. PICK S : S = Seq(Token)
  OBVIOUS
<1>3. PICK R : R = [cpu : Nat, cpuLimit : Nat, mem : Nat, memLimit : Nat, annotation : {"", "java", "none"},
                    command : {"java", "sh"}, javaImage : BOOLEAN, args : S, env : V]
  OBVIOUS
<1>4. c \in R
  BY <1>1, <1>2, <1>3 DEF ContainerSpec
<1>5. e \in R
  <2>1. v \in V
    BY <1>1
  <2> QED BY <1>3, <1>4, <2>1
<1>6. e.cpu = c.cpu /\ e.cpuLimit = c.cpuLimit /\ e.mem = M /\ e.memLimit = M
  BY <1>3, <1>4
<1>7. c.cpuLimit > 0 => c.cpu <= c.cpuLimit
  BY DEF ContainerSpec
<1>8. (e.cpuLimit > 0 => e.cpu <= e.cpuLimit) /\ (e.memLimit > 0 => e.mem <= e.memLimit)
  BY <1>6, <1>7
<1> QED BY <1>1, <1>2, <1>3, <1>5, <1>8 DEF ContainerSpec

\* A container that has followed its plan.
LEMMA PlannedIs ==
  ASSUME NEW c \in ContainerSpec, NEW d \in PeakDemand, NEW H \in Nat, NEW M \in Nat,
         PlanFor(Options(c), d) = PlanOf(Options(c), H, M), 0 < M, NEW e, e = Planned(c, d)
  PROVE  /\ e \in ContainerSpec /\ e.mem = M /\ e.memLimit = M
         /\ Options(e) = Parse(Append(OptionTokens(c), PlanOf(Options(c), H, M).option))
         /\ PlanOf(Options(c), H, M).option \in Token
<1>1. PICK o \in [Flags -> Nat] : o = Options(c)
  BY OptionsAre
<1>2. PICK t : t = PlanOf(o, H, M).option
  OBVIOUS
<1>3. t \in Token
  <2>1. PICK k \in Nat : k = (H * 100) \div M
    OBVIOUS
  <2>2. t = [flag |-> "heap", value |-> H] \/ t = [flag |-> "maxShare", value |-> k]
    BY <1>2, <2>1 DEF PlanOf
  <2> QED BY <2>2 DEF Token, Flags
<1>4. PICK ts \in Seq(Token) : ts = c.env["_JAVA_OPTIONS"]
  BY ContainerIs DEF OptionVariables
<1>5. PICK v : v = [c.env EXCEPT !["_JAVA_OPTIONS"] = Append(ts, t)]
  OBVIOUS
<1>6. v \in [OptionVariables -> Seq(Token)]
  <2>1. Append(ts, t) \in Seq(Token)
    BY <1>3
  <2>2. c.env \in [OptionVariables -> Seq(Token)]
    BY ContainerIs
  <2> QED BY <1>5, <2>1, <2>2
<1>7. e = [c EXCEPT !.mem = M, !.memLimit = M, !.env = v, !.annotation = "java"]
  <2>1. PlanFor(o, d).memory = M /\ PlanFor(o, d).option = t
    BY <1>1, <1>2 DEF PlanOf
  <2> QED BY <1>1, <1>4, <1>5, <2>1 DEF Planned, ContainerSpec
<1>8. e \in ContainerSpec
  BY <1>6, <1>7, WithMemory
<1>9. /\ e.mem = M /\ e.memLimit = M /\ e.annotation = "java" /\ e.env = v
      /\ e.command = c.command /\ e.args = c.args
  BY <1>7 DEF ContainerSpec
<1>10. Inspect(e)
  BY <1>9 DEF Inspect
<1>11. PICK u : u = c.env
  OBVIOUS
<1>12. /\ u["JAVA_TOOL_OPTIONS"] \in Seq(Token) /\ u["JDK_JAVA_OPTIONS"] \in Seq(Token)
       /\ u["JAVA_OPTS"] \in Seq(Token) /\ u["_JAVA_OPTIONS"] = ts /\ c.args \in Seq(Token)
  BY <1>4, <1>11, ContainerIs DEF OptionVariables
<1>13. /\ v["JAVA_TOOL_OPTIONS"] = u["JAVA_TOOL_OPTIONS"] /\ v["JDK_JAVA_OPTIONS"] = u["JDK_JAVA_OPTIONS"]
       /\ v["JAVA_OPTS"] = u["JAVA_OPTS"] /\ v["_JAVA_OPTIONS"] = Append(ts, t)
  BY <1>5, <1>11, ContainerIs DEF OptionVariables
<1>14. PICK s \in Seq(Token) : s = u["JAVA_TOOL_OPTIONS"] \o u["JDK_JAVA_OPTIONS"]
                                   \o (IF c.command = "java" THEN <<>> ELSE u["JAVA_OPTS"]) \o c.args
  <2>1. PICK a \in Seq(Token), b \in Seq(Token) : a = u["JAVA_TOOL_OPTIONS"] /\ b = u["JDK_JAVA_OPTIONS"]
    BY <1>12
  <2>2. PICK x \in Seq(Token) : x = IF c.command = "java" THEN <<>> ELSE u["JAVA_OPTS"]
    <3>1. PICK z \in Seq(Token) : z = u["JAVA_OPTS"]
      BY <1>12
    <3>2. <<>> \in Seq(Token)
      OBVIOUS
    <3> QED BY <3>1, <3>2, Zenon
  <2>3. PICK y \in Seq(Token) : y = c.args
    BY <1>12
  <2>4. a \o b \o x \o y \in Seq(Token)
    OBVIOUS
  <2> QED BY <2>1, <2>2, <2>3, <2>4
<1>15. OptionTokens(c) = s \o ts /\ OptionTokens(e) = s \o Append(ts, t)
  BY <1>9, <1>11, <1>12, <1>13, <1>14, Zenon DEF OptionTokens
<1>16. s \o Append(ts, t) = Append(s \o ts, t)
  <2>1. PICK x : x = s \o Append(ts, t)
    OBVIOUS
  <2>2. PICK y : y = Append(s \o ts, t)
    OBVIOUS
  <2>3. x \in Seq(Token) /\ y \in Seq(Token) /\ Len(x) = Len(s) + Len(ts) + 1 /\ Len(y) = Len(x)
    BY <1>3, <2>1, <2>2
  <2>4. ASSUME NEW i \in 1..Len(x) PROVE x[i] = y[i]
    BY <1>3, <2>1, <2>2, <2>3, <2>4
  <2> QED BY <2>1, <2>2, <2>3, <2>4
<1>17. Options(e) = Parse(Append(OptionTokens(c), t))
  BY <1>10, <1>15, <1>16 DEF Options
<1> QED BY <1>1, <1>2, <1>3, <1>8, <1>9, <1>17

\* The options of a container that has followed its plan.
LEMMA PlannedOptions ==
  ASSUME NEW c \in ContainerSpec, NEW d \in PeakDemand, NEW H \in Nat, NEW M \in Nat,
         PlanFor(Options(c), d) = PlanOf(Options(c), H, M), 0 < M, Options(c) = Parse(OptionTokens(c)),
         Shares(Options(c), H, M)
  PROVE  Replanned(Options(c), Options(Planned(c, d)), H, M)
<1>1. PICK o \in [Flags -> Nat] : o = Options(c)
  BY OptionsAre
<1>2. PICK t \in Token : t = PlanOf(o, H, M).option
  BY <1>1, PlannedIs
<1>3. PICK ts \in Seq(Token) : ts = OptionTokens(c)
  BY TokensAre
<1>4. PICK b : b = Options(Planned(c, d))
  OBVIOUS
<1>5. b = Parse(Append(ts, t))
  BY <1>1, <1>2, <1>3, <1>4, PlannedIs
<1>6. b \in [Flags -> Nat]
  <2>1. Append(ts, t) \in Seq(Token)
    OBVIOUS
  <2>2. Parse(Append(ts, t)) \in [Flags -> Nat]
    BY <2>1, ParseIs
  <2> QED BY <1>5, <2>2
<1>7. t.value > 0
  <2>1. t.value \in Nat /\ t.value > 1
    BY <1>1, <1>2 DEF Token, Shares
  <2> QED BY <2>1
<1>8. \A f \in Flags : b[f] = IF f = t.flag THEN t.value ELSE o[f]
  BY <1>1, <1>3, <1>5, <1>7, ParseMore
<1> QED BY <1>1, <1>2, <1>4, <1>6, <1>8 DEF Replanned

\* A container that has followed its plan has no finding about its heap left.
LEMMA PlanSettles ==
  ASSUME NEW c \in ContainerSpec, NEW d \in PeakDemand, Options(c) = Parse(OptionTokens(c)),
         ByLimit(Options(c)), PlanFor(Options(c), d).option.value > 1
  PROVE  Audit(Options(Planned(c, d)), Planned(c, d), d)
             \cap (RiskFindings \cup {"heap-oversized", "default-heap"}) = {}
<1>1. PICK H \in Nat, M \in Nat :
        /\ 12800 <= H /\ 2 * d.afterGC <= H /\ H + NativeMemory(H, d.nonHeap) <= M
        /\ \A x : PlanFor(x, d) = PlanOf(x, H, M)
  BY PlanIs
<1>2. 0 < M
  <2>1. PICK n \in Nat : n = d.nonHeap
    BY DEF PeakDemand
  <2>2. PICK w \in Nat : w = NativeMemory(H, n)
    BY NativeIs
  <2> QED BY <1>1, <2>1, <2>2
<1>3. PlanFor(Options(c), d) = PlanOf(Options(c), H, M)
  BY <1>1
<1>4. HeapPlan(d, H, M) /\ Shares(Options(c), H, M)
  BY <1>1, <1>3 DEF HeapPlan, Shares
<1>5. Planned(c, d) \in ContainerSpec /\ Planned(c, d).mem = M /\ Planned(c, d).memLimit = M
  BY <1>2, <1>3, PlannedIs
<1>6. PICK o \in [Flags -> Nat] : o = Options(c)
  BY OptionsAre
<1>7. PICK b : b = Options(Planned(c, d))
  OBVIOUS
<1>8. Replanned(o, b, H, M)
  BY <1>2, <1>3, <1>4, <1>6, <1>7, PlannedOptions
<1>9. PICK h : h = HeapFor(b, M)
  OBVIOUS
<1>10. Fits(h, H, M, d) /\ (b["heap"] > 0 \/ (b["maxShare"] > 0 /\ b["support"] # 1))
  BY <1>4, <1>6, <1>8, <1>9, ReplannedFits
<1>11. PlanFor(b, d).heap = H
  BY <1>1 DEF PlanOf
<1>12. b["heap"] \in Nat /\ b["maxShare"] \in Nat
  BY <1>8 DEF Replanned, Flags
<1> QED BY <1>5, <1>7, <1>9, <1>10, <1>11, <1>12, NothingWrong

-----------------------------------------------------------------------------
\* What can be sized, and measured, is what there is in a cluster.
SizingInv == box \in ContainerSpec /\ demand \in PeakDemand /\ pressure \in PodPressure /\ policy \in PolicyBounds

LEMMA SizingStep == SizingInv /\ [Next]_vars => SizingInv'
<1> SUFFICES ASSUME SizingInv, [Next]_vars PROVE SizingInv'
  OBVIOUS
<1>1. ASSUME UNCHANGED sizingVars PROVE SizingInv'
  BY <1>1 DEF SizingInv, sizingVars
<1>2. ASSUME Measure PROVE SizingInv'
  BY <1>2, SizingAssumption DEF SizingInv, Measure
<1>3. ASSUME Strain PROVE SizingInv'
  BY <1>3, SizingAssumption DEF SizingInv, Strain
<1>4. ASSUME WritePolicy PROVE SizingInv'
  BY <1>4, SizingAssumption DEF SizingInv, WritePolicy
<1>5. ASSUME ApplyAdvice PROVE SizingInv'
  BY <1>5, AppliedIs DEF SizingInv, ApplyAdvice
<1>6. ASSUME FollowPlan PROVE SizingInv'
  <2>1. PICK H \in Nat, M \in Nat :
          /\ 12800 <= H /\ H + NativeMemory(H, demand.nonHeap) <= M
          /\ \A o : PlanFor(o, demand) = PlanOf(o, H, M)
    BY PlanIs DEF SizingInv
  <2>2. 0 < M
    <3>1. PICK n \in Nat : n = demand.nonHeap
      BY DEF SizingInv, PeakDemand
    <3>2. PICK w \in Nat : w = NativeMemory(H, n)
      BY NativeIs
    <3> QED BY <2>1, <3>1, <3>2
  <2>3. box' \in ContainerSpec
    BY <1>6, <2>1, <2>2, PlannedIs DEF SizingInv, FollowPlan
  <2> QED BY <1>6, <2>3 DEF SizingInv, FollowPlan
<1>7. ASSUME FollowFix PROVE SizingInv'
  <2>1. PICK code : box' = Fixed(box, demand, code) /\ Allowed(box')
    BY <1>7 DEF FollowFix, Allowed
  <2>2. box' \in ContainerSpec
    BY <2>1, FixedIs DEF SizingInv
  <2> QED BY <1>7, <2>2 DEF SizingInv, FollowFix
<1>8. SizingNext => SizingInv'
  BY <1>2, <1>3, <1>4, <1>5, <1>6, <1>7 DEF SizingNext
<1>9. UNCHANGED sizingVars \/ SizingNext
  BY DEF Next, vars, sizing
<1> QED BY <1>1, <1>8, <1>9

LEMMA Settled ==
  ASSUME SizingInv
  PROVE  Settles
<1> USE DEF SizingInv
<1>1. Applied(Applied(box, demand, pressure, policy), demand, pressure, policy) = Applied(box, demand, pressure, policy)
  BY AppliedOnce
<1>2. /\ Options(box) = Parse(OptionTokens(box)) /\ ByLimit(Options(box))
      /\ PlanFor(Options(box), demand).option.value > 1
      => Audit(Options(Planned(box, demand)), Planned(box, demand), demand)
             \cap (RiskFindings \cup {"heap-oversized", "default-heap"}) = {}
  BY PlanSettles
<1>3. ASSUME NEW code \in Assess(box, demand, pressure) \cap {"oom-killed", "memory-near-limit"},
             box.memLimit + demand.mem > 0
      PROVE  Fixed(box, demand, code).memLimit * 9 > demand.mem * 10
  BY <1>3, FixedClears
<1> QED BY <1>1, <1>2, <1>3 DEF Settles, ByLimit

\* Advice that is followed settles, and takes nothing from a container that is short of it,
\* whatever is measured and whichever policy picks it (Analyze, PlanFor, HoldReductions).
THEOREM AdviceHelps == Spec => AdviceIsSound
<1>1. Init => SizingInv
  BY SizingAssumption DEF Init, SizingInit, SizingInv
<1>2. ASSUME SizingInv PROVE NeverCutUnderPressure
  <2> SUFFICES ASSUME ApplyAdvice
               PROVE  /\ box'.mem < box.mem => \/ pressure.oomKills = 0 /\ pressure.evictions = 0
                                                  /\ (box.memLimit > 0 => demand.mem * 10 < box.memLimit * 9)
                                               \/ policy.memMax > 0 /\ box'.mem <= roundMebibytes(policy.memMax)
                      /\ box'.cpu < box.cpu => \/ pressure.throttled < 10
                                               \/ policy.cpuMax > 0 /\ box'.cpu <= roundCPU(policy.cpuMax)
    BY DEF NeverCutUnderPressure
  <2>1. box' = Applied(box, demand, pressure, policy)
    BY DEF ApplyAdvice
  <2> QED BY <1>2, <2>1, MemoryCut, CpuCut DEF SizingInv
<1>3. SizingInv /\ [Next]_vars => [Settles /\ NeverCutUnderPressure]_sizingVars
  BY <1>2, Settled
<1> QED BY <1>1, <1>3, SizingStep, PTL DEF Spec, AdviceIsSound
=============================================================================
