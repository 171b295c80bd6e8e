------------------------------ MODULE Accounts ------------------------------
(***************************************************************************)
(* internal/auth and the user and token handlers of internal/api: several  *)
(* replicas serve the API.  They agree on a signing key through a Secret,  *)
(* check sessions and API tokens against caches of two more Secrets, and   *)
(* write those with the version they read.  A change made through one      *)
(* replica reaches the others when their caches age.                       *)
(***************************************************************************)
EXTENDS OperatorClock

CONSTANTS Replicas,
          Users,        \* the local users' names
          TokenNames,   \* the API tokens' names
          RoleRank,     \* role -> rank
          Passwords,
          Builtin,      \* the admin account of the installation
          UserOps,      \* what administrators do: create, role, disable, enable, password, delete
          TokenOps,     \* create, delete
          SignOns,      \* single sign-on as it may be configured
          CacheTTL,     \* userCache and tokenCache
          SessionTTL,
          LoginBurst,   \* password attempts an account has; one comes back each tick
          MaxWrites     \* attempts of retry.RetryOnConflict

VARIABLES keySecret,  \* the Secret of the signing key: version and key
          replica,    \* replica -> start-up and signing key
          secret,     \* "users", "tokens" -> version and entries
          cache,      \* replica -> what it holds of each Secret
          load,       \* replica -> a request that is reading a Secret
          write,      \* replica -> a change of a Secret under way
          login,      \* replica -> a sign-in whose password is being compared
          attempts,   \* replica -> user -> failed sign-ins left, and since when
          signOn,     \* the single sign-on of the CostDeckConfig
          held,       \* the cookies and tokens people hold
          past        \* what the Secrets said, and until when

accountVars ==
    <<keySecret, replica, secret, cache, load, write, login, attempts, signOn, held, past>>

Unusable == "unusable"
NoKey == "none"

\* A key is named after the replica that made it: no replica makes an unusable one.
ASSUME AccountAssumption ==
    /\ Builtin \notin Users /\ CacheTTL \in Nat /\ LoginBurst \in Nat
    /\ {Unusable, NoKey} \cap Replicas = {}

Nothing == [store |-> "none"]
Stores == {"users", "tokens"}
EmptyCache == [s \in Stores |-> [at |-> None, took |-> 0, version |-> 0, data |-> <<>>]]

User(role, p, must, at) ==
    [role |-> role, disabled |-> FALSE, mustChange |-> must, password |-> p, changed |-> at]

\* A new installation, without a key, and one that runs: a user and a token are there, and
\* some of those who may have signed in.
AccountInit ==
    /\ \E key \in {NoKey, "first"} :
        LET runs == key # NoKey
            cookie(kind, name, role) ==
                [kind |-> kind, store |-> "users", name |-> name, role |-> role, issued |-> 0,
                 expires |-> SessionTTL, key |-> key]
        IN /\ keySecret = [version |-> 0, key |-> key]
           /\ replica = [r \in Replicas |->
                  [pc |-> IF runs THEN "up" ELSE "down", key |-> key, seen |-> 0, current |-> runs, wrote |-> 0]]
           /\ secret = [s \in Stores |-> [version |-> 0, data |->
                  IF ~runs THEN <<>>
                  ELSE IF s = "users" THEN [u \in Users |-> User("viewer", 1, FALSE, 0)]
                  ELSE [t \in TokenNames |-> [role |-> "viewer", expires |-> None, id |-> -1]]]]
           /\ held \in SUBSET (IF ~runs THEN {}
                  ELSE {cookie("user", u, "viewer") : u \in Users} \cup {cookie("builtin", Builtin, "admin")}
                       \cup {[kind |-> "token", store |-> "tokens", name |-> t, id |-> -1] : t \in TokenNames})
    /\ cache = [r \in Replicas |-> EmptyCache]
    /\ load = [r \in Replicas |-> [s \in Stores |-> Nothing]]
    /\ write = [r \in Replicas |-> Nothing]
    /\ login = [r \in Replicas |-> Nothing]
    /\ attempts = [r \in Replicas |-> [u \in Users |-> [left |-> LoginBurst, at |-> 0]]]
    /\ signOn \in SignOns
    /\ past = {}

\* A partial function with one entry set, and with one removed.
With(f, k, v) == [x \in DOMAIN f \cup {k} |-> IF x = k THEN v ELSE f[x]]
Without(f, k) == [x \in DOMAIN f \ {k} |-> f[x]]

-----------------------------------------------------------------------------
\* loadOrCreateSecret reads the key; without a usable one it makes one of its own.
ReadKey(r) ==
    /\ replica[r].pc = "down" /\ NoFault
    /\ replica' = [replica EXCEPT ![r] =
           CASE keySecret.key = NoKey -> [@ EXCEPT !.pc = "create"]
             [] keySecret.key = Unusable -> [@ EXCEPT !.pc = "repair", !.seen = keySecret.version]
             [] OTHER -> [@ EXCEPT !.pc = "up", !.key = keySecret.key, !.current = TRUE]]
    /\ UNCHANGED <<keySecret, secret, cache, load, write, login, attempts, signOn, held, past>>

\* Mutant: the replica that loses the race keeps the key it made.
OwnKey(r) == r

\* Create fails when another replica was first: its key is used.
WinnersKey(r) == IF keySecret.key = NoKey THEN r ELSE keySecret.key

\* The key is stored: created, or written in place of an unusable one where nobody has
\* meanwhile (a conflict ends the start, and the replica is started again).
StoreKey(r) ==
    /\ replica[r].pc \in {"create", "repair"}
    /\ LET key == IF replica[r].pc = "create" THEN WinnersKey(r) ELSE r
           refused == replica[r].pc = "repair" /\ keySecret.version # replica[r].seen
       IN IF refused \/ key = Unusable
          THEN /\ replica' = [replica EXCEPT ![r].pc = "down"]
               /\ UNCHANGED keySecret
          ELSE /\ keySecret' = IF replica[r].pc = "repair" \/ keySecret.key = NoKey
                               THEN [version |-> keySecret.version + 1, key |-> key] ELSE keySecret
               /\ replica' = [replica EXCEPT ![r] = [@ EXCEPT !.pc = "up", !.key = key, !.current = TRUE]]
    /\ NoFault
    /\ UNCHANGED <<secret, cache, load, write, login, attempts, signOn, held, past>>

\* Somebody empties the Secret of the key by hand: the replicas keep theirs.
EmptyKey ==
    /\ keySecret.key \notin {NoKey, Unusable} /\ Change
    /\ keySecret' = [version |-> keySecret.version + 1, key |-> Unusable]
    /\ replica' = [r \in Replicas |-> [replica[r] EXCEPT !.current = FALSE]]
    /\ UNCHANGED <<secret, cache, load, write, login, attempts, signOn, held, past>>

\* A replica stops, at any moment, and starts again with empty caches.
Restart(r) ==
    /\ replica[r].pc # "down" /\ Fault
    /\ replica' = [replica EXCEPT ![r].pc = "down"]
    /\ cache' = [cache EXCEPT ![r] = EmptyCache]
    /\ load' = [load EXCEPT ![r] = [s \in Stores |-> Nothing]]
    /\ write' = [write EXCEPT ![r] = Nothing]
    /\ login' = [login EXCEPT ![r] = Nothing]
    /\ attempts' = [attempts EXCEPT ![r] = [u \in Users |-> [left |-> LoginBurst, at |-> now]]]
    /\ UNCHANGED <<keySecret, secret, signOn, held, past>>

Up(r) == replica[r].pc = "up"

-----------------------------------------------------------------------------
\* The attempts an account has left: one comes back with every tick.
Tokens(r, u) == Min({LoginBurst, attempts[r][u].left + (now - attempts[r][u].at)})

Spend(r, u) ==
    [attempts EXCEPT ![r][u] = [left |-> Max({0, Tokens(r, u) - 1}), at |-> now]]

\* Sessions.Issue: a cookie signed with the replica's key.
Cookie(r, kind, name, role) ==
    [kind |-> kind, store |-> "users", name |-> name, role |-> role, issued |-> now,
     expires |-> now + SessionTTL, key |-> replica[r].key]

\* HandleLogin of the installation's own admin.
LoginBuiltin(r) ==
    /\ Up(r) /\ login[r] = Nothing /\ Change
    /\ held' = held \cup {Cookie(r, "builtin", Builtin, "admin")}
    /\ UNCHANGED <<keySecret, replica, secret, cache, load, write, login, attempts, signOn, past>>

\* The password form is hidden only while somebody can sign in without it.
localLoginHidden == signOn.hidden /\ signOn.enabled

\* HandleLogin: refused without attempts left, or with the form hidden; otherwise the user
\* is read from the Secret itself, and comparing the password takes a while.
Login(r, u, p) ==
    /\ Up(r) /\ ~localLoginHidden /\ login[r] = Nothing /\ u \in DOMAIN secret["users"].data
    /\ Tokens(r, u) >= 1 /\ Change
    /\ login' = [login EXCEPT ![r] =
           [store |-> "users", name |-> u, password |-> p, user |-> secret["users"].data[u]]]
    /\ UNCHANGED <<keySecret, replica, secret, cache, load, write, attempts, signOn, held, past>>

\* The password is right and the account enabled: a session begins.  Otherwise one attempt
\* is spent.
LoginEnds(r) ==
    /\ login[r] # Nothing /\ NoFault
    /\ LET u == login[r].name
           user == login[r].user
       IN IF login[r].password = user.password /\ ~user.disabled
          THEN held' = held \cup {Cookie(r, "user", u, user.role)} /\ UNCHANGED attempts
          ELSE attempts' = Spend(r, u) /\ UNCHANGED held
    /\ login' = [login EXCEPT ![r] = Nothing]
    /\ UNCHANGED <<keySecret, replica, secret, cache, load, write, signOn, past>>

-----------------------------------------------------------------------------
\* What a replica holds is used for as long as it is fresh.
Fresh(r, s) ==
    /\ cache[r][s].at # None
    /\ IF s = "users" THEN now - cache[r][s].at < CacheTTL ELSE now - cache[r][s].at <= CacheTTL

\* Users.Session: the account is there, enabled, and its password as old as the session.
SessionValid(c, data) ==
    c.name \in DOMAIN data /\ ~data[c.name].disabled /\ c.issued >= data[c.name].changed

\* Tokens.Authenticate: the very token is there and has not expired.
TokenValid(c, data) ==
    /\ c.name \in DOMAIN data /\ data[c.name].id = c.id
    /\ data[c.name].expires = None \/ now <= data[c.name].expires

Valid(c, data) == IF c.store = "users" THEN SessionValid(c, data) ELSE TokenValid(c, data)

\* Sessions.Read: the cookie carries the replica's signature and has not expired.
Reads(r, c) == c.store = "users" => c.key = replica[r].key /\ now <= c.expires

\* Middleware: what a replica would let through now by what it holds, which is locked
\* while a request reads the users.  The built-in admin and the people of the single
\* sign-on have no account here: the cookie alone says who they are.
Admits(r, c) ==
    /\ Up(r) /\ Reads(r, c)
    /\ c.kind \in {"user", "token"} =>
           /\ Fresh(r, c.store) /\ Valid(c, cache[r][c.store].data)
           /\ c.store = "users" => load[r]["users"] = Nothing

\* The role of the account as the replica knows it, and whether its password must be
\* changed before anything else.
RoleOf(r, c) == IF c.kind \in {"user", "token"} THEN cache[r][c.store].data[c.name].role ELSE c.role
FormOnly(r, c) == c.kind = "user" /\ cache[r]["users"].data[c.name].mustChange

\* A request that finds nothing fresh reads the Secret.
Load(r, c) ==
    /\ Up(r) /\ Reads(r, c) /\ c.kind \in {"user", "token"} /\ ~Fresh(r, c.store)
    /\ load[r][c.store] = Nothing /\ NoFault
    /\ load' = [load EXCEPT ![r][c.store] =
           [store |-> c.store, cred |-> c, at |-> now, version |-> secret[c.store].version, data |-> secret[c.store].data]]
    /\ UNCHANGED <<keySecret, replica, secret, cache, write, login, attempts, signOn, held, past>>

\* The read is stored as of now, and answers the request (Admits).  A read that fails answers 401,
\* and takes the browser's cookie away.
LoadEnds(r, s) ==
    /\ load[r][s] # Nothing
    /\ LET l == load[r][s]
           entry == [at |-> now, took |-> now - l.at, version |-> l.version, data |-> l.data]
       IN \/ /\ NoFault
             /\ cache' = [cache EXCEPT ![r][s] = entry]
             /\ UNCHANGED held
          \/ /\ Fault
             /\ held' = IF s = "users" THEN held \ {l.cred} ELSE held
             /\ UNCHANGED cache
    /\ load' = [load EXCEPT ![r][s] = Nothing]
    /\ UNCHANGED <<keySecret, replica, secret, write, login, attempts, signOn, past>>

-----------------------------------------------------------------------------
\* The changes of users and tokens.
UserOp(op) ==
    [store |-> "users", name |-> op.name, do |-> op.do, role |-> op.role,
     entry |-> User(op.role, op.password, op.mustChange, now)]

\* A token is told from another of its name by what it hashes to.
TokenOp(op) ==
    [store |-> "tokens", name |-> op.name, do |-> op.do,
     entry |-> [role |-> op.role, expires |-> IF op.ttl = 0 THEN None ELSE now + op.ttl, id |-> secret["tokens"].version]]

\* isSelf: nobody deletes or disables the own account, or takes its admin role away.
Harmless(op, by) ==
    op.name = by => /\ op.do \notin {"delete", "disable"}
                    /\ op.do = "role" => op.role = "admin"

\* A request of an administrator changes a user or a token.
Begin(r, c, op) ==
    /\ Admits(r, c) /\ RoleOf(r, c) = "admin" /\ ~FormOnly(r, c) /\ write[r] = Nothing
    /\ op.store = "users" /\ c.kind = "user" => Harmless(op, c.name)
    /\ Change
    /\ write' = [write EXCEPT ![r] = [store |-> op.store, pc |-> "update", op |-> op, tries |-> 0, seen |-> secret[op.store]]]
    /\ UNCHANGED <<keySecret, replica, secret, cache, load, login, attempts, signOn, held, past>>

\* HandleChangePassword: a user replaces the own password, knowing the current one.
ChangeOwn(r, c, p) ==
    /\ Admits(r, c) /\ c.kind = "user" /\ write[r] = Nothing
    /\ LET u == c.name
           data == secret["users"].data
       IN /\ u \in DOMAIN data /\ ~data[u].disabled /\ p # data[u].password
          /\ write' = [write EXCEPT ![r] =
                 [store |-> "users", pc |-> "update", tries |-> 0, seen |-> secret["users"],
                  op |-> UserOp([name |-> u, do |-> "own", role |-> "viewer", password |-> p, mustChange |-> FALSE])]]
    /\ Change
    /\ UNCHANGED <<keySecret, replica, secret, cache, load, login, attempts, signOn, held, past>>

\* What the change makes of the entries that were read; data itself when it is refused.
Changed(op, data) ==
    LET there == op.name \in DOMAIN data
    IN CASE op.do = "create" -> IF there THEN data ELSE With(data, op.name, op.entry)
         [] ~there -> data
         [] op.do = "delete" -> Without(data, op.name)
         [] op.do = "role" -> [data EXCEPT ![op.name].role = op.role]
         [] op.do \in {"disable", "enable"} -> [data EXCEPT ![op.name].disabled = (op.do = "disable")]
         [] OTHER -> [data EXCEPT ![op.name].password = op.entry.password, ![op.name].changed = now,
                                  ![op.name].mustChange = op.entry.mustChange]

\* Begin and ChangeOwn have read the Secret; after a conflict it is read again.
ReadForWrite(r) ==
    /\ write[r] # Nothing /\ write[r].pc = "read" /\ NoFault
    /\ write' = [write EXCEPT ![r].seen = secret[write[r].store], ![r].pc = "update"]
    /\ UNCHANGED <<keySecret, replica, secret, cache, load, login, attempts, signOn, held, past>>

\* The Secret is as the change read it.
Unchanged(r) == secret[write[r].store].version = write[r].seen.version

\* The Secret is written; a conflict reads it again.  A change that is refused, or fails,
\* goes on to forget the cache, except that a token that could not be created does not.
Update(r) ==
    /\ write[r] # Nothing /\ write[r].pc = "update"
    /\ LET w == write[r]
           s == w.store
           data == Changed(w.op, w.seen.data)
           ends == IF s = "tokens" /\ w.op.do = "create" THEN Nothing ELSE [w EXCEPT !.pc = "forget"]
       IN \/ /\ NoFault /\ data # w.seen.data /\ Unchanged(r)
             /\ secret' = [secret EXCEPT ![s] = [version |-> @.version + 1, data |-> data]]
             /\ past' = past \cup {[store |-> s, data |-> secret[s].data, until |-> now]}
             /\ held' = IF s = "tokens" /\ w.op.do = "create"
                        THEN held \cup {[kind |-> "token", store |-> s, name |-> w.op.name, id |-> w.op.entry.id]} ELSE held
             /\ write' = [write EXCEPT ![r].pc = "forget", ![r].seen = secret'[s]]
          \/ /\ NoFault /\ data # w.seen.data /\ ~Unchanged(r) /\ w.tries < MaxWrites
             /\ write' = [write EXCEPT ![r].pc = "read", ![r].tries = @ + 1]
             /\ UNCHANGED <<secret, past, held>>
          \/ /\ IF data = w.seen.data \/ (~Unchanged(r) /\ w.tries = MaxWrites) THEN NoFault ELSE Fault
             /\ write' = [write EXCEPT ![r] = ends]
             /\ UNCHANGED <<secret, past, held>>
    /\ UNCHANGED <<keySecret, replica, cache, load, login, attempts, signOn>>

\* Mutant: the replica keeps what it holds.
ForgetNothing(r) == cache[r]

\* invalidate.
Forgotten(r) == [cache[r] EXCEPT ![write[r].store] = EmptyCache[write[r].store]]

\* The cache is forgotten: of the users once nobody is reading it.  A user who changed the
\* own password gets a new session.
Forget(r) ==
    /\ write[r] # Nothing /\ write[r].pc = "forget" /\ NoFault
    /\ write[r].store = "users" => load[r]["users"] = Nothing
    /\ cache' = [cache EXCEPT ![r] = Forgotten(r)]
    /\ LET op == write[r].op
           data == secret["users"].data
       IN held' = IF op.do = "own" /\ op.name \in DOMAIN data /\ data[op.name].password = op.entry.password /\ ~data[op.name].disabled
                  THEN held \cup {Cookie(r, "user", op.name, data[op.name].role)} ELSE held
    /\ write' = [write EXCEPT ![r] = Nothing]
    /\ replica' = [replica EXCEPT ![r].wrote = IF write[r].store = "users" THEN write[r].seen.version ELSE @]
    /\ UNCHANGED <<keySecret, secret, load, login, attempts, signOn, past>>

KeyNext == EmptyKey \/ \E r \in Replicas : ReadKey(r) \/ StoreKey(r) \/ Restart(r) \/ LoginBuiltin(r)

\* What people do with what they hold.
SessionNext ==
    \E r \in Replicas :
        \/ \E c \in held : Load(r, c)
        \/ \E s \in Stores : LoadEnds(r, s)
        \/ ReadForWrite(r) \/ Update(r) \/ Forget(r)

UserNext ==
    \E r \in Replicas :
        \/ \E c \in held, op \in UserOps : Begin(r, c, UserOp(op))
        \/ \E u \in Users, p \in Passwords : Login(r, u, p)
        \/ LoginEnds(r)
        \/ \E c \in held, p \in Passwords : ChangeOwn(r, c, p)

TokenNext == \E r \in Replicas, c \in held, op \in TokenOps : Begin(r, c, TokenOp(op))

-----------------------------------------------------------------------------
\* Every replica that came up since the key's Secret was last emptied signs with the key
\* in it, whichever of them were racing to make it and whichever restarted in between
\* (loadOrCreateSecret: "Replicas racing to create it all end up with the winner's data").
OneSigningKey == \A r \in Replicas : Up(r) /\ replica[r].current => replica[r].key = keySecret.key

\* The Secret as it was at some moment of the last TTL, or of the read that fell into it.
Recent(s, took) ==
    {secret[s].data} \cup {p.data : p \in {q \in past : q.store = s /\ q.until >= now - CacheTTL - took}}

\* What is let through is an account or a token that was valid, with the role it had, no
\* longer ago than the cache may be old, on every replica: a deleted or disabled user, one
\* whose password was changed, and a revoked token are out after that.  The replica a user
\* was changed through serves nothing by what was before (Users.Session and write, whose
\* lock the read of the cache holds; Tokens.Authenticate, which reads without it).
AccessEndsInTime ==
    \A r \in Replicas, c \in {d \in held : d.kind \in {"user", "token"}} :
        Admits(r, c) =>
            /\ \E data \in Recent(c.store, cache[r][c.store].took) :
                  Valid(c, data) /\ RoleOf(r, c) = data[c.name].role
            /\ c.store = "users" => cache[r]["users"].version >= replica[r].wrote
=============================================================================
