---------------------------- MODULE SingleSignOn ----------------------------
(***************************************************************************)
(* internal/auth/entra.go and oidc.go: signing in with an identity         *)
(* provider.  What a sign-in needs is kept in a signed cookie of the       *)
(* browser, so that any replica completes it.  The provider answers with a *)
(* redirect, which a browser may follow late, again, or for a sign-in that *)
(* another tab has replaced.                                               *)
(***************************************************************************)
EXTENDS Accounts

CONSTANTS Browsers,
          People,   \* person -> the groups and app roles the provider tells of them
          TxnTTL

VARIABLES txn,      \* browser -> the cookie of its last sign-in
          answers,  \* the redirects browsers may follow
          begun,    \* how many sign-ins have begun
          signIns   \* the sessions they led to

signOnVars == <<txn, answers, begun, signIns>>

SignOnInit == txn = [b \in Browsers |-> Nothing] /\ answers = {} /\ begun = 0 /\ signIns = {}

\* The most privileged of some roles.
Highest(roles) == CHOOSE x \in roles : \A y \in roles : RoleRank[y] <= RoleRank[x]

\* ResolveRole: mapped groups and, of the own tenant, app roles; without any, what everybody
\* gets, if anything.
ResolveRole(claims) ==
    LET mapped == {signOn.groups[g] : g \in claims.groups \cap DOMAIN signOn.groups}
        roles == mapped \cup (IF signOn.multiTenant THEN {} ELSE claims.roles \cap DOMAIN RoleRank)
    IN IF roles # {} THEN Highest(roles)
       ELSE IF signOn.multiTenant \/ ~signOn.autoProvision THEN "none"
       ELSE IF signOn.default \in DOMAIN RoleRank THEN signOn.default ELSE "viewer"

\* HandleLogin: the cookie with the state, the nonce and the end of the sign-in.
BeginSignIn(b, r) ==
    /\ Up(r) /\ signOn.enabled
    /\ \/ /\ Change
          /\ txn' = [txn EXCEPT ![b] = [store |-> "txn", state |-> begun, key |-> replica[r].key, expires |-> now + TxnTTL]]
          /\ begun' = begun + 1
       \/ Fault /\ UNCHANGED <<txn, begun>>
    /\ UNCHANGED <<accountVars, answers, signIns>>

\* The provider sends the browser back, with the code of the person who signed in.
Answer(b, person) ==
    /\ \E n \in 0..begun - 1 :
           /\ \A a \in answers : a.state # n
           /\ txn[b] # Nothing /\ n <= txn[b].state
           /\ answers' = answers \cup {[browser |-> b, state |-> n, person |-> person]}
    /\ NoFault
    /\ UNCHANGED <<accountVars, txn, begun, signIns>>

\* Mutant: the cookie stays after a sign-in.
TxnKept(b) == txn

\* Whatever the outcome, the cookie is gone.
TxnCleared(b) == [txn EXCEPT ![b] = Nothing]

\* What a callback must match: a cookie of ours that has not expired, and its state.
Completes(r, a) ==
    /\ txn[a.browser] # Nothing /\ txn[a.browser].key = replica[r].key /\ now <= txn[a.browser].expires
    /\ a.state = txn[a.browser].state
    /\ signOn.enabled

\* complete, HandleCallback and HandleSPACallback: the code is exchanged for the person's
\* claims and those for a role and a session.  The provider may not answer.
CompleteSignIn(r, a) ==
    /\ Up(r)
    /\ LET role == ResolveRole(People[a.person])
       IN \/ /\ NoFault /\ Completes(r, a) /\ role # "none"
             /\ held' = held \cup {Cookie(r, "sso", a.person, role)}
             /\ signIns' = signIns \cup {[state |-> a.state, person |-> a.person, at |-> now, by |-> r]}
          \/ /\ IF Completes(r, a) /\ role # "none" THEN Fault ELSE NoFault
             /\ UNCHANGED <<held, signIns>>
    /\ txn' = TxnCleared(a.browser)
    /\ UNCHANGED <<keySecret, replica, secret, cache, load, write, login, attempts, signOn, past, answers, begun>>

\* The single sign-on is configured anew.
Configure(c) ==
    /\ c # signOn /\ Change
    /\ signOn' = c
    /\ UNCHANGED <<keySecret, replica, secret, cache, load, write, login, attempts, held, past, signOnVars>>

SignOnNext ==
    \/ \E b \in Browsers, r \in Replicas : BeginSignIn(b, r)
    \/ \E b \in Browsers, p \in DOMAIN People : Answer(b, p)
    \/ \E r \in Replicas, a \in answers : CompleteSignIn(r, a)
    \/ \E c \in SignOns : Configure(c)

-----------------------------------------------------------------------------
\* A sign-in leads to one session at most, of the person who answered it, however often
\* the browser follows the redirect and whichever replica it reaches, also while the key
\* is replaced (complete, which takes the cookie away before it looks at anything).
OneSessionEach ==
    \A x, y \in signIns : x.state = y.state => x = y
=============================================================================
