----------------------------- MODULE SettingsSave -----------------------------
(***************************************************************************)
(* PUT /api/settings (handleUpdateSettings): an admin sends some sections  *)
(* of the settings.  They are checked and merged into the CostDeckConfig   *)
(* as it is, the credentials among them go to Secrets of their own, one    *)
(* after the other, and the CostDeckConfig is written last; when somebody  *)
(* has written it meanwhile, all of that happens again.                    *)
(*                                                                         *)
(* Six sections stand for the twenty: "cloud" (the clouds, AI, metrics)    *)
(* and "signin" keep the fields a save leaves out; "hook" (Slack, Teams,   *)
(* email, the Git repository) must have credentials to be switched on; the *)
(* Secret of "webex" is merged, the ones before are replaced; the Secret   *)
(* of "clusters" holds a token for each; "plain" has none.                 *)
(***************************************************************************)
EXTENDS OperatorClock

CONSTANTS Admins,     \* admins saving at the same time
          Saves,      \* the requests they send: section -> what it says
          MaxAttempts \* attempts of retry.DefaultRetry

VARIABLES cfg,      \* the CostDeckConfig; version 0 before it exists
          secrets,  \* the Secrets that exist: section -> its keys
          saving,   \* admin -> the save under way
          torn      \* a save of clusters failed after its Secret, or met another one

saveVars == <<cfg, secrets, saving, torn>>

Sections == {"plain", "cloud", "signin", "hook", "webex", "clusters"}
ASSUME SaveAssumption == \A r \in Saves : DOMAIN r \subseteq Sections

NotSaving == [pc |-> "idle"]
NoKeys == <<>>

SaveInit ==
    /\ cfg = [version |-> 0, plain |-> None, cloud |-> [enabled |-> FALSE, id |-> None, ref |-> FALSE],
              signin |-> [enabled |-> FALSE, id |-> None, ref |-> FALSE],
              hook |-> [enabled |-> FALSE, ref |-> FALSE], webex |-> [ref |-> FALSE], clusters |-> {}]
    /\ secrets = <<>>
    /\ saving = [a \in Admins |-> NotSaving]
    /\ torn = FALSE

-----------------------------------------------------------------------------
\* The keys of a Secret, none of one that is not there (secretDataOrEmpty).
KeysOf(s, sec) == IF sec \in DOMAIN s THEN s[sec] ELSE NoKeys

\* Keys of one map over those of another, without the ones taken away.
Merged(old, new, without) ==
    [k \in (DOMAIN old \cup DOMAIN new) \ without |-> IF k \in DOMAIN new THEN new[k] ELSE old[k]]

\* The sections without credentials replace what is stored, once their values are valid.
applyPlain(c, u) == [ok |-> u.valid, cfg |-> [c EXCEPT !.plain = u.value], data |-> NoKeys]

\* A field that a save leaves out keeps its value; credentials that are left out keep theirs.
Given(new, old) == IF new = None THEN old ELSE new
WithFields(old, u) == [enabled |-> u.enabled, id |-> Given(u.id, old.id), ref |-> old.ref \/ u.key # None]
Credentials(sec, key) == IF key = None THEN NoKeys ELSE [s \in {sec} |-> key]

\* applyAWSSettings and the others of a cloud, of AI and of the metrics: they may be on
\* without credentials, as the pod may have an identity of its own.
applyProvider(c, u) ==
    [ok |-> TRUE, cfg |-> [c EXCEPT !.cloud = WithFields(@, u)], data |-> Credentials("cloud", u.key)]

\* applyAuthSettings, applyOIDCSettings: what is switched on has its tenant or issuer.
applyAuth(c, u) ==
    LET new == WithFields(c.signin, u)
    IN [ok |-> new.enabled => new.id # None, cfg |-> [c EXCEPT !.signin = new], data |-> Credentials("signin", u.key)]

\* applyNotificationSettings: what is switched on must have its credentials, given now or
\* before.
applyHook(c, u) ==
    LET ref == c.hook.ref \/ u.url # None
    IN [ok |-> u.enabled => ref,
        cfg |-> [c EXCEPT !.hook = [enabled |-> u.enabled, ref |-> ref]],
        data |-> Credentials("hook", u.url)]

\* applyWebexSettings: the token and the webhook secret each keep the other.
applyWebex(c, u, s) ==
    LET keys == Merged(KeysOf(s, "webex"), u.keys, u.remove)
    IN [ok |-> TRUE, cfg |-> [c EXCEPT !.webex.ref = TRUE], data |-> [webex |-> keys]]

\* applyClusterSettings: the list replaces the stored one; a new cluster brings its
\* token, one that stays may leave it out, and tokens of the others go.
applyClusters(c, u, s) ==
    LET sent == {n \in DOMAIN u : u[n] # None}
        old == KeysOf(s, "clusters")
        tokens == Merged(old, [n \in sent |-> u[n]], (DOMAIN old \cup sent) \ DOMAIN u)
    IN [ok |-> DOMAIN u \subseteq sent \cup c.clusters,
        cfg |-> [c EXCEPT !.clusters = DOMAIN u],
        data |-> IF DOMAIN u = {} /\ c.clusters = {} THEN NoKeys ELSE [clusters |-> tokens]]

\* The appliers, one after the other, in the order of Appliers, on the config and the
\* Secrets as they are.
Apply1(sec, c, r, s) ==
    IF sec \notin DOMAIN r THEN [ok |-> TRUE, cfg |-> c, data |-> NoKeys]
    ELSE CASE sec = "webex" -> applyWebex(c, r.webex, s)
           [] sec = "cloud" -> applyProvider(c, r.cloud)
           [] sec = "signin" -> applyAuth(c, r.signin)
           [] sec = "hook" -> applyHook(c, r.hook)
           [] sec = "plain" -> applyPlain(c, r.plain)
           [] sec = "clusters" -> applyClusters(c, r.clusters, s)
Appliers == <<"cloud", "webex", "hook", "plain", "signin", "clusters">>
ApplyNext(done, sec, r, s) ==
    LET x == Apply1(sec, done.cfg, r, s)
    IN [ok |-> done.ok /\ x.ok, cfg |-> x.cfg, data |-> Merged(done.data, x.data, {})]
Applied(r, c, s) ==
    LET clouds == ApplyNext([ok |-> TRUE, cfg |-> c, data |-> NoKeys], "cloud", r, s)
        chats == ApplyNext(ApplyNext(clouds, "webex", r, s), "hook", r, s)
    IN ApplyNext(ApplyNext(ApplyNext(chats, "plain", r, s), "signin", r, s), "clusters", r, s)

\* Where a section comes among them.
Place(sec) == CHOOSE i \in DOMAIN Appliers : Appliers[i] = sec

-----------------------------------------------------------------------------
Send(a, r) ==
    /\ saving[a].pc = "idle" /\ Change
    /\ saving' = [saving EXCEPT ![a] = [pc |-> "apply", req |-> r, tries |-> 1, wrote |-> {}]]
    /\ UNCHANGED <<cfg, secrets, torn>>

\* getOrCreateDefaultConfig and the appliers: an invalid section refuses the whole save.
ApplySections(a) ==
    /\ saving[a].pc = "apply" /\ NoFault
    /\ LET there == [cfg EXCEPT !.version = IF @ = 0 THEN 1 ELSE @]
           done == Applied(saving[a].req, there, secrets)
       IN /\ cfg' = there
          /\ saving' = [saving EXCEPT ![a] =
                 IF done.ok THEN [pc |-> "secrets", req |-> saving[a].req, tries |-> saving[a].tries,
                                  wrote |-> saving[a].wrote, new |-> done.cfg, data |-> done.data, todo |-> DOMAIN done.data]
                 ELSE [pc |-> "refused", req |-> saving[a].req, tries |-> saving[a].tries, wrote |-> saving[a].wrote]]
    /\ UNCHANGED <<secrets, torn>>

OthersIn(a, sec) == \E b \in Admins \ {a} : saving[b].pc = "secrets" /\ sec \in DOMAIN saving[b].req

\* writeSecrets, upsertSecret: each Secret, in the order the sections queued them, gets
\* the keys worked out before, whatever is in it by now; the first failure ends the save.
WriteSecret(a) ==
    /\ saving[a].pc = "secrets"
    /\ \E sec \in saving[a].todo :
         /\ \A other \in saving[a].todo : Place(sec) <= Place(other)
         /\ \/ /\ NoFault
               /\ secrets' = Merged(secrets, [s \in {sec} |-> saving[a].data[s]], {})
               /\ saving' = [saving EXCEPT ![a].todo = @ \ {sec}, ![a].wrote = @ \cup {sec}]
               /\ torn' = (torn \/ (sec = "clusters" /\ OthersIn(a, sec)))
            \/ /\ Fault
               /\ saving' = [saving EXCEPT ![a] = NotSaving]
               /\ torn' = (torn \/ "clusters" \in saving[a].wrote)
               /\ UNCHANGED secrets
    /\ UNCHANGED cfg

\* Mutant: the config is stored before its Secrets are.
UpdateConfigFirst(a) ==
    /\ saving[a].pc = "secrets" /\ saving[a].new.version = cfg.version /\ NoFault
    /\ cfg' = [saving[a].new EXCEPT !.version = @ + 1]
    /\ saving' = [saving EXCEPT ![a].new.version = -1]
    /\ UNCHANGED <<secrets, torn>>

\* Update of the CostDeckConfig.
UpdateConfig(a) ==
    /\ saving[a].pc = "secrets" /\ saving[a].todo = {}
    /\ \/ /\ saving[a].new.version = cfg.version /\ NoFault
          /\ cfg' = [saving[a].new EXCEPT !.version = @ + 1]
          /\ saving' = [saving EXCEPT ![a] = NotSaving]
          /\ UNCHANGED torn
       \/ /\ saving[a].new.version # cfg.version /\ saving[a].tries < MaxAttempts /\ NoFault
          /\ saving' = [saving EXCEPT ![a] = [pc |-> "apply", req |-> saving[a].req,
                            tries |-> saving[a].tries + 1, wrote |-> saving[a].wrote]]
          /\ UNCHANGED <<cfg, torn>>
       \/ /\ Fault \/ (saving[a].new.version # cfg.version /\ saving[a].tries = MaxAttempts /\ NoFault)
          /\ saving' = [saving EXCEPT ![a] = NotSaving]
          /\ torn' = (torn \/ "clusters" \in saving[a].wrote)
          /\ UNCHANGED cfg
    /\ UNCHANGED secrets

\* The answer to a save that was refused.
Refused(a) ==
    /\ saving[a].pc = "refused" /\ NoFault
    /\ saving' = [saving EXCEPT ![a] = NotSaving]
    /\ torn' = (torn \/ "clusters" \in saving[a].wrote)
    /\ UNCHANGED <<cfg, secrets>>

\* The controller stores the status of the providers.
WriteStatus ==
    /\ cfg.version > 0 /\ Change
    /\ cfg' = [cfg EXCEPT !.version = @ + 1]
    /\ UNCHANGED <<secrets, saving, torn>>

SaveNext ==
    \/ \E a \in Admins, r \in Saves : Send(a, r)
    \/ \E a \in Admins : ApplySections(a) \/ WriteSecret(a) \/ UpdateConfig(a) \/ Refused(a)
    \/ WriteStatus

-----------------------------------------------------------------------------
\* A save that is carried out changes the sections it has, in the settings as they are at
\* that moment, and leaves what others have saved in the other sections.
SectionsKept ==
    \A a \in Admins :
        saving[a].pc = "secrets" /\ cfg' # cfg /\ saving'[a] # saving[a] =>
            \A sec \in Sections \ DOMAIN saving[a].req : cfg'[sec] = cfg[sec]

\* Whatever fails or overlaps, the stored settings never name a Secret that is not there,
\* as the Secrets are written first, and every cluster listed has its token unless two
\* saves of clusters met or one failed half way; a save refused for one section has
\* written no Secret of another (pendingSecret, writeSecrets).
SavedWhole ==
    /\ \A sec \in {"cloud", "signin", "hook", "webex"} : cfg[sec].ref => sec \in DOMAIN secrets
    /\ ~torn /\ (\A a \in Admins : "clusters" \notin (IF saving[a].pc = "idle" THEN {} ELSE saving[a].wrote))
           => cfg.clusters \subseteq DOMAIN KeysOf(secrets, "clusters")
    /\ \A a \in Admins : saving[a].pc = "refused" /\ saving[a].tries = 1 => saving[a].wrote = {}
=============================================================================
