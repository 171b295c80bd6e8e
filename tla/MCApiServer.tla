----------------------------- MODULE MCApiServer -----------------------------
(* Small installations of the API server.                                   *)
EXTENDS ApiServer

CONSTANTS r1, r2

Plan(parts, time, c, f) == [parts |-> parts, time |-> time, changes |-> c, faults |-> f]

AllPlans ==
    {Plan({"keys"}, 1, 2, 2), Plan({"users"}, 2, 2, 0), Plan({"users"}, 2, 1, 1), Plan({"tokens"}, 2, 2, 0),
     Plan({"tokens"}, 2, 1, 1), Plan({"sso"}, 2, 3, 1), Plan({"keys", "sso"}, 1, 3, 1), Plan({"advice"}, 0, 3, 0),
     Plan({"records"}, 1, 2, 1), Plan({"records"}, 0, 3, 1)}

Ranks == [viewer |-> 1, admin |-> 3]
UserChange(do, role, p, must) == [name |-> "u", do |-> do, role |-> role, password |-> p, mustChange |-> must]
SomeUserOps == {UserChange("delete", "viewer", 0, FALSE), UserChange("create", "admin", 1, TRUE)}
SomeTokenOps ==
    {[name |-> "t", do |-> "create", role |-> "admin", ttl |-> 1], [name |-> "t", do |-> "delete", role |-> "viewer", ttl |-> 0]}

Off == [enabled |-> FALSE, hidden |-> TRUE, multiTenant |-> FALSE, autoProvision |-> TRUE, default |-> "", groups |-> <<>>]
Single == [Off EXCEPT !.enabled = TRUE, !.groups = [dev |-> "viewer"]]
SomeSignOns == {Off, Single, [Single EXCEPT !.multiTenant = TRUE]}
SomePeople == [ann |-> [groups |-> {"dev"}, roles |-> {"admin"}], bob |-> [groups |-> {}, roles |-> {}]]

T(f, v) == [flag |-> f, value |-> v]
Env(tool, opts) == [JAVA_TOOL_OPTIONS |-> tool, JDK_JAVA_OPTIONS |-> <<>>, JAVA_OPTS |-> opts, _JAVA_OPTIONS |-> <<>>]
Box(cpu, cpuLimit, mem, memLimit, note, env) ==
    [cpu |-> cpu, cpuLimit |-> cpuLimit, mem |-> mem * Mi, memLimit |-> memLimit * Mi, annotation |-> note,
     command |-> "sh", javaImage |-> FALSE, args |-> <<>>, env |-> env]
\* A plain container, one without requests, and two of Java: with a heap in two variables, and without options.
SomeContainers ==
    {Box(500, 0, 400, 512, "", Env(<<>>, <<>>)), Box(0, 100, 0, 0, "", Env(<<>>, <<>>)),
     Box(100, 1000, 100, 400, "", Env(<<T("heap", 350 * Mi)>>, <<T("heap", 300 * Mi)>>)),
     Box(100, 1000, 1024, 2048, "java", Env(<<>>, <<>>))}

Demand(seen, history, cpu, mem, heap, other) ==
    [seen |-> seen, historical |-> history, cpu |-> cpu, mem |-> mem * Mi, used |-> heap * Mi, afterGC |-> heap * Mi,
     nonHeap |-> other * Mi]
SomeDemands ==
    {Demand(FALSE, FALSE, 0, 0, 0, 0), Demand(TRUE, TRUE, 103, 90, 0, 0), Demand(TRUE, FALSE, 300, 390, 0, 0),
     Demand(TRUE, TRUE, 60, 300, 60, 10), Demand(TRUE, TRUE, 60, 350, 290, 50)}

Strained(throttled, kills, evictions, restarts, looping) ==
    [throttled |-> throttled, oomKills |-> kills, evictions |-> evictions, restarts |-> restarts,
     lastReason |-> IF kills > 0 THEN "OOMKilled" ELSE "Error", looping |-> looping]
SomePressures ==
    {Strained(0, 0, 0, 0, FALSE), Strained(10, 0, 0, 3, FALSE), Strained(0, 1, 0, 3, FALSE), Strained(9, 0, 1, 1, TRUE)}

Bounded(cpuMin, cpuMax, memMin, memMax, headroom) ==
    [cpuMin |-> cpuMin, cpuMax |-> cpuMax, memMin |-> memMin * Mi, memMax |-> memMax * Mi, headroom |-> headroom,
     forbidden |-> FALSE, exclude |-> FALSE]
SomePolicies ==
    {NoPolicy, Bounded(0, 198, 0, 200, 100), Bounded(50, 0, 150, 0, 0), [NoPolicy EXCEPT !.forbidden = TRUE],
     [NoPolicy EXCEPT !.exclude = TRUE]}

\* A Deployment and a CronJob of one name, and a Deployment of Argo CD's.
Names == [a |-> "a", job |-> "a", m |-> "m"]

Interchangeable == Permutations({r1, r2})
=============================================================================
