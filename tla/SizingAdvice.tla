----------------------------- MODULE SizingAdvice -----------------------------
(***************************************************************************)
(* internal/rightsizing and internal/risks: the advice on the requests of  *)
(* a container, made from what was measured, the policy that picks it and  *)
(* the pressure it is under, and the performance risks with their fixes.   *)
(* The module follows one container of one workload: demand and pressure   *)
(* come and go, people change the policy, apply the advice, follow the     *)
(* plan for the heap or the fix of a risk.  CPU is in millicores, memory   *)
(* in hundredths of a mebibyte; a zero is a value that is not set.         *)
(***************************************************************************)
EXTENDS JavaHeap, OperatorClock

CONSTANTS Containers,  \* the containers to begin with
          Demands,     \* what the metrics may report
          Pressures,   \* what its pods may go through
          Policies     \* the RightsizingPolicies people write

VARIABLES box,       \* the container: requests, limits, options
          demand,    \* the demand measured, with the heap
          pressure,  \* throttling, OOM kills, evictions, restarts
          policy     \* the oldest policy that picks the workload

sizingVars == <<box, demand, pressure, policy>>

OptionVariables == {"JAVA_TOOL_OPTIONS", "JDK_JAVA_OPTIONS", "JAVA_OPTS", "_JAVA_OPTIONS"}

\* The API server takes no request above its limit.
ContainerSpec ==
    {c \in [cpu : Nat, cpuLimit : Nat, mem : Nat, memLimit : Nat, annotation : {"", "java", "none"},
            command : {"java", "sh"}, javaImage : BOOLEAN, args : Seq(Token), env : [OptionVariables -> Seq(Token)]] :
        (c.cpuLimit > 0 => c.cpu <= c.cpuLimit) /\ (c.memLimit > 0 => c.mem <= c.memLimit)}

PeakDemand ==
    [seen : BOOLEAN, historical : BOOLEAN, cpu : Nat, mem : Nat, used : Nat, afterGC : Nat, nonHeap : Nat]

PodPressure ==
    [throttled : Nat, oomKills : Nat, evictions : Nat, restarts : Nat, lastReason : STRING, looping : BOOLEAN]

\* A headroom is what is asked for in percent of the demand, never less than it.
PolicyBounds ==
    [cpuMin : Nat, cpuMax : Nat, memMin : Nat, memMax : Nat, headroom : {0} \cup {h \in Nat : h >= 100},
     forbidden : BOOLEAN, exclude : BOOLEAN]

ASSUME SizingAssumption ==
    /\ \A c \in Containers : c \in ContainerSpec
    /\ \A d \in Demands : d \in PeakDemand
    /\ \A s \in Pressures : s \in PodPressure
    /\ \A p \in Policies : p \in PolicyBounds

\* toPolicy of no policy at all.
NoPolicy == [cpuMin |-> 0, cpuMax |-> 0, memMin |-> 0, memMax |-> 0, headroom |-> 0,
             forbidden |-> FALSE, exclude |-> FALSE]

SizingInit ==
    /\ box \in Containers
    /\ demand \in Demands
    /\ pressure \in Pressures
    /\ policy \in Policies

-----------------------------------------------------------------------------
\* Bounds.clamp.
clamp(min, max, v) ==
    LET raised == IF min > 0 THEN Larger(v, min) ELSE v
    IN IF max > 0 /\ raised > max THEN max ELSE raised

roundCPU(cores) == CeilDiv(cores, 5) * 5

\* DefaultSettings: the percentage of the demand to ask for, and the memory floor.
Headroom(d) == IF d.historical THEN 120 ELSE 150
MinMemory(d) == IF d.historical THEN 32 * Mi ELSE 64 * Mi

\* The percentage the policy sets, of the memory; the headroom of the CPU is alike.
HeadroomOf(d, p) == IF p.headroom > 0 THEN p.headroom ELSE Headroom(d)

\* javaRuntime: found in the pod, or only by heap metrics, and then without its options.
runsJava(c, d) == Inspect(c) \/ d.used > 0 \/ d.afterGC > 0
Options(c) == IF Inspect(c) THEN Parse(OptionTokens(c)) ELSE NoOptions

\* adviseJVM: the floor of the memory advice, zero where the heap is not known.
memoryFloor(c, d) ==
    LET heap == HeapFor(Options(c), c.memLimit)
    IN IF runsJava(c, d) /\ heap > 0 THEN roundMebibytes(heap + NativeMemory(heap, d.nonHeap)) ELSE 0

cpuRec(d, p) == roundCPU(clamp(p.cpuMin, p.cpuMax, Larger(CeilDiv(d.cpu * HeadroomOf(d, p), 100), 10)))

memRec(c, d, p) ==
    roundMebibytes(clamp(p.memMin, p.memMax,
        Larger(roundMebibytes(Larger(CeilDiv(d.mem * HeadroomOf(d, p), 100), MinMemory(d))), memoryFloor(c, d))))

advise(request, observed, recommended, seen) ==
    IF ~seen THEN [action |-> "unknown", to |-> 0]
    ELSE IF request = 0 THEN [action |-> "set", to |-> recommended]
    ELSE IF observed > request THEN [action |-> "increase", to |-> recommended]
    ELSE IF 100 * recommended <= 80 * request THEN [action |-> "reduce", to |-> recommended]
    ELSE [action |-> "keep", to |-> 0]

\* Mutant: an eviction does not hold a reduction back.
HoldAfterKills(c, d, s) ==
    [cpu |-> s.throttled >= 10,
     mem |-> s.oomKills > 0 \/ (c.memLimit > 0 /\ d.mem * 10 >= c.memLimit * 9)]

\* HoldReductions: the resources the advice must not cut.
HoldReductions(c, d, s) ==
    [cpu |-> s.throttled >= 10,
     mem |-> \/ s.oomKills > 0 \/ s.evictions > 0
             \/ c.memLimit > 0 /\ d.mem * 10 >= c.memLimit * 9]

holdReduction(a, held) == IF held /\ a.action = "reduce" THEN [action |-> "keep", to |-> 0] ELSE a

\* Analyze, for the container: its advice on CPU and memory.  A Java container whose
\* request does not hold its heap gets an increase, measured or not.
Analyze(c, d, s, p) ==
    LET floor == IF memoryFloor(c, d) < memRec(c, d, p) THEN memoryFloor(c, d) ELSE memRec(c, d, p)
        mem == IF floor > c.mem
               THEN [action |-> IF c.mem = 0 THEN "set" ELSE "increase", to |-> memRec(c, d, p)]
               ELSE advise(c.mem, d.mem, memRec(c, d, p), d.seen)
        held == HoldReductions(c, d, s)
    IN [cpu |-> holdReduction(advise(c.cpu, d.cpu, cpuRec(d, p), d.seen), held.cpu),
        mem |-> holdReduction(mem, held.mem)]

\* recommended and setRequest: the request the advice sets, never above the limit.
setRequest(request, limit, a) ==
    IF a.action \notin {"reduce", "increase", "set"} THEN request
    ELSE IF limit > 0 /\ a.to > limit THEN limit ELSE a.to

\* The container with the advice applied (optimize.Apply, its loop over containers).
Applied(c, d, s, p) ==
    LET a == Analyze(c, d, s, p)
    IN [c EXCEPT !.cpu = setRequest(c.cpu, c.cpuLimit, a.cpu),
                 !.mem = setRequest(c.mem, c.memLimit, a.mem)]

\* The container with the plan for its heap followed: request, limit and the option.
Planned(c, d) ==
    LET plan == PlanFor(Options(c), d)
    IN [c EXCEPT !.mem = plan.memory, !.memLimit = plan.memory,
                 !.env["_JAVA_OPTIONS"] = Append(@, plan.option), !.annotation = "java"]

\* A heap plan is proposed for an oversized, tight or unknown heap.
Proposed(c, d) ==
    /\ runsJava(c, d) /\ d.afterGC > 0
    /\ \/ HeapFor(Options(c), c.memLimit) = 0
       \/ Audit(Options(c), c, d) \cap {"heap-tight", "heap-oversized"} # {}

-----------------------------------------------------------------------------
\* Assess, for the container: the codes of its risks.
Assess(c, d, s) ==
    LET near == c.memLimit > 0 /\ d.mem * 10 >= c.memLimit * 9
    IN {code \in {"cpu-throttled"} : s.throttled >= 10 /\ c.cpuLimit > 0}
       \cup {code \in {"oom-killed"} : s.oomKills > 0}
       \cup {code \in {"memory-near-limit"} : s.oomKills = 0 /\ near}
       \cup {code \in {"restarts"} :
                s.looping \/ (s.restarts >= 3 /\ s.lastReason # "OOMKilled")}
       \cup {code \in RiskFindings : runsJava(c, d) /\ code \in Audit(Options(c), c, d)}
       \cup {code \in {"evicted"} : s.evictions > 0}

\* The fix each of them proposes, on requests and limits.
Fixed(c, d, code) ==
    LET grown == roundMebibytes(Larger(CeilDiv(c.memLimit * 3, 2), CeilDiv(d.mem * 13, 10)))
        evictionRequest == roundMebibytes(CeilDiv(d.mem * 12, 10))
    IN CASE code = "cpu-throttled" -> [c EXCEPT !.cpuLimit = 2 * @]
         [] code = "oom-killed" -> [c EXCEPT !.memLimit = grown, !.mem = Larger(@, grown)]
         [] code = "memory-near-limit" -> [c EXCEPT !.memLimit = roundMebibytes(CeilDiv(d.mem * 5, 4))]
         [] code = "evicted" -> [c EXCEPT !.mem = Larger(@, evictionRequest)]
         [] OTHER -> c

-----------------------------------------------------------------------------
\* The metrics report another demand.
Measure == Change /\ demand' \in Demands /\ UNCHANGED <<box, pressure, policy>>

\* The pods are throttled, killed, evicted or restarted, or stop being so.
Strain == Change /\ pressure' \in Pressures /\ UNCHANGED <<box, demand, policy>>

\* Somebody writes a policy, or an older one that comes before it.
WritePolicy == Change /\ policy' \in Policies /\ UNCHANGED <<box, demand, pressure>>

\* applyRightsizing: the advice is made anew, and refused where the policy forbids it.
ApplyAdvice ==
    /\ Change
    /\ ~policy.exclude /\ ~policy.forbidden
    /\ box' = Applied(box, demand, pressure, policy)
    /\ box' # box
    /\ UNCHANGED <<demand, pressure, policy>>

\* Somebody sets the heap the advice proposes, with the container's memory.
FollowPlan ==
    /\ Change
    /\ Proposed(box, demand) /\ box.mem # Planned(box, demand).mem
    /\ box' = Planned(box, demand)
    /\ UNCHANGED <<demand, pressure, policy>>

\* Somebody applies the fix of a risk, where the API server takes it.
FollowFix ==
    /\ Change
    /\ \E code \in Assess(box, demand, pressure) :
           /\ box' = Fixed(box, demand, code) /\ box' # box
           /\ box'.memLimit > 0 => box'.mem <= box'.memLimit
    /\ UNCHANGED <<demand, pressure, policy>>

SizingNext == Measure \/ Strain \/ WritePolicy \/ ApplyAdvice \/ FollowPlan \/ FollowFix

-----------------------------------------------------------------------------
\* Advice that is followed says nothing more: applying it twice changes nothing the
\* second time (Analyze, setRequest), a container that follows its heap plan has no
\* finding about its heap left (PlanFor, Audit), and the fix of an OOM kill or of a
\* full container leaves its peak well below the limit (Assess), once there is a limit
\* or a peak to raise it from.  The plan counts on the container's limit: -XX:MaxRAM,
\* -XX:-UseContainerSupport and a MinRAMPercentage below the default take it away from
\* there, and PlanFor does not read them; nor does it see options of a container that
\* only heap metrics show to run Java.  A heap of less than two percent of the memory
\* is rounded down to half of it, or to none.
Settles ==
    /\ LET once == Applied(box, demand, pressure, policy)
       IN Applied(once, demand, pressure, policy) = once
    /\ LET o == Options(box)
           after == Planned(box, demand)
       IN /\ Proposed(box, demand) /\ o = Parse(OptionTokens(box))
          /\ o["ram"] = 0 /\ o["support"] # 1 /\ o["minShare"] \in {0} \cup 50..100
          /\ PlanFor(o, demand).option.value > 1
          => Audit(Options(after), after, demand)
                 \cap (RiskFindings \cup {"heap-oversized", "default-heap"}) = {}
    /\ \A code \in Assess(box, demand, pressure) \cap {"oom-killed", "memory-near-limit"} :
           LET after == Fixed(box, demand, code)
           IN box.memLimit + demand.mem > 0 => after.memLimit * 9 > demand.mem * 10

\* Applying advice never cuts the memory of a container that was OOM-killed, evicted or
\* fills its limit, nor the CPU of a throttled one (holdUnderPressure), unless a policy's
\* maximum, rounded up, is below the request: the advice to "increase" to that maximum is
\* not held.
NeverCutUnderPressure ==
    ApplyAdvice =>
        /\ box'.mem < box.mem => \/ pressure.oomKills = 0 /\ pressure.evictions = 0
                                    /\ (box.memLimit > 0 => demand.mem * 10 < box.memLimit * 9)
                                 \/ policy.memMax > 0 /\ box'.mem <= roundMebibytes(policy.memMax)
        /\ box'.cpu < box.cpu => \/ pressure.throttled < 10
                                 \/ policy.cpuMax > 0 /\ box'.cpu <= roundCPU(policy.cpuMax)

\* Advice leads somewhere and harms nothing: wherever it is followed from, it settles,
\* and it takes nothing from a container that is short of it.
AdviceIsSound == [][Settles /\ NeverCutUnderPressure]_sizingVars
=============================================================================
