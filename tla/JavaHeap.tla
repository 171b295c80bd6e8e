------------------------------- MODULE JavaHeap -------------------------------
(***************************************************************************)
(* internal/jvm: which containers run Java, the heap the JVM picks, what   *)
(* is wrong with it and the heap it should have.  Memory is counted in     *)
(* hundredths of a mebibyte, so that every share of it is exact; zero is   *)
(* a flag, a limit or a measurement that is not there.                     *)
(***************************************************************************)
EXTENDS Integers, Sequences, FiniteSets, FiniteSetsExt

Mi == 100
BuiltInMaxHeapSize == 12480      \* 96Mi * 13 / 10
Larger(a, b) == IF a > b THEN a ELSE b

CeilDiv(n, d) == (n + d - 1) \div d
roundMebibytes(size) == CeilDiv(size, Mi) * Mi

-----------------------------------------------------------------------------
\* The flags that size the heap or pick the collector; two of them have no size:
\* "support" is 1 for -XX:-UseContainerSupport and 2 for +, "gc" is 1 for any collector.
Flags == {"heap", "ram", "maxShare", "minShare", "support", "processors", "gc"}
Token == [flag : Flags, value : Nat]

\* OptionTokens: in the order the JVM reads them.  JAVA_OPTS is for start scripts:
\* it counts only where no java command is visible.
OptionTokens(c) ==
    c.env["JAVA_TOOL_OPTIONS"] \o c.env["JDK_JAVA_OPTIONS"]
        \o (IF c.command = "java" THEN <<>> ELSE c.env["JAVA_OPTS"])
        \o c.args \o c.env["_JAVA_OPTIONS"]

\* Parse: the last value of a flag wins, a malformed one (0) is ignored.
Parse(tokens) ==
    [flag \in Flags |->
        LET set == {i \in DOMAIN tokens : tokens[i].flag = flag /\ tokens[i].value > 0}
        IN IF set = {} THEN 0 ELSE tokens[Max(set)].value]

NoOptions == Parse(<<>>)

\* Inspect: the annotation decides, or else the command, an option variable or the image.
Inspect(c) ==
    /\ c.annotation # "none"
    /\ \/ c.annotation = "java" \/ c.command = "java" \/ c.javaImage
       \/ \E name \in DOMAIN c.env : c.env[name] # <<>>

-----------------------------------------------------------------------------
\* HeapFor: -Xmx wins, -XX:MaxRAM replaces the limit, a small amount of memory gets
\* the larger share, otherwise the smaller share but never below the built-in heap.
HeapFor(o, limit) ==
    LET physical == IF o["ram"] > 0 THEN o["ram"] ELSE IF o["support"] = 1 THEN 0 ELSE limit
        maxShare == IF o["maxShare"] > 0 THEN o["maxShare"] ELSE 25
        minShare == IF o["minShare"] > 0 THEN o["minShare"] ELSE 50
    IN IF o["heap"] > 0 THEN o["heap"]
       ELSE IF physical = 0 THEN 0
       ELSE IF physical * minShare < BuiltInMaxHeapSize * 100 THEN (physical * minShare) \div 100
       ELSE Larger((physical * maxShare) \div 100, BuiltInMaxHeapSize)

\* NativeMemory: what a JVM needs beside its heap.
NativeMemory(heap, nonHeap) ==
    IF nonHeap > 0 THEN CeilDiv(nonHeap * 120, 100) + 64 * Mi
    ELSE Larger(CeilDiv(heap, 4), 128 * Mi)

\* PlanFor, of a container whose heap after garbage collection was measured: twice the
\* live data, and the option that gives that heap under the new limit.
PlanFor(o, u) ==
    LET heap == roundMebibytes(Larger(u.afterGC * 2, 128 * Mi))
        memory == roundMebibytes(heap + NativeMemory(heap, u.nonHeap))
    IN [heap |-> heap, memory |-> memory,
        option |-> IF o["heap"] > 0 THEN [flag |-> "heap", value |-> heap]
                   ELSE [flag |-> "maxShare", value |-> (heap * 100) \div memory]]

\* serialCollector: a machine the JVM does not take for a server.
serialCollector(o, c) ==
    LET processors == IF o["processors"] > 0 THEN o["processors"] ELSE CeilDiv(c.cpuLimit, 1000)
    IN processors = 1 \/ (c.memLimit > 0 /\ c.memLimit < 1792 * Mi)

\* Audit: the codes of the findings.  Of the problems with the limit only the first counts.
Audit(o, c, u) ==
    LET heap == HeapFor(o, c.memLimit)
        known == heap > 0
        native == NativeMemory(heap, u.nonHeap)
        limitProblem ==
            IF o["support"] = 1 /\ o["heap"] = 0 /\ o["ram"] = 0 THEN "container-support-off"
            ELSE IF ~known THEN "no-memory-limit"
            ELSE IF c.memLimit > 0 /\ heap >= c.memLimit THEN "heap-over-limit"
            ELSE IF c.memLimit > 0 /\ c.memLimit - heap < native THEN "no-room-for-native"
            ELSE "none"
        planned == known /\ u.afterGC > 0
        tight == planned /\ u.afterGC * 10 > heap * 8
    IN {code \in {"container-support-off", "no-memory-limit", "heap-over-limit", "no-room-for-native"} :
            code = limitProblem}
       \cup {code \in {"default-heap"} :
                /\ known /\ o["heap"] = 0 /\ o["maxShare"] = 0 /\ o["ram"] = 0
                /\ c.memLimit > BuiltInMaxHeapSize * 4}
       \cup {code \in {"request-below-heap"} : known /\ c.mem > 0 /\ c.mem < heap + native}
       \cup {code \in {"heap-tight"} : tight}
       \cup {code \in {"heap-oversized"} :
                planned /\ ~tight /\ PlanFor(o, u).heap * 10 <= heap * 8}
       \cup {code \in {"heap-differs"} : known /\ u.used * 100 > heap * 105}
       \cup {code \in {"serial-gc"} : o["gc"] = 0 /\ serialCollector(o, c)}

RiskFindings == {"container-support-off", "no-memory-limit", "heap-over-limit", "no-room-for-native",
                 "request-below-heap", "heap-tight"}
=============================================================================
