---------------------------- MODULE MCGroupStages ----------------------------
EXTENDS GroupStages

S(seq, ext, skip, pause, rules) ==
    [seq |-> seq, ext |-> ext, skip |-> skip, pause |-> pause, rules |-> rules]

\* A cloud database before the namespace that uses it, with skipOnTimeout; a namespace with
\* hibernated services and no cloud target; services in both and a cloud target after them.
Skipping == S(<<{"c"}, {"a"}>>, {"c"}, TRUE, TRUE, {"b"})
Plain == S(<<{"a"}>>, {"c"}, FALSE, TRUE, {"a"})
CloudLast == S(<<{"a"}, {"d", "b"}>>, {"d"}, FALSE, TRUE, {"a", "b"})
SomeSpecs == {Skipping, Plain, CloudLast}

Plan(f, c, spec0, kind, reach) ==
    [faults |-> f, changes |-> c, spec |-> spec0, kind |-> kind, reach |-> reach]

\* What manages the workloads: an Application, a Kustomization, an Application that an
\* ApplicationSet writes, and one that reaches beyond the group.
SomePlans ==
    {Plan(1, 1, Skipping, "argo", {"a"}), Plan(0, 1, Skipping, "flux", {"a"}),
     Plan(0, 1, Plain, "set", {"b"}), Plan(0, 2, Plain, "argo", {"a"}),
     Plan(1, 1, CloudLast, "flux", {"b"}), Plan(0, 1, CloudLast, "argo", {"a", "elsewhere"})}

SomeTypes == [c \in {"c", "d"} |-> IF c = "c" THEN "ec2" ELSE "cloudsql"]
=============================================================================
