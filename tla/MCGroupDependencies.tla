------------------------- MODULE MCGroupDependencies -------------------------
(* Small dependency graphs for GroupDependencies.                           *)
EXTENDS GroupDependencies

Plain(deps) == [dependsOn |-> deps, onDemand |-> FALSE, dryRun |-> FALSE]
OnDemand(deps) == [dependsOn |-> deps, onDemand |-> TRUE, dryRun |-> FALSE]
Dry(deps) == [dependsOn |-> deps, onDemand |-> FALSE, dryRun |-> TRUE]

\* Two groups in a row above an on-demand platform; a group and a dry run above a
\* third; a cycle of two, one of which also names a missing group and a dry run
\* that depends on the other; and, as dry runs, a circle of three and a group that
\* depends on itself and on a cycle of two.
Shapes ==
    {<<OnDemand(<<>>), Plain(<<1>>), Plain(<<2>>)>>,
     <<Plain(<<>>), Dry(<<1>>), Plain(<<1, 2>>)>>,
     <<Plain(<<2>>), Plain(<<1, 3, 0>>), Dry(<<1>>)>>,
     <<Dry(<<2>>), Dry(<<3>>), Dry(<<1>>)>>, <<Dry(<<2, 1>>), Dry(<<3>>), Dry(<<2>>)>>}

\* A cycle of two and one of three through the same groups.
Knots == {<<Plain(<<2, 3>>), Plain(<<1>>), Plain(<<2>>)>>}

\* The first group is overridden, or has an exception; the others have hours.
MixedWishes == <<{"down", "exceptionUp", "manualDown"}, {"up", "down"}, {"up", "down"}>>
PlainWishes == [g \in Groups |-> {"up", "down"}]

=============================================================================
