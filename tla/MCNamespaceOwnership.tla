------------------------- MODULE MCNamespaceOwnership -------------------------
(***************************************************************************)
(* Instances of NamespaceOwnership: two groups and the namespaces a and b, *)
(* of which b may have a config.                                           *)
(***************************************************************************)
EXTENDS NamespaceOwnership

CONSTANTS a, b

group(listed, selector, dryRun, page) ==
    [listed |-> listed, selector |-> selector, dryRun |-> dryRun, page |-> page]

\* A group that lists both namespaces, and one that selects and has a sleep page.
SpecsMixed == {group({a, b}, FALSE, FALSE, FALSE), group({}, TRUE, FALSE, TRUE)}
\* Groups that list one namespace or both.
SpecsByName == {group({a}, FALSE, FALSE, FALSE), group({a, b}, FALSE, FALSE, FALSE)}
ConfigWithPage == {[dryRun |-> FALSE, page |-> TRUE]}

=============================================================================
