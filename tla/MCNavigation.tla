---------------------------- MODULE MCNavigation ----------------------------
(* Navigation for TLC: nothing tells one namespace from another. *)
EXTENDS Navigation

NamespacesAlike == Permutations(Namespaces)
=============================================================================
