---------------------------- MODULE MCPolicyStore ----------------------------
(* PolicyStore on small instances. *)
EXTENDS PolicyStore, TLC

Symmetry == Permutations(Requests) \union Permutations(Rules \ Csv)

\* The model of an enforcer that nothing refers to is garbage.
WithoutGarbage ==
    <<store, enforcer, [e \in Referenced \ {null} |-> model[e]], req, sync, granted, conflict>>

\* After a conflict the properties say nothing but the types.
NoConflict == ~conflict
=============================================================================
