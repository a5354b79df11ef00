---------------------------- MODULE MCLibImport ----------------------------
(* The procedure library a imports the shared object d. *)
EXTENDS LibImport, TLC

CONSTANTS a, d

MCDeps == (a :> {d}) @@ (d :> {})
MCRank == (a :> 1) @@ (d :> 0)

\* The shared object alone.
MCDeps1 == d :> {}
MCRank1 == d :> 0

=============================================================================
