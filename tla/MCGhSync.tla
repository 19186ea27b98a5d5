------------------------------ MODULE MCGhSync ------------------------------
(***************************************************************************)
(* Instances of GhSync for TLC.  Commits e1 and e2 of r1 share a second    *)
(* (the cursor's boundary case), e3 comes after them; f1 is r2's.          *)
(***************************************************************************)
EXTENDS GhSync, TLC

CONSTANTS server, mcp, ticker, http, tool, r1, r2, e1, e2, e3, f1

MCProcOf == (ticker :> server) @@ (http :> server) @@ (tool :> mcp)

\* e1 and e2 are alike.
Symmetry == Permutations({e1, e2})

OneProc == [c \in Callers |-> MCProcOf[c]]
MCRepoOf == [e \in Events |-> IF e = f1 THEN r2 ELSE r1]
MCTS == [e \in Events |-> IF e \in {e1, e2} THEN 1 ELSE 2]

=============================================================================
