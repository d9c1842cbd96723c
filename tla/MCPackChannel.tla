--------------------------- MODULE MCPackChannel ---------------------------
(* Two packs with one content, two processes.                               *)
EXTENDS PackChannel, TLC

CONSTANTS x, y, c, p, q

MCPack == {x, y}
MCContent == {c}
MCContentOf == (x :> c) @@ (y :> c)
MCProc == {p, q}
Symmetric == Permutations(MCProc) \cup Permutations(MCPack)
=============================================================================
