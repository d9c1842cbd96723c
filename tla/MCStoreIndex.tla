---------------------------- MODULE MCStoreIndex ----------------------------
(* Two conversations, over streams that branch at their first step or at     *)
(* their second.                                                             *)
EXTENDS StoreIndex, TLC

CONSTANTS name1, name2

MCName == {name1, name2}
Symmetric == Permutations(MCName)
MCStream == {<<1>>, <<2>>, <<1, 1>>, <<1, 2>>}
=============================================================================
