----------------------------- MODULE MCDiskTier -----------------------------
(* Two conversations that share their first extent and then part. *)
EXTENDS DiskTier, TLC

CONSTANTS c1, c2, a, b, x

MCConv == {c1, c2}
MCExtent == {a, b, x}
MCStream == (c1 :> <<a, b>>) @@ (c2 :> <<a, x>>)
=============================================================================
