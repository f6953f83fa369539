----------------------- MODULE MCScittHeaderSupplier -----------------------
(* Two calls of current_headers, one of refresh_now and the loop. *)
EXTENDS ScittHeaderSupplier, TLC

CONSTANTS c1, c2, m, loop

MCCallers == {c1, c2}
MCManual  == {m}
Calls     == Permutations(MCCallers)
=============================================================================
