----------------------------- MODULE MCNormalize -----------------------------
(***************************************************************************)
(* A short text through every kind of pass, in the code's order;           *)
(* the two decodings of normalize.go count as one.  Decoding makes one     *)
(* byte of two; folding does that and the reverse, so that runs shrink,    *)
(* grow, and do both.                                                      *)
(***************************************************************************)
EXTENDS NormalizeProps

MCPasses == <<"extract", "decode", "strip", "expand", "fold">>
MCDecodes == {<<2, 1>>}
MCFolds == {<<2, 1>>, <<1, 2>>}

=============================================================================
