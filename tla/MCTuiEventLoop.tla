--------------------------- MODULE MCTuiEventLoop ---------------------------
(* Instances of TuiEventLoop for TLC. *)
EXTENDS TuiEventLoop, TLC

CONSTANTS s1, s2, s3, s4

FourSubs == {s1, s2, s3, s4}
Subs == Permutations(FourSubs)
=============================================================================
