--------------------------- MODULE MCHiddenGame ---------------------------
(* Instances of HiddenGame for TLC: start cells are tuples, which a .cfg    *)
(* cannot write.                                                            *)
EXTENDS HiddenGame

Centre == <<1, 1>>
Corner == <<0, 0>>
BesideCorner == <<0, 1>>
FarCorner == <<2, 2>>
===========================================================================
