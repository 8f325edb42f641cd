--------------------------- MODULE MCDisclosure ---------------------------
(* Instances of Disclosure for TLC: start cells are tuples, which a .cfg    *)
(* cannot write.                                                            *)
EXTENDS Disclosure

Corner == <<0, 0>>
FarCorner == <<1, 2>>
===========================================================================
