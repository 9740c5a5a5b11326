----------------------------- MODULE MCGeometry -----------------------------
(* Instance of GeometryWalk: nine value bits, -1 to 2 significant digits,   *)
(* lowest values around powers of two (0 and -3 are clamped to 1), highest   *)
(* values at, below and above bucket boundaries and at MaxInt64; 127 has a   *)
(* logarithm that rounds up.                                                 *)
EXTENDS GeometryWalk

MCLows  == {-3, 0, 1, 2, 3, 7, 8, 127, 128}
MCHighs == {-1, 1, 2, 31, 32, 63, 64, 255, 256, 511}
MCSigs  == {-1, 0, 1, 2}
=============================================================================
