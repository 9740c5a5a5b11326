----------------------------- MODULE MCWindowed -----------------------------
(* Instance of WindowedHistogram: three histograms of two positions, rotated *)
(* far enough that every one of them is reused.                              *)
EXTENDS WindowedHistogram
=============================================================================
