----------------------------- MODULE MCNumaAlloc -----------------------------
(* The layout arithmetic with all sizes divided by four and more: classes of  *)
(* 2 to 16 bytes, pages of 8, a 4-byte header, 7-bit addresses.               *)
EXTENDS NumaAlloc

MCMapBases == {8, 64, 72}
MCAligns == {1, 2, 4, 8, 16, 32}
=============================================================================
