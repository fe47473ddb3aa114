------------------------------- MODULE MCRegion -------------------------------
(* Two nodes of one largest bag each, in a mapping at any offset from an     *)
(* aligned address.                                                          *)
EXTENDS Region

MCMapBases == 5 .. 8
MCBagSizes == {1, 2, 4}
=============================================================================
