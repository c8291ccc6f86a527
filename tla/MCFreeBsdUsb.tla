---------------------------- MODULE MCFreeBsdUsb ----------------------------
(* Model-checking instance of FreeBsdUsb with the bounds of MCLinuxUsb.   *)
EXTENDS FreeBsdUsb

MCMsg == <<"m1", "m2">>
MCLens == {1, 2}
MCTimeouts == {0, 1000}
=============================================================================
