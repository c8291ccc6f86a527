----------------------------- MODULE MCLinuxUsb -----------------------------
(* Model-checking instance of LinuxUsb: three bytes from the handheld,    *)
(* reads of one or two bytes with the peek cap at one (so the cap binds), *)
(* a two-byte write (so partial writes happen), timeouts 0 and 1000 ms.   *)
EXTENDS LinuxUsb

MCMsg == <<"m1", "m2">>
MCLens == {1, 2}
MCTimeouts == {0, 1000}
=============================================================================
