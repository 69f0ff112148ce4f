----------------------------- MODULE MCUdpSocks -----------------------------
(***************************************************************************)
(* Two threads of a process and two destinations, which may be renamed.    *)
(***************************************************************************)
EXTENDS UdpSocks, TLC

CONSTANTS t1, t2, d1, d2

MCThread == {t1, t2}
MCDest   == {d1, d2}
Alike    == Permutations(MCThread) \cup Permutations(MCDest)
=============================================================================
