---------------------------- MODULE MCCacheSync ----------------------------
(***************************************************************************)
(* Instances of CacheSync for TLC.                                         *)
(***************************************************************************)
EXTENDS CacheSync

CONSTANTS w, r1, k1, p1, p2

OneOfEach   == {w, r1}
OneWriter   == {w}
OneKey      == {k1, p1, p2}
OnlyKey     == {k1}
TwoPinned   == {p1, p2}

NoFaults      == {}
BenignFaults  == {"load_error", "reader_crash"}
AllFaults     == FaultKinds
LateLog       == {"late_log"}
=============================================================================
