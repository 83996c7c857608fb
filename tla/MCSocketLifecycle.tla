------------------------- MODULE MCSocketLifecycle --------------------------
(* Four starts of the service on one path.                                   *)
EXTENDS SocketLifecycle, TLC

CONSTANTS s1, s2, s3, s4

MCServices == {s1, s2, s3, s4}
MCSymetrie == Permutations(MCServices)
=============================================================================
