---------------------------- MODULE MCCloudSync ----------------------------
(* A small instance of backups and cloud sync for TLC.                      *)
EXTENDS CloudSync, TLC

CONSTANTS p1, c1, c2, r1, i1, s1, s2, x1, k1, k2

Sym == Permutations({c1, c2})
=============================================================================
