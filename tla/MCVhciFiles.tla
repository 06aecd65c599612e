----------------------------- MODULE MCVhciFiles -----------------------------
(* TLC instance of VhciFiles: three files competing for two device ids.    *)
EXTENDS VhciFiles, TLC

CONSTANTS f1, f2, f3

FileSymmetry == Permutations({f1, f2, f3})
=============================================================================
