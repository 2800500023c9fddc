---------------------------- MODULE MCBlobStores ----------------------------
(***************************************************************************)
(* Two callers, each reading or writing, on one name with two versions.    *)
(* The lists are bounded: a version can be repeated only by a fault or by  *)
(* two creates at once.                                                    *)
(***************************************************************************)
EXTENDS BlobStores, TLC

CONSTANTS v1, v2, p1, p2

Interchangeable == Permutations({v1, v2}) \union Permutations({p1, p2})
=============================================================================
