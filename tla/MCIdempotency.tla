--------------------------- MODULE MCIdempotency ---------------------------
(***************************************************************************)
(* Small instances of Idempotency for TLC.  Two pairs share one advisory   *)
(* lock number, as two 64-bit digests may.                                 *)
(***************************************************************************)
EXTENDS Idempotency, TLC

CONSTANTS a1, a2, a3, k1, k2, f1, f2, l1

OneLock == [k \in Keys |-> l1]

AttemptSymmetry == Permutations(Attempts)
=============================================================================
