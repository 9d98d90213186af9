----------------------------- MODULE MCUploads -----------------------------
(***************************************************************************)
(* A small instance of Uploads for TLC.                                    *)
(***************************************************************************)
EXTENDS Uploads, TLC

CONSTANTS i1, c1, c2, s1

\* An honest body, another one that fits the claim and is not clean, and one
\* that is too long.
MCBodies == {[size |-> 1, type |-> "png", clean |-> TRUE],
             [size |-> 2, type |-> "png", clean |-> FALSE],
             [size |-> 4, type |-> "png", clean |-> TRUE]}

MCClaims == {[size |-> 2, type |-> "png"]}

CallSymmetry == Permutations(Calls)
=============================================================================
