----------------------------- MODULE MCRatings -----------------------------
(***************************************************************************)
(* Small instances of Ratings: a rating of two years and more before the   *)
(* newest, one exactly two years before it, and the newest.                *)
(***************************************************************************)
EXTENDS Ratings, TLC

CONSTANTS old, mid, new, r1, r2, r3

WhenOf == [i \in Rows |-> CASE i = old -> 0 [] i = mid -> 70 [] OTHER -> 800]

\* Requests are made once each and differ in nothing but their name.
RequestSymmetry == Permutations(Requests)
============================================================================
