------------------------------ MODULE MCAccess ------------------------------
(***************************************************************************)
(* A small instance of Access: one user, somebody else's user id in paths. *)
(***************************************************************************)
EXTENDS Access, TLC

CONSTANTS u1, other, rt1, r1, r2

OwnerOf == rt1 :> u1

RequestSymmetry == Permutations(Requests)
============================================================================
