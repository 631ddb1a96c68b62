------------------------------ MODULE Processes ------------------------------
(***************************************************************************)
(* What the components share: each request, job or sync that may be under  *)
(* way is a record whose pc says where it is, and is idle in between.      *)
(***************************************************************************)

CONSTANT None  \* no value: no row, no user, no lock

Idle == [pc |-> "idle"]
=============================================================================
