---------------------------- MODULE MCMessaging ----------------------------
(* Instances of Messaging for TLC. *)
EXTENDS Messaging, TLC

JobSymmetry == Permutations(Jobs)
Both == {"owner", "renter"}
Renter == {"renter"}
Owner == {"owner"}
Nobody == {}
=============================================================================
