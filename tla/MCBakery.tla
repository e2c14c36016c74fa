----------------------------- MODULE MCBakery -----------------------------
(* Instances of Bakery for TLC. *)
EXTENDS Bakery

\* The 15 bits of lock_data
FifteenBits == 32768
=============================================================================
