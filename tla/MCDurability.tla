---------------------------- MODULE MCDurability ----------------------------
(* Durability with two places for entry sets, in two directory sectors. *)
EXTENDS Durability

MCDirSectorOf == [n \in Names |-> IF n = "a" THEN 1 ELSE 2]

=============================================================================
