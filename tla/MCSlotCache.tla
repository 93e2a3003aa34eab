---------------------------- MODULE MCSlotCache -----------------------------
(* TLC instances of SlotCache: two slots, three sectors, two block values. *)
EXTENDS SlotCache, TLC

MCSectors == 1 .. 3

(* The faults after which the cache still agrees with the device.          *)
ContainedFaults == {"read", "write_back", "flush"}
=============================================================================
