---------------------------- MODULE MCAllocator -----------------------------
(* TLC instances of Allocator.                                             *)
EXTENDS Allocator, TLC
=============================================================================
