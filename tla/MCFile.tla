------------------------------- MODULE MCFile -------------------------------
(* Module File on small volumes.                                           *)
EXTENDS File, TLC

AllFaults == FaultPlaces
Swap == Permutations(Files)

(* Bound: nothing is done after a removal has left an entry that still     *)
(* names clusters it has freed.                                            *)
BeforeUnlink == failed # "unlink"

(* The bytes decide nothing: neither where a step goes nor a property that *)
(* is about chains.  States that differ only in them are one.              *)
Control == <<bitmap, next_search_cluster, fat, dir, handle, [op EXCEPT !.got = {}], failed>>
=============================================================================
