------------------------------ MODULE FreeRuns ------------------------------
(***************************************************************************)
(* Runs of free clusters, as sets: what a search of the allocation bitmap  *)
(* returns, without how it gets there.  The scan of module Allocator is    *)
(* checked against these definitions; module File allocates with them.     *)
(***************************************************************************)
EXTENDS Integers

FIRST_CLUSTER_ID == 2

Run(first, n) == [first_cluster |-> first, cluster_count |-> n]
NoRun == Run(0, 0)
ClustersOf(r) == r.first_cluster .. r.first_cluster + r.cluster_count - 1

(* The free clusters of from .. end - 1, and where their runs start.       *)
FreeFrom(used, from, end) == {c \in from .. end - 1 : c \notin used}
Starts(free) == {c \in free : c - 1 \notin free}
RunLength(free, c, end) ==
  CHOOSE n \in 0 .. end : c .. c + n - 1 \subseteq free /\ c + n \notin free
Lowest(S) == CHOOSE c \in S : \A d \in S : c <= d

(* FirstRun: the first free run.  LongestRun: the first run of at least    *)
(* num clusters, or else the first of the longest.  No more than num       *)
(* clusters of it; num = 0 asks for the whole run.                         *)
FreeRun(used, from, end, num, policy) ==
  LET free == FreeFrom(used, from, end)
      len == [c \in Starts(free) |-> RunLength(free, c, end)]
      enough == {c \in DOMAIN len : num >= 1 /\ len[c] >= num}
      most == {c \in DOMAIN len : \A d \in DOMAIN len : len[d] <= len[c]}
      c == CASE policy = "FirstRun" -> Lowest(DOMAIN len)
             [] policy = "LongestRun" -> Lowest(IF enough # {} THEN enough ELSE most)
  IN  IF free = {} THEN NoRun
      ELSE Run(c, IF c \in enough THEN num ELSE len[c])

(* With the wrap: from the first cluster on if nothing is free after from. *)
FindFreeClusters(used, from, end, num, policy) ==
  IF FreeFrom(used, from, end) # {} THEN FreeRun(used, from, end, num, policy)
  ELSE FreeRun(used, FIRST_CLUSTER_ID, end, num, policy)
=============================================================================
