----------------------------- MODULE Allocator ------------------------------
(***************************************************************************)
(* The cluster allocator of allocation.rs: the search of the allocation    *)
(* bitmap for a free run, word by word and bit by bit, the wrap to the     *)
(* start of the heap, and the marking of a run sector by sector.           *)
(*                                                                         *)
(* Its methods take &mut self: one call at a time.  A call is cut where it *)
(* awaits a bitmap sector, which may fail to be read.  The callers are     *)
(* allocate (new and growing files, new directories), copy_to, which       *)
(* searches first and marks later, and free.                               *)
(***************************************************************************)
EXTENDS Integers, FreeRuns

CONSTANTS ClusterCount,       \* clusters in the heap, from the boot sector
          NumSectors,         \* sectors of the bitmap
          ClustersPerSector,  \* bits in a sector of the bitmap
          WordBits,           \* bits the search skips at once (u32::BITS)
          MaxRequest,         \* bound on the clusters asked for in one call
          ReadFaults,         \* may a bitmap sector fail to be read?
          CopyMakesDirs       \* may copy_to have to create directories?

ASSUME AllocatorAssumption ==
  /\ ClusterCount \in Nat \ {0} /\ NumSectors \in Nat \ {0}
  /\ ClustersPerSector \in Nat \ {0} /\ WordBits \in Nat \ {0}
  /\ ClustersPerSector % WordBits = 0
  /\ MaxRequest \in Nat \ {0}
  /\ ReadFaults \in BOOLEAN /\ CopyMakesDirs \in BOOLEAN

VARIABLES bitmap,               \* the clusters whose bit is set
          next_search_cluster,
          pc, call, ret,        \* the current call, where it is, its result
          cluster_id, first_cluster, count, longest,  \* the search's locals
          run,                  \* the run found, or to be marked
          todo,                 \* BitmapRunChunks: what is left of run to mark
          entry,                \* ghost: bitmap when the call started
          reserved              \* the run copy_to has found and not yet marked

search == <<cluster_id, first_cluster, count, longest>>
vars == <<bitmap, next_search_cluster, pc, call, ret, search, run, todo, entry, reserved>>

end_cluster == FIRST_CLUSTER_ID + ClusterCount
Heap == FIRST_CLUSTER_ID .. end_cluster - 1
EndOfBits == FIRST_CLUSTER_ID + NumSectors * ClustersPerSector
Bits == FIRST_CLUSTER_ID .. EndOfBits - 1    \* the heap and the padding

NoCall == [kind |-> "none", asked_from |-> 0, from_cluster |-> 0, num_clusters |-> 0,
           policy |-> "FirstRun"]

(* BitmapPos                                                               *)
sector_of(c) == (c - FIRST_CLUSTER_ID) \div ClustersPerSector
bit_of(c) == (c - FIRST_CLUSTER_ID) % ClustersPerSector
first_cluster_of(sector) == sector * ClustersPerSector + FIRST_CLUSTER_ID

Done(r) == pc' = "done" /\ ret' = r

-----------------------------------------------------------------------------
(* Entering find_free_clusters_from.                                       *)
find_free_clusters_from(from) ==
  /\ first_cluster' = 0 /\ count' = 0 /\ longest' = NoRun
  /\ IF from >= end_cluster \/ sector_of(from) >= NumSectors
     THEN pc' = "full" /\ cluster_id' = from
     ELSE pc' = "scan" /\ cluster_id' = first_cluster_of(sector_of(from))

find_free_clusters(kind, from, num, policy) ==
  /\ pc = "idle"
  /\ call' = [kind |-> kind, asked_from |-> from, from_cluster |-> from,
              num_clusters |-> num, policy |-> policy]
  /\ entry' = bitmap
  /\ find_free_clusters_from(from)
  /\ UNCHANGED <<bitmap, next_search_cluster, ret, run, todo, reserved>>

(* StoredChain::Empty, and a new directory.                                *)
allocate_first(num) ==
  /\ reserved = NoRun \/ (CopyMakesDirs /\ num = 1)
  /\ find_free_clusters("allocate", next_search_cluster, num, "LongestRun")

(* StoredChain::Contiguous and Fat: from the cluster after the last one.   *)
allocate_after(last, num) ==
  /\ reserved = NoRun
  /\ find_free_clusters("allocate", last + 1, num, "FirstRun")

(* copy_to: a file of num clusters, none of them for an empty file.        *)
copy_find(num) ==
  /\ reserved = NoRun
  /\ find_free_clusters("copy", next_search_cluster, num, "LongestRun")

(* Mutant of mark_allocated: the end of the heap is not checked.           *)
mark_allocated_unchecked(r) ==
  IF r.cluster_count = 0 THEN Done("ok") /\ todo' = r
  ELSE IF r.first_cluster < FIRST_CLUSTER_ID THEN Done("InvalidClusterId") /\ todo' = NoRun
  ELSE pc' = "mark" /\ todo' = r /\ UNCHANGED ret

(* mark_allocated, up to the loop over the chunks.                         *)
mark_allocated(r) ==
  LET last_cluster == r.first_cluster + r.cluster_count - 1
  IN  IF r.cluster_count = 0 THEN Done("ok") /\ todo' = r
      ELSE IF \/ r.first_cluster < FIRST_CLUSTER_ID
              \/ last_cluster >= end_cluster
              \/ sector_of(last_cluster) >= NumSectors
      THEN Done("InvalidClusterId") /\ todo' = NoRun
      ELSE pc' = "mark" /\ todo' = r /\ UNCHANGED ret

(* The search ends with a run: allocate goes on to mark it; copy_to keeps  *)
(* it for later if it is as long as the file.                              *)
Found(r) ==
  /\ run' = r
  /\ next_search_cluster' = r.first_cluster + r.cluster_count
  /\ IF call.kind = "allocate" THEN mark_allocated(r)
     ELSE /\ Done(IF r.cluster_count = call.num_clusters THEN "ok" ELSE "DiskFull")
          /\ UNCHANGED todo
  /\ UNCHANGED <<bitmap, call, search, entry, reserved>>

(* Mutant of close_run: of two runs of one length the later one is kept.   *)
close_run_later ==
  /\ longest' = IF first_cluster # 0 /\ longest.cluster_count <= count
                THEN Run(first_cluster, count) ELSE longest
  /\ first_cluster' = 0 /\ count' = 0


(* close_run, when the search does not stop.                               *)
close_run ==
  /\ longest' = IF first_cluster # 0 /\ longest.cluster_count < count
                THEN Run(first_cluster, count) ELSE longest
  /\ first_cluster' = 0 /\ count' = 0

(* A set bit, or a word of them: the run in progress ends before it.       *)
EndRunAt(next) ==
  IF call.policy = "FirstRun" /\ first_cluster # 0
  THEN Found(Run(first_cluster, count))
  ELSE /\ close_run /\ cluster_id' = next
       /\ UNCHANGED <<bitmap, next_search_cluster, pc, call, ret, run, todo, entry, reserved>>

FullWord == /\ bit_of(cluster_id) % WordBits = 0
            /\ cluster_id .. cluster_id + WordBits - 1 \subseteq bitmap

Scanning == pc = "scan" /\ cluster_id < EndOfBits

scan_full_word == Scanning /\ FullWord /\ EndRunAt(cluster_id + WordBits)

scan_skip ==
  /\ Scanning /\ ~FullWord /\ cluster_id < call.from_cluster
  /\ cluster_id' = cluster_id + 1
  /\ UNCHANGED <<bitmap, next_search_cluster, pc, call, ret, first_cluster, count,
                 longest, run, todo, entry, reserved>>

InRange == Scanning /\ ~FullWord /\ call.from_cluster <= cluster_id /\ cluster_id < end_cluster

scan_free ==
  LET first == IF first_cluster = 0 THEN cluster_id ELSE first_cluster
  IN  /\ InRange /\ cluster_id \notin bitmap
      /\ IF count + 1 = call.num_clusters
         THEN Found(Run(first, count + 1))
         ELSE /\ first_cluster' = first /\ count' = count + 1
              /\ cluster_id' = cluster_id + 1
              /\ UNCHANGED <<bitmap, next_search_cluster, pc, call, ret, longest,
                             run, todo, entry, reserved>>

scan_used == InRange /\ cluster_id \in bitmap /\ EndRunAt(cluster_id + 1)

(* The end of the scan: the padding, or the end of the bitmap.             *)
scan_end ==
  /\ pc = "scan"
  /\ \/ cluster_id >= EndOfBits
     \/ ~FullWord /\ cluster_id >= call.from_cluster /\ cluster_id >= end_cluster
  /\ LET best == IF /\ first_cluster # 0
                    /\ \/ call.policy = "FirstRun"
                       \/ longest.cluster_count < count
                 THEN Run(first_cluster, count) ELSE longest
     IN  IF best = NoRun
         THEN /\ pc' = "full"
              /\ UNCHANGED <<bitmap, next_search_cluster, call, ret, search, run, todo,
                             entry, reserved>>
         ELSE Found(best)

(* Mutant of wrap: the second search is not remembered as such.            *)
wrap_again ==
  /\ pc = "full" /\ call.from_cluster > FIRST_CLUSTER_ID
  /\ find_free_clusters_from(FIRST_CLUSTER_ID)
  /\ UNCHANGED <<bitmap, next_search_cluster, call, ret, run, todo, entry, reserved>>

(* find_free_clusters after DiskFull: once more, from the first cluster.   *)
wrap ==
  /\ pc = "full" /\ call.from_cluster > FIRST_CLUSTER_ID
  /\ call' = [call EXCEPT !.from_cluster = FIRST_CLUSTER_ID]
  /\ find_free_clusters_from(FIRST_CLUSTER_ID)
  /\ UNCHANGED <<bitmap, next_search_cluster, ret, run, todo, entry, reserved>>

disk_full ==
  /\ pc = "full" /\ call.from_cluster <= FIRST_CLUSTER_ID
  /\ Done("DiskFull")
  /\ UNCHANGED <<bitmap, next_search_cluster, call, search, run, todo, entry, reserved>>

-----------------------------------------------------------------------------
(* free, for a contiguous file; the run comes from a directory entry.      *)
free(r) ==
  /\ pc = "idle" /\ reserved = NoRun
  /\ call' = [NoCall EXCEPT !.kind = "free"]
  /\ run' = r /\ entry' = bitmap
  /\ mark_allocated(r)
  /\ UNCHANGED <<bitmap, next_search_cluster, search, reserved>>

(* copy_to marks its run after it has made the directory entry.            *)
copy_mark ==
  /\ pc = "idle" /\ reserved # NoRun
  /\ call' = [NoCall EXCEPT !.kind = "copy_mark"]
  /\ run' = reserved /\ entry' = bitmap /\ reserved' = NoRun
  /\ mark_allocated(reserved)
  /\ UNCHANGED <<bitmap, next_search_cluster, search>>

(* copy_to gives up: a directory or the entry could not be made.           *)
copy_abort ==
  /\ pc = "idle" /\ reserved # NoRun
  /\ reserved' = NoRun
  /\ UNCHANGED <<bitmap, next_search_cluster, pc, call, ret, search, run, todo, entry>>

(* Mutant of taken: always to the end of the bitmap sector.                *)
taken_whole_sector == ClustersPerSector - bit_of(todo.first_cluster)

(* One chunk of BitmapRunChunks: the part of the run in one bitmap sector. *)
taken == LET left == ClustersPerSector - bit_of(todo.first_cluster)
         IN  IF left < todo.cluster_count THEN left ELSE todo.cluster_count

(* Mutant of set_bit_range: freeing sets the bits as well.                 *)
set_bit_range_sets(bits) == bitmap \cup bits

set_bit_range(bits) == IF call.kind = "free" THEN bitmap \ bits ELSE bitmap \cup bits

mark_chunk ==
  /\ pc = "mark"
  /\ bitmap' = set_bit_range(ClustersOf(Run(todo.first_cluster, taken)))
  /\ todo' = Run(todo.first_cluster + taken, todo.cluster_count - taken)
  /\ IF todo'.cluster_count = 0 THEN Done("ok") ELSE UNCHANGED <<pc, ret>>
  /\ UNCHANGED <<next_search_cluster, call, search, run, entry, reserved>>

(* A bitmap sector cannot be read, in the search or in the marking.        *)
ReadFails ==
  /\ ReadFaults
  /\ \/ Scanning /\ bit_of(cluster_id) = 0
     \/ pc = "mark"
  /\ Done("Io")
  /\ UNCHANGED <<bitmap, next_search_cluster, call, search, run, todo, entry, reserved>>

(* The result reaches the caller, and the call's locals are gone.          *)
Return ==
  /\ pc = "done"
  /\ reserved' = IF call.kind = "copy" /\ ret = "ok" THEN run ELSE reserved
  /\ pc' = "idle" /\ call' = NoCall /\ ret' = "none" /\ run' = NoRun /\ todo' = NoRun
  /\ cluster_id' = 0 /\ first_cluster' = 0 /\ count' = 0 /\ longest' = NoRun
  /\ entry' = {}
  /\ UNCHANGED <<bitmap, next_search_cluster>>

-----------------------------------------------------------------------------
(* Any volume may be mounted.                                              *)
Init ==
  /\ bitmap \in SUBSET Bits
  /\ next_search_cluster = FIRST_CLUSTER_ID
  /\ pc = "idle" /\ call = NoCall /\ ret = "none" /\ run = NoRun /\ todo = NoRun
  /\ cluster_id = 0 /\ first_cluster = 0 /\ count = 0 /\ longest = NoRun
  /\ entry = {} /\ reserved = NoRun

Call == \/ \E num \in 1 .. MaxRequest :
             \/ allocate_first(num)
             \/ \E last \in Heap : allocate_after(last, num)
        \/ \E num \in 0 .. MaxRequest : copy_find(num)
        \/ \E first \in 0 .. end_cluster, n \in 0 .. MaxRequest : free(Run(first, n))
        \/ copy_mark \/ copy_abort

Step == \/ scan_full_word \/ scan_skip \/ scan_free \/ scan_used \/ scan_end
        \/ wrap \/ disk_full \/ mark_chunk \/ Return

Next == Call \/ Step \/ ReadFails

Spec == Init /\ [][Next]_vars

(* A call that has started runs to its end: the executor polls the future. *)
FairSpec == Spec /\ WF_vars(Step)

-----------------------------------------------------------------------------
(* The values the allocator's variables stay within; the bitmap never      *)
(* grows past its sectors.                                                 *)
RunType == [first_cluster : Nat, cluster_count : Nat]
TypeOK ==
  /\ bitmap \in SUBSET Bits /\ entry \in SUBSET Bits
  /\ next_search_cluster \in Nat
  /\ pc \in {"idle", "scan", "full", "mark", "done"}
  /\ ret \in {"none", "ok", "DiskFull", "InvalidClusterId", "Io"}
  /\ call \in [kind : {"none", "allocate", "copy", "free", "copy_mark"},
               asked_from : Nat, from_cluster : Nat, num_clusters : Nat,
               policy : {"FirstRun", "LongestRun"}]
  /\ cluster_id \in Nat /\ first_cluster \in Nat /\ count \in Nat
  /\ longest \in RunType /\ run \in RunType /\ todo \in RunType /\ reserved \in RunType

Searching == call.kind \in {"allocate", "copy"}

(* The word-by-word scan finds the run FreeRuns defines, from the cluster  *)
(* asked for and, if nothing is free there, from the first cluster: never  *)
(* in the padding, and none (DiskFull) only if the whole heap is taken.    *)
FoundMatchesReference ==
  pc = "done" /\ Searching /\ ret # "Io" =>
    run = FindFreeClusters(entry, call.asked_from, end_cluster, call.num_clusters, call.policy)

(* mark_allocated's chunks add up to the run: when it returns Ok exactly   *)
(* the bits of the run have been set, or cleared.                          *)
MarkIsExact ==
  pc = "done" /\ ret = "ok" =>
    bitmap = CASE call.kind = "copy" -> entry
               [] call.kind = "free" -> entry \ ClustersOf(run)
               [] OTHER -> entry \cup ClustersOf(run)

(* Even when a sector cannot be read half way, or the run comes from a     *)
(* corrupt directory entry, no bit outside the run or the heap changes.    *)
OnlyTheRunChanges ==
  pc # "idle" => (bitmap \ entry) \cup (entry \ bitmap) \subseteq ClustersOf(run) \cap Heap


(* Every call ends, whatever the bitmap holds.                             *)
CallEnds == pc # "idle" ~> pc = "idle"
=============================================================================
