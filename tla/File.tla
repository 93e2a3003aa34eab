-------------------------------- MODULE File --------------------------------
(***************************************************************************)
(* Open files and their cluster chains: file.rs, with the parts of         *)
(* file_system.rs, allocation.rs and fat.rs that its operations go         *)
(* through.  All operations take &mut FileSystem, so one runs at a time,   *)
(* but the files share the bitmap, the FAT and the search hand.  A write   *)
(* or a read is cut where it awaits the device.  The caches are            *)
(* transparent here (module SlotCache); the bitmap search returns what     *)
(* module Allocator shows it to return.                                    *)
(*                                                                         *)
(* A byte of the heap is the label <<f, p>> of the write that stored it:   *)
(* position p of file f.  Bytes of no current file, whatever is left in    *)
(* them, carry NoByte; Zero is the zero a read fills in.                   *)
(***************************************************************************)
EXTENDS Integers, FiniteSets, FreeRuns

CONSTANTS Files,         \* each open at most once at a time
          ClusterCount,  \* clusters of the heap
          ClusterLen,    \* bytes in a cluster
          SIZE,          \* bytes in a sector
          MaxLen,        \* bound on the position a write may end at
          MaxOpen,       \* bound on the files open at a time
          Lengths,       \* how much one write or read may ask for
          Preallocated,  \* files that start with one valid byte in two clusters
          Boundary,      \* which of the boundary cases callers exercise
          IoFaults       \* where the device may fail

BoundaryCases == {"remainder",  \* a write whose last partial sector starts a cluster
                  "append",     \* append to a file that fills its clusters
                  "seek_end",   \* seek to the end of such a file
                  "gap"}        \* write after reading past the valid data
FaultPlaces == {"find", "mark", "convert", "link", "data", "free", "unlink", "seek"}

ASSUME FileAssumption ==
  /\ ClusterCount \in Nat \ {0} /\ ClusterLen \in Nat \ {0} /\ SIZE \in Nat \ {0}
  /\ ClusterLen % SIZE = 0 /\ MaxLen \in Nat /\ MaxOpen \in Nat
  /\ Lengths \subseteq Nat \ {0}
  /\ Preallocated \subseteq Files /\ IsFiniteSet(Preallocated)
  /\ 2 * Cardinality(Preallocated) <= ClusterCount
  /\ Boundary \subseteq BoundaryCases /\ IoFaults \subseteq FaultPlaces

VARIABLES bitmap, next_search_cluster, fat,
          disk,    \* the bytes of each cluster, and of one past the heap
          dir,     \* the stream extension of each file, as directory lookups see it
          handle,  \* the open File, or Closed
          op,      \* the read or write in progress
          failed   \* has an operation failed part way, and how badly?

volume == <<bitmap, next_search_cluster, fat>>
vars == <<bitmap, next_search_cluster, fat, disk, dir, handle, op, failed>>

end_cluster == FIRST_CLUSTER_ID + ClusterCount
Heap == FIRST_CLUSTER_ID .. end_cluster - 1
NO_CLUSTER_ID == 0
END_OF_CHAIN == 1   \* any value that is no cluster
NoByte == <<>>
Zero == <<0>>
Offsets == 0 .. ClusterLen - 1
Blank == [o \in Offsets |-> NoByte]

div_ceil(a, b) == (a + b - 1) \div b
Smaller(a, b) == IF a < b THEN a ELSE b
Larger(a, b) == IF a < b THEN b ELSE a

get_cluster_offset(cursor) == cursor % ClusterLen
start_index(cursor) == cursor % SIZE

NewDetails == [first_cluster |-> NO_CLUSTER_ID, data_length |-> 0,
               valid_data_length |-> 0, no_fat_chain |-> TRUE]
EmptyChain == [kind |-> "Empty", first |-> 0, last |-> 0, cluster_count |-> 0]
Contiguous(first, n) ==
  [kind |-> "Contiguous", first |-> first, last |-> first + n - 1, cluster_count |-> n]
FatChain(first, last, n) ==
  [kind |-> "Fat", first |-> first, last |-> last, cluster_count |-> n]
Closed == [details |-> NewDetails, current_cluster |-> 0, remaining |-> 0, cursor |-> 0,
           chain |-> EmptyChain, dirty |-> FALSE, open |-> FALSE]
Idle == [pc |-> "idle", file |-> "none", left |-> 0, need |-> 0,
         got |-> {}]

-----------------------------------------------------------------------------
(* The chain of clusters behind a StoredChain; 0 where the FAT ends.       *)
next_cluster_in_fat_chain(c) == IF c \in Heap /\ fat[c] \in Heap THEN fat[c] ELSE 0

ClusterAt(chain, k) ==
  LET walk[i \in 0 .. ClusterCount] ==
        IF i = 0 THEN chain.first ELSE next_cluster_in_fat_chain(walk[i - 1])
  IN  IF chain.kind = "Fat" THEN walk[k] ELSE chain.first + k

ClustersIn(chain) == {ClusterAt(chain, k) : k \in 0 .. chain.cluster_count - 1}

(* get_stored_chain, with get_cluster_id_at for the last cluster.  It      *)
(* fails, and the operation with it, if the FAT ends too early (last = 0). *)
get_stored_chain(d) ==
  LET n == div_ceil(d.data_length, ClusterLen)
  IN  IF d.first_cluster = NO_CLUSTER_ID \/ n = 0 THEN EmptyChain
      ELSE IF d.no_fat_chain THEN Contiguous(d.first_cluster, n)
      ELSE FatChain(d.first_cluster,
                    ClusterAt(FatChain(d.first_cluster, 0, n), n - 1), n)
Intact(chain) == chain.kind = "Fat" => chain.last # 0


(* Mutant of free: the FAT is cleared, the bitmap is not.                  *)
free_links_only(chain) ==
  /\ fat' = [c \in Heap |-> IF chain.kind = "Fat" /\ c \in ClustersIn(chain)
                            THEN NO_CLUSTER_ID ELSE fat[c]]
  /\ UNCHANGED <<bitmap, disk, next_search_cluster>>

(* Allocator::free; the bytes of a freed cluster belong to no file.        *)
free(chain) ==
  /\ bitmap' = bitmap \ ClustersIn(chain)
  /\ fat' = [c \in Heap |-> IF chain.kind = "Fat" /\ c \in ClustersIn(chain)
                            THEN NO_CLUSTER_ID ELSE fat[c]]
  /\ disk' = [c \in DOMAIN disk |-> IF c \in ClustersIn(chain) THEN Blank ELSE disk[c]]
  /\ UNCHANGED next_search_cluster

(* The device fails at most once in a behaviour: that bounds the leaks.    *)
(* Two kinds of failure leave chains the later operations cannot trust.    *)
IoFault(place) == place \in IoFaults /\ failed = "no"
Severity(place) == IF place \in {"convert", "unlink"} THEN place ELSE "contained"

(* File::new: where the cursor of a freshly opened file stands.            *)
File_new(d, chain, append) ==
  LET cursor == IF append THEN d.valid_data_length ELSE 0
  IN  [details |-> d, chain |-> chain, cursor |-> cursor, dirty |-> FALSE, open |-> TRUE,
       current_cluster |-> IF append /\ chain.kind # "Empty" THEN chain.last
                           ELSE d.first_cluster,
       remaining |-> IF chain.kind = "Empty" THEN 0
                     ELSE ClusterLen - get_cluster_offset(cursor)]

(* Appending starts in the last cluster: right unless the valid data ends  *)
(* at that cluster's end, or in an earlier cluster.                        *)
MayOpen == Cardinality({f \in Files : handle[f].open}) < MaxOpen
AppendInLastCluster(d) ==
  d.data_length > 0 => d.valid_data_length \div ClusterLen = (d.data_length - 1) \div ClusterLen

open(f, append) ==
  LET chain == get_stored_chain(dir[f])
  IN  /\ op.pc = "idle" /\ ~handle[f].open /\ Intact(chain) /\ MayOpen
      /\ append => "append" \in Boundary \/ AppendInLastCluster(dir[f])
      /\ handle' = [handle EXCEPT ![f] = File_new(dir[f], chain, append)]
      /\ UNCHANGED <<volume, disk, dir, op, failed>>

(* open with truncate: truncate_file gives the clusters back and keeps the *)
(* NoFatChain flag as it is.  The clusters leak if they cannot be freed.   *)
truncate_file(f) ==
  LET d == [dir[f] EXCEPT !.first_cluster = NO_CLUSTER_ID, !.data_length = 0,
                          !.valid_data_length = 0]
      chain == get_stored_chain(dir[f])
  IN  /\ op.pc = "idle" /\ ~handle[f].open /\ Intact(chain) /\ MayOpen
      /\ dir' = [dir EXCEPT ![f] = d]
      /\ \/ /\ free(chain)
            /\ handle' = [handle EXCEPT ![f] = File_new(d, EmptyChain, FALSE)]
            /\ UNCHANGED failed
         \/ /\ IoFault("free") /\ chain.kind # "Empty"
            /\ failed' = Severity("free") /\ UNCHANGED <<volume, disk, handle>>
      /\ UNCHANGED op

(* remove_file, of a file that is not open.  The name can then be created  *)
(* again, with the same entry create_file makes.  The clusters are freed   *)
(* first: if the entry cannot be reached after that, it keeps them.        *)
delete_inner(f) ==
  LET chain == get_stored_chain(dir[f])
  IN  /\ op.pc = "idle" /\ ~handle[f].open /\ Intact(chain) /\ dir[f] # NewDetails
      /\ \/ /\ free(chain)
            /\ dir' = [dir EXCEPT ![f] = NewDetails] /\ UNCHANGED failed
         \/ /\ IoFault("unlink") /\ free(chain)
            /\ failed' = Severity("unlink") /\ UNCHANGED dir
         \/ /\ IoFault("free") /\ chain.kind # "Empty"
            /\ failed' = Severity("free") /\ UNCHANGED <<volume, disk, dir>>
      /\ UNCHANGED <<handle, op>>

(* Mutant of Flushed: the first cluster of a file that was empty when it   *)
(* was opened is not stored.                                               *)
Flushed_first_cluster(f) ==
  IF handle[f].dirty THEN [dir EXCEPT ![f] = handle[f].details] ELSE dir

(* File::flush writes the entry if it is out of date; close flushes too.   *)
Flushed(f) ==
  IF handle[f].dirty
  THEN [dir EXCEPT ![f] = [handle[f].details EXCEPT !.first_cluster = handle[f].chain.first]]
  ELSE dir

flush(f) ==
  /\ op.pc = "idle" /\ handle[f].open
  /\ dir' = Flushed(f)
  /\ handle' = [handle EXCEPT ![f].dirty = FALSE]
  /\ UNCHANGED <<volume, disk, op, failed>>

close(f) ==
  /\ op.pc = "idle" /\ handle[f].open
  /\ dir' = Flushed(f)
  /\ handle' = [handle EXCEPT ![f] = Closed]
  /\ UNCHANGED <<volume, disk, op, failed>>

(* seek: the cursor is set before the clusters are walked; a walk that     *)
(* fails or ends early (EndOfFatChain) leaves the old cluster under it.    *)
SeekPastLast(chain, cursor) ==
  chain.kind # "Empty" /\ cursor \div ClusterLen >= chain.cluster_count

seek(f, cursor) ==
  LET chain == handle[f].chain
      k == cursor \div ClusterLen
      c == IF chain.kind = "Empty" THEN handle[f].details.first_cluster
           ELSE ClusterAt(chain, k)
      left == IF chain.kind = "Empty" THEN 0 ELSE ClusterLen - get_cluster_offset(cursor)
  IN  /\ op.pc = "idle" /\ handle[f].open
      /\ cursor <= handle[f].details.valid_data_length
      /\ "seek_end" \in Boundary \/ ~SeekPastLast(chain, cursor)
      /\ \/ /\ handle' = [handle EXCEPT ![f] =
                 IF chain.kind = "Fat" /\ c = 0 THEN [@ EXCEPT !.cursor = cursor]
                 ELSE [@ EXCEPT !.cursor = cursor, !.current_cluster = c, !.remaining = left]]
            /\ UNCHANGED failed
         \/ /\ IoFault("seek") /\ chain.kind = "Fat" /\ k > 0
            /\ handle' = [handle EXCEPT ![f].cursor = cursor]
            /\ failed' = Severity("seek")
      /\ UNCHANGED <<volume, disk, dir, op>>

-----------------------------------------------------------------------------
(* next_cursor_id; 0 stands for EndOfFatChain.                             *)
next_cursor_id(hd) ==
  LET c == hd.current_cluster + 1
  IN  CASE hd.chain.kind = "Empty" -> 0
        [] hd.chain.kind = "Contiguous" ->
             IF c \in hd.chain.first .. hd.chain.last THEN c ELSE 0
        [] hd.chain.kind = "Fat" -> next_cluster_in_fat_chain(hd.current_cluster)

(* Mutant of next_cluster_if_required: a new cluster's bytes in the old.   *)
next_cluster_not_taken(hd) == IF hd.remaining # 0 THEN hd ELSE [hd EXCEPT !.remaining = ClusterLen]

next_cluster_if_required(hd) ==
  IF hd.remaining # 0 THEN hd
  ELSE [hd EXCEPT !.current_cluster = next_cursor_id(hd), !.remaining = ClusterLen]

(* Mutant of move_file_cursor: what remains in the cluster is not counted. *)
move_file_cursor_only(hd, n) == [hd EXCEPT !.cursor = @ + n]

(* remaining_bytes_in_cluster is a u32 that wraps below zero; a negative   *)
(* number stands for the wrapped one, which is as far from zero.           *)
move_file_cursor(hd, n) == [hd EXCEPT !.cursor = @ + n, !.remaining = @ - n]

(* Storing n bytes of the file at its cursor, in the current cluster.      *)
Put(hd, n) ==
  disk' = [disk EXCEPT ![hd.current_cluster] =
             [o \in Offsets |->
                IF o \in get_cluster_offset(hd.cursor) .. get_cluster_offset(hd.cursor) + n - 1
                THEN <<op.file, hd.cursor + o - get_cluster_offset(hd.cursor)>> ELSE @[o]]]

(* The operation ends, with Ok or with an error.  The first one counts.    *)
Finish == op' = Idle
Error(place) == Finish /\ failed' = IF failed = "no" THEN Severity(place) ELSE failed

IoError(place) == IoFault(place) /\ Error(place)

(* Does a write of n bytes at the cursor end with a partial sector that    *)
(* starts a cluster?                                                       *)
first_len(cursor, n) ==
  IF start_index(cursor) > 0 \/ n < SIZE THEN Smaller(SIZE - start_index(cursor), n) ELSE 0
RemainderStartsCluster(cursor, n) ==
  LET len == first_len(cursor, n)
      remainder == (n - len) % SIZE
  IN  remainder > 0 /\ len < n /\ (cursor + n - remainder) % ClusterLen = 0

write(f, n) ==
  LET hd == handle[f]
      capacity == div_ceil(hd.details.data_length, ClusterLen) * ClusterLen
      end_of_write == hd.cursor + n
      need == IF end_of_write > capacity
              THEN div_ceil(end_of_write - capacity, ClusterLen) ELSE 0
  IN  /\ op.pc = "idle" /\ hd.open /\ end_of_write <= MaxLen
      /\ "remainder" \in Boundary \/ ~RemainderStartsCluster(hd.cursor, n)
      /\ "gap" \in Boundary \/ hd.cursor <= hd.details.valid_data_length
      /\ op' = [pc |-> IF need > 0 THEN "allocate" ELSE "first", file |-> f, left |-> n,
                need |-> need, got |-> {}]
      /\ UNCHANGED <<volume, disk, dir, handle, failed>>

-----------------------------------------------------------------------------
(* One turn of allocate_clusters_for.                                      *)
hd == handle[op.file]

(* Mutant of found_run: the whole free run, however long.                  *)
found_run_whole == FindFreeClusters(bitmap, next_search_cluster, end_cluster, 0, "LongestRun")

(* Allocator::allocate searches next to the chain, or for a first run.     *)
found_run ==
  LET end == end_cluster
  IN  CASE hd.chain.kind = "Empty" ->
             FindFreeClusters(bitmap, next_search_cluster, end, op.need, "LongestRun")
        [] OTHER ->
             FindFreeClusters(bitmap, hd.chain.last + 1, end, op.need, "FirstRun")

should_convert_to_fat_chain(r) ==
  /\ hd.chain.kind = "Contiguous" /\ hd.details.no_fat_chain
  /\ hd.chain.first + hd.chain.cluster_count # r.first_cluster


(* convert_file_to_fat_chain_if_required links the old clusters,           *)
(* update_chain links the new ones.                                        *)
Links(r, convert, has_fat_chain) ==
  [c \in Heap |->
     CASE convert /\ c \in hd.chain.first .. hd.chain.last - 1 -> c + 1
       [] has_fat_chain /\ hd.chain.kind # "Empty" /\ c = hd.chain.last -> r.first_cluster
       [] has_fat_chain /\ c \in r.first_cluster .. r.first_cluster + r.cluster_count - 2 -> c + 1
       [] has_fat_chain /\ c = r.first_cluster + r.cluster_count - 1 -> END_OF_CHAIN
       [] OTHER -> fat[c]]

Extended(r, has_fat_chain) ==
  LET n == hd.chain.cluster_count + r.cluster_count
  IN  CASE hd.chain.kind = "Empty" -> Contiguous(r.first_cluster, r.cluster_count)
        [] hd.chain.kind = "Contiguous" /\ ~has_fat_chain -> Contiguous(hd.chain.first, n)
        [] OTHER -> FatChain(hd.chain.first, r.first_cluster + r.cluster_count - 1, n)

update_chain(r) ==
  LET convert == should_convert_to_fat_chain(r)
      has_fat_chain == ~hd.details.no_fat_chain \/ convert
      new == [hd EXCEPT !.chain = Extended(r, has_fat_chain),
                        !.details.no_fat_chain = ~has_fat_chain,
                        !.dirty = @ \/ convert]
  IN  /\ fat' = Links(r, convert, has_fat_chain)
      /\ handle' = [handle EXCEPT ![op.file] =
           IF hd.chain.kind = "Empty"
           THEN [new EXCEPT !.current_cluster = r.first_cluster, !.remaining = ClusterLen]
           ELSE new]

allocate ==
  /\ op.pc = "allocate" /\ found_run # NoRun
  /\ bitmap' = bitmap \cup ClustersOf(found_run)
  /\ next_search_cluster' = found_run.first_cluster + found_run.cluster_count
  /\ update_chain(found_run)
  /\ op' = [op EXCEPT !.need = @ - found_run.cluster_count,
                      !.pc = IF op.need = found_run.cluster_count THEN "first" ELSE "allocate"]
  /\ UNCHANGED <<disk, dir, failed>>

DiskFull ==
  /\ op.pc = "allocate" /\ found_run = NoRun
  /\ Error("full")
  /\ UNCHANGED <<volume, disk, dir, handle>>

(* A bitmap or FAT sector cannot be read: in the search, while the run is  *)
(* marked, while the old clusters are linked or while the new ones are.    *)
AllocateFails ==
  /\ op.pc = "allocate" /\ found_run # NoRun
  /\ \/ IoError("find") /\ UNCHANGED <<volume, handle>>
     \/ /\ next_search_cluster' = found_run.first_cluster + found_run.cluster_count
        /\ \/ /\ IoError("mark")
              /\ \E n \in 0 .. found_run.cluster_count - 1 :
                   bitmap' = bitmap \cup ClustersOf(Run(found_run.first_cluster, n))
              /\ UNCHANGED <<fat, handle>>
           \/ /\ bitmap' = bitmap \cup ClustersOf(found_run)
              /\ \/ /\ IoError("convert") /\ should_convert_to_fat_chain(found_run)
                    /\ hd.chain.cluster_count > 1
                    /\ UNCHANGED fat
                 \/ /\ IoError("link")
                    /\ ~hd.details.no_fat_chain \/ should_convert_to_fat_chain(found_run)
                    /\ LET all == Links(found_run, should_convert_to_fat_chain(found_run), TRUE)
                       IN  fat' = [all EXCEPT ![found_run.first_cluster + found_run.cluster_count - 1]
                                     = fat[found_run.first_cluster + found_run.cluster_count - 1]]
              /\ handle' = [handle EXCEPT
                   ![op.file].details.no_fat_chain =
                      @ /\ ~should_convert_to_fat_chain(found_run),
                   ![op.file].dirty = @ \/ should_convert_to_fat_chain(found_run)]
  /\ UNCHANGED <<disk, dir>>

-----------------------------------------------------------------------------
(* Mutant of update_data_length: only the valid length is raised.          *)
update_valid_length(d, end) == [d EXCEPT !.valid_data_length = Larger(end, @)]

(* The rest of write, after the allocation: the lengths are raised, then   *)
(* the first partial sector is stored, ...                                 *)
update_data_length(d, end) ==
  [d EXCEPT !.valid_data_length = Larger(end, @),
            !.data_length = Larger(Larger(end, d.valid_data_length), @)]

(* EndOfFatChain or InvalidClusterId: there is no cluster under the cursor.*)
NoCluster(at) == at.current_cluster < FIRST_CLUSTER_ID

(* The move to the next cluster fails, or what follows it.                 *)
DataFails(before, at) ==
  /\ Error("data")
  /\ \/ /\ NoCluster(at) \/ IoFault("data")
        /\ handle' = [handle EXCEPT ![op.file] = before]
     \/ /\ ~NoCluster(at) /\ IoFault("data")
        /\ handle' = [handle EXCEPT ![op.file] = at]

write_first ==
  LET long == [hd EXCEPT !.details = update_data_length(@, hd.cursor + op.left),
                         !.dirty = TRUE]
      at == next_cluster_if_required(long)
      len == first_len(hd.cursor, op.left)
      left == op.left - len
  IN  /\ op.pc = "first"
      /\ \/ DataFails(long, at) /\ UNCHANGED disk
         \/ /\ ~NoCluster(at)
            /\ Put(at, len)
            /\ handle' = [handle EXCEPT ![op.file] = move_file_cursor(at, len)]
            /\ IF left = 0 THEN Finish
               ELSE op' = [op EXCEPT !.left = left, !.pc = IF left < SIZE THEN "tail" ELSE "blocks"]
            /\ UNCHANGED failed
      /\ UNCHANGED <<volume, dir>>

(* ... then the full sectors, each after a move to the next cluster if the *)
(* current one is used up, ...                                             *)
write_block ==
  LET at == next_cluster_if_required(hd)
      left == op.left - SIZE
  IN  /\ op.pc = "blocks"
      /\ \/ DataFails(hd, at) /\ UNCHANGED disk
         \/ /\ ~NoCluster(at)
            /\ Put(at, SIZE)
            /\ handle' = [handle EXCEPT ![op.file] = move_file_cursor(at, SIZE)]
            /\ IF left = 0 THEN Finish
               ELSE op' = [op EXCEPT !.left = left, !.pc = IF left < SIZE THEN "tail" ELSE "blocks"]
            /\ UNCHANGED failed
      /\ UNCHANGED <<volume, dir>>

(* ... then the last partial sector, in whatever cluster is current.       *)
write_tail ==
  /\ op.pc = "tail"
  /\ \/ IoError("data") /\ UNCHANGED <<disk, handle>>
     \/ /\ Put(hd, op.left)
        /\ handle' = [handle EXCEPT ![op.file] = move_file_cursor(hd, op.left)]
        /\ Finish /\ UNCHANGED failed
  /\ UNCHANGED <<volume, dir>>

(* read: nothing at the end of the file, else sector by sector.            *)
eof(x) == x.cursor >= x.details.data_length

read(f, n) ==
  /\ op.pc = "idle" /\ handle[f].open /\ ~eof(handle[f])
  /\ op' = [Idle EXCEPT !.pc = "read", !.file = f, !.left = n]
  /\ UNCHANGED <<volume, disk, dir, handle, failed>>

(* Mutant of read_chunk: a sector that is valid in part is all read.       *)
read_chunk_whole ==
  LET at == next_cluster_if_required(hd)
      offset == get_cluster_offset(hd.cursor)
      len == Smaller(Smaller(SIZE - start_index(offset), hd.details.data_length - hd.cursor), op.left)
      moved == move_file_cursor(at, len)
  IN  /\ op.pc = "read" /\ ~NoCluster(at)
      /\ handle' = [handle EXCEPT ![op.file] = moved]
      /\ op' = [op EXCEPT !.left = @ - len,
           !.pc = IF op.left = len \/ eof(moved) THEN "returned" ELSE "read",
           !.got = {<<hd.cursor + i, disk[at.current_cluster][offset + i]>> : i \in 0 .. len - 1}]
      /\ UNCHANGED <<volume, disk, dir, failed>>

read_chunk ==
  LET at == next_cluster_if_required(hd)
      offset == get_cluster_offset(hd.cursor)
      most == Smaller(Smaller(SIZE - start_index(offset), hd.details.data_length - hd.cursor), op.left)
      valid == hd.details.valid_data_length - hd.cursor
      len == IF valid > 0 THEN Smaller(most, valid) ELSE most
      moved == move_file_cursor(at, len)
  IN  /\ op.pc = "read"
      /\ \/ DataFails(hd, at)
         \/ /\ ~NoCluster(at)
            /\ handle' = [handle EXCEPT ![op.file] = moved]
            /\ op' = [op EXCEPT !.left = @ - len,
                 !.pc = IF op.left = len \/ eof(moved) THEN "returned" ELSE "read",
                 !.got = {<<hd.cursor + i,
                            IF valid > 0 THEN disk[at.current_cluster][offset + i]
                            ELSE Zero>> : i \in 0 .. len - 1}]
            /\ UNCHANGED failed
      /\ UNCHANGED <<volume, disk, dir>>

read_return ==
  /\ op.pc = "returned" /\ Finish
  /\ UNCHANGED <<volume, disk, dir, handle, failed>>

-----------------------------------------------------------------------------
(* A volume with the preallocated files one after the other, and no other  *)
(* file; a preallocated file has one valid byte in two clusters.           *)
Place == CHOOSE place \in [Preallocated -> 0 .. Cardinality(Preallocated) - 1] :
           \A f, g \in Preallocated : place[f] = place[g] => f = g
FirstOf(f) == FIRST_CLUSTER_ID + 2 * Place[f]

Init ==
  /\ bitmap = UNION {{FirstOf(f), FirstOf(f) + 1} : f \in Preallocated}
  /\ next_search_cluster = FIRST_CLUSTER_ID
  /\ fat = [c \in Heap |-> NO_CLUSTER_ID]
  /\ disk = [c \in FIRST_CLUSTER_ID .. end_cluster |->
               [o \in Offsets |->
                  IF o = 0 /\ \E f \in Preallocated : c = FirstOf(f)
                  THEN <<CHOOSE f \in Preallocated : c = FirstOf(f), 0>> ELSE NoByte]]
  /\ dir = [f \in Files |->
              IF f \in Preallocated
              THEN [first_cluster |-> FirstOf(f), data_length |-> ClusterLen + 1,
                    valid_data_length |-> 1, no_fat_chain |-> TRUE]
              ELSE NewDetails]
  /\ handle = [f \in Files |-> Closed]
  /\ op = Idle /\ failed = "no"

Call == \E f \in Files :
          \/ \E append \in BOOLEAN : open(f, append)
          \/ truncate_file(f) \/ delete_inner(f) \/ flush(f) \/ close(f)
          \/ \E cursor \in 0 .. MaxLen : seek(f, cursor)
          \/ \E n \in Lengths : write(f, n) \/ read(f, n)

Step == \/ allocate \/ DiskFull \/ AllocateFails
        \/ write_first \/ write_block \/ write_tail \/ read_chunk \/ read_return

Next == Call \/ Step

Spec == Init /\ [][Next]_vars

-----------------------------------------------------------------------------
(* The chain of a file: its handle's, or the one its entry describes.      *)
ChainOf(f) == IF handle[f].open THEN handle[f].chain ELSE get_stored_chain(dir[f])

DetailsType == [first_cluster : Heap \cup {NO_CLUSTER_ID}, data_length : Nat,
                valid_data_length : Nat, no_fat_chain : BOOLEAN]

(* The values the variables stay within: lengths ordered, chains in the    *)
(* heap, the cursor within the valid data or after a read of what follows. *)
TypeOK ==
  /\ bitmap \subseteq Heap /\ next_search_cluster \in FIRST_CLUSTER_ID .. end_cluster
  /\ fat \in [Heap -> Heap \cup {NO_CLUSTER_ID, END_OF_CHAIN}]
  /\ dir \in [Files -> DetailsType]
  /\ \A f \in Files :
       /\ dir[f].valid_data_length <= dir[f].data_length
       /\ handle[f].details \in DetailsType
       /\ handle[f].chain.kind \in {"Empty", "Contiguous", "Fat"}
       /\ handle[f].details.valid_data_length <= handle[f].details.data_length
       /\ handle[f].cursor \in 0 .. handle[f].details.data_length
       /\ handle[f].current_cluster \in {0} \cup FIRST_CLUSTER_ID .. end_cluster
  /\ op.pc \in {"idle", "allocate", "first", "blocks", "tail", "read", "returned"}



(* The entry of a flushed file describes what its open handle uses: a      *)
(* reopened file has the same clusters in the same order, and the lengths. *)
FlushedEntryDescribesHandle ==
  \A f \in Files :
    handle[f].open /\ ~handle[f].dirty /\ failed \notin {"convert", "unlink"} =>
      LET stored == get_stored_chain(dir[f])
      IN  /\ dir[f].data_length = handle[f].details.data_length
          /\ dir[f].valid_data_length = handle[f].details.valid_data_length
          /\ stored.cluster_count = div_ceil(dir[f].data_length, ClusterLen)
          /\ stored.cluster_count <= handle[f].chain.cluster_count
          /\ \A k \in 0 .. stored.cluster_count - 1 :
               ClusterAt(stored, k) = ClusterAt(handle[f].chain, k)

(* A cluster that is marked belongs to a file, as long as nothing failed:  *)
(* no allocation, conversion, truncation or removal loses one.             *)
NoLeak ==
  op.pc # "allocate" /\ failed = "no" => bitmap = UNION {ClustersIn(ChainOf(f)) : f \in Files}

(* Every byte below the valid data length is the one that was written at   *)
(* that position of that file: File::write "Writes all bytes from buf into *)
(* the file from the file cursor position", and nothing else is touched.   *)
BytesInPlace ==
  op.pc = "idle" =>
    \A f \in Files :
      LET d == IF handle[f].open THEN handle[f].details ELSE dir[f]
      IN  \A p \in 0 .. d.valid_data_length - 1 :
            disk[ClusterAt(ChainOf(f), p \div ClusterLen)][p % ClusterLen] = <<f, p>>

(* A read returns what was written, and zeros past the valid data: "in     *)
(* that case we need to fill the buffer with zeros instead of what is      *)
(* actually on disk".                                                      *)
ReadsOwnBytes ==
  \A b \in op.got :
    b[2] = IF b[1] < hd.details.valid_data_length THEN <<op.file, b[1]>> ELSE Zero

(* The cursor of an open file stands in the cluster that holds its         *)
(* position, or at the end of the one before, so that no seek is needed    *)
(* between reads and writes.                                               *)
CursorAtHome ==
  op.pc = "idle" =>
    \A f \in Files : LET x == handle[f] IN
      x.open /\ x.chain.kind # "Empty" =>
        \/ /\ x.remaining = ClusterLen - get_cluster_offset(x.cursor)
           /\ x.current_cluster = ClusterAt(x.chain, x.cursor \div ClusterLen)
        \/ /\ x.remaining = 0 /\ get_cluster_offset(x.cursor) = 0
           /\ x.current_cluster = ClusterAt(x.chain, x.cursor \div ClusterLen - 1)

(* Every read and write ends: each turn of their loops ends it or makes    *)
(* progress, and none takes more than is left (all are unsigned in Rust).  *)
Rank == [pc \in {"allocate", "first", "blocks", "tail", "read"} |->
           CASE pc = "allocate" -> 3 [] pc = "first" -> 2 [] pc = "blocks" -> 1 [] OTHER -> 0]
LoopsAdvance ==
  [][op.pc \in DOMAIN Rank =>
       \/ op'.pc \in {"idle", "returned"}
       \/ /\ op'.need >= 0 /\ op'.left > 0
          /\ \/ op'.need < op.need
             \/ Rank[op'.pc] < Rank[op.pc]
             \/ Rank[op'.pc] = Rank[op.pc] /\ op'.left < op.left]_vars
=============================================================================
