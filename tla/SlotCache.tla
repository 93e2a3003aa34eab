----------------------------- MODULE SlotCache ------------------------------
(***************************************************************************)
(* The sector cache of slot_cache.rs: N slots in front of a block device,  *)
(* replaced by a clock hand.  Its methods take &mut self, so there is one  *)
(* call at a time; a call is a sequence of steps, cut at every .await on   *)
(* the device, where the device may fail (a caller that drops the future   *)
(* there leaves the same state as a failure) or power may be lost.         *)
(***************************************************************************)
EXTENDS Naturals

CONSTANTS N,          \* number of slots
          Sectors,    \* the sectors that are accessed through the cache
          Data,       \* contents of a sector
          ZeroBlock,  \* the contents Slot::new gives a slot
          Faults      \* which device operations may fail

FaultKinds == {"read",          \* a read fails and leaves the buffer alone
               "read_clobber",  \* a read fails after writing into the buffer
               "write_back",    \* the write of an evicted slot fails
               "flush",         \* the write of a flushed slot fails
               "write"}         \* the write of a full block fails

(* Sector 0 is the boot sector, which mount and set_volume_dirty access    *)
(* without the cache; 0 is also the sector_id of a slot that was never     *)
(* filled, which flush_sector does not tell apart from a cached sector.    *)
ASSUME SlotCacheAssumption == /\ N \in Nat \ {0}
                              /\ Sectors \subseteq Nat \ {0}
                              /\ ZeroBlock \in Data
                              /\ Faults \subseteq FaultKinds

VARIABLES cache,   \* the slots
          hand,    \* the clock hand
          disk,    \* the contents of the device
          pc,      \* where the current call is; "idle" between calls
          req,     \* the current (or last) call and its arguments
          index,   \* the slot the current call works on
          ret      \* the result of the last call

vars == <<cache, hand, disk, pc, req, index, ret>>

Slots == 0 .. N - 1
Slot == [sector_id : Sectors \cup {0}, is_dirty : BOOLEAN, is_used : BOOLEAN,
         is_valid : BOOLEAN, block : Data]
NewSlot == [sector_id |-> 0, is_dirty |-> FALSE, is_used |-> FALSE,
            is_valid |-> FALSE, block |-> ZeroBlock]
Ops == {"none", "read", "read_mut", "write", "flush_sector", "flush"}
Request == [op : Ops, sector_id : Sectors \cup {0}, block : Data]

Return(r) == pc' = "idle" /\ ret' = r
Fail(kind) == kind \in Faults /\ Return("err")

-----------------------------------------------------------------------------
(* Mutant of cache_hit: only slots used since the hand last passed.        *)
cache_hit_used(s) == {i \in Slots : cache[i].sector_id = s /\ cache[i].is_used}

(* The slots cache_hit can stop at.  At most one (UniqueSlot), so the      *)
(* order in which it looks, from the hand on and around, does not matter.  *)
cache_hit(s) == {i \in Slots : cache[i].sector_id = s /\ cache[i].is_valid}

(* Mutant of as_mut_slice: the dirty flag is forgotten.                    *)
as_mut_slice_clean(slot, r) ==
  IF r.op = "read_mut" THEN [slot EXCEPT !.block = r.block] ELSE slot

(* read_inner's caller gets the slot; one that called read_mut then writes *)
(* into it through as_mut_slice, which marks it dirty.                     *)
as_mut_slice(slot, r) ==
  IF r.op = "read_mut" THEN [slot EXCEPT !.is_dirty = TRUE, !.block = r.block]
                       ELSE slot

(* read and read_mut. A hit leaves the hand on the slot it found.          *)
read_inner(op, s, v) ==
  LET r == [op |-> op, sector_id |-> s, block |-> v]
  IN  /\ pc = "idle"
      /\ req' = r
      /\ \/ \E i \in cache_hit(s) :
              /\ cache' = [cache EXCEPT ![i] =
                             as_mut_slice([@ EXCEPT !.is_used = TRUE], r)]
              /\ hand' = i
              /\ Return("ok")
         \/ /\ cache_hit(s) = {}
            /\ pc' = "choose_victim"
            /\ UNCHANGED <<cache, hand, ret>>
      /\ UNCHANGED <<disk, index>>

(* Mutant of advance_hand: the hand wraps one slot too late.               *)
advance_hand_late == hand' = IF hand = N THEN 0 ELSE hand + 1

(* One turn of choose_victim's loop.                                       *)
advance_hand == hand' = IF hand + 1 = N THEN 0 ELSE hand + 1

TakeFree ==
  /\ pc = "choose_victim" /\ ~cache[hand].is_valid
  /\ advance_hand
  /\ index' = hand /\ pc' = "fetch"
  /\ UNCHANGED <<cache, disk, req, ret>>

(* Mutant of AnotherChance: the used flag stays.                           *)
AnotherChance_sticky ==
  /\ pc = "choose_victim" /\ cache[hand].is_valid /\ cache[hand].is_used
  /\ advance_hand
  /\ UNCHANGED <<cache, disk, pc, req, index, ret>>

AnotherChance ==
  /\ pc = "choose_victim" /\ cache[hand].is_valid /\ cache[hand].is_used
  /\ advance_hand
  /\ cache' = [cache EXCEPT ![hand].is_used = FALSE]
  /\ UNCHANGED <<disk, pc, req, index, ret>>

(* Mutant of TakeClean: a dirty victim is dropped.                         *)
TakeClean_dirty ==
  /\ pc = "choose_victim" /\ cache[hand].is_valid /\ ~cache[hand].is_used
  /\ advance_hand
  /\ index' = hand /\ pc' = "fetch"
  /\ UNCHANGED <<cache, disk, req, ret>>

TakeClean ==
  /\ pc = "choose_victim" /\ cache[hand].is_valid /\ ~cache[hand].is_used
  /\ ~cache[hand].is_dirty
  /\ advance_hand
  /\ index' = hand /\ pc' = "fetch"
  /\ UNCHANGED <<cache, disk, req, ret>>

write_back ==
  /\ pc = "choose_victim" /\ cache[hand].is_valid /\ ~cache[hand].is_used
  /\ cache[hand].is_dirty
  /\ advance_hand
  /\ \/ /\ disk' = [disk EXCEPT ![cache[hand].sector_id] = cache[hand].block]
        /\ cache' = [cache EXCEPT ![hand].is_dirty = FALSE]
        /\ index' = hand /\ pc' = "fetch"
        /\ UNCHANGED ret
     \/ Fail("write_back") /\ UNCHANGED <<disk, cache, index>>
  /\ UNCHANGED req

(* The rest of read_inner, after choose_victim: the sector is read into    *)
(* the victim's buffer and only then does the slot change hands.           *)
fetch ==
  /\ pc = "fetch"
  /\ \/ /\ cache' = [cache EXCEPT ![index] =
                       as_mut_slice([@ EXCEPT !.block = disk[req.sector_id],
                                              !.sector_id = req.sector_id,
                                              !.is_valid = TRUE,
                                              !.is_used = TRUE], req)]
        /\ Return("ok")
     \/ Fail("read") /\ UNCHANGED cache
     \/ /\ Fail("read_clobber")
        /\ \E junk \in Data : cache' = [cache EXCEPT ![index].block = junk]
  /\ UNCHANGED <<hand, disk, req, index>>

(* write: a full block goes to the device; a cached copy is replaced, and  *)
(* declared clean, before the device has accepted the block.               *)
write(s, v) ==
  /\ pc = "idle"
  /\ req' = [op |-> "write", sector_id |-> s, block |-> v]
  /\ pc' = "write"
  /\ \/ \E i \in cache_hit(s) :
          /\ cache' = [cache EXCEPT ![i].is_used = TRUE, ![i].block = v,
                                    ![i].is_dirty = FALSE]
          /\ hand' = i
     \/ cache_hit(s) = {} /\ UNCHANGED <<cache, hand>>
  /\ UNCHANGED <<disk, index, ret>>

write_io ==
  /\ pc = "write"
  /\ \/ disk' = [disk EXCEPT ![req.sector_id] = req.block] /\ Return("ok")
     \/ Fail("write") /\ UNCHANGED disk
  /\ UNCHANGED <<cache, hand, req, index>>

(* Mutant of flush_slot: the slot is declared clean, nothing is written.   *)
flush_slot_forgets(i) ==
  /\ cache' = [cache EXCEPT ![i].is_dirty = FALSE]
  /\ UNCHANGED disk

(* Slot::flush, without what happens to the control state.                 *)
flush_slot(i) ==
  IF cache[i].is_dirty
  THEN /\ disk' = [disk EXCEPT ![cache[i].sector_id] = cache[i].block]
       /\ cache' = [cache EXCEPT ![i].is_dirty = FALSE]
  ELSE UNCHANGED <<disk, cache>>

(* flush_sector: the first slot that carries the sector's number.          *)
flush_sector(s) ==
  LET Match(i) == cache[i].sector_id = s
  IN  /\ pc = "idle"
      /\ req' = [op |-> "flush_sector", sector_id |-> s, block |-> ZeroBlock]
      /\ \/ \E i \in Slots :
              /\ Match(i) /\ \A j \in Slots : j < i => ~Match(j)
              /\ \/ flush_slot(i) /\ Return("ok")
                 \/ cache[i].is_dirty /\ Fail("flush") /\ UNCHANGED <<disk, cache>>
         \/ /\ \A i \in Slots : ~Match(i)
            /\ Return("ok") /\ UNCHANGED <<disk, cache>>
      /\ UNCHANGED <<hand, index>>

(* Mutant of flush: the first slot is left out.                            *)
flush_from_one ==
  /\ pc = "idle"
  /\ req' = [op |-> "flush", sector_id |-> 0, block |-> ZeroBlock]
  /\ pc' = "flush" /\ index' = IF N = 1 THEN 0 ELSE 1
  /\ UNCHANGED <<cache, hand, disk, ret>>

(* flush: every slot in turn, up to the first that fails.                  *)
flush ==
  /\ pc = "idle"
  /\ req' = [op |-> "flush", sector_id |-> 0, block |-> ZeroBlock]
  /\ pc' = "flush" /\ index' = 0
  /\ UNCHANGED <<cache, hand, disk, ret>>

flush_next ==
  /\ pc = "flush"
  /\ \/ /\ flush_slot(index)
        /\ IF index + 1 = N THEN Return("ok") /\ UNCHANGED index
                            ELSE index' = index + 1 /\ UNCHANGED <<pc, ret>>
     \/ cache[index].is_dirty /\ Fail("flush") /\ UNCHANGED <<disk, cache, index>>
  /\ UNCHANGED <<hand, req>>

(* Power is lost and the volume is mounted again with a new cache.         *)
PowerLoss ==
  /\ cache' = [i \in Slots |-> NewSlot]
  /\ hand' = 0 /\ pc' = "idle" /\ index' = 0 /\ ret' = "none"
  /\ req' = [op |-> "none", sector_id |-> 0, block |-> ZeroBlock]
  /\ UNCHANGED disk

-----------------------------------------------------------------------------
Init == /\ cache = [i \in Slots |-> NewSlot]
        /\ hand = 0
        /\ disk \in [Sectors -> Data]
        /\ pc = "idle" /\ index = 0 /\ ret = "none"
        /\ req = [op |-> "none", sector_id |-> 0, block |-> ZeroBlock]

Call == \/ \E s \in Sectors, v \in Data : read_inner("read_mut", s, v) \/ write(s, v)
        \/ \E s \in Sectors : read_inner("read", s, ZeroBlock) \/ flush_sector(s)
        \/ flush

Step == TakeFree \/ AnotherChance \/ TakeClean \/ write_back \/ fetch
        \/ write_io \/ flush_next

Next == Call \/ Step \/ PowerLoss

Spec == Init /\ [][Next]_vars

(* A call that has started runs to its end: the executor polls the future. *)
FairSpec == Spec /\ WF_vars(Step)

-----------------------------------------------------------------------------
(* The values every variable of the cache stays within; an unfilled slot   *)
(* carries sector number 0 and is never dirty.                             *)
TypeOK ==
  /\ cache \in [Slots -> Slot]
  /\ hand \in Slots /\ index \in Slots
  /\ disk \in [Sectors -> Data]
  /\ pc \in {"idle", "choose_victim", "fetch", "write", "flush"}
  /\ req \in Request
  /\ ret \in {"none", "ok", "err"}
  /\ \A i \in Slots : cache[i].is_valid <=> cache[i].sector_id \in Sectors
  /\ \A i \in Slots : cache[i].is_dirty => cache[i].is_valid
  /\ pc \in {"choose_victim", "fetch"} => req.op \in {"read", "read_mut"}
  /\ pc \in {"choose_victim", "fetch", "write"} => req.sector_id \in Sectors

(* No sector is cached twice, whatever fails: read_inner looks for the     *)
(* sector before it chooses a victim, and nothing fills a slot in between. *)
(* Two copies would let a flush of the old one overwrite the new one.      *)
UniqueSlot ==
  \A i, j \in Slots :
    cache[i].is_valid /\ cache[j].is_valid /\ cache[i].sector_id = cache[j].sector_id
      => i = j

(* A slot that differs from the device is dirty, so that eviction and      *)
(* flush_sector write it ("slot must be written before eviction").  The    *)
(* one exception is the slot of a full-block write still on its way.       *)
CleanMatchesDisk ==
  \A i \in Slots :
    cache[i].is_valid =>
      \/ cache[i].is_dirty
      \/ pc = "write" /\ req.sector_id = cache[i].sector_id
      \/ cache[i].block = disk[cache[i].sector_id]

(* What a reader of the cache finds in each sector.                        *)
Contents == [s \in Sectors |->
               IF cache_hit(s) = {} THEN disk[s]
               ELSE cache[CHOOSE i \in Slots : i \in cache_hit(s)].block]

(* When flush_sector or flush has returned Ok the device holds what the    *)
(* cache holds, for that sector or for all of them.                        *)
FlushedIsDurable ==
  pc = "idle" /\ ret = "ok" =>
    /\ req.op = "flush_sector" => disk[req.sector_id] = Contents[req.sector_id]
    /\ req.op = "flush" => disk = Contents

(* The cache is a memory with a durable copy: evictions, second chances,   *)
(* fills and failed calls never change what a reader sees, and the device  *)
(* only ever receives current contents.                                    *)
Store == INSTANCE BlockStore WITH mem <- Contents, durable <- disk
StoreSpec == Store!Spec

(* Whatever fails, a step that clears is_dirty has put the block on the    *)
(* device, unless a full-block write of the sector has just replaced it.   *)
DirtyReachesDisk ==
  [][\A i \in Slots :
       cache[i].is_dirty /\ ~cache'[i].is_dirty =>
         \/ disk'[cache[i].sector_id] = cache[i].block
         \/ pc' = "write" /\ req'.sector_id = cache[i].sector_id
         \/ PowerLoss]_vars

(* Every call ends: choose_victim finds a victim however many slots are    *)
(* used, dirty or failing to be written.                                   *)
CallEnds == pc # "idle" ~> pc = "idle"
=============================================================================
