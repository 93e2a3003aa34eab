-------------------------- MODULE SlotCacheProofs ---------------------------
(***************************************************************************)
(* Proofs about the sector cache, for every number of slots, every set of  *)
(* sectors and every set of faults.                                        *)
(***************************************************************************)
EXTENDS SlotCache, TLAPS

USE SlotCacheAssumption DEF Slots

(* read_inner has looked for the sector before it chooses a victim, and    *)
(* nothing fills a slot until it does so itself.                           *)
Missed == pc \in {"choose_victim", "fetch"} =>
            \A i \in Slots : ~(cache[i].is_valid /\ cache[i].sector_id = req.sector_id)

(* A victim has been written before its buffer is given away.              *)
VictimClean == pc = "fetch" => ~cache[index].is_dirty

(* The invariant in two parts: the slots, and the current call.            *)
SlotsInv(c) == /\ c \in [Slots -> Slot]
               /\ \A i \in Slots : c[i].is_valid <=> c[i].sector_id \in Sectors
               /\ \A i \in Slots : c[i].is_dirty => c[i].is_valid
               /\ \A i, j \in Slots :
                    c[i].is_valid /\ c[j].is_valid /\ c[i].sector_id = c[j].sector_id
                      => i = j

ControlInv == /\ hand \in Slots /\ index \in Slots
              /\ disk \in [Sectors -> Data]
              /\ pc \in {"idle", "choose_victim", "fetch", "write", "flush"}
              /\ req \in Request
              /\ ret \in {"none", "ok", "err"}
              /\ pc \in {"choose_victim", "fetch"} => req.op \in {"read", "read_mut"}
              /\ pc \in {"choose_victim", "fetch", "write"} => req.sector_id \in Sectors

(* What holds whatever fails.                                              *)
IInv == SlotsInv(cache) /\ ControlInv /\ Missed /\ VictimClean

LEMMA InvImplies == IInv => TypeOK /\ UniqueSlot
  BY DEF IInv, SlotsInv, ControlInv, TypeOK, UniqueSlot

LEMMA NewIsSlot == NewSlot \in Slot /\ ~NewSlot.is_valid /\ ~NewSlot.is_dirty
                   /\ NewSlot.sector_id = 0
  BY DEF NewSlot, Slot

LEMMA NewCache == SlotsInv([i \in Slots |-> NewSlot])
  BY NewIsSlot DEF SlotsInv

LEMMA NewRequest == ASSUME NEW op \in Ops, NEW s \in Sectors \cup {0}, NEW v \in Data
                    PROVE  LET r == [op |-> op, sector_id |-> s, block |-> v]
                           IN  r \in Request /\ r.op = op /\ r.sector_id = s /\ r.block = v
  BY DEF Request

LEMMA InitInv == Init => IInv
  <1> SUFFICES ASSUME Init PROVE IInv OBVIOUS
  <1>1. SlotsInv(cache) BY NewCache DEF Init
  <1>2. ControlInv BY NewRequest DEF Init, ControlInv, Ops
  <1> QED BY <1>1, <1>2 DEF Init, IInv, Missed, VictimClean

(* A slot whose replacement caches the same sector keeps the invariant of  *)
(* the slots, and so does one that takes a sector no slot caches.          *)
LEMMA SlotReplaced ==
  ASSUME NEW c, SlotsInv(c), NEW i \in Slots, NEW s \in Slot,
         s.is_valid <=> s.sector_id \in Sectors,
         s.is_dirty => s.is_valid,
         \/ s.sector_id = c[i].sector_id
         \/ \A j \in Slots : ~(c[j].is_valid /\ c[j].sector_id = s.sector_id)
  PROVE  SlotsInv([c EXCEPT ![i] = s])
  <1> DEFINE d == [c EXCEPT ![i] = s]
  <1>1. /\ d \in [Slots -> Slot]
        /\ d[i] = s
        /\ \A j \in Slots : j # i => d[j] = c[j]
    BY DEF SlotsInv
  <1> HIDE DEF d
  <1> QED BY <1>1 DEF SlotsInv, d

(* The fields of the slots that the operations write.                      *)
LEMMA Undirtied ==
  ASSUME NEW s \in Slot
  PROVE  LET t == [s EXCEPT !.is_dirty = FALSE]
         IN  /\ t \in Slot /\ ~t.is_dirty
             /\ t.sector_id = s.sector_id /\ t.is_valid = s.is_valid /\ t.block = s.block
  BY DEF Slot

LEMMA Unused ==
  ASSUME NEW s \in Slot, NEW u \in BOOLEAN
  PROVE  LET t == [s EXCEPT !.is_used = u]
         IN  /\ t \in Slot /\ t.is_dirty = s.is_dirty
             /\ t.sector_id = s.sector_id /\ t.is_valid = s.is_valid /\ t.block = s.block
  BY DEF Slot

LEMMA MutSlice ==
  ASSUME NEW s \in Slot, NEW r \in Request
  PROVE  LET t == as_mut_slice(s, r)
         IN  /\ t \in Slot
             /\ t.sector_id = s.sector_id /\ t.is_valid = s.is_valid
             /\ r.op = "read_mut" => t.is_dirty /\ t.block = r.block
             /\ r.op # "read_mut" => t = s
  BY DEF Slot, Request, as_mut_slice

-----------------------------------------------------------------------------
(* The invariant of the slots under each of the three kinds of change.     *)
LEMMA CleanedKeeps ==
  ASSUME SlotsInv(cache), NEW i \in Slots, cache' = [cache EXCEPT ![i].is_dirty = FALSE]
  PROVE  /\ SlotsInv(cache')
         /\ ~cache'[i].is_dirty
         /\ \A j \in Slots : /\ cache'[j].is_valid = cache[j].is_valid
                             /\ cache'[j].sector_id = cache[j].sector_id
                             /\ cache'[j].block = cache[j].block
                             /\ j # i => cache'[j] = cache[j]
  <1> DEFINE t == [cache[i] EXCEPT !.is_dirty = FALSE]
  <1>1. cache[i] \in Slot BY DEF SlotsInv
  <1>2. /\ t \in Slot /\ ~t.is_dirty
        /\ t.sector_id = cache[i].sector_id /\ t.is_valid = cache[i].is_valid
        /\ t.block = cache[i].block
    BY <1>1, Undirtied
  <1>3. cache' = [cache EXCEPT ![i] = t] OBVIOUS
  <1> HIDE DEF t
  <1>4. (t.is_valid <=> t.sector_id \in Sectors) /\ (t.is_dirty => t.is_valid)
    BY <1>2 DEF SlotsInv
  <1>5. SlotsInv([cache EXCEPT ![i] = t]) BY <1>2, <1>4, SlotReplaced
  <1>6. cache'[i] = t /\ \A j \in Slots : j # i => cache'[j] = cache[j]
    BY <1>3 DEF SlotsInv
  <1> QED BY <1>2, <1>3, <1>5, <1>6

LEMMA UnusedKeeps ==
  ASSUME SlotsInv(cache), NEW i \in Slots, cache' = [cache EXCEPT ![i].is_used = FALSE]
  PROVE  /\ SlotsInv(cache')
         /\ \A j \in Slots : /\ cache'[j].is_valid = cache[j].is_valid
                             /\ cache'[j].is_dirty = cache[j].is_dirty
                             /\ cache'[j].sector_id = cache[j].sector_id
                             /\ cache'[j].block = cache[j].block
                             /\ j # i => cache'[j] = cache[j]
  <1> DEFINE t == [cache[i] EXCEPT !.is_used = FALSE]
  <1>1. cache[i] \in Slot BY DEF SlotsInv
  <1>2. /\ t \in Slot /\ t.is_dirty = cache[i].is_dirty
        /\ t.sector_id = cache[i].sector_id /\ t.is_valid = cache[i].is_valid
        /\ t.block = cache[i].block
    BY <1>1, Unused
  <1>3. cache' = [cache EXCEPT ![i] = t] OBVIOUS
  <1> HIDE DEF t
  <1>4. (t.is_valid <=> t.sector_id \in Sectors) /\ (t.is_dirty => t.is_valid)
    BY <1>2 DEF SlotsInv
  <1>5. SlotsInv([cache EXCEPT ![i] = t]) BY <1>2, <1>4, SlotReplaced
  <1>6. cache'[i] = t /\ \A j \in Slots : j # i => cache'[j] = cache[j]
    BY <1>3 DEF SlotsInv
  <1> QED BY <1>2, <1>3, <1>5, <1>6

(* What read_inner does to the slot it found or filled, u being the slot   *)
(* it hands out.                                                           *)
LEMMA HandedOut ==
  ASSUME SlotsInv(cache), NEW i \in Slots, NEW r \in Request, NEW u \in Slot,
         u.is_valid, u.sector_id \in Sectors,
         \/ u.sector_id = cache[i].sector_id
         \/ \A j \in Slots : ~(cache[j].is_valid /\ cache[j].sector_id = u.sector_id),
         cache' = [cache EXCEPT ![i] = as_mut_slice(u, r)]
  PROVE  /\ SlotsInv(cache')
         /\ cache'[i].sector_id = u.sector_id /\ cache'[i].is_valid
         /\ r.op = "read_mut" => cache'[i].is_dirty /\ cache'[i].block = r.block
         /\ r.op # "read_mut" => cache'[i] = u
         /\ \A j \in Slots : j # i => cache'[j] = cache[j]
  <1> DEFINE t == as_mut_slice(u, r)
  <1>1. /\ t \in Slot
        /\ t.sector_id = u.sector_id /\ t.is_valid = u.is_valid
        /\ r.op = "read_mut" => t.is_dirty /\ t.block = r.block
        /\ r.op # "read_mut" => t = u
    BY MutSlice
  <1> HIDE DEF t
  <1>2. cache' = [cache EXCEPT ![i] = t] BY DEF t
  <1>3. SlotsInv([cache EXCEPT ![i] = t]) BY <1>1, SlotReplaced
  <1>4. cache'[i] = t /\ \A j \in Slots : j # i => cache'[j] = cache[j]
    BY <1>2 DEF SlotsInv
  <1> QED BY <1>1, <1>2, <1>3, <1>4

(* A full-block write to a cached sector.                                  *)
LEMMA OverwrittenKeeps ==
  ASSUME SlotsInv(cache), NEW i \in Slots, NEW v \in Data,
         cache' = [cache EXCEPT ![i].is_used = TRUE, ![i].block = v, ![i].is_dirty = FALSE]
  PROVE  /\ SlotsInv(cache')
         /\ cache'[i].block = v /\ ~cache'[i].is_dirty
         /\ cache'[i].sector_id = cache[i].sector_id
         /\ cache'[i].is_valid = cache[i].is_valid
         /\ \A j \in Slots : j # i => cache'[j] = cache[j]
  <1> DEFINE t == [cache[i] EXCEPT !.is_used = TRUE, !.block = v, !.is_dirty = FALSE]
  <1>1. cache[i] \in Slot BY DEF SlotsInv
  <1>2. /\ t \in Slot /\ ~t.is_dirty /\ t.block = v
        /\ t.sector_id = cache[i].sector_id /\ t.is_valid = cache[i].is_valid
    BY <1>1 DEF Slot
  <1>3. cache' = [cache EXCEPT ![i] = t] BY DEF SlotsInv
  <1> HIDE DEF t
  <1>4. (t.is_valid <=> t.sector_id \in Sectors) /\ (t.is_dirty => t.is_valid)
    BY <1>2 DEF SlotsInv
  <1>5. SlotsInv([cache EXCEPT ![i] = t]) BY <1>2, <1>4, SlotReplaced
  <1>6. cache'[i] = t /\ \A j \in Slots : j # i => cache'[j] = cache[j]
    BY <1>3 DEF SlotsInv
  <1> QED BY <1>2, <1>3, <1>5, <1>6

(* A failed read that has already overwritten the victim's buffer.         *)
LEMMA ClobberedKeeps ==
  ASSUME SlotsInv(cache), NEW i \in Slots, NEW v \in Data,
         cache' = [cache EXCEPT ![i].block = v]
  PROVE  /\ SlotsInv(cache')
         /\ \A j \in Slots : /\ cache'[j].is_valid = cache[j].is_valid
                             /\ cache'[j].is_dirty = cache[j].is_dirty
                             /\ cache'[j].sector_id = cache[j].sector_id
  <1> DEFINE t == [cache[i] EXCEPT !.block = v]
  <1>1. cache[i] \in Slot BY DEF SlotsInv
  <1>2. /\ t \in Slot /\ t.is_dirty = cache[i].is_dirty
        /\ t.sector_id = cache[i].sector_id /\ t.is_valid = cache[i].is_valid
    BY <1>1 DEF Slot
  <1>3. cache' = [cache EXCEPT ![i] = t] OBVIOUS
  <1> HIDE DEF t
  <1>4. (t.is_valid <=> t.sector_id \in Sectors) /\ (t.is_dirty => t.is_valid)
    BY <1>2 DEF SlotsInv
  <1>5. SlotsInv([cache EXCEPT ![i] = t]) BY <1>2, <1>4, SlotReplaced
  <1>6. cache'[i] = t /\ \A j \in Slots : j # i => cache'[j] = cache[j]
    BY <1>3 DEF SlotsInv
  <1> QED BY <1>2, <1>3, <1>5, <1>6

(* Slot::flush.                                                            *)
LEMMA FlushedKeeps ==
  ASSUME SlotsInv(cache), disk \in [Sectors -> Data], NEW i \in Slots, flush_slot(i)
  PROVE  /\ SlotsInv(cache')
         /\ disk' \in [Sectors -> Data]
         /\ ~cache'[i].is_dirty
         /\ \A j \in Slots : /\ cache'[j].is_valid = cache[j].is_valid
                             /\ cache'[j].sector_id = cache[j].sector_id
                             /\ cache'[j].block = cache[j].block
                             /\ j # i => cache'[j] = cache[j]
         /\ cache[i].is_dirty =>
              /\ cache[i].sector_id \in Sectors
              /\ disk' = [disk EXCEPT ![cache[i].sector_id] = cache[i].block]
         /\ ~cache[i].is_dirty => disk' = disk
  <1>1. cache[i].is_dirty => cache[i].sector_id \in Sectors /\ cache[i].block \in Data
    BY DEF SlotsInv, Slot
  <1>2. CASE cache[i].is_dirty BY <1>1, <1>2, CleanedKeeps DEF flush_slot
  <1>3. CASE ~cache[i].is_dirty BY <1>3 DEF flush_slot
  <1> QED BY <1>2, <1>3

-----------------------------------------------------------------------------
(* The invariant that holds whatever fails, action by action.              *)
LEMMA ReadKeepsInv ==
  ASSUME IInv, NEW op \in {"read", "read_mut"}, NEW s \in Sectors, NEW v \in Data,
         read_inner(op, s, v)
  PROVE  IInv'
  <1> DEFINE r == [op |-> op, sector_id |-> s, block |-> v]
  <1>1. r \in Request /\ r.op = op /\ r.sector_id = s BY NewRequest DEF Ops
  <1> HIDE DEF r
  <1>2. req' = r /\ disk' = disk /\ index' = index BY DEF read_inner, r
  <1>3. ASSUME NEW i \in cache_hit(s),
               cache' = [cache EXCEPT ![i] =
                           as_mut_slice([cache[i] EXCEPT !.is_used = TRUE], r)],
               hand' = i, Return("ok")
        PROVE  IInv'
    <2> DEFINE u == [cache[i] EXCEPT !.is_used = TRUE]
    <2>1. i \in Slots /\ cache[i] \in Slot /\ cache[i].is_valid /\ cache[i].sector_id = s
      BY <1>3 DEF cache_hit, IInv, SlotsInv
    <2>2. u \in Slot /\ u.is_valid /\ u.sector_id = s BY <2>1, Unused
    <2> HIDE DEF u
    <2>3. cache' = [cache EXCEPT ![i] = as_mut_slice(u, r)] BY <1>3 DEF u
    <2>4. SlotsInv(cache') BY <1>1, <2>1, <2>2, <2>3, HandedOut DEF IInv
    <2> QED BY <1>1, <1>2, <1>3, <2>1, <2>4
            DEF IInv, ControlInv, Missed, VictimClean, Return
  <1>4. CASE cache_hit(s) = {} /\ pc' = "choose_victim" /\ UNCHANGED <<cache, hand, ret>>
    BY <1>1, <1>2, <1>4 DEF IInv, SlotsInv, ControlInv, Missed, VictimClean, cache_hit
  <1> QED BY <1>3, <1>4 DEF read_inner, r

LEMMA WriteKeepsInv ==
  ASSUME IInv, NEW s \in Sectors, NEW v \in Data, write(s, v)
  PROVE  IInv'
  <1> DEFINE r == [op |-> "write", sector_id |-> s, block |-> v]
  <1>1. r \in Request /\ r.op = "write" /\ r.sector_id = s BY NewRequest DEF Ops
  <1> HIDE DEF r
  <1>2. req' = r /\ pc' = "write" /\ UNCHANGED <<disk, index, ret>> BY DEF write, r
  <1>3. SlotsInv(cache') /\ hand' \in Slots
    BY OverwrittenKeeps DEF write, cache_hit, IInv, ControlInv
  <1> QED BY <1>1, <1>2, <1>3 DEF IInv, ControlInv, Missed, VictimClean

LEMMA FlushSectorKeepsInv ==
  ASSUME IInv, NEW s \in Sectors, flush_sector(s)
  PROVE  IInv'
  <1>1. req' \in Request BY NewRequest DEF flush_sector, Ops
  <1>2. pc' = "idle" /\ ret' \in {"ok", "err"} /\ UNCHANGED <<hand, index>>
    BY DEF flush_sector, Return, Fail
  <1>3. SlotsInv(cache') /\ disk' \in [Sectors -> Data]
    <2>1. ASSUME NEW i \in Slots, flush_slot(i)
          PROVE  SlotsInv(cache') /\ disk' \in [Sectors -> Data]
      BY <2>1, FlushedKeeps DEF IInv, ControlInv
    <2>2. CASE UNCHANGED <<disk, cache>> BY <2>2 DEF IInv, ControlInv
    <2> QED BY <2>1, <2>2 DEF flush_sector
  <1> QED BY <1>1, <1>2, <1>3 DEF IInv, ControlInv, Missed, VictimClean

LEMMA FlushKeepsInv == ASSUME IInv, flush PROVE IInv'
  <1>1. req' \in Request BY NewRequest DEF flush, Ops
  <1> QED BY <1>1 DEF flush, IInv, ControlInv, Missed, VictimClean

LEMMA VictimKeepsInv ==
  ASSUME IInv, TakeFree \/ AnotherChance \/ TakeClean
  PROVE  IInv'
  <1>1. hand' \in Slots BY DEF IInv, ControlInv, TakeFree, AnotherChance, TakeClean, advance_hand
  <1>2. CASE TakeFree
    BY <1>1, <1>2 DEF TakeFree, IInv, SlotsInv, ControlInv, Missed, VictimClean
  <1>3. CASE AnotherChance
    <2>1. SlotsInv(cache')
          /\ \A j \in Slots : /\ cache'[j].is_valid = cache[j].is_valid
                              /\ cache'[j].sector_id = cache[j].sector_id
      BY <1>3, UnusedKeeps DEF AnotherChance, IInv, ControlInv
    <2> QED BY <1>1, <1>3, <2>1 DEF AnotherChance, IInv, ControlInv, Missed, VictimClean
  <1>4. CASE TakeClean
    BY <1>1, <1>4 DEF TakeClean, IInv, SlotsInv, ControlInv, Missed, VictimClean
  <1> QED BY <1>2, <1>3, <1>4

LEMMA WriteBackKeepsInv == ASSUME IInv, write_back PROVE IInv'
  <1>1. hand' \in Slots /\ hand \in Slots /\ UNCHANGED req /\ pc = "choose_victim"
    BY DEF IInv, ControlInv, write_back, advance_hand
  <1>2. CASE flush_slot(hand) /\ index' = hand /\ pc' = "fetch" /\ UNCHANGED ret
    <2>1. /\ SlotsInv(cache') /\ disk' \in [Sectors -> Data] /\ ~cache'[hand].is_dirty
          /\ \A j \in Slots : /\ cache'[j].is_valid = cache[j].is_valid
                              /\ cache'[j].sector_id = cache[j].sector_id
      BY <1>1, <1>2, FlushedKeeps DEF IInv, ControlInv
    <2> QED BY <1>1, <1>2, <2>1 DEF IInv, ControlInv, Missed, VictimClean
  <1>3. CASE Fail("write_back") /\ UNCHANGED <<disk, cache, index>>
    BY <1>1, <1>3 DEF IInv, ControlInv, Missed, VictimClean, Fail, Return
  <1> QED BY <1>2, <1>3 DEF write_back, flush_slot

LEMMA FetchKeepsInv == ASSUME IInv, fetch PROVE IInv'
  <1> DEFINE u == [cache[index] EXCEPT !.block = disk[req.sector_id],
                                       !.sector_id = req.sector_id,
                                       !.is_valid = TRUE,
                                       !.is_used = TRUE]
  <1>1. /\ index \in Slots /\ cache[index] \in Slot /\ req \in Request
        /\ req.sector_id \in Sectors /\ disk[req.sector_id] \in Data
        /\ \A j \in Slots : ~(cache[j].is_valid /\ cache[j].sector_id = req.sector_id)
    BY DEF fetch, IInv, ControlInv, SlotsInv, Missed
  <1>2. pc' = "idle" /\ ret' \in {"ok", "err"} /\ UNCHANGED <<hand, disk, req, index>>
    BY DEF fetch, Fail, Return
  <1>3. SlotsInv(cache')
    <2>1. CASE cache' = [cache EXCEPT ![index] = as_mut_slice(u, req)]
      <3>1. u \in Slot /\ u.is_valid /\ u.sector_id = req.sector_id BY <1>1 DEF Slot
      <3> HIDE DEF u
      <3> QED BY <1>1, <2>1, <3>1, HandedOut DEF IInv
    <2>2. CASE UNCHANGED cache BY <2>2 DEF IInv
    <2>3. ASSUME NEW junk \in Data, cache' = [cache EXCEPT ![index].block = junk]
          PROVE  SlotsInv(cache')
      BY <1>1, <2>3, ClobberedKeeps DEF IInv
    <2> QED BY <2>1, <2>2, <2>3 DEF fetch
  <1> QED BY <1>2, <1>3 DEF IInv, ControlInv, Missed, VictimClean

LEMMA WriteIoKeepsInv == ASSUME IInv, write_io PROVE IInv'
  <1>1. disk' \in [Sectors -> Data] BY DEF write_io, IInv, ControlInv, Request
  <1> QED BY <1>1 DEF write_io, Fail, Return, IInv, ControlInv, Missed, VictimClean

LEMMA FlushNextKeepsInv == ASSUME IInv, flush_next PROVE IInv'
  <1>1. index \in Slots /\ UNCHANGED <<hand, req>> BY DEF flush_next, IInv, ControlInv
  <1>2. SlotsInv(cache') /\ disk' \in [Sectors -> Data]
    <2>1. CASE flush_slot(index) BY <1>1, <2>1, FlushedKeeps DEF IInv, ControlInv
    <2>2. CASE UNCHANGED <<disk, cache>> BY <2>2 DEF IInv, ControlInv
    <2> QED BY <2>1, <2>2 DEF flush_next
  <1>3. index' \in Slots /\ pc' \in {"idle", "flush"} /\ ret' \in {"none", "ok", "err"}
    BY <1>1 DEF flush_next, Fail, Return, IInv, ControlInv
  <1> QED BY <1>1, <1>2, <1>3 DEF IInv, ControlInv, Missed, VictimClean

LEMMA PowerLossKeepsInv == ASSUME IInv, PowerLoss PROVE IInv'
  <1>1. req' \in Request BY NewRequest DEF PowerLoss, Ops
  <1>2. SlotsInv(cache') BY NewCache DEF PowerLoss
  <1> QED BY <1>1, <1>2 DEF PowerLoss, IInv, ControlInv, Missed, VictimClean

LEMMA NextKeepsInv == IInv /\ [Next]_vars => IInv'
  <1> SUFFICES ASSUME IInv, [Next]_vars PROVE IInv' OBVIOUS
  <1>1. CASE Call
    <2>1. "read" \in {"read", "read_mut"} /\ "read_mut" \in {"read", "read_mut"} OBVIOUS
    <2> QED BY <1>1, <2>1, ReadKeepsInv, WriteKeepsInv, FlushSectorKeepsInv, FlushKeepsInv
            DEF Call
  <1>2. CASE Step
    BY <1>2, VictimKeepsInv, WriteBackKeepsInv, FetchKeepsInv, WriteIoKeepsInv,
       FlushNextKeepsInv DEF Step
  <1>3. CASE PowerLoss BY <1>3, PowerLossKeepsInv
  <1>4. CASE UNCHANGED vars
    BY <1>4 DEF vars, IInv, SlotsInv, ControlInv, Missed, VictimClean
  <1> QED BY <1>1, <1>2, <1>3, <1>4 DEF Next

LEMMA Invariance == Spec => []IInv
  BY InitInv, NextKeepsInv, PTL DEF Spec

(* The cache's variables keep their types, in every cache of every size    *)
(* and whatever the device fails at.                                       *)
THEOREM TypeCorrect == Spec => []TypeOK
  BY Invariance, InvImplies, PTL

(* No sector is ever in two slots: read_inner and choose_victim keep the   *)
(* cache free of duplicates whatever fails and wherever power is lost.     *)
THEOREM SlotsUnique == Spec => []UniqueSlot
  BY Invariance, InvImplies, PTL

-----------------------------------------------------------------------------
(* The step of DirtyReachesDisk.                                           *)
Reaches == \A i \in Slots :
             cache[i].is_dirty /\ ~cache'[i].is_dirty =>
               \/ disk'[cache[i].sector_id] = cache[i].block
               \/ pc' = "write" /\ req'.sector_id = cache[i].sector_id
               \/ PowerLoss

LEMMA NextReaches == IInv /\ [Next]_vars => Reaches
  <1> SUFFICES ASSUME IInv, [Next]_vars, NEW i \in Slots,
                      cache[i].is_dirty, ~cache'[i].is_dirty, ~PowerLoss
               PROVE  \/ disk'[cache[i].sector_id] = cache[i].block
                      \/ pc' = "write" /\ req'.sector_id = cache[i].sector_id
    BY DEF Reaches
  <1>1. /\ cache[i] \in Slot /\ cache[i].sector_id \in Sectors
        /\ SlotsInv(cache) /\ disk \in [Sectors -> Data]
    BY DEF IInv, SlotsInv, ControlInv
  <1>2. cache' # cache OBVIOUS
  <1>3. ASSUME NEW op, NEW s \in Sectors, NEW v \in Data, read_inner(op, s, v) PROVE FALSE
    <2>1. PICK j \in cache_hit(s) :
            cache' = [cache EXCEPT ![j] =
                        as_mut_slice([cache[j] EXCEPT !.is_used = TRUE],
                                     [op |-> op, sector_id |-> s, block |-> v])]
      BY <1>2, <1>3 DEF read_inner
    <2>2. j \in Slots /\ cache[j] \in Slot BY <1>1 DEF cache_hit, SlotsInv
    <2>3. CASE i = j
      <3>1. cache'[i] = as_mut_slice([cache[i] EXCEPT !.is_used = TRUE],
                                     [op |-> op, sector_id |-> s, block |-> v])
        BY <2>1, <2>3, <1>1 DEF SlotsInv
      <3> QED BY <1>1, <3>1 DEF as_mut_slice, Slot
    <2>4. CASE i # j BY <1>1, <2>1, <2>2, <2>4 DEF SlotsInv
    <2> QED BY <2>3, <2>4
  <1>4. ASSUME NEW s \in Sectors, NEW v \in Data, write(s, v)
        PROVE  pc' = "write" /\ req'.sector_id = cache[i].sector_id
    <2>1. PICK j \in cache_hit(s) :
            cache' = [cache EXCEPT ![j].is_used = TRUE, ![j].block = v,
                                   ![j].is_dirty = FALSE]
      BY <1>2, <1>4 DEF write
    <2>2. j \in Slots /\ cache[j].sector_id = s BY DEF cache_hit
    <2>3. i = j BY <1>1, <2>1, <2>2, OverwrittenKeeps
    <2> QED BY <1>4, <2>2, <2>3 DEF write
  <1>5. ASSUME NEW j \in Slots, flush_slot(j)
        PROVE  disk'[cache[i].sector_id] = cache[i].block
    <2>1. i = j BY <1>1, <1>5, FlushedKeeps
    <2> QED BY <1>1, <1>5, <2>1, FlushedKeeps
  <1>6. ASSUME NEW s \in Sectors, flush_sector(s)
        PROVE  disk'[cache[i].sector_id] = cache[i].block
    BY <1>2, <1>5, <1>6 DEF flush_sector
  <1>7. CASE AnotherChance
    BY <1>1, <1>7, UnusedKeeps DEF AnotherChance, IInv, ControlInv
  <1>8. CASE write_back
    BY <1>2, <1>5, <1>8 DEF write_back, flush_slot, IInv, ControlInv
  <1>9. CASE fetch
    <2>1. /\ index \in Slots /\ cache[index] \in Slot /\ ~cache[index].is_dirty
      BY <1>9, <1>1 DEF fetch, IInv, ControlInv, SlotsInv, VictimClean
    <2>2. cache'[i] = cache[i] BY <1>1, <1>9, <2>1 DEF fetch, SlotsInv
    <2> QED BY <2>2
  <1>10. CASE flush_next
    BY <1>2, <1>5, <1>10 DEF flush_next, IInv, ControlInv
  <1>11. CASE Call
    BY <1>2, <1>3, <1>4, <1>6, <1>11 DEF Call, flush
  <1>12. CASE Step
    BY <1>2, <1>7, <1>8, <1>9, <1>10, <1>12 DEF Step, TakeFree, TakeClean, write_io
  <1> QED BY <1>2, <1>11, <1>12 DEF Next, vars

(* Whatever fails, a dirty slot becomes clean only by reaching the device  *)
(* or by being overwritten by a full-block write.                          *)
THEOREM DirtyIsWritten == Spec => DirtyReachesDisk
  <1>1. IInv /\ [Next]_vars => [Reaches]_vars BY NextReaches
  <1>2. Spec => [][Reaches]_vars BY <1>1, Invariance, PTL DEF Spec
  <1> QED BY <1>2 DEF Reaches, DirtyReachesDisk
=============================================================================
