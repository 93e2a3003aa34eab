------------------------ MODULE SlotCacheStoreProofs ------------------------
(***************************************************************************)
(* What the sector cache promises while the device fails only in the ways  *)
(* that leave buffers and slots alone: clean slots match the device, a     *)
(* flush is durable, and the cache is a BlockStore.                        *)
(***************************************************************************)
EXTENDS SlotCacheProofs

(* The faults after which a slot may hold contents the device does not     *)
(* have without being dirty: see CleanMatchesDisk.                         *)
Contained == "write" \notin Faults /\ "read_clobber" \notin Faults

(* A full-block write on its way has already replaced the cached copy.     *)
WriteAhead == pc = "write" =>
                /\ req.op = "write"
                /\ \A i \in Slots : cache[i].is_valid /\ cache[i].sector_id = req.sector_id
                                      => cache[i].block = req.block

(* flush has cleaned the slots it has passed; the flush that returned Ok   *)
(* last has left nothing dirty behind.                                     *)
FlushedSoFar ==
  /\ pc = "flush" => /\ req.op = "flush"
                     /\ \A i \in Slots : i < index => ~cache[i].is_dirty
  /\ pc = "idle" /\ ret = "ok" /\ req.op = "flush" => \A i \in Slots : ~cache[i].is_dirty
  /\ pc = "idle" /\ ret = "ok" /\ req.op = "flush_sector" =>
       /\ req.sector_id \in Sectors
       /\ \A i \in Slots : cache[i].sector_id = req.sector_id => ~cache[i].is_dirty

CInv == IInv /\ CleanMatchesDisk /\ WriteAhead /\ FlushedSoFar

LEMMA InitCInv == Init => CInv
  BY InitInv, NewIsSlot DEF Init, CInv, CleanMatchesDisk, WriteAhead, FlushedSoFar

-----------------------------------------------------------------------------
(* The three conjuncts, action by action.                                  *)
LEMMA ReadKeeps ==
  ASSUME CInv, NEW op \in {"read", "read_mut"}, NEW s \in Sectors, NEW v \in Data,
         read_inner(op, s, v)
  PROVE  CleanMatchesDisk' /\ WriteAhead' /\ FlushedSoFar'
  <1> DEFINE r == [op |-> op, sector_id |-> s, block |-> v]
  <1>0. SlotsInv(cache) /\ CleanMatchesDisk BY DEF CInv, IInv
  <1>1. r \in Request /\ r.op = op /\ r.sector_id = s BY NewRequest DEF Ops
  <1> HIDE DEF r
  <1>2. req' = r /\ disk' = disk /\ pc = "idle" /\ pc' \in {"idle", "choose_victim"}
    BY DEF read_inner, r, Return
  <1>3. WriteAhead' /\ FlushedSoFar' BY <1>1, <1>2 DEF WriteAhead, FlushedSoFar
  <1>4. ASSUME NEW i \in cache_hit(s),
               cache' = [cache EXCEPT ![i] =
                           as_mut_slice([cache[i] EXCEPT !.is_used = TRUE], r)]
        PROVE  CleanMatchesDisk'
    <2> DEFINE u == [cache[i] EXCEPT !.is_used = TRUE]
    <2>1. i \in Slots /\ cache[i] \in Slot /\ cache[i].is_valid /\ cache[i].sector_id = s
      BY DEF cache_hit, CInv, IInv, SlotsInv
    <2>2. /\ u \in Slot /\ u.is_valid /\ u.sector_id = s
          /\ u.is_dirty = cache[i].is_dirty /\ u.block = cache[i].block
      BY <2>1, Unused
    <2> HIDE DEF u
    <2>3. cache' = [cache EXCEPT ![i] = as_mut_slice(u, r)] BY <1>4 DEF u
    <2>4. /\ r.op = "read_mut" => cache'[i].is_dirty /\ cache'[i].block = r.block
          /\ r.op # "read_mut" => cache'[i] = u
          /\ \A j \in Slots : j # i => cache'[j] = cache[j]
      <3>1. u.sector_id \in Sectors /\ u.sector_id = cache[i].sector_id BY <2>1, <2>2
      <3> QED BY <1>0, <1>1, <2>1, <2>2, <2>3, <3>1, HandedOut, Zenon
    <2> QED BY <1>0, <1>1, <1>2, <2>1, <2>2, <2>4 DEF CleanMatchesDisk
  <1>5. CASE UNCHANGED cache BY <1>0, <1>2, <1>3, <1>5 DEF CleanMatchesDisk
  <1> QED BY <1>3, <1>4, <1>5 DEF read_inner, r

LEMMA WriteKeeps ==
  ASSUME CInv, NEW s \in Sectors, NEW v \in Data, write(s, v)
  PROVE  CleanMatchesDisk' /\ WriteAhead' /\ FlushedSoFar'
  <1>1. req'.op = "write" /\ req'.sector_id = s /\ req'.block = v
        /\ pc' = "write" /\ disk' = disk /\ pc = "idle"
    BY DEF write
  <1>2. FlushedSoFar' BY <1>1 DEF FlushedSoFar
  <1>3. ASSUME NEW i \in cache_hit(s),
               cache' = [cache EXCEPT ![i].is_used = TRUE, ![i].block = v,
                                      ![i].is_dirty = FALSE]
        PROVE  CleanMatchesDisk' /\ WriteAhead'
    <2>1. i \in Slots /\ cache[i].is_valid /\ cache[i].sector_id = s BY DEF cache_hit
    <2>2. /\ cache'[i].block = v /\ cache'[i].sector_id = s
          /\ \A j \in Slots : j # i => cache'[j] = cache[j]
      BY <1>3, <2>1, OverwrittenKeeps DEF CInv, IInv
    <2>3. \A j \in Slots : cache[j].is_valid /\ cache[j].sector_id = s => j = i
      BY <2>1 DEF CInv, IInv, SlotsInv
    <2> QED BY <1>1, <2>2, <2>3 DEF CInv, CleanMatchesDisk, WriteAhead
  <1>4. CASE cache_hit(s) = {} /\ UNCHANGED cache
    BY <1>1, <1>2, <1>4 DEF CInv, CleanMatchesDisk, WriteAhead, cache_hit
  <1> QED BY <1>2, <1>3, <1>4 DEF write

(* Slot::flush writes one sector and cleans its slot.                      *)
LEMMA FlushSlotKeepsClean ==
  ASSUME CInv, NEW i \in Slots, flush_slot(i), pc # "write"
  PROVE  CleanMatchesDisk'
  <1>1. SlotsInv(cache) /\ disk \in [Sectors -> Data] BY DEF CInv, IInv, ControlInv
  <1>2. CASE cache[i].is_dirty
    <2>1. /\ cache[i].sector_id \in Sectors
          /\ disk' = [disk EXCEPT ![cache[i].sector_id] = cache[i].block]
          /\ \A j \in Slots : /\ cache'[j].is_valid = cache[j].is_valid
                              /\ cache'[j].sector_id = cache[j].sector_id
                              /\ cache'[j].block = cache[j].block
                              /\ j # i => cache'[j] = cache[j]
      BY <1>1, <1>2, FlushedKeeps
    <2>2. cache[i].is_valid BY <1>1, <1>2 DEF SlotsInv
    <2>3. \A j \in Slots : cache[j].is_valid /\ j # i
                             => cache[j].sector_id # cache[i].sector_id
      BY <1>1, <2>2 DEF SlotsInv
    <2>4. \A j \in Slots : cache[j].is_valid /\ j # i
                             => disk'[cache[j].sector_id] = disk[cache[j].sector_id]
      BY <1>1, <2>1, <2>3 DEF SlotsInv
    <2>5. disk'[cache[i].sector_id] = cache[i].block BY <1>1, <2>1
    <2> QED BY <2>1, <2>4, <2>5 DEF CInv, CleanMatchesDisk
  <1>3. CASE ~cache[i].is_dirty
    <2>1. disk' = disk /\ cache' = cache BY <1>3 DEF flush_slot
    <2> QED BY <2>1 DEF CInv, CleanMatchesDisk
  <1> QED BY <1>2, <1>3

LEMMA FlushSectorKeeps ==
  ASSUME CInv, NEW s \in Sectors, flush_sector(s)
  PROVE  CleanMatchesDisk' /\ WriteAhead' /\ FlushedSoFar'
  <1>1. /\ pc = "idle" /\ pc' = "idle" /\ SlotsInv(cache) /\ disk \in [Sectors -> Data]
        /\ req'.op = "flush_sector" /\ req'.sector_id = s
    BY DEF flush_sector, Return, Fail, CInv, IInv, ControlInv
  <1>2. WriteAhead' BY <1>1 DEF WriteAhead
  <1>3. ASSUME NEW i \in Slots, cache[i].sector_id = s, flush_slot(i)
        PROVE  CleanMatchesDisk' /\ FlushedSoFar'
    <2>1. /\ ~cache'[i].is_dirty
          /\ \A j \in Slots : j # i => cache'[j] = cache[j]
      BY <1>1, <1>3, FlushedKeeps
    <2>2. \A j \in Slots : cache[j].sector_id = s => j = i
      BY <1>1, <1>3 DEF SlotsInv
    <2>3. FlushedSoFar' BY <1>1, <2>1, <2>2 DEF FlushedSoFar
    <2> QED BY <1>1, <1>3, <2>3, FlushSlotKeepsClean
  <1>4. CASE UNCHANGED <<disk, cache>> /\ ret' = "err"
    BY <1>1, <1>2, <1>4 DEF CInv, CleanMatchesDisk, FlushedSoFar
  <1>5. CASE UNCHANGED <<disk, cache>> /\ \A i \in Slots : cache[i].sector_id # s
    BY <1>1, <1>2, <1>5 DEF CInv, CleanMatchesDisk, FlushedSoFar
  <1> QED BY <1>2, <1>3, <1>4, <1>5 DEF flush_sector, Fail, Return

LEMMA FlushKeeps ==
  ASSUME CInv, flush
  PROVE  CleanMatchesDisk' /\ WriteAhead' /\ FlushedSoFar'
  BY DEF CInv, flush, CleanMatchesDisk, WriteAhead, FlushedSoFar, Slots

LEMMA VictimKeeps ==
  ASSUME CInv, TakeFree \/ AnotherChance \/ TakeClean
  PROVE  CleanMatchesDisk' /\ WriteAhead' /\ FlushedSoFar'
  <1>1. /\ pc = "choose_victim" /\ pc' \in {"choose_victim", "fetch"} /\ disk' = disk
        /\ SlotsInv(cache) /\ hand \in Slots
    BY DEF TakeFree, AnotherChance, TakeClean, CInv, IInv, ControlInv
  <1>2. \A j \in Slots : /\ cache'[j].is_valid = cache[j].is_valid
                         /\ cache'[j].is_dirty = cache[j].is_dirty
                         /\ cache'[j].sector_id = cache[j].sector_id
                         /\ cache'[j].block = cache[j].block
    BY <1>1, UnusedKeeps DEF TakeFree, AnotherChance, TakeClean
  <1> QED BY <1>1, <1>2 DEF CInv, CleanMatchesDisk, WriteAhead, FlushedSoFar

LEMMA WriteBackKeeps ==
  ASSUME CInv, write_back
  PROVE  CleanMatchesDisk' /\ WriteAhead' /\ FlushedSoFar'
  <1>1. /\ pc = "choose_victim" /\ hand \in Slots /\ req' = req
        /\ \/ pc' = "fetch"
           \/ pc' = "idle" /\ ret' = "err"
    BY DEF write_back, Fail, Return, CInv, IInv, ControlInv
  <1>2. CASE flush_slot(hand) BY <1>1, <1>2, FlushSlotKeepsClean DEF WriteAhead, FlushedSoFar
  <1>3. CASE UNCHANGED <<disk, cache>>
    BY <1>1, <1>3 DEF CInv, CleanMatchesDisk, WriteAhead, FlushedSoFar
  <1> QED BY <1>2, <1>3 DEF write_back, flush_slot

LEMMA FetchKeeps ==
  ASSUME Contained, CInv, fetch
  PROVE  CleanMatchesDisk' /\ WriteAhead' /\ FlushedSoFar'
  <1> DEFINE u == [cache[index] EXCEPT !.block = disk[req.sector_id],
                                       !.sector_id = req.sector_id,
                                       !.is_valid = TRUE,
                                       !.is_used = TRUE]
  <1>1. /\ index \in Slots /\ cache[index] \in Slot /\ req \in Request
        /\ req.sector_id \in Sectors /\ disk[req.sector_id] \in Data
        /\ req.op \in {"read", "read_mut"}
        /\ \A j \in Slots : ~(cache[j].is_valid /\ cache[j].sector_id = req.sector_id)
    BY DEF fetch, CInv, IInv, ControlInv, SlotsInv, Missed
  <1>2. pc = "fetch" /\ pc' = "idle" /\ disk' = disk /\ req' = req
    BY DEF fetch, Fail, Return
  <1>3. WriteAhead' /\ FlushedSoFar' BY <1>1, <1>2 DEF WriteAhead, FlushedSoFar
  <1>4. CASE cache' = [cache EXCEPT ![index] = as_mut_slice(u, req)]
    <2>1. u \in Slot /\ u.is_valid /\ u.sector_id = req.sector_id
          /\ u.block = disk[req.sector_id]
      BY <1>1 DEF Slot
    <2> HIDE DEF u
    <2>2. SlotsInv(cache) BY DEF CInv, IInv
    <2>3. /\ req.op = "read_mut" => cache'[index].is_dirty /\ cache'[index].block = req.block
          /\ req.op # "read_mut" => cache'[index] = u
          /\ \A j \in Slots : j # index => cache'[j] = cache[j]
      <3>1. /\ u.sector_id \in Sectors
            /\ \A j \in Slots : ~(cache[j].is_valid /\ cache[j].sector_id = u.sector_id)
        BY <1>1, <2>1
      <3> QED BY <1>1, <1>4, <2>1, <2>2, <3>1, HandedOut, Zenon
    <2> QED BY <1>1, <1>2, <1>3, <2>1, <2>3 DEF CInv, CleanMatchesDisk
  <1>5. CASE UNCHANGED cache BY <1>2, <1>3, <1>5 DEF CInv, CleanMatchesDisk
  <1> QED BY <1>4, <1>5 DEF fetch, Fail, Contained

LEMMA WriteIoKeeps ==
  ASSUME Contained, CInv, write_io
  PROVE  CleanMatchesDisk' /\ WriteAhead' /\ FlushedSoFar'
  <1>1. /\ pc = "write" /\ pc' = "idle" /\ cache' = cache /\ req' = req
        /\ disk' = [disk EXCEPT ![req.sector_id] = req.block]
        /\ disk \in [Sectors -> Data] /\ req.sector_id \in Sectors /\ req.op = "write"
    BY DEF write_io, Fail, Return, Contained, CInv, IInv, ControlInv, WriteAhead
  <1>2. WriteAhead' /\ FlushedSoFar' BY <1>1 DEF WriteAhead, FlushedSoFar
  <1>3. ASSUME NEW i \in Slots, cache[i].is_valid, ~cache[i].is_dirty
        PROVE  cache[i].block = disk'[cache[i].sector_id]
    <2>1. cache[i].sector_id \in Sectors BY <1>3 DEF CInv, IInv, SlotsInv
    <2>2. CASE cache[i].sector_id = req.sector_id
      BY <1>1, <1>3, <2>2 DEF CInv, WriteAhead
    <2>3. CASE cache[i].sector_id # req.sector_id
      BY <1>1, <1>3, <2>1, <2>3 DEF CInv, CleanMatchesDisk
    <2> QED BY <2>2, <2>3
  <1> QED BY <1>1, <1>2, <1>3 DEF CleanMatchesDisk

LEMMA FlushNextKeeps ==
  ASSUME CInv, flush_next
  PROVE  CleanMatchesDisk' /\ WriteAhead' /\ FlushedSoFar'
  <1>1. /\ pc = "flush" /\ pc' \in {"flush", "idle"} /\ req' = req /\ index \in Slots
        /\ req.op = "flush" /\ SlotsInv(cache) /\ disk \in [Sectors -> Data]
        /\ \A i \in Slots : i < index => ~cache[i].is_dirty
    BY DEF flush_next, Fail, Return, CInv, IInv, ControlInv, FlushedSoFar
  <1>2. WriteAhead' BY <1>1 DEF WriteAhead
  <1>3. CASE /\ flush_slot(index)
             /\ IF index + 1 = N THEN Return("ok") /\ UNCHANGED index
                                 ELSE index' = index + 1 /\ UNCHANGED <<pc, ret>>
    <2>1. ~cache'[index].is_dirty /\ \A j \in Slots : j # index => cache'[j] = cache[j]
      BY <1>1, <1>3, FlushedKeeps
    <2>2. \A i \in Slots : i < index + 1 => ~cache'[i].is_dirty
      BY <1>1, <2>1 DEF Slots
    <2>3. FlushedSoFar' BY <1>1, <1>3, <2>2, SlotCacheAssumption DEF FlushedSoFar, Return, Slots
    <2> QED BY <1>1, <1>2, <1>3, <2>3, FlushSlotKeepsClean
  <1>4. CASE Fail("flush") /\ UNCHANGED <<disk, cache, index>>
    BY <1>1, <1>2, <1>4 DEF CInv, CleanMatchesDisk, FlushedSoFar, Fail, Return
  <1> QED BY <1>3, <1>4 DEF flush_next

LEMMA PowerLossKeeps ==
  ASSUME CInv, PowerLoss
  PROVE  CleanMatchesDisk' /\ WriteAhead' /\ FlushedSoFar'
  BY NewIsSlot DEF PowerLoss, CleanMatchesDisk, WriteAhead, FlushedSoFar

LEMMA NextKeepsCInv == ASSUME Contained PROVE CInv /\ [Next]_vars => CInv'
  <1> SUFFICES ASSUME CInv, [Next]_vars PROVE CInv' OBVIOUS
  <1>1. IInv' BY NextKeepsInv DEF CInv
  <1>2. CleanMatchesDisk' /\ WriteAhead' /\ FlushedSoFar'
    <2>1. CASE Call
      <3>1. "read" \in {"read", "read_mut"} /\ "read_mut" \in {"read", "read_mut"} OBVIOUS
      <3> QED BY <2>1, <3>1, ReadKeeps, WriteKeeps, FlushSectorKeeps, FlushKeeps,
                 SlotCacheAssumption DEF Call
    <2>2. CASE Step
      BY <2>2, VictimKeeps, WriteBackKeeps, FetchKeeps, WriteIoKeeps, FlushNextKeeps DEF Step
    <2>3. CASE PowerLoss BY <2>3, PowerLossKeeps
    <2>4. CASE UNCHANGED vars
      BY <2>4 DEF vars, CInv, CleanMatchesDisk, WriteAhead, FlushedSoFar
    <2> QED BY <2>1, <2>2, <2>3, <2>4 DEF Next
  <1> QED BY <1>1, <1>2 DEF CInv

LEMMA CInvariance == ASSUME Contained PROVE Spec => []CInv
  BY InitCInv, NextKeepsCInv, PTL DEF Spec

(* While a failing device spares buffers and full-block writes, a cached   *)
(* sector that is not dirty is on the device: eviction, flush_sector and   *)
(* flush may skip it.                                                      *)
THEOREM CleanSlotsMatch == ASSUME Contained PROVE Spec => []CleanMatchesDisk
  <1>1. CInv => CleanMatchesDisk BY DEF CInv
  <1> QED BY <1>1, CInvariance, PTL

-----------------------------------------------------------------------------
(* What a reader finds: the one slot that caches the sector, or the disk.  *)
Hit(c, i, s) == c[i].is_valid /\ c[i].sector_id = s

LEMMA ContentsAre ==
  IInv => \A s \in Sectors :
            /\ \A i \in Slots : Hit(cache, i, s) => Contents[s] = cache[i].block
            /\ (\A i \in Slots : ~Hit(cache, i, s)) => Contents[s] = disk[s]
  <1> SUFFICES ASSUME IInv, NEW s \in Sectors
               PROVE  /\ \A i \in Slots : Hit(cache, i, s) => Contents[s] = cache[i].block
                      /\ (\A i \in Slots : ~Hit(cache, i, s)) => Contents[s] = disk[s]
    OBVIOUS
  <1>1. ASSUME NEW i \in Slots, Hit(cache, i, s) PROVE Contents[s] = cache[i].block
    <2>1. i \in cache_hit(s) BY <1>1 DEF Hit, cache_hit
    <2>2. \A j \in Slots : j \in cache_hit(s) => j = i
      BY <1>1 DEF Hit, cache_hit, IInv, SlotsInv
    <2>3. (CHOOSE j \in Slots : j \in cache_hit(s)) = i BY <2>1, <2>2
    <2> QED BY <2>1, <2>3 DEF Contents
  <1>2. ASSUME \A i \in Slots : ~Hit(cache, i, s) PROVE Contents[s] = disk[s]
    <2>1. cache_hit(s) = {} BY <1>2 DEF Hit, cache_hit
    <2> QED BY <2>1 DEF Contents
  <1> QED BY <1>1, <1>2

LEMMA ContentsAreNext ==
  IInv' => \A s \in Sectors :
             /\ \A i \in Slots : Hit(cache', i, s) => Contents'[s] = cache'[i].block
             /\ (\A i \in Slots : ~Hit(cache', i, s)) => Contents'[s] = disk'[s]
  <1>1. (IInv => \A s \in Sectors :
            /\ \A i \in Slots : Hit(cache, i, s) => Contents[s] = cache[i].block
            /\ (\A i \in Slots : ~Hit(cache, i, s)) => Contents[s] = disk[s])'
    BY ContentsAre, PTL
  <1> QED BY <1>1

LEMMA ContentsFcn == /\ Contents = [s \in Sectors |-> Contents[s]]
                     /\ Contents' = [s \in Sectors |-> Contents'[s]]
  BY DEF Contents

(* A sector keeps its contents when its slots, or else its place on the    *)
(* device, keep theirs.                                                    *)
LEMMA SameContents ==
  ASSUME IInv, IInv', NEW s \in Sectors,
         \A i \in Slots : /\ Hit(cache', i, s) <=> Hit(cache, i, s)
                          /\ Hit(cache, i, s) => cache'[i].block = cache[i].block,
         (\A i \in Slots : ~Hit(cache, i, s)) => disk'[s] = disk[s]
  PROVE  Contents'[s] = Contents[s]
  BY ContentsAre, ContentsAreNext

LEMMA ContentsChange ==
  ASSUME NEW s \in Sectors, NEW v, Contents'[s] = v,
         \A t \in Sectors : t # s => Contents'[t] = Contents[t]
  PROVE  Contents' = [Contents EXCEPT ![s] = v]
  BY ContentsFcn

LEMMA ContentsStay ==
  ASSUME \A t \in Sectors : Contents'[t] = Contents[t]
  PROVE  Contents' = Contents
  BY ContentsFcn

(* When nothing is dirty and no write is on its way, the reader sees the   *)
(* device.                                                                 *)
LEMMA DurableWhenClean ==
  ASSUME CInv, pc # "write", NEW s \in Sectors,
         \A i \in Slots : cache[i].sector_id = s => ~cache[i].is_dirty
  PROVE  disk[s] = Contents[s]
  BY ContentsAre DEF CInv, CleanMatchesDisk, Hit

(* When flush_sector or flush returns Ok, what the cache holds is on the   *)
(* device.                                                                 *)
THEOREM FlushIsDurable == ASSUME Contained PROVE Spec => []FlushedIsDurable
  <1>1. CInv => FlushedIsDurable
    <2> SUFFICES ASSUME CInv, pc = "idle", ret = "ok"
                 PROVE  /\ req.op = "flush_sector" =>
                             disk[req.sector_id] = Contents[req.sector_id]
                        /\ req.op = "flush" => disk = Contents
      BY DEF FlushedIsDurable
    <2>1. ASSUME req.op = "flush_sector" PROVE disk[req.sector_id] = Contents[req.sector_id]
      BY <2>1, DurableWhenClean DEF CInv, FlushedSoFar
    <2>2. ASSUME req.op = "flush" PROVE disk = Contents
      <3>1. \A s \in Sectors : disk[s] = Contents[s]
        BY <2>2, DurableWhenClean DEF CInv, FlushedSoFar
      <3> QED BY <3>1, ContentsFcn DEF CInv, IInv, ControlInv
    <2> QED BY <2>1, <2>2
  <1> QED BY <1>1, CInvariance, PTL

-----------------------------------------------------------------------------
(* Every step of the cache is a step of the store, or changes nothing of   *)
(* it.                                                                     *)
StoreStep == Store!Next \/ UNCHANGED <<Contents, disk>>

LEMMA StoreIsNext ==
  ASSUME NEW s \in Sectors, NEW v \in Data, disk' = disk, Contents'[s] = v,
         \A t \in Sectors : t # s => Contents'[t] = Contents[t]
  PROVE  StoreStep
  <1>1. Store!Store(s, v) BY ContentsChange DEF Store!Store
  <1> QED BY <1>1 DEF StoreStep, Store!Next

LEMMA NothingIsStutter ==
  ASSUME IInv, IInv', disk' = disk,
         \A i \in Slots : /\ cache'[i].is_valid = cache[i].is_valid
                          /\ cache'[i].sector_id = cache[i].sector_id
                          /\ cache'[i].block = cache[i].block
  PROVE  StoreStep
  <1>1. \A t \in Sectors : Contents'[t] = Contents[t] BY SameContents DEF Hit
  <1> QED BY <1>1, ContentsStay DEF StoreStep

LEMMA ReadIsStep ==
  ASSUME CInv, IInv', NEW op \in {"read", "read_mut"}, NEW s \in Sectors, NEW v \in Data,
         read_inner(op, s, v)
  PROVE  StoreStep
  <1> DEFINE r == [op |-> op, sector_id |-> s, block |-> v]
  <1>0. SlotsInv(cache) /\ IInv /\ disk' = disk BY DEF CInv, IInv, read_inner
  <1>1. r \in Request /\ r.op = op /\ r.block = v BY NewRequest DEF Ops
  <1> HIDE DEF r
  <1>2. ASSUME NEW i \in cache_hit(s),
               cache' = [cache EXCEPT ![i] =
                           as_mut_slice([cache[i] EXCEPT !.is_used = TRUE], r)]
        PROVE  StoreStep
    <2> DEFINE u == [cache[i] EXCEPT !.is_used = TRUE]
    <2>1. i \in Slots /\ cache[i] \in Slot /\ cache[i].is_valid /\ cache[i].sector_id = s
      BY <1>0 DEF cache_hit, SlotsInv
    <2>2. /\ u \in Slot /\ u.is_valid = cache[i].is_valid /\ u.sector_id = cache[i].sector_id
          /\ u.block = cache[i].block
      BY <2>1, Unused
    <2> HIDE DEF u
    <2>3. cache' = [cache EXCEPT ![i] = as_mut_slice(u, r)] BY <1>2 DEF u
    <2>4. /\ SlotsInv(cache')
          /\ cache'[i].sector_id = u.sector_id /\ cache'[i].is_valid
          /\ r.op = "read_mut" => cache'[i].is_dirty /\ cache'[i].block = r.block
          /\ r.op # "read_mut" => cache'[i] = u
          /\ \A j \in Slots : j # i => cache'[j] = cache[j]
      <3>1. /\ u.is_valid /\ u.sector_id \in Sectors
            /\ \/ u.sector_id = cache[i].sector_id
               \/ \A j \in Slots : ~(cache[j].is_valid /\ cache[j].sector_id = u.sector_id)
        BY <2>1, <2>2
      <3>2. u \in Slot /\ i \in Slots /\ r \in Request /\ SlotsInv(cache) BY <1>0, <1>1, <2>1, <2>2
      <3> QED BY <2>3, <3>1, <3>2, HandedOut
    <2>5. CASE op = "read_mut"
      <3>1. Contents'[s] = v BY <1>1, <2>1, <2>2, <2>4, <2>5, ContentsAreNext DEF Hit
      <3>2. ASSUME NEW t \in Sectors, t # s PROVE Contents'[t] = Contents[t]
        <4>1. \A j \in Slots : /\ Hit(cache', j, t) <=> Hit(cache, j, t)
                               /\ Hit(cache, j, t) => cache'[j].block = cache[j].block
          BY <2>1, <2>2, <2>4, <3>2 DEF Hit
        <4> QED BY <1>0, <4>1, SameContents
      <3> QED BY <1>0, <3>1, <3>2, StoreIsNext
    <2>6. CASE op # "read_mut"
      <3>1. \A j \in Slots : /\ cache'[j].is_valid = cache[j].is_valid
                             /\ cache'[j].sector_id = cache[j].sector_id
                             /\ cache'[j].block = cache[j].block
        BY <1>1, <2>2, <2>4, <2>6
      <3> QED BY <1>0, <3>1, NothingIsStutter
    <2> QED BY <2>5, <2>6
  <1>3. CASE UNCHANGED cache BY <1>0, <1>3, NothingIsStutter
  <1> QED BY <1>2, <1>3 DEF read_inner, r

LEMMA WriteIsStep ==
  ASSUME CInv, IInv', NEW s \in Sectors, NEW v \in Data, write(s, v)
  PROVE  StoreStep
  <1>0. SlotsInv(cache) /\ IInv /\ disk' = disk BY DEF CInv, IInv, write
  <1>1. ASSUME NEW i \in cache_hit(s),
               cache' = [cache EXCEPT ![i].is_used = TRUE, ![i].block = v,
                                      ![i].is_dirty = FALSE]
        PROVE  StoreStep
    <2>1. i \in Slots /\ cache[i].is_valid /\ cache[i].sector_id = s BY DEF cache_hit
    <2>2. /\ cache'[i].block = v /\ cache'[i].sector_id = s
          /\ cache'[i].is_valid = cache[i].is_valid
          /\ \A j \in Slots : j # i => cache'[j] = cache[j]
      BY <1>0, <1>1, <2>1, OverwrittenKeeps
    <2>3. Contents'[s] = v BY <2>1, <2>2, ContentsAreNext DEF Hit
    <2>4. ASSUME NEW t \in Sectors, t # s PROVE Contents'[t] = Contents[t]
      <3>1. \A j \in Slots : /\ Hit(cache', j, t) <=> Hit(cache, j, t)
                             /\ Hit(cache, j, t) => cache'[j].block = cache[j].block
        BY <2>1, <2>2, <2>4 DEF Hit
      <3> QED BY <1>0, <3>1, SameContents
    <2> QED BY <1>0, <2>3, <2>4, StoreIsNext
  <1>2. CASE UNCHANGED cache BY <1>0, <1>2, NothingIsStutter
  <1> QED BY <1>1, <1>2 DEF write

LEMMA FlushSlotIsStep ==
  ASSUME CInv, IInv', NEW i \in Slots, flush_slot(i)
  PROVE  StoreStep
  <1>1. SlotsInv(cache) /\ disk \in [Sectors -> Data] /\ IInv BY DEF CInv, IInv, ControlInv
  <1>2. CASE cache[i].is_dirty
    <2> DEFINE s == cache[i].sector_id
    <2>1. /\ s \in Sectors
          /\ disk' = [disk EXCEPT ![s] = cache[i].block]
          /\ \A j \in Slots : /\ cache'[j].is_valid = cache[j].is_valid
                              /\ cache'[j].sector_id = cache[j].sector_id
                              /\ cache'[j].block = cache[j].block
      BY <1>1, <1>2, FlushedKeeps
    <2>2. Hit(cache, i, s) BY <1>1, <1>2 DEF SlotsInv, Hit
    <2>3. Contents[s] = cache[i].block BY <1>1, <2>1, <2>2, ContentsAre
    <2>4. ASSUME NEW t \in Sectors PROVE Contents'[t] = Contents[t]
      <3>1. \A j \in Slots : /\ Hit(cache', j, t) <=> Hit(cache, j, t)
                             /\ Hit(cache, j, t) => cache'[j].block = cache[j].block
        BY <2>1 DEF Hit
      <3>2. (\A j \in Slots : ~Hit(cache, j, t)) => disk'[t] = disk[t]
        BY <1>1, <2>1, <2>2
      <3> QED BY <1>1, <3>1, <3>2, SameContents
    <2>5. Store!Persist(s) BY <2>1, <2>3, <2>4, ContentsStay DEF Store!Persist
    <2> QED BY <2>1, <2>5 DEF StoreStep, Store!Next
  <1>3. CASE ~cache[i].is_dirty BY <1>1, <1>3, NothingIsStutter DEF flush_slot
  <1> QED BY <1>2, <1>3

LEMMA FetchIsStep ==
  ASSUME Contained, CInv, IInv', fetch
  PROVE  StoreStep
  <1> DEFINE s == req.sector_id
             u == [cache[index] EXCEPT !.block = disk[req.sector_id],
                                       !.sector_id = req.sector_id,
                                       !.is_valid = TRUE,
                                       !.is_used = TRUE]
  <1>1. /\ index \in Slots /\ cache[index] \in Slot /\ req \in Request
        /\ s \in Sectors /\ disk[s] \in Data /\ req.block \in Data
        /\ req.op \in {"read", "read_mut"} /\ ~cache[index].is_dirty
        /\ \A j \in Slots : ~Hit(cache, j, s)
    BY DEF fetch, CInv, IInv, ControlInv, SlotsInv, Missed, VictimClean, Request, Hit
  <1>2. pc = "fetch" /\ disk' = disk /\ IInv /\ SlotsInv(cache) BY DEF fetch, CInv, IInv
  <1>3. CASE cache' = [cache EXCEPT ![index] = as_mut_slice(u, req)]
    <2>1. u \in Slot /\ u.is_valid /\ u.sector_id = s /\ u.block = disk[s]
      BY <1>1 DEF Slot
    <2> HIDE DEF u
    <2>2. /\ SlotsInv(cache')
          /\ cache'[index].sector_id = u.sector_id /\ cache'[index].is_valid
          /\ req.op = "read_mut" => cache'[index].is_dirty /\ cache'[index].block = req.block
          /\ req.op # "read_mut" => cache'[index] = u
          /\ \A j \in Slots : j # index => cache'[j] = cache[j]
      <3>1. /\ u.sector_id \in Sectors
            /\ \A j \in Slots : ~(cache[j].is_valid /\ cache[j].sector_id = u.sector_id)
        BY <1>1, <2>1 DEF Hit
      <3>2. u \in Slot /\ u.is_valid /\ index \in Slots /\ req \in Request /\ SlotsInv(cache)
        BY <1>1, <1>2, <2>1
      <3> QED BY <1>3, <3>1, <3>2, HandedOut
    <2>3. Hit(cache', index, s) BY <2>1, <2>2 DEF Hit
    <2>4. Contents'[s] = cache'[index].block BY <1>1, <2>3, ContentsAreNext
    <2>5. ASSUME NEW t \in Sectors, t # s PROVE Contents'[t] = Contents[t]
      <3>1. CASE Hit(cache, index, t)
        <4>1. cache[index].block = disk[t] BY <1>1, <1>2, <3>1 DEF CInv, CleanMatchesDisk, Hit
        <4>2. Contents[t] = disk[t] BY <1>1, <1>2, <3>1, <4>1, ContentsAre
        <4>3. \A j \in Slots : j # index => ~Hit(cache, j, t)
          BY <1>1, <1>2, <3>1 DEF SlotsInv, Hit
        <4>4. \A j \in Slots : ~Hit(cache', j, t) BY <2>1, <2>2, <2>5, <4>3 DEF Hit
        <4> QED BY <1>2, <4>2, <4>4, ContentsAreNext
      <3>2. CASE ~Hit(cache, index, t)
        <4>1. \A j \in Slots : /\ Hit(cache', j, t) <=> Hit(cache, j, t)
                               /\ Hit(cache, j, t) => cache'[j].block = cache[j].block
          BY <2>1, <2>2, <2>5, <3>2 DEF Hit
        <4> QED BY <1>2, <4>1, SameContents
      <3> QED BY <3>1, <3>2
    <2>6. CASE req.op = "read_mut"
      BY <1>1, <1>2, <2>2, <2>4, <2>5, <2>6, StoreIsNext
    <2>7. CASE req.op # "read_mut"
      <3>1. Contents[s] = disk[s] /\ Contents'[s] = disk[s]
        BY <1>1, <1>2, <2>1, <2>2, <2>4, <2>7, ContentsAre
      <3>2. \A t \in Sectors : Contents'[t] = Contents[t] BY <2>5, <3>1
      <3> QED BY <1>2, <3>2, ContentsStay DEF StoreStep
    <2> QED BY <2>6, <2>7
  <1>4. CASE UNCHANGED cache BY <1>2, <1>4, NothingIsStutter
  <1> QED BY <1>3, <1>4 DEF fetch, Fail, Contained

LEMMA WriteIoIsStep ==
  ASSUME Contained, CInv, IInv', write_io
  PROVE  StoreStep
  <1> DEFINE s == req.sector_id
  <1>1. /\ pc = "write" /\ cache' = cache /\ IInv
        /\ disk' = [disk EXCEPT ![s] = req.block] /\ disk \in [Sectors -> Data]
        /\ s \in Sectors /\ req.block \in Data
    BY DEF write_io, Fail, Contained, CInv, IInv, ControlInv, Request
  <1>2. ASSUME NEW t \in Sectors, t # s PROVE Contents'[t] = Contents[t]
    <2>1. disk'[t] = disk[t] BY <1>1, <1>2
    <2>2. \A j \in Slots : /\ Hit(cache', j, t) <=> Hit(cache, j, t)
                           /\ Hit(cache, j, t) => cache'[j].block = cache[j].block
      BY <1>1
    <2> QED BY <1>1, <2>1, <2>2, SameContents
  <1>3. ASSUME NEW i \in Slots, Hit(cache, i, s) PROVE StoreStep
    <2>1. cache[i].block = req.block BY <1>1, <1>3 DEF CInv, WriteAhead, Hit
    <2>2. Contents[s] = req.block /\ Contents'[s] = req.block
      BY <1>1, <1>3, <2>1, ContentsAre, ContentsAreNext
    <2>3. \A t \in Sectors : Contents'[t] = Contents[t] BY <1>2, <2>2
    <2>4. Store!Persist(s) BY <1>1, <2>2, <2>3, ContentsStay DEF Store!Persist
    <2> QED BY <1>1, <2>4 DEF StoreStep, Store!Next
  <1>4. CASE \A i \in Slots : ~Hit(cache, i, s)
    <2>1. Contents'[s] = disk'[s] BY <1>1, <1>4, ContentsAreNext
    <2>2. Contents'[s] = req.block BY <1>1, <2>1
    <2>3. Store!StoreThrough(s, req.block)
      BY <1>1, <1>2, <2>2, ContentsChange DEF Store!StoreThrough
    <2> QED BY <1>1, <2>3 DEF StoreStep, Store!Next
  <1> QED BY <1>3, <1>4

LEMMA PowerLossIsStep ==
  ASSUME CInv, IInv', PowerLoss
  PROVE  StoreStep
  <1>1. disk' = disk /\ disk \in [Sectors -> Data] BY DEF PowerLoss, CInv, IInv, ControlInv
  <1>2. \A i \in Slots : cache'[i] = NewSlot BY DEF PowerLoss
  <1>3. \A t \in Sectors, i \in Slots : ~Hit(cache', i, t) BY <1>2, NewIsSlot DEF Hit
  <1>4. \A t \in Sectors : Contents'[t] = disk[t] BY <1>1, <1>3, ContentsAreNext
  <1>5. Contents' = disk BY <1>1, <1>4, ContentsFcn
  <1>6. Store!PowerLoss BY <1>1, <1>5 DEF Store!PowerLoss
  <1> QED BY <1>6 DEF StoreStep, Store!Next

LEMMA NextIsStep == ASSUME Contained PROVE CInv /\ [Next]_vars => StoreStep
  <1> SUFFICES ASSUME CInv, [Next]_vars PROVE StoreStep OBVIOUS
  <1>0. IInv' /\ IInv BY NextKeepsInv DEF CInv
  <1>1. CASE UNCHANGED <<cache, disk>> BY <1>0, <1>1, NothingIsStutter
  <1>2. CASE Call
    <2>1. ASSUME NEW s \in Sectors, flush_sector(s) PROVE StoreStep
      BY <1>0, <1>1, <2>1, FlushSlotIsStep DEF flush_sector
    <2>2. ASSUME flush PROVE StoreStep BY <1>1, <2>2 DEF flush
    <2>3. "read" \in {"read", "read_mut"} /\ "read_mut" \in {"read", "read_mut"} OBVIOUS
    <2> QED BY <1>0, <1>2, <2>1, <2>2, <2>3, ReadIsStep, WriteIsStep, SlotCacheAssumption
            DEF Call
  <1>3. CASE AnotherChance
    <2>1. SlotsInv(cache) /\ hand \in Slots BY <1>0 DEF IInv, ControlInv
    <2>2. \A j \in Slots : /\ cache'[j].is_valid = cache[j].is_valid
                           /\ cache'[j].sector_id = cache[j].sector_id
                           /\ cache'[j].block = cache[j].block
      BY <1>3, <2>1, UnusedKeeps DEF AnotherChance
    <2> QED BY <1>0, <1>3, <2>2, NothingIsStutter DEF AnotherChance
  <1>4. CASE TakeFree \/ TakeClean BY <1>1, <1>4 DEF TakeFree, TakeClean
  <1>5. CASE write_back
    BY <1>0, <1>1, <1>5, FlushSlotIsStep DEF write_back, flush_slot, IInv, ControlInv
  <1>6. CASE flush_next
    BY <1>0, <1>1, <1>6, FlushSlotIsStep DEF flush_next, IInv, ControlInv
  <1>7. CASE Step
    BY <1>0, <1>3, <1>4, <1>5, <1>6, <1>7, FetchIsStep, WriteIoIsStep DEF Step
  <1>8. CASE PowerLoss BY <1>0, <1>8, PowerLossIsStep
  <1> QED BY <1>1, <1>2, <1>7, <1>8 DEF Next, vars

LEMMA InitIsInit == Init => Store!Init
  <1> SUFFICES ASSUME Init PROVE Store!Init OBVIOUS
  <1>1. IInv /\ disk \in [Sectors -> Data] BY InitInv DEF Init
  <1>2. \A t \in Sectors, i \in Slots : ~Hit(cache, i, t) BY NewIsSlot DEF Init, Hit
  <1>3. \A t \in Sectors : Contents[t] = disk[t] BY <1>1, <1>2, ContentsAre
  <1>4. Contents = disk BY <1>1, <1>3, ContentsFcn
  <1> QED BY <1>1, <1>4 DEF Store!Init

(* While a failing device spares buffers and full-block writes, the cache  *)
(* implements the abstract store: evictions, fills, second chances and     *)
(* failed calls of slot_cache.rs never change what a reader sees, and the  *)
(* device only receives current contents.                                  *)
THEOREM CacheIsStore == ASSUME Contained PROVE Spec => StoreSpec
  <1>1. CInv /\ [Next]_vars => [Store!Next]_Store!vars
    BY NextIsStep DEF StoreStep, Store!vars
  <1>2. Spec => Store!Init /\ [][Store!Next]_Store!vars
    BY <1>1, InitIsInit, CInvariance, PTL DEF Spec
  <1> QED BY <1>2 DEF StoreSpec, Store!Spec
=============================================================================
