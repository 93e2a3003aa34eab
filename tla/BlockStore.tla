----------------------------- MODULE BlockStore -----------------------------
(***************************************************************************)
(* What a sector cache in front of a block device promises to its caller:  *)
(* a memory of sectors that reads back what was last stored in it, backed  *)
(* by a durable copy that only ever receives the current contents of the   *)
(* memory, sector by sector, at moments of the cache's choosing.           *)
(***************************************************************************)
CONSTANTS Sectors,  \* the sectors that are accessed through the cache
          Data      \* the possible contents of a sector

VARIABLES mem,      \* the contents a reader of the cache sees
          durable   \* the contents that survive a power loss

vars == <<mem, durable>>

Init == /\ durable \in [Sectors -> Data]
        /\ mem = durable

(* A caller changes a cached sector. *)
Store(s, v) == /\ mem' = [mem EXCEPT ![s] = v]
               /\ UNCHANGED durable

(* A flush or an eviction makes one sector durable. *)
Persist(s) == /\ durable' = [durable EXCEPT ![s] = mem[s]]
              /\ UNCHANGED mem

(* A full block goes straight to the device. *)
StoreThrough(s, v) == /\ mem' = [mem EXCEPT ![s] = v]
                      /\ durable' = [durable EXCEPT ![s] = v]

(* Power is lost: what was only in memory is gone. *)
PowerLoss == /\ mem' = durable
             /\ UNCHANGED durable

Next == \/ \E s \in Sectors, v \in Data : Store(s, v) \/ StoreThrough(s, v)
        \/ \E s \in Sectors : Persist(s)
        \/ PowerLoss

Spec == Init /\ [][Next]_vars
=============================================================================
