----------------------------- MODULE Durability -----------------------------
(***************************************************************************)
(* What is on the device when power is lost.  Operations change sectors in *)
(* the caches and note them in a FileDirty (file.rs); flushing it writes   *)
(* them out, by kind while the list holds them all and cache by cache when *)
(* it overflowed.  A cache writes a dirty sector early when it needs the   *)
(* slot, an error leaves its sectors dirty, and power may be lost between  *)
(* any two sectors.                                                        *)
(***************************************************************************)
EXTENDS Integers, Sequences, FiniteSets

CONSTANTS Names,        \* places for an entry set, each within one sector
          DirSectorOf,  \* the directory sector of each place
          Clusters,     \* the heap
          PerSector,    \* clusters a bitmap or FAT sector describes
          DEFAULT_TOUCHED_SECTORS,
          MaxIds,       \* bounds the files and directories created
          MaxOps,       \* bounds the operations
          MaxTroubles   \* bounds the failed device calls, evictions and power losses

ASSUME DurabilityAssumption ==
  /\ DirSectorOf \in [Names -> 1 .. 9]
  /\ Clusters \subseteq 2 .. 9 /\ PerSector \in Nat \ {0}
  /\ DEFAULT_TOUCHED_SECTORS \in Nat /\ MaxIds \in Nat /\ MaxOps \in Nat
  /\ MaxTroubles \in Nat

VARIABLES mem,      \* the volume as seen through the caches
          disk,     \* the volume as it is on the device
          dirty,    \* sectors that are dirty in a cache
          handle,   \* open files
          call,     \* the operation in progress
          ids,      \* files and directories created so far
          ops, troubles,
          promise,  \* what an operation that returned Ok made durable
          orphan,   \* dirty sectors whose FileDirty is gone
          torn      \* what may have left the device inconsistent

vars == <<mem, disk, dirty, handle, call, ids, ops, troubles, promise, orphan, torn>>

-----------------------------------------------------------------------------
(* Sectors are numbered in the order they have on an exFAT volume. *)

END_OF_CHAIN == -1
NO_CLUSTER_ID == 0

FatSector(c) == 10 + c \div PerSector
BitmapSector(c) == 20 + c \div PerSector
DirSector(n) == 30 + DirSectorOf[n]
DataSector(c) == 40 + c

NoEntry == [id |-> 0, dir |-> FALSE, first |-> NO_CLUSTER_ID, len |-> 0, no_fat_chain |-> TRUE]

Entry(id, dir, first, len, nfc) ==
  [id |-> id, dir |-> dir, first |-> first, len |-> len, no_fat_chain |-> nfc]

(* The part of the volume that sector s holds, taken from new; the rest of old. *)
WithSector(old, new, s) ==
  [used |-> [c \in Clusters |-> IF BitmapSector(c) = s THEN new.used[c] ELSE old.used[c]],
   fat  |-> [c \in Clusters |-> IF FatSector(c) = s THEN new.fat[c] ELSE old.fat[c]],
   dir  |-> [n \in Names |-> IF DirSector(n) = s THEN new.dir[n] ELSE old.dir[n]],
   data |-> [c \in Clusters |-> IF DataSector(c) = s THEN new.data[c] ELSE old.data[c]]]

(* get_stored_chain: the clusters of an entry, by the FAT unless they are
   neighbours; 0 or -1 where the FAT ends early. *)
Chain(vol, e) ==
  LET walk[i \in 1 .. e.len] ==
        IF i = 1 THEN e.first
        ELSE IF e.no_fat_chain THEN e.first + i - 1
        ELSE IF walk[i - 1] \in Clusters THEN vol.fat[walk[i - 1]] ELSE END_OF_CHAIN
  IN  walk

Complete(chain) == \A i \in DOMAIN chain : chain[i] \in Clusters

-----------------------------------------------------------------------------
(* FileDirty *)

NewFileDirty == [sectors |-> {}, overflowed |-> FALSE, is_dir_entry_dirty |-> FALSE]

rank(kind) == CASE kind = "Data" -> 0 [] kind = "Bitmap" -> 1
                [] kind = "Fat" -> 2 [] kind = "Dir" -> 3

(* Mutant of insert: the list grows past its capacity. *)
insert_no_limit(fd, t) ==
  IF \E x \in fd.sectors : x.sector = t.sector THEN fd
  ELSE [fd EXCEPT !.sectors = @ \cup {t}]

(* Mutant of insert: a sector that does not fit is left out silently. *)
insert_drops(fd, t) ==
  IF (\E x \in fd.sectors : x.sector = t.sector)
     \/ Cardinality(fd.sectors) = DEFAULT_TOUCHED_SECTORS THEN fd
  ELSE [fd EXCEPT !.sectors = @ \cup {t}]

insert(fd, t) ==
  IF \E x \in fd.sectors : x.sector = t.sector THEN fd
  ELSE IF Cardinality(fd.sectors) = DEFAULT_TOUCHED_SECTORS
       THEN [fd EXCEPT !.overflowed = TRUE]
  ELSE [fd EXCEPT !.sectors = @ \cup {t}]


(* The sectors that may be written next.  From the list: by kind, then number
   (sort).  After an overflow: all of the FAT cache, then the bitmap cache, then
   the data cache in the order of its slots, directories and data alike. *)
next_to_flush(fd, left) ==
  IF fd.overflowed
  THEN LET stage(t) == CASE t.kind = "Fat" -> 0 [] t.kind = "Bitmap" -> 1 [] OTHER -> 2
       IN  {t \in left : \A x \in left : stage(t) =< stage(x)}
  ELSE {t \in left : \A x \in left :
          \/ rank(t.kind) < rank(x.kind)
          \/ rank(t.kind) = rank(x.kind) /\ t.sector =< x.sector}

KindOfCache(s) ==
  CASE s < 20 -> "Fat" [] s >= 20 /\ s < 30 -> "Bitmap" [] OTHER -> "Data"

(* What a flush of fd writes: its dirty sectors, or every dirty sector there is. *)
to_flush(fd) ==
  IF fd.overflowed THEN {[kind |-> KindOfCache(s), sector |-> s] : s \in dirty}
  ELSE {t \in fd.sectors : t.sector \in dirty}

-----------------------------------------------------------------------------
(* Changes to cached sectors, made one at a time by an operation. *)

Change(kind, at, val) == [kind |-> kind, at |-> at, val |-> val]

SectorOf(ch) == CASE ch.kind = "Bitmap" -> BitmapSector(ch.at)
                  [] ch.kind = "Fat" -> FatSector(ch.at)
                  [] ch.kind = "Dir" -> DirSector(ch.at)
                  [] OTHER -> DataSector(ch.at)

Touches(ch) ==
  [kind |-> IF ch.kind = "Zero" THEN "Dir" ELSE ch.kind, sector |-> SectorOf(ch)]

Apply(vol, ch) == CASE ch.kind = "Bitmap" -> [vol EXCEPT !.used[ch.at] = ch.val]
                    [] ch.kind = "Fat" -> [vol EXCEPT !.fat[ch.at] = ch.val]
                    [] ch.kind = "Dir" -> [vol EXCEPT !.dir[ch.at] = ch.val]
                    [] OTHER -> [vol EXCEPT !.data[ch.at] = ch.val]

Free == {c \in Clusters : ~mem.used[c]}

(* allocation.rs free: the bits of the chain, and its links if it has any. *)
free(e) ==
  LET chain == Chain(mem, e)
      step(c) == <<Change("Bitmap", c, FALSE)>>
                 \o (IF e.no_fat_chain THEN <<>> ELSE <<Change("Fat", c, NO_CLUSTER_ID)>>)
      all[i \in 0 .. e.len] == IF i = 0 THEN <<>> ELSE all[i - 1] \o step(chain[i])
  IN  all[e.len]

(* update_chain: convert to a FAT chain if the new cluster is no neighbour, then
   link it. *)
update_chain(h, c) ==
  LET n == Len(h.chain)
      converts == h.no_fat_chain /\ n > 0 /\ c # h.chain[n] + 1
      nfc == h.no_fat_chain /\ ~converts
      relink == IF converts
                THEN <<Change("Handle", 0, [h EXCEPT !.no_fat_chain = FALSE])>>
                     \o [i \in 1 .. n - 1 |-> Change("Fat", h.chain[i], h.chain[i + 1])]
                ELSE <<>>
      link == IF nfc THEN <<>>
              ELSE (IF n = 0 THEN <<>> ELSE <<Change("Fat", h.chain[n], c)>>)
                   \o <<Change("Fat", c, END_OF_CHAIN)>>
  IN  relink \o link
      \o <<Change("Handle", 0, [h EXCEPT !.no_fat_chain = nfc, !.chain = Append(@, c)])>>

-----------------------------------------------------------------------------
NoHandle == [id |-> 0, chain |-> <<>>, no_fat_chain |-> TRUE]

Idle == [op |-> "idle", name |-> "", todo |-> <<>>, fd |-> NewFileDirty]

Ops == {"create_file", "create_directory", "write", "flush", "truncate_file",
        "delete_inner", "rename", "unmount"}

OnHandle(op) == op \in {"write", "flush"}

None == [id |-> -1]

Init ==
  /\ mem = [used |-> [c \in Clusters |-> FALSE], fat |-> [c \in Clusters |-> NO_CLUSTER_ID],
            dir |-> [n \in Names |-> NoEntry], data |-> [c \in Clusters |-> 0]]
  /\ disk = mem /\ dirty = {}
  /\ handle = [n \in Names |-> [file |-> NoHandle, fd |-> NewFileDirty]]
  /\ call = Idle /\ ids = 0 /\ ops = 0 /\ troubles = 0
  /\ promise = [n \in Names |-> None] /\ orphan = {} /\ torn = {}

(* An operation starts.  The promise made for a name ends when its entry is about
   to change. *)
Start(op, n, todo, fd, ends) ==
  /\ call.op = "idle" /\ ops < MaxOps /\ ops' = ops + 1
  /\ call' = [op |-> op, name |-> n, todo |-> todo, fd |-> fd]
  /\ promise' = [m \in Names |-> IF m \in ends THEN None ELSE promise[m]]
  /\ UNCHANGED <<mem, disk, dirty, handle, troubles, orphan, torn>>

IsOpen(n) == handle[n].file # NoHandle

create_file(n) ==
  /\ mem.dir[n] = NoEntry /\ ids < MaxIds
  /\ ids' = ids + 1
  /\ Start("create_file", n, <<Change("Dir", n, Entry(ids', FALSE, NO_CLUSTER_ID, 0, TRUE))>>,
           NewFileDirty, {n})

create_directory(n) ==
  /\ mem.dir[n] = NoEntry /\ ids < MaxIds
  /\ ids' = ids + 1
  /\ \E c \in Free :
       Start("create_directory", n,
             <<Change("Bitmap", c, TRUE), Change("Zero", c, ids'),
               Change("Dir", n, Entry(ids', TRUE, c, 1, TRUE))>>, NewFileDirty, {n})

open(n) ==
  LET e == mem.dir[n] IN
  /\ call.op = "idle" /\ e.id # 0 /\ ~e.dir /\ ~IsOpen(n)
  /\ Complete(Chain(mem, e))
  /\ handle' = [handle EXCEPT ![n].file =
                  [id |-> e.id, chain |-> Chain(mem, e), no_fat_chain |-> e.no_fat_chain]]
  /\ UNCHANGED <<mem, disk, dirty, call, ids, ops, troubles, promise, orphan, torn>>

(* Append one cluster, with part of a sector (through the cache) or a whole block
   (straight to the device). *)
write(n) ==
  /\ IsOpen(n)
  /\ \E c \in Free, kind \in {"Data", "Block"} :
       Start("write", n,
             <<Change("Bitmap", c, TRUE)>> \o update_chain(handle[n].file, c)
             \o <<Change(kind, c, handle[n].file.id)>>, handle[n].fd, {})
  /\ UNCHANGED ids

(* File::flush writes the entry first if it is dirty. *)
flush(n) ==
  LET h == handle[n].file
      first == IF h.chain = <<>> THEN NO_CLUSTER_ID ELSE h.chain[1]
  IN
  /\ IsOpen(n)
  /\ IF handle[n].fd.is_dir_entry_dirty
     THEN Start("flush", n,
                <<Change("Dir", n, Entry(h.id, FALSE, first, Len(h.chain), h.no_fat_chain))>>,
                handle[n].fd, {n})
     ELSE Start("flush", n, <<>>, handle[n].fd, {})
  /\ UNCHANGED ids

truncate_file(n) ==
  LET e == mem.dir[n] IN
  /\ e.id # 0 /\ ~e.dir /\ ~IsOpen(n) /\ Complete(Chain(mem, e))
  /\ Start("truncate_file", n,
           <<Change("Dir", n, [e EXCEPT !.len = 0, !.first = NO_CLUSTER_ID])>> \o free(e),
           NewFileDirty, {n})
  /\ UNCHANGED ids

delete_inner(n) ==
  LET e == mem.dir[n] IN
  /\ e.id # 0 /\ ~IsOpen(n) /\ Complete(Chain(mem, e))
  /\ Start("delete_inner", n, free(e) \o <<Change("Dir", n, NoEntry)>>, NewFileDirty, {n})
  /\ UNCHANGED ids

rename(n, m) ==
  LET e == mem.dir[n] IN
  /\ e.id # 0 /\ ~IsOpen(n) /\ mem.dir[m] = NoEntry
  /\ Start("rename", m, <<Change("Dir", m, e), Change("Dir", n, NoEntry)>>,
           NewFileDirty, {n, m})
  /\ UNCHANGED ids

(* FileSystem::flush writes the caches as an overflowed list does. *)
unmount ==
  /\ \A n \in Names : ~IsOpen(n)
  /\ Start("unmount", "", <<>>, [NewFileDirty EXCEPT !.overflowed = TRUE], {})
  /\ UNCHANGED ids

-----------------------------------------------------------------------------
(* The next change of the operation in progress reaches its cache. *)
MakeChange ==
  LET ch == Head(call.todo)
      rest == Tail(call.todo)
  IN
  /\ call.todo # <<>>
  /\ \/ /\ ch.kind = "Handle"
        /\ handle' = [handle EXCEPT ![call.name].file = ch.val]
        /\ call' = [call EXCEPT !.todo = rest, !.fd.is_dir_entry_dirty = TRUE]
        /\ UNCHANGED <<mem, disk, dirty, orphan>>
     \/ /\ ch.kind = "Block"
        /\ mem' = Apply(mem, ch) /\ disk' = Apply(disk, ch)
        /\ dirty' = dirty \ {SectorOf(ch)} /\ orphan' = orphan \ {SectorOf(ch)}
        /\ call' = [call EXCEPT !.todo = rest]
        /\ UNCHANGED handle
     \/ /\ ch.kind \notin {"Handle", "Block"}
        /\ mem' = Apply(mem, ch) /\ dirty' = dirty \cup {SectorOf(ch)}
        /\ call' = [call EXCEPT !.todo = rest, !.fd = insert(@, Touches(ch))]
        /\ UNCHANGED <<disk, handle, orphan>>
  /\ UNCHANGED <<ids, ops, troubles, promise, torn>>

Flushing == call.op # "idle" /\ call.op # "write" /\ call.todo = <<>>

(* Operations whose sectors, half of them written, do not describe a volume. *)
InWindow ==
  \/ call.op \in {"create_directory", "truncate_file", "delete_inner", "rename"}
  \/ Flushing /\ call.fd.overflowed

(* What is left dirty when a FileDirty goes away. *)
Abandoned(fd) ==
  IF fd.overflowed THEN dirty ELSE {s \in dirty : \E t \in fd.sectors : t.sector = s}

(* The operation returns an error.  A file keeps its FileDirty; other operations
   drop theirs; unmount drops the caches. *)
ReturnError(fd) ==
  /\ troubles < MaxTroubles /\ troubles' = troubles + 1
  /\ call' = Idle /\ torn' = torn \cup {IF InWindow THEN "half" ELSE "error"}
  /\ IF OnHandle(call.op)
     THEN handle' = [handle EXCEPT ![call.name].fd = fd] /\ UNCHANGED <<mem, dirty, orphan>>
     ELSE IF call.op = "unmount"
     THEN mem' = disk /\ dirty' = {} /\ orphan' = {} /\ UNCHANGED handle
     ELSE orphan' = orphan \cup Abandoned(fd) /\ UNCHANGED <<mem, dirty, handle>>
  /\ UNCHANGED <<disk, ids, ops, promise>>

(* The device fails while the sector to change is read, or the block written. *)
ChangeFails ==
  /\ call.todo # <<>> /\ Head(call.todo).kind # "Handle"
  /\ ReturnError(IF Head(call.todo).kind = "Fat" THEN insert(call.fd, Touches(Head(call.todo)))
                 ELSE call.fd)

FlushSector ==
  /\ Flushing
  /\ \E t \in next_to_flush(call.fd, to_flush(call.fd)) :
       /\ disk' = WithSector(disk, mem, t.sector)
       /\ dirty' = dirty \ {t.sector} /\ orphan' = orphan \ {t.sector}
  /\ UNCHANGED <<mem, handle, call, ids, ops, troubles, promise, torn>>

FlushFails == Flushing /\ to_flush(call.fd) # {} /\ ReturnError(call.fd)

(* What the volume says of the file or directory in place n. *)
View(vol, n) ==
  LET e == vol.dir[n]
      chain == Chain(vol, e)
  IN  [id |-> e.id, entry |-> e, chain |-> chain,
       stored |-> [i \in DOMAIN chain |-> IF chain[i] \in Clusters
                     THEN <<vol.used[chain[i]], vol.data[chain[i]]>> ELSE <<>>]]

(* The chain of n is complete and allocated, holds its data and is in no other. *)
Sound(vol, n) ==
  LET chain == Chain(vol, vol.dir[n]) IN
  \A i \in DOMAIN chain :
    /\ chain[i] \in Clusters
    /\ vol.used[chain[i]]
    /\ vol.data[chain[i]] = vol.dir[n].id
    /\ \A m \in Names : LET other == Chain(vol, vol.dir[m]) IN
         \A j \in DOMAIN other : other[j] = chain[i] => m = n /\ i = j

(* The sectors that hold what the volume says of n. *)
Supports(n) ==
  LET chain == Chain(mem, mem.dir[n])
  IN  {DirSector(n)} \cup UNION {{DataSector(c), BitmapSector(c), FatSector(c)} :
                                c \in Clusters \cap {chain[i] : i \in DOMAIN chain}}

(* The operation returns Ok. *)
Return ==
  /\ call.op # "idle" /\ call.todo = <<>>
  /\ call.op = "write" \/ to_flush(call.fd) = {}
  /\ call' = Idle
  /\ handle' = IF OnHandle(call.op)
               THEN [handle EXCEPT ![call.name].fd =
                       IF call.op = "write" THEN call.fd ELSE NewFileDirty]
               ELSE handle
  /\ promise' = IF /\ call.op \notin {"write", "unmount"}
                   /\ "half" \notin torn
                   /\ call.op = "flush" => call.fd.is_dir_entry_dirty
                   /\ Supports(call.name) \cap orphan = {} /\ Sound(mem, call.name)
                THEN [promise EXCEPT ![call.name] = View(mem, call.name)]
                ELSE promise
  /\ UNCHANGED <<mem, disk, dirty, ids, ops, troubles, orphan, torn>>

(* A file is dropped without close; File has no Drop. *)
drop(n) ==
  /\ call.op = "idle" /\ IsOpen(n)
  /\ orphan' = orphan \cup Abandoned(handle[n].fd)
  /\ handle' = [handle EXCEPT ![n] = [file |-> NoHandle, fd |-> NewFileDirty]]
  /\ UNCHANGED <<mem, disk, dirty, call, ids, ops, troubles, promise, torn>>

(* A cache writes a dirty sector to reuse its slot: any access may need one. *)
evict ==
  /\ ~Flushing /\ troubles < MaxTroubles /\ troubles' = troubles + 1
  /\ \E s \in dirty :
       /\ disk' = WithSector(disk, mem, s)
       /\ dirty' = dirty \ {s} /\ orphan' = orphan \ {s}
       /\ torn' = IF \E n \in Names : s = DirSector(n) THEN torn \cup {"evict"} ELSE torn
  /\ UNCHANGED <<mem, handle, call, ids, ops, promise>>

PowerLoss ==
  /\ troubles < MaxTroubles /\ troubles' = troubles + 1
  /\ mem' = disk /\ dirty' = {} /\ orphan' = {} /\ call' = Idle
  /\ handle' = [n \in Names |-> [file |-> NoHandle, fd |-> NewFileDirty]]
  /\ torn' = IF InWindow THEN torn \cup {"half"} ELSE torn
  /\ UNCHANGED <<disk, ids, ops, promise>>

Next ==
  \/ \E n \in Names : create_file(n) \/ create_directory(n) \/ open(n) \/ write(n) \/ flush(n)
                      \/ truncate_file(n) \/ delete_inner(n) \/ drop(n)
  \/ \E n, m \in Names : rename(n, m)
  \/ unmount \/ MakeChange \/ ChangeFails \/ FlushSector \/ FlushFails \/ Return
  \/ evict \/ PowerLoss

Spec == Init /\ [][Next]_vars

-----------------------------------------------------------------------------
(* The state is well formed, and a list never holds more than its capacity. *)
TypeOK ==
  /\ dirty \subseteq 10 .. 49 /\ orphan \subseteq dirty
  /\ \A vol \in {mem, disk} : /\ vol.used \in [Clusters -> BOOLEAN]
                             /\ vol.data \in [Clusters -> 0 .. ids]
                             /\ \A n \in Names : vol.dir[n].id \in 0 .. ids
  /\ call.op \in Ops \cup {"idle"}
  /\ \A fd \in {call.fd} \cup {handle[n].fd : n \in Names} :
       Cardinality(fd.sectors) =< DEFAULT_TOUCHED_SECTORS

(* "You need to close or flush a file to make it durable" (README.md): what an
   operation that returned Ok left of a file or directory is on the device, whether
   the list overflowed or not, after earlier errors, and through power loss, until
   an operation changes its entry again.  Not promised: sectors left dirty by a
   FileDirty that was dropped, by an error or without close, and anything after an
   error or power loss half way through a removal, truncation or rename. *)
ReturnedIsDurable ==
  \A n \in Names : promise[n] # None => View(disk, n) = promise[n]


=============================================================================
