------------------------------- MODULE Layout -------------------------------
(***************************************************************************)
(* Where bytes, FAT entries and bitmap bits are on the volume: the         *)
(* arithmetic of file_system.rs, file.rs, fat.rs and allocation.rs.  The   *)
(* other modules treat heap, FAT and bitmap as functions of a cluster and  *)
(* a position; the theorems here justify that: different arguments never   *)
(* share a place on the device.                                            *)
(*                                                                         *)
(* SIZE is the sector size the crate is built with, d what mount keeps of  *)
(* the boot sector.  Sector numbers are natural numbers: the code has them *)
(* as u32, enough for a volume of 2^32 sectors.                            *)
(***************************************************************************)
EXTENDS Integers, TLAPS

Positive == Nat \ {0}
ClusterId == Nat \ {0, 1}

(* FileSystemDetails::new from the boot sector's fields.                   *)
Details(heap, fat, bytes_per_sector, sectors_per_cluster) ==
  [cluster_heap_offset |-> heap, fat_offset |-> fat,
   sectors_per_cluster |-> sectors_per_cluster,
   cluster_length |-> bytes_per_sector * sectors_per_cluster]

get_heap_sector_id(d, c) == d.cluster_heap_offset + (c - 2) * d.sectors_per_cluster

get_cluster_offset(d, cursor) == cursor % d.cluster_length

get_current_sector_id(SIZE, d, cursor, c) ==
  get_heap_sector_id(d, c) + (get_cluster_offset(d, cursor) \div SIZE)

(* The sector and the byte in it that write and read use for a cursor in   *)
(* cluster c.                                                              *)
WritePlace(SIZE, d, cursor, c) == <<get_current_sector_id(SIZE, d, cursor, c), cursor % SIZE>>
ReadPlace(SIZE, d, cursor, c) ==
  <<get_heap_sector_id(d, c) + (get_cluster_offset(d, cursor) \div SIZE),
    get_cluster_offset(d, cursor) % SIZE>>

(* The FAT's sector for a cluster and the entry in it; a sector has n, the *)
(* code's num_entries().                                                   *)
get_sector_id(n, d, c) == d.fat_offset + (c \div n)
FatPlace(n, d, c) == <<get_sector_id(n, d, c), c % n>>

(* BitmapPos::of and BitmapPos::cluster, with n = SIZE * 8 bits a sector.  *)
of(n, c) == [sector |-> (c - 2) \div n, bit |-> (c - 2) % n]
cluster(n, pos) == pos.sector * n + pos.bit + 2

-----------------------------------------------------------------------------
(* Division with remainder takes a number apart into two parts ...         *)
LEMMA Divide ==
  ASSUME NEW w \in Positive, NEW b \in Nat
  PROVE  b \div w \in Nat /\ b % w \in 0 .. w - 1 /\ b = (b \div w) * w + (b % w)
BY SMT DEF Positive

(* ... and these two only.                                                 *)
LEMMA Compose ==
  ASSUME NEW w \in Positive, NEW a \in Nat, NEW k \in 0 .. w - 1
  PROVE  (a * w + k) \div w = a /\ (a * w + k) % w = k
BY SMT DEF Positive

(* The offset of a cursor in its cluster, taken apart into a sector and a  *)
(* byte: the sector is one of the cluster's, the byte the one the cursor   *)
(* has without regard to clusters.                                         *)
LEMMA Nested ==
  ASSUME NEW w \in Positive, NEW s \in Positive, NEW p \in Nat
  PROVE  /\ (p % (w * s)) % w = p % w
         /\ (p % (w * s)) \div w \in 0 .. s - 1
<1>1. w * s \in Positive BY SMT DEF Positive
<1>2. PICK q \in Nat, r \in Nat : r < w * s /\ r = p % (w * s) /\ p = q * (w * s) + r
  BY <1>1, Divide, SMT DEF Positive
<1>3. PICK t \in Nat, k \in 0 .. w - 1 : t = r \div w /\ k = r % w /\ r = t * w + k
  BY Divide, SMT DEF Positive
<1>4. t < s
  <2>1. t >= s => t * w >= s * w BY SMT DEF Positive
  <2> QED BY <2>1, <1>2, <1>3, SMT DEF Positive
<1>5. p = (q * s + t) * w + k BY <1>2, <1>3, SMT DEF Positive
<1>6. q * s + t \in Nat BY SMT DEF Positive
<1>7. p % w = k BY <1>5, <1>6, Compose
<1> QED BY <1>2, <1>3, <1>4, <1>7, SMT DEF Positive

(* Two parts of a number are told apart by the number.                     *)
LEMMA Apart ==
  ASSUME NEW w \in Positive, NEW a \in Nat, NEW b \in Nat,
         NEW k \in 0 .. w - 1, NEW l \in 0 .. w - 1, a * w + k = b * w + l
  PROVE  a = b /\ k = l
BY Compose

-----------------------------------------------------------------------------
(* A volume for this build: its sectors are SIZE bytes long.  Mount does   *)
(* not check that ("TODO: run checks", read_boot_sector).                  *)
Volume(SIZE, d) ==
  \E heap \in Nat, fat \in Nat, s \in Positive : d = Details(heap, fat, SIZE, s)

(* What mount keeps of such a volume.                                      *)
LEMMA VolumeFields ==
  ASSUME NEW SIZE \in Positive, NEW d, Volume(SIZE, d)
  PROVE  /\ d.cluster_heap_offset \in Nat /\ d.fat_offset \in Nat
         /\ d.sectors_per_cluster \in Positive
         /\ d.cluster_length = SIZE * d.sectors_per_cluster
BY DEF Volume, Details

(* A byte is read where it was written: read takes the byte's place in its *)
(* sector from the offset in the cluster, write_partial_sector from the    *)
(* cursor.                                                                 *)
THEOREM ReadsWhereWritten ==
  ASSUME NEW SIZE \in Positive, NEW d, Volume(SIZE, d), NEW cursor \in Nat, NEW c \in ClusterId
  PROVE  ReadPlace(SIZE, d, cursor, c) = WritePlace(SIZE, d, cursor, c)
<1>1. get_cluster_offset(d, cursor) % SIZE = cursor % SIZE
  BY VolumeFields, Nested DEF get_cluster_offset
<1> QED BY <1>1 DEF ReadPlace, WritePlace, get_current_sector_id

(* Bytes of different clusters, or at different offsets of one cluster,    *)
(* have different places: a write at a cursor changes no other byte of any *)
(* file or directory.                                                      *)
THEOREM BytesApart ==
  ASSUME NEW SIZE \in Positive, NEW d, Volume(SIZE, d),
         NEW p \in Nat, NEW q \in Nat, NEW c \in ClusterId, NEW e \in ClusterId,
         WritePlace(SIZE, d, p, c) = WritePlace(SIZE, d, q, e)
  PROVE  c = e /\ get_cluster_offset(d, p) = get_cluster_offset(d, q)
<1> DEFINE s == d.sectors_per_cluster
           m == get_cluster_offset(d, p)
           n == get_cluster_offset(d, q)
<1>1. /\ s \in Positive /\ d.cluster_heap_offset \in Nat
      /\ d.cluster_length = SIZE * s
  BY VolumeFields
<1>2. SIZE * s \in Positive BY <1>1, SMT DEF Positive
<1>3. m \in Nat /\ n \in Nat
  <2> DEFINE L == SIZE * s
  <2> HIDE DEF L
  <2>1. \A x \in Nat : x % L \in 0 .. L - 1 BY <1>2, Divide DEF L
  <2>2. \A x \in Nat : x % L \in Nat BY <2>1, <1>2, SMT DEF Positive, L
  <2> QED BY <1>1, <2>2 DEF get_cluster_offset, L
<1>4. /\ m \div SIZE \in 0 .. s - 1 /\ n \div SIZE \in 0 .. s - 1
      /\ m % SIZE = p % SIZE /\ n % SIZE = q % SIZE
  BY <1>1, Nested DEF get_cluster_offset
<1>5. /\ get_heap_sector_id(d, c) + (m \div SIZE) = get_heap_sector_id(d, e) + (n \div SIZE)
      /\ p % SIZE = q % SIZE
  BY DEF WritePlace, get_current_sector_id
<1> HIDE DEF s, m, n
<1>6. c - 2 \in Nat /\ e - 2 \in Nat BY SMT DEF ClusterId
<1>7. (c - 2) * s + (m \div SIZE) = (e - 2) * s + (n \div SIZE)
  <2> DEFINE h == d.cluster_heap_offset
             a == (c - 2) * s
             b == (e - 2) * s
             k == m \div SIZE
             l == n \div SIZE
  <2>1. (h + a) + k = (h + b) + l BY <1>5 DEF get_heap_sector_id, s
  <2>2. h \in Nat /\ k \in Nat /\ l \in Nat BY <1>1, <1>4, SMT DEF Positive
  <2>3. a \in Nat /\ b \in Nat BY <1>1, <1>6, SMT DEF Positive
  <2> HIDE DEF h, a, b, k, l
  <2>4. a + k = b + l BY <2>1, <2>2, <2>3, SMT
  <2> QED BY <2>4 DEF a, b, k, l
<1>8. c - 2 = e - 2 /\ m \div SIZE = n \div SIZE
  BY <1>1, <1>4, <1>6, <1>7, Apart
<1>9. m = n
  <2>1. m = (m \div SIZE) * SIZE + (m % SIZE) /\ n = (n \div SIZE) * SIZE + (n % SIZE)
    BY <1>3, Divide
  <2> QED BY <2>1, <1>4, <1>5, <1>8
<1> QED BY <1>8, <1>9, SMT DEF m, n, ClusterId

(* Different clusters have different entries in the FAT.                   *)
THEOREM FatEntriesApart ==
  ASSUME NEW n \in Positive, NEW d, d.fat_offset \in Nat,
         NEW c \in ClusterId, NEW e \in ClusterId, FatPlace(n, d, c) = FatPlace(n, d, e)
  PROVE  c = e
<1>1. d.fat_offset + (c \div n) = d.fat_offset + (e \div n) /\ c % n = e % n
  BY DEF FatPlace, get_sector_id
<1>2. c \in Nat /\ e \in Nat BY DEF ClusterId
<1>3. c = (c \div n) * n + (c % n) /\ e = (e \div n) * n + (e % n)
      /\ c \div n \in Nat /\ e \div n \in Nat
  BY <1>2, Divide
<1>4. c \div n = e \div n BY <1>1, <1>3, SMT
<1> QED BY <1>1, <1>3, <1>4

(* If the FAT's sectors for the clusters of the heap end before the heap,  *)
(* setting a link never changes a byte of a file or directory.             *)
THEOREM FatOutsideHeap ==
  ASSUME NEW SIZE \in Positive, NEW n \in Positive, NEW d, Volume(SIZE, d),
         NEW last \in ClusterId, get_sector_id(n, d, last) < d.cluster_heap_offset,
         NEW c \in ClusterId, c <= last, NEW e \in ClusterId, NEW cursor \in Nat
  PROVE  get_sector_id(n, d, c) < get_current_sector_id(SIZE, d, cursor, e)
<1> DEFINE k == get_cluster_offset(d, cursor) \div SIZE
<1>1. /\ d.cluster_heap_offset \in Nat /\ d.fat_offset \in Nat
      /\ d.sectors_per_cluster \in Positive
      /\ d.cluster_length = SIZE * d.sectors_per_cluster
  BY VolumeFields
<1>2. k \in Nat BY <1>1, Nested, SMT DEF get_cluster_offset, Positive
<1>3. (e - 2) * d.sectors_per_cluster \in Nat BY <1>1, SMT DEF ClusterId, Positive
<1>4. c \div n <= last \div n /\ c \div n \in Nat /\ last \div n \in Nat
  BY SMT DEF ClusterId, Positive
<1> HIDE DEF k
<1> QED BY <1>1, <1>2, <1>3, <1>4, SMT
        DEF get_sector_id, get_current_sector_id, get_heap_sector_id, k

(* BitmapPos::of and BitmapPos::cluster are inverses: every cluster has a  *)
(* bit of its own, and every bit of the bitmap a cluster.                  *)
THEOREM BitmapBitsApart ==
  ASSUME NEW n \in Positive, NEW c \in ClusterId,
         NEW pos \in [sector : Nat, bit : 0 .. n - 1]
  PROVE  cluster(n, of(n, c)) = c /\ of(n, cluster(n, pos)) = pos
<1>1. c - 2 \in Nat BY SMT DEF ClusterId
<1>2. ((c - 2) \div n) * n + ((c - 2) % n) = c - 2
  <2> DEFINE i == c - 2
  <2> HIDE DEF i
  <2>1. (i \div n) * n + (i % n) = i BY <1>1, Divide DEF i
  <2> QED BY <2>1 DEF i
<1>3. cluster(n, of(n, c)) = c
  <2>1. cluster(n, of(n, c)) = ((c - 2) \div n) * n + ((c - 2) % n) + 2 BY DEF cluster, of
  <2> QED BY <2>1, <1>2, SMT DEF ClusterId
<1>4. pos.sector \in Nat /\ pos.bit \in 0 .. n - 1 OBVIOUS
<1>5. cluster(n, pos) - 2 = pos.sector * n + pos.bit
  BY <1>4, SMT DEF cluster, Positive
<1>6. of(n, cluster(n, pos)) = [sector |-> pos.sector, bit |-> pos.bit]
  BY <1>4, <1>5, Compose DEF of
<1> QED BY <1>3, <1>6
=============================================================================
