------------------------------ MODULE Directory -----------------------------
(***************************************************************************)
(* The directory tree: how directory_entry.rs and directory.rs walk the    *)
(* entries of a directory to find a name, follow a path and list a         *)
(* directory, and how file_system.rs finds room for an entry set, creates  *)
(* missing directories, renames, moves and removes.  A set is a file       *)
(* entry, a stream extension and name entries.  The walk follows a         *)
(* directory's clusters; the writers step from sector to sector, whatever  *)
(* cluster comes next on the volume.                                       *)
(***************************************************************************)
EXTENDS Names, FiniteSets

CONSTANTS Paths,        \* the paths callers use: sequences of names
          MaxOpen,      \* bounds the open files and listings
          PerSector,    \* entries in a sector
          PerCluster,   \* entries in a cluster
          Root,         \* the root directory's clusters, in the order of the FAT
          Systems,      \* entries of bitmap, upcase table and label, first in the root
          Heap,         \* clusters that are free at the start
          ClusterCount, \* clusters of the volume, numbered from 0 here
          Ids,          \* what entries point to; bounds the entries
          Allowed       \* what callers do: a subset of Cases

Cases == {"cluster_end",   \* ask for a set that does not fit its cluster
          "same_name",     \* give a file and a directory, or two files, one name
          "blanks",        \* create a name with blanks around it
          "own_subtree",   \* move a directory into itself
          "stale_handle",  \* remove or rename what is open or being listed
          "list_ahead"}    \* remove or rename what a listing has yet to reach

ASSUME DirectoryAssumption ==
  /\ PerSector \in Nat \ {0} /\ PerCluster % PerSector = 0
  /\ Root \in Seq(0 .. ClusterCount - 1) /\ Root # <<>>
  /\ \A i, j \in DOMAIN Root : Root[i] = Root[j] => i = j
  /\ Systems \in 0 .. PerCluster
  /\ Heap \subseteq 0 .. ClusterCount - 1 /\ \A i \in DOMAIN Root : Root[i] \notin Heap
  /\ \A path \in Paths : path # <<>> /\ \A i \in DOMAIN path : ValidName(Trim(path[i]))
  /\ Ids \subseteq Nat \ {0} /\ Allowed \subseteq Cases

VARIABLES entry,   \* the 32-byte entries of the whole volume
          used,    \* clusters of Heap that the bitmap has marked
          lost,    \* clusters marked by an operation that then failed
          live,    \* the files and directories that exist, by path
          handle,  \* open files
          iter     \* the listing in progress

vars == <<entry, used, lost, live, handle, iter>>

-----------------------------------------------------------------------------
(* Entries and directories *)

Kinds == {"Archive", "Directory"}
Places == 0 .. PerCluster * ClusterCount - 1
RootDir == Root[1]

(* The spellings of names that lookups meet, with their hashes. *)
Spellings == UNION {UNION {{n, Trim(n), Upcased(Trim(n))} : n \in {path[i] : i \in DOMAIN path}}
                    : path \in Paths}
Trimmed == [n \in Spellings |-> Trim(n)]
HashOf == [n \in Spellings |-> name_hash(n)]
KeyOf == [n \in Spellings |-> Upcased(Trim(n))]

(* A directory is known by its first cluster; created ones have no other. *)
Clusters(d) == IF d = RootDir THEN Root ELSE <<d>>
Size(d) == PerCluster * Len(Clusters(d))
PlaceOf == [d \in Heap \cup {RootDir} |-> [i \in 0 .. Size(d) - 1 |->
              Clusters(d)[(i \div PerCluster) + 1] * PerCluster + (i % PerCluster)]]
Phys(d, i) == PlaceOf[d][i]
InCluster(c) == {c * PerCluster + o : o \in 0 .. PerCluster - 1}

NO_CLUSTER_ID == -1   \* what the entry of an empty file names

EndOfDirectory == [type |-> "end"]
Unused == [type |-> "unused"]
System == [type |-> "system"]     \* bitmap, upcase table or volume label
Foreign == [type |-> "foreign"]   \* the data of some file
Free(e) == e.type \in {"end", "unused"}

FileDirEntry(kind, count, sum) ==
  [type |-> "file", file_attributes |-> kind, secondary_count |-> count, set_checksum |-> sum]
StreamExtensionDirEntry(name, first, length, id) ==
  [type |-> "stream", name_hash |-> HashOf[name], name_length |-> Len(name),
   first_cluster |-> first, data_length |-> length, id |-> id]
FileNameDirEntry(units) == [type |-> "name", file_name |-> units]

(* calc_checksum, as what it is computed from: the set without the checksum. *)
Checksum(kind, rest) == <<kind, Len(rest), rest>>

-----------------------------------------------------------------------------
(* Walking and finding *)

Least(S) == {c \in S : \A d \in S : c =< d}

AllPassFilter == [name |-> <<>>, hash |-> 0, kind |-> "any"]
ExactNameFilter(name, kind) == [name |-> name, hash |-> HashOf[name], kind |-> kind]

(* The filter's hash and file_name_length. *)
PassesStream(f, file, stream) ==
  f = AllPassFilter \/ /\ f.hash = stream.name_hash
                       /\ f.kind \in {"any", file.file_attributes}
                       /\ Len(f.name) = stream.name_length

(* Mutant of PassesName: only the hash and the length are compared. *)
PassesName_hash_only(f, units, k) == TRUE

(* The filter's file_name, on the units of the k-th name entry. *)
PassesName(f, units, k) ==
  f = AllPassFilter \/ Upcased(Chunk(f.name, k)) = Upcased(units)

(* next_file_entry from index i of n entries e: the index of the first set that
   passes the filter, as a set that is empty when the walk ends before.  The end
   marker ends it, and so does a set whose next entry is not of the type due. *)
next_file_entry(e, n, i, f) ==
  LET typed(p, type) == p < n /\ e[p].type = type
      names[p \in i .. n + 1, k \in 1 .. n] ==
        IF ~typed(p + 1 + k, "name") THEN "broken"
        ELSE IF ~PassesName(f, e[p + 1 + k].file_name, k) THEN "other"
        ELSE IF k = NameEntries(e[p + 1].name_length) THEN "match" ELSE names[p, k + 1]
      verdict(p) == IF ~typed(p + 1, "stream") THEN "broken"
                    ELSE IF PassesStream(f, e[p], e[p + 1]) THEN names[p, 1] ELSE "other"
      walk[p \in i .. n + 1] ==
        IF p >= n \/ typed(p, "end") THEN {}
        ELSE IF ~typed(p, "file") THEN walk[p + 1]
        ELSE LET v == verdict(p)
             IN  IF v = "match" THEN {p} ELSE IF v = "broken" THEN {} ELSE walk[p + 2]
  IN  walk[i]

(* What a lookup returns: where the set is, and its file entry and stream. *)
FileDetails(v, d, i) ==
  LET file == v[Phys(d, i)]
  IN  [dir |-> d, index |-> i, attributes |-> file.file_attributes,
       secondary_count |-> file.secondary_count, stream |-> v[Phys(d, i + 1)]]

Location(details) == Phys(details.dir, details.index)

(* The set with that name in directory d, if there is one. *)
Find(v, d, name, kind) ==
  LET e == [i \in 0 .. Size(d) - 1 |-> v[Phys(d, i)]]
  IN  {FileDetails(v, d, i) : i \in next_file_entry(e, Size(d), 0, ExactNameFilter(name, kind))}

SubDirectory(v, d, name) == {f.stream.first_cluster : f \in Find(v, d, name, "Directory")}

(* What path leads to; every part is trimmed, every part but the last a directory. *)
get_leaf_file_entry(v, path, kind) ==
  LET dirs[k \in 0 .. Len(path) - 1] ==
        IF k = 0 THEN {RootDir}
        ELSE UNION {SubDirectory(v, d, Trimmed[path[k]]) : d \in dirs[k - 1]}
  IN  UNION {Find(v, d, Trimmed[path[Len(path)]], kind) : d \in dirs[Len(path) - 1]}

-----------------------------------------------------------------------------
(* Writing *)

(* find_empty_dir_entry_set: the start of the first run of n free entries, or of
   a shorter run that reaches the end of the directory; -1 if none. *)
find_empty_dir_entry_set(v, d, n) ==
  LET scan[i \in 0 .. Size(d), start \in -1 .. Size(d)] ==
        IF i = Size(d) \/ (start # -1 /\ i - start = n) THEN start
        ELSE IF ~Free(v[Phys(d, i)]) THEN scan[i + 1, -1]
        ELSE scan[i + 1, IF start = -1 THEN i ELSE start]
  IN  scan[0, -1]

CrossesCluster(i, n) == (i % PerCluster) + n > PerCluster


EntrySet(name, kind, first, length, id) ==
  LET rest == <<StreamExtensionDirEntry(name, first, length, id)>>
              \o [k \in 1 .. NameEntries(Len(name)) |-> FileNameDirEntry(Chunk(name, k))]
  IN  <<FileDirEntry(kind, Len(rest), Checksum(kind, rest))>> \o rest

(* DirSetWriter goes from entry to entry of the volume. *)
DirSetWriter(v, at, set) ==
  [p \in Places |-> IF p \in at .. at + Len(set) - 1 THEN set[p - at + 1] ELSE v[p]]

mark_directory_entry_set_unused(v, at, n) ==
  [p \in Places |-> IF p \in at .. at + n - 1 THEN Unused ELSE v[p]]

zero_cluster(v, c) == [p \in Places |-> IF p \in InCluster(c) THEN EndOfDirectory ELSE v[p]]

-----------------------------------------------------------------------------
(* An operation works on a volume: its entries, bitmap and what exists.  ok is
   false once it has failed, legal once it has left the cases callers keep to.
   Each part of it gives the set of volumes it may leave. *)

Volume == [entry |-> entry, used |-> used, lost |-> lost, live |-> live,
           at |-> RootDir, ok |-> TRUE, legal |-> TRUE]

InUse(vol) == {x.id : x \in vol.live} \cup {h.stream.id : h \in handle}
NewId(vol) == IF Ids \subseteq InUse(vol) THEN {0} ELSE Least(Ids \ InUse(vol))
Live(path, kind, id) == [path |-> path, kind |-> kind, id |-> id]
Key(path) == [i \in DOMAIN path |-> KeyOf[path[i]]]   \* names are equal up to case
Parent(path) == SubSeq(path, 1, Len(path) - 1)
NameOf(path) == path[Len(path)]
NameTaken(vol, path) == \E x \in vol.live : x.path = Key(path)

(* A set for path in directory vol.at, for a file or directory that is there
   already (id) or new. *)
create_file_dir_entry_at(vol, path, kind, first, length, id) ==
  LET n == calc_dir_entry_set_len(Len(NameOf(path)))
      legal(i) == /\ "cluster_end" \in Allowed \/ ~CrossesCluster(i, n)
                  /\ "same_name" \in Allowed \/ ~NameTaken(vol, path)
                  /\ "blanks" \in Allowed \/ NameOf(path) = Trimmed[NameOf(path)]
                  /\ id # 0   \* within the bound
  IN  {IF i = -1 THEN [vol EXCEPT !.ok = FALSE]
       ELSE [vol EXCEPT !.entry = DirSetWriter(@, Phys(vol.at, i),
                                               EntrySet(NameOf(path), kind, first, length, id)),
                        !.live = @ \cup {Live(Key(path), kind, id)},
                        !.legal = @ /\ legal(i)]
       : i \in {find_empty_dir_entry_set(vol.entry, vol.at, n)}}

(* Mutant of WithCluster: the bit before is set. *)
WithCluster_bit_before(vol, c) ==
  [vol EXCEPT !.used = @ \cup {c - 1}, !.entry = zero_cluster(@, c)]

(* allocate marks the cluster, then it is zeroed. *)
WithCluster(vol, c) == [vol EXCEPT !.used = @ \cup {c}, !.entry = zero_cluster(@, c)]

(* If there is no room for the entry the cluster stays marked.  Which of the free
   clusters is found does not matter here. *)
MakeDirectory(vol, path) ==
  IF Heap \subseteq vol.used THEN {[vol EXCEPT !.ok = FALSE]}
  ELSE UNION {{IF made.ok THEN [made EXCEPT !.at = c] ELSE [made EXCEPT !.lost = @ \cup {c}]
               : made \in create_file_dir_entry_at(WithCluster(vol, c), path, "Directory", c, 1, id)}
              : c \in Least(Heap \ vol.used), id \in NewId(vol)}

(* Follow path, making the directories that are missing. *)
get_or_create_directory(vol, path) ==
  LET step(v, k) ==
        LET found == SubDirectory(v.entry, v.at, Trimmed[path[k]])
        IN  IF found # {} THEN {[v EXCEPT !.at = d] : d \in found}
            ELSE MakeDirectory(v, Append(SubSeq(path, 1, k - 1), Trimmed[path[k]]))
      walk[k \in 0 .. Len(path)] ==
        IF k = 0 THEN {vol}
        ELSE UNION {IF v.ok THEN step(v, k) ELSE {v} : v \in {w \in walk[k - 1] : w.legal}}
  IN  walk[Len(path)]

(* The operation ends, well or with an error, and leaves vol. *)
Commit(vol) ==
  /\ vol.legal
  /\ entry' = vol.entry /\ used' = vol.used /\ lost' = vol.lost /\ live' = vol.live

(* A new file at path, whose directories are made if they are missing. *)
AddFile(path, length) ==
  UNION {IF vol.ok THEN UNION {create_file_dir_entry_at(vol, path, "Archive", NO_CLUSTER_ID, length, id)
                               : id \in NewId(vol)} ELSE {vol}
         : vol \in get_or_create_directory(Volume, Parent(path))}

(* open with create, when no file is found. *)
create_file(path) ==
  /\ get_leaf_file_entry(entry, path, "Archive") = {}
  /\ \E vol \in AddFile(path, 0) : Commit(vol)
  /\ UNCHANGED <<handle, iter>>

create_directory(path) ==
  /\ get_leaf_file_entry(entry, path, "Directory") = {}
  /\ \E vol \in get_or_create_directory(Volume, path) : Commit(vol)
  /\ UNCHANGED <<handle, iter>>

(* copy does not look for the target at all.  To copy an empty file is refused: the
   search for no clusters returns a run of another length. *)
copy(from, to) ==
  /\ from # to
  /\ \E f \in get_leaf_file_entry(entry, from, "Archive") :
       /\ f.stream.data_length > 0
       /\ \E vol \in AddFile(to, f.stream.data_length) : Commit(vol)
  /\ UNCHANGED <<handle, iter>>

(* May what a lookup found go?  The cases callers keep to. *)
MayGo(f) ==
  /\ "stale_handle" \notin Allowed => /\ f.stream.id \notin {h.stream.id : h \in handle}
                                     /\ ~(iter.on /\ iter.dir = f.stream.first_cluster)
  /\ "list_ahead" \notin Allowed => ~(iter.on /\ iter.dir = f.dir /\ f.index >= iter.pos)

Under(path, dir) == Len(path) >= Len(dir) /\ SubSeq(path, 1, Len(dir)) = dir

(* What exists after everything at or under from is at or under to. *)
Moved(all, from, to) ==
  {IF Under(x.path, from)
   THEN [x EXCEPT !.path = to \o SubSeq(@, Len(from) + 1, Len(@))] ELSE x : x \in all}

Unmust(id) == [iter EXCEPT !.must = @ \ {id}, !.seen = @ \ {id}]

(* The new set is written before the old one is marked unused. *)
Renamed(vol, f, from, to) ==
  {IF ~made.ok THEN made
   ELSE [made EXCEPT !.entry = mark_directory_entry_set_unused(@, Location(f), f.secondary_count + 1),
                     !.live = Moved(vol.live, Key(from), Key(to))]
   : made \in create_file_dir_entry_at(vol, to, f.attributes, f.stream.first_cluster,
                                       f.stream.data_length, f.stream.id)}

rename(from, to) ==
  /\ get_leaf_file_entry(entry, to, "any") = {}
  /\ "own_subtree" \notin Allowed => ~Under(Key(to), Key(from))
  /\ \E f \in get_leaf_file_entry(entry, from, "any") :
       /\ MayGo(f)
       /\ \E vol \in get_or_create_directory(Volume, Parent(to)) :
            \E result \in IF vol.ok THEN Renamed(vol, f, from, to) ELSE {vol} :
              /\ Commit(result)
              /\ iter' = IF result.ok THEN Unmust(f.stream.id) ELSE iter
  /\ UNCHANGED handle

(* confirm_has_no_children: every entry before the end marker is unused. *)
has_no_children(d) ==
  {} = {i \in 0 .. Size(d) - 1 : /\ ~Free(entry[Phys(d, i)])
                                 /\ \A j \in 0 .. i - 1 : entry[Phys(d, j)] # EndOfDirectory}

(* Mutant of FreeClusters: nothing is freed. *)
FreeClusters_none(f) == used

(* The clusters of files are not modelled here. *)
FreeClusters(f) == used \ {f.stream.first_cluster}

(* remove_file and remove_dir *)
delete_inner(path, kind) ==
  \E f \in get_leaf_file_entry(entry, path, kind) :
    /\ MayGo(f)
    /\ kind = "Directory" => has_no_children(f.stream.first_cluster)
    /\ used' = FreeClusters(f)
    /\ entry' = mark_directory_entry_set_unused(entry, Location(f), f.secondary_count + 1)
    /\ live' = live \ {Live(Key(path), kind, f.stream.id)}
    /\ iter' = Unmust(f.stream.id) /\ UNCHANGED <<lost, handle>>

-----------------------------------------------------------------------------
(* Open files.  The length stands for what a flush changes. *)

OpenCount == Cardinality(handle) + IF iter.on THEN 1 ELSE 0

open(path) ==
  /\ OpenCount < MaxOpen
  /\ \E f \in get_leaf_file_entry(entry, path, "Archive") : handle' = handle \cup {f}
  /\ UNCHANGED <<entry, used, lost, live, iter>>

(* Mutant of Rewritten: the checksum is that of the set before. *)
Rewritten_old_sum(v, f, length) ==
  [v EXCEPT ![Location(f) + 1] = [f.stream EXCEPT !.data_length = length]]

(* The file entry and the stream extension are written anew; the name entries are
   read again, by the walk, for the checksum (File::flush and truncate_file). *)
Rewritten(v, f, length) ==
  LET stream == [f.stream EXCEPT !.data_length = length]
      rest == [k \in 1 .. f.secondary_count |->
                 IF k = 1 THEN stream ELSE v[Phys(f.dir, f.index + k)]]
  IN  DirSetWriter(v, Location(f), <<FileDirEntry(f.attributes, f.secondary_count,
                                                 Checksum(f.attributes, rest)), stream>>)

(* The entry is rewritten if the file was written to. *)
close(h) ==
  /\ entry' \in {entry, Rewritten(entry, h, 1)}
  /\ handle' = handle \ {h}
  /\ UNCHANGED <<used, lost, live, iter>>

truncate_file(path) ==
  /\ \E f \in get_leaf_file_entry(entry, path, "Archive") : entry' = Rewritten(entry, f, 0)
  /\ UNCHANGED <<used, lost, live, handle, iter>>

-----------------------------------------------------------------------------
(* Listings.  An iterator keeps a copy of the sector it stands in. *)

NoListing == [on |-> FALSE, dir |-> RootDir, pos |-> 0, buf |-> <<>>,
              must |-> {}, seen |-> {}, twice |-> FALSE]

ChildrenOf(path) ==
  {x.id : x \in {y \in live : Len(y.path) = Len(path) + 1 /\ Under(y.path, Key(path))}}

(* directory_list *)
directory_list(path) ==
  IF path = <<>> THEN {RootDir}
  ELSE {f.stream.first_cluster : f \in get_leaf_file_entry(entry, path, "Directory")}

read_dir(path) ==
  /\ ~iter.on /\ OpenCount < MaxOpen
  /\ \E d \in directory_list(path) :
       iter' = [NoListing EXCEPT !.on = TRUE, !.dir = d, !.must = ChildrenOf(path)]
  /\ UNCHANGED <<entry, used, lost, live, handle>>

(* What the iterator sees: what is left of its copy of a sector, then the volume. *)
SeenByIterator(i) == IF i \in DOMAIN iter.buf THEN iter.buf[i] ELSE entry[Phys(iter.dir, i)]

(* The part of the sector of the last entry read that is still to come. *)
RestOfSector(pos) ==
  [i \in {k \in pos .. Size(iter.dir) - 1 : k \div PerSector = (pos - 1) \div PerSector} |->
     SeenByIterator(i)]

(* Mutant of AfterSet: one entry too far. *)
AfterSet_too_far(i) == i + 1 + calc_dir_entry_set_len(SeenByIterator(i + 1).name_length)

(* Where the walk stands after the set at i. *)
AfterSet(i) == i + calc_dir_entry_set_len(SeenByIterator(i + 1).name_length)

next_entry ==
  /\ iter.on
  /\ LET e == [i \in iter.pos .. Size(iter.dir) - 1 |-> SeenByIterator(i)]
         found == next_file_entry(e, Size(iter.dir), iter.pos, AllPassFilter)
         id(i) == e[i + 1].id
     IN  iter' \in IF found = {} THEN {[NoListing EXCEPT !.must = iter.must \ iter.seen]}
                   ELSE {[iter EXCEPT !.pos = AfterSet(i), !.buf = RestOfSector(AfterSet(i)),
                                      !.seen = @ \cup ({id(i)} \cap iter.must),
                                      !.twice = id(i) \in iter.seen]
                         : i \in found}
  /\ UNCHANGED <<entry, used, lost, live, handle>>

-----------------------------------------------------------------------------
(* A formatted volume; the clusters that are not directories hold old data. *)
Init ==
  /\ entry = [p \in Places |->
                IF p \in {Phys(RootDir, i) : i \in 0 .. Systems - 1} THEN System
                ELSE IF p \in {Phys(RootDir, i) : i \in 0 .. Size(RootDir) - 1} THEN EndOfDirectory
                ELSE Foreign]
  /\ used = {} /\ lost = {} /\ live = {} /\ handle = {} /\ iter = NoListing

Existing == {path \in Paths : get_leaf_file_entry(entry, path, "any") # {}}

(* Of what does not exist, every operation but a creation returns NotFound. *)
Next == \/ \E path \in Paths : create_file(path) \/ create_directory(path)
        \/ \E path \in Existing : \/ open(path) \/ truncate_file(path)
                                   \/ \E kind \in Kinds : delete_inner(path, kind)
                                   \/ \E to \in Paths : copy(path, to) \/ rename(path, to)
        \/ \E h \in handle : close(h)
        \/ \E path \in Existing \cup {<<>>} : read_dir(path)
        \/ next_entry

Spec == Init /\ [][Next]_vars

-----------------------------------------------------------------------------
Types == {"end", "unused", "system", "foreign", "file", "stream", "name"}

(* Entries are of a known type; clusters and ids are of the volume. *)
TypeOK ==
  /\ DOMAIN entry = Places /\ \A p \in Places : entry[p].type \in Types
  /\ used \subseteq Heap /\ lost \subseteq used
  /\ \A x \in live : x.kind \in Kinds /\ x.id \in Ids

(* A path is found, in whatever case it is written, exactly when what it names
   exists, and what is found is that file or directory: no set overwrites another,
   no hole hides what follows, a moved directory takes its contents along, names
   with equal hashes are told apart, only empty directories are removed. *)
FoundIffLive ==
  \A path \in Paths \cup {x.path : x \in live}, kind \in Kinds :
    {f.stream.id : f \in get_leaf_file_entry(entry, path, kind)} =
      {x.id : x \in {y \in live : y.path = Key(path) /\ y.kind = kind}}

(* Nothing is written outside the clusters of directories: DirSetWriter "assumes
   the set does not cross a cluster boundary". *)
ForeignUntouched ==
  \A c \in 0 .. ClusterCount - 1 :
    c \notin Heap /\ (\A i \in DOMAIN Root : Root[i] # c) =>
      \A p \in InCluster(c) : entry[p] = Foreign

(* The sets of files and directories that exist keep the checksum of their
   contents when a flush or a truncation rewrites a part of them. *)
ChecksumFresh ==
  \A p \in Places :
    entry[p].type = "file" /\ (\E x \in live : x.id = entry[p + 1].id) =>
      entry[p].set_checksum =
        Checksum(entry[p].file_attributes,
                 [k \in 1 .. entry[p].secondary_count |-> entry[p + k]])

(* A marked cluster belongs to one directory that exists, or was lost by an
   operation that failed for want of room. *)
ClustersAccounted ==
  LET owners(c) == {p \in Places : /\ entry[p].type = "stream" /\ entry[p].first_cluster = c
                                   /\ \E x \in live : x.id = entry[p].id}
  IN  \A c \in Heap : IF c \in used \ lost THEN Cardinality(owners(c)) = 1
                      ELSE owners(c) = {}

(* A listing that has ended returned, once, everything that was in the directory
   when it began and was not removed or renamed since, whatever was created,
   removed or flushed between its steps, although it reads a sector once. *)
ListingComplete == ~iter.twice /\ (~iter.on => iter.must = {})

=============================================================================
