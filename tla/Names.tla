-------------------------------- MODULE Names -------------------------------
(***************************************************************************)
(* Names as sequences of UTF-16 units: upcasing, hash, and the entries a   *)
(* name takes (utils.rs, upcase_table.rs).                                 *)
(***************************************************************************)
EXTENDS Integers, Sequences

CONSTANTS UpcaseTable,   \* the volume's table for the first units; identity after them
          UnitsPerEntry  \* units of a name entry (15)

ASSUME NamesAssumption ==
  /\ UnitsPerEntry \in Nat \ {0}
  /\ \A u \in DOMAIN UpcaseTable : UpcaseTable[u] \in 0 .. 65535

Table == UpcaseTable   \* a definition of its own, which TLC evaluates once
upcase(u) == IF u \in DOMAIN Table THEN Table[u] ELSE u

Upcased(name) == [i \in DOMAIN name |-> upcase(name[i])]

is_illegal_name_char(u) ==
  u =< 31 \/ u \in {34, 42, 47, 58, 60, 62, 63, 92, 124}

(* "." and "..", the empty name and illegal units are refused. *)
ValidName(name) ==
  /\ name \notin {<<46>>, <<46, 46>>, <<>>}
  /\ \A i \in DOMAIN name : ~is_illegal_name_char(name[i])

(* What str::trim takes off both ends: the units of Unicode's White_Space. *)
Blank == (9 .. 13) \cup {32, 133, 160, 5760} \cup (8192 .. 8202) \cup {8232, 8233, 8239, 8287, 12288}

Trim(name) ==
  LET solid == {i \in DOMAIN name : name[i] \notin Blank}
      first == CHOOSE i \in solid : \A j \in solid : i =< j
      last == CHOOSE i \in solid : \A j \in solid : i >= j
  IN  IF solid = {} THEN <<>> ELSE SubSeq(name, first, last)

(* One step of the hash, on 16 bits: rotate right and add a byte.  The sum wraps;
   in builds that check for overflow it panics instead. *)
HashByte(h, byte) == ((h % 2) * 32768 + h \div 2 + byte) % 65536

(* encode_utf16_upcase_and_hash: low byte, then high byte, of each upcased unit. *)
name_hash(name) ==
  LET h[i \in 0 .. Len(name)] ==
        IF i = 0 THEN 0
        ELSE LET c == upcase(name[i])
             IN  HashByte(HashByte(h[i - 1], c % 256), c \div 256)
  IN  h[Len(name)]

NameEntries(length) == (length + UnitsPerEntry - 1) \div UnitsPerEntry

(* A file entry, a stream extension and the entries of the name. *)
calc_dir_entry_set_len(length) == 2 + NameEntries(length)

(* Utf16Chunks: the units of the k-th name entry. *)
Chunk(name, k) ==
  SubSeq(name, (k - 1) * UnitsPerEntry + 1,
         IF k * UnitsPerEntry < Len(name) THEN k * UnitsPerEntry ELSE Len(name))

=============================================================================
