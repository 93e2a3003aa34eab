----------------------------- MODULE Timestamps -----------------------------
(***************************************************************************)
(* The packed timestamps of directory entries, timestamp.rs.  Fields that  *)
(* the code combines with shifts and "or" do not overlap for the values    *)
(* encode lets through, so "or" is a sum, and a shift followed by a mask   *)
(* is \div and %.                                                          *)
(***************************************************************************)
EXTENDS Integers, TLAPS

MIN_YEAR == 1980
MAX_YEAR == 2107

U8 == 0 .. 255
U16 == 0 .. 65535

(* The bits at which the fields of the packed number start.                *)
Bit5 == 32
Bit11 == 2048
Bit16 == 65536
Bit21 == 2097152
Bit25 == 33554432
U32 == {p \in Nat : p \div Bit25 < 128}
I8 == -128 .. 127

(* Option<i8>: some says whether there is a value.                         *)
Offset == {o \in [some : BOOLEAN, value : I8] : ~o.some => o.value = 0}
None == [some |-> FALSE, value |-> 0]
Some(v) == [some |-> TRUE, value |-> v]

Timestamp == [year : U16, month : U8, day : U8, hour : U8, minute : U8,
              second : U8, centis : U8, utc_offset_15min : Offset]

EncodedTimestamp == [packed : U32, increment_10ms : U8, utc_offset : U8]
EncodedTimestamp_default == [packed |-> 2162688, increment_10ms |-> 0, utc_offset |-> 0]

is_leap_year(year) == year % 4 = 0 /\ (year % 100 # 0 \/ year % 400 = 0)
days_in_month(year, month) ==
  IF month \in {1, 3, 5, 7, 8, 10, 12} THEN 31
  ELSE IF month \in {4, 6, 9, 11} THEN 30
  ELSE IF month = 2 THEN IF is_leap_year(year) THEN 29 ELSE 28
  ELSE 0

is_valid(t) ==
  /\ t.year \in MIN_YEAR .. MAX_YEAR
  /\ t.day \in 1 .. days_in_month(t.year, t.month)
  /\ t.hour <= 23 /\ t.minute <= 59 /\ t.second <= 59 /\ t.centis <= 99
  /\ t.utc_offset_15min.some => t.utc_offset_15min.value \in -48 .. 56

pack(y, mon, d, h, min, s) ==
  y * Bit25 + mon * Bit21 + d * Bit16 + h * Bit11 + min * Bit5 + s

(* The two's complement byte of the offset, its top bit the "valid" flag.  *)
encode_offset(o) == IF o.some THEN 128 + (o.value % 128) ELSE 0

(* What a release build does: a timestamp that is not valid is stored as   *)
(* the smallest one.                                                       *)
encode(t) ==
  IF ~is_valid(t) THEN EncodedTimestamp_default
  ELSE [packed |-> pack(t.year - MIN_YEAR, t.month, t.day, t.hour, t.minute,
                         t.second \div 2),
        increment_10ms |-> (t.second % 2) * 100 + t.centis,
        utc_offset |-> encode_offset(t.utc_offset_15min)]

(* The shift up and down again extends bit 6, the sign.                    *)
decode_offset(u) ==
  IF u < 128 THEN None
  ELSE Some(IF (u % 128) < 64 THEN u % 128 ELSE (u % 128) - 128)

decode(e) ==
  [year |-> (e.packed \div Bit25) + MIN_YEAR,
   month |-> (e.packed \div Bit21) % 16,
   day |-> (e.packed \div Bit16) % 32,
   hour |-> (e.packed \div Bit11) % 32,
   minute |-> (e.packed \div Bit5) % 64,
   second |-> (e.packed % 32) * 2 + (e.increment_10ms \div 100),
   centis |-> e.increment_10ms % 100,
   utc_offset_15min |-> decode_offset(e.utc_offset)]

-----------------------------------------------------------------------------
(* A valid month is one of the twelve and a valid day at most 31, so       *)
(* neither field spills into its neighbour.                                *)
LEMMA MonthAndDay ==
  ASSUME NEW year, NEW month \in U8, NEW day \in 1 .. days_in_month(year, month)
  PROVE  month \in 1 .. 12 /\ day \in 1 .. 31
BY SMT DEF days_in_month, U8

(* What encode lets through fits the fields.                               *)
LEMMA ValidFields ==
  ASSUME NEW t \in Timestamp, is_valid(t)
  PROVE  /\ t.year - MIN_YEAR \in 0 .. 127 /\ t.month \in 1 .. 12 /\ t.day \in 1 .. 31
         /\ t.hour \in 0 .. 23 /\ t.minute \in 0 .. 59 /\ t.second \in 0 .. 59
         /\ t.centis \in 0 .. 99
<1>0. /\ t.month \in U8 /\ t.hour \in U8 /\ t.minute \in U8
      /\ t.second \in U8 /\ t.centis \in U8
  BY Zenon DEF Timestamp
<1>1. t.month \in 1 .. 12 /\ t.day \in 1 .. 31
  BY <1>0, MonthAndDay, SMT DEF is_valid
<1>2. t.year - MIN_YEAR \in 0 .. 127
  BY SMT DEF is_valid, MIN_YEAR, MAX_YEAR
<1>3. /\ t.hour \in 0 .. 23 /\ t.minute \in 0 .. 59 /\ t.second \in 0 .. 59
      /\ t.centis \in 0 .. 99
  BY <1>0, SMT DEF is_valid, U8
<1> QED BY <1>1, <1>2, <1>3

(* The fields that decode takes out of the packed number p.                *)
Unpacks(p, y, m, d, h, n, s) ==
  /\ p \in U32 /\ p \div Bit25 = y
  /\ (p \div Bit21) % 16 = m /\ (p \div Bit16) % 32 = d
  /\ (p \div Bit11) % 32 = h /\ (p \div Bit5) % 64 = n /\ p % 32 = s

(* decode's shifts and masks undo encode's shifts.                         *)
LEMMA Unpacked ==
  ASSUME NEW y \in 0 .. 127, NEW m \in 0 .. 15, NEW d \in 0 .. 31,
         NEW h \in 0 .. 31, NEW n \in 0 .. 63, NEW s \in 0 .. 31
  PROVE  Unpacks(pack(y, m, d, h, n, s), y, m, d, h, n, s)
<1> DEFINE p == pack(y, m, d, h, n, s)
<1> USE DEF pack, Bit25, Bit21, Bit16, Bit11, Bit5
<1>1. p \in Nat /\ p \div Bit25 = y BY SMT
<1>2. p \in U32 BY <1>1, SMT DEF U32
<1>3. p \div Bit21 = y * 16 + m BY SMT
<1>4. p \div Bit16 = y * 512 + m * 32 + d BY SMT
<1>5. p \div Bit11 = y * 16384 + m * 1024 + d * 32 + h BY SMT
<1>6. p \div Bit5 = y * 1048576 + m * 65536 + d * 2048 + h * 64 + n BY SMT
<1>7. p % 32 = s BY SMT
<1> HIDE DEF p
<1>8. (p \div Bit21) % 16 = m BY <1>3, SMT
<1>9. (p \div Bit16) % 32 = d BY <1>4, SMT
<1>10. (p \div Bit11) % 32 = h BY <1>5, SMT
<1>11. (p \div Bit5) % 64 = n BY <1>6, SMT
<1> HIDE DEF pack, Bit25, Bit21, Bit16, Bit11, Bit5
<1> QED BY <1>1, <1>2, <1>7, <1>8, <1>9, <1>10, <1>11 DEF p, Unpacks

(* The year is stored as the number of years since 1980.                   *)
LEMMA YearAgain ==
  ASSUME NEW year \in U16
  PROVE  (year - MIN_YEAR) + MIN_YEAR = year
BY SMT DEF U16, MIN_YEAR

(* The second and its hundredths, which are split over two fields.         *)
LEMMA Seconds ==
  ASSUME NEW s \in 0 .. 59, NEW c \in 0 .. 99
  PROVE  LET i == (s % 2) * 100 + c IN
         /\ s \div 2 \in 0 .. 31 /\ i \in U8
         /\ (s \div 2) * 2 + (i \div 100) = s /\ i % 100 = c
BY SMT DEF U8

(* The byte that encode stores for an offset gives the same offset back,   *)
(* negative ones included.                                                 *)
LEMMA OffsetRoundTrip ==
  ASSUME NEW o \in Offset, o.some => o.value \in -48 .. 56
  PROVE  encode_offset(o) \in U8 /\ decode_offset(encode_offset(o)) = o
<1> DEFINE v == o.value
<1>1. o = [some |-> o.some, value |-> v] /\ o.some \in BOOLEAN BY Zenon DEF Offset
<1>2. CASE ~o.some
  <2>1. encode_offset(o) = 0 /\ decode_offset(0) = None
    BY <1>2, SMT DEF encode_offset, decode_offset
  <2>2. o = None BY <1>1, <1>2 DEF None, Offset
  <2> QED BY <2>1, <2>2, SMT DEF U8
<1>3. CASE o.some
  <2>1. v \in -48 .. 56 BY <1>3
  <2> DEFINE u == 128 + (v % 128)
  <2>2. encode_offset(o) = u BY <1>3 DEF encode_offset
  <2>3. u \in 128 .. 255 BY <2>1, SMT
  <2>4. (IF (u % 128) < 64 THEN u % 128 ELSE (u % 128) - 128) = v BY <2>1, SMT
  <2>5. decode_offset(u) = Some(v) BY <2>3, <2>4, SMT DEF decode_offset
  <2>6. o = Some(v) BY <1>1, <1>3 DEF Some
  <2> QED BY <2>2, <2>3, <2>5, <2>6, SMT DEF U8
<1> QED BY <1>1, <1>2, <1>3

(* Whatever valid time the time provider returns is the time that metadata *)
(* shows later: created, modified and accessed lose nothing on their way   *)
(* through a directory entry, to the hundredth of a second.                *)
THEOREM RoundTrip ==
  ASSUME NEW t \in Timestamp, is_valid(t)
  PROVE  encode(t) \in EncodedTimestamp /\ decode(encode(t)) = t
<1> DEFINE y == t.year - MIN_YEAR
           s == t.second \div 2
           p == pack(y, t.month, t.day, t.hour, t.minute, s)
           i == (t.second % 2) * 100 + t.centis
           e == encode(t)
<1>1. /\ y \in 0 .. 127 /\ t.month \in 0 .. 15 /\ t.day \in 0 .. 31
      /\ t.hour \in 0 .. 31 /\ t.minute \in 0 .. 63 /\ t.second \in 0 .. 59
      /\ t.centis \in 0 .. 99
  BY ValidFields, SMT
<1>2. /\ s \in 0 .. 31 /\ i \in U8
      /\ s * 2 + (i \div 100) = t.second /\ i % 100 = t.centis
  BY <1>1, Seconds
<1>3. Unpacks(p, y, t.month, t.day, t.hour, t.minute, s)
  <2> HIDE DEF y, s
  <2> QED BY <1>1, <1>2, Unpacked, Zenon DEF p
<1>4. /\ encode_offset(t.utc_offset_15min) \in U8
      /\ decode_offset(encode_offset(t.utc_offset_15min)) = t.utc_offset_15min
  BY OffsetRoundTrip DEF is_valid, Timestamp
<1>5. e = [packed |-> p, increment_10ms |-> i,
           utc_offset |-> encode_offset(t.utc_offset_15min)]
  BY DEF encode
<1>6. y + MIN_YEAR = t.year
  BY YearAgain, Zenon DEF Timestamp
<1> HIDE DEF y, s, p, i, e
<1>7. /\ e.packed = p /\ e.increment_10ms = i
      /\ e.utc_offset = encode_offset(t.utc_offset_15min)
  BY <1>5
<1>8. decode(e) = [year |-> t.year, month |-> t.month, day |-> t.day, hour |-> t.hour,
                   minute |-> t.minute, second |-> t.second, centis |-> t.centis,
                   utc_offset_15min |-> t.utc_offset_15min]
  BY <1>2, <1>3, <1>4, <1>6, <1>7, Zenon DEF decode, Unpacks
<1>9. e \in EncodedTimestamp BY <1>2, <1>3, <1>4, <1>5 DEF EncodedTimestamp, Unpacks
<1> QED BY <1>8, <1>9, Zenon DEF Timestamp, e
=============================================================================
