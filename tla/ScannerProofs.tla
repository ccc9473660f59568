--------------------------- MODULE ScannerProofs ----------------------------
(***************************************************************************)
(* A machine-checked proof that the scanner self-test of the application   *)
(* passes on every run: each of its six searches is a legal call, so it    *)
(* runs, and by what Search is proved to find, its result is the one that  *)
(* the test expects; what it writes leaves the buffers as the next search  *)
(* expects them.                                                           *)
(***************************************************************************)
EXTENDS ScannerTest, SearchProofs

-----------------------------------------------------------------------------
(***************************************************************************)
(* The buffers and the calls.                                              *)
(***************************************************************************)

\* Where the buffers lie.
LEMMA Layout ==
  /\ OffsetBytes = 4 /\ previous_snapshot = 1 /\ current_snapshot = 65
  /\ candidates = 129 /\ refined = 193 /\ in_place = 257
  /\ written = 269 /\ total = 270 /\ query = 271
  /\ AddressMax \in Nat /\ 271 < AddressMax
  /\ ByteBase \in Nat /\ 120 < ByteBase
  /\ SNAPSHOT_BYTES = 64 /\ RESULT_CAPACITY = 16
BY ScannerAssumption, RangesAssumption, SearchAssumption
   DEF previous_snapshot, current_snapshot, candidates, refined, in_place, written, total,
       query, SNAPSHOT_BYTES, RESULT_CAPACITY

\* The places of the script that make an exact search, and the relations and
\* the outputs of all.
Exacts    == {1, 6}
Relation  == <<"EQUAL", "CHANGED", "INCREASED", "DECREASED", "UNCHANGED", "EQUAL">>
OutputAt  == <<129, 193, 193, 257, 193, 193>>
Capacity  == <<16, 16, 16, 3, 16, 2>>
InputAt   == <<0, 129, 129, 257, 129, 0>>

\* The arguments of search k.
Arguing(k, c) ==
  /\ c.function = IF k \in Exacts THEN "initial" ELSE "refine"
  /\ c.current = IF k \in Exacts THEN 1 ELSE 65
  /\ c.previous = 1 /\ c.size = 64
  /\ c.candidates = InputAt[k] /\ c.candidate_count = 3
  /\ c.out_offsets = OutputAt[k] /\ c.capacity = Capacity[k]
  /\ c.query = 271 /\ c.written = 269 /\ c.total_matches = 270
  /\ c.type = "U32" /\ c.stride = 4
  /\ c.relation = Relation[k]
  /\ c.value_bits = IF k \in Exacts THEN 100 ELSE 0

LEMMA ScriptArguments ==
  ASSUME NEW k \in 1 .. 6
  PROVE  Arguing(k, Script[k])
<1> USE Layout DEF Arguing, Script, Exact, refine, Request, Exacts, Relation, OutputAt,
                   Capacity, InputAt
<1>1. CASE k = 1
  BY <1>1
<1>2. CASE k = 2
  BY <1>2
<1>3. CASE k = 3
  BY <1>3
<1>4. CASE k = 4
  BY <1>4
<1>5. CASE k = 5
  BY <1>5
<1>6. CASE k = 6
  BY <1>6
<1> HIDE DEF Arguing, Script
<1> QED BY <1>1, <1>2, <1>3, <1>4, <1>5, <1>6

LEMMA ScriptIsCall ==
  ASSUME NEW k \in 1 .. 6, NEW c, Arguing(k, c)
  PROVE  IsCall(c)
<1>1. InputAt[k] \in 0 .. 271 /\ OutputAt[k] \in 0 .. 271 /\ Capacity[k] \in 0 .. 271
  BY DEF InputAt, OutputAt, Capacity
<1>2. 0 .. 271 \subseteq 0 .. AddressMax
  BY Layout
<1>3. /\ {c.current, c.previous, c.candidates, c.query, c.out_offsets, c.written,
         c.total_matches, c.size, c.candidate_count, c.capacity} \subseteq 0 .. 271
      /\ {c.value_bits, c.stride} \subseteq Nat
      /\ c.function \in {"initial", "refine"}
  BY <1>1 DEF Arguing
<1> QED BY <1>2, <1>3 DEF IsCall

\* The weights of the bytes of an offset.
LEMMA Weights ==
  /\ Weight[0] = 1 /\ Weight[1] = ByteBase
  /\ Weight[2] \in Nat /\ Weight[3] \in Nat /\ Weight[4] \in Nat
  /\ ByteBase <= Weight[2] /\ ByteBase <= Weight[3] /\ ByteBase <= Weight[4]
<1>1. \A x \in Nat : x # 0 => ByteBase <= ByteBase * x
  <2> SUFFICES ASSUME NEW x \in Nat, x # 0 PROVE ByteBase <= ByteBase * x
    OBVIOUS
  <2>1. PICK y \in Nat, b \in Nat : x = y + 1 /\ b = ByteBase
    <3>1. x - 1 \in Nat /\ x = (x - 1) + 1
      OBVIOUS
    <3> QED BY <3>1, Layout
  <2>2. b * (y + 1) = b * y + b /\ b * y \in Nat
    OBVIOUS
  <2> QED BY <2>1, <2>2
<1>2. Weight[0] = 1 /\ \A i \in Nat : Weight[i] \in Nat \ {0} /\ Weight[i + 1] = ByteBase * Weight[i]
  BY WeightFacts
<1>3. Weight[1] = ByteBase
  <2>1. Weight[0 + 1] = ByteBase * Weight[0] /\ 0 + 1 = 1
    BY <1>2
  <2> QED BY <1>2, <2>1, Layout
<1>4. Weight[2] = ByteBase * Weight[1] /\ Weight[3] = ByteBase * Weight[2]
      /\ Weight[4] = ByteBase * Weight[3]
  <2>1. Weight[1 + 1] = ByteBase * Weight[1] /\ Weight[2 + 1] = ByteBase * Weight[2]
        /\ Weight[3 + 1] = ByteBase * Weight[3]
    BY <1>2
  <2> QED BY <2>1
<1>5. Weight[1] \in Nat \ {0} /\ Weight[2] \in Nat \ {0} /\ Weight[3] \in Nat \ {0}
      /\ Weight[4] \in Nat \ {0}
  BY <1>2
<1> QED BY <1>1, <1>2, <1>3, <1>4, <1>5

-----------------------------------------------------------------------------
(***************************************************************************)
(* What a search finds in the buffers, and what it leaves there.           *)
(***************************************************************************)

\* A snapshot is zero but for the numbers at 4, 20 and 36.
Number(o, four, twenty, thirtysix) ==
  IF o = 4 THEN four ELSE IF o = 20 THEN twenty ELSE IF o = 36 THEN thirtysix ELSE 0

SnapshotIs(m, first, four, twenty, thirtysix) ==
  \A o \in 0 .. 63 : m[first + o] = Number(o, four, twenty, thirtysix)

\* An array holds the offsets of the exact search.
Lists(m, array) ==
  OffsetAt(m, array, 0) = 4 /\ OffsetAt(m, array, 1) = 20 /\ OffsetAt(m, array, 2) = 36

\* What search k starts from.
Setting(k, m) ==
  /\ DOMAIN m = 1 .. 271 /\ BytesOnly(m)
  /\ SnapshotIs(m, 1, 100, 100, 100)
  /\ k # 1 => SnapshotIs(m, 65, 120, 100, 80) /\ Lists(m, 129)
  /\ k = 4 => Lists(m, 257)

LEMMA SettingHolds ==
  ASSUME NEW k \in 1 .. 6, NEW c, Arguing(k, c), NEW m, Setting(k, m)
  PROVE  Holds(m, c)
<1>1. InputAt[k] \in {0, 129, 257}
      /\ OutputAt[k] \in Nat /\ Capacity[k] \in Nat /\ OutputAt[k] # 0
      /\ OutputAt[k] + Capacity[k] * 4 <= 269
  BY DEF InputAt, OutputAt, Capacity
<1>2. DOMAIN m = 1 .. 271 /\ DOMAIN m \subseteq 1 .. AddressMax
      /\ \A a \in DOMAIN m : m[a] \in 0 .. ByteBase - 1
  <2>1. 1 .. 271 \subseteq 1 .. AddressMax
    BY Layout
  <2> QED BY <2>1 DEF Setting, BytesOnly
<1>3. ASSUME NEW first \in Nat, NEW bytes \in Nat, first = 0 \/ first + bytes <= 272
      PROVE  Cells(<<first, bytes>>) \subseteq 1 .. 271
  <2> SUFFICES ASSUME NEW a \in Cells(<<first, bytes>>) PROVE a \in 1 .. 271
    OBVIOUS
  <2>1. first # 0 /\ a \in Nat /\ first <= a /\ a < first + bytes
    BY CellOf
  <2> QED BY <1>3, <2>1
<1>4. /\ Cells(<<c.current, c.size>>) \subseteq DOMAIN m
      /\ Cells(<<c.previous, c.size>>) \subseteq DOMAIN m
      /\ Cells(<<c.written, 1>>) \subseteq DOMAIN m
      /\ Cells(<<c.total_matches, 1>>) \subseteq DOMAIN m
  <2>1. PICK from \in Nat, base \in Nat, count \in Nat, all \in Nat, size \in Nat, one \in Nat :
          /\ from = c.current /\ base = c.previous /\ count = c.written
          /\ all = c.total_matches /\ size = c.size /\ one = 1
          /\ from + size <= 272 /\ base + size <= 272
          /\ count + one <= 272 /\ all + one <= 272
    BY DEF Arguing
  <2>2. /\ Cells(<<from, size>>) \subseteq 1 .. 271 /\ Cells(<<base, size>>) \subseteq 1 .. 271
        /\ Cells(<<count, one>>) \subseteq 1 .. 271 /\ Cells(<<all, one>>) \subseteq 1 .. 271
    <3>1. from + size <= 272 /\ base + size <= 272 /\ count + one <= 272 /\ all + one <= 272
      BY <2>1
    <3> QED BY <1>3, <3>1
  <2> QED BY <1>2, <2>1, <2>2
<1>5. /\ Cells(<<c.candidates, c.candidate_count * OffsetBytes>>) \subseteq DOMAIN m
      /\ Cells(<<c.out_offsets, c.capacity * OffsetBytes>>) \subseteq DOMAIN m
  <2>1. 3 * 4 = 12 /\ c.candidate_count * OffsetBytes = 3 * 4
        /\ c.capacity * OffsetBytes = Capacity[k] * 4 /\ Capacity[k] * 4 \in Nat
        /\ c.candidates = InputAt[k] /\ c.out_offsets = OutputAt[k]
    BY <1>1, Layout DEF Arguing
  <2>2. PICK i \in Nat, twelve \in Nat :
          /\ i = c.candidates /\ twelve = c.candidate_count * OffsetBytes
          /\ i = 0 \/ i + twelve <= 272
    BY <1>1, <2>1
  <2>3. PICK o \in Nat, n \in Nat :
          o = c.out_offsets /\ n = c.capacity * OffsetBytes /\ o + n <= 272
    BY <1>1, <2>1
  <2>4. Cells(<<i, twelve>>) \subseteq DOMAIN m
    BY <1>2, <1>3, <2>2
  <2>5. Cells(<<o, n>>) \subseteq DOMAIN m
    BY <1>2, <1>3, <2>3
  <2> QED BY <2>2, <2>3, <2>4, <2>5
<1> QED BY <1>2, <1>4, <1>5 DEF Holds

\* Where the buffers of a search are.
LEMMA ScriptRegions ==
  ASSUME NEW k \in 1 .. 6, Arguing(k, call)
  PROVE  /\ region["current"] = <<IF k \in Exacts THEN 1 ELSE 65, 64>>
         /\ region["previous"] = <<1, 64>>
         /\ region["candidates"] = <<InputAt[k], 12>>
         /\ region["out"] = <<OutputAt[k], Capacity[k] * 4>>
         /\ region["written"] = <<269, 1>> /\ region["total"] = <<270, 1>>
         /\ region["query"] = <<271, 1>>
<1>1. Capacity[k] \in {2, 3, 16}
  BY DEF Capacity
<1>2. /\ Product(3, OffsetBytes) = 12
      /\ Product(Capacity[k], OffsetBytes) = Capacity[k] * 4
  BY <1>1, Layout DEF Product
<1> QED BY <1>2 DEF Arguing, region

LEMMA CellsAre ==
  ASSUME NEW first \in Nat, first # 0, NEW bytes \in Nat
  PROVE  Cells(<<first, bytes>>) = first .. first + bytes - 1
BY DEF Cells

\* Every search keeps to the contract of search.h.
LEMMA ScriptLegal ==
  ASSUME NEW k \in 1 .. 6, Arguing(k, call), Setting(k, before)
  PROVE  /\ Legal /\ CandidatesLegal /\ width = 4
         /\ \A r \in Inputs \cup Outputs : BelowTop(region[r])
<1>1. width = 4
  BY DEF width, vc_scalar_width, Arguing
<1>2. /\ InputAt[k] \in {0, 129, 257} /\ OutputAt[k] \in {129, 193, 257}
      /\ Capacity[k] \in {2, 3, 16} /\ OutputAt[k] + Capacity[k] * 4 <= 269
      /\ k \in Exacts <=> InputAt[k] = 0
      /\ k \notin Exacts => InputAt[k] = OutputAt[k] \/ InputAt[k] + 12 <= OutputAt[k]
  BY DEF InputAt, OutputAt, Capacity, Exacts
<1>3. /\ Cells(region["current"]) \subseteq 1 .. 128
      /\ Cells(region["previous"]) \subseteq 1 .. 128
      /\ Cells(region["written"]) = {269} /\ Cells(region["total"]) = {270}
      /\ Cells(region["query"]) = {271}
  BY ScriptRegions DEF Cells
<1>8. /\ Cells(region["candidates"]) = {} \/ call.function = "refine"
      /\ Cells(region["candidates"]) \subseteq 129 .. 268
      /\ Cells(region["out"]) \subseteq 129 .. 268
      /\ InPlace \/ Cells(region["candidates"]) \cap Cells(region["out"]) = {}
  <2>1. PICK i \in Nat, o \in Nat, n \in Nat :
          /\ i = InputAt[k] /\ o = OutputAt[k] /\ n = Capacity[k] * 4
          /\ 129 <= o /\ o + n <= 269
    BY <1>2
  <2>2. Cells(region["out"]) = o .. o + n - 1 /\ 129 <= o /\ o + n <= 269
    <3>1. region["out"] = <<o, n>> /\ o # 0
      BY <1>2, <2>1, ScriptRegions
    <3>2. Cells(<<o, n>>) = o .. o + n - 1
      BY <3>1, CellsAre
    <3> QED BY <2>1, <3>1, <3>2
  <2>3. CASE k \in Exacts
    <3>1. Cells(region["candidates"]) = {}
      BY <1>2, <2>3, ScriptRegions DEF Cells
    <3> QED BY <2>2, <3>1
  <2>4. CASE k \notin Exacts
    <3>1. i # 0 /\ 129 <= i /\ i + 12 <= 269 /\ (i = o \/ i + 12 <= o)
      BY <1>2, <2>1, <2>4
    <3>2. Cells(region["candidates"]) = i .. i + 12 - 1
      <4>1. region["candidates"] = <<i, 12>>
        BY <2>1, ScriptRegions
      <4>2. Cells(<<i, 12>>) = i .. i + 12 - 1
        BY <3>1, CellsAre
      <4> QED BY <4>1, <4>2
    <3>3. call.function = "refine" /\ (i = o => InPlace)
      BY <2>1, <2>4 DEF Arguing, InPlace
    <3> QED BY <2>2, <3>1, <3>2, <3>3
  <2> QED BY <2>3, <2>4
<1>4. ASSUME NEW r \in Outputs, NEW s \in Inputs \cup Outputs
      PROVE  \/ r = s
             \/ InPlace /\ r = "out" /\ s = "candidates"
             \/ Cells(region[r]) \cap Cells(region[s]) = {}
  <2>1. s \in {"current", "previous", "candidates", "out", "written", "total", "query"}
    BY DEF Outputs, Inputs
  <2>2. CASE r = "out"
    <3>1. CASE s = "candidates"
      BY <1>8, <2>2, <3>1
    <3>2. CASE s # "candidates" /\ s # "out"
      <4>1. Cells(region[s]) \subseteq (1 .. 128) \cup (269 .. 271)
        BY <1>3, <2>1, <3>2
      <4>2. Cells(region[r]) \subseteq 129 .. 268
        BY <1>8, <2>2
      <4> QED BY <4>1, <4>2
    <3> QED BY <2>2, <3>1, <3>2
  <2>3. CASE r = "written"
    BY <1>3, <1>8, <2>1, <2>3
  <2>4. CASE r = "total"
    BY <1>3, <1>8, <2>1, <2>4
  <2> QED BY <2>2, <2>3, <2>4 DEF Outputs
<1>5. ASSUME NEW r \in Inputs \cup Outputs PROVE BelowTop(region[r])
  BY <1>2, ScriptRegions, Layout DEF Inputs, Outputs, BelowTop, Arguing
<1>6. Legal
  <2>1. Relation[k] \in Relations /\ (k \in Exacts => Relation[k] = "EQUAL")
    BY DEF Relation, Exacts, Relations
  <2>2. call.size <= Weight[OffsetBytes] /\ call.capacity * OffsetBytes <= AddressMax
    BY <1>2, Layout, Weights DEF Arguing
  <2>3. /\ call.written # 0 /\ call.total_matches # 0 /\ call.query # 0
        /\ call.current # 0 /\ call.previous # 0 /\ call.out_offsets # 0
        /\ call.type \in Types /\ call.stride # 0
        /\ call.relation \in IF call.function = "refine" THEN Relations
                             ELSE {"EQUAL", "NOT_EQUAL"}
    <3>1. OutputAt[k] # 0 /\ (IF k \in Exacts THEN 1 ELSE 65) # 0
      BY <1>2
    <3>2. call.relation = Relation[k]
          /\ call.function = IF k \in Exacts THEN "initial" ELSE "refine"
      BY DEF Arguing
    <3>3. call.relation \in IF call.function = "refine" THEN Relations
                             ELSE {"EQUAL", "NOT_EQUAL"}
      BY <2>1, <3>2
    <3> QED BY <3>1, <3>3 DEF Arguing, Types
  <2> QED BY <1>4, <2>2, <2>3 DEF Legal
<1>7. CandidatesLegal
  <2>1. CASE k \in Exacts
    BY <2>1 DEF CandidatesLegal, Arguing
  <2>2. CASE k \notin Exacts
    <3>1. InputAt[k] = 129 \/ (k = 4 /\ InputAt[k] = 257)
      BY <2>2 DEF InputAt, Exacts
    <3>2. Lists(before, InputAt[k])
      BY <2>2, <3>1 DEF Setting, Exacts
    <3>3. 0 .. call.candidate_count - 1 = {0, 1, 2} /\ 0 .. 0 - 1 = {} /\ 0 .. 1 - 1 = {0}
          /\ 0 .. 2 - 1 = {0, 1}
      BY DEF Arguing
    <3> QED BY <1>1, <3>1, <3>2, <3>3 DEF CandidatesLegal, Lists, Arguing
  <2> QED BY <2>1, <2>2
<1> QED BY <1>1, <1>5, <1>6, <1>7

-----------------------------------------------------------------------------
(***************************************************************************)
(* What a search finds.                                                    *)
(***************************************************************************)

\* A number of a snapshot is its first byte: the next three are zero.
Small(x, y, z) == {x, y, z} \subseteq 0 .. 120
Aligned(o) == o \in 0 .. 60 /\ o % 4 = 0

LEMMA ReadsNumber ==
  ASSUME NEW m, NEW first \in Nat, NEW x, NEW y, NEW z, Small(x, y, z),
         SnapshotIs(m, first, x, y, z), NEW o, Aligned(o)
  PROVE  vc_read_little_endian(m, first + o, 4) = Number(o, x, y, z)
<1> DEFINE n == Number(o, x, y, z)
<1> USE DEF Aligned
<1>1. n \in 0 .. 120
  BY DEF Number, Small
<1>2. /\ m[first + o] = n
      /\ m[(first + o) + 1] = 0 /\ m[(first + o) + 2] = 0 /\ m[(first + o) + 3] = 0
  <2>1. \A i \in {0, 1, 2, 3} : o + i \in 0 .. 63 /\ (first + o) + i = first + (o + i)
    OBVIOUS
  <2>2. \A i \in {1, 2, 3} : o + i \notin {4, 20, 36}
    OBVIOUS
  <2>3. m[first + (o + 0)] = n
    <3>1. o + 0 = o
      OBVIOUS
    <3> QED BY <2>1, <3>1 DEF SnapshotIs
  <2>4. \A i \in {1, 2, 3} : m[first + (o + i)] = 0
    BY <2>1, <2>2 DEF SnapshotIs, Number
  <2> QED BY <2>1, <2>3, <2>4
<1> HIDE DEF n
<1>3. first + o \in Nat
  OBVIOUS
<1>4. Bytes(m, first + o, 4)
  <2> SUFFICES ASSUME NEW i \in Nat, i < 4 PROVE m[(first + o) + i] \in 0 .. ByteBase - 1
    BY DEF Bytes
  <2>1. i \in {0, 1, 2, 3} /\ (first + o) + 0 = first + o
    BY <1>3
  <2> QED BY <1>1, <1>2, <2>1, Layout
<1>5. PICK v : Places(m, first + o, 4, v) /\ vc_read_little_endian(m, first + o, 4) = v[4]
  BY <1>3, <1>4, ReadPlaces
<1>6. /\ v[0] = 0
      /\ v[0 + 1] = v[0] + m[(first + o) + 0] * Weight[0]
      /\ v[1 + 1] = v[1] + m[(first + o) + 1] * Weight[1]
      /\ v[2 + 1] = v[2] + m[(first + o) + 2] * Weight[2]
      /\ v[3 + 1] = v[3] + m[(first + o) + 3] * Weight[3]
  BY <1>5 DEF Places
<1>7. v[1] = n
  <2>1. (first + o) + 0 = first + o /\ v[1] = v[0] + m[(first + o) + 0] * Weight[0]
    BY <1>3, <1>6
  <2> QED BY <1>1, <1>2, <1>6, <2>1, Weights
<1>8. v[4] = n
  <2>1. v[2] = n + 0 * Weight[1] /\ v[3] = v[2] + 0 * Weight[2] /\ v[4] = v[3] + 0 * Weight[3]
    BY <1>2, <1>6, <1>7
  <2> QED BY <1>1, <2>1, Weights, Layout
<1> QED BY <1>5, <1>8 DEF n

\* The offsets that search k finds.
Finds == <<{4, 20, 36}, {4, 36}, {4}, {36}, {20}, {4, 20, 36}>>

\* The numbers at an offset of the two snapshots.
Earlier(o) == IF o \in {4, 20, 36} THEN 100 ELSE 0
Later(o)   == IF o = 4 THEN 120 ELSE IF o = 20 THEN 100 ELSE IF o = 36 THEN 80 ELSE 0

LEMMA NumbersRead ==
  ASSUME NEW k \in 1 .. 6, Arguing(k, call), Setting(k, before),
         NEW o \in 0 .. 60, o % 4 = 0
  PROVE  /\ ValueOf(1 + o) = Earlier(o)
         /\ k # 1 => ValueOf(65 + o) = Later(o)
<1>1. IsCall(call) /\ width = 4 /\ call.type = "U32"
  BY ScriptIsCall, ScriptLegal DEF Arguing
<1>0. Aligned(o)
  BY DEF Aligned
<1>2. vc_read_little_endian(before, 1 + o, 4) = Earlier(o)
  <2>1. PICK first \in Nat, x \in 0 .. 120 : first = 1 /\ x = 100
    OBVIOUS
  <2>2. SnapshotIs(before, first, x, x, x) /\ Small(x, x, x)
    BY <2>1 DEF Setting, Small
  <2>3. vc_read_little_endian(before, first + o, 4) = Number(o, x, x, x)
    BY <1>0, <2>2, ReadsNumber
  <2> QED BY <2>1, <2>3 DEF Earlier, Number
<1>3. ASSUME k # 1 PROVE vc_read_little_endian(before, 65 + o, 4) = Later(o)
  <2>1. PICK first \in Nat, x \in 0 .. 120, y \in 0 .. 120, z \in 0 .. 120 :
          first = 65 /\ x = 120 /\ y = 100 /\ z = 80
    OBVIOUS
  <2>2. SnapshotIs(before, first, x, y, z) /\ Small(x, y, z)
    BY <1>3, <2>1 DEF Setting, Small
  <2>3. vc_read_little_endian(before, first + o, 4) = Number(o, x, y, z)
    BY <1>0, <2>2, ReadsNumber
  <2> QED BY <2>1, <2>3 DEF Later, Number
<1>4. Earlier(o) \in 0 .. Weight[4] - 1 /\ Later(o) \in 0 .. Weight[4] - 1
  BY Weights, Layout DEF Earlier, Later
<1>5. ValueOf(1 + o) = Earlier(o)
  BY <1>1, <1>2, <1>4, ValueRead
<1>6. ASSUME k # 1 PROVE ValueOf(65 + o) = Later(o)
  BY <1>1, <1>3, <1>4, <1>6, ValueRead
<1> QED BY <1>5, <1>6

LEMMA ScriptExamines ==
  ASSUME NEW k \in 1 .. 6, Arguing(k, call), Setting(k, before)
  PROVE  Examined = IF k \in Exacts THEN {o \in 0 .. 60 : o % 4 = 0} ELSE {4, 20, 36}
<1>1. CASE k \in Exacts
  <2>1. width = 4
    BY ScriptLegal
  <2> QED BY <1>1, <2>1 DEF Examined, Arguing
<1>2. CASE k \notin Exacts
  <2>1. call.function # "initial" /\ 0 .. call.candidate_count - 1 = {0, 1, 2}
    BY <1>2 DEF Arguing
  <2>2. call.candidates = 129 \/ (k = 4 /\ call.candidates = 257)
    BY <1>2 DEF Arguing, InputAt, Exacts
  <2>3. Lists(before, call.candidates)
    BY <1>2, <2>2 DEF Setting, Exacts
  <2> QED BY <1>2, <2>1, <2>3 DEF Examined, Lists
<1> QED BY <1>1, <1>2

LEMMA ScriptFinds ==
  ASSUME NEW k \in 1 .. 6, Arguing(k, call), Setting(k, before)
  PROVE  {o \in Examined : Satisfies(o)} = Finds[k]
<1>1. call.relation = Relation[k] /\ call.previous = 1 /\ width = 4
  BY ScriptLegal DEF Arguing
<1>2. CASE k \in Exacts
  <2>1. ASSUME NEW o \in 0 .. 60, o % 4 = 0
        PROVE  Satisfies(o) <=> o \in {4, 20, 36}
    <3>1. call.relation = "EQUAL" /\ call.current = 1 /\ call.value_bits = 100
      BY <1>1, <1>2 DEF Arguing, Exacts, Relation
    <3>2. Satisfies(o) <=> (Earlier(o) - 100) % Weight[4] = 0
      BY <1>1, <2>1, <3>1, NumbersRead DEF Satisfies
    <3>3. PICK n \in Nat \ {0} : n = Weight[4] /\ 120 < n
      BY Weights, Layout
    <3>4. Earlier(o) \in 0 .. n - 1 /\ 100 \in 0 .. n - 1
      BY <3>3 DEF Earlier
    <3>5. (Earlier(o) - 100) % n = 0 <=> Earlier(o) = 100 % n
      BY <3>4, CongruenceDecides
    <3>6. 100 % n = 100
      BY <3>4, SmallRemainder
    <3> QED BY <3>2, <3>3, <3>5, <3>6 DEF Earlier
  <2>2. Finds[k] = {4, 20, 36}
    BY <1>2 DEF Finds, Exacts
  <2>3. Examined = {o \in 0 .. 60 : o % 4 = 0}
    BY <1>2, ScriptExamines
  <2>4. 4 \in 0 .. 60 /\ 20 \in 0 .. 60 /\ 36 \in 0 .. 60
        /\ 4 % 4 = 0 /\ 20 % 4 = 0 /\ 36 % 4 = 0
    OBVIOUS
  <2> QED BY <2>1, <2>2, <2>3, <2>4
<1>3. CASE k \notin Exacts
  <2>1. Examined = {4, 20, 36} /\ call.current = 65 /\ k \in {2, 3, 4, 5}
    BY <1>3, ScriptExamines DEF Arguing, Exacts
  <2>2. ASSUME NEW o \in {4, 20, 36}
        PROVE  ValueOf(1 + o) = 100 /\ ValueOf(65 + o) = Later(o)
    <3>1. o \in 0 .. 60 /\ o % 4 = 0 /\ k # 1
      BY <2>1
    <3> QED BY <3>1, NumbersRead DEF Earlier
  <2>3. CASE k = 2
    BY <1>1, <2>1, <2>2, <2>3 DEF Satisfies, Relation, Finds, Later
  <2>4. CASE k = 3
    BY <1>1, <2>1, <2>2, <2>4 DEF Satisfies, Relation, Finds, Later
  <2>5. CASE k = 4
    BY <1>1, <2>1, <2>2, <2>5 DEF Satisfies, Relation, Finds, Later
  <2>6. CASE k = 5
    BY <1>1, <2>1, <2>2, <2>6 DEF Satisfies, Relation, Finds, Later
  <2> QED BY <2>1, <2>3, <2>4, <2>5, <2>6
<1> QED BY <1>2, <1>3

-----------------------------------------------------------------------------
(***************************************************************************)
(* What a search returns.                                                  *)
(***************************************************************************)

\* The sizes of the sets of matches.
LEMMA Sizes ==
  /\ Cardinality({}) = 0
  /\ Cardinality({4}) = 1 /\ Cardinality({20}) = 1 /\ Cardinality({36}) = 1
  /\ Cardinality({4, 20}) = 2 /\ Cardinality({4, 36}) = 2 /\ Cardinality({4, 20, 36}) = 3
<1>1. IsFiniteSet({4}) /\ \A x : Cardinality({x}) = 1
  BY FS_Singleton
<1>2. \A x \in {20, 36} : /\ IsFiniteSet({4} \cup {x})
                           /\ Cardinality({4} \cup {x}) = Cardinality({4}) + 1
  BY <1>1, FS_AddElement
<1>3. {4} \cup {20} = {4, 20} /\ {4} \cup {36} = {4, 36}
      /\ {4, 20} \cup {36} = {4, 20, 36}
  OBVIOUS
<1>4. /\ IsFiniteSet({4, 20}) /\ Cardinality({4, 20}) = Cardinality({4}) + 1
      /\ Cardinality({4, 36}) = Cardinality({4}) + 1
  <2>1. 20 \in {20, 36} /\ 36 \in {20, 36}
    OBVIOUS
  <2> QED BY <1>2, <1>3, <2>1
<1>5. Cardinality({4, 20} \cup {36}) = Cardinality({4, 20}) + 1
  <2>1. 36 \notin {4, 20}
    OBVIOUS
  <2> QED BY <1>4, <2>1, FS_AddElement
<1>6. Cardinality({4}) = 1 /\ Cardinality({20}) = 1 /\ Cardinality({36}) = 1
  BY <1>1
<1>7. Cardinality({4, 20}) = 2 /\ Cardinality({4, 36}) = 2
  BY <1>4, <1>6
<1>8. Cardinality({4, 20, 36}) = 3
  <2>1. Cardinality({4, 20, 36}) = Cardinality({4, 20}) + 1
    BY <1>3, <1>5, Zenon
  <2> QED BY <1>7, <2>1
<1> QED BY <1>6, <1>7, <1>8, FS_EmptySet

\* The number of matches, and what is returned of them.
Totals  == <<3, 2, 1, 1, 1, 3>>
Lengths == <<3, 2, 1, 1, 1, 2>>
Returns == <<<<4, 20, 36>>, <<4, 36>>, <<4>>, <<36>>, <<20>>, <<4, 20>>>>

LEMMA ScriptTotals ==
  ASSUME NEW k \in 1 .. 6
  PROVE  Cardinality(Finds[k]) = Totals[k]
BY Sizes DEF Finds, Totals

\* The place of a match among the others is its place in the output.
Rank(k, o) == Cardinality({f \in Finds[k] : f < o})

LEMMA ScriptRanks ==
  ASSUME NEW k \in 1 .. 6, NEW o \in Finds[k],
         NEW i \in Nat, i < Lengths[k], Rank(k, o) = i
  PROVE  o = Returns[k][i + 1]
<1> USE DEF Rank
<1>1. o \in {4, 20, 36}
  BY DEF Finds
<1>2. Cardinality({}) = 0 /\ Cardinality({4}) = 1 /\ Cardinality({4, 20}) = 2
  BY Sizes
<1>3. CASE k \in {1, 6}
  <2>1. Finds[k] = {4, 20, 36} /\ Returns[k][1] = 4 /\ Returns[k][2] = 20
        /\ i <= 2 /\ (i = 2 => Returns[k][3] = 36)
    <3>1. CASE k = 1
      BY <3>1 DEF Finds, Returns, Lengths
    <3>2. CASE k = 6
      BY <3>2 DEF Finds, Returns, Lengths
    <3> QED BY <1>3, <3>1, <3>2
  <2>2. CASE o = 4
    <3>1. {f \in Finds[k] : f < o} = {}
      BY <2>1, <2>2
    <3>2. i = 0 /\ i + 1 = 1
      BY <1>2, <3>1
    <3> QED BY <2>1, <2>2, <3>2
  <2>3. CASE o = 20
    <3>1. {f \in Finds[k] : f < o} = {4}
      BY <2>1, <2>3
    <3>2. i = 1 /\ i + 1 = 2
      BY <1>2, <3>1
    <3> QED BY <2>1, <2>3, <3>2
  <2>4. CASE o = 36
    <3>1. {f \in Finds[k] : f < o} = {4, 20}
      BY <2>1, <2>4
    <3>2. i = 2 /\ i + 1 = 3
      BY <1>2, <3>1, Sizes
    <3> QED BY <2>1, <2>4, <3>2
  <2> QED BY <1>1, <2>2, <2>3, <2>4
<1>4. CASE k = 2
  <2>1. Finds[k] = {4, 36} /\ Returns[k][1] = 4 /\ Returns[k][2] = 36
    BY <1>4 DEF Finds, Returns
  <2>2. CASE o = 4
    <3>1. {f \in Finds[k] : f < o} = {}
      BY <2>1, <2>2
    <3>2. i = 0 /\ i + 1 = 1
      BY <1>2, <3>1
    <3> QED BY <2>1, <2>2, <3>2
  <2>3. CASE o = 36
    <3>1. {f \in Finds[k] : f < o} = {4}
      BY <2>1, <2>3
    <3>2. i = 1 /\ i + 1 = 2
      BY <1>2, <3>1
    <3> QED BY <2>1, <2>3, <3>2
  <2> QED BY <2>1, <2>2, <2>3
<1>5. CASE k \in {3, 4, 5}
  <2>1. Finds[k] = {o} /\ Returns[k] = <<o>> /\ i = 0
    BY <1>5 DEF Finds, Returns, Lengths
  <2> QED BY <2>1
<1> QED BY <1>3, <1>4, <1>5

LEMMA ScriptExpects ==
  ASSUME NEW k \in 1 .. 6
  PROVE  /\ Expected[k].status = IF k = 6 THEN "TRUNCATED" ELSE "OK"
         /\ Expected[k].total = Totals[k] /\ Expected[k].offsets = Returns[k]
         /\ Len(Returns[k]) = Lengths[k]
<1> USE DEF Expected, Totals, Returns, Lengths
<1>1. CASE k = 1
  BY <1>1
<1>2. CASE k = 2
  BY <1>2
<1>3. CASE k = 3
  BY <1>3
<1>4. CASE k = 4
  BY <1>4
<1>5. CASE k = 5
  BY <1>5
<1>6. CASE k = 6
  BY <1>6
<1> QED BY <1>1, <1>2, <1>3, <1>4, <1>5, <1>6

LEMMA ScriptCuts ==
  ASSUME NEW k \in 1 .. 6
  PROVE  /\ Lengths[k] = IF Totals[k] < Capacity[k] THEN Totals[k] ELSE Capacity[k]
         /\ Lengths[k] \in Nat
         /\ Totals[k] > Capacity[k] <=> k = 6
BY DEF Totals, Lengths, Capacity

\* A search that has returned ran, because it was legal, and passes its check.
LEMMA ScriptPasses ==
  ASSUME NEW k \in 1 .. 6, Arguing(k, call), Setting(k, before), Result, pc = "done"
  PROVE  /\ status = Expected[k].status
         /\ memory[total] = Totals[k]
         /\ memory[written] = Lengths[k]
         /\ \A i \in Nat : i < Lengths[k] =>
              OffsetAt(memory, call.out_offsets, i) = Returns[k][i + 1]
<1>1. Accepted
  BY ScriptLegal DEF Result, Decision, RunsExactlyWhenLegal
<1>2. status \in {"OK", "TRUNCATED"}
  BY <1>1 DEF Accepted, Running
<1>3. Found = Finds[k]
  <2>1. Passed = Examined
    BY DEF Passed
  <2> QED BY <2>1, ScriptFinds DEF Found
<1>4. /\ local_total = Cardinality(Found)
      /\ local_written = IF local_total < call.capacity THEN local_total ELSE call.capacity
      /\ \A i \in 0 .. local_written - 1 :
           LET o == OffsetAt(memory, call.out_offsets, i)
           IN  o \in Found /\ Cardinality({f \in Found : f < o}) = i
      /\ memory[call.written] = local_written
      /\ memory[call.total_matches] = Cardinality(Found)
      /\ status = "TRUNCATED" <=> Cardinality(Found) > call.capacity
  BY <1>1 DEF Result, OutputIsFirstMatches
<1>5. Cardinality(Found) = Totals[k] /\ call.capacity = Capacity[k]
      /\ call.written = written /\ call.total_matches = total
  BY <1>3, ScriptTotals, Layout DEF Arguing
<1>6. local_written = Lengths[k] /\ Lengths[k] \in Nat
  BY <1>4, <1>5, ScriptCuts
<1>7. ASSUME NEW i \in Nat, i < Lengths[k]
      PROVE  OffsetAt(memory, call.out_offsets, i) = Returns[k][i + 1]
  <2>1. PICK o : o = OffsetAt(memory, call.out_offsets, i)
    OBVIOUS
  <2>2. i \in 0 .. local_written - 1
    BY <1>6, <1>7
  <2>3. o \in Finds[k] /\ Rank(k, o) = i
    <3>1. o \in Found /\ Cardinality({f \in Found : f < o}) = i
      BY <1>4, <2>1, <2>2
    <3> QED BY <1>3, <3>1 DEF Rank
  <2>4. o = Returns[k][i + 1]
    BY <1>7, <2>3, ScriptRanks
  <2> QED BY <2>1, <2>4
<1> QED BY <1>2, <1>4, <1>5, <1>6, <1>7, ScriptExpects, ScriptCuts

-----------------------------------------------------------------------------
(***************************************************************************)
(* What a search leaves in the buffers.                                    *)
(***************************************************************************)

\* Between calls too, the memory but for the counters is made of bytes.
Clean == \A a \in DOMAIN memory :
           a # call.written /\ a # call.total_matches => memory[a] \in 0 .. ByteBase - 1

LEMMA CleanStep == Result /\ Result' /\ Clean /\ [Next]_vars => Clean'
<1> SUFFICES ASSUME Result, Result', Clean, [Next]_vars PROVE Clean'
  OBVIOUS
<1>1. call' = call
  BY DEF Next, Refuse, Accept, Scan, Refine, Return, vars
<1>2. CASE Running'
  BY <1>2 DEF Result, BytesOnly, Clean
<1>3. CASE ~Running'
  <2>1. CASE Return
    <3>1. Running /\ memory' = StoreCounters(local_written, local_total)
      BY <2>1 DEF Return, Running
    <3>2. \A a \in DOMAIN memory' : a # call.written /\ a # call.total_matches =>
            a \in DOMAIN memory /\ memory'[a] = memory[a]
      BY <3>1 DEF StoreCounters
    <3> QED BY <1>1, <3>1, <3>2 DEF Clean
  <2>2. CASE ~Return
    <3>1. memory' = memory
      BY <1>3, <2>2 DEF Next, Refuse, Accept, Scan, Refine, Running, vars
    <3> QED BY <1>1, <3>1 DEF Clean
  <2> QED BY <2>1, <2>2
<1> QED BY <1>2, <1>3

\* The buffers after search k.
Outcome(k, m) ==
  /\ DOMAIN m = 1 .. 271 /\ BytesOnly(m)
  /\ SnapshotIs(m, 1, 100, 100, 100)
  /\ k # 1 => SnapshotIs(m, 65, 120, 100, 80)
  /\ Lists(m, 129)

\* A list is what its bytes are, wherever they are.
LEMMA ListsMoved ==
  ASSUME NEW m, NEW n, NEW from \in Nat, NEW to \in Nat, Lists(m, from),
         Bytes(m, from, 12), Copied(n, to, m, from, 12)
  PROVE  Lists(n, to)
<1>1. ASSUME NEW e \in {0, 4, 8}
      PROVE  vc_read_little_endian(n, to + e, 4) = vc_read_little_endian(m, from + e, 4)
  <2>1. ASSUME NEW i \in Nat, i < 4
        PROVE  /\ m[(from + e) + i] \in 0 .. ByteBase - 1
               /\ n[(to + e) + i] = m[(from + e) + i]
    <3>1. PICK j \in Nat : j = e + i /\ j < 12
      BY <2>1
    <3>2. (from + e) + i = from + j /\ (to + e) + i = to + j
      BY <3>1
    <3> QED BY <3>1, <3>2 DEF Bytes, Copied
  <2>2. PICK a \in Nat, b \in Nat, w \in Nat : a = from + e /\ b = to + e /\ w = 4
    OBVIOUS
  <2>3. \A i \in Nat : i < w => m[a + i] \in 0 .. ByteBase - 1 /\ n[b + i] = m[a + i]
    BY <2>1, <2>2
  <2>4. Bytes(m, a, w) /\ Copied(n, b, m, a, w)
    BY <2>3 DEF Bytes, Copied
  <2>5. vc_read_little_endian(n, b, w) = vc_read_little_endian(m, a, w)
    BY <2>4, ReadMoved
  <2> QED BY <2>2, <2>5
<1>2. 0 * 4 = 0 /\ 1 * 4 = 4 /\ 2 * 4 = 8 /\ OffsetBytes = 4
  BY Layout
<1> QED BY <1>1, <1>2 DEF Lists, OffsetAt

\* The output of search k lies behind both snapshots, and behind the
\* candidates unless they are the output.
LEMMA ScriptWrites ==
  ASSUME NEW k \in 1 .. 6, Arguing(k, call), NEW r \in Outputs, NEW a \in Cells(region[r])
  PROVE  a \in {269, 270} \/ (k = 1 /\ a \in 129 .. 192) \/ (k # 1 /\ a \in 193 .. 268)
<1>1. PICK o \in Nat, n \in Nat : o = OutputAt[k] /\ n = Capacity[k] * 4 /\ o # 0
                                 /\ o + n <= 269
                                 /\ (k = 1 => o = 129 /\ n = 64) /\ (k # 1 => 193 <= o)
  BY DEF OutputAt, Capacity
<1>2. CASE r = "out"
  <2>1. region[r] = <<o, n>>
    BY <1>1, <1>2, ScriptRegions
  <2>2. a \in Nat /\ o <= a /\ a < o + n
    BY <2>1, CellOf
  <2> QED BY <1>1, <2>2
<1>3. CASE r \in {"written", "total"}
  BY <1>3, ScriptRegions DEF Cells
<1> QED BY <1>2, <1>3 DEF Outputs

LEMMA ScriptLeaves ==
  ASSUME NEW k \in 1 .. 6, Arguing(k, call), Setting(k, before), Result, Clean, pc = "done"
  PROVE  Outcome(k, memory)
<1>1. DOMAIN memory = 1 .. 271 /\ DOMAIN before = 1 .. 271
  BY DEF Result, Inv, Setting
<1>2. BytesOnly(memory)
  <2>1. memory[270] \in 0 .. 120 /\ memory[269] \in 0 .. 120
    <3>1. memory[270] = Totals[k] /\ memory[269] = Lengths[k]
      BY ScriptPasses, Layout
    <3> QED BY <3>1 DEF Totals, Lengths
  <2>2. \A a \in DOMAIN memory : a # 269 /\ a # 270 => memory[a] \in 0 .. ByteBase - 1
    BY Layout DEF Clean, Arguing
  <2>3. 0 .. 120 \subseteq 0 .. ByteBase - 1
    BY Layout
  <2> QED BY <2>1, <2>2, <2>3 DEF BytesOnly
<1>3. ASSUME NEW a \in 1 .. 192, k # 1 \/ a <= 128
      PROVE  memory[a] = before[a]
  <2>1. a \notin UNION {Cells(region[r]) : r \in Outputs}
    <3> SUFFICES ASSUME NEW r \in Outputs, a \in Cells(region[r]) PROVE FALSE
      OBVIOUS
    <3>1. a \in {269, 270} \/ (k = 1 /\ a \in 129 .. 192) \/ (k # 1 /\ a \in 193 .. 268)
      BY ScriptWrites
    <3> QED BY <1>3, <3>1
  <2>2. a \in DOMAIN memory /\ OnlyOutputsWritten
    BY <1>1 DEF Result, Inv
  <2> QED BY <2>1, <2>2 DEF OnlyOutputsWritten
<1>4. SnapshotIs(memory, 1, 100, 100, 100)
  BY <1>3 DEF Setting, SnapshotIs
<1>5. k # 1 => SnapshotIs(memory, 65, 120, 100, 80)
  BY <1>3 DEF Setting, SnapshotIs
<1>6. CASE k = 1
  <2>1. call.out_offsets = 129 /\ Lengths[k] = 3 /\ Returns[k] = <<4, 20, 36>>
    BY <1>6 DEF Arguing, OutputAt, Lengths, Returns
  <2>2. \A i \in Nat : i < 3 => OffsetAt(memory, 129, i) = <<4, 20, 36>>[i + 1]
    BY <2>1, ScriptPasses
  <2>3. Lists(memory, 129)
    BY <2>2 DEF Lists
  <2> QED BY <1>1, <1>2, <1>4, <1>5, <2>3 DEF Outcome
<1>7. CASE k # 1
  <2>1. Lists(before, 129) /\ BytesOnly(before)
    BY <1>7 DEF Setting
  <2>2. PICK at \in Nat : at = 129
    OBVIOUS
  <2>3. Bytes(before, at, 12) /\ Copied(memory, at, before, at, 12)
    <3> SUFFICES ASSUME NEW i \in Nat, i < 12
                 PROVE  /\ before[at + i] \in 0 .. ByteBase - 1
                        /\ memory[at + i] = before[at + i]
      BY DEF Bytes, Copied
    <3>1. at + i \in 1 .. 192 /\ at + i \in DOMAIN before
      BY <1>1, <2>2
    <3> QED BY <1>3, <1>7, <2>1, <3>1 DEF BytesOnly
  <2>4. Lists(memory, at)
    BY <2>1, <2>2, <2>3, ListsMoved
  <2> QED BY <1>1, <1>2, <1>4, <1>5, <2>2, <2>4 DEF Outcome
<1> QED BY <1>6, <1>7

-----------------------------------------------------------------------------
(***************************************************************************)
(* What is done to the buffers between the searches.                       *)
(***************************************************************************)

\* A number that the test writes fits in the first of its four bytes.
NumberAt(n, m, at, v) ==
  /\ DOMAIN n = DOMAIN m
  /\ \A a \in DOMAIN m \cap Nat :
       n[a] = IF a = at THEN v ELSE IF at < a /\ a < at + 4 THEN 0 ELSE m[a]

LEMMA NumberWritten ==
  ASSUME NEW m, NEW first \in Nat, NEW offset \in Nat, NEW v \in 0 .. 120
  PROVE  NumberAt(write_u32_le(m, first, offset, v), m, first + offset, v)
<1> DEFINE n == write_u32_le(m, first, offset, v)
<1>1. DOMAIN n = DOMAIN m
  BY DEF write_u32_le
<1>2. (v \div Weight[0]) % ByteBase = v
  <2>1. v \div Weight[0] = v
    BY Weights
  <2>2. PICK b \in Nat \ {0} : b = ByteBase /\ v < b
    BY Layout
  <2> QED BY <2>1, <2>2, SmallRemainder
<1>3. ASSUME NEW i \in {1, 2, 3} PROVE (v \div Weight[i]) % ByteBase = 0
  <2>1. PICK w \in Nat, b \in Nat \ {0} : w = Weight[i] /\ b = ByteBase /\ v < w
    BY Weights, Layout
  <2>2. v \div w = 0 /\ 0 % b = 0
    BY <2>1
  <2> QED BY <2>1, <2>2
<1>4. ASSUME NEW a \in DOMAIN m \cap Nat
      PROVE  n[a] = IF a = first + offset THEN v
                    ELSE IF first + offset < a /\ a < first + offset + 4 THEN 0 ELSE m[a]
  <2>1. PICK i \in Int : i = a - (first + offset)
    OBVIOUS
  <2>2. n[a] = IF i \in 0 .. 3 THEN (v \div Weight[i]) % ByteBase ELSE m[a]
    BY <2>1 DEF write_u32_le
  <2>3. CASE i = 0
    BY <1>2, <2>1, <2>2, <2>3
  <2>4. CASE i \in {1, 2, 3}
    BY <1>3, <2>1, <2>2, <2>4
  <2>5. CASE i \notin 0 .. 3
    BY <2>1, <2>2, <2>5
  <2> QED BY <2>3, <2>4, <2>5
<1> QED BY <1>1, <1>4 DEF NumberAt

\* A write changes one number of a snapshot, and nothing outside it.
Photo(m, first, x, y, z) ==
  DOMAIN m = 1 .. 271 /\ BytesOnly(m) /\ SnapshotIs(m, first, x, y, z)

SameAround(n, m, first) ==
  \A a \in 1 .. 271 : a < first \/ first + 64 <= a => n[a] = m[a]

LEMMA SnapshotWritten ==
  ASSUME NEW m, NEW first \in {1, 65}, NEW x, NEW y, NEW z, Photo(m, first, x, y, z),
         NEW offset \in {4, 20, 36}, NEW v \in 0 .. 120
  PROVE  /\ offset = 4 => Photo(write_u32_le(m, first, offset, v), first, v, y, z)
         /\ offset = 20 => Photo(write_u32_le(m, first, offset, v), first, x, v, z)
         /\ offset = 36 => Photo(write_u32_le(m, first, offset, v), first, x, y, v)
         /\ SameAround(write_u32_le(m, first, offset, v), m, first)
<1> DEFINE n == write_u32_le(m, first, offset, v)
<1>0. DOMAIN m = 1 .. 271 /\ BytesOnly(m) /\ SnapshotIs(m, first, x, y, z)
  BY DEF Photo
<1>1. /\ DOMAIN n = 1 .. 271
      /\ \A a \in 1 .. 271 :
           n[a] = IF a = first + offset THEN v
                  ELSE IF first + offset < a /\ a < first + offset + 4 THEN 0 ELSE m[a]
  <2>1. PICK f \in Nat, o \in Nat : f = first /\ o = offset
    OBVIOUS
  <2>2. NumberAt(write_u32_le(m, f, o, v), m, f + o, v)
    BY NumberWritten
  <2>3. (1 .. 271) \cap Nat = 1 .. 271
    OBVIOUS
  <2> QED BY <1>0, <2>1, <2>2, <2>3 DEF NumberAt
<1> HIDE DEF n
<1>2. BytesOnly(n)
  <2> SUFFICES ASSUME NEW a \in DOMAIN n PROVE n[a] \in 0 .. ByteBase - 1
    BY DEF BytesOnly
  <2>1. v \in 0 .. ByteBase - 1 /\ 0 \in 0 .. ByteBase - 1
    BY Layout
  <2>2. m[a] \in 0 .. ByteBase - 1
    BY <1>0, <1>1 DEF BytesOnly
  <2>3. n[a] = v \/ n[a] = 0 \/ n[a] = m[a]
    BY <1>1
  <2> QED BY <2>1, <2>2, <2>3
<1>3. ASSUME NEW o \in 0 .. 63
      PROVE  n[first + o] = IF o = offset THEN v ELSE Number(o, x, y, z)
  <2>1. m[first + o] = Number(o, x, y, z)
    BY <1>0 DEF SnapshotIs
  <2>2. PICK a \in 1 .. 271 : a = first + o
    OBVIOUS
  <2>3. CASE o = offset
    <3>1. a = first + offset
      BY <2>2, <2>3
    <3>2. n[a] = v
      BY <1>1, <3>1
    <3> QED BY <2>2, <2>3, <3>2
  <2>4. CASE offset < o /\ o < offset + 4
    <3>1. a # first + offset /\ first + offset < a /\ a < first + offset + 4
      BY <2>2, <2>4
    <3>2. n[a] = 0
      BY <1>1, <3>1
    <3>3. o # 4 /\ o # 20 /\ o # 36 /\ o # offset
      BY <2>4
    <3> QED BY <2>2, <3>2, <3>3 DEF Number
  <2>5. CASE o # offset /\ ~(offset < o /\ o < offset + 4)
    <3>1. a # first + offset /\ ~(first + offset < a /\ a < first + offset + 4)
      BY <2>2, <2>5
    <3>2. n[a] = m[a]
      BY <1>1, <3>1
    <3> QED BY <2>1, <2>2, <2>5, <3>2
  <2> QED BY <2>3, <2>4, <2>5
<1>4. SameAround(n, m, first)
  <2> SUFFICES ASSUME NEW a \in 1 .. 271, a < first \/ first + 64 <= a PROVE n[a] = m[a]
    BY DEF SameAround
  <2>1. a # first + offset /\ ~(first + offset < a /\ a < first + offset + 4)
    OBVIOUS
  <2> QED BY <1>1, <2>1
<1>5. CASE offset = 4
  <2>1. SnapshotIs(n, first, v, y, z)
    BY <1>3, <1>5 DEF SnapshotIs, Number
  <2> QED BY <1>1, <1>2, <1>4, <1>5, <2>1 DEF Photo, n
<1>6. CASE offset = 20
  <2>1. SnapshotIs(n, first, x, v, z)
    BY <1>3, <1>6 DEF SnapshotIs, Number
  <2> QED BY <1>1, <1>2, <1>4, <1>6, <2>1 DEF Photo, n
<1>7. CASE offset = 36
  <2>1. SnapshotIs(n, first, x, y, v)
    BY <1>3, <1>7 DEF SnapshotIs, Number
  <2> QED BY <1>1, <1>2, <1>4, <1>7, <2>1 DEF Photo, n
<1> QED BY <1>5, <1>6, <1>7

\* A list stays where its bytes stay.
SameLists(n, m) == \A a \in 129 .. 268 : n[a] = m[a]

LEMMA ListsKept ==
  ASSUME NEW m, NEW n, NEW at \in {129, 257}, DOMAIN m = 1 .. 271, BytesOnly(m), Lists(m, at),
         SameLists(n, m)
  PROVE  Lists(n, at)
<1>1. PICK here \in Nat : here = at
  OBVIOUS
<1>2. Bytes(m, here, 12) /\ Copied(n, here, m, here, 12)
  <2> SUFFICES ASSUME NEW i \in Nat, i < 12
               PROVE  m[here + i] \in 0 .. ByteBase - 1 /\ n[here + i] = m[here + i]
    BY DEF Bytes, Copied
  <2>1. here + i \in 129 .. 268 /\ here + i \in DOMAIN m
    BY <1>1
  <2> QED BY <2>1 DEF BytesOnly, SameLists
<1>3. Lists(n, here)
  BY <1>1, <1>2, ListsMoved
<1> QED BY <1>1, <1>3

\* Zeroing the counters touches nothing else.
LEMMA CountersZeroed ==
  ASSUME NEW m, NEW k \in 1 .. 6, Setting(k, Buffers(m, k))
  PROVE  Setting(k, Prepared(m, k))
<1> DEFINE n == Buffers(m, k)
           p == Prepared(m, k)
<1>1. /\ DOMAIN n = 1 .. 271 /\ BytesOnly(n)
      /\ SnapshotIs(n, 1, 100, 100, 100)
      /\ k # 1 => SnapshotIs(n, 65, 120, 100, 80) /\ Lists(n, 129)
      /\ k = 4 => Lists(n, 257)
  BY DEF Setting
<1>2. DOMAIN p = 1 .. 271 /\ \A a \in 1 .. 271 : p[a] = IF a \in {269, 270} THEN 0 ELSE n[a]
  BY <1>1, Layout DEF Prepared
<1> HIDE DEF n, p
<1>3. DOMAIN p = 1 .. 271 /\ BytesOnly(p)
  <2>1. 0 \in 0 .. ByteBase - 1
    BY Layout
  <2> SUFFICES ASSUME NEW a \in DOMAIN p PROVE p[a] \in 0 .. ByteBase - 1
    BY <1>2 DEF BytesOnly
  <2>2. n[a] \in 0 .. ByteBase - 1
    BY <1>1, <1>2 DEF BytesOnly
  <2>3. p[a] = 0 \/ p[a] = n[a]
    BY <1>2
  <2> QED BY <2>1, <2>2, <2>3
<1>4. \A a \in 1 .. 268 : p[a] = n[a]
  BY <1>2
<1>5. SnapshotIs(p, 1, 100, 100, 100)
  BY <1>1, <1>4 DEF SnapshotIs
<1>6. k # 1 => SnapshotIs(p, 65, 120, 100, 80)
  BY <1>1, <1>4 DEF SnapshotIs
<1>7. ASSUME NEW at \in {129, 257}, Lists(n, at) PROVE Lists(p, at)
  <2>1. SameLists(p, n)
    BY <1>4 DEF SameLists
  <2> QED BY <1>1, <1>7, <2>1, ListsKept
<1>8. Setting(k, p)
  BY <1>1, <1>3, <1>5, <1>6, <1>7 DEF Setting
<1> QED BY <1>8 DEF p

\* A run starts from zeroed and written snapshots, whatever it finds.
LEMMA PreparedFirst ==
  ASSUME NEW m, DOMAIN m = 1 .. 271, BytesOnly(m)
  PROVE  Setting(1, Prepared(m, 1))
<1> DEFINE zeroed == [a \in DOMAIN m |-> IF a \in 1 .. SNAPSHOT_BYTES THEN 0 ELSE m[a]]
           four   == write_u32_le(zeroed, previous_snapshot, 4, 100)
           twenty == write_u32_le(four, previous_snapshot, 20, 100)
           n      == write_u32_le(twenty, previous_snapshot, 36, 100)
<1>1. Photo(zeroed, 1, 0, 0, 0)
  <2>1. 0 \in 0 .. ByteBase - 1
    BY Layout
  <2>2. DOMAIN zeroed = 1 .. 271
        /\ \A a \in 1 .. 271 : zeroed[a] = IF a \in 1 .. 64 THEN 0 ELSE m[a]
    BY Layout
  <2> HIDE DEF zeroed
  <2>3. BytesOnly(zeroed)
    <3> SUFFICES ASSUME NEW a \in DOMAIN zeroed PROVE zeroed[a] \in 0 .. ByteBase - 1
      BY DEF BytesOnly
    <3>1. m[a] \in 0 .. ByteBase - 1
      <4>1. a \in DOMAIN m
        BY <2>2
      <4> QED BY <4>1 DEF BytesOnly
    <3>2. zeroed[a] = 0 \/ zeroed[a] = m[a]
      BY <2>2
    <3> QED BY <2>1, <3>1, <3>2
  <2>4. SnapshotIs(zeroed, 1, 0, 0, 0)
    BY <2>2 DEF SnapshotIs, Number
  <2> QED BY <2>2, <2>3, <2>4 DEF Photo
<1>2. PICK first \in {1, 65} : first = 1 /\ first = previous_snapshot
  BY Layout
<1>3. PICK v \in 0 .. 120, o4 \in {4, 20, 36}, o20 \in {4, 20, 36}, o36 \in {4, 20, 36} :
        v = 100 /\ o4 = 4 /\ o20 = 20 /\ o36 = 36
  OBVIOUS
<1>4. Buffers(m, 1) = n
  BY DEF Buffers
<1>5. four = write_u32_le(zeroed, first, o4, v) /\ twenty = write_u32_le(four, first, o20, v)
      /\ n = write_u32_le(twenty, first, o36, v)
  BY <1>2, <1>3
<1> HIDE DEF zeroed, four, twenty, n
<1>6. Photo(four, first, v, 0, 0)
  BY <1>1, <1>2, <1>3, <1>5, SnapshotWritten
<1>7. Photo(twenty, first, v, v, 0)
  BY <1>3, <1>5, <1>6, SnapshotWritten
<1>8. Photo(n, first, v, v, v)
  BY <1>3, <1>5, <1>7, SnapshotWritten
<1>9. Setting(1, Buffers(m, 1))
  BY <1>2, <1>3, <1>4, <1>8 DEF Setting, Photo
<1> QED BY <1>9, CountersZeroed

\* A copy, seen byte by byte.
IsCopy(n, to, m, from, bytes) ==
  /\ DOMAIN n = 1 .. 271 /\ BytesOnly(n)
  /\ Copied(n, to, m, from, bytes)
  /\ \A a \in 1 .. 271 : a < to \/ to + bytes <= a => n[a] = m[a]

LEMMA MemoryCopied ==
  ASSUME NEW m, DOMAIN m = 1 .. 271, BytesOnly(m),
         NEW to \in Nat, NEW from \in Nat, NEW bytes \in Nat,
         from # 0, from + bytes <= 272, to # 0, to + bytes <= 272
  PROVE  IsCopy(memcpy(m, to, from, bytes), to, m, from, bytes)
<1> DEFINE n == memcpy(m, to, from, bytes)
<1>1. /\ DOMAIN n = 1 .. 271
      /\ \A a \in 1 .. 271 :
           n[a] = IF a \in to .. to + bytes - 1 THEN m[from + a - to] ELSE m[a]
  BY DEF memcpy
<1> HIDE DEF n
<1>2. BytesOnly(n)
  <2> SUFFICES ASSUME NEW a \in DOMAIN n PROVE n[a] \in 0 .. ByteBase - 1
    BY DEF BytesOnly
  <2>1. PICK b \in DOMAIN m : n[a] = m[b]
    <3>1. CASE a \in to .. to + bytes - 1
      <4>1. PICK b \in Int : b = from + a - to
        BY <3>1
      <4>2. from <= b /\ b <= from + bytes - 1
        BY <3>1, <4>1
      <4>3. n[a] = m[b]
        BY <1>1, <3>1, <4>1
      <4>4. b \in 1 .. 271
        BY <4>1, <4>2
      <4> QED BY <4>3, <4>4
    <3>2. CASE a \notin to .. to + bytes - 1
      BY <1>1, <3>2
    <3> QED BY <3>1, <3>2
  <2> QED BY <2>1 DEF BytesOnly
<1>3. Copied(n, to, m, from, bytes)
  <2> SUFFICES ASSUME NEW i \in Nat, i < bytes PROVE n[to + i] = m[from + i]
    BY DEF Copied
  <2>1. PICK a \in 1 .. 271 : a = to + i /\ from + a - to = from + i
    <3>1. to + i \in 1 .. 271 /\ from + (to + i) - to = from + i
      OBVIOUS
    <3> QED BY <3>1
  <2>2. a \in to .. to + bytes - 1
    BY <2>1
  <2> QED BY <1>1, <2>1, <2>2
<1>4. ASSUME NEW a \in 1 .. 271, a < to \/ to + bytes <= a PROVE n[a] = m[a]
  <2>1. a \notin to .. to + bytes - 1
    BY <1>4
  <2> QED BY <1>1, <2>1
<1>5. IsCopy(n, to, m, from, bytes)
  BY <1>1, <1>2, <1>3, <1>4 DEF IsCopy
<1> QED BY <1>5 DEF n

\* The second search compares the snapshot with a copy that was changed.
LEMMA PreparedSecond ==
  ASSUME NEW m, Outcome(1, m)
  PROVE  Setting(2, Prepared(m, 2))
<1> DEFINE copy == memcpy(m, current_snapshot, previous_snapshot, SNAPSHOT_BYTES)
           four == write_u32_le(copy, current_snapshot, 4, 120)
           n    == write_u32_le(four, current_snapshot, 36, 80)
<1>1. DOMAIN m = 1 .. 271 /\ BytesOnly(m) /\ SnapshotIs(m, 1, 100, 100, 100) /\ Lists(m, 129)
  BY DEF Outcome
<1>2. Buffers(m, 2) = n
  BY DEF Buffers
<1>3. PICK to \in Nat, from \in Nat, bytes \in Nat :
        to = current_snapshot /\ from = previous_snapshot /\ bytes = SNAPSHOT_BYTES
        /\ to = 65 /\ from = 1 /\ bytes = 64
  BY Layout
<1>4. copy = memcpy(m, to, from, bytes)
  BY <1>3
<1>5. IsCopy(copy, to, m, from, bytes)
  <2>1. from # 0 /\ from + bytes <= 272 /\ to # 0 /\ to + bytes <= 272
    BY <1>3
  <2> QED BY <1>1, <1>4, <2>1, MemoryCopied
<1>6. PICK first \in {1, 65} : first = 65 /\ first = current_snapshot
  BY <1>3
<1>7. PICK v \in 0 .. 120, w \in 0 .. 120, o4 \in {4, 20, 36}, o36 \in {4, 20, 36} :
        v = 120 /\ w = 80 /\ o4 = 4 /\ o36 = 36
  OBVIOUS
<1>8. four = write_u32_le(copy, first, o4, v) /\ n = write_u32_le(four, first, o36, w)
  BY <1>6, <1>7
<1> HIDE DEF copy, four, n
<1>9. Photo(copy, first, 100, 100, 100)
  <2> SUFFICES ASSUME NEW o \in 0 .. 63
               PROVE  copy[first + o] = Number(o, 100, 100, 100)
    BY <1>5 DEF IsCopy, Photo, SnapshotIs
  <2>1. copy[to + o] = m[from + o]
    <3>1. PICK i \in Nat : i = o /\ i < bytes
      BY <1>3
    <3> QED BY <1>5, <3>1 DEF IsCopy, Copied
  <2> QED BY <1>1, <1>3, <1>6, <2>1 DEF SnapshotIs
<1>10. Photo(four, first, v, 100, 100) /\ SameAround(four, copy, first)
  BY <1>7, <1>8, <1>9, SnapshotWritten
<1>11. Photo(n, first, v, 100, w) /\ SameAround(n, four, first)
  BY <1>7, <1>8, <1>10, SnapshotWritten
<1>12. ASSUME NEW a \in 1 .. 271, a < 65 \/ 129 <= a PROVE n[a] = m[a]
  <2>1. (a < first \/ first + 64 <= a) /\ (a < to \/ to + bytes <= a)
    BY <1>3, <1>6, <1>12
  <2>2. n[a] = four[a] /\ four[a] = copy[a]
    <3>1. SameAround(n, four, first) /\ SameAround(four, copy, first)
      BY <1>10, <1>11
    <3> QED BY <2>1, <3>1 DEF SameAround
  <2>3. copy[a] = m[a]
    BY <1>5, <2>1 DEF IsCopy
  <2> QED BY <2>2, <2>3
<1>13. SnapshotIs(n, 1, 100, 100, 100)
  BY <1>1, <1>12 DEF SnapshotIs
<1>14. Lists(n, 129)
  <2>1. SameLists(n, m)
    BY <1>12 DEF SameLists
  <2>2. PICK at \in {129, 257} : at = 129
    OBVIOUS
  <2>3. Lists(n, at)
    BY <1>1, <2>1, <2>2, ListsKept
  <2> QED BY <2>2, <2>3
<1>15. Setting(2, Buffers(m, 2))
  BY <1>2, <1>6, <1>7, <1>11, <1>13, <1>14 DEF Setting, Photo
<1> QED BY <1>15, CountersZeroed

\* Before the others nothing is prepared, but that the fourth gets a copy of
\* the candidates to filter in place.
LEMMA PreparedNext ==
  ASSUME NEW k \in 2 .. 5, NEW m, Outcome(k, m)
  PROVE  Setting(k + 1, Prepared(m, k + 1))
<1>1. /\ DOMAIN m = 1 .. 271 /\ BytesOnly(m) /\ Lists(m, 129)
      /\ SnapshotIs(m, 1, 100, 100, 100) /\ SnapshotIs(m, 65, 120, 100, 80)
  BY DEF Outcome
<1>2. CASE k # 3
  <2>1. PICK l \in 1 .. 6 : l = k + 1 /\ l \notin {1, 2, 4}
    BY <1>2
  <2>2. Buffers(m, l) = m
    BY <2>1 DEF Buffers
  <2>3. Setting(l, Buffers(m, l))
    BY <1>1, <2>1, <2>2 DEF Setting
  <2>4. Setting(l, Prepared(m, l))
    BY <2>3, CountersZeroed
  <2> QED BY <2>1, <2>4
<1>3. CASE k = 3
  <2>1. PICK to \in Nat, from \in Nat, bytes \in Nat :
          to = in_place /\ from = candidates /\ bytes = 3 * OffsetBytes
          /\ to = 257 /\ from = 129 /\ bytes = 12
    BY Layout
  <2>2. PICK n : n = memcpy(m, to, from, bytes)
    OBVIOUS
  <2>3. Buffers(m, 4) = n
    BY <2>1, <2>2 DEF Buffers
  <2>4. IsCopy(n, to, m, from, bytes)
    <3>1. from # 0 /\ from + bytes <= 272 /\ to # 0 /\ to + bytes <= 272
      BY <2>1
    <3> QED BY <1>1, <2>2, <3>1, MemoryCopied
  <2>5. \A a \in 1 .. 256 : n[a] = m[a]
    BY <2>1, <2>4 DEF IsCopy
  <2>6. SnapshotIs(n, 1, 100, 100, 100) /\ SnapshotIs(n, 65, 120, 100, 80)
    BY <1>1, <2>5 DEF SnapshotIs
  <2>7. Bytes(m, from, 12) /\ Copied(n, from, m, from, 12) /\ Copied(n, to, m, from, 12)
    <3>1. Copied(n, to, m, from, 12)
      BY <2>1, <2>4 DEF IsCopy
    <3>2. ASSUME NEW i \in Nat, i < 12
          PROVE  m[from + i] \in 0 .. ByteBase - 1 /\ n[from + i] = m[from + i]
      <4>1. from + i \in 1 .. 256 /\ from + i \in 1 .. 271
        BY <2>1, <3>2
      <4> QED BY <1>1, <2>5, <4>1 DEF BytesOnly
    <3> QED BY <3>1, <3>2 DEF Bytes, Copied
  <2>8. Lists(m, from)
    BY <1>1, <2>1
  <2>9. Lists(n, from) /\ Lists(n, to)
    BY <2>7, <2>8, ListsMoved
  <2>10. PICK l \in 1 .. 6 : l = k + 1 /\ l = 4
    BY <1>3
  <2>11. Setting(l, Buffers(m, l))
    BY <2>1, <2>3, <2>4, <2>6, <2>9, <2>10 DEF IsCopy, Setting
  <2>12. Setting(l, Prepared(m, l))
    BY <2>11, CountersZeroed
  <2> QED BY <2>10, <2>12
<1> QED BY <1>2, <1>3

LEMMA PreparedAfter ==
  ASSUME NEW k \in 1 .. 5, NEW m, Outcome(k, m)
  PROVE  Setting(k + 1, Prepared(m, k + 1))
<1>1. CASE k = 1
  BY <1>1, PreparedSecond
<1>2. CASE k # 1
  <2>1. k \in 2 .. 5
    BY <1>2
  <2> QED BY <2>1, PreparedNext
<1> QED BY <1>1, <1>2

\* The garbage on the stack is bytes.
LEMMA FreshBytes ==
  ASSUME NEW m, DOMAIN m = 1 .. 271, BytesOnly(m), NEW n \in Fresh(m)
  PROVE  DOMAIN n = 1 .. 271 /\ BytesOnly(n)
<1>1. PICK garbage \in {0, 1, ByteBase - 1} :
        n = [a \in DOMAIN m |-> IF a \in in_place .. written - 1 THEN garbage ELSE m[a]]
  BY DEF Fresh
<1>2. garbage \in 0 .. ByteBase - 1
  BY Layout
<1> QED BY <1>1, <1>2 DEF BytesOnly

-----------------------------------------------------------------------------
(***************************************************************************)
(* The runs of the test.                                                   *)
(***************************************************************************)

\* The search that is in progress or, after the last, the one that was made.
Current == IF step = 7 THEN 6 ELSE step

\* The match counts that have been reported before each step.
Announced ==
  <<<<>>, <<3>>, <<3, 2>>, <<3, 2, 1>>, <<3, 2, 1, 1>>, <<3, 2, 1, 1, 1>>, <<3, 2, 1, 1, 1>>>>

\* The inductive invariant.
Made(k) ==
  /\ call = Script[k] /\ Setting(k, before)
  /\ Result /\ Clean

TestInv ==
  /\ step \in 1 .. 7
  /\ Made(Current)
  /\ step = 7 => pc = "done"
  /\ report = [checks |-> step - 1, failures |-> 0, matches |-> Announced[step]]

LEMMA AnnouncedNext ==
  ASSUME NEW k \in 1 .. 6
  PROVE  /\ Announced[k + 1] = IF k <= 5 THEN Append(Announced[k], Totals[k]) ELSE Announced[k]
         /\ Announced[1] = <<>> /\ Announced[7] = <<3, 2, 1, 1, 1>>
<1> USE DEF Announced, Totals
<1>1. CASE k = 1
  BY <1>1
<1>2. CASE k = 2
  BY <1>2
<1>3. CASE k = 3
  BY <1>3
<1>4. CASE k = 4
  BY <1>4
<1>5. CASE k = 5
  BY <1>5
<1>6. CASE k = 6
  BY <1>6
<1> QED BY <1>1, <1>2, <1>3, <1>4, <1>5, <1>6

LEMMA ScriptLength == Len(Script) = 6
BY DEF Script

\* A search is started on buffers that are set for it.
LEMMA Started ==
  ASSUME NEW k \in 1 .. 6, NEW m, Setting(k, Prepared(m, k)), Start(k, m)
  PROVE  Made(k)' /\ pc' = "entry"
<1>1. /\ call' = Script[k] /\ memory' = Prepared(m, k) /\ before' = memory'
      /\ pc' = "entry" /\ status' = "NONE"
      /\ index' = 0 /\ local_written' = 0 /\ local_total' = 0
  BY DEF Start
<1>2. Arguing(k, call')
  BY <1>1, ScriptArguments
<1>3. IsCall(call') /\ Holds(memory', call')
  BY <1>1, <1>2, ScriptIsCall, SettingHolds
<1>4. Begun'
  BY <1>1, <1>3 DEF Begun
<1>5. Result'
  <2>1. Begun' => Result'
    BY BegunResult, PTL
  <2> QED BY <1>4, <2>1
<1>6. Clean'
  BY <1>1 DEF Setting, BytesOnly, Clean
<1> QED BY <1>1, <1>5, <1>6 DEF Made

LEMMA InitPasses == TestInit => TestInv
<1> SUFFICES ASSUME TestInit PROVE TestInv
  OBVIOUS
<1>1. Init /\ step = 1 /\ report = NoReport
  BY DEF TestInit
<1>2. call = Script[1] /\ memory \in FirstMemory(call) /\ before = memory /\ pc = "entry"
  BY <1>1, ScannerAssumption DEF Init, FirstCall
<1>3. PICK m \in Fresh([a \in 1 .. query |-> 0]) : memory = Prepared(m, 1)
  BY <1>2 DEF FirstMemory
<1>4. DOMAIN m = 1 .. 271 /\ BytesOnly(m)
  <2> DEFINE zero == [a \in 1 .. query |-> 0]
  <2>1. DOMAIN zero = 1 .. 271 /\ BytesOnly(zero)
    BY Layout DEF BytesOnly
  <2>2. m \in Fresh(zero)
    OBVIOUS
  <2> HIDE DEF zero
  <2> QED BY <2>1, <2>2, FreshBytes
<1>5. Setting(1, memory)
  BY <1>3, <1>4, PreparedFirst
<1>6. Clean
  BY <1>5 DEF Setting, BytesOnly, Clean
<1>7. Result
  BY <1>1, InitBegun, BegunResult
<1>8. Made(Current)
  BY <1>1, <1>2, <1>5, <1>6, <1>7 DEF Made, Current
<1>9. report = [checks |-> step - 1, failures |-> 0, matches |-> Announced[step]]
  BY <1>1, AnnouncedNext DEF NoReport
<1> QED BY <1>1, <1>8, <1>9 DEF TestInv

\* A step of a search keeps what was made of it.
LEMMA ResultInductive == Result /\ [Next]_vars => Result'
<1>1. Inv /\ [Next]_vars => Inv'
  BY RefuseInv, AcceptInv, ScanInv, RefineInv, ReturnInv, StutterInv DEF Next
<1> QED BY <1>1, DecisionStep, ResultStep DEF Result

LEMMA SearchingPasses == TestInv /\ [Next]_vars /\ UNCHANGED <<step, report>> => TestInv'
<1> SUFFICES ASSUME TestInv, [Next]_vars, UNCHANGED <<step, report>> PROVE TestInv'
  OBVIOUS
<1>1. Result' /\ Clean'
  BY ResultInductive, CleanStep DEF TestInv, Made
<1>2. call' = call /\ before' = before /\ (pc = "done" => pc' = "done")
  BY DEF Next, Refuse, Accept, Scan, Refine, Return, vars
<1>3. Current' = Current /\ step' = step /\ report' = report
  BY DEF Current
<1>4. Made(Current)'
  BY <1>1, <1>2, <1>3 DEF TestInv, Made
<1> QED BY <1>2, <1>3, <1>4 DEF TestInv

\* Every check is of a search that found what is expected of it.
LEMMA CheckPasses == TestInv /\ check => TestInv'
<1> SUFFICES ASSUME TestInv, check PROVE TestInv'
  OBVIOUS
<1>1. PICK k \in 1 .. 6 : k = step /\ k = Current
  BY ScriptLength DEF TestInv, check, Current
<1>2. Made(k) /\ pc = "done" /\ Arguing(k, call)
  BY <1>1, ScriptArguments DEF TestInv, check, Made
<1>3. /\ status = Expected[k].status
      /\ memory[total] = Totals[k] /\ memory[written] = Lengths[k]
      /\ \A i \in Nat : i < Lengths[k] =>
           OffsetAt(memory, call.out_offsets, i) = Returns[k][i + 1]
  BY <1>2, ScriptPasses DEF Made
<1>4. Passes
  <2>1. /\ Expected[k].total = Totals[k] /\ Expected[k].offsets = Returns[k]
        /\ Len(Returns[k]) = Lengths[k] /\ Lengths[k] \in Nat
    BY ScriptExpects, ScriptCuts
  <2>2. ASSUME NEW i \in 1 .. Lengths[k]
        PROVE  OffsetAt(memory, call.out_offsets, i - 1) = Returns[k][i]
    <3>1. PICK j \in Nat : j = i - 1 /\ j < Lengths[k] /\ j + 1 = i
      <4>1. i - 1 \in Nat /\ i - 1 < Lengths[k] /\ (i - 1) + 1 = i
        BY <2>1
      <4> QED BY <4>1
    <3>2. OffsetAt(memory, call.out_offsets, j) = Returns[k][j + 1]
      BY <1>3, <3>1
    <3> QED BY <3>1, <3>2
  <2>3. offsets_equal(call.out_offsets, memory[written], Expected[k].offsets)
    BY <1>3, <2>1, <2>2 DEF offsets_equal
  <2> QED BY <1>1, <1>3, <2>1, <2>3 DEF Passes
<1>5. step' = k + 1 /\ report' = [checks |-> k, failures |-> 0, matches |-> Announced[k + 1]]
  <2>1. report = [checks |-> k - 1, failures |-> 0, matches |-> Announced[k]]
    BY <1>1 DEF TestInv
  <2>2. report' = [checks |-> (k - 1) + 1, failures |-> 0 + 0,
                   matches |-> IF k <= 5 THEN Append(Announced[k], Totals[k])
                               ELSE Announced[k]]
    BY <1>1, <1>3, <1>4, <2>1 DEF check
  <2>3. Announced[k + 1] = IF k <= 5 THEN Append(Announced[k], Totals[k]) ELSE Announced[k]
    BY AnnouncedNext
  <2>4. (k - 1) + 1 = k /\ 0 + 0 = 0
    OBVIOUS
  <2>5. step' = k + 1
    BY <1>1 DEF check
  <2> QED BY <2>2, <2>3, <2>4, <2>5
<1>6. CASE k = 6
  <2>1. UNCHANGED vars
    BY <1>1, <1>6, ScriptLength DEF check
  <2>2. Result' /\ Clean' /\ call' = call /\ before' = before /\ pc' = pc
    BY <1>2, <2>1, ResultInductive, CleanStep DEF Made, vars
  <2>3. step' = 7 /\ Current' = k
    BY <1>5, <1>6 DEF Current
  <2>4. Made(Current)'
    BY <1>2, <2>2, <2>3 DEF Made
  <2> QED BY <1>2, <1>5, <1>6, <2>2, <2>3, <2>4 DEF TestInv
<1>7. CASE k # 6
  <2>1. PICK j \in 1 .. 5, l \in 1 .. 6 : j = k /\ l = k + 1
    BY <1>7
  <2>2. Start(l, memory)
    BY <1>1, <2>1, ScriptLength DEF check
  <2>3. Outcome(j, memory)
    BY <1>2, <2>1, ScriptLeaves DEF Made
  <2>4. Setting(l, Prepared(memory, l))
    BY <2>1, <2>3, PreparedAfter
  <2>5. Made(l)' /\ pc' = "entry"
    BY <2>2, <2>4, Started
  <2>6. step' = l /\ Current' = l
    BY <1>5, <2>1 DEF Current
  <2>7. Made(Current)'
    BY <2>5, <2>6 DEF Made
  <2> QED BY <1>5, <2>1, <2>6, <2>7 DEF TestInv
<1> QED BY <1>6, <1>7

\* A further run starts from what the last has left.
LEMMA RunAgainPasses == TestInv /\ RunAgain => TestInv'
<1> SUFFICES ASSUME TestInv, RunAgain PROVE TestInv'
  OBVIOUS
<1>1. step = 7 /\ pc = "done" /\ Made(6)
  BY ScriptLength DEF RunAgain, TestInv, Current
<1>2. PICK m \in Fresh(memory) : Start(1, m) /\ step' = 1 /\ report' = NoReport
  BY DEF RunAgain
<1>3. DOMAIN memory = 1 .. 271 /\ BytesOnly(memory)
  <2>1. PICK k \in 1 .. 6 : k = 6
    OBVIOUS
  <2>2. Made(k) /\ Arguing(k, call)
    BY <1>1, <2>1, ScriptArguments DEF Made
  <2>3. Outcome(k, memory)
    BY <1>1, <2>2, ScriptLeaves DEF Made
  <2> QED BY <2>3 DEF Outcome
<1>4. DOMAIN m = 1 .. 271 /\ BytesOnly(m)
  BY <1>3, FreshBytes
<1>5. PICK k \in 1 .. 6 : k = 1
  OBVIOUS
<1>6. Setting(k, Prepared(m, k)) /\ Start(k, m)
  BY <1>2, <1>4, <1>5, PreparedFirst
<1>7. Made(k)'
  BY <1>6, Started
<1>8. Made(Current)'
  BY <1>2, <1>5, <1>7 DEF Made, Current
<1>9. report' = [checks |-> step' - 1, failures |-> 0, matches |-> Announced[step']]
  BY <1>2, AnnouncedNext DEF NoReport
<1> QED BY <1>2, <1>8, <1>9 DEF TestInv

\* The scanner self-test passes on every run, the residue of earlier runs in
\* the buffers and the garbage in in_place notwithstanding, and announces the
\* match counts 3, 2, 1, 1 and 1: wherever a search is in the run, it is a
\* legal call on buffers that the preceding ones have left as it needs them.
THEOREM ScannerPasses == TestSpec => []EveryRunPasses
<1>1. TestInv /\ [Searching \/ check \/ RunAgain]_<<vars, step, report>> => TestInv'
  <2> SUFFICES ASSUME TestInv, [Searching \/ check \/ RunAgain]_<<vars, step, report>>
               PROVE  TestInv'
    OBVIOUS
  <2>1. CASE Searching
    BY <2>1, SearchingPasses DEF Searching
  <2>2. CASE check
    BY <2>2, CheckPasses
  <2>3. CASE RunAgain
    BY <2>3, RunAgainPasses
  <2>4. CASE UNCHANGED <<vars, step, report>>
    BY <2>4, SearchingPasses
  <2> QED BY <2>1, <2>2, <2>3, <2>4
<1>2. TestInv => EveryRunPasses
  BY ScriptLength, AnnouncedNext DEF TestInv, EveryRunPasses
<1> QED BY <1>1, <1>2, InitPasses, PTL DEF TestSpec
=============================================================================
