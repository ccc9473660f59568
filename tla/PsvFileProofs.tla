---------------------------- MODULE PsvFileProofs ----------------------------
(***************************************************************************)
(* Machine-checked proofs about PsvFile, for every source, layout of the   *)
(* caller's buffers and number of digits: it implements LegacyPsv, so that *)
(* what holds for every list of line classes holds for every source; it    *)
(* refuses exactly the calls it should; its spans reconstruct the source.  *)
(***************************************************************************)
EXTENDS PsvFile, LegacyPsvProofs, SharedProofs, SequenceTheorems

-----------------------------------------------------------------------------
(***************************************************************************)
(* PsvFile implements LegacyPsv.                                           *)
(***************************************************************************)

\* Whatever the bytes of a line are, it has one of the classes.
LEMMA ClassOfLine ==
  ASSUME NEW begin, NEW end
  PROVE  LineClass(begin, end) \in LineClasses
<1>1. CodeClass(begin, end) \in LineClasses
  BY DEF CodeClass, LineClasses
<1>2. HeaderClass(begin, end) \in LineClasses
  BY DEF HeaderClass, LineClasses
<1> QED BY <1>1, <1>2 DEF LineClass, LineClasses

\* Each step is one of LegacyPsv.
LEMMA OpenEnters ==
  ASSUME Open
  PROVE  \E pointers, small, disjoint \in BOOLEAN : Enter(pointers, small, disjoint)
<1> DEFINE pointers == PointersPresent
           small == Len(text) <= MaxSourceBytes
           disjoint == ArraysFit /\ ~AnyOverlap(region, EntryPairs)
<1>1. pointers \in BOOLEAN /\ small \in BOOLEAN /\ disjoint \in BOOLEAN
  BY DEF PointersPresent
<1>2. Enter(pointers, small, disjoint)
  BY DEF Open
<1> HIDE DEF pointers, small, disjoint
<1> QED BY <1>1, <1>2

LEMMA ReadLineParses ==
  ASSUME ReadLine
  PROVE  \E class \in LineClasses : ParseLine(class)
BY ClassOfLine DEF ReadLine

LEMMA FileStep ==
  ASSUME [FileNext]_fileVars
  PROVE  [Next]_vars
<1>1. CASE Open
  BY <1>1, OpenEnters DEF Next
<1>2. CASE ReadLine
  BY <1>2, ReadLineParses DEF Next
<1>3. CASE EndOfSource
  BY <1>3 DEF EndOfSource, Next
<1>4. CASE UNCHANGED fileVars
  BY <1>4 DEF fileVars
<1> QED BY <1>1, <1>2, <1>3, <1>4 DEF FileNext

\* vc_psv_parse, from its bytes, does what LegacyPsv says of the classes of
\* its lines: every theorem about LegacyPsv holds for every source, read
\* through these arguments.
THEOREM FileImplementsLines == FileSpec => Spec
<1>1. FileInit => Init
  BY DEF FileInit
<1> QED BY <1>1, FileStep, PTL DEF FileSpec, Spec

-----------------------------------------------------------------------------
(***************************************************************************)
(* The arguments.                                                          *)
(***************************************************************************)

\* What no step changes.
ArgumentTypes ==
  /\ text \in Texts
  /\ arguments \in Arguments(text)
  /\ capacity \in Capacities

\* Addresses and sizes are numbers of the address space.
LEMMA ArgumentFacts ==
  ASSUME ArgumentTypes
  PROVE  /\ text \in Seq(STRING) /\ Len(text) \in 0 .. AddressMax
         /\ arguments \in [Buffers -> 0 .. AddressMax]
         /\ \A b \in Buffers : arguments[b] \in 0 .. AddressMax
         /\ capacity \in Nat \X Nat \X Nat
<1>1. text \in Seq(STRING) /\ Len(text) \in 0 .. AddressMax
  <2>1. text \in Seq(STRING) /\ Len(text) <= AddressMax
    BY PsvFileAssumption DEF ArgumentTypes
  <2> QED BY <2>1, RangesAssumption
<1>2. arguments \in [Buffers -> 0 .. AddressMax]
  BY PsvFileAssumption DEF ArgumentTypes
<1>3. capacity \in Nat \X Nat \X Nat
  BY LegacyPsvAssumption DEF ArgumentTypes
<1> QED BY <1>1, <1>2, <1>3

\* The ranges that the checks at entry compute, products wrapped.
LEMMA RegionTypes ==
  ASSUME ArgumentTypes, AddressMax >= 1, NEW b \in Buffers
  PROVE  region[b] \in Regions
<1> USE RangesAssumption
<1>1. ASSUME NEW n \in Nat PROVE Product(n, RecordBytes) \in 0 .. AddressMax
  <2>1. n * RecordBytes \in Nat
    BY PsvFileAssumption
  <2> QED BY <2>1 DEF Product
<1>2. /\ arguments["source"] \in 0 .. AddressMax /\ arguments["lines"] \in 0 .. AddressMax
      /\ arguments["cheats"] \in 0 .. AddressMax /\ arguments["operations"] \in 0 .. AddressMax
      /\ arguments["report"] \in 0 .. AddressMax /\ Len(text) \in 0 .. AddressMax
  BY ArgumentFacts DEF Buffers
<1>3. line_capacity \in Nat /\ cheat_capacity \in Nat /\ operation_capacity \in Nat
  BY ArgumentFacts DEF line_capacity, cheat_capacity, operation_capacity
<1>4. /\ Product(line_capacity, RecordBytes) \in 0 .. AddressMax
      /\ Product(cheat_capacity, RecordBytes) \in 0 .. AddressMax
      /\ Product(operation_capacity, RecordBytes) \in 0 .. AddressMax
  BY <1>1, <1>3
<1>5. 1 \in 0 .. AddressMax
  OBVIOUS
<1> QED BY SMTT(30), <1>2, <1>4, <1>5 DEF region, Regions, Buffers

\* The whole contract on the arguments of legacy_psv.h.
Legal ==
  /\ PointersPresent
  /\ \A i \in 1 .. 3 : capacity[i] * RecordBytes <= AddressMax
  /\ \A p, q \in Buffers : p # q => Cells(region[p]) \cap Cells(region[q]) = {}

\* A report has an address, so there is one beside NULL.
LEMMA AddressesExist ==
  ASSUME ArgumentTypes, PointersPresent
  PROVE  AddressMax >= 1
BY ArgumentFacts, RangesAssumption DEF PointersPresent, Buffers

\* The checks let no call pass that breaks the contract.
LEMMA AcceptedIsLegal ==
  ASSUME ArgumentTypes, PointersPresent, ArraysFit, ~AnyOverlap(region, EntryPairs)
  PROVE  Legal
<1>1. ASSUME NEW p \in Buffers, NEW q \in Buffers, p # q
      PROVE  Cells(region[p]) \cap Cells(region[q]) = {}
  <2>1. region[p] \in Regions /\ region[q] \in Regions
    BY RegionTypes, AddressesExist
  <2>2. ~ranges_overlap(region[p], region[q])
    <3>1. <<p, q>> \in EntryPairs
      BY <1>1 DEF EntryPairs
    <3> QED BY <3>1 DEF AnyOverlap
  <2> QED BY <2>1, <2>2, PassedRegionsAreDisjoint
<1> QED BY <1>1 DEF Legal, ArraysFit, ProductFits

\* And refuse none that keeps it, below the top of the address space.
LEMMA RefusedIsIllegal ==
  ASSUME ArgumentTypes, ~(PointersPresent /\ ArraysFit /\ ~AnyOverlap(region, EntryPairs))
  PROVE  ~Legal \/ \E b \in Buffers : ~BelowTop(region[b])
<1> SUFFICES ASSUME Legal, \A b \in Buffers : BelowTop(region[b]) PROVE FALSE
  OBVIOUS
<1>1. PointersPresent /\ ArraysFit
  BY DEF Legal, ArraysFit, ProductFits
<1>2. PICK p \in Buffers, q \in Buffers : p # q /\ ranges_overlap(region[p], region[q])
  BY <1>1 DEF AnyOverlap, EntryPairs
<1>3. region[p] \in Regions /\ region[q] \in Regions
  BY <1>1, RegionTypes, AddressesExist
<1> QED BY <1>2, <1>3, DisjointRegionsPass DEF Legal

\* The status is what the entry has decided until the parse returns.
StatusInv ==
  /\ pc \in {"entry", "parsing"} => status = "NONE"
  /\ RefusedExactlyWhenOverlapping

\* No step changes the arguments.
LEMMA FileConstants ==
  ASSUME [FileNext]_fileVars
  PROVE  UNCHANGED <<text, arguments, capacity>>
<1>1. CASE Open
  BY <1>1 DEF Open, Enter
<1>2. CASE ReadLine
  BY <1>2 DEF ReadLine, ParseLine
<1>3. CASE EndOfSource
  BY <1>3 DEF EndOfSource, Finish
<1>4. CASE UNCHANGED fileVars
  BY <1>4 DEF fileVars, vars
<1> QED BY <1>1, <1>2, <1>3, <1>4 DEF FileNext

\* The contract is about the arguments alone.
LEMMA LegalStable ==
  ASSUME UNCHANGED <<text, arguments, capacity>>
  PROVE  /\ Legal' <=> Legal
         /\ region' = region
BY DEF Legal, PointersPresent, region, line_capacity, cheat_capacity, operation_capacity

\* The entry decides as the contract says.
LEMMA OpenStatus ==
  ASSUME ArgumentTypes, StatusInv, Open
  PROVE  StatusInv'
<1>1. status = "NONE" /\ UNCHANGED <<text, arguments, capacity>>
  BY DEF StatusInv, Open, Enter
<1>2. (Legal' <=> Legal) /\ region' = region /\ Len(text') = Len(text)
  BY <1>1, LegalStable
<1> DEFINE refused == pc' = "done" /\ status' = "INVALID_ARGUMENT"
<1>3. CASE refused /\ ~(PointersPresent /\ ArraysFit /\ ~AnyOverlap(region, EntryPairs))
  <2>1. ~Legal \/ \E b \in Buffers : ~BelowTop(region[b])
    BY <1>3, RefusedIsIllegal
  <2> QED BY <1>2, <1>3, <2>1 DEF StatusInv, RefusedExactlyWhenOverlapping, Legal
<1>4. CASE pc' = "done" /\ status' = "SOURCE_TOO_LARGE" /\ Len(text) > MaxSourceBytes
  BY <1>2, <1>4 DEF StatusInv, RefusedExactlyWhenOverlapping
<1>5. CASE /\ pc' = "parsing" /\ status' = "NONE" /\ Len(text) <= MaxSourceBytes
           /\ PointersPresent /\ ArraysFit /\ ~AnyOverlap(region, EntryPairs)
  <2>1. Legal
    BY <1>5, AcceptedIsLegal
  <2> QED BY <1>2, <1>5, <2>1 DEF StatusInv, RefusedExactlyWhenOverlapping, Legal
<1>6. Len(text) > MaxSourceBytes \/ Len(text) <= MaxSourceBytes
  BY ArgumentFacts, PsvFileAssumption
<1> QED BY <1>1, <1>3, <1>4, <1>5, <1>6 DEF Open, Enter

LEMMA StatusStep ==
  ASSUME ArgumentTypes, StatusInv, [FileNext]_fileVars
  PROVE  ArgumentTypes' /\ StatusInv'
<1>1. UNCHANGED <<text, arguments, capacity>>
  BY FileConstants
<1>2. ArgumentTypes'
  BY <1>1 DEF ArgumentTypes
<1>3. (Legal' <=> Legal) /\ region' = region /\ Len(text') = Len(text)
  BY <1>1, LegalStable
<1>4. CASE Open
  BY <1>2, <1>4, OpenStatus
<1>5. CASE ReadLine \/ UNCHANGED fileVars
  <2>1. UNCHANGED <<pc, status>>
    BY <1>5 DEF ReadLine, ParseLine, fileVars, vars
  <2> QED BY <1>2, <1>3, <2>1 DEF StatusInv, RefusedExactlyWhenOverlapping, Legal
<1>6. CASE EndOfSource
  <2>1. pc = "parsing" /\ pc' = "done" /\ status' \in {"OK", "TRUNCATED"}
    BY <1>6 DEF EndOfSource, Finish
  <2>2. Legal /\ Len(text) <= MaxSourceBytes
    BY <2>1 DEF StatusInv, RefusedExactlyWhenOverlapping, Legal
  <2> QED BY <1>2, <1>3, <2>1, <2>2 DEF StatusInv, RefusedExactlyWhenOverlapping, Legal
<1> QED BY <1>4, <1>5, <1>6 DEF FileNext

-----------------------------------------------------------------------------
(***************************************************************************)
(* Lines.                                                                  *)
(***************************************************************************)

\* Among the offsets from one up to another of which some are stops there is
\* a first one.
LEMMA FirstStop ==
  ASSUME NEW begin \in Nat, NEW end \in Nat, NEW T, T \subseteq begin .. end, T # {}
  PROVE  \E q \in T : \A i \in begin .. q - 1 : i \notin T
<1>1. T \subseteq Nat
  OBVIOUS
<1>2. PICK q \in T : \A m \in T : q <= m
  BY <1>1, LeastNatural
<1>3. \A i \in begin .. q - 1 : i \notin T
  BY <1>1, <1>2
<1> QED BY <1>3

\* And a last one.
LEMMA LastStop ==
  ASSUME NEW begin \in Nat, NEW end \in Nat, NEW T, T \subseteq begin .. end, T # {}
  PROVE  \E q \in T : \A i \in q + 1 .. end : i \notin T
<1> DEFINE M == {end - i : i \in T}
<1>1. M \subseteq Nat /\ M # {}
  OBVIOUS
<1>2. PICK m \in M : \A n \in M : m <= n
  BY <1>1, LeastNatural
<1>3. PICK q \in T : m = end - q
  BY <1>2
<1>4. ASSUME NEW i \in q + 1 .. end, i \in T PROVE FALSE
  <2>1. end - i \in M /\ i \in Nat /\ q \in Nat /\ i > q
    BY <1>4
  <2> QED BY <1>2, <1>3, <2>1
<1> QED BY <1>4

LineEnd == {"CR", "LF"}

\* The content of a line ends at the first line end, or at the end of the source.
LEMMA ContentEndFacts ==
  ASSUME NEW begin \in 0 .. Len(text), text \in Seq(STRING)
  PROVE  /\ ContentEnd(begin) \in begin .. Len(text)
         /\ ContentEnd(begin) = Len(text) \/ at(ContentEnd(begin)) \in LineEnd
         /\ \A i \in begin .. ContentEnd(begin) - 1 : at(i) \notin LineEnd
<1> DEFINE T == {q \in begin .. Len(text) : q = Len(text) \/ at(q) \in LineEnd}
<1>1. Len(text) \in T
  OBVIOUS
<1>2. PICK q \in T : \A i \in begin .. q - 1 : i \notin T
  <2>1. begin \in Nat /\ Len(text) \in Nat /\ T \subseteq begin .. Len(text) /\ T # {}
    BY <1>1
  <2> HIDE DEF T
  <2> QED BY <2>1, FirstStop
<1>3. \A i \in begin .. q - 1 : at(i) \notin LineEnd
  BY <1>2
<1> QED BY <1>2, <1>3 DEF ContentEnd, LineEnd

\* trim_span stops at the first byte that is not a space.
LEMMA SkipSpacesFacts ==
  ASSUME NEW begin \in Nat, NEW end \in Nat, begin <= end
  PROVE  /\ SkipSpaces(begin, end) \in begin .. end
         /\ SkipSpaces(begin, end) = end \/ at(SkipSpaces(begin, end)) # "sp"
         /\ \A i \in begin .. SkipSpaces(begin, end) - 1 : at(i) = "sp"
<1> DEFINE T == {q \in begin .. end : q = end \/ at(q) # "sp"}
<1>1. end \in T
  OBVIOUS
<1>2. PICK q \in T : \A i \in begin .. q - 1 : i \notin T
  <2>1. T \subseteq begin .. end /\ T # {}
    BY <1>1
  <2> HIDE DEF T
  <2> QED BY <2>1, FirstStop
<1>3. \A i \in begin .. q - 1 : at(i) = "sp"
  BY <1>2
<1> QED BY <1>2, <1>3 DEF SkipSpaces

\* And behind the last one.
LEMMA DropSpacesFacts ==
  ASSUME NEW begin \in Nat, NEW end \in Nat, begin <= end
  PROVE  /\ DropSpaces(begin, end) \in begin .. end
         /\ DropSpaces(begin, end) = begin \/ at(DropSpaces(begin, end) - 1) # "sp"
         /\ \A i \in DropSpaces(begin, end) .. end - 1 : at(i) = "sp"
<1> DEFINE T == {q \in begin .. end : q = begin \/ at(q - 1) # "sp"}
<1>1. begin \in T
  OBVIOUS
<1>2. PICK q \in T : \A i \in q + 1 .. end : i \notin T
  <2>1. T \subseteq begin .. end /\ T # {}
    BY <1>1
  <2> HIDE DEF T
  <2> QED BY <2>1, LastStop
<1>3. ASSUME NEW i \in q .. end - 1 PROVE at(i) = "sp"
  <2>1. i + 1 \in q + 1 .. end /\ i + 1 \in begin .. end /\ i + 1 # begin
    BY <1>2
  <2>2. i + 1 \notin T /\ (i + 1) - 1 = i
    BY <1>2, <2>1
  <2> QED BY <2>1, <2>2
<1> QED BY <1>2, <1>3 DEF DropSpaces

\* The bytes from one offset up to another.
LEMMA SliceFacts ==
  ASSUME text \in Seq(STRING), NEW begin \in 0 .. Len(text), NEW end \in begin .. Len(text)
  PROVE  /\ Slice(begin, end) \in Seq(STRING)
         /\ Len(Slice(begin, end)) = end - begin
         /\ \A i \in 1 .. end - begin : Slice(begin, end)[i] = at(begin + i - 1)
<1>1. \A i \in begin + 1 .. end : text[i] \in STRING
  BY ElementOfSeq
<1>2. /\ Slice(begin, end) \in Seq(STRING)
      /\ Len(Slice(begin, end)) = IF begin + 1 <= end THEN end - (begin + 1) + 1 ELSE 0
      /\ \A i \in 1 .. end - (begin + 1) + 1 :
           Slice(begin, end)[i] = text[(begin + 1) + i - 1]
  BY <1>1, SubSeqProperties DEF Slice
<1>3. \A i \in 1 .. end - begin : (begin + 1) + i - 1 = (begin + i - 1) + 1
  OBVIOUS
<1> QED BY <1>2, <1>3 DEF at

\* A slice with the length and the elements of a sequence is that sequence.
LEMMA SliceIs ==
  ASSUME text \in Seq(STRING), NEW begin \in 0 .. Len(text), NEW end \in begin .. Len(text),
         NEW s \in Seq(STRING), Len(s) = end - begin,
         \A i \in 1 .. Len(s) : s[i] = at(begin + i - 1)
  PROVE  Slice(begin, end) = s
BY SliceFacts, SeqEqual

\* Slices of one, two and three bytes.
LEMMA ByteType ==
  ASSUME text \in Seq(STRING), NEW i \in 0 .. Len(text) - 1
  PROVE  at(i) \in STRING
<1>1. i + 1 \in 1 .. Len(text)
  OBVIOUS
<1> QED BY <1>1, ElementOfSeq DEF at

LEMMA OneByte ==
  ASSUME text \in Seq(STRING), NEW i \in Nat, i + 1 <= Len(text)
  PROVE  Slice(i, i + 1) = <<at(i)>>
<1>1. i \in 0 .. Len(text) /\ i + 1 \in i .. Len(text) /\ at(i) \in STRING
  BY ByteType
<1>2. <<at(i)>> \in Seq(STRING) /\ Len(<<at(i)>>) = (i + 1) - i
  BY <1>1
<1>3. \A j \in 1 .. Len(<<at(i)>>) : <<at(i)>>[j] = at(i + j - 1)
  OBVIOUS
<1> QED BY <1>1, <1>2, <1>3, SliceIs

LEMMA TwoBytes ==
  ASSUME text \in Seq(STRING), NEW i \in Nat, i + 2 <= Len(text)
  PROVE  Slice(i, i + 2) = <<at(i), at(i + 1)>>
<1> DEFINE s == <<at(i), at(i + 1)>>
<1>1. i \in 0 .. Len(text) /\ i + 2 \in i .. Len(text) /\ at(i) \in STRING /\ at(i + 1) \in STRING
  BY ByteType
<1>2. s \in Seq(STRING) /\ Len(s) = (i + 2) - i
  BY <1>1
<1>3. ASSUME NEW j \in 1 .. Len(s) PROVE s[j] = at(i + j - 1)
  <2>1. j = 1 \/ j = 2
    BY <1>3
  <2>2. s[1] = at(i) /\ s[2] = at(i + 1) /\ i + 1 - 1 = i /\ i + 2 - 1 = i + 1
    OBVIOUS
  <2> QED BY <2>1, <2>2
<1> HIDE DEF s
<1>4. Slice(i, i + 2) = s
  BY <1>1, <1>2, <1>3, SliceIs
<1> QED BY <1>4 DEF s

LEMMA ThreeBytes ==
  ASSUME text \in Seq(STRING), NEW i \in Nat, i + 3 <= Len(text)
  PROVE  Slice(i, i + 3) = <<at(i), at(i + 1), at(i + 2)>>
<1> DEFINE s == <<at(i), at(i + 1), at(i + 2)>>
<1>1. /\ i \in 0 .. Len(text) /\ i + 3 \in i .. Len(text)
      /\ at(i) \in STRING /\ at(i + 1) \in STRING /\ at(i + 2) \in STRING
  BY ByteType
<1>2. s \in Seq(STRING) /\ Len(s) = (i + 3) - i
  BY <1>1
<1>3. ASSUME NEW j \in 1 .. Len(s) PROVE s[j] = at(i + j - 1)
  <2>1. j = 1 \/ j = 2 \/ j = 3
    BY <1>3
  <2>2. /\ s[1] = at(i) /\ s[2] = at(i + 1) /\ s[3] = at(i + 2)
        /\ i + 1 - 1 = i /\ i + 2 - 1 = i + 1 /\ i + 3 - 1 = i + 2
    OBVIOUS
  <2> QED BY <2>1, <2>2
<1> HIDE DEF s
<1>4. Slice(i, i + 3) = s
  BY <1>1, <1>2, <1>3, SliceIs
<1> QED BY <1>4 DEF s

\* Every line is its content, one ending, which only the last one lacks, and
\* on the first line a mark.
LineSpan(l) ==
  LET raw == spans[l].raw
      content == spans[l].content
      ending == Slice(content[2], raw[2])
  IN  /\ raw[1] = IF l = 1 THEN 0 ELSE spans[l - 1].raw[2]
      /\ raw[1] < raw[2]
      /\ Slice(raw[1], content[1]) \in {<<>>} \cup
           IF l = 1 THEN {<<"EF", "BB", "BF">>} ELSE {}
      /\ \A i \in content[1] .. content[2] - 1 : at(i) \notin {"CR", "LF"}
      /\ ending \in Endings \/ (ending = <<>> /\ raw[2] = Len(text))
      /\ ending = <<"CR">> /\ raw[2] < Len(text) => at(raw[2]) # "LF"

\* The property is one of each line.
LEMMA SpansProperty ==
  SpansReconstructSource <=>
    (Len(spans) = total_lines =>
       /\ position = IF spans = <<>> THEN 0 ELSE spans[Len(spans)].raw[2]
       /\ \A l \in 1 .. Len(spans) : LineSpan(l))
BY DEF SpansReconstructSource, LineSpan

\* The ending of a line.
LEMMA RawEndFacts ==
  ASSUME text \in Seq(STRING), NEW begin \in 0 .. Len(text), begin < Len(text),
         NEW end \in begin .. Len(text),
         end = Len(text) \/ at(end) \in LineEnd,
         \A i \in begin .. end - 1 : at(i) \notin LineEnd
  PROVE  /\ RawEnd(end) \in begin + 1 .. Len(text) /\ RawEnd(end) >= end
         /\ \/ Slice(end, RawEnd(end)) \in Endings
            \/ Slice(end, RawEnd(end)) = <<>> /\ RawEnd(end) = Len(text)
         /\ Slice(end, RawEnd(end)) = <<"CR">> /\ RawEnd(end) < Len(text)
              => at(RawEnd(end)) # "LF"
<1>1. CASE end = Len(text)
  <2>1. RawEnd(end) = end
    BY <1>1 DEF RawEnd
  <2>2. Slice(end, end) = <<>>
    BY SubSeqEmpty DEF Slice
  <2> QED BY <1>1, <2>1, <2>2
<1>2. CASE end # Len(text) /\ at(end) = "CR" /\ end + 1 < Len(text) /\ at(end + 1) = "LF"
  <2>1. RawEnd(end) = end + 2 /\ end + 2 \in end .. Len(text)
    BY <1>2 DEF RawEnd
  <2>2. Slice(end, end + 2) = <<"CR", "LF">>
    BY <1>2, <2>1, TwoBytes
  <2>3. Len(<<"CR", "LF">>) # Len(<<"CR">>)
    OBVIOUS
  <2>4. Slice(end, end + 2) \in Endings /\ Slice(end, end + 2) # <<"CR">>
    BY <2>2, <2>3 DEF Endings
  <2> QED BY <2>1, <2>4
<1>3. CASE end # Len(text) /\ ~(at(end) = "CR" /\ end + 1 < Len(text) /\ at(end + 1) = "LF")
  <2>1. RawEnd(end) = end + 1 /\ end + 1 \in end .. Len(text) /\ at(end) \in LineEnd
    BY <1>3 DEF RawEnd
  <2>2. Slice(end, end + 1) = <<at(end)>>
    BY <2>1, OneByte
  <2>3. Slice(end, end + 1) \in Endings
    BY <2>1, <2>2 DEF Endings, LineEnd
  <2>4. Slice(end, end + 1) = <<"CR">> => at(end) = "CR"
    <3>1. <<at(end)>>[1] = at(end) /\ <<"CR">>[1] = "CR"
      OBVIOUS
    <3> QED BY <2>2, <3>1
  <2> QED BY <1>3, <2>1, <2>3, <2>4
<1> QED BY <1>1, <1>2, <1>3

\* The mark, which only the first line can have.
LEMMA ContentBeginFacts ==
  ASSUME text \in Seq(STRING), NEW begin \in 0 .. Len(text), NEW end \in begin .. Len(text)
  PROVE  /\ ContentBegin(begin, end) \in begin .. end
         /\ Slice(begin, ContentBegin(begin, end)) \in {<<>>} \cup
              IF total_lines = 0 THEN {<<"EF", "BB", "BF">>} ELSE {}
<1>1. CASE ContentBegin(begin, end) = begin
  <2>1. Slice(begin, begin) = <<>>
    BY SubSeqEmpty DEF Slice
  <2> QED BY <1>1, <2>1
<1>2. CASE ContentBegin(begin, end) # begin
  <2>1. /\ total_lines = 0 /\ end - begin >= 3 /\ ContentBegin(begin, end) = begin + 3
        /\ at(begin) = "EF" /\ at(begin + 1) = "BB" /\ at(begin + 2) = "BF"
    BY <1>2 DEF ContentBegin
  <2>2. Slice(begin, begin + 3) = <<"EF", "BB", "BF">>
    BY <2>1, ThreeBytes
  <2> QED BY <2>1, <2>2
<1> QED BY <1>1, <1>2

SpanRecords == [raw : Nat \X Nat, content : Nat \X Nat]

\* The spans stored so far.
SpansInv ==
  /\ position \in 0 .. Len(text)
  /\ total_lines \in Nat
  /\ total_lines = 0 => position = 0
  /\ spans \in Seq(SpanRecords)
  /\ Len(spans) <= total_lines
  /\ SpansReconstructSource

\* The line that ReadLine reads.
LineRead(end, content) ==
  /\ end = ContentEnd(position) /\ content = ContentBegin(position, end)
  /\ position < Len(text)
  /\ position' = RawEnd(end)
  /\ total_lines' = total_lines + 1
  /\ spans' = IF total_lines < line_capacity
              THEN Append(spans, [raw |-> <<position, RawEnd(end)>>,
                                  content |-> <<content, end>>])
              ELSE spans

\* ReadLine reads one line.
LEMMA ReadLineReads ==
  ASSUME ReadLine
  PROVE  \E end, content : LineRead(end, content)
<1>1. PICK class : ParseLine(class)
  BY DEF ReadLine
<1>2. total_lines' = total_lines + 1
  BY <1>1 DEF ParseLine, SkippedLine, BadHeaderLine, HeaderLine, BadCodeLine, CodeLine,
              OpaqueLine, store_line
<1>3. LineRead(ContentEnd(position), ContentBegin(position, ContentEnd(position)))
  BY <1>2 DEF ReadLine, LineRead
<1> QED BY <1>3

\* What is stored of a line stays as it is.
LEMMA LineSpanKept ==
  ASSUME text' = text, NEW l \in Nat, LineSpan(l), spans'[l] = spans[l],
         l # 1 => spans'[l - 1] = spans[l - 1]
  PROVE  LineSpan(l)'
BY DEF LineSpan, Slice, at

\* And what is stored of the line read is a line.
LEMMA LineSpanStored ==
  ASSUME text' = text, NEW l, NEW begin, NEW content, NEW end, NEW next,
         spans'[l].raw = <<begin, next>>, spans'[l].content = <<content, end>>,
         begin = IF l = 1 THEN 0 ELSE spans'[l - 1].raw[2],
         begin < next,
         Slice(begin, content) \in {<<>>} \cup
           IF l = 1 THEN {<<"EF", "BB", "BF">>} ELSE {},
         \A i \in content .. end - 1 : at(i) \notin {"CR", "LF"},
         Slice(end, next) \in Endings \/ (Slice(end, next) = <<>> /\ next = Len(text)),
         Slice(end, next) = <<"CR">> /\ next < Len(text) => at(next) # "LF"
  PROVE  LineSpan(l)'
<1>1. /\ spans'[l].raw[1] = begin /\ spans'[l].raw[2] = next
      /\ spans'[l].content[1] = content /\ spans'[l].content[2] = end
  OBVIOUS
<1> QED BY <1>1 DEF LineSpan, Slice, at

\* The new line begins where the last one has ended.
LEMMA ReadLineSpans ==
  ASSUME ArgumentTypes, SpansInv, ReadLine
  PROVE  SpansInv'
<1>0. text' = text
  BY FileConstants DEF FileNext
<1>1. PICK end, content : LineRead(end, content)
  BY ReadLineReads
<1>n. PICK n : n = Len(spans)
  OBVIOUS
<1> DEFINE record == [raw |-> <<position, RawEnd(end)>>, content |-> <<content, end>>]
<1>2. text \in Seq(STRING) /\ Len(text) \in Nat /\ position \in Nat /\ position < Len(text)
  BY <1>1, ArgumentFacts DEF SpansInv, LineRead
<1>3. /\ end \in position .. Len(text)
      /\ end = Len(text) \/ at(end) \in LineEnd
      /\ \A i \in position .. end - 1 : at(i) \notin LineEnd
  BY <1>1, <1>2, ContentEndFacts DEF SpansInv, LineRead
<1>4. /\ RawEnd(end) \in position + 1 .. Len(text)
      /\ \/ Slice(end, RawEnd(end)) \in Endings
         \/ Slice(end, RawEnd(end)) = <<>> /\ RawEnd(end) = Len(text)
      /\ Slice(end, RawEnd(end)) = <<"CR">> /\ RawEnd(end) < Len(text) => at(RawEnd(end)) # "LF"
  BY <1>2, <1>3, RawEndFacts DEF SpansInv
<1>5. /\ content \in position .. end
      /\ Slice(position, content) \in {<<>>} \cup
           IF total_lines = 0 THEN {<<"EF", "BB", "BF">>} ELSE {}
  BY <1>1, <1>2, <1>3, ContentBeginFacts DEF SpansInv, LineRead
<1>6. record \in SpanRecords
  BY <1>2, <1>3, <1>4, <1>5 DEF SpanRecords
<1>7. /\ position' = RawEnd(end) /\ total_lines' = total_lines + 1
      /\ spans' = IF total_lines < line_capacity THEN Append(spans, record) ELSE spans
      /\ n \in Nat /\ n <= total_lines /\ total_lines \in Nat /\ spans \in Seq(SpanRecords)
  BY <1>1, <1>n DEF LineRead, SpansInv
<1> HIDE DEF record
<1>8. /\ position' \in 0 .. Len(text') /\ total_lines' \in Nat /\ total_lines' # 0
      /\ spans' \in Seq(SpanRecords) /\ Len(spans') <= total_lines'
  BY <1>0, <1>2, <1>4, <1>6, <1>7, <1>n
<1>9. ASSUME Len(spans') = total_lines'
      PROVE  /\ position' = spans'[Len(spans')].raw[2] /\ spans' # <<>>
             /\ \A l \in 1 .. Len(spans') : LineSpan(l)'
  <2>1. spans' = Append(spans, record) /\ n = total_lines
    BY <1>7, <1>9, <1>n
  <2>2. /\ Len(spans') = n + 1 /\ spans'[n + 1] = record
        /\ \A l \in 1 .. n : spans'[l] = spans[l]
    <3>1. spans \in Seq(SpanRecords) /\ record \in SpanRecords /\ Len(spans) = n
      BY <1>6, <1>7, <1>n
    <3>2. /\ Len(Append(spans, record)) = n + 1 /\ Append(spans, record)[n + 1] = record
          /\ \A l \in 1 .. n : Append(spans, record)[l] = spans[l]
      BY <3>1, AppendProperties
    <3> QED BY <2>1, <3>2
  <2>3. /\ position = IF spans = <<>> THEN 0 ELSE spans[n].raw[2]
        /\ \A l \in 1 .. n : LineSpan(l)
    BY <1>n, <2>1, SpansProperty DEF SpansInv
  <2>4. ASSUME NEW l \in 1 .. n PROVE LineSpan(l)'
    <3>1. l # 1 => l - 1 \in 1 .. n
      BY <1>7
    <3> QED BY <1>0, <2>2, <2>3, <3>1, LineSpanKept
  <2>5. LineSpan(n + 1)'
    <3>1. position = IF n + 1 = 1 THEN 0 ELSE spans'[n].raw[2]
      <4>1. spans = <<>> <=> n = 0
        BY <1>7, <1>n
      <4>2. n # 0 => n \in 1 .. n
        BY <1>7
      <4> QED BY <1>7, <2>2, <2>3, <4>1, <4>2
    <3>2. /\ spans'[n + 1].raw = <<position, RawEnd(end)>>
          /\ spans'[n + 1].content = <<content, end>>
      BY <2>2 DEF record
    <3>3. \A i \in content .. end - 1 : at(i) \notin {"CR", "LF"}
      <4>1. \A i \in content .. end - 1 : i \in position .. end - 1
        BY <1>2, <1>3, <1>5
      <4> QED BY <1>3, <4>1 DEF LineEnd
    <3>4. n + 1 = 1 <=> total_lines = 0
      BY <1>7, <2>1
    <3>5. PICK next : next = RawEnd(end)
      OBVIOUS
    <3>6. PICK begin : begin = position
      OBVIOUS
    <3>7. /\ spans'[n + 1].raw = <<begin, next>>
          /\ begin = IF n + 1 = 1 THEN 0 ELSE spans'[(n + 1) - 1].raw[2]
          /\ begin < next
          /\ Slice(begin, content) \in {<<>>} \cup
               IF n + 1 = 1 THEN {<<"EF", "BB", "BF">>} ELSE {}
      <4>1. (n + 1) - 1 = n /\ begin < next
        BY <1>2, <1>4, <1>7, <3>5, <3>6
      <4> QED BY <1>5, <3>1, <3>2, <3>4, <3>5, <3>6, <4>1
    <3>8. /\ spans'[n + 1].content = <<content, end>>
          /\ \A i \in content .. end - 1 : at(i) \notin {"CR", "LF"}
          /\ Slice(end, next) \in Endings \/ (Slice(end, next) = <<>> /\ next = Len(text))
          /\ Slice(end, next) = <<"CR">> /\ next < Len(text) => at(next) # "LF"
      BY <1>4, <3>2, <3>3, <3>5
    <3> QED BY <1>0, <3>7, <3>8, LineSpanStored
  <2>6. position' = spans'[Len(spans')].raw[2] /\ spans' # <<>>
    <3>1. record.raw = <<position, RawEnd(end)>> /\ record.raw[2] = RawEnd(end)
      BY DEF record
    <3>2. Len(<<>>) = 0 /\ Len(spans') # 0
      BY <1>7, <2>2
    <3> QED BY <1>7, <2>2, <3>1, <3>2
  <2>7. \A l \in 1 .. n + 1 : l \in 1 .. n \/ l = n + 1
    BY <1>7
  <2>8. \A l \in 1 .. n + 1 : LineSpan(l)'
    BY <2>4, <2>5, <2>7
  <2> QED BY <2>2, <2>6, <2>8
<1>10. SpansReconstructSource'
  BY <1>9 DEF SpansReconstructSource, LineSpan
<1> QED BY <1>8, <1>10 DEF SpansInv

\* A step that reads no line keeps the spans or discards them.
LEMMA OtherSpans ==
  ASSUME SpansInv, UNCHANGED <<text, position, total_lines>>,
         spans' = spans \/ spans' = <<>>
  PROVE  SpansInv'
<1>1. CASE spans' = spans
  BY <1>1 DEF SpansInv, SpansReconstructSource, Slice, at
<1>2. CASE spans' = <<>>
  <2>1. Len(spans') = 0 /\ spans' \in Seq(SpanRecords) /\ 1 .. Len(spans') = {}
    BY <1>2
  <2>2. total_lines' = 0 => position' = 0
    BY DEF SpansInv
  <2>3. SpansReconstructSource'
    BY <1>2, <2>1, <2>2 DEF SpansReconstructSource
  <2> QED BY <2>1, <2>2, <2>3 DEF SpansInv
<1> QED BY <1>1, <1>2

LEMMA SpansStep ==
  ASSUME ArgumentTypes, SpansInv, [FileNext]_fileVars
  PROVE  SpansInv'
<1>1. CASE Open
  BY <1>1, OtherSpans DEF Open, Enter, totals
<1>2. CASE ReadLine
  BY <1>2, ReadLineSpans
<1>3. CASE EndOfSource
  BY <1>3, OtherSpans DEF EndOfSource, Finish, totals
<1>4. CASE UNCHANGED fileVars
  BY <1>4, OtherSpans DEF fileVars, vars, totals
<1> QED BY <1>1, <1>2, <1>3, <1>4 DEF FileNext

FileInv == ArgumentTypes /\ StatusInv /\ SpansInv

LEMMA FileInitInv == FileInit => FileInv
<1> SUFFICES ASSUME FileInit PROVE FileInv
  OBVIOUS
<1>1. ArgumentTypes
  BY DEF FileInit, Init, ArgumentTypes
<1>2. StatusInv
  BY DEF FileInit, Init, StatusInv, RefusedExactlyWhenOverlapping
<1>3. SpansInv
  <2>1. position = 0 /\ total_lines = 0 /\ spans = <<>> /\ Len(text) \in Nat
    BY <1>1, ArgumentFacts DEF FileInit, Init
  <2>2. Len(spans) = 0 /\ spans \in Seq(SpanRecords) /\ 1 .. Len(spans) = {}
    BY <2>1
  <2> QED BY <2>1, <2>2 DEF SpansInv, SpansReconstructSource
<1> QED BY <1>1, <1>2, <1>3 DEF FileInv

LEMMA FileInvariant == FileSpec => []FileInv
<1>1. FileInv /\ [FileNext]_fileVars => FileInv'
  BY StatusStep, SpansStep DEF FileInv
<1> QED BY <1>1, FileInitInv, PTL DEF FileSpec

-----------------------------------------------------------------------------
(***************************************************************************)
(* Fields of digits.                                                       *)
(***************************************************************************)

\* Weights multiply.
LEMMA WeightFacts ==
  /\ \A n \in Nat : Weight[n] \in Nat
  /\ Weight[0] = 1
  /\ \A n \in Nat : Weight[n + 1] = 16 * Weight[n]
<1> DEFINE step == [x \in Nat \X Nat |-> 16 * x[2]]
           Solves(f) == f = [n \in Nat |-> IF n = 0 THEN 1 ELSE 16 * f[n - 1]]
<1>1. step \in [Nat \X Nat -> Nat]
  OBVIOUS
<1>2. \A n \in Nat, v \in Nat : step[<<n, v>>] = 16 * v
  OBVIOUS
<1> HIDE DEF step
<1>3. PICK f \in [Nat -> Nat] : f[0] = 1 /\ \A n \in Nat : f[n + 1] = step[<<n, f[n]>>]
  <2>1. PICK one \in Nat : one = 1
    OBVIOUS
  <2>2. \E f : Solution(Nat, one, step, f)
    BY <1>1, Recursion
  <2> QED BY <2>1, <2>2 DEF Solution
<1>4. \A n \in Nat : f[n] = IF n = 0 THEN 1 ELSE 16 * f[n - 1]
  <2> SUFFICES ASSUME NEW n \in Nat, n # 0 PROVE f[n] = 16 * f[n - 1]
    BY <1>3
  <2>1. PICK m \in Nat : m = n - 1 /\ n = m + 1
    OBVIOUS
  <2> QED BY <1>2, <1>3, <2>1
<1>5. Solves(f)
  BY <1>3, <1>4
<1>6. Weight = CHOOSE g : Solves(g)
  BY DEF Weight
<1>7. Solves(Weight)
  BY <1>5, <1>6
<1>8. \A n \in Nat : Weight[n] = IF n = 0 THEN 1 ELSE 16 * Weight[n - 1]
  BY <1>7
<1>9. ASSUME NEW n \in Nat PROVE Weight[n + 1] = 16 * Weight[n]
  <2>1. n + 1 \in Nat /\ n + 1 # 0 /\ (n + 1) - 1 = n
    OBVIOUS
  <2> QED BY <1>8, <2>1
<1>10. Nat \subseteq {n \in Nat : Weight[n] \in Nat}
  <2> DEFINE T == {n \in Nat : Weight[n] \in Nat}
  <2>1. 0 \in T
    BY <1>8
  <2>2. ASSUME NEW n \in Nat, n \in T PROVE n + 1 \in T
    BY <1>9, <2>2
  <2> HIDE DEF T
  <2>3. Nat \subseteq T
    BY <2>1, <2>2, Induction
  <2> QED BY <2>3 DEF T
<1> QED BY <1>8, <1>9, <1>10

\* The recursion of parse_hex_exact: v[n] is the value of the first n digits.
LEMMA ParsedDigits ==
  ASSUME NEW begin \in Nat, NEW digits \in Nat, IsHex(begin, digits)
  PROVE  \E v : /\ v \in [0 .. digits -> Nat] /\ v[0] = 0
                /\ \A n \in Nat : n < digits => v[n + 1] = v[n] * 16 + hex_value(at(begin + n))
                /\ parse_hex_exact(begin, digits) = v[digits]
<1> DEFINE step == [x \in Nat \X Nat |->
                      IF x[1] < digits THEN x[2] * 16 + hex_value(at(begin + x[1])) ELSE x[2]]
           Solves(f) == f = [n \in 0 .. digits |->
                               IF n = 0 THEN 0
                               ELSE f[n - 1] * 16 + hex_value(at(begin + n - 1))]
<1>0. \A n \in Nat : n < digits => hex_value(at(begin + n)) \in Nat
  <2> SUFFICES ASSUME NEW n \in Nat, n < digits PROVE hex_value(at(begin + n)) \in Nat
    OBVIOUS
  <2>1. begin + n \in begin .. begin + digits - 1
    OBVIOUS
  <2>2. hex_value(at(begin + n)) >= 0
    BY <2>1 DEF IsHex
  <2> QED BY <2>2 DEF hex_value
<1>1. step \in [Nat \X Nat -> Nat]
  <2> SUFFICES ASSUME NEW x \in Nat \X Nat, x[1] < digits
               PROVE  x[2] * 16 + hex_value(at(begin + x[1])) \in Nat
    OBVIOUS
  <2>1. PICK n \in Nat, old \in Nat : n = x[1] /\ old = x[2]
    OBVIOUS
  <2>2. PICK h \in Nat : h = hex_value(at(begin + n))
    BY <1>0, <2>1
  <2> QED BY <2>1, <2>2
<1>2. \A n \in Nat, v \in Nat :
        step[<<n, v>>] = IF n < digits THEN v * 16 + hex_value(at(begin + n)) ELSE v
  OBVIOUS
<1> HIDE DEF step
<1>3. \E f : Solution(Nat, 0, step, f)
  BY <1>1, Recursion
<1>4. PICK f \in [Nat -> Nat] : f[0] = 0 /\ \A n \in Nat : f[n + 1] = step[<<n, f[n]>>]
  BY <1>3 DEF Solution
<1>5. PICK g : g = [n \in 0 .. digits |-> f[n]]
  OBVIOUS
<1>6. ASSUME NEW n \in Nat, n < digits
      PROVE  g[n + 1] = g[n] * 16 + hex_value(at(begin + n))
  <2>1. n \in 0 .. digits /\ n + 1 \in 0 .. digits
    BY <1>6
  <2>2. f[n + 1] = f[n] * 16 + hex_value(at(begin + n))
    BY <1>2, <1>4, <1>6
  <2> QED BY <1>5, <2>1, <2>2
<1>7. g \in [0 .. digits -> Nat] /\ g[0] = 0
  BY <1>4, <1>5
<1>8. Solves(g)
  <2>1. ASSUME NEW i \in 0 .. digits, i # 0
        PROVE  g[i] = g[i - 1] * 16 + hex_value(at(begin + i - 1))
    <3>1. PICK n \in Nat : n = i - 1 /\ i = n + 1 /\ n < digits /\ begin + i - 1 = begin + n
      BY <2>1
    <3> QED BY <1>6, <3>1
  <2> QED BY <1>7, <2>1
<1>9. PICK value : value = CHOOSE h : Solves(h)
  OBVIOUS
<1>10. Solves(value)
  BY <1>8, <1>9
<1>11. parse_hex_exact(begin, digits) = value[digits]
  BY <1>9 DEF parse_hex_exact
<1>12. value[0] = 0 /\ \A n \in Nat : n < digits =>
         value[n + 1] = value[n] * 16 + hex_value(at(begin + n))
  <2>1. value[0] = 0
    BY <1>10
  <2>2. ASSUME NEW n \in Nat, n < digits
        PROVE  value[n + 1] = value[n] * 16 + hex_value(at(begin + n))
    <3>1. n + 1 \in 0 .. digits /\ n + 1 # 0 /\ (n + 1) - 1 = n /\ begin + (n + 1) - 1 = begin + n
      BY <2>2
    <3> QED BY <1>10, <3>1
  <2> QED BY <2>1, <2>2
<1>13. value[digits] = g[digits]
  <2> DEFINE T == {n \in Nat : n <= digits => value[n] = g[n]}
  <2>1. 0 \in T
    BY <1>7, <1>12
  <2>2. ASSUME NEW n \in Nat, n \in T PROVE n + 1 \in T
    <3> SUFFICES ASSUME n + 1 <= digits PROVE value[n + 1] = g[n + 1]
      OBVIOUS
    <3>1. n < digits /\ value[n] = g[n]
      BY <2>2
    <3> QED BY <1>6, <1>12, <3>1
  <2> HIDE DEF T
  <2>3. Nat \subseteq T
    BY <2>1, <2>2, Induction
  <2> QED BY <2>3 DEF T
<1> QED BY <1>6, <1>7, <1>11, <1>13

\* The reference: v[n] is what the last n digits contribute.
LEMMA NumberDigits ==
  ASSUME NEW s, NEW digits \in Nat, Len(s) = digits,
         \A i \in 1 .. digits : hex_value(s[i]) \in Nat
  PROVE  \E v : /\ v[0] = 0
                /\ \A n \in Nat : n <= digits => v[n] \in Nat
                /\ \A n \in Nat : n < digits =>
                     v[n + 1] = v[n] + hex_value(s[digits - n]) * Weight[n]
                /\ Number(s) = v[digits]
<1> DEFINE step == [x \in Nat \X Nat |->
                      IF x[1] < digits
                      THEN x[2] + hex_value(s[digits - x[1]]) * Weight[x[1]] ELSE x[2]]
           Solves(f) == f = [n \in 0 .. digits |->
                               IF n = 0 THEN 0
                               ELSE f[n - 1] + hex_value(s[digits + 1 - n]) * Weight[n - 1]]
<1>0. \A n \in Nat : n < digits => hex_value(s[digits - n]) \in Nat
  OBVIOUS
<1>1. step \in [Nat \X Nat -> Nat]
  <2> SUFFICES ASSUME NEW x \in Nat \X Nat, x[1] < digits
               PROVE  x[2] + hex_value(s[digits - x[1]]) * Weight[x[1]] \in Nat
    OBVIOUS
  <2>1. PICK n \in Nat, old \in Nat : n = x[1] /\ old = x[2]
    OBVIOUS
  <2>2. PICK h \in Nat, k \in Nat : h = hex_value(s[digits - n]) /\ k = Weight[n]
    BY <1>0, <2>1, WeightFacts
  <2>3. old + h * k \in Nat
    OBVIOUS
  <2> QED BY <2>1, <2>2, <2>3
<1>2. \A n \in Nat, v \in Nat :
        step[<<n, v>>] =
          IF n < digits THEN v + hex_value(s[digits - n]) * Weight[n] ELSE v
  OBVIOUS
<1> HIDE DEF step
<1>3. \E f : Solution(Nat, 0, step, f)
  BY <1>1, Recursion
<1>4. PICK f \in [Nat -> Nat] : f[0] = 0 /\ \A n \in Nat : f[n + 1] = step[<<n, f[n]>>]
  BY <1>3 DEF Solution
<1>5. PICK g : g = [n \in 0 .. digits |-> f[n]]
  OBVIOUS
<1>6. ASSUME NEW n \in Nat, n < digits
      PROVE  g[n + 1] = g[n] + hex_value(s[digits - n]) * Weight[n]
  <2>1. n \in 0 .. digits /\ n + 1 \in 0 .. digits
    BY <1>6
  <2>2. f[n + 1] = f[n] + hex_value(s[digits - n]) * Weight[n]
    BY <1>2, <1>4, <1>6
  <2> QED BY <1>5, <2>1, <2>2
<1>7. g[0] = 0 /\ g = [n \in 0 .. digits |-> g[n]] /\ \A n \in 0 .. digits : g[n] \in Nat
  BY <1>4, <1>5
<1>8. Solves(g)
  <2>1. ASSUME NEW i \in 0 .. digits, i # 0
        PROVE  g[i] = g[i - 1] + hex_value(s[digits + 1 - i]) * Weight[i - 1]
    <3>1. PICK n \in Nat : n = i - 1 /\ i = n + 1 /\ n < digits /\ digits + 1 - i = digits - n
      BY <2>1
    <3> QED BY <1>6, <3>1
  <2> QED BY <1>7, <2>1
<1>9. PICK value : value = CHOOSE h : Solves(h)
  OBVIOUS
<1>10. Solves(value)
  BY <1>8, <1>9
<1>11. Number(s) = value[digits]
  BY <1>9 DEF Number
<1>12. value[0] = 0 /\ \A n \in Nat : n < digits =>
         value[n + 1] = value[n] + hex_value(s[digits - n]) * Weight[n]
  <2>1. value[0] = 0
    BY <1>10
  <2>2. ASSUME NEW n \in Nat, n < digits
        PROVE  value[n + 1] = value[n] + hex_value(s[digits - n]) * Weight[n]
    <3>1. /\ n + 1 \in 0 .. digits /\ n + 1 # 0 /\ (n + 1) - 1 = n
          /\ digits + 1 - (n + 1) = digits - n
      BY <2>2
    <3> QED BY <1>10, <3>1
  <2> QED BY <2>1, <2>2
<1>13. \A n \in Nat : n <= digits => value[n] \in Nat
  <2> DEFINE T == {n \in Nat : n <= digits => value[n] = g[n]}
  <2>1. 0 \in T
    BY <1>7, <1>12
  <2>2. ASSUME NEW n \in Nat, n \in T PROVE n + 1 \in T
    BY <1>6, <1>12, <2>2
  <2> HIDE DEF T
  <2>3. Nat \subseteq T
    BY <2>1, <2>2, Induction
  <2>4. ASSUME NEW n \in Nat, n <= digits PROVE value[n] \in Nat
    <3>1. value[n] = g[n] /\ n \in 0 .. digits
      BY <2>3, <2>4 DEF T
    <3> QED BY <1>7, <3>1
  <2> QED BY <2>4
<1> QED BY <1>11, <1>12, <1>13

\* Reading digits from the first to the last gives their weighted sum.
LEMMA HexIsNumber ==
  ASSUME text \in Seq(STRING), NEW begin \in Nat, NEW digits \in Nat,
         begin + digits <= Len(text), IsHex(begin, digits)
  PROVE  /\ parse_hex_exact(begin, digits) = Number(Slice(begin, begin + digits))
         /\ parse_hex_exact(begin, digits) \in Nat
<1> DEFINE s == Slice(begin, begin + digits)
           digit(n) == hex_value(at(begin + n))
<1>1. Len(s) = digits /\ \A i \in 1 .. digits : s[i] = at(begin + i - 1)
  <2>1. begin \in 0 .. Len(text) /\ begin + digits \in begin .. Len(text)
    OBVIOUS
  <2> QED BY <2>1, SliceFacts
<1>2. \A n \in Nat : n < digits => digit(n) \in Nat
  <2> SUFFICES ASSUME NEW n \in Nat, n < digits PROVE digit(n) \in Nat
    OBVIOUS
  <2>1. begin + n \in begin .. begin + digits - 1
    OBVIOUS
  <2>2. digit(n) >= 0
    BY <2>1 DEF IsHex
  <2> QED BY <2>2 DEF hex_value
<1>3. \A n \in Nat : n < digits => hex_value(s[digits - n]) = digit(digits - 1 - n)
  <2> SUFFICES ASSUME NEW n \in Nat, n < digits
               PROVE  s[digits - n] = at(begin + (digits - 1 - n))
    OBVIOUS
  <2>1. digits - n \in 1 .. digits /\ begin + (digits - n) - 1 = begin + (digits - 1 - n)
    OBVIOUS
  <2> QED BY <1>1, <2>1
<1>4. \A i \in 1 .. digits : hex_value(s[i]) \in Nat
  <2> SUFFICES ASSUME NEW i \in 1 .. digits PROVE hex_value(s[i]) \in Nat
    OBVIOUS
  <2>1. i - 1 \in Nat /\ i - 1 < digits /\ begin + i - 1 = begin + (i - 1)
    OBVIOUS
  <2> QED BY <1>1, <1>2, <2>1
<1> HIDE DEF s, digit
<1>5. PICK v : /\ v \in [0 .. digits -> Nat] /\ v[0] = 0
               /\ \A n \in Nat : n < digits => v[n + 1] = v[n] * 16 + digit(n)
               /\ parse_hex_exact(begin, digits) = v[digits]
  BY ParsedDigits DEF digit
<1>6. PICK u : /\ u[0] = 0
               /\ \A n \in Nat : n <= digits => u[n] \in Nat
               /\ \A n \in Nat : n < digits =>
                    u[n + 1] = u[n] + hex_value(s[digits - n]) * Weight[n]
               /\ Number(s) = u[digits]
  BY <1>1, <1>4, NumberDigits
<1> DEFINE T == {k \in Nat : k <= digits => v[digits - k] * Weight[k] + u[k] = v[digits]}
<1>7. 0 \in T
  <2>1. v[digits] \in Nat /\ digits - 0 = digits /\ u[0] = 0 /\ Weight[0] = 1
    BY <1>5, <1>6, WeightFacts
  <2> QED BY <2>1
<1>8. ASSUME NEW k \in Nat, k \in T PROVE k + 1 \in T
  <2> SUFFICES ASSUME k + 1 <= digits
               PROVE  v[digits - (k + 1)] * Weight[k + 1] + u[k + 1] = v[digits]
    OBVIOUS
  <2>1. PICK n \in Nat : n = digits - (k + 1) /\ n < digits /\ digits - k = n + 1
                         /\ digits - 1 - k = n
    OBVIOUS
  <2>2. PICK w \in Nat, a \in Nat, h \in Nat, b \in Nat :
          w = Weight[k] /\ a = v[n] /\ h = digit(n) /\ b = u[k]
    <3>1. n \in 0 .. digits /\ k <= digits
      BY <2>1
    <3>2. Weight[k] \in Nat /\ v[n] \in Nat /\ digit(n) \in Nat /\ u[k] \in Nat
      BY <1>2, <1>5, <1>6, <2>1, <3>1, WeightFacts
    <3> QED BY <3>2
  <2>3. v[n + 1] = a * 16 + h /\ u[k + 1] = b + h * w /\ Weight[k + 1] = 16 * w
    <3>1. k < digits /\ hex_value(s[digits - k]) = h
      BY <1>3, <2>1, <2>2
    <3> QED BY <1>5, <1>6, <2>1, <2>2, <3>1, WeightFacts
  <2>4. (a * 16 + h) * w + b = v[digits]
    BY <1>8, <2>1, <2>2, <2>3
  <2>5. a * (16 * w) + (b + h * w) = (a * 16 + h) * w + b
    OBVIOUS
  <2> QED BY <2>1, <2>2, <2>3, <2>4, <2>5
<1>9. digits \in T
  <2> HIDE DEF T
  <2> QED BY <1>7, <1>8, Induction
<1>10. v[digits - digits] * Weight[digits] + u[digits] = v[digits]
  BY <1>9
<1>11. v[digits] = u[digits]
  <2>1. digits - digits = 0 /\ Weight[digits] \in Nat /\ u[digits] \in Nat
    BY <1>6, WeightFacts
  <2>2. v[0] * Weight[digits] = 0
    BY <1>5, <2>1
  <2> QED BY <1>10, <2>1, <2>2
<1> QED BY <1>5, <1>6, <1>11 DEF s

-----------------------------------------------------------------------------
(***************************************************************************)
(* Spaces.                                                                 *)
(***************************************************************************)

\* There is one offset that is reached by skipping spaces.
LEMMA SkipSpacesIs ==
  ASSUME NEW begin \in Nat, NEW end \in Nat, NEW q \in begin .. end,
         q = end \/ at(q) # "sp", \A i \in begin .. q - 1 : at(i) = "sp"
  PROVE  SkipSpaces(begin, end) = q
<1>0. begin <= end
  OBVIOUS
<1>1. PICK p : p = SkipSpaces(begin, end)
  OBVIOUS
<1>2. /\ p \in begin .. end /\ (p = end \/ at(p) # "sp")
      /\ \A i \in begin .. p - 1 : at(i) = "sp"
  BY <1>0, <1>1, SkipSpacesFacts
<1>3. ~(p < q) /\ ~(q < p)
  BY <1>2
<1> QED BY <1>1, <1>2, <1>3

\* The same for the end.
LEMMA DropSpacesIs ==
  ASSUME NEW begin \in Nat, NEW end \in Nat, NEW q \in begin .. end,
         q = begin \/ at(q - 1) # "sp", \A i \in q .. end - 1 : at(i) = "sp"
  PROVE  DropSpaces(begin, end) = q
<1>0. begin <= end
  OBVIOUS
<1>1. PICK p : p = DropSpaces(begin, end)
  OBVIOUS
<1>2. /\ p \in begin .. end /\ (p = begin \/ at(p - 1) # "sp")
      /\ \A i \in p .. end - 1 : at(i) = "sp"
  BY <1>0, <1>1, DropSpacesFacts
<1>3. ~(p < q) /\ ~(q < p)
  BY <1>2
<1> QED BY <1>1, <1>2, <1>3

\* The least and the greatest of a set, by what they are.
LEMMA MinIs ==
  ASSUME NEW S, S \subseteq Nat, NEW m \in S, \A n \in S : m <= n
  PROVE  Min(S) = m
<1>1. PICK k : k = Min(S)
  OBVIOUS
<1>2. k \in S /\ \A n \in S : k <= n
  BY <1>1 DEF Min
<1> QED BY <1>1, <1>2

LEMMA MaxIs ==
  ASSUME NEW S, S \subseteq Nat, NEW m \in S, \A n \in S : n <= m
  PROVE  Max(S) = m
<1>1. PICK k : k = Max(S)
  OBVIOUS
<1>2. k \in S /\ \A n \in S : k >= n
  BY <1>1 DEF Max
<1> QED BY <1>1, <1>2

\* A slice of a slice.
LEMMA SliceOfSlice ==
  ASSUME text \in Seq(STRING), NEW begin \in 0 .. Len(text), NEW end \in begin .. Len(text),
         NEW p \in begin .. end, NEW q \in p .. end
  PROVE  SubSeq(Slice(begin, end), p - begin + 1, q - begin) = Slice(p, q)
<1> DEFINE s == Slice(begin, end)
           t == SubSeq(s, p - begin + 1, q - begin)
<1>1. /\ s \in Seq(STRING) /\ Len(s) = end - begin
      /\ \A i \in 1 .. end - begin : s[i] = at(begin + i - 1)
  BY SliceFacts
<1> HIDE DEF s
<1>2. \A i \in p - begin + 1 .. q - begin : s[i] \in STRING
  <2>1. \A i \in p - begin + 1 .. q - begin : i \in 1 .. Len(s)
    BY <1>1
  <2> QED BY <1>1, <2>1, ElementOfSeq
<1>3. /\ t \in Seq(STRING)
      /\ Len(t) = IF p - begin + 1 <= q - begin THEN (q - begin) - (p - begin + 1) + 1 ELSE 0
      /\ \A i \in 1 .. (q - begin) - (p - begin + 1) + 1 : t[i] = s[(p - begin + 1) + i - 1]
  BY <1>2, SubSeqProperties
<1> HIDE DEF t
<1>4. Len(t) = q - p
  BY <1>3
<1>5. ASSUME NEW i \in 1 .. Len(t) PROVE t[i] = at(p + i - 1)
  <2>1. /\ i \in 1 .. (q - begin) - (p - begin + 1) + 1
        /\ (p - begin + 1) + i - 1 = p - begin + i
        /\ p - begin + i \in 1 .. end - begin
        /\ begin + (p - begin + i) - 1 = p + i - 1
    BY <1>4
  <2> QED BY <1>1, <1>3, <2>1
<1>6. p \in 0 .. Len(text) /\ q \in p .. Len(text)
  OBVIOUS
<1>7. Slice(p, q) = t
  BY <1>3, <1>4, <1>5, <1>6, SliceIs
<1> QED BY <1>7 DEF s, t

\* The spaces around a slice, and what is between them.
LEMMA StrippedIs ==
  ASSUME text \in Seq(STRING), NEW begin \in 0 .. Len(text), NEW end \in begin .. Len(text),
         NEW p \in begin .. end, p = end \/ at(p) # "sp",
         \A i \in begin .. p - 1 : at(i) = "sp",
         NEW q \in p .. end, q = p \/ at(q - 1) # "sp",
         \A i \in q .. end - 1 : at(i) = "sp"
  PROVE  Stripped(Slice(begin, end)) = Slice(p, q)
<1> DEFINE s == Slice(begin, end)
           solid == {i \in 1 .. Len(s) : s[i] # "sp"}
<1>1. Len(s) = end - begin /\ \A i \in 1 .. end - begin : s[i] = at(begin + i - 1)
  BY SliceFacts
<1>2. /\ p \in begin .. end /\ (p = end \/ at(p) # "sp")
      /\ \A i \in begin .. p - 1 : at(i) = "sp"
  OBVIOUS
<1>3. /\ q \in p .. end /\ (q = p \/ at(q - 1) # "sp")
      /\ \A i \in q .. end - 1 : at(i) = "sp"
  OBVIOUS
<1>0. begin \in Nat /\ end \in Nat /\ p \in Nat /\ q \in Nat /\ p <= q
  <2>1. begin \in Nat /\ end \in Nat
    OBVIOUS
  <2>2. p \in Nat
    BY <1>2, <2>1
  <2> QED BY <1>3, <2>1, <2>2
<1>4. \A i \in 1 .. end - begin : i \in solid <=> at(begin + i - 1) # "sp"
  BY <1>1
<1>5. solid \subseteq 1 .. end - begin
  BY <1>1
<1>6. Stripped(s) = IF solid = {} THEN <<>> ELSE SubSeq(s, Min(solid), Max(solid))
  BY DEF Stripped
<1> HIDE DEF s, solid
<1>7. CASE p = q
  <2>1. ASSUME NEW i \in begin .. end - 1 PROVE at(i) = "sp"
    <3>1. i < p \/ i >= q
      BY <1>0, <1>7
    <3> QED BY <1>0, <1>2, <1>3, <3>1
  <2>2. solid = {}
    <3> SUFFICES ASSUME NEW i \in solid PROVE FALSE
      OBVIOUS
    <3>1. i \in 1 .. end - begin /\ begin + i - 1 \in begin .. end - 1
      BY <1>5
    <3> QED BY <1>4, <2>1, <3>1
  <2>3. Slice(p, q) = <<>>
    <3>1. p + 1 \in Int /\ q \in Int /\ q < p + 1
      BY <1>0, <1>7
    <3> QED BY <3>1, SubSeqEmpty DEF Slice
  <2> QED BY <1>6, <2>2, <2>3 DEF s
<1>8. CASE p # q
  <2>1. p < q /\ at(p) # "sp" /\ at(q - 1) # "sp"
    <3>1. p < q
      BY <1>2, <1>3, <1>8
    <3> QED BY <1>2, <1>3, <3>1
  <2>2. /\ p - begin + 1 \in solid /\ q - begin \in solid
    <3>1. p - begin + 1 \in 1 .. end - begin /\ begin + (p - begin + 1) - 1 = p
      BY <1>2, <1>3, <2>1
    <3>2. q - begin \in 1 .. end - begin /\ begin + (q - begin) - 1 = q - 1
      BY <1>2, <1>3, <2>1
    <3> QED BY <1>4, <2>1, <3>1, <3>2
  <2>3. ASSUME NEW i \in solid PROVE p - begin + 1 <= i /\ i <= q - begin
    <3>1. i \in 1 .. end - begin /\ at(begin + i - 1) # "sp"
      BY <1>4, <1>5
    <3>2. begin + i - 1 \notin begin .. p - 1 /\ begin + i - 1 \notin q .. end - 1
      BY <1>2, <1>3, <3>1
    <3> QED BY <1>2, <1>3, <3>1, <3>2
  <2>4. solid \subseteq Nat
    BY <1>5
  <2>5. Min(solid) = p - begin + 1
    BY <2>2, <2>3, <2>4, MinIs
  <2>6. Max(solid) = q - begin
    BY <2>2, <2>3, <2>4, MaxIs
  <2>7. SubSeq(s, p - begin + 1, q - begin) = Slice(p, q)
    BY <1>2, <1>3, SliceOfSlice DEF s
  <2>8. solid # {}
    BY <2>2
  <2> QED BY <1>6, <2>5, <2>6, <2>7, <2>8 DEF s
<1> QED BY <1>7, <1>8

\* What trim_span leaves of a line is the line without the spaces around it.
LEMMA TrimmedIsStripped ==
  ASSUME text \in Seq(STRING), NEW begin \in 0 .. Len(text), NEW end \in begin .. Len(text)
  PROVE  /\ SkipSpaces(begin, end) \in begin .. end
         /\ DropSpaces(SkipSpaces(begin, end), end) \in SkipSpaces(begin, end) .. end
         /\ Stripped(Slice(begin, end)) =
              Slice(SkipSpaces(begin, end), DropSpaces(SkipSpaces(begin, end), end))
<1>0. begin \in Nat /\ end \in Nat /\ begin <= end
  OBVIOUS
<1>1. PICK p : p = SkipSpaces(begin, end)
  OBVIOUS
<1>2. /\ p \in begin .. end /\ (p = end \/ at(p) # "sp")
      /\ \A i \in begin .. p - 1 : at(i) = "sp"
  BY <1>0, <1>1, SkipSpacesFacts
<1>3. PICK q : q = DropSpaces(p, end)
  OBVIOUS
<1>4. p \in Nat /\ p <= end
  BY <1>0, <1>2
<1>5. /\ q \in p .. end /\ (q = p \/ at(q - 1) # "sp")
      /\ \A i \in q .. end - 1 : at(i) = "sp"
  BY <1>0, <1>3, <1>4, DropSpacesFacts
<1>6. Stripped(Slice(begin, end)) = Slice(p, q)
  BY <1>2, <1>5, StrippedIs
<1> QED BY <1>1, <1>2, <1>3, <1>5, <1>6

-----------------------------------------------------------------------------
(***************************************************************************)
(* A line of codes: parse_code accepts what the grammar does.              *)
(***************************************************************************)

\* A byte has a value as a digit exactly when it is one.
LEMMA HexBytes ==
  ASSUME NEW byte
  PROVE  /\ hex_value(byte) >= 0 <=> byte \in {"0", "1", "B"}
         /\ hex_value(byte) >= 0 => byte # "sp"
BY DEF hex_value

\* Digits in a slice are digits in the text.
LEMMA DigitsAreHex ==
  ASSUME text \in Seq(STRING), NEW p \in 0 .. Len(text), NEW q \in p .. Len(text)
  PROVE  Digits(Slice(p, q)) <=> IsHex(p, q - p)
<1>1. /\ Len(Slice(p, q)) = q - p
      /\ \A i \in 1 .. q - p : Slice(p, q)[i] = at(p + i - 1)
  BY SliceFacts
<1>2. Digits(Slice(p, q)) <=> \A i \in 1 .. q - p : hex_value(at(p + i - 1)) >= 0
  BY <1>1, HexBytes DEF Digits
<1>3. ASSUME IsHex(p, q - p), NEW i \in 1 .. q - p PROVE hex_value(at(p + i - 1)) >= 0
  <2>1. p + i - 1 \in p .. p + (q - p) - 1
    OBVIOUS
  <2> QED BY <1>3, <2>1 DEF IsHex
<1>4. ASSUME \A i \in 1 .. q - p : hex_value(at(p + i - 1)) >= 0,
             NEW j \in p .. p + (q - p) - 1
      PROVE  hex_value(at(j)) >= 0
  <2>1. j - p + 1 \in 1 .. q - p /\ p + (j - p + 1) - 1 = j
    OBVIOUS
  <2> QED BY <1>4, <2>1
<1> QED BY <1>2, <1>3, <1>4 DEF IsHex

\* The parts of a line as slices of the source.
LEMMA FieldSlices ==
  ASSUME text \in Seq(STRING), NEW begin \in 0 .. Len(text), NEW end \in begin .. Len(text),
         end - begin >= 1 + CodeDigits + WordDigits
  PROVE  /\ Len(Slice(begin, end)) = end - begin
         /\ CodeOf(Slice(begin, end)) = Slice(begin + 1, begin + 1 + CodeDigits)
         /\ Between(Slice(begin, end)) = Slice(begin + 1 + CodeDigits, end - WordDigits)
         /\ ValueOf(Slice(begin, end)) = Slice(end - WordDigits, end)
<1> DEFINE s == Slice(begin, end)
<1>1. Len(s) = end - begin
  BY SliceFacts
<1>2. CodeDigits \in Nat \ {0} /\ WordDigits \in Nat \ {0}
  BY PsvFileAssumption
<1>3. SubSeq(s, (begin + 1) - begin + 1, (begin + 1 + CodeDigits) - begin)
        = Slice(begin + 1, begin + 1 + CodeDigits)
  <2>1. begin + 1 \in begin .. end /\ begin + 1 + CodeDigits \in begin + 1 .. end
    BY <1>2
  <2> QED BY <2>1, SliceOfSlice
<1>4. SubSeq(s, (begin + 1 + CodeDigits) - begin + 1, (end - WordDigits) - begin)
        = Slice(begin + 1 + CodeDigits, end - WordDigits)
  <2>1. /\ begin + 1 + CodeDigits \in begin .. end
        /\ end - WordDigits \in begin + 1 + CodeDigits .. end
    BY <1>2
  <2> QED BY <2>1, SliceOfSlice
<1>5. SubSeq(s, (end - WordDigits) - begin + 1, end - begin) = Slice(end - WordDigits, end)
  <2>1. end - WordDigits \in begin .. end /\ end \in end - WordDigits .. end
    BY <1>2
  <2> QED BY <2>1, SliceOfSlice
<1>6. /\ (begin + 1) - begin + 1 = 2
      /\ (begin + 1 + CodeDigits) - begin = CodeDigits + 1
      /\ (begin + 1 + CodeDigits) - begin + 1 = CodeDigits + 2
      /\ (end - WordDigits) - begin = (end - begin) - WordDigits
      /\ (end - WordDigits) - begin + 1 = (end - begin) - WordDigits + 1
  BY <1>2
<1> QED BY <1>1, <1>3, <1>4, <1>5, <1>6 DEF CodeOf, Between, ValueOf

\* The tests of parse_code, in the order of its fields.
Accepted(begin, end, address, value) ==
  /\ end - begin >= 1 + CodeDigits + 1 + WordDigits + 1 + WordDigits
  /\ IsHex(begin + 1, CodeDigits) /\ Separated(begin + 1 + CodeDigits, end)
  /\ end - address >= WordDigits
  /\ IsHex(address, WordDigits) /\ Separated(address + WordDigits, end)
  /\ end - value >= WordDigits
  /\ IsHex(value, WordDigits)
  /\ SkipSpaces(value + WordDigits, end) = end

\* parse_code is a decision, and three numbers when it accepts.
LEMMA ParseCodeIs ==
  ASSUME NEW begin, NEW end,
         NEW address, address = SkipSpaces(begin + 1 + CodeDigits, end),
         NEW value, value = SkipSpaces(address + WordDigits, end)
  PROVE  parse_code(begin, end) =
           IF Accepted(begin, end, address, value)
           THEN [ok      |-> TRUE,
                 code    |-> parse_hex_exact(begin + 1, CodeDigits),
                 address |-> parse_hex_exact(address, WordDigits),
                 value   |-> parse_hex_exact(value, WordDigits)]
           ELSE [ok |-> FALSE]
BY DEF parse_code, Accepted

\* Where an accepted line has its fields.
LEMMA AcceptedFields ==
  ASSUME text \in Seq(STRING), NEW begin \in 0 .. Len(text), NEW end \in begin .. Len(text),
         begin < end, at(end - 1) # "sp",
         NEW address, address = SkipSpaces(begin + 1 + CodeDigits, end),
         NEW value, value = SkipSpaces(address + WordDigits, end),
         Accepted(begin, end, address, value)
  PROVE  /\ address \in Nat /\ value = end - WordDigits
         /\ begin + 1 + CodeDigits < address /\ address + WordDigits < value
         /\ IsHex(begin + 1, CodeDigits) /\ IsHex(address, WordDigits)
         /\ IsHex(value, WordDigits)
         /\ \A i \in begin + 1 + CodeDigits .. address - 1 : at(i) = "sp"
         /\ \A i \in address + WordDigits .. value - 1 : at(i) = "sp"
<1>1. /\ CodeDigits \in Nat \ {0} /\ WordDigits \in Nat \ {0}
      /\ begin \in Nat /\ end \in Nat
  BY PsvFileAssumption
<1>2. /\ begin + 1 + CodeDigits \in Nat /\ begin + 1 + CodeDigits < end
      /\ at(begin + 1 + CodeDigits) = "sp"
  BY <1>1 DEF Accepted, Separated
<1>3. /\ address \in begin + 1 + CodeDigits .. end
      /\ address = end \/ at(address) # "sp"
      /\ \A i \in begin + 1 + CodeDigits .. address - 1 : at(i) = "sp"
  <2>1. begin + 1 + CodeDigits \in Nat /\ end \in Nat /\ begin + 1 + CodeDigits <= end
    BY <1>1, <1>2
  <2> QED BY <2>1, SkipSpacesFacts
<1>4. address \in Nat /\ begin + 1 + CodeDigits < address /\ address < end
  <2>1. end - address >= WordDigits
    BY DEF Accepted
  <2>2. address \in Nat /\ address < end
    BY <1>1, <1>2, <1>3, <2>1
  <2> QED BY <1>2, <1>3, <2>2
<1>5. /\ address + WordDigits \in Nat /\ address + WordDigits < end
      /\ at(address + WordDigits) = "sp"
  BY SMTT(30), <1>1, <1>4 DEF Accepted, Separated
<1>6. /\ value \in address + WordDigits .. end
      /\ value = end \/ at(value) # "sp"
      /\ \A i \in address + WordDigits .. value - 1 : at(i) = "sp"
  <2>1. address + WordDigits \in Nat /\ end \in Nat /\ address + WordDigits <= end
    BY <1>1, <1>5
  <2> QED BY <2>1, SkipSpacesFacts
<1>7. value \in Nat /\ address + WordDigits < value /\ value + WordDigits <= end
  <2>1. end - value >= WordDigits
    BY DEF Accepted
  <2>2. value \in Nat /\ value + WordDigits <= end /\ value < end
    BY <1>1, <1>5, <1>6, <2>1
  <2> QED BY <1>5, <1>6, <2>2
<1>8. value + WordDigits = end
  <2> SUFFICES ASSUME value + WordDigits < end PROVE FALSE
    BY <1>1, <1>7
  <2>1. /\ value + WordDigits \in Nat /\ end \in Nat /\ value + WordDigits <= end
        /\ SkipSpaces(value + WordDigits, end) = end
    BY SMTT(30), <1>1, <1>7 DEF Accepted
  <2>2. \A i \in value + WordDigits .. end - 1 : at(i) = "sp"
    <3>1. PICK next : next = value + WordDigits
      OBVIOUS
    <3>2. \A i \in next .. SkipSpaces(next, end) - 1 : at(i) = "sp"
      BY <2>1, <3>1, SkipSpacesFacts
    <3> QED BY <2>1, <3>1, <3>2
  <2>3. end - 1 \in value + WordDigits .. end - 1
    BY <1>1, <2>1
  <2> QED BY <2>2, <2>3
<1>9. value = end - WordDigits
  BY <1>1, <1>7, <1>8
<1> QED BY <1>3, <1>4, <1>6, <1>7, <1>9 DEF Accepted

\* The grammar, read at the offsets of the fields.
LEMMA WellFormedSlices ==
  ASSUME text \in Seq(STRING), NEW begin \in 0 .. Len(text), NEW end \in begin .. Len(text),
         end - begin >= 1 + CodeDigits + WordDigits
  PROVE  WellFormed(Slice(begin, end)) <=>
           /\ Len(AddressOf(Slice(begin, end))) = WordDigits
           /\ Between(Slice(begin, end))[1] = "sp"
           /\ Between(Slice(begin, end))[(end - WordDigits) - (begin + 1 + CodeDigits)] = "sp"
           /\ IsHex(begin + 1, CodeDigits)
           /\ Digits(AddressOf(Slice(begin, end)))
           /\ IsHex(end - WordDigits, WordDigits)
<1> DEFINE s == Slice(begin, end)
<1>1. CodeDigits \in Nat \ {0} /\ WordDigits \in Nat \ {0} /\ begin \in Nat /\ end \in Nat
  BY PsvFileAssumption
<1>2. /\ Len(s) = end - begin
      /\ CodeOf(s) = Slice(begin + 1, begin + 1 + CodeDigits)
      /\ Between(s) = Slice(begin + 1 + CodeDigits, end - WordDigits)
      /\ ValueOf(s) = Slice(end - WordDigits, end)
  BY FieldSlices
<1>3. /\ Digits(CodeOf(s)) <=> IsHex(begin + 1, CodeDigits)
      /\ Digits(ValueOf(s)) <=> IsHex(end - WordDigits, WordDigits)
  <2>1. /\ begin + 1 \in 0 .. Len(text) /\ begin + 1 + CodeDigits \in begin + 1 .. Len(text)
        /\ (begin + 1 + CodeDigits) - (begin + 1) = CodeDigits
    BY <1>1
  <2>2. /\ end - WordDigits \in 0 .. Len(text) /\ end \in end - WordDigits .. Len(text)
        /\ end - (end - WordDigits) = WordDigits
    BY <1>1
  <2>3. Digits(Slice(begin + 1, begin + 1 + CodeDigits))
          <=> IsHex(begin + 1, (begin + 1 + CodeDigits) - (begin + 1))
    BY <2>1, DigitsAreHex
  <2>4. Digits(Slice(end - WordDigits, end))
          <=> IsHex(end - WordDigits, end - (end - WordDigits))
    BY <2>2, DigitsAreHex
  <2> QED BY <1>2, <2>1, <2>2, <2>3, <2>4
<1>4. Len(Between(s)) = (end - WordDigits) - (begin + 1 + CodeDigits)
  <2>1. /\ begin + 1 + CodeDigits \in 0 .. Len(text)
        /\ end - WordDigits \in begin + 1 + CodeDigits .. Len(text)
    BY <1>1
  <2> QED BY <1>2, <2>1, SliceFacts
<1>5. Len(s) > CodeDigits + WordDigits
  BY <1>1, <1>2
<1> HIDE DEF s
<1>6. WellFormed(s) <=>
        /\ Len(AddressOf(s)) = WordDigits
        /\ Between(s)[1] = "sp" /\ Between(s)[Len(Between(s))] = "sp"
        /\ Digits(CodeOf(s)) /\ Digits(AddressOf(s)) /\ Digits(ValueOf(s))
  BY <1>5 DEF WellFormed
<1> QED BY <1>3, <1>4, <1>6 DEF s

\* What parse_code accepts is well formed.
LEMMA AcceptedIsWellFormed ==
  ASSUME text \in Seq(STRING), NEW begin \in 0 .. Len(text), NEW end \in begin .. Len(text),
         begin < end, at(end - 1) # "sp",
         NEW address, address = SkipSpaces(begin + 1 + CodeDigits, end),
         NEW value, value = SkipSpaces(address + WordDigits, end),
         Accepted(begin, end, address, value)
  PROVE  /\ WellFormed(Slice(begin, end))
         /\ AddressOf(Slice(begin, end)) = Slice(address, address + WordDigits)
<1> DEFINE s == Slice(begin, end)
           first == begin + 1 + CodeDigits
           last == end - WordDigits
<1>1. CodeDigits \in Nat \ {0} /\ WordDigits \in Nat \ {0} /\ begin \in Nat /\ end \in Nat
  BY PsvFileAssumption
<1>2. /\ address \in Nat /\ value = last
      /\ first < address /\ address + WordDigits < value
      /\ IsHex(begin + 1, CodeDigits) /\ IsHex(address, WordDigits)
      /\ IsHex(value, WordDigits)
      /\ \A i \in first .. address - 1 : at(i) = "sp"
      /\ \A i \in address + WordDigits .. value - 1 : at(i) = "sp"
  BY AcceptedFields
<1>3. /\ first \in 0 .. Len(text) /\ last \in first .. Len(text) /\ last - first \in Nat
      /\ first < last /\ end - begin >= 1 + CodeDigits + WordDigits
  BY <1>1, <1>2
<1>4. Between(s) = Slice(first, last)
  BY <1>3, FieldSlices
<1>5. /\ Slice(first, last)[1] = at(first)
      /\ Slice(first, last)[last - first] = at(last - 1)
  <2>1. /\ 1 \in 1 .. last - first /\ last - first \in 1 .. last - first
        /\ first + 1 - 1 = first /\ first + (last - first) - 1 = last - 1
    BY <1>1, <1>3
  <2>2. \A i \in 1 .. last - first : Slice(first, last)[i] = at(first + i - 1)
    BY <1>3, SliceFacts
  <2> QED BY <2>1, <2>2
<1>6. at(first) = "sp" /\ at(last - 1) = "sp"
  <2>1. first \in first .. address - 1 /\ last - 1 \in address + WordDigits .. value - 1
    BY SMTT(30), <1>1, <1>2
  <2> QED BY <1>2, <2>1
<1>7. AddressOf(s) = Slice(address, address + WordDigits)
  <2>1. at(address) # "sp" /\ at(address + WordDigits - 1) # "sp"
    <3>1. /\ address \in address .. address + WordDigits - 1
          /\ address + WordDigits - 1 \in address .. address + WordDigits - 1
      BY <1>1, <1>2
    <3> QED BY <1>2, <3>1, HexBytes DEF IsHex
  <2>2. address \in first .. last /\ address + WordDigits \in address .. last
    BY <1>1, <1>2
  <2>3. \A i \in address + WordDigits .. last - 1 : at(i) = "sp"
    BY <1>2
  <2> HIDE DEF first, last
  <2>4. PICK next : next = address + WordDigits
    OBVIOUS
  <2>5. Stripped(Slice(first, last)) = Slice(address, next)
    <3>1. /\ next \in address .. last /\ at(next - 1) # "sp"
          /\ \A i \in next .. last - 1 : at(i) = "sp"
      <4>1. next \in address .. last /\ next - 1 = address + WordDigits - 1
        BY <1>1, <1>2, <2>2, <2>4
      <4>2. at(next - 1) # "sp"
        BY <2>1, <4>1
      <4>3. \A i \in next .. last - 1 : i \in address + WordDigits .. last - 1
        BY <2>4
      <4> QED BY <2>3, <4>1, <4>2, <4>3
    <3>2. /\ address \in first .. last /\ at(address) # "sp"
          /\ \A i \in first .. address - 1 : at(i) = "sp"
      BY <1>2, <2>1, <2>2
    <3> QED BY SMTT(30), <1>3, <3>1, <3>2, StrippedIs
  <2> QED BY <1>4, <2>4, <2>5 DEF AddressOf, s
<1>8. Len(Slice(address, address + WordDigits)) = WordDigits
      /\ Digits(Slice(address, address + WordDigits))
  <2>1. /\ address \in 0 .. Len(text) /\ address + WordDigits \in address .. Len(text)
        /\ (address + WordDigits) - address = WordDigits
    BY <1>1, <1>2
  <2>2. Len(Slice(address, address + WordDigits)) = (address + WordDigits) - address
    BY <2>1, SliceFacts
  <2>3. Digits(Slice(address, address + WordDigits))
          <=> IsHex(address, (address + WordDigits) - address)
    BY <2>1, DigitsAreHex
  <2> QED BY <1>2, <2>1, <2>2, <2>3
<1> QED BY <1>2, <1>3, <1>4, <1>5, <1>6, <1>7, <1>8, WellFormedSlices

\* And what is well formed is accepted.
LEMMA WellFormedIsAccepted ==
  ASSUME text \in Seq(STRING), NEW begin \in 0 .. Len(text), NEW end \in begin .. Len(text),
         NEW address, address = SkipSpaces(begin + 1 + CodeDigits, end),
         NEW value, value = SkipSpaces(address + WordDigits, end),
         WellFormed(Slice(begin, end))
  PROVE  Accepted(begin, end, address, value)
<1> DEFINE s == Slice(begin, end)
<1>1. CodeDigits \in Nat \ {0} /\ WordDigits \in Nat \ {0} /\ begin \in Nat /\ end \in Nat
  BY PsvFileAssumption
<1>2. end - begin >= 1 + CodeDigits + WordDigits
  <2>1. Len(s) = end - begin /\ Len(s) > CodeDigits + WordDigits
    BY SliceFacts DEF WellFormed
  <2> QED BY <1>1, <2>1
<1>3. PICK first, last : first = begin + 1 + CodeDigits /\ last = end - WordDigits
  OBVIOUS
<1>4. /\ first \in Nat /\ last \in Nat /\ first <= last /\ last < end
      /\ first \in 0 .. Len(text) /\ last \in first .. Len(text)
  BY <1>1, <1>2, <1>3
<1>5. Between(s) = Slice(first, last)
  BY <1>2, <1>3, FieldSlices
<1>6. /\ Len(AddressOf(s)) = WordDigits
      /\ Between(s)[1] = "sp" /\ Between(s)[last - first] = "sp"
      /\ IsHex(begin + 1, CodeDigits) /\ Digits(AddressOf(s)) /\ IsHex(last, WordDigits)
  BY <1>2, <1>3, WellFormedSlices
<1>7. PICK p, q : p = SkipSpaces(first, last) /\ q = DropSpaces(p, last)
  OBVIOUS
<1>8. /\ p \in first .. last /\ (p = last \/ at(p) # "sp")
      /\ \A i \in first .. p - 1 : at(i) = "sp"
  BY <1>4, <1>7, SkipSpacesFacts
<1>9. p \in Nat /\ p <= last
  BY <1>4, <1>8
<1>10. /\ q \in p .. last /\ (q = p \/ at(q - 1) # "sp")
       /\ \A i \in q .. last - 1 : at(i) = "sp"
  BY <1>4, <1>7, <1>9, DropSpacesFacts
<1>11. AddressOf(s) = Slice(p, q)
  BY <1>4, <1>5, <1>8, <1>10, StrippedIs DEF AddressOf
<1>12. q = p + WordDigits /\ IsHex(p, WordDigits) /\ p < last
  <2>1. p \in 0 .. Len(text) /\ q \in p .. Len(text)
    BY <1>4, <1>9, <1>10
  <2>2. Len(Slice(p, q)) = q - p
    BY <2>1, SliceFacts
  <2>3. q - p = WordDigits
    BY <1>6, <1>11, <2>2
  <2>4. IsHex(p, q - p)
    BY <1>6, <1>11, <2>1, DigitsAreHex
  <2>5. q \in Nat /\ q = p + WordDigits /\ q <= last
    BY <1>1, <1>4, <1>9, <1>10, <2>3
  <2> QED BY <1>1, <1>4, <1>9, <2>3, <2>4, <2>5
<1>13. at(first) = "sp" /\ at(last - 1) = "sp"
  <2>1. first < last
    BY <1>1, <1>4, <1>8, <1>9, <1>12
  <2>2. \A i \in 1 .. last - first : Slice(first, last)[i] = at(first + i - 1)
    BY <1>4, SliceFacts
  <2>3. /\ 1 \in 1 .. last - first /\ last - first \in 1 .. last - first
        /\ first + 1 - 1 = first /\ first + (last - first) - 1 = last - 1
    BY <1>4, <2>1
  <2> QED BY <1>5, <1>6, <2>2, <2>3
<1>14. at(p) # "sp" /\ at(q - 1) # "sp" /\ at(last) # "sp"
  <2>1. /\ p \in p .. p + WordDigits - 1 /\ q - 1 \in p .. p + WordDigits - 1
        /\ last \in last .. last + WordDigits - 1
    BY <1>1, <1>4, <1>9, <1>12
  <2> QED BY <1>6, <1>12, <2>1, HexBytes DEF IsHex
<1>15. address = p /\ first < p
  <2>1. first # p
    BY <1>13, <1>14
  <2>2. p \in first .. end
    BY <1>4, <1>8, <1>9
  <2>3. SkipSpaces(first, end) = p
    BY <1>4, <1>8, <1>14, <2>2, SkipSpacesIs
  <2> QED BY <1>3, <1>4, <1>8, <2>1, <2>3
<1>16. q < last /\ at(q) = "sp"
  <2>1. q # last
    BY <1>13, <1>14
  <2>2. q \in q .. last - 1 /\ q < last
    BY <1>4, <1>9, <1>10, <2>1
  <2> QED BY <1>10, <2>2
<1>17. value = last
  <2>1. q \in Nat /\ last \in q .. end
    BY <1>4, <1>9, <1>10
  <2>2. SkipSpaces(q, end) = last
    BY <1>4, <1>10, <1>14, <2>1, SkipSpacesIs
  <2> QED BY <1>12, <1>15, <2>2
<1>18. SkipSpaces(last + WordDigits, end) = end
  <2>1. last + WordDigits = end /\ end \in end .. end /\ end .. end - 1 = {}
    BY <1>1, <1>3
  <2>2. SkipSpaces(end, end) = end
    BY <1>1, <2>1, SkipSpacesIs
  <2> QED BY <2>1, <2>2
<1>19. /\ end - begin >= 1 + CodeDigits + 1 + WordDigits + 1 + WordDigits
       /\ end - p >= WordDigits /\ end - last >= WordDigits
  BY <1>1, <1>3, <1>9, <1>12, <1>15, <1>16
<1>20. Separated(first, end) /\ Separated(p + WordDigits, end)
  BY <1>4, <1>12, <1>13, <1>16 DEF Separated
<1> QED BY <1>3, <1>6, <1>12, <1>15, <1>17, <1>18, <1>19, <1>20 DEF Accepted

\* parse_code and the switch on the code give a line of codes its class.
LEMMA CodeClassIsMeaning ==
  ASSUME text \in Seq(STRING), NEW begin \in 0 .. Len(text), NEW end \in begin .. Len(text),
         begin < end, at(end - 1) # "sp"
  PROVE  CodeClass(begin, end) = CodeMeaning(Slice(begin, end))
<1> DEFINE s == Slice(begin, end)
<1>1. PICK address : address = SkipSpaces(begin + 1 + CodeDigits, end)
  OBVIOUS
<1>2. PICK value : value = SkipSpaces(address + WordDigits, end)
  OBVIOUS
<1>3. CASE ~Accepted(begin, end, address, value)
  <2>1. ~WellFormed(s)
    BY <1>1, <1>2, <1>3, WellFormedIsAccepted
  <2>2. parse_code(begin, end) = [ok |-> FALSE]
    BY <1>1, <1>2, <1>3, ParseCodeIs
  <2>3. CodeClass(begin, end) = "bad_code"
    BY <2>2 DEF CodeClass
  <2> HIDE DEF s
  <2>4. CodeMeaning(s) = "bad_code"
    BY <2>1 DEF CodeMeaning
  <2> QED BY <2>3, <2>4 DEF s
<1>4. CASE Accepted(begin, end, address, value)
  <2>1. WellFormed(s) /\ AddressOf(s) = Slice(address, address + WordDigits)
    BY <1>1, <1>2, <1>4, AcceptedIsWellFormed
  <2>2. /\ address \in Nat /\ value = end - WordDigits
        /\ begin + 1 + CodeDigits < address /\ address + WordDigits < value
        /\ IsHex(begin + 1, CodeDigits) /\ IsHex(address, WordDigits)
        /\ IsHex(value, WordDigits)
    BY <1>1, <1>2, <1>4, AcceptedFields
  <2>3. /\ CodeDigits \in Nat \ {0} /\ WordDigits \in Nat \ {0}
        /\ begin \in Nat /\ end \in Nat /\ end <= Len(text)
    BY PsvFileAssumption
  <2>4. /\ CodeOf(s) = Slice(begin + 1, begin + 1 + CodeDigits)
        /\ ValueOf(s) = Slice(end - WordDigits, end)
    <3>1. end - begin >= 1 + CodeDigits + WordDigits
      BY <2>2, <2>3
    <3> QED BY <3>1, FieldSlices
  <2>5. /\ parse_hex_exact(begin + 1, CodeDigits) = Number(CodeOf(s))
        /\ parse_hex_exact(address, WordDigits) = Number(AddressOf(s))
        /\ parse_hex_exact(value, WordDigits) = Number(ValueOf(s))
        /\ Number(ValueOf(s)) \in Nat
    <3>1. /\ begin + 1 \in Nat /\ begin + 1 + CodeDigits <= Len(text)
          /\ address + WordDigits <= Len(text)
          /\ value \in Nat /\ value + WordDigits <= Len(text) /\ value + WordDigits = end
      BY <2>2, <2>3
    <3>2. parse_hex_exact(begin + 1, CodeDigits) = Number(Slice(begin + 1, begin + 1 + CodeDigits))
      BY <2>2, <2>3, <3>1, HexIsNumber
    <3>3. parse_hex_exact(address, WordDigits) = Number(Slice(address, address + WordDigits))
      BY <2>2, <2>3, <3>1, HexIsNumber
    <3>4. /\ parse_hex_exact(value, WordDigits) = Number(Slice(value, value + WordDigits))
          /\ parse_hex_exact(value, WordDigits) \in Nat
      BY <2>2, <2>3, <3>1, HexIsNumber
    <3> QED BY <2>1, <2>2, <2>4, <3>1, <3>2, <3>3, <3>4
  <2>6. PICK c, a, v : c = Number(CodeOf(s)) /\ a = Number(AddressOf(s)) /\ v = Number(ValueOf(s))
    OBVIOUS
  <2>7. parse_code(begin, end) = [ok |-> TRUE, code |-> c, address |-> a, value |-> v]
    BY <1>1, <1>2, <1>4, <2>5, <2>6, ParseCodeIs
  <2>8. CodeClass(begin, end) =
          IF c \in WriteCodes THEN "write"
          ELSE IF c # SelectorCode THEN "opaque_code"
          ELSE IF a <= MaxSerial /\ v <= 1 THEN "selector" ELSE "bad_selector"
    BY <2>7 DEF CodeClass
  <2>9. v <= 1 <=> v \in {0, 1}
    BY <2>5, <2>6
  <2> HIDE DEF s
  <2>10. CodeMeaning(s) =
          IF c \in WriteCodes THEN "write"
          ELSE IF c # SelectorCode THEN "opaque_code"
          ELSE IF a <= MaxSerial /\ v \in {0, 1} THEN "selector" ELSE "bad_selector"
    BY <2>1, <2>6, PsvFileAssumption DEF CodeMeaning
  <2> QED BY <2>8, <2>9, <2>10 DEF s
<1> QED BY <1>3, <1>4

-----------------------------------------------------------------------------
(***************************************************************************)
(* Any line.                                                               *)
(***************************************************************************)

\* What follows the flag of a header.
LEMMA DescriptionFacts ==
  ASSUME text \in Seq(STRING), NEW begin \in 0 .. Len(text), NEW end \in begin .. Len(text),
         end - begin >= 3, at(end - 1) # "sp"
  PROVE  /\ Description(begin, end)[1] \in begin + 3 .. end
         /\ Description(begin, end)[2] = end
         /\ Stripped(SubSeq(Slice(begin, end), 4, Len(Slice(begin, end))))
              = Slice(Description(begin, end)[1], end)
<1>1. begin + 3 \in Nat /\ end \in Nat /\ begin + 3 <= end
  OBVIOUS
<1>2. PICK p : p = SkipSpaces(begin + 3, end)
  OBVIOUS
<1>3. Description(begin, end)[1] = p /\ Description(begin, end)[2] = end
  BY <1>2 DEF Description
<1>4. /\ p \in begin + 3 .. end /\ (p = end \/ at(p) # "sp")
      /\ \A i \in begin + 3 .. p - 1 : at(i) = "sp"
  BY <1>1, <1>2, SkipSpacesFacts
<1>5. SubSeq(Slice(begin, end), 4, Len(Slice(begin, end))) = Slice(begin + 3, end)
  <2>1. begin + 3 \in begin .. end /\ end \in begin + 3 .. end
    BY <1>1
  <2>2. SubSeq(Slice(begin, end), (begin + 3) - begin + 1, end - begin) = Slice(begin + 3, end)
    BY <2>1, SliceOfSlice
  <2>3. (begin + 3) - begin + 1 = 4 /\ Len(Slice(begin, end)) = end - begin
    BY SliceFacts
  <2> QED BY <2>2, <2>3
<1>6. Stripped(Slice(begin + 3, end)) = Slice(p, end)
  <2>1. /\ begin + 3 \in 0 .. Len(text) /\ end \in begin + 3 .. Len(text)
        /\ end \in p .. end /\ end .. end - 1 = {}
    BY <1>1, <1>4
  <2> QED BY <1>4, <2>1, StrippedIs
<1> QED BY <1>3, <1>4, <1>5, <1>6

\* parse_v0_header gives a header line its class.
LEMMA HeaderClassIsMeaning ==
  ASSUME text \in Seq(STRING), NEW begin \in 0 .. Len(text), NEW end \in begin .. Len(text),
         end - begin >= 3, at(end - 1) # "sp"
  PROVE  HeaderClass(begin, end) = HeaderMeaning(Slice(begin, end))
<1> DEFINE s == Slice(begin, end)
<1>1. /\ Len(s) = end - begin
      /\ \A i \in 1 .. end - begin : s[i] = at(begin + i - 1)
  BY SliceFacts
<1>2. s[3] = at(begin + 2)
  <2>1. 3 \in 1 .. end - begin /\ begin + 3 - 1 = begin + 2
    OBVIOUS
  <2> QED BY <1>1, <2>1
<1>3. begin + 3 < end => s[4] = at(begin + 3)
  <2> SUFFICES ASSUME begin + 3 < end PROVE s[4] = at(begin + 3)
    OBVIOUS
  <2>1. 4 \in 1 .. end - begin /\ begin + 4 - 1 = begin + 3
    OBVIOUS
  <2> QED BY <1>1, <2>1
<1>4. PICK p : p = Description(begin, end)[1]
  OBVIOUS
<1>5. p \in begin + 3 .. end /\ Stripped(SubSeq(s, 4, Len(s))) = Slice(p, end)
  BY <1>4, DescriptionFacts
<1>6. Len(Stripped(SubSeq(s, 4, Len(s)))) = end - p
  <2>1. p \in 0 .. Len(text) /\ end \in p .. Len(text)
    BY <1>5
  <2> QED BY <1>5, <2>1, SliceFacts
<1> HIDE DEF s
<1>7. HeaderMeaning(s) =
        IF at(begin + 2) \in {"0", "1"} /\ (end - begin = 3 \/ s[4] = "sp")
        THEN IF end - p > MaxDescription THEN "long_header" ELSE "header"
        ELSE "bad_header"
  BY <1>1, <1>2, <1>6 DEF HeaderMeaning
<1>8. HeaderClass(begin, end) =
        IF at(begin + 2) \notin {"0", "1"} \/ (begin + 3 < end /\ at(begin + 3) # "sp")
        THEN "bad_header"
        ELSE IF end - p > MaxDescription THEN "long_header" ELSE "header"
  BY <1>4 DEF HeaderClass
<1>9. end - begin = 3 \/ s[4] = "sp" <=> ~(begin + 3 < end /\ at(begin + 3) # "sp")
  <2>1. CASE begin + 3 < end
    BY <1>3, <2>1
  <2>2. CASE ~(begin + 3 < end)
    BY <2>2
  <2> QED BY <2>1, <2>2
<1> QED BY <1>7, <1>8, <1>9 DEF s

\* vc_psv_parse takes a trimmed line for what its bytes mean.
LEMMA LineClassIsMeaning ==
  ASSUME text \in Seq(STRING), NEW begin \in 0 .. Len(text), NEW end \in begin .. Len(text),
         begin = end \/ at(end - 1) # "sp"
  PROVE  LineClass(begin, end) = Meaning(Slice(begin, end))
<1> DEFINE s == Slice(begin, end)
<1>1. /\ s \in Seq(STRING) /\ Len(s) = end - begin
      /\ \A i \in 1 .. end - begin : s[i] = at(begin + i - 1)
  BY SliceFacts
<1>2. CASE begin = end
  <2>1. s = <<>>
    <3>1. Len(s) = 0
      BY <1>1, <1>2
    <3> HIDE DEF s
    <3> QED BY <1>1, <3>1, EmptySeq
  <2>2. LineClass(begin, end) = "blank"
    BY <1>2 DEF LineClass
  <2>3. Meaning(<<>>) = "blank"
    BY DEF Meaning
  <2> QED BY <2>1, <2>2, <2>3
<1>3. CASE begin # end
  <2>1. begin < end /\ at(end - 1) # "sp" /\ begin \in Nat /\ end \in Nat
    BY <1>3
  <2>2. s # <<>> /\ s[1] = at(begin)
    <3>1. Len(s) # 0 /\ 1 \in 1 .. end - begin /\ begin + 1 - 1 = begin
      BY <1>1, <2>1
    <3> HIDE DEF s
    <3> QED BY <1>1, <3>1
  <2>3. at(begin) = "$" => CodeClass(begin, end) = CodeMeaning(s)
    BY <2>1, CodeClassIsMeaning
  <2>4. Len(s) >= 3 /\ SubSeq(s, 1, 2) = <<"_", "V">> <=> StartsHeader(begin, end)
    <3> SUFFICES ASSUME end - begin >= 3
                 PROVE  SubSeq(s, 1, 2) = <<"_", "V">> <=> at(begin) = "_" /\ at(begin + 1) = "V"
      BY <1>1 DEF StartsHeader
    <3>1. SubSeq(s, begin - begin + 1, (begin + 2) - begin) = Slice(begin, begin + 2)
      <4>1. begin \in begin .. end /\ begin + 2 \in begin .. end
        BY <2>1
      <4> QED BY <4>1, SliceOfSlice
    <3>2. begin - begin + 1 = 1 /\ (begin + 2) - begin = 2
      BY <2>1
    <3>3. Slice(begin, begin + 2) = <<at(begin), at(begin + 1)>>
      <4>1. begin + 2 <= Len(text)
        BY <2>1
      <4> QED BY <2>1, <4>1, TwoBytes
    <3> HIDE DEF s
    <3>4. SubSeq(s, 1, 2) = <<at(begin), at(begin + 1)>>
      BY <3>1, <3>2, <3>3 DEF s
    <3>5. \A a, b : <<a, b>> = <<"_", "V">> <=> a = "_" /\ b = "V"
      OBVIOUS
    <3> QED BY <3>4, <3>5
  <2>5. StartsHeader(begin, end) => HeaderClass(begin, end) = HeaderMeaning(s)
    <3> SUFFICES ASSUME end - begin >= 3 PROVE HeaderClass(begin, end) = HeaderMeaning(s)
      BY DEF StartsHeader
    <3> QED BY <2>1, HeaderClassIsMeaning
  <2>6. StartsHeader(begin, end) => at(begin) = "_"
    BY DEF StartsHeader
  <2> HIDE DEF s
  <2>7. CASE at(begin) = "#"
    <3>1. Meaning(s) = "comment"
      BY <2>2, <2>4, <2>6, <2>7 DEF Meaning
    <3> QED BY <1>3, <2>7, <3>1 DEF LineClass, s
  <2>8. CASE at(begin) = "$"
    <3>1. Meaning(s) = CodeMeaning(s)
      BY <2>2, <2>4, <2>6, <2>8 DEF Meaning
    <3>2. LineClass(begin, end) = CodeClass(begin, end)
      BY <1>3, <2>6, <2>8 DEF LineClass
    <3> QED BY <2>3, <2>8, <3>1, <3>2 DEF s
  <2>9. CASE StartsHeader(begin, end)
    <3>1. Meaning(s) = HeaderMeaning(s)
      BY <2>2, <2>4, <2>6, <2>9 DEF Meaning
    <3>2. LineClass(begin, end) = HeaderClass(begin, end)
      BY <1>3, <2>6, <2>9 DEF LineClass
    <3> QED BY <2>5, <2>9, <3>1, <3>2 DEF s
  <2>10. CASE at(begin) # "#" /\ at(begin) # "$" /\ ~StartsHeader(begin, end)
    <3>1. Meaning(s) = "opaque"
      BY <2>2, <2>4, <2>10 DEF Meaning
    <3> QED BY <1>3, <2>10, <3>1 DEF LineClass, s
  <2> QED BY <2>7, <2>8, <2>9, <2>10
<1> QED BY <1>2, <1>3

-----------------------------------------------------------------------------
(***************************************************************************)
(* What the records of lines and cheats say.                               *)
(***************************************************************************)

\* The content of a stored line without the spaces around it.
StoredLine(l) == Stripped(Slice(spans[l].content[1], spans[l].content[2]))

ReadAsWritten(l) == source[l] = Meaning(StoredLine(l))

\* The flag and the description of a stored cheat, whose header is stored.
DescribedAsWritten(c) ==
  LET s == StoredLine(cheats[c].header_line_index)
      d == headers[c].description
  IN  /\ headers[c].activation = s[3]
      /\ Slice(d[1], d[2]) = Stripped(SubSeq(s, 4, Len(s)))

HeaderRecords == [activation : STRING, description : Nat \X Nat]

\* A span is stored with each line and a description with each cheat; a header
\* line that is not stored has outgrown its array for good.
WrittenInv ==
  /\ \A l \in 1 .. Len(spans) : ReadAsWritten(l)
  /\ pc # "done" =>
       /\ Len(spans) = Len(lines)
       /\ headers \in Seq(HeaderRecords)
       /\ Len(headers) = Len(cheats)
       /\ \A c \in 1 .. Len(cheats) :
            cheats[c].header_line_index <= Len(spans) => DescribedAsWritten(c)
  /\ DescriptionsExact

\* The properties are about the records one by one.
LEMMA WrittenProperties ==
  /\ LinesReadAsWritten <=> \A l \in 1 .. Len(spans) : ReadAsWritten(l)
  /\ DescriptionsExact <=> (status = "OK" => \A c \in 1 .. Len(cheats) : DescribedAsWritten(c))
BY DEF LinesReadAsWritten, DescriptionsExact, ReadAsWritten, DescribedAsWritten, StoredLine

HeaderRead(begin, end) ==
  [activation |-> at(begin + 2), description |-> Description(begin, end)]

\* The line that ReadLine reads, its content from "content" to "end" and
\* without spaces from "begin" to "trimmed".
Read(content, end, begin, trimmed, class) ==
  /\ text' = text
  /\ content \in 0 .. Len(text) /\ end \in content .. Len(text)
  /\ begin \in content .. end /\ trimmed \in begin .. end
  /\ begin = trimmed \/ at(trimmed - 1) # "sp"
  /\ Stripped(Slice(content, end)) = Slice(begin, trimmed)
  /\ class = LineClass(begin, trimmed)
  /\ ParseLine(class)
  /\ total_lines < line_capacity =>
       \E raw \in Nat \X Nat :
         spans' = Append(spans, [raw |-> raw, content |-> <<content, end>>])
  /\ ~(total_lines < line_capacity) => spans' = spans
  /\ headers' = IF class \in Headers /\ total_cheats < cheat_capacity
                THEN Append(headers, HeaderRead(begin, trimmed))
                ELSE headers

\* ReadLine reads one line, trims it and hands its class on.
LEMMA ReadLineIs ==
  ASSUME ArgumentTypes, SpansInv, ReadLine
  PROVE  \E content, end, begin, trimmed, class : Read(content, end, begin, trimmed, class)
<1>1. PICK end : end = ContentEnd(position)
  OBVIOUS
<1>2. PICK content : content = ContentBegin(position, end)
  OBVIOUS
<1>3. PICK begin : begin = SkipSpaces(content, end)
  OBVIOUS
<1>4. PICK trimmed : trimmed = DropSpaces(begin, end)
  OBVIOUS
<1>5. PICK class : class = LineClass(begin, trimmed)
  OBVIOUS
<1>6. /\ position < Len(text) /\ ParseLine(class) /\ text' = text
      /\ spans' = IF total_lines < line_capacity
                  THEN Append(spans, [raw |-> <<position, RawEnd(end)>>,
                                      content |-> <<content, end>>])
                  ELSE spans
      /\ headers' = IF class \in Headers /\ total_cheats < cheat_capacity
                    THEN Append(headers, HeaderRead(begin, trimmed))
                    ELSE headers
  BY <1>1, <1>2, <1>3, <1>4, <1>5 DEF ReadLine, HeaderRead
<1>7. text \in Seq(STRING) /\ position \in 0 .. Len(text) /\ Len(text) \in Nat
  BY ArgumentFacts DEF SpansInv
<1>8. /\ end \in position .. Len(text)
      /\ end = Len(text) \/ at(end) \in LineEnd
      /\ \A i \in position .. end - 1 : at(i) \notin LineEnd
  BY <1>1, <1>7, ContentEndFacts
<1>9. content \in position .. end
  BY <1>2, <1>7, <1>8, ContentBeginFacts
<1>10. RawEnd(end) \in position + 1 .. Len(text)
  BY <1>6, <1>7, <1>8, RawEndFacts
<1>11. content \in 0 .. Len(text) /\ end \in content .. Len(text)
  BY <1>7, <1>8, <1>9
<1>12. /\ begin \in content .. end /\ trimmed \in begin .. end
       /\ Stripped(Slice(content, end)) = Slice(begin, trimmed)
  BY <1>3, <1>4, <1>7, <1>11, TrimmedIsStripped
<1>13. begin = trimmed \/ at(trimmed - 1) # "sp"
  <2>1. begin \in Nat /\ end \in Nat /\ begin <= end
    BY <1>11, <1>12
  <2> QED BY <1>4, <2>1, DropSpacesFacts
<1>14. <<position, RawEnd(end)>> \in Nat \X Nat
  BY <1>7, <1>10
<1> QED BY <1>5, <1>6, <1>11, <1>12, <1>13, <1>14 DEF Read

\* A header line has a flag, and the record of its cheat says what it says.
LEMMA HeaderReadAsWritten ==
  ASSUME text \in Seq(STRING), NEW begin \in 0 .. Len(text), NEW end \in begin .. Len(text),
         begin = end \/ at(end - 1) # "sp", LineClass(begin, end) \in Headers
  PROVE  LET s == Slice(begin, end)
             d == HeaderRead(begin, end).description
         IN  /\ HeaderRead(begin, end) \in HeaderRecords
             /\ HeaderRead(begin, end).activation = s[3]
             /\ Slice(d[1], d[2]) = Stripped(SubSeq(s, 4, Len(s)))
<1>1. begin # end /\ StartsHeader(begin, end)
  <2>1. CodeClass(begin, end) \notin Headers
    BY DEF CodeClass, Headers
  <2> QED BY <2>1 DEF LineClass, Headers
<1>2. end - begin >= 3 /\ at(end - 1) # "sp"
  BY <1>1 DEF StartsHeader
<1>3. /\ Description(begin, end)[1] \in begin + 3 .. end
      /\ Description(begin, end)[2] = end
      /\ Stripped(SubSeq(Slice(begin, end), 4, Len(Slice(begin, end))))
           = Slice(Description(begin, end)[1], end)
  BY <1>2, DescriptionFacts
<1>4. Slice(begin, end)[3] = at(begin + 2)
  <2>1. 3 \in 1 .. end - begin /\ begin + 3 - 1 = begin + 2
    BY <1>2
  <2> QED BY <2>1, SliceFacts
<1>5. at(begin + 2) \in STRING
  <2>1. begin + 2 \in 0 .. Len(text) - 1
    BY <1>2
  <2> QED BY <2>1, ByteType
<1>6. Description(begin, end) \in Nat \X Nat
  <2>1. SkipSpaces(begin + 3, end) \in Nat /\ end \in Nat
    BY <1>3 DEF Description
  <2> QED BY <2>1 DEF Description
<1>7. /\ HeaderRead(begin, end).activation = at(begin + 2)
      /\ HeaderRead(begin, end).description = Description(begin, end)
      /\ HeaderRead(begin, end) \in HeaderRecords
  BY <1>5, <1>6 DEF HeaderRead, HeaderRecords
<1> QED BY <1>3, <1>4, <1>7

\* What is stored stays as it is.
LEMMA LineKept ==
  ASSUME text' = text, NEW l, spans'[l] = spans[l], source'[l] = source[l], ReadAsWritten(l)
  PROVE  ReadAsWritten(l)'
BY DEF ReadAsWritten, StoredLine, Slice

LEMMA CheatKept ==
  ASSUME text' = text, NEW c, headers'[c] = headers[c],
         cheats'[c].header_line_index = cheats[c].header_line_index,
         spans'[cheats[c].header_line_index] = spans[cheats[c].header_line_index],
         DescribedAsWritten(c)
  PROVE  DescribedAsWritten(c)'
BY DEF DescribedAsWritten, StoredLine, Slice

\* The arrays after the line: spans and lines grow together, and so do headers
\* and cheats.
LEMMA SpansAfter ==
  ASSUME SpansInv, WrittenInv, LoopInv, pc # "done",
         NEW content, NEW end, NEW begin, NEW trimmed, NEW class \in LineClasses,
         Read(content, end, begin, trimmed, class)
  PROVE  /\ Len(spans) \in Nat /\ Len(source) = total_lines /\ Len(spans) <= total_lines
         /\ Len(spans') = Len(lines')
         /\ \A l \in 1 .. Len(spans) : spans'[l] = spans[l] /\ source'[l] = source[l]
         /\ Len(spans') # Len(spans) =>
              /\ Len(spans) = total_lines /\ Len(spans') = total_lines + 1
              /\ spans'[total_lines + 1].content = <<content, end>>
              /\ source'[total_lines + 1] = class
<1>1. /\ Len(spans) = Len(lines) /\ spans \in Seq(SpanRecords)
      /\ source \in Seq(LineClasses) /\ Len(source) = total_lines
      /\ Len(lines) = IF total_lines <= line_capacity THEN total_lines ELSE line_capacity
      /\ source' = Append(source, class)
  BY TotalsEffect DEF WrittenInv, SpansInv, LoopInv, LoopTypes, TotalsInv, Fill, Read
<1>2. total_lines \in Nat /\ line_capacity \in Nat
  BY Basics
<1>3. PICK n \in Nat : n = total_lines
  BY <1>2
<1>4. source'[n + 1] = class /\ \A l \in 1 .. n : source'[l] = source[l]
  BY <1>1, <1>3, AppendProperties
<1>5. Len(lines') = IF n < line_capacity THEN Len(lines) + 1 ELSE Len(lines)
  BY <1>3, LinesAfter DEF Read
<1>6. CASE n < line_capacity
  <2>1. PICK raw \in Nat \X Nat :
          spans' = Append(spans, [raw |-> raw, content |-> <<content, end>>])
    BY <1>3, <1>6 DEF Read
  <2>2. PICK record : record = [raw |-> raw, content |-> <<content, end>>]
    OBVIOUS
  <2>3. record \in SpanRecords /\ record.content = <<content, end>>
    <3>1. <<content, end>> \in Nat \X Nat
      <4>1. Len(text) \in Nat
        BY DEF SpansInv, Read
      <4> QED BY <4>1 DEF Read
    <3> QED BY <2>2, <3>1 DEF SpanRecords
  <2>4. Len(spans) = n
    BY <1>1, <1>3, <1>6
  <2>5. /\ Len(spans') = n + 1 /\ spans'[n + 1] = record
        /\ \A l \in 1 .. n : spans'[l] = spans[l]
    BY <1>1, <2>1, <2>2, <2>3, <2>4, AppendProperties
  <2> QED BY <1>1, <1>3, <1>4, <1>5, <1>6, <2>3, <2>4, <2>5
<1>7. CASE ~(n < line_capacity)
  <2>1. spans' = spans /\ Len(spans) <= n
    BY <1>1, <1>2, <1>3, <1>7 DEF Read
  <2>2. Len(spans) \in Nat
    BY <1>1
  <2> QED BY <1>1, <1>3, <1>4, <1>5, <1>7, <2>1, <2>2
<1> QED BY <1>6, <1>7

\* A header is stored with each cheat that is.
LEMMA HeadersAreStored ==
  ASSUME WrittenInv, LoopInv, pc # "done",
         NEW content, NEW end, NEW begin, NEW trimmed, NEW class \in LineClasses,
         Read(content, end, begin, trimmed, class),
         class \in Headers => HeaderRead(begin, trimmed) \in HeaderRecords
  PROVE  /\ headers' \in Seq(HeaderRecords) /\ Len(headers') = Len(cheats')
         /\ Len(cheats) \in Nat
         /\ \A c \in 1 .. Len(cheats) :
              /\ headers'[c] = headers[c]
              /\ cheats'[c].header_line_index = cheats[c].header_line_index
         /\ Len(cheats') # Len(cheats) =>
              /\ class \in Headers /\ Len(cheats') = Len(cheats) + 1
              /\ cheats'[Len(cheats) + 1].header_line_index = total_lines + 1
              /\ headers'[Len(cheats) + 1] = HeaderRead(begin, trimmed)
<1>1. PICK n \in Nat : n = Len(cheats)
  BY Basics
<1>2. headers \in Seq(HeaderRecords) /\ Len(headers) = n
  BY <1>1 DEF WrittenInv
<1>3. /\ Len(cheats') = IF class \in Headers /\ total_cheats < cheat_capacity
                        THEN n + 1 ELSE n
      /\ \A c \in 1 .. n : cheats'[c].header_line_index = cheats[c].header_line_index
      /\ class \in Headers /\ total_cheats < cheat_capacity => cheats'[n + 1] = HeaderRecord
  BY <1>1, CheatRecordsAfter DEF Read
<1>4. CASE class \in Headers /\ total_cheats < cheat_capacity
  <2>1. PICK record \in HeaderRecords : record = HeaderRead(begin, trimmed)
    BY <1>4
  <2>2. headers' = Append(headers, record)
    BY <1>4, <2>1 DEF Read
  <2>3. /\ headers' \in Seq(HeaderRecords) /\ Len(headers') = n + 1
        /\ headers'[n + 1] = record
        /\ \A c \in 1 .. n : headers'[c] = headers[c]
    BY <1>2, <2>2, AppendProperties
  <2>4. HeaderRecord.header_line_index = total_lines + 1
    BY DEF HeaderRecord
  <2> QED BY <1>1, <1>3, <1>4, <2>1, <2>3, <2>4
<1>5. CASE ~(class \in Headers /\ total_cheats < cheat_capacity)
  <2>1. headers' = headers
    BY <1>5 DEF Read
  <2> QED BY <1>1, <1>2, <1>3, <1>5, <2>1
<1> QED BY <1>4, <1>5

\* The new records say what the line says, and the old ones are kept.
LEMMA ReadLineWritten ==
  ASSUME ArgumentTypes, SpansInv, WrittenInv, Inv, ReadLine
  PROVE  WrittenInv'
<1>1. PICK content, end, begin, trimmed, class : Read(content, end, begin, trimmed, class)
  BY ReadLineIs
<1>2. class \in LineClasses /\ ParseLine(class) /\ text' = text
  BY <1>1, ClassOfLine DEF Read
<1>3. pc = "parsing" /\ pc' = pc /\ status' = status
  BY <1>2 DEF ParseLine
<1>4. LoopInv /\ status = "NONE" /\ pc # "done"
  BY <1>3 DEF Inv
<1>5. /\ Len(spans) \in Nat /\ Len(source) = total_lines /\ Len(spans) <= total_lines
      /\ Len(spans') = Len(lines')
      /\ \A l \in 1 .. Len(spans) : spans'[l] = spans[l] /\ source'[l] = source[l]
      /\ Len(spans') # Len(spans) =>
           /\ Len(spans) = total_lines /\ Len(spans') = total_lines + 1
           /\ spans'[total_lines + 1].content = <<content, end>>
           /\ source'[total_lines + 1] = class
  BY <1>1, <1>2, <1>4, SpansAfter
<1>6. text \in Seq(STRING) /\ Len(text) \in Nat
  BY ArgumentFacts
<1>7. /\ begin \in 0 .. Len(text) /\ trimmed \in begin .. Len(text)
      /\ begin = trimmed \/ at(trimmed - 1) # "sp"
      /\ class = LineClass(begin, trimmed)
      /\ Stripped(Slice(content, end)) = Slice(begin, trimmed)
  BY <1>1, <1>6 DEF Read
<1>8. class \in Headers =>
        LET s == Slice(begin, trimmed)
            d == HeaderRead(begin, trimmed).description
        IN  /\ HeaderRead(begin, trimmed) \in HeaderRecords
            /\ HeaderRead(begin, trimmed).activation = s[3]
            /\ Slice(d[1], d[2]) = Stripped(SubSeq(s, 4, Len(s)))
  BY <1>6, <1>7, HeaderReadAsWritten
<1>9. /\ headers' \in Seq(HeaderRecords) /\ Len(headers') = Len(cheats')
      /\ Len(cheats) \in Nat
      /\ \A c \in 1 .. Len(cheats) :
           /\ headers'[c] = headers[c]
           /\ cheats'[c].header_line_index = cheats[c].header_line_index
      /\ Len(cheats') # Len(cheats) =>
           /\ class \in Headers /\ Len(cheats') = Len(cheats) + 1
           /\ cheats'[Len(cheats) + 1].header_line_index = total_lines + 1
           /\ headers'[Len(cheats) + 1] = HeaderRead(begin, trimmed)
  BY <1>1, <1>2, <1>4, <1>8, HeadersAreStored
<1>10. \A l \in 1 .. Len(spans') : ReadAsWritten(l)'
  <2>1. ASSUME NEW l \in 1 .. Len(spans) PROVE ReadAsWritten(l)'
    BY <1>2, <1>5, LineKept DEF WrittenInv
  <2>2. ASSUME Len(spans') # Len(spans), NEW l, l = total_lines + 1 PROVE ReadAsWritten(l)'
    <3>1. class = Meaning(Slice(begin, trimmed))
      BY <1>6, <1>7, LineClassIsMeaning
    <3>2. StoredLine(l)' = Slice(begin, trimmed) /\ source'[l] = class
      BY <1>2, <1>5, <1>7, <2>2 DEF StoredLine, Slice
    <3> QED BY <3>1, <3>2 DEF ReadAsWritten
  <2> QED BY <1>5, <2>1, <2>2
<1>11. ASSUME NEW c \in 1 .. Len(cheats'), cheats'[c].header_line_index <= Len(spans')
       PROVE  DescribedAsWritten(c)'
  <2>1. CASE c \in 1 .. Len(cheats)
    <3>1. PICK h : h = cheats[c].header_line_index
      OBVIOUS
    <3>2. h \in 1 .. total_lines
      BY <1>4, <2>1, <3>1 DEF LoopInv, LinksInv
    <3>3. /\ cheats'[c].header_line_index = h /\ headers'[c] = headers[c]
          /\ h <= Len(spans')
      BY <1>9, <1>11, <2>1, <3>1
    <3>4. h \in 1 .. Len(spans)
      BY <1>5, <3>2, <3>3
    <3>5. DescribedAsWritten(c)
      BY <1>4, <2>1, <3>1, <3>4 DEF WrittenInv
    <3>6. spans'[h] = spans[h]
      BY <1>5, <3>4
    <3> QED BY <1>2, <3>1, <3>3, <3>5, <3>6, CheatKept
  <2>2. CASE c \notin 1 .. Len(cheats)
    <3>1. /\ class \in Headers /\ c = Len(cheats) + 1
          /\ cheats'[c].header_line_index = total_lines + 1
          /\ headers'[c] = HeaderRead(begin, trimmed)
      BY <1>9, <2>2
    <3>2. Len(spans') # Len(spans)
      BY <1>5, <1>11, <3>1
    <3>3. PICK h : h = cheats'[c].header_line_index
      OBVIOUS
    <3>4. spans'[h].content[1] = content /\ spans'[h].content[2] = end
      BY <1>5, <3>1, <3>2, <3>3
    <3>5. StoredLine(h)' = Slice(begin, trimmed)
      BY <1>2, <1>7, <3>4 DEF StoredLine, Slice
    <3> QED BY <1>2, <1>8, <3>1, <3>3, <3>5 DEF DescribedAsWritten, Slice
  <2> QED BY <2>1, <2>2
<1>12. DescriptionsExact'
  BY <1>3, <1>4 DEF DescriptionsExact
<1> QED BY <1>5, <1>9, <1>10, <1>11, <1>12 DEF WrittenInv

\* A call that delivers has stored every line, so that the header of every
\* cheat is among them.
LEMMA FinishWritten ==
  ASSUME WrittenInv, Inv, EndOfSource
  PROVE  WrittenInv'
<1>1. Finish /\ text' = text /\ pc' = "done" /\ source' = source
  BY DEF EndOfSource, Finish
<1>2. LoopInv /\ pc # "done"
  BY <1>1 DEF Finish, Inv
<1>3. ASSUME NEW l \in 1 .. Len(spans') PROVE ReadAsWritten(l)'
  <2>1. spans' = spans
    <3>1. 1 .. Len(<<>>) = {}
      OBVIOUS
    <3> QED BY <1>3, <3>1 DEF EndOfSource
  <2> QED BY <1>1, <1>3, <2>1, LineKept DEF WrittenInv
<1>4. DescriptionsExact'
  <2> SUFFICES ASSUME status' = "OK", NEW c \in 1 .. Len(cheats')
               PROVE  DescribedAsWritten(c)'
    BY DEF DescriptionsExact, DescribedAsWritten, StoredLine
  <2>1. ~Truncated
    BY <1>1 DEF Finish
  <2>2. spans' = spans /\ headers' = headers
    BY <2>1 DEF EndOfSource
  <2>3. /\ Len(lines) = total_lines /\ Len(cheats') = Len(cheats)
        /\ \A i \in 1 .. Len(cheats) :
             cheats'[i].header_line_index = cheats[i].header_line_index
    BY <1>1, <1>2, HandedOut
  <2>4. c \in 1 .. Len(cheats) /\ Len(spans) = total_lines
    BY <1>2, <2>3 DEF WrittenInv
  <2>5. cheats[c].header_line_index \in 1 .. total_lines
    BY <1>2, <2>4 DEF LoopInv, LinksInv
  <2>6. cheats[c].header_line_index <= Len(spans)
    BY <2>4, <2>5
  <2>7. DescribedAsWritten(c)
    BY <1>2, <2>4, <2>6 DEF WrittenInv
  <2> QED BY <1>1, <2>2, <2>3, <2>4, <2>7, CheatKept
<1> QED BY <1>1, <1>3, <1>4 DEF WrittenInv

\* A step that stores nothing keeps what is stored.
LEMMA OtherWritten ==
  ASSUME WrittenInv, UNCHANGED <<text, spans, headers, source, cheats, lines>>,
         pc' # "done" => pc # "done",
         status' # "OK" \/ status' = status
  PROVE  WrittenInv'
<1>1. \A l \in 1 .. Len(spans') : ReadAsWritten(l)'
  BY LineKept DEF WrittenInv
<1>2. \A c : DescribedAsWritten(c) => DescribedAsWritten(c)'
  BY CheatKept
<1>3. DescriptionsExact'
  <2>1. status = "OK" => \A c \in 1 .. Len(cheats) : DescribedAsWritten(c)
    BY WrittenProperties DEF WrittenInv
  <2>2. status' = "OK" => \A c \in 1 .. Len(cheats) : DescribedAsWritten(c)'
    BY <1>2, <2>1
  <2> QED BY <2>2 DEF DescriptionsExact, DescribedAsWritten, StoredLine
<1> QED BY <1>1, <1>2, <1>3 DEF WrittenInv

LEMMA WrittenStep ==
  ASSUME ArgumentTypes, SpansInv, WrittenInv, Inv, [FileNext]_fileVars
  PROVE  WrittenInv'
<1>1. CASE Open
  <2>1. UNCHANGED <<text, spans, headers, source, cheats, lines>>
    BY <1>1 DEF Open, Enter, outputs
  <2>2. (pc' # "done" => pc # "done") /\ (status' # "OK" \/ status' = status)
    BY <1>1 DEF Open, Enter
  <2> QED BY <2>1, <2>2, OtherWritten
<1>2. CASE ReadLine
  BY <1>2, ReadLineWritten
<1>3. CASE EndOfSource
  BY <1>3, FinishWritten
<1>4. CASE UNCHANGED fileVars
  <2>1. UNCHANGED <<text, spans, headers, source, cheats, lines, pc, status>>
    BY <1>4 DEF fileVars, vars, outputs
  <2> QED BY <2>1, OtherWritten
<1> QED BY <1>1, <1>2, <1>3, <1>4 DEF FileNext

\* The invariant of LegacyPsv holds here too, through FileImplementsLines.
LEMMA WrittenInvariant == FileSpec => []WrittenInv
<1>1. FileInit => WrittenInv
  <2> SUFFICES ASSUME FileInit PROVE WrittenInv
    OBVIOUS
  <2>1. /\ spans = <<>> /\ headers = <<>> /\ lines = <<>> /\ cheats = <<>> /\ status = "NONE"
    BY DEF FileInit, Init
  <2>2. Len(<<>>) = 0 /\ 1 .. 0 = {} /\ <<>> \in Seq(HeaderRecords)
    OBVIOUS
  <2> QED BY <2>1, <2>2 DEF WrittenInv, DescriptionsExact
<1>2. FileInv /\ Inv /\ WrittenInv /\ [FileNext]_fileVars => WrittenInv'
  BY WrittenStep DEF FileInv
<1>3. FileSpec => []Inv
  BY FileImplementsLines, SpecInv, PTL
<1> QED BY <1>1, <1>2, <1>3, FileInvariant, PTL DEF FileSpec

-----------------------------------------------------------------------------
(***************************************************************************)
(* The results.                                                            *)
(***************************************************************************)

\* vc_psv_parse refuses exactly the calls whose buffers overlap or do not fit,
\* whatever the products and sums of its checks wrap to.
THEOREM RefusesOverlaps == FileSpec => []RefusedExactlyWhenOverlapping
<1>1. FileInv => RefusedExactlyWhenOverlapping
  BY DEF FileInv, StatusInv
<1> QED BY <1>1, FileInvariant, PTL

\* The raw spans of the lines are contiguous and reconstruct the source, for
\* every source.
THEOREM SpansReconstruct == FileSpec => []SpansReconstructSource
<1>1. FileInv => SpansReconstructSource
  BY DEF FileInv, SpansInv
<1> QED BY <1>1, FileInvariant, PTL

\* Every stored line is taken for what its content means by the grammar, for
\* every source: trim_span, parse_code and parse_v0_header read no field
\* across the end of a line.
THEOREM ReadsLinesAsWritten == FileSpec => []LinesReadAsWritten
<1>1. WrittenInv => LinesReadAsWritten
  BY WrittenProperties DEF WrittenInv
<1> QED BY <1>1, WrittenInvariant, PTL

\* Every delivered cheat has the flag and the description of its header line.
THEOREM DescribesAsWritten == FileSpec => []DescriptionsExact
<1>1. WrittenInv => DescriptionsExact
  BY DEF WrittenInv
<1> QED BY <1>1, WrittenInvariant, PTL
=============================================================================
