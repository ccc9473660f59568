---------------------------- MODULE SearchProofs ----------------------------
(***************************************************************************)
(* Machine-checked proofs about Ranges and Search, for every address       *)
(* space, layout, call and memory: the overlap checks do what they are     *)
(* for, a call that passes them writes to its outputs only and never over  *)
(* what it has still to read, exactly the legal calls pass them, and what  *)
(* a call that runs finds is what a filter on its whole input would.       *)
(***************************************************************************)
EXTENDS Search, SharedProofs

-----------------------------------------------------------------------------
(***************************************************************************)
(* Arrays of offsets.                                                      *)
(***************************************************************************)

\* A product that fits is not reduced.
LEMMA ProductExact ==
  ASSUME NEW n \in Nat, ProductFits(n, OffsetBytes)
  PROVE  Product(n, OffsetBytes) = n * OffsetBytes /\ n * OffsetBytes \in 0 .. AddressMax
<1>1. n * OffsetBytes \in Nat
  BY SearchAssumption
<1> QED BY <1>1, RangesAssumption DEF ProductFits, Product

\* Element i of an array ends before element j > i begins.
LEMMA ElementsApart ==
  ASSUME NEW i \in Nat, NEW j \in Nat, i < j
  PROVE  i * OffsetBytes + OffsetBytes <= j * OffsetBytes
<1>1. PICK d \in Nat : j = i + 1 + d
  <2>1. j - i - 1 \in Nat /\ j = i + 1 + (j - i - 1)
    OBVIOUS
  <2> QED BY <2>1
<1>2. OffsetBytes \in Nat
  BY SearchAssumption
<1>3. j * OffsetBytes = i * OffsetBytes + OffsetBytes + d * OffsetBytes
  BY <1>1, <1>2
<1>4. d * OffsetBytes \in Nat /\ i * OffsetBytes \in Nat
  BY <1>2
<1> QED BY <1>2, <1>3, <1>4

\* The elements before index i and the others make up the array.
LEMMA ArraySplit ==
  ASSUME NEW n \in Nat, NEW i \in Nat, i <= n
  PROVE  /\ i * OffsetBytes \in Nat /\ (n - i) * OffsetBytes \in Nat
         /\ i * OffsetBytes + (n - i) * OffsetBytes = n * OffsetBytes
<1>1. OffsetBytes \in Nat
  BY SearchAssumption
<1>2. PICK d \in Nat : n = i + d /\ n - i = d
  <2>1. n - i \in Nat /\ n = i + (n - i)
    OBVIOUS
  <2> QED BY <2>1
<1>3. i * OffsetBytes \in Nat /\ d * OffsetBytes \in Nat
  BY <1>1
<1>4. (i + d) * OffsetBytes = i * OffsetBytes + d * OffsetBytes
  BY <1>1
<1> QED BY <1>2, <1>3, <1>4

LEMMA CellOf ==
  ASSUME NEW first \in Nat, NEW bytes \in Nat, NEW a
  PROVE  a \in Cells(<<first, bytes>>) <=>
           first # 0 /\ a \in Nat /\ first <= a /\ a < first + bytes
BY DEF Cells

-----------------------------------------------------------------------------
(***************************************************************************)
(* The inductive invariant.                                                *)
(***************************************************************************)

\* What the checks at entry leave established, whatever is written later.
Validated ==
  /\ ArgumentsPresent /\ QueryValid
  /\ ProductFits(call.capacity, OffsetBytes)
  /\ call.function = "refine" =>
       /\ call.candidates = 0 => call.candidate_count = 0
       /\ ProductFits(call.candidate_count, OffsetBytes)
       /\ ~AnyOverlap(region, RefinePairs)

Locals ==
  /\ index \in Nat /\ local_written \in Nat /\ local_total \in Nat
  /\ local_written <= local_total
  /\ local_written <= call.capacity
  /\ index <= AddressMax
  /\ local_total <= call.size + call.candidate_count

Loops ==
  /\ pc = "entry" => index = 0 /\ local_written = 0 /\ local_total = 0 /\ status = "NONE"
  /\ pc = "scanning" =>
       /\ index <= call.size - width
       /\ local_total <= index
  /\ pc = "refining" =>
       /\ call.function = "refine"
       /\ index <= call.candidate_count
       /\ local_total <= index
       /\ \A a \in Unread : memory[a] = before[a]

Statuses == {"NONE", "OK", "TRUNCATED", "INVALID_ARGUMENT", "INVALID_QUERY",
             "INVALID_CANDIDATES"}

CandidateCells == Cells(<<call.candidates, call.candidate_count * OffsetBytes>>)

OutputCells == UNION {Cells(region[r]) : r \in Outputs}

Inv ==
  /\ IsCall(call)
  /\ pc \in {"entry", "scanning", "refining", "returning", "done"}
  /\ status \in Statuses
  /\ DOMAIN memory = DOMAIN before /\ CandidateCells \subseteq DOMAIN memory
  /\ Running => Validated
  /\ Locals
  /\ Loops
  /\ OnlyOutputsWritten

\* The arguments of a call as numbers.
LEMMA Arguments ==
  ASSUME IsCall(call)
  PROVE  /\ call.candidates \in 0 .. AddressMax /\ call.out_offsets \in 0 .. AddressMax
         /\ call.written \in 0 .. AddressMax /\ call.total_matches \in 0 .. AddressMax
         /\ call.size \in 0 .. AddressMax /\ call.candidate_count \in 0 .. AddressMax
         /\ call.capacity \in 0 .. AddressMax /\ call.stride \in Nat
         /\ call.function \in {"initial", "refine"}
         /\ width \in {0, 1, 2, 4}
BY DEF IsCall, width, vc_scalar_width

\* A call that has just been made.
Begun ==
  /\ IsCall(call) /\ Holds(memory, call)
  /\ pc = "entry" /\ index = 0 /\ local_written = 0 /\ local_total = 0
  /\ status = "NONE" /\ before = memory

LEMMA InitBegun == Init => Begun
BY CallsAssumption, MemoriesAssumption DEF Init, Begun

LEMMA BegunInv == Begun => Inv
<1> SUFFICES ASSUME Begun PROVE Inv
  OBVIOUS
<1>1. IsCall(call) /\ pc = "entry" /\ index = 0 /\ local_written = 0 /\ local_total = 0
      /\ status = "NONE" /\ before = memory
  BY DEF Begun
<1>2. Locals
  BY <1>1, Arguments, RangesAssumption DEF Locals
<1>3. Loops
  BY <1>1 DEF Loops
<1>4. OnlyOutputsWritten
  BY <1>1 DEF OnlyOutputsWritten
<1>5. CandidateCells \subseteq DOMAIN memory
  BY DEF Begun, Holds, CandidateCells
<1> QED BY <1>1, <1>2, <1>3, <1>4, <1>5 DEF Inv, Statuses, Running

\* Passing every check of the entry establishes Validated.
LEMMA EntryValidates ==
  ASSUME IsCall(call), EntryStatus = "OK"
  PROVE  Validated
<1>1. vc_validate_common = "OK"
  BY DEF EntryStatus, InitialStatus, RefineStatus
<1>2. ArgumentsPresent /\ QueryValid /\ ProductFits(call.capacity, OffsetBytes)
  BY <1>1 DEF vc_validate_common
<1>3. ASSUME call.function = "refine"
      PROVE  /\ call.candidates = 0 => call.candidate_count = 0
             /\ ProductFits(call.candidate_count, OffsetBytes)
             /\ ~AnyOverlap(region, RefinePairs)
  <2>1. RefineStatus = "OK"
    BY <1>3 DEF EntryStatus
  <2>2. vc_validate_candidates = "OK"
    BY <2>1 DEF RefineStatus
  <2>3. ProductFits(call.candidate_count, OffsetBytes) /\ ~AnyOverlap(region, RefinePairs)
    BY <2>1 DEF RefineStatus
  <2> QED BY <2>2, <2>3 DEF vc_validate_candidates
<1> QED BY <1>2, <1>3 DEF Validated

LEMMA EntryStatuses == EntryStatus \in Statuses
BY DEF EntryStatus, InitialStatus, RefineStatus, vc_validate_common,
       vc_validate_candidates, Statuses

-----------------------------------------------------------------------------
(***************************************************************************)
(* One turn of a loop.                                                     *)
(***************************************************************************)

\* Where the next match is stored.
Slot == LET first == call.out_offsets + local_written * OffsetBytes
        IN  first .. first + OffsetBytes - 1

\* The slot lies in the output while there is room.
LEMMA SlotInOutput ==
  ASSUME IsCall(call), Validated, local_written \in Nat, local_written < call.capacity
  PROVE  Slot \subseteq Cells(region.out)
<1> USE Arguments, SearchAssumption, RangesAssumption
<1>1. call.out_offsets # 0
  BY DEF Validated, ArgumentsPresent
<1>2. region.out = <<call.out_offsets, call.capacity * OffsetBytes>>
  BY ProductExact DEF Validated, region
<1>3. local_written * OffsetBytes + OffsetBytes <= call.capacity * OffsetBytes
  BY ElementsApart
<1>4. local_written * OffsetBytes \in Nat /\ call.capacity * OffsetBytes \in Nat
  OBVIOUS
<1> HIDE Arguments
<1>5. call.out_offsets \in Nat
  BY Arguments
<1>6. PICK stored \in Nat, bytes \in Nat :
        /\ stored = local_written * OffsetBytes
        /\ bytes = call.capacity * OffsetBytes
        /\ stored + OffsetBytes <= bytes
  BY <1>3, <1>4
<1> QED BY <1>1, <1>2, <1>5, <1>6 DEF Slot, Cells

\* The slot is not among the candidates that are still to be read: in place
\* because the writer is not ahead of the reader, and otherwise because the
\* overlap check has kept the two arrays apart.
LEMMA SlotNotUnread ==
  ASSUME IsCall(call), Validated, call.function = "refine",
         local_written \in Nat, local_written < call.capacity,
         index \in Nat, index < call.candidate_count, local_written <= index,
         NEW a \in Slot,
         a \in Cells(<<call.candidates + (index + 1) * OffsetBytes,
                       (call.candidate_count - (index + 1)) * OffsetBytes>>)
  PROVE  FALSE
<1>1. /\ call.candidates \in Nat /\ call.out_offsets \in Nat
      /\ call.candidate_count \in Nat /\ call.capacity \in Nat /\ OffsetBytes \in Nat
  BY Arguments, SearchAssumption, RangesAssumption
<1>2. local_written * OffsetBytes + OffsetBytes <= (index + 1) * OffsetBytes
  BY <1>1, ElementsApart
<1>3. /\ local_written * OffsetBytes \in Nat /\ (index + 1) * OffsetBytes \in Nat
      /\ (call.candidate_count - (index + 1)) * OffsetBytes \in Nat
      /\ (index + 1) * OffsetBytes + (call.candidate_count - (index + 1)) * OffsetBytes
           = call.candidate_count * OffsetBytes
  <2>1. index + 1 \in Nat /\ index + 1 <= call.candidate_count
    BY <1>1
  <2>2. local_written * OffsetBytes \in Nat
    BY <1>1
  <2> QED BY <1>1, <2>1, <2>2, ArraySplit
<1>4. PICK read \in Nat, left \in Nat, stored \in Nat :
        /\ read = (index + 1) * OffsetBytes
        /\ left = (call.candidate_count - (index + 1)) * OffsetBytes
        /\ stored = local_written * OffsetBytes
        /\ read + left = call.candidate_count * OffsetBytes
        /\ stored + OffsetBytes <= read
  BY <1>2, <1>3
<1>7. a \in Nat /\ call.candidates + read <= a /\ a < call.candidates + read + left
  <2>1. call.candidates + read \in Nat
    BY <1>1
  <2>2. a \in Cells(<<call.candidates + read, left>>)
    BY <1>4
  <2>3. a \in Nat /\ call.candidates + read <= a /\ a < (call.candidates + read) + left
    BY <2>1, <2>2, CellOf
  <2> QED BY <1>1, <2>3
<1>5. CASE call.out_offsets = call.candidates
  BY <1>1, <1>4, <1>5, <1>7 DEF Slot
<1>6. CASE call.out_offsets # call.candidates
  <2>1. ~ranges_overlap(region.candidates, region.out)
    <3>1. <<"candidates", "out">> \in RefinePairs
      BY <1>6 DEF RefinePairs
    <3> QED BY <3>1 DEF Validated, AnyOverlap
  <2>2. /\ region.candidates = <<call.candidates, call.candidate_count * OffsetBytes>>
        /\ call.candidate_count * OffsetBytes \in 0 .. AddressMax
    BY <1>1, ProductExact DEF Validated, region
  <2>3. /\ region.out = <<call.out_offsets, call.capacity * OffsetBytes>>
        /\ call.capacity * OffsetBytes \in 0 .. AddressMax
    BY <1>1, ProductExact DEF Validated, region
  <2>4. region.candidates \in Regions /\ region.out \in Regions
    BY <2>2, <2>3, Arguments DEF Regions
  <2>5. Cells(region.candidates) \cap Cells(region.out) = {}
    BY <2>1, <2>4, PassedRegionsAreDisjoint
  <2>6. call.candidates # 0
    BY <1>1 DEF Validated
  <2>7. a \in Cells(region.candidates)
    BY <1>1, <1>4, <1>7, <2>2, <2>6, CellOf
  <2>8. a \in Cells(region.out)
    BY SlotInOutput
  <2> QED BY <2>5, <2>7, <2>8
<1> QED BY <1>5, <1>6

\* What a turn of either loop does to the counts and to the memory.
LEMMA EmitStep ==
  ASSUME NEW matches, NEW offset, IsCall(call), Locals, Emit(matches, offset)
  PROVE  /\ local_written' \in Nat /\ local_total' \in Nat
         /\ local_written' <= local_total' /\ local_written' <= call.capacity
         /\ local_total' <= local_total + 1
         /\ DOMAIN memory' = DOMAIN memory
         /\ \A a \in DOMAIN memory : memory'[a] # memory[a] =>
              a \in Slot /\ local_written < call.capacity
<1>0. call.capacity \in Nat
  BY Arguments, RangesAssumption
<1>1. CASE matches /\ local_written < call.capacity
  <2>1. /\ memory' = StoreOffset(call.out_offsets, local_written, offset)
        /\ local_written' = local_written + 1
        /\ local_total' = local_total + 1
    BY <1>1 DEF Emit
  <2>2. /\ DOMAIN memory' = DOMAIN memory
        /\ \A a \in DOMAIN memory : a \notin Slot => memory'[a] = memory[a]
    BY <2>1 DEF StoreOffset, Slot
  <2> QED BY <1>0, <1>1, <2>1, <2>2 DEF Locals
<1>2. CASE ~(matches /\ local_written < call.capacity)
  <2>1. memory' = memory /\ local_written' = local_written
    BY <1>2 DEF Emit, Locals
  <2>2. local_total' = local_total + (IF matches THEN 1 ELSE 0)
    BY DEF Emit
  <2> QED BY <1>0, <2>1, <2>2 DEF Locals
<1> QED BY <1>1, <1>2

\* Writing into the slot keeps the writes within the outputs.
LEMMA EmitWritesOutputs ==
  ASSUME Inv, Running, Running', UNCHANGED <<call, before>>,
         DOMAIN memory' = DOMAIN memory,
         \A a \in DOMAIN memory : memory'[a] # memory[a] =>
           a \in Slot /\ local_written < call.capacity
  PROVE  OnlyOutputsWritten'
<1>1. region' = region
  BY DEF region
<1> SUFFICES ASSUME NEW a \in DOMAIN memory, memory'[a] # before[a]
             PROVE  a \in UNION {Cells(region[r]) : r \in Outputs}
  BY <1>1 DEF OnlyOutputsWritten, Accepted, Outputs
<1>2. CASE memory[a] # before[a]
  BY <1>2 DEF Inv, OnlyOutputsWritten
<1>3. CASE memory[a] = before[a]
  <2>1. a \in Slot /\ local_written < call.capacity
    BY <1>3
  <2>2. a \in Cells(region.out)
    BY <2>1, SlotInOutput DEF Inv, Locals
  <2> QED BY <2>2 DEF Outputs
<1> QED BY <1>2, <1>3

LEMMA RefuseInv == Inv /\ Refuse => Inv'
<1> SUFFICES ASSUME Inv, Refuse PROVE Inv'
  OBVIOUS
<1>1. /\ pc = "entry" /\ pc' = "done" /\ status' = EntryStatus
      /\ UNCHANGED <<call, memory, index, local_written, local_total, before>>
  BY DEF Refuse
<1>2. \A a \in DOMAIN memory : memory[a] = before[a]
  BY <1>1 DEF Inv, Loops, OnlyOutputsWritten, Accepted, Running
<1>3. OnlyOutputsWritten'
  BY <1>1, <1>2 DEF OnlyOutputsWritten
<1>4. Locals' /\ Loops'
  BY <1>1 DEF Inv, Locals, Loops
<1>5. ~Running'
  BY <1>1 DEF Running
<1>6. CandidateCells' = CandidateCells
  BY <1>1 DEF CandidateCells
<1>7. status' \in Statuses
  BY <1>1, EntryStatuses
<1> QED BY <1>1, <1>3, <1>4, <1>5, <1>6, <1>7 DEF Inv, Statuses

LEMMA AcceptInv == Inv /\ Accept => Inv'
<1> SUFFICES ASSUME Inv, Accept PROVE Inv'
  OBVIOUS
<1>1. /\ pc = "entry" /\ EntryStatus = "OK"
      /\ pc' = IF call.function = "refine" THEN "refining"
               ELSE IF call.size < width THEN "returning" ELSE "scanning"
      /\ UNCHANGED <<call, memory, index, local_written, local_total, status, before>>
  BY DEF Accept
<1>2. \A a \in DOMAIN memory : memory[a] = before[a]
  BY <1>1 DEF Inv, Loops, OnlyOutputsWritten, Accepted, Running
<1>3. OnlyOutputsWritten'
  BY <1>1, <1>2 DEF OnlyOutputsWritten
<1>4. IsCall(call) /\ index = 0 /\ local_total = 0
  BY <1>1 DEF Inv, Loops
<1>5. width' = width
  BY <1>1 DEF width
<1>6. Unread' = CandidateCells
  BY <1>1, <1>4, Arguments, RangesAssumption, SearchAssumption DEF Unread, CandidateCells
<1>7. Loops'
  <2>1. \A a \in Unread' : memory'[a] = before'[a]
    BY <1>1, <1>2, <1>6 DEF Inv
  <2>2. pc' = "scanning" => index' <= call'.size - width' /\ local_total' <= index'
    BY <1>1, <1>4, <1>5, Arguments, RangesAssumption
  <2>3. pc' = "refining" => call'.function = "refine" /\ index' <= call'.candidate_count
                            /\ local_total' <= index'
    BY <1>1, <1>4, Arguments, RangesAssumption
  <2> QED BY <1>1, <2>1, <2>2, <2>3 DEF Loops
<1>8. Validated'
  <2>1. Validated
    BY <1>1, <1>4, EntryValidates
  <2> QED BY <1>1, <2>1 DEF Validated, ArgumentsPresent, QueryValid, width, region,
                            RefinePairs, PreviousPairs
<1>9. Locals'
  BY <1>1 DEF Inv, Locals
<1>10. CandidateCells' = CandidateCells
  BY <1>1 DEF CandidateCells
<1> QED BY <1>1, <1>3, <1>7, <1>8, <1>9, <1>10 DEF Inv

\* What the checks established depends on the call alone.
LEMMA ValidatedStable == Validated /\ UNCHANGED call => Validated'
BY DEF Validated, ArgumentsPresent, QueryValid, width, region, RefinePairs, PreviousPairs

LEMMA ScanInv == Inv /\ Scan => Inv'
<1> SUFFICES ASSUME Inv, Scan PROVE Inv'
  OBVIOUS
<1>1. pc = "scanning" /\ UNCHANGED <<call, status, before>>
  BY DEF Scan
<1>2. Running /\ Validated /\ IsCall(call) /\ Locals
  BY <1>1 DEF Inv, Running
<1>3. PICK matches : Emit(matches, index)
  BY DEF Scan
<1>4. /\ local_written' \in Nat /\ local_total' \in Nat
      /\ local_written' <= local_total' /\ local_written' <= call.capacity
      /\ local_total' <= local_total + 1
      /\ DOMAIN memory' = DOMAIN memory
      /\ \A a \in DOMAIN memory : memory'[a] # memory[a] =>
           a \in Slot /\ local_written < call.capacity
  BY <1>2, <1>3, EmitStep
<1>5. /\ call.size \in Nat /\ call.size <= AddressMax /\ call.candidate_count \in Nat
      /\ call.stride \in Nat /\ call.stride # 0 /\ width \in {1, 2, 4}
      /\ AddressMax \in Nat /\ width' = width
  BY <1>1, <1>2, Arguments, RangesAssumption DEF Validated, QueryValid, width
<1>6. index \in Nat /\ index <= call.size - width /\ local_total <= index
  BY <1>1 DEF Inv, Loops, Locals
<1>7. local_total \in Nat
  BY <1>2 DEF Locals
<1>8. CASE StrideEnds(index)
  <2>1. pc' = "returning" /\ index' = index
    BY <1>8 DEF Scan
  <2>2. Locals'
    BY <1>1, <1>4, <1>5, <1>6, <1>7, <2>1 DEF Locals
  <2>3. Loops'
    BY <2>1 DEF Loops
  <2>4. Running'
    BY <2>1 DEF Running
  <2>5. OnlyOutputsWritten'
    BY <1>1, <1>2, <1>4, <2>4, EmitWritesOutputs
  <2>6. Validated' /\ CandidateCells' = CandidateCells
    BY <1>1, <1>2, ValidatedStable DEF CandidateCells
  <2> QED BY <1>1, <1>4, <2>1, <2>2, <2>3, <2>5, <2>6 DEF Inv
<1>9. CASE ~StrideEnds(index)
  <2>1. pc' = pc /\ index' = (index + call.stride) % (AddressMax + 1)
    BY <1>9 DEF Scan
  <2>2. call.stride <= (call.size - width) - index
    BY <1>5, <1>6, <1>9 DEF StrideEnds
  <2>3. index' = index + call.stride /\ index' <= call.size - width
    <3>1. /\ index + call.stride \in Nat /\ index + call.stride <= call.size - width
          /\ index + call.stride < AddressMax + 1
      BY <1>5, <1>6, <2>2
    <3>2. (index + call.stride) % (AddressMax + 1) = index + call.stride
      BY <1>5, <3>1
    <3> QED BY <2>1, <3>1, <3>2
  <2>4. Locals'
    BY <1>1, <1>4, <1>5, <1>6, <1>7, <2>3 DEF Locals
  <2>5. Loops'
    <3>1. index' <= call'.size - width' /\ local_total' <= index'
      BY <1>1, <1>4, <1>5, <1>6, <1>7, <2>3
    <3> QED BY <1>1, <2>1, <3>1 DEF Loops
  <2>6. Running'
    BY <1>1, <2>1 DEF Running
  <2>7. OnlyOutputsWritten'
    BY <1>1, <1>2, <1>4, <2>6, EmitWritesOutputs
  <2>8. Validated' /\ CandidateCells' = CandidateCells
    BY <1>1, <1>2, ValidatedStable DEF CandidateCells
  <2> QED BY <1>1, <1>4, <2>1, <2>4, <2>5, <2>7, <2>8 DEF Inv
<1> QED BY <1>8, <1>9

\* Reading one more candidate leaves fewer to read.
LEMMA UnreadShrinks ==
  ASSUME IsCall(call), Validated, call.function = "refine",
         index \in Nat, index < call.candidate_count,
         NEW a \in Cells(<<call.candidates + (index + 1) * OffsetBytes,
                           (call.candidate_count - (index + 1)) * OffsetBytes>>)
  PROVE  a \in Unread /\ a \in CandidateCells
<1>1. /\ call.candidates \in Nat /\ call.candidates # 0
      /\ call.candidate_count \in Nat /\ OffsetBytes \in Nat
  BY Arguments, SearchAssumption, RangesAssumption DEF Validated
<1>2. PICK read \in Nat, left \in Nat, all \in Nat :
        /\ read = (index + 1) * OffsetBytes
        /\ left = (call.candidate_count - (index + 1)) * OffsetBytes
        /\ all = call.candidate_count * OffsetBytes
        /\ read + left = all
  <2>1. index + 1 \in Nat /\ index + 1 <= call.candidate_count
    BY <1>1
  <2>2. (index + 1) * OffsetBytes \in Nat
        /\ call.candidate_count * OffsetBytes \in Nat
    BY <1>1
  <2>3. /\ (call.candidate_count - (index + 1)) * OffsetBytes \in Nat
        /\ (index + 1) * OffsetBytes + (call.candidate_count - (index + 1)) * OffsetBytes
             = call.candidate_count * OffsetBytes
    BY <1>1, <2>1, ArraySplit
  <2> QED BY <2>2, <2>3
<1>3. PICK now \in Nat, ahead \in Nat :
        /\ now = index * OffsetBytes
        /\ ahead = (call.candidate_count - index) * OffsetBytes
        /\ now + ahead = all
  BY <1>1, <1>2, ArraySplit
<1>4. now <= read
  BY <1>1, <1>2, <1>3, ElementsApart
<1>5. a \in Nat /\ call.candidates + read <= a /\ a < (call.candidates + read) + left
  <2>1. call.candidates + read \in Nat /\ a \in Cells(<<call.candidates + read, left>>)
    BY <1>1, <1>2
  <2> QED BY <2>1, CellOf
<1>6. a \in Cells(<<call.candidates + now, ahead>>)
  <2>1. call.candidates + now \in Nat /\ call.candidates + now # 0
    BY <1>1
  <2> QED BY <1>1, <1>2, <1>3, <1>4, <1>5, <2>1, CellOf
<1>7. a \in Cells(<<call.candidates, all>>)
  BY <1>1, <1>2, <1>5, CellOf
<1> QED BY <1>2, <1>3, <1>6, <1>7 DEF Unread, CandidateCells

LEMMA RefineInv == Inv /\ Refine => Inv'
<1> SUFFICES ASSUME Inv, Refine PROVE Inv'
  OBVIOUS
<1>1. /\ pc = "refining" /\ pc' = pc /\ index < call.candidate_count /\ index' = index + 1
      /\ UNCHANGED <<call, status, before>>
  BY DEF Refine
<1>2. Running /\ Validated /\ IsCall(call) /\ Locals /\ call.function = "refine"
  BY <1>1 DEF Inv, Running, Loops
<1>3. PICK matches, offset : Emit(matches, offset)
  BY DEF Refine
<1>4. /\ local_written' \in Nat /\ local_total' \in Nat
      /\ local_written' <= local_total' /\ local_written' <= call.capacity
      /\ local_total' <= local_total + 1
      /\ DOMAIN memory' = DOMAIN memory
      /\ \A a \in DOMAIN memory : memory'[a] # memory[a] =>
           a \in Slot /\ local_written < call.capacity
  BY <1>2, <1>3, EmitStep
<1>5. /\ call.size \in Nat /\ call.candidate_count \in Nat
      /\ call.candidate_count <= AddressMax /\ AddressMax \in Nat
  BY <1>2, Arguments, RangesAssumption
<1>6. /\ index \in Nat /\ local_total \in Nat /\ local_written \in Nat
      /\ local_written <= local_total /\ local_total <= index
  BY <1>1 DEF Inv, Loops, Locals
<1>7. Locals'
  BY <1>1, <1>4, <1>5, <1>6 DEF Locals
<1>8. ASSUME NEW a \in Unread' PROVE memory'[a] = before'[a]
  <2>1. a \in Cells(<<call.candidates + (index + 1) * OffsetBytes,
                      (call.candidate_count - (index + 1)) * OffsetBytes>>)
    BY <1>1, <1>8 DEF Unread
  <2>2. a \in Unread /\ a \in DOMAIN memory
    BY <1>1, <1>2, <1>6, <2>1, UnreadShrinks DEF Inv
  <2>3. memory[a] = before[a]
    BY <1>1, <2>2 DEF Inv, Loops
  <2>4. ~(a \in Slot /\ local_written < call.capacity)
    BY <1>1, <1>2, <1>6, <2>1, SlotNotUnread
  <2> QED BY <1>1, <1>4, <2>2, <2>3, <2>4
<1>9. Loops'
  <2>1. index' <= call'.candidate_count /\ local_total' <= index'
    BY <1>1, <1>4, <1>5, <1>6
  <2> QED BY <1>1, <1>2, <1>8, <2>1 DEF Loops
<1>10. Running'
  BY <1>1 DEF Running
<1>11. OnlyOutputsWritten'
  BY <1>1, <1>2, <1>4, <1>10, EmitWritesOutputs
<1>12. Validated' /\ CandidateCells' = CandidateCells
  BY <1>1, <1>2, ValidatedStable DEF CandidateCells
<1> QED BY <1>1, <1>4, <1>7, <1>9, <1>11, <1>12 DEF Inv

LEMMA ReturnInv == Inv /\ Return => Inv'
<1> SUFFICES ASSUME Inv, Return PROVE Inv'
  OBVIOUS
<1>1. /\ pc \in {"returning", "refining"} /\ pc' = "done"
      /\ memory' = StoreCounters(local_written, local_total)
      /\ status' = IF local_total > call.capacity THEN "TRUNCATED" ELSE "OK"
      /\ UNCHANGED <<call, index, local_written, local_total, before>>
  BY DEF Return
<1>2. Running /\ Validated /\ IsCall(call)
  BY <1>1 DEF Inv, Running
<1>3. Accepted' /\ ~Running' /\ region' = region /\ CandidateCells' = CandidateCells
  BY <1>1 DEF Accepted, Running, region, CandidateCells
<1>4. /\ DOMAIN memory' = DOMAIN memory
      /\ \A a \in DOMAIN memory :
           a # call.written /\ a # call.total_matches => memory'[a] = memory[a]
  BY <1>1 DEF StoreCounters
<1>5. call.written \in Cells(region.written) /\ call.total_matches \in Cells(region.total)
  BY <1>2, Arguments, RangesAssumption, CellOf DEF Validated, ArgumentsPresent, region
<1>6. OnlyOutputsWritten'
  <2> SUFFICES ASSUME NEW a \in DOMAIN memory, memory'[a] # before[a]
               PROVE  a \in UNION {Cells(region[r]) : r \in Outputs}
    BY <1>1, <1>3, <1>4 DEF OnlyOutputsWritten, Outputs
  <2>1. CASE a = call.written \/ a = call.total_matches
    BY <1>5, <2>1 DEF Outputs
  <2>2. CASE a # call.written /\ a # call.total_matches
    BY <1>4, <2>2 DEF Inv, OnlyOutputsWritten
  <2> QED BY <2>1, <2>2
<1>7. Locals' /\ Loops'
  BY <1>1 DEF Inv, Locals, Loops
<1>8. status' \in Statuses
  BY <1>1 DEF Statuses
<1> QED BY <1>1, <1>3, <1>4, <1>6, <1>7, <1>8 DEF Inv

LEMMA StutterInv == Inv /\ UNCHANGED vars => Inv'
<1> SUFFICES ASSUME Inv, UNCHANGED vars PROVE Inv'
  OBVIOUS
<1>1. UNCHANGED <<call, memory, pc, index, local_written, local_total, status, before>>
  BY DEF vars
<1>2. Running => Validated'
  BY <1>1, ValidatedStable DEF Inv
<1>3. OnlyOutputsWritten'
  BY <1>1 DEF Inv, OnlyOutputsWritten, Accepted, Running, region, Outputs
<1>4. Locals' /\ Loops'
  BY <1>1 DEF Inv, Locals, Loops, width, Unread
<1> QED BY <1>1, <1>2, <1>3, <1>4 DEF Inv, Running, CandidateCells

LEMMA SearchInvariant == Spec => []Inv
<1>1. Inv /\ [Next]_vars => Inv'
  BY RefuseInv, AcceptInv, ScanInv, RefineInv, ReturnInv, StutterInv DEF Next
<1> QED BY InitBegun, BegunInv, <1>1, PTL DEF Spec

-----------------------------------------------------------------------------
(***************************************************************************)
(* The properties.                                                         *)
(***************************************************************************)

\* The offsets of the initial scan and the counts of both loops never leave
\* their ranges: the stride check makes the wrapping sum exact.
THEOREM SearchTypeCorrect == Spec => []TypeOK
<1>1. Inv => TypeOK
  <2> SUFFICES ASSUME Inv PROVE TypeOK
    OBVIOUS
  <2>1. call.size \in Nat /\ call.candidate_count \in Nat /\ AddressMax \in Nat
    BY Arguments, RangesAssumption DEF Inv
  <2>2. /\ index \in 0 .. AddressMax
        /\ local_total \in 0 .. call.size + call.candidate_count
        /\ local_written \in 0 .. local_total
    BY <2>1 DEF Inv, Locals
  <2> QED BY <2>2 DEF Inv, TypeOK, Statuses
<1> QED BY <1>1, SearchInvariant, PTL

\* Every accepted call, initial or refine, writes to its output and its two
\* counters only, and a refused one to nothing.
THEOREM SearchWritesOutputs == Spec => []OnlyOutputsWritten
<1>1. Inv => OnlyOutputsWritten
  BY DEF Inv
<1> QED BY <1>1, SearchInvariant, PTL

\* The refine loop, in place or not, reads each candidate as the caller left
\* it.
THEOREM SearchReadsIntact == Spec => []UnreadCandidatesIntact
<1>1. Inv => UnreadCandidatesIntact
  <2> SUFFICES ASSUME Inv, pc = "refining"
               PROVE  local_written <= index /\ \A a \in Unread : memory[a] = before[a]
    BY DEF UnreadCandidatesIntact
  <2> QED BY DEF Inv, Locals, Loops
<1> QED BY <1>1, SearchInvariant, PTL

\* The number of steps that a call may still take.
Remaining ==
  CASE pc = "entry"     -> call.size + call.candidate_count + 3
    [] pc = "scanning"  -> (call.size - index) + 2
    [] pc = "refining"  -> (call.candidate_count - index) + 1
    [] pc = "returning" -> 1
    [] OTHER            -> 0

\* Neither loop goes on for ever: whatever the stride, the list and the sizes,
\* each turn leaves fewer to come, and a call returns after at most as many
\* steps as its snapshot has bytes and its list candidates, and three.
THEOREM SearchProgresses == Spec => [](Remaining \in Nat) /\ [][Remaining' < Remaining]_vars
<1>1. ASSUME Inv
      PROVE  /\ Remaining \in Nat
             /\ call.size \in Nat /\ call.candidate_count \in Nat /\ index \in Nat
             /\ pc = "scanning" => index <= call.size
             /\ pc = "refining" => index <= call.candidate_count
             /\ Running => call.stride \in Nat \ {0} /\ width \in {1, 2, 4}
  <2>1. call.size \in Nat /\ call.candidate_count \in Nat /\ AddressMax \in Nat
    BY <1>1, Arguments, RangesAssumption DEF Inv
  <2>2. Running => call.stride \in Nat \ {0} /\ width \in {1, 2, 4}
    BY <1>1, Arguments DEF Inv, Validated, QueryValid
  <2>3. pc = "scanning" => index <= call.size - width /\ Running
    BY <1>1 DEF Inv, Loops, Running
  <2>4. pc = "refining" => index <= call.candidate_count
    BY <1>1 DEF Inv, Loops
  <2>5. index \in Nat
    BY <1>1 DEF Inv, Locals
  <2>6. pc = "scanning" => index <= call.size
    BY <2>1, <2>2, <2>3, <2>5
  <2>7. Remaining \in Nat
    BY <2>1, <2>4, <2>5, <2>6 DEF Remaining
  <2> QED BY <2>1, <2>2, <2>4, <2>5, <2>6, <2>7
<1>2. ASSUME Inv, Inv', Next PROVE Remaining' < Remaining
  <2>1. call' = call /\ call.size \in Nat /\ call.candidate_count \in Nat /\ index \in Nat
    BY <1>1, <1>2 DEF Next, Refuse, Accept, Scan, Refine, Return
  <2>2. CASE Refuse
    BY <2>1, <2>2 DEF Refuse, Remaining
  <2>3. CASE Accept
    <3>1. pc = "entry" /\ pc' \in {"refining", "returning", "scanning"} /\ index' = index
          /\ Loops
      BY <1>2, <2>3 DEF Accept, Inv
    <3>2. index = 0
      BY <3>1 DEF Loops
    <3> QED BY <2>1, <3>1, <3>2 DEF Remaining
  <2>4. CASE Scan
    <3>1. pc = "scanning" /\ index <= call.size
          /\ call.stride \in Nat \ {0} /\ width \in {1, 2, 4}
      BY <1>1, <1>2, <2>4 DEF Scan, Running
    <3>2. CASE StrideEnds(index)
      <4>1. pc' = "returning"
        BY <2>4, <3>2 DEF Scan
      <4> QED BY <2>1, <3>1, <4>1 DEF Remaining
    <3>3. CASE ~StrideEnds(index)
      <4>1. pc' = "scanning" /\ index' = (index + call.stride) % (AddressMax + 1)
        BY <2>4, <3>1, <3>3 DEF Scan
      <4>2. call.stride <= (call.size - width) - index
        BY <2>1, <3>1, <3>3 DEF StrideEnds
      <4>3. call.size <= AddressMax /\ AddressMax \in Nat
        BY <1>2, Arguments, RangesAssumption DEF Inv
      <4>4. index + call.stride \in Nat /\ index + call.stride <= call.size
            /\ index < index + call.stride /\ index + call.stride < AddressMax + 1
        BY <2>1, <3>1, <4>2, <4>3
      <4>5. (index + call.stride) % (AddressMax + 1) = index + call.stride
        BY <4>3, <4>4
      <4>6. Remaining' = (call.size - (index + call.stride)) + 2
            /\ Remaining = (call.size - index) + 2
        BY <2>1, <3>1, <4>1, <4>5 DEF Remaining
      <4> QED BY <2>1, <3>1, <4>4, <4>6
    <3> QED BY <3>2, <3>3
  <2>5. CASE Refine
    <3>1. pc = "refining" /\ pc' = pc /\ index' = index + 1
      BY <2>5 DEF Refine
    <3> QED BY <2>1, <3>1 DEF Remaining
  <2>6. CASE Return
    <3>1. pc' = "done" /\ (pc = "returning" \/ (pc = "refining" /\ index = call.candidate_count))
      BY <2>6 DEF Return
    <3> QED BY <2>1, <3>1 DEF Remaining
  <2> QED BY <1>2, <2>2, <2>3, <2>4, <2>5, <2>6 DEF Next
<1>3. Inv => Remaining \in Nat
  BY <1>1
<1>4. Inv /\ Inv' /\ [Next]_vars => [Remaining' < Remaining]_vars
  BY <1>2
<1> QED BY <1>3, <1>4, SearchInvariant, PTL DEF Spec

-----------------------------------------------------------------------------
(***************************************************************************)
(* Scalars in memory.                                                      *)
(***************************************************************************)

\* The weight of a byte is a power of the base.
LEMMA WeightFacts ==
  /\ Weight \in [Nat -> Nat \ {0}]
  /\ Weight[0] = 1
  /\ \A i \in Nat : Weight[i + 1] = ByteBase * Weight[i]
<1> DEFINE step == [x \in Nat \X (Nat \ {0}) |-> ByteBase * x[2]]
           Solves(f) == f = [i \in Nat |-> IF i = 0 THEN 1 ELSE ByteBase * f[i - 1]]
<1>1. step \in [Nat \X (Nat \ {0}) -> Nat \ {0}]
  <2> SUFFICES ASSUME NEW x \in Nat \X (Nat \ {0}) PROVE ByteBase * x[2] \in Nat \ {0}
    OBVIOUS
  <2>1. PICK b \in Nat \ {0}, v \in Nat \ {0} : b = ByteBase /\ v = x[2]
    BY SearchAssumption
  <2>2. b * v \in Nat \ {0}
    OBVIOUS
  <2> QED BY <2>1, <2>2
<1>2. \A n \in Nat, v \in Nat \ {0} : step[<<n, v>>] = ByteBase * v
  OBVIOUS
<1> HIDE DEF step
<1>3. PICK f \in [Nat -> Nat \ {0}] : f[0] = 1 /\ \A n \in Nat : f[n + 1] = step[<<n, f[n]>>]
  <2>1. \E f : Solution(Nat \ {0}, 1, step, f)
    BY SMTT(30), <1>1, Recursion
  <2> QED BY <2>1 DEF Solution
<1>4. \A i \in Nat : f[i] = IF i = 0 THEN 1 ELSE ByteBase * f[i - 1]
  <2> SUFFICES ASSUME NEW i \in Nat, i # 0 PROVE f[i] = ByteBase * f[i - 1]
    BY <1>3
  <2>1. PICK n \in Nat : n = i - 1 /\ i = n + 1
    OBVIOUS
  <2> QED BY <1>2, <1>3, <2>1
<1>5. Solves(f)
  BY <1>3, <1>4
<1>6. Weight = CHOOSE g : Solves(g)
  BY DEF Weight
<1>7. Solves(Weight)
  BY <1>5, <1>6
<1>8. \A i \in Nat : Weight[i] = IF i = 0 THEN 1 ELSE ByteBase * Weight[i - 1]
  BY <1>7
<1>9. ASSUME NEW i \in Nat PROVE Weight[i + 1] = ByteBase * Weight[i]
  <2>1. i + 1 \in Nat /\ i + 1 # 0 /\ (i + 1) - 1 = i
    OBVIOUS
  <2> QED BY <1>8, <2>1
<1>10. Weight \in [Nat -> Nat \ {0}]
  <2> DEFINE T == {i \in Nat : Weight[i] \in Nat \ {0}}
  <2>1. 0 \in T
    BY <1>8
  <2>2. ASSUME NEW n \in Nat, n \in T PROVE n + 1 \in T
    <3>0. ByteBase \in Nat \ {0}
      BY SearchAssumption
    <3>1. PICK b \in Nat \ {0}, v \in Nat \ {0} : b = ByteBase /\ v = Weight[n]
      BY <2>2, <3>0
    <3>2. b * v \in Nat \ {0}
      OBVIOUS
    <3> QED BY <1>9, <3>1, <3>2
  <2> HIDE DEF T
  <2>3. Nat \subseteq T
    BY <2>1, <2>2, Induction
  <2>4. \A i \in Nat : Weight[i] \in Nat \ {0}
    BY <2>3 DEF T
  <2>5. DOMAIN Weight = Nat /\ Weight = [i \in Nat |-> Weight[i]]
    BY <1>7
  <2> QED BY <2>4, <2>5
<1> QED BY <1>8, <1>9, <1>10

\* v[i] is the number that the first i of w bytes stand for.
Places(m, address, w, v) ==
  /\ v \in [0 .. w -> Nat]
  /\ v[0] = 0
  /\ \A i \in Nat : i < w => v[i + 1] = v[i] + m[address + i] * Weight[i]

Bytes(m, address, w) == \A i \in Nat : i < w => m[address + i] \in 0 .. ByteBase - 1

\* A read adds up the bytes by their weights.
LEMMA ReadPlaces ==
  ASSUME NEW m, NEW address \in Nat, NEW w \in Nat, Bytes(m, address, w)
  PROVE  \E v : Places(m, address, w, v) /\ vc_read_little_endian(m, address, w) = v[w]
<1> DEFINE step == [x \in Nat \X Nat |->
                      IF x[1] < w THEN x[2] + m[address + x[1]] * Weight[x[1]] ELSE x[2]]
           Solves(f) == f = [i \in 0 .. w |-> IF i = 0 THEN 0
                               ELSE f[i - 1] + m[address + i - 1] * Weight[i - 1]]
<1>1. step \in [Nat \X Nat -> Nat]
  <2> SUFFICES ASSUME NEW x \in Nat \X Nat, x[1] < w
               PROVE  x[2] + m[address + x[1]] * Weight[x[1]] \in Nat
    OBVIOUS
  <2>1. PICK n \in Nat, old \in Nat : n = x[1] /\ old = x[2]
    OBVIOUS
  <2>2. m[address + n] \in 0 .. ByteBase - 1 /\ Weight[n] \in Nat
    BY <2>1, WeightFacts DEF Bytes
  <2>3. PICK b \in Nat, k \in Nat : b = m[address + n] /\ k = Weight[n]
    BY <2>2, SearchAssumption
  <2>4. old + b * k \in Nat
    OBVIOUS
  <2> QED BY <2>1, <2>3, <2>4
<1>2. \A n \in Nat, x \in Nat :
        step[<<n, x>>] = IF n < w THEN x + m[address + n] * Weight[n] ELSE x
  OBVIOUS
<1> HIDE DEF step
<1>3. \E f : Solution(Nat, 0, step, f)
  BY <1>1, Recursion
<1>4. PICK f \in [Nat -> Nat] : f[0] = 0 /\ \A n \in Nat : f[n + 1] = step[<<n, f[n]>>]
  BY <1>3 DEF Solution
<1>5. PICK g : g = [i \in 0 .. w |-> f[i]]
  OBVIOUS
<1>6. \A n \in Nat : n < w => g[n + 1] = g[n] + m[address + n] * Weight[n]
  <2> SUFFICES ASSUME NEW n \in Nat, n < w
               PROVE  g[n + 1] = g[n] + m[address + n] * Weight[n]
    OBVIOUS
  <2>1. n \in 0 .. w /\ n + 1 \in 0 .. w
    OBVIOUS
  <2>2. f[n + 1] = f[n] + m[address + n] * Weight[n]
    BY <1>2, <1>4
  <2> QED BY <1>5, <2>1, <2>2
<1>7. g \in [0 .. w -> Nat] /\ g[0] = 0
  BY <1>4, <1>5
<1>8. Solves(g)
  <2>1. ASSUME NEW i \in 0 .. w, i # 0
        PROVE  g[i] = g[i - 1] + m[address + i - 1] * Weight[i - 1]
    <3>1. PICK n \in Nat : n = i - 1 /\ i = n + 1 /\ n < w /\ address + i - 1 = address + n
      BY <2>1
    <3> QED BY <1>6, <3>1
  <2> QED BY <1>7, <2>1
<1>9. PICK value : value = CHOOSE h : Solves(h)
  OBVIOUS
<1>10. Solves(value)
  BY <1>8, <1>9
<1>11. vc_read_little_endian(m, address, w) = value[w]
  BY <1>9 DEF vc_read_little_endian
<1>12. DOMAIN value = 0 .. w /\ value[0] = 0 /\ value = [i \in 0 .. w |-> value[i]]
  BY <1>10
<1>13. \A n \in Nat : n < w => value[n + 1] = value[n] + m[address + n] * Weight[n]
  <2> SUFFICES ASSUME NEW n \in Nat, n < w
               PROVE  value[n + 1] = value[n] + m[address + n] * Weight[n]
    OBVIOUS
  <2>1. n + 1 \in 0 .. w /\ n + 1 # 0 /\ (n + 1) - 1 = n
        /\ address + (n + 1) - 1 = address + n
    OBVIOUS
  <2> QED BY <1>10, <2>1
<1>14. \A n \in Nat : n <= w => value[n] = g[n]
  <2> DEFINE T == {n \in Nat : n <= w => value[n] = g[n]}
  <2>1. 0 \in T
    BY <1>7, <1>12
  <2>2. ASSUME NEW n \in Nat, n \in T PROVE n + 1 \in T
    BY <1>6, <1>13, <2>2
  <2> HIDE DEF T
  <2>3. Nat \subseteq T
    BY <2>1, <2>2, Induction
  <2> QED BY <2>3 DEF T
<1>15. Places(m, address, w, g)
  BY <1>6, <1>7 DEF Places
<1>16. vc_read_little_endian(m, address, w) = g[w]
  BY <1>11, <1>14
<1> QED BY <1>15, <1>16

\* A read depends on the bytes that it reads alone, wherever they are.
Copied(n, to, m, from, w) == \A i \in Nat : i < w => n[to + i] = m[from + i]

LEMMA ReadMoved ==
  ASSUME NEW m, NEW n, NEW from \in Nat, NEW to \in Nat, NEW w \in Nat,
         Bytes(m, from, w), Copied(n, to, m, from, w)
  PROVE  vc_read_little_endian(n, to, w) = vc_read_little_endian(m, from, w)
<1>1. Bytes(n, to, w)
  BY DEF Bytes, Copied
<1>2. PICK u : Places(m, from, w, u) /\ vc_read_little_endian(m, from, w) = u[w]
  BY ReadPlaces
<1>3. PICK v : Places(n, to, w, v) /\ vc_read_little_endian(n, to, w) = v[w]
  BY <1>1, ReadPlaces
<1> DEFINE T == {i \in Nat : i <= w => v[i] = u[i]}
<1>4. 0 \in T
  BY <1>2, <1>3 DEF Places
<1>5. ASSUME NEW i \in Nat, i \in T PROVE i + 1 \in T
  <2> SUFFICES ASSUME i + 1 <= w PROVE v[i + 1] = u[i + 1]
    OBVIOUS
  <2>1. i < w /\ v[i] = u[i] /\ n[to + i] = m[from + i]
    BY <1>5 DEF Copied
  <2> QED BY <1>2, <1>3, <2>1 DEF Places
<1> HIDE DEF T
<1>6. w \in T
  BY <1>4, <1>5, Induction
<1> QED BY <1>2, <1>3, <1>6 DEF T

\* Two memories that agree on the bytes of a scalar agree on the scalar.
Agree(n, m, address, w) == \A i \in Nat : i < w => n[address + i] = m[address + i]

LEMMA ReadAgrees ==
  ASSUME NEW m, NEW n, NEW address \in Nat, NEW w \in Nat,
         Bytes(m, address, w), Agree(n, m, address, w)
  PROVE  vc_read_little_endian(n, address, w) = vc_read_little_endian(m, address, w)
<1>1. Copied(n, address, m, address, w)
  BY DEF Agree, Copied
<1> QED BY <1>1, ReadMoved

\* A read of so many bytes is less than the weight of the next.
LEMMA ReadBounded ==
  ASSUME NEW m, NEW address \in Nat, NEW w \in Nat, Bytes(m, address, w)
  PROVE  vc_read_little_endian(m, address, w) \in 0 .. Weight[w] - 1
<1>1. PICK v : Places(m, address, w, v) /\ vc_read_little_endian(m, address, w) = v[w]
  BY ReadPlaces
<1>2. v \in [0 .. w -> Nat]
  BY <1>1 DEF Places
<1> DEFINE T == {i \in Nat : i <= w => v[i] < Weight[i]}
<1>3. 0 \in T
  BY <1>1, WeightFacts DEF Places
<1>4. ASSUME NEW i \in Nat, i \in T PROVE i + 1 \in T
  <2> SUFFICES ASSUME i + 1 <= w PROVE v[i + 1] < Weight[i + 1]
    OBVIOUS
  <2>1. i < w /\ i \in 0 .. w /\ v[i] < Weight[i]
    BY <1>4
  <2>2. ByteBase \in Nat \ {0}
    BY SearchAssumption
  <2>3. PICK x \in Nat, b \in Nat, k \in Nat \ {0}, base \in Nat \ {0} :
          x = v[i] /\ b = m[address + i] /\ k = Weight[i] /\ base = ByteBase
          /\ x < k /\ b <= base - 1
    <3>1. v[i] \in Nat /\ Weight[i] \in Nat \ {0}
      BY <1>2, <2>1, WeightFacts
    <3>2. m[address + i] \in Nat /\ m[address + i] <= ByteBase - 1
      BY <2>1, <2>2 DEF Bytes
    <3> QED BY <2>1, <2>2, <3>1, <3>2
  <2>4. v[i + 1] = x + b * k /\ Weight[i + 1] = base * k
    BY <1>1, <2>1, <2>3, WeightFacts DEF Places
  <2>5. x + b * k < base * k
    <3>1. PICK d \in Nat : base = b + 1 + d
      <4>1. base - 1 - b \in Nat /\ base = b + 1 + (base - 1 - b)
        BY <2>3
      <4> QED BY <4>1
    <3>2. base * k = b * k + k + d * k
      BY <3>1
    <3>3. d * k \in Nat /\ b * k \in Nat
      OBVIOUS
    <3> QED BY <2>3, <3>2, <3>3
  <2> QED BY <2>4, <2>5
<1> HIDE DEF T
<1>5. v[w] < Weight[w]
  <2>1. w \in T
    BY <1>3, <1>4, Induction
  <2> QED BY <2>1 DEF T
<1>6. v[w] \in Nat /\ Weight[w] \in Nat
  BY <1>2, WeightFacts
<1> QED BY <1>1, <1>5, <1>6

-----------------------------------------------------------------------------
(***************************************************************************)
(* Which calls run.                                                        *)
(***************************************************************************)

BufferNames == {"current", "previous", "candidates", "out", "written", "total", "query"}

\* The buffers of a call are regions of the address space.
LEMMA RegionTypes ==
  ASSUME IsCall(call), call.written # 0
  PROVE  \A r \in BufferNames : region[r] \in Regions
<1>1. /\ {call.current, call.previous, call.candidates, call.query, call.out_offsets,
          call.written, call.total_matches, call.size, call.candidate_count,
          call.capacity} \subseteq 0 .. AddressMax
      /\ AddressMax \in Nat
  BY RangesAssumption DEF IsCall
<1>2. 1 \in 0 .. AddressMax
  BY <1>1
<1>3. \A n \in Nat : Product(n, OffsetBytes) \in 0 .. AddressMax
  <2> SUFFICES ASSUME NEW n \in Nat
               PROVE  (n * OffsetBytes) % (AddressMax + 1) \in 0 .. AddressMax
    BY DEF Product
  <2>1. PICK x \in Nat : x = n * OffsetBytes
    <3>1. OffsetBytes \in Nat
      BY SearchAssumption
    <3> QED BY <3>1
  <2>2. x % (AddressMax + 1) \in 0 .. AddressMax
    BY <1>1
  <2> QED BY <2>1, <2>2
<1>4. /\ Product(call.candidate_count, OffsetBytes) \in 0 .. AddressMax
      /\ Product(call.capacity, OffsetBytes) \in 0 .. AddressMax
  BY <1>1, <1>3
<1> QED BY <1>1, <1>2, <1>4 DEF Regions, region, BufferNames

\* A pair that a check covers is disjoint once the check is passed.
LEMMA CheckedDisjoint ==
  ASSUME IsCall(call), call.written # 0, NEW pairs, ~AnyOverlap(region, pairs),
         NEW r \in BufferNames, NEW s \in BufferNames, <<r, s>> \in pairs \/ <<s, r>> \in pairs
  PROVE  Cells(region[r]) \cap Cells(region[s]) = {}
<1>1. region[r] \in Regions /\ region[s] \in Regions
  BY RegionTypes
<1>2. \A p \in pairs : ~ranges_overlap(region[p[1]], region[p[2]])
  BY DEF AnyOverlap
<1>3. CASE <<r, s>> \in pairs
  <2>1. ~ranges_overlap(region[r], region[s])
    BY <1>2, <1>3
  <2> QED BY <1>1, <2>1, PassedRegionsAreDisjoint
<1>4. CASE <<s, r>> \in pairs
  <2>1. ~ranges_overlap(region[s], region[r])
    BY <1>2, <1>4
  <2> QED BY <1>1, <2>1, PassedRegionsAreDisjoint
<1> QED BY <1>3, <1>4

\* The two lists of checks leave out no pair: what Legal asks of a call is what
\* they look at.
LEMMA PairsCovered ==
  ASSUME IsCall(call), NEW r \in Outputs, NEW s \in Inputs \cup Outputs, r # s,
         ~(InPlace /\ r = "out" /\ s = "candidates")
  PROVE  \/ <<r, s>> \in CommonPairs \/ <<s, r>> \in CommonPairs
         \/ /\ call.function = "refine"
            /\ <<r, s>> \in RefinePairs \/ <<s, r>> \in RefinePairs
BY DEF Outputs, Inputs, CommonPairs, RefinePairs, PreviousPairs, InPlace

\* ...and they look at no pair that Legal does not ask about.
LEMMA PairsWanted ==
  ASSUME IsCall(call),
         NEW p \in CommonPairs \cup (IF call.function = "refine" THEN RefinePairs ELSE {})
  PROVE  \E r \in Outputs, s \in Inputs \cup Outputs :
           /\ r # s /\ ~(InPlace /\ r = "out" /\ s = "candidates")
           /\ p = <<r, s>> \/ p = <<s, r>>
BY DEF Outputs, Inputs, CommonPairs, RefinePairs, PreviousPairs, InPlace

LEMMA BuffersKnown == Inputs \cup Outputs \subseteq BufferNames
BY DEF Inputs, Outputs, BufferNames

\* The candidates are in the memory of the caller.
LEMMA CandidateBytes ==
  ASSUME IsCall(call), Holds(before, call), call.candidates # 0,
         NEW i \in Nat, i < call.candidate_count
  PROVE  /\ call.candidates + i * OffsetBytes \in Nat /\ OffsetBytes \in Nat
         /\ Bytes(before, call.candidates + i * OffsetBytes, OffsetBytes)
         /\ OffsetAt(before, call.candidates, i) \in Nat
<1>1. call.candidates \in Nat /\ call.candidate_count \in Nat /\ OffsetBytes \in Nat
  BY Arguments, RangesAssumption, SearchAssumption
<1>2. PICK skip \in Nat, all \in Nat :
        /\ skip = i * OffsetBytes /\ all = call.candidate_count * OffsetBytes
        /\ skip + OffsetBytes <= all
  <2>1. i * OffsetBytes + OffsetBytes <= call.candidate_count * OffsetBytes
    BY <1>1, ElementsApart
  <2>2. i * OffsetBytes \in Nat /\ call.candidate_count * OffsetBytes \in Nat
    BY <1>1
  <2> QED BY <2>1, <2>2
<1>3. /\ Cells(<<call.candidates, all>>) \subseteq DOMAIN before
      /\ \A a \in DOMAIN before : before[a] \in 0 .. ByteBase - 1
  BY <1>2 DEF Holds
<1>4. ASSUME NEW k \in Nat, k < OffsetBytes
      PROVE  before[(call.candidates + skip) + k] \in 0 .. ByteBase - 1
  <2>1. (call.candidates + skip) + k \in Cells(<<call.candidates, all>>)
    BY <1>1, <1>2, <1>4, CellOf
  <2> QED BY <1>3, <2>1
<1>5. Bytes(before, call.candidates + skip, OffsetBytes) /\ call.candidates + skip \in Nat
  BY <1>1, <1>2, <1>4 DEF Bytes
<1>6. OffsetAt(before, call.candidates, i) \in Nat
  <2>1. vc_read_little_endian(before, call.candidates + skip, OffsetBytes)
          \in 0 .. Weight[OffsetBytes] - 1
    BY <1>1, <1>5, ReadBounded
  <2>2. vc_read_little_endian(before, call.candidates + skip, OffsetBytes) \in Nat
    BY <2>1
  <2> QED BY <1>2, <2>2 DEF OffsetAt
<1> QED BY <1>1, <1>2, <1>5, <1>6

\* Neighbours that ascend make a list that does.
LEMMA Ascending ==
  ASSUME NEW n \in Nat, NEW f \in [Nat -> Nat],
         \A i \in Nat : i + 1 < n => f[i] < f[i + 1]
  PROVE  \A i \in Nat : i < n => \A j \in Nat : j < i => f[j] < f[i]
<1> DEFINE T == {i \in Nat : i < n => \A j \in Nat : j < i => f[j] < f[i]}
<1>1. 0 \in T
  OBVIOUS
<1>2. ASSUME NEW i \in Nat, i \in T PROVE i + 1 \in T
  <2> SUFFICES ASSUME i + 1 < n, NEW j \in Nat, j < i + 1 PROVE f[j] < f[i + 1]
    OBVIOUS
  <2>1. f[i] < f[i + 1]
    OBVIOUS
  <2>2. j = i \/ f[j] < f[i]
    BY <1>2
  <2> QED BY <2>1, <2>2
<1> HIDE DEF T
<1>3. Nat \subseteq T
  BY <1>1, <1>2, Induction
<1> QED BY <1>3 DEF T

\* vc_validate_candidates, which compares neighbours and avoids the
\* subtraction that could wrap, decides whether the candidates are legal.
LEMMA CandidatesDecided ==
  ASSUME IsCall(call), memory = before, Holds(before, call),
         call.function = "refine", width \in {1, 2, 4}
  PROVE  vc_validate_candidates = "OK" <=> CandidatesLegal
<1>1. call.candidate_count \in Nat /\ call.size \in Nat
  BY Arguments, RangesAssumption
<1>2. CASE call.candidate_count = 0
  <2>1. 0 .. call.candidate_count - 1 = {}
    BY <1>2
  <2> QED BY <1>2, <2>1 DEF vc_validate_candidates, CandidatesLegal
<1>3. CASE call.candidate_count # 0 /\ call.candidates = 0
  BY <1>3 DEF vc_validate_candidates, CandidatesLegal
<1>4. CASE call.candidate_count # 0 /\ call.candidates # 0
  <2> DEFINE f == [i \in Nat |-> IF i < call.candidate_count
                                 THEN OffsetAt(before, call.candidates, i) ELSE 0]
  <2>1. /\ f \in [Nat -> Nat]
        /\ \A i \in Nat : i < call.candidate_count =>
             f[i] = OffsetAt(before, call.candidates, i)
    BY <1>4, CandidateBytes
  <2> HIDE DEF f
  <2>2. vc_validate_candidates = "OK" <=>
          \A i \in Nat : i < call.candidate_count =>
            /\ i # 0 => f[i - 1] < f[i]
            /\ f[i] + width <= call.size
    <3>1. vc_validate_candidates = "OK" <=>
            \A i \in 0 .. call.candidate_count - 1 :
              ~(\/ i # 0 /\ OffsetAt(before, call.candidates, i - 1)
                              >= OffsetAt(before, call.candidates, i)
                \/ OffsetAt(before, call.candidates, i) > call.size
                \/ width > call.size - OffsetAt(before, call.candidates, i))
      BY <1>4 DEF vc_validate_candidates
    <3>2. ASSUME NEW i \in Nat, i < call.candidate_count
          PROVE  (\/ i # 0 /\ OffsetAt(before, call.candidates, i - 1)
                                >= OffsetAt(before, call.candidates, i)
                  \/ OffsetAt(before, call.candidates, i) > call.size
                  \/ width > call.size - OffsetAt(before, call.candidates, i))
                   <=> ~(/\ i # 0 => f[i - 1] < f[i]
                         /\ f[i] + width <= call.size)
      <4>1. f[i] = OffsetAt(before, call.candidates, i) /\ f[i] \in Nat
        BY <2>1, <3>2
      <4>2. i # 0 => f[i - 1] = OffsetAt(before, call.candidates, i - 1) /\ f[i - 1] \in Nat
        <5>1. i # 0 => i - 1 \in Nat /\ i - 1 < call.candidate_count
          BY <1>1, <3>2
        <5> QED BY <2>1, <5>1
      <4> QED BY <1>1, <4>1, <4>2
    <3>3. \A i : i \in 0 .. call.candidate_count - 1 <=> i \in Nat /\ i < call.candidate_count
      BY <1>1
    <3> QED BY <3>1, <3>2, <3>3
  <2>3. CandidatesLegal <=>
          \A i \in Nat : i < call.candidate_count =>
            /\ f[i] + width <= call.size
            /\ \A j \in Nat : j < i => f[j] < f[i]
    <3>1. CandidatesLegal <=>
            \A i \in 0 .. call.candidate_count - 1 :
              /\ OffsetAt(before, call.candidates, i) <= call.size - width
              /\ \A j \in 0 .. i - 1 :
                   OffsetAt(before, call.candidates, j) < OffsetAt(before, call.candidates, i)
      BY <1>4 DEF CandidatesLegal
    <3>2. ASSUME NEW i \in Nat, i < call.candidate_count
          PROVE  /\ OffsetAt(before, call.candidates, i) <= call.size - width
                      <=> f[i] + width <= call.size
                 /\ (\A j \in 0 .. i - 1 : OffsetAt(before, call.candidates, j)
                                             < OffsetAt(before, call.candidates, i))
                      <=> \A j \in Nat : j < i => f[j] < f[i]
      <4>1. f[i] = OffsetAt(before, call.candidates, i) /\ f[i] \in Nat
        BY <2>1, <3>2
      <4>2. \A j \in Nat : j < i => f[j] = OffsetAt(before, call.candidates, j)
        BY <1>1, <2>1, <3>2
      <4>3. \A j : j \in 0 .. i - 1 <=> j \in Nat /\ j < i
        OBVIOUS
      <4>4. OffsetAt(before, call.candidates, i) <= call.size - width
              <=> f[i] + width <= call.size
        BY <1>1, <4>1
      <4> QED BY <4>1, <4>2, <4>3, <4>4
    <3>3. \A i : i \in 0 .. call.candidate_count - 1 <=> i \in Nat /\ i < call.candidate_count
      BY <1>1
    <3> QED BY <3>1, <3>2, <3>3
  <2>4. ASSUME \A i \in Nat : i < call.candidate_count => (i # 0 => f[i - 1] < f[i])
        PROVE  \A i \in Nat : i < call.candidate_count => \A j \in Nat : j < i => f[j] < f[i]
    <3>1. \A i \in Nat : i + 1 < call.candidate_count => f[i] < f[i + 1]
      <4> SUFFICES ASSUME NEW i \in Nat, i + 1 < call.candidate_count PROVE f[i] < f[i + 1]
        OBVIOUS
      <4>1. i + 1 \in Nat /\ i + 1 # 0 /\ (i + 1) - 1 = i
        OBVIOUS
      <4> QED BY <2>4, <4>1
    <3> QED BY <1>1, <2>1, <3>1, Ascending
  <2>5. ASSUME \A i \in Nat : i < call.candidate_count => \A j \in Nat : j < i => f[j] < f[i]
        PROVE  \A i \in Nat : i < call.candidate_count => (i # 0 => f[i - 1] < f[i])
    <3> SUFFICES ASSUME NEW i \in Nat, i < call.candidate_count, i # 0 PROVE f[i - 1] < f[i]
      OBVIOUS
    <3>1. i - 1 \in Nat /\ i - 1 < i
      OBVIOUS
    <3> QED BY <2>5, <3>1
  <2> QED BY <2>2, <2>3, <2>4, <2>5
<1> QED BY <1>2, <1>3, <1>4

\* A type is known exactly when it has a width.
LEMMA WidthTypes ==
  /\ width # 0 <=> call.type \in Types
  /\ width # 0 => width \in {1, 2, 4}
BY DEF width, vc_scalar_width, Types

\* A call that passes every check keeps to the contract.
LEMMA AcceptedLegal ==
  ASSUME IsCall(call), memory = before, Holds(before, call), EntryStatus = "OK"
  PROVE  Legal /\ CandidatesLegal
<1>1. /\ call.function \in {"initial", "refine"}
      /\ call.function = "initial" => InitialStatus = "OK"
      /\ call.function = "refine" => RefineStatus = "OK"
  BY Arguments DEF EntryStatus
<1>2. vc_validate_common = "OK"
  BY <1>1 DEF InitialStatus, RefineStatus
<1>3. /\ ArgumentsPresent /\ QueryValid /\ ProductFits(call.capacity, OffsetBytes)
      /\ ~AnyOverlap(region, CommonPairs)
  BY <1>2 DEF vc_validate_common
<1>4. call.function = "refine" =>
        /\ call.size # 0 => call.previous # 0
        /\ vc_validate_candidates = "OK"
        /\ ~AnyOverlap(region, RefinePairs)
  BY <1>1 DEF RefineStatus
<1>5. CandidatesLegal
  <2>1. call.function = "refine" => vc_validate_candidates = "OK" /\ width \in {1, 2, 4}
    BY <1>3, <1>4, WidthTypes DEF QueryValid
  <2>2. CASE call.function = "refine"
    BY <2>1, <2>2, CandidatesDecided
  <2>3. CASE call.function # "refine"
    BY <2>3 DEF CandidatesLegal
  <2> QED BY <2>2, <2>3
<1>6. ASSUME NEW r \in Outputs, NEW s \in Inputs \cup Outputs
      PROVE  \/ r = s
             \/ InPlace /\ r = "out" /\ s = "candidates"
             \/ Cells(region[r]) \cap Cells(region[s]) = {}
  <2> SUFFICES ASSUME r # s, ~(InPlace /\ r = "out" /\ s = "candidates")
               PROVE  Cells(region[r]) \cap Cells(region[s]) = {}
    OBVIOUS
  <2>1. r \in BufferNames /\ s \in BufferNames /\ call.written # 0
    BY <1>3, BuffersKnown DEF ArgumentsPresent
  <2>2. CASE <<r, s>> \in CommonPairs \/ <<s, r>> \in CommonPairs
    BY <1>3, <2>1, <2>2, CheckedDisjoint
  <2>3. CASE /\ call.function = "refine"
             /\ <<r, s>> \in RefinePairs \/ <<s, r>> \in RefinePairs
    BY <1>4, <2>1, <2>3, CheckedDisjoint
  <2> QED BY <2>2, <2>3, PairsCovered
<1>7. /\ call.written # 0 /\ call.total_matches # 0 /\ call.query # 0
      /\ call.size # 0 => call.current # 0
      /\ call.capacity # 0 => call.out_offsets # 0
      /\ call.size <= Weight[OffsetBytes]
  BY <1>3 DEF ArgumentsPresent, vc_size_is_representable
<1>8. call.capacity * OffsetBytes <= AddressMax
  BY <1>3 DEF ProductFits
<1>9. /\ call.type \in Types /\ call.stride # 0
      /\ call.relation \in IF call.function = "refine" THEN Relations
                           ELSE {"EQUAL", "NOT_EQUAL"}
  <2>1. call.function = "initial" => call.relation \in {"EQUAL", "NOT_EQUAL"}
    BY <1>1 DEF InitialStatus
  <2> QED BY <1>1, <1>3, <2>1, WidthTypes DEF QueryValid
<1> QED BY <1>4, <1>5, <1>6, <1>7, <1>8, <1>9 DEF Legal

\* A call that keeps to the contract passes every check, unless one of its
\* buffers ends at the top of the address space.
LEMMA LegalAccepted ==
  ASSUME IsCall(call), memory = before, Holds(before, call),
         Legal, CandidatesLegal, \A r \in Inputs \cup Outputs : BelowTop(region[r])
  PROVE  EntryStatus = "OK"
<1>1. ArgumentsPresent
  BY DEF Legal, ArgumentsPresent, vc_size_is_representable
<1>2. QueryValid /\ width \in {1, 2, 4}
  <2>1. width # 0
    BY WidthTypes DEF Legal
  <2>2. call.relation \in Relations
    BY DEF Legal, Relations
  <2> QED BY <2>1, <2>2, WidthTypes DEF QueryValid, Legal
<1>3. ASSUME NEW p \in CommonPairs \cup (IF call.function = "refine" THEN RefinePairs ELSE {})
      PROVE  ~ranges_overlap(region[p[1]], region[p[2]])
  <2>1. PICK r \in Outputs, s \in Inputs \cup Outputs :
          /\ r # s /\ ~(InPlace /\ r = "out" /\ s = "candidates")
          /\ p = <<r, s>> \/ p = <<s, r>>
    BY <1>3, PairsWanted
  <2>2. Cells(region[r]) \cap Cells(region[s]) = {}
    BY <2>1 DEF Legal
  <2>3. /\ region[r] \in Regions /\ region[s] \in Regions
        /\ BelowTop(region[r]) /\ BelowTop(region[s])
    BY BuffersKnown, RegionTypes DEF Legal
  <2>4. ~ranges_overlap(region[r], region[s]) /\ ~ranges_overlap(region[s], region[r])
    BY <2>2, <2>3, DisjointRegionsPass
  <2> QED BY <2>1, <2>4
<1>4. ~AnyOverlap(region, CommonPairs)
  BY <1>3 DEF AnyOverlap
<1>5. ProductFits(call.capacity, OffsetBytes)
  BY DEF Legal, ProductFits
<1>6. vc_validate_common = "OK"
  BY <1>1, <1>2, <1>4, <1>5 DEF vc_validate_common
<1>7. CASE call.function = "initial"
  BY <1>6, <1>7 DEF EntryStatus, InitialStatus, Legal
<1>8. CASE call.function = "refine"
  <2>1. vc_validate_candidates = "OK"
    BY <1>2, <1>8, CandidatesDecided
  <2>2. call.size # 0 => call.previous # 0
    BY <1>8 DEF Legal
  <2>3. ~AnyOverlap(region, RefinePairs)
    BY <1>3, <1>8 DEF AnyOverlap
  <2>4. ProductFits(call.candidate_count, OffsetBytes)
    <3>1. /\ call.candidates \in Nat /\ call.candidate_count \in Nat /\ OffsetBytes \in Nat
          /\ AddressMax \in Nat
      BY Arguments, RangesAssumption, SearchAssumption
    <3>2. PICK all \in Nat : all = call.candidate_count * OffsetBytes
      BY <3>1
    <3>3. CASE call.candidate_count = 0
      BY <3>1, <3>3 DEF ProductFits
    <3>4. CASE all = 0
      BY <3>1, <3>2, <3>4 DEF ProductFits
    <3>5. CASE call.candidate_count # 0 /\ all # 0
      <4>1. call.candidates # 0
        BY <1>8, <3>5 DEF CandidatesLegal
      <4>2. Cells(<<call.candidates, all>>) \subseteq 1 .. AddressMax
        BY <3>2 DEF Holds
      <4>3. (call.candidates + all) - 1 \in Cells(<<call.candidates, all>>)
        BY <3>1, <3>2, <3>5, <4>1, CellOf
      <4>4. (call.candidates + all) - 1 <= AddressMax
        BY <4>2, <4>3
      <4>5. all <= AddressMax
        BY <3>1, <3>2, <4>1, <4>4
      <4> QED BY <3>2, <4>5 DEF ProductFits
    <3> QED BY <3>3, <3>4, <3>5
  <2> QED BY <1>6, <1>8, <2>1, <2>2, <2>3, <2>4 DEF EntryStatus, RefineStatus
<1> QED BY <1>7, <1>8, Arguments

-----------------------------------------------------------------------------
\* What a call decides at entry it decides about the memory it was given.
Decision ==
  /\ IsCall(call) /\ Holds(before, call)
  /\ pc = "entry" => memory = before /\ status = "NONE"
  /\ RunsExactlyWhenLegal

LEMMA BegunDecision == Begun => Decision
BY DEF Begun, Decision, RunsExactlyWhenLegal

LEMMA DecisionStep == Decision /\ [Next]_vars => Decision'
<1> SUFFICES ASSUME Decision, [Next]_vars
             PROVE  Decision'
  OBVIOUS
<1>1. call' = call /\ before' = before
  BY DEF Next, Refuse, Accept, Scan, Refine, Return, vars
<1>2. /\ Legal' = Legal /\ CandidatesLegal' = CandidatesLegal
      /\ (\E r \in Inputs \cup Outputs : ~BelowTop(region[r]))'
           = (\E r \in Inputs \cup Outputs : ~BelowTop(region[r]))
  BY <1>1 DEF Legal, CandidatesLegal, Inputs, Outputs, region, InPlace, width
<1>3. CASE Refuse
  <2>1. /\ pc = "entry" /\ pc' = "done" /\ EntryStatus # "OK" /\ status' = EntryStatus
    BY <1>3 DEF Refuse
  <2>2. status' \notin {"OK", "TRUNCATED"}
    BY <2>1 DEF EntryStatus, InitialStatus, RefineStatus, vc_validate_common,
                vc_validate_candidates
  <2>3. ~Accepted'
    BY <2>1, <2>2 DEF Accepted, Running
  <2>4. ~(/\ Legal /\ CandidatesLegal
          /\ \A r \in Inputs \cup Outputs : BelowTop(region[r]))
    BY <2>1, LegalAccepted DEF Decision
  <2> QED BY <1>1, <1>2, <2>1, <2>3, <2>4 DEF Decision, RunsExactlyWhenLegal
<1>4. CASE Accept
  <2>1. pc = "entry" /\ pc' \in {"scanning", "refining", "returning"} /\ EntryStatus = "OK"
    BY <1>4 DEF Accept
  <2>2. Accepted' /\ pc' # "entry"
    BY <2>1 DEF Accepted, Running
  <2>3. Legal /\ CandidatesLegal
    BY <2>1, AcceptedLegal DEF Decision
  <2> QED BY <1>1, <1>2, <2>2, <2>3 DEF Decision, RunsExactlyWhenLegal
<1>5. CASE Scan \/ Refine \/ Return
  <2>1. pc \in {"scanning", "refining", "returning"}
    BY <1>5 DEF Scan, Refine, Return
  <2>2. \/ pc' \in {"scanning", "refining", "returning"}
        \/ pc' = "done" /\ status' \in {"OK", "TRUNCATED"}
    BY <1>5 DEF Scan, Refine, Return
  <2>3. Accepted /\ Accepted' /\ pc # "entry" /\ pc' # "entry"
    BY <2>1, <2>2 DEF Accepted, Running
  <2> QED BY <1>1, <1>2, <2>3 DEF Decision, RunsExactlyWhenLegal
<1>6. CASE UNCHANGED vars
  <2>1. /\ pc' = pc /\ status' = status /\ memory' = memory
        /\ Accepted' = Accepted
    BY <1>6 DEF vars, Accepted, Running
  <2> QED BY <1>1, <1>2, <2>1 DEF Decision, RunsExactlyWhenLegal
<1> QED BY <1>3, <1>4, <1>5, <1>6 DEF Next

\* A call runs exactly when the caller kept to the contract of search.h: the
\* checks of vc_validate_common, vc_validate_candidates and vc_search_refine
\* forget no pair of buffers and refuse no legal layout that ends below the top
\* of the address space.
THEOREM SearchKeepsContract == Spec => []RunsExactlyWhenLegal
<1>1. Decision => RunsExactlyWhenLegal
  BY DEF Decision
<1> QED BY <1>1, InitBegun, BegunDecision, DecisionStep, PTL DEF Spec

-----------------------------------------------------------------------------
(***************************************************************************)
(* Remainders.                                                             *)
(***************************************************************************)

\* A remainder is determined by its bounds.
LEMMA RemainderUnique ==
  ASSUME NEW x \in Nat, NEW n \in Nat \ {0}, NEW q \in Nat, NEW r \in Nat,
         x = q * n + r, r < n
  PROVE  x % n = r
<1>1. PICK p \in Nat, s \in Nat : p = x \div n /\ s = x % n /\ x = n * p + s /\ s < n
  OBVIOUS
<1>2. ASSUME NEW a \in Nat, NEW b \in Nat, NEW c \in Nat, NEW d \in Nat,
             a * n + c = b * n + d, c < n, d < n, a < b
      PROVE  FALSE
  <2>1. PICK e \in Nat : b = a + 1 + e
    <3>1. b - a - 1 \in Nat /\ b = a + 1 + (b - a - 1)
      BY <1>2
    <3> QED BY <3>1
  <2>2. b * n = a * n + n + e * n
    BY <2>1
  <2>3. e * n \in Nat /\ a * n \in Nat
    OBVIOUS
  <2> QED BY <1>2, <2>2, <2>3
<1>3. p * n + s = q * n + r
  BY <1>1
<1>4. p = q
  BY <1>1, <1>2, <1>3
<1> QED BY <1>1, <1>3, <1>4

\* One more digit of a number.
LowDigits(x, n) == x % n

\* Digits are remainders, lowest first.
LEMMA DigitStep ==
  ASSUME NEW x \in Nat, NEW n \in Nat \ {0}, NEW b \in Nat \ {0}
  PROVE  LowDigits(x, b * n) = LowDigits(x, n) + ((x \div n) % b) * n
<1>1. PICK q \in Nat, r \in Nat : q = x \div n /\ r = x % n /\ x = n * q + r /\ r < n
  OBVIOUS
<1>2. PICK p \in Nat, s \in Nat : s = q % b /\ q = b * p + s /\ s < b
  <2>1. q \div b \in Nat /\ q % b \in Nat /\ q = b * (q \div b) + (q % b) /\ q % b < b
    OBVIOUS
  <2> QED BY <2>1
<1>3. x = p * (b * n) + (s * n + r)
  <2>1. n * (b * p + s) = p * (b * n) + s * n
    OBVIOUS
  <2>2. x = n * (b * p + s) + r
    BY <1>1, <1>2
  <2>3. s * n \in Nat /\ p * (b * n) \in Nat
    OBVIOUS
  <2> QED BY <2>1, <2>2, <2>3
<1>4. s * n + r < b * n
  <2>1. PICK d \in Nat : b = s + 1 + d
    <3>1. b - s - 1 \in Nat /\ b = s + 1 + (b - s - 1)
      BY <1>2
    <3> QED BY <3>1
  <2>2. b * n = s * n + n + d * n
    BY <2>1
  <2>3. s * n \in Nat /\ d * n \in Nat
    OBVIOUS
  <2> QED BY <1>1, <2>2, <2>3
<1>5. b * n \in Nat \ {0} /\ s * n + r \in Nat
  OBVIOUS
<1>6. x % (b * n) = s * n + r
  <2>1. PICK m \in Nat \ {0}, t \in Nat : m = b * n /\ t = s * n + r
    BY <1>5
  <2>2. x = p * m + t /\ t < m
    BY <1>3, <1>4, <2>1
  <2>3. x % m = t
    BY <2>2, RemainderUnique
  <2> QED BY <2>1, <2>3
<1> QED BY <1>1, <1>2, <1>6 DEF LowDigits

LEMMA Divisible ==
  ASSUME NEW n \in Nat \ {0}, NEW x \in Int, x % n = 0
  PROVE  \E q \in Int : x = n * q
OBVIOUS

\* Two numbers congruent to a third that are less than the modulus apart.
LEMMA CongruentEqual ==
  ASSUME NEW n \in Nat \ {0}, NEW x \in Int, NEW y \in Int, NEW z \in Int,
         (x - z) % n = 0, (y - z) % n = 0, x - y < n, y - x < n
  PROVE  x = y
<1>1. PICK p \in Int, q \in Int : x - z = n * p /\ y - z = n * q
  OBVIOUS
<1>2. PICK e \in Int : e = p - q
  OBVIOUS
<1>3. x - y = n * e
  BY <1>1, <1>2
<1> QED BY <1>3

\* Remainders that the solver does not find by itself.
LEMMA SmallRemainder ==
  ASSUME NEW x \in Nat, NEW n \in Nat \ {0}, x < n
  PROVE  x % n = x
OBVIOUS

LEMMA NegatedModulus ==
  ASSUME NEW n \in Nat \ {0}
  PROVE  (-n) % n = 0
OBVIOUS

-----------------------------------------------------------------------------
(***************************************************************************)
(* The numbers that bytes mean, and the relations between them.            *)
(***************************************************************************)

\* Half of a weight is a number: where the sign of a value changes.
LEMMA WeightEven ==
  ASSUME NEW w \in Nat, w # 0
  PROVE  \E h \in Nat \ {0} : Weight[w] = 2 * h
<1>1. PICK n \in Nat : w = n + 1
  <2>1. w - 1 \in Nat /\ w = (w - 1) + 1
    OBVIOUS
  <2> QED BY <2>1
<1>2. PICK half \in Nat \ {0} : ByteBase = 2 * half
  <2>1. ByteBase \div 2 \in Nat \ {0} /\ ByteBase = 2 * (ByteBase \div 2)
    BY SearchAssumption
  <2> QED BY <2>1
<1>3. PICK k \in Nat \ {0} : k = Weight[n]
  BY WeightFacts
<1>4. Weight[w] = ByteBase * Weight[n]
  BY <1>1, WeightFacts
<1>5. half * k \in Nat \ {0} /\ (2 * half) * k = 2 * (half * k)
  OBVIOUS
<1> QED BY <1>2, <1>3, <1>4, <1>5

\* The scalar that ValueOf chooses is the only one that qualifies.
LEMMA ValueUnique ==
  ASSUME IsCall(call), width \in {1, 2, 4}, NEW address, NEW v \in Int,
         NEW r \in Nat, r = vc_read_little_endian(before, address, width),
         NEW low \in Int,
         low = IF call.type \in {"S8", "S16", "S32"} THEN -(Weight[width] \div 2) ELSE 0,
         low <= v, v <= low + Weight[width] - 1, (v - r) % Weight[width] = 0
  PROVE  ValueOf(address) = v
<1>1. PICK n \in Nat \ {0} : n = Weight[width]
  BY WeightFacts
<1>2. ValueOf(address) = CHOOSE u \in low .. low + n - 1 : (u - r) % n = 0
  BY <1>1 DEF ValueOf
<1>3. v \in low .. low + n - 1 /\ (v - r) % n = 0
  BY <1>1
<1>4. ASSUME NEW u \in low .. low + n - 1, (u - r) % n = 0 PROVE u = v
  <2>1. u \in Int /\ v \in Int /\ r \in Int /\ u - v < n /\ v - u < n
    BY <1>3
  <2>2. (u - r) % n = 0 /\ (v - r) % n = 0
    BY <1>3, <1>4
  <2> QED BY <2>1, <2>2, CongruentEqual
<1> QED BY <1>2, <1>3, <1>4

\* The bytes of a scalar, read as the type has it, are the number it means.
LEMMA ValueRead ==
  ASSUME IsCall(call), width \in {1, 2, 4}, NEW address,
         NEW r \in 0 .. Weight[width] - 1, r = vc_read_little_endian(before, address, width)
  PROVE  /\ ValueOf(address) = IF call.type \in {"S8", "S16", "S32"}
                               THEN vc_signed_value(r, width) ELSE r
         /\ ValueOf(address) \in Int
         /\ (ValueOf(address) - r) % Weight[width] = 0
<1>1. PICK h \in Nat \ {0}, n \in Nat \ {0} : n = Weight[width] /\ n = 2 * h
  BY WeightEven, WeightFacts
<1>2. n \div 2 = h /\ r \in 0 .. n - 1 /\ r % n = r
  BY <1>1, SmallRemainder
<1>3. CASE call.type \in {"S8", "S16", "S32"} /\ r >= h
  <2>1. vc_signed_value(r, width) = -(((n - 1) - r) + 1)
    BY <1>1, <1>2, <1>3 DEF vc_signed_value, Masked
  <2>2. PICK v \in Int : v = r - n
    BY <1>2
  <2>3. vc_signed_value(r, width) = v
    BY <1>2, <2>1, <2>2
  <2>4. (v - r) % n = 0
    <3>1. v - r = -n
      BY <1>2, <2>2
    <3> QED BY <3>1, NegatedModulus
  <2>5. -h <= v /\ v <= -h + n - 1
    BY <1>1, <1>2, <1>3, <2>2
  <2>6. ValueOf(address) = v
    BY <1>1, <1>2, <1>3, <2>4, <2>5, ValueUnique
  <2> QED BY <1>1, <1>3, <2>3, <2>4, <2>6
<1>4. CASE call.type \in {"S8", "S16", "S32"} /\ r < h
  <2>1. vc_signed_value(r, width) = r
    BY <1>1, <1>2, <1>4 DEF vc_signed_value, Masked
  <2>2. (r - r) % n = 0 /\ -h <= r /\ r <= -h + n - 1
    BY <1>1, <1>2, <1>4
  <2>3. ValueOf(address) = r
    BY <1>1, <1>2, <1>4, <2>2, ValueUnique
  <2> QED BY <1>1, <1>4, <2>1, <2>2, <2>3
<1>5. CASE call.type \notin {"S8", "S16", "S32"}
  <2>1. (r - r) % n = 0 /\ 0 <= r /\ r <= 0 + n - 1
    BY <1>1, <1>2
  <2>2. ValueOf(address) = r
    BY <1>1, <1>2, <1>5, <2>1, ValueUnique
  <2> QED BY <1>1, <1>5, <2>1, <2>2
<1> QED BY <1>2, <1>3, <1>4, <1>5

Congruent(x, y, n) == (x - y) % n = 0

\* A value and its bits are congruent.
LEMMA CongruenceShift ==
  ASSUME NEW n \in Nat \ {0}, NEW v \in Int, NEW c \in Int, NEW x \in Int,
         Congruent(v, c, n)
  PROVE  Congruent(v, x, n) <=> Congruent(c, x, n)
<1>1. PICK q \in Int : v - c = n * q
  BY DEF Congruent
<1>2. ASSUME (c - x) % n = 0 PROVE (v - x) % n = 0
  <2>1. PICK p \in Int : c - x = n * p
    <3>1. c - x \in Int
      OBVIOUS
    <3> QED BY <1>2, <3>1, Divisible
  <2>2. PICK e \in Int : e = p + q
    OBVIOUS
  <2>3. v - x = n * e
    BY <1>1, <2>1, <2>2
  <2> QED BY <2>3
<1>3. ASSUME (v - x) % n = 0 PROVE (c - x) % n = 0
  <2>1. PICK p \in Int : v - x = n * p
    <3>1. v - x \in Int
      OBVIOUS
    <3> QED BY <1>3, <3>1, Divisible
  <2>2. PICK e \in Int : e = p - q
    OBVIOUS
  <2>3. c - x = n * e
    BY <1>1, <2>1, <2>2
  <2> QED BY <2>3
<1> QED BY <1>2, <1>3 DEF Congruent

\* So bits are equal when the values are congruent.
LEMMA CongruenceDecides ==
  ASSUME NEW n \in Nat \ {0}, NEW c \in 0 .. n - 1, NEW x \in Nat
  PROVE  (c - x) % n = 0 <=> c = x % n
<1>1. PICK q \in Int, r \in 0 .. n - 1 : q = x \div n /\ r = x % n /\ x = n * q + r
  OBVIOUS
<1>2. ASSUME c = r PROVE (c - x) % n = 0
  <2>1. PICK e \in Int : e = -q
    OBVIOUS
  <2>2. c - x = n * e
    BY <1>1, <1>2, <2>1
  <2> QED BY <2>2
<1>3. ASSUME (c - x) % n = 0 PROVE c = r
  <2>1. c \in Int /\ x \in Int /\ r \in Int /\ c - r < n /\ r - c < n
    OBVIOUS
  <2>2. (r - x) % n = 0
    <3>1. PICK e \in Int : e = -q
      OBVIOUS
    <3>2. r - x = n * e
      BY <1>1, <3>1
    <3> QED BY <3>2
  <2> QED BY <1>3, <2>1, <2>2, CongruentEqual
<1> QED BY <1>1, <1>2, <1>3

\* The comparison of the code decides the relation between the numbers.
LEMMA MatchesSatisfies ==
  ASSUME IsCall(call), width \in {1, 2, 4}, call.relation \in Relations, NEW offset,
         NEW c \in 0 .. Weight[width] - 1, NEW p \in 0 .. Weight[width] - 1,
         c = vc_read_little_endian(before, call.current + offset, width),
         \/ call.relation \in {"EQUAL", "NOT_EQUAL"}
         \/ p = vc_read_little_endian(before, call.previous + offset, width)
  PROVE  Matches(p, c) <=> Satisfies(offset)
<1>1. PICK n \in Nat \ {0} : n = Weight[width]
  BY WeightFacts
<1>2. c \in 0 .. n - 1 /\ p \in 0 .. n - 1 /\ c % n = c /\ p % n = p
  BY <1>1, SmallRemainder
<1>7. c \in Int /\ p \in Int
  BY <1>2
<1>3. PICK x \in Nat : x = call.value_bits
  BY DEF IsCall
<1>4. PICK v \in Int :
        /\ v = ValueOf(call.current + offset) /\ (v - c) % n = 0
        /\ v = IF call.type \in {"S8", "S16", "S32"} THEN vc_signed_value(c, width) ELSE c
  BY <1>1, ValueRead
<1>5. CASE call.relation \in {"EQUAL", "NOT_EQUAL"}
  <2>1. (v - x) % n = 0 <=> c = x % n
    <3>1. (v - x) % n = 0 <=> (c - x) % n = 0
      <4>1. Congruent(v, c, n)
        BY <1>4 DEF Congruent
      <4>2. Congruent(v, x, n) <=> Congruent(c, x, n)
        BY <1>7, <4>1, CongruenceShift
      <4> QED BY <4>2 DEF Congruent
    <3>2. (c - x) % n = 0 <=> c = x % n
      BY <1>2, <1>3, CongruenceDecides
    <3> QED BY <3>1, <3>2
  <2>2. call.relation = "EQUAL" => (Matches(p, c) <=> c = x % n)
    BY <1>1, <1>2, <1>3 DEF Matches, vc_matches, Masked
  <2>3. call.relation = "NOT_EQUAL" => (Matches(p, c) <=> c # x % n)
    BY <1>1, <1>2, <1>3 DEF Matches, vc_matches, Masked
  <2>4. call.relation = "EQUAL" => (Satisfies(offset) <=> (v - x) % n = 0)
    BY <1>1, <1>3, <1>4 DEF Satisfies
  <2>5. call.relation = "NOT_EQUAL" => (Satisfies(offset) <=> (v - x) % n # 0)
    BY <1>1, <1>3, <1>4 DEF Satisfies
  <2> QED BY <1>5, <2>1, <2>2, <2>3, <2>4, <2>5
<1>6. CASE call.relation \notin {"EQUAL", "NOT_EQUAL"}
  <2>1. PICK u \in Int :
          /\ u = ValueOf(call.previous + offset) /\ (u - p) % n = 0
          /\ u = IF call.type \in {"S8", "S16", "S32"} THEN vc_signed_value(p, width) ELSE p
    BY <1>1, <1>6, ValueRead
  <2>2. v = u <=> c = p
    <3>1. c = p => v = u
      BY <1>4, <2>1
    <3>2. ASSUME v = u PROVE c = p
      <4>1. (v - c) % n = 0 /\ (v - p) % n = 0
        BY <1>4, <2>1, <3>2
      <4>2. (p - c) % n = 0
        <5>1. Congruent(v, c, n) /\ Congruent(v, p, n)
          BY <4>1 DEF Congruent
        <5>2. Congruent(p, c, n)
          BY <1>7, <5>1, CongruenceShift
        <5> QED BY <5>2 DEF Congruent
      <4>3. (c - c) % n = 0 /\ p \in Int /\ c \in Int /\ p - c < n /\ c - p < n
        BY <1>1
      <4> QED BY <4>2, <4>3, CongruentEqual
    <3> QED BY <3>1, <3>2
  <2>3. call.relation \in {"CHANGED", "UNCHANGED", "INCREASED", "DECREASED"}
    BY <1>6 DEF Relations
  <2>4. /\ call.relation = "CHANGED" => (Matches(p, c) <=> c # p)
        /\ call.relation = "UNCHANGED" => (Matches(p, c) <=> c = p)
    BY <1>1, <1>2 DEF Matches, vc_matches, Masked
  <2>5. /\ call.relation = "CHANGED" => (Satisfies(offset) <=> v # u)
        /\ call.relation = "UNCHANGED" => (Satisfies(offset) <=> v = u)
        /\ call.relation = "INCREASED" => (Satisfies(offset) <=> v > u)
        /\ call.relation = "DECREASED" => (Satisfies(offset) <=> v < u)
    BY <1>4, <2>1 DEF Satisfies
  <2>6. /\ Above(call.type, p, c, width) <=> v > u
        /\ Above(call.type, c, p, width) <=> u > v
    BY <1>4, <2>1 DEF Above
  <2>7. /\ call.relation = "INCREASED" => (Matches(p, c) <=> Above(call.type, p, c, width))
        /\ call.relation = "DECREASED" => (Matches(p, c) <=> Above(call.type, c, p, width))
    BY <1>1, <1>2 DEF Matches, vc_matches, Masked
  <2> QED BY <2>2, <2>3, <2>4, <2>5, <2>6, <2>7
<1> QED BY <1>5, <1>6

-----------------------------------------------------------------------------
(***************************************************************************)
(* Stored offsets.                                                         *)
(***************************************************************************)

\* What Emit stores reads back: the bytes of an offset are its digits.
LEMMA StoreReadsBack ==
  ASSUME NEW array \in Nat, NEW i \in Nat, NEW offset \in 0 .. Weight[OffsetBytes] - 1,
         \A k \in Nat : k < OffsetBytes => array + i * OffsetBytes + k \in DOMAIN memory
  PROVE  OffsetAt(StoreOffset(array, i, offset), array, i) = offset
<1>0. OffsetBytes \in Nat /\ ByteBase \in Nat \ {0}
  BY SearchAssumption
<1>1. PICK first \in Nat : first = array + i * OffsetBytes
  <2>1. PICK skip \in Nat : skip = i * OffsetBytes
    BY <1>0
  <2>2. array + skip \in Nat
    OBVIOUS
  <2> QED BY <2>1, <2>2
<1>2. PICK m : m = StoreOffset(array, i, offset)
  OBVIOUS
<1>3. \A k \in Nat : k < OffsetBytes => m[first + k] = (offset \div Weight[k]) % ByteBase
  <2> SUFFICES ASSUME NEW k \in Nat, k < OffsetBytes
               PROVE  m[first + k] = (offset \div Weight[k]) % ByteBase
    OBVIOUS
  <2>1. first + k \in DOMAIN memory /\ first + k \in first .. first + OffsetBytes - 1
        /\ (first + k) - first = k
    BY <1>0, <1>1
  <2> QED BY <1>1, <1>2, <2>1 DEF StoreOffset
<1>4. offset \in Nat /\ Weight[OffsetBytes] \in Nat \ {0} /\ offset < Weight[OffsetBytes]
  BY <1>0, WeightFacts
<1>5. Bytes(m, first, OffsetBytes)
  <2> SUFFICES ASSUME NEW k \in Nat, k < OffsetBytes
               PROVE  m[first + k] \in 0 .. ByteBase - 1
    BY DEF Bytes
  <2>1. PICK x \in Nat : x = offset \div Weight[k]
    <3>1. PICK n \in Nat \ {0} : n = Weight[k]
      BY WeightFacts
    <3>2. offset \div n \in Nat
      BY <1>4
    <3> QED BY <3>1, <3>2
  <2>2. x % ByteBase \in 0 .. ByteBase - 1
    BY <1>0
  <2> QED BY <1>3, <2>1, <2>2
<1>6. PICK u : Places(m, first, OffsetBytes, u)
               /\ vc_read_little_endian(m, first, OffsetBytes) = u[OffsetBytes]
  BY <1>0, <1>5, ReadPlaces
<1> DEFINE T == {k \in Nat : k <= OffsetBytes => u[k] = offset % Weight[k]}
<1>7. 0 \in T
  <2>1. offset % 1 = 0
    BY <1>4
  <2> QED BY <1>6, <2>1, WeightFacts DEF Places
<1>8. ASSUME NEW k \in Nat, k \in T PROVE k + 1 \in T
  <2> SUFFICES ASSUME k + 1 <= OffsetBytes PROVE u[k + 1] = offset % Weight[k + 1]
    OBVIOUS
  <2>1. k < OffsetBytes /\ u[k] = offset % Weight[k]
    BY <1>0, <1>8
  <2>2. PICK n \in Nat \ {0} : n = Weight[k] /\ Weight[k + 1] = ByteBase * n
    BY WeightFacts
  <2>3. u[k + 1] = (offset % n) + ((offset \div n) % ByteBase) * n
    BY <1>3, <1>6, <2>1, <2>2 DEF Places
  <2>4. LowDigits(offset, ByteBase * n) = LowDigits(offset, n) + ((offset \div n) % ByteBase) * n
    BY <1>0, <1>4, DigitStep
  <2> QED BY <2>2, <2>3, <2>4 DEF LowDigits
<1> HIDE DEF T
<1>9. u[OffsetBytes] = offset % Weight[OffsetBytes]
  <2>1. OffsetBytes \in T
    BY <1>0, <1>7, <1>8, Induction
  <2> QED BY <2>1 DEF T
<1> QED BY <1>1, <1>2, <1>4, <1>6, <1>9, SmallRemainder DEF OffsetAt

\* A memory is made of bytes until the counters are stored.
BytesOnly(m) == \A a \in DOMAIN m : m[a] \in 0 .. ByteBase - 1

\* A store of an offset leaves bytes in the memory.
LEMMA StoreKeepsBytes ==
  ASSUME BytesOnly(memory), NEW array \in Nat, NEW i \in Nat, NEW offset \in Nat
  PROVE  BytesOnly(StoreOffset(array, i, offset))
<1>0. OffsetBytes \in Nat /\ ByteBase \in Nat \ {0}
  BY SearchAssumption
<1>1. PICK first \in Nat : first = array + i * OffsetBytes
  <2>1. PICK skip \in Nat : skip = i * OffsetBytes
    BY <1>0
  <2>2. array + skip \in Nat
    OBVIOUS
  <2> QED BY <2>1, <2>2
<1>2. PICK m : m = StoreOffset(array, i, offset)
  OBVIOUS
<1> SUFFICES ASSUME NEW a \in DOMAIN memory PROVE m[a] \in 0 .. ByteBase - 1
  BY <1>2 DEF BytesOnly, StoreOffset
<1>3. CASE a \in first .. first + OffsetBytes - 1
  <2>1. PICK k \in Nat : k = a - first
    BY <1>3
  <2>2. PICK x \in Nat : x = offset \div Weight[k]
    <3>1. PICK n \in Nat \ {0} : n = Weight[k]
      BY WeightFacts
    <3>2. offset \div n \in Nat
      OBVIOUS
    <3> QED BY <3>1, <3>2
  <2>3. m[a] = x % ByteBase
    BY <1>1, <1>2, <1>3, <2>1, <2>2 DEF StoreOffset
  <2>4. x % ByteBase \in 0 .. ByteBase - 1
    BY <1>0
  <2> QED BY <2>3, <2>4
<1>4. CASE a \notin first .. first + OffsetBytes - 1
  <2>1. m[a] = memory[a]
    BY <1>1, <1>2, <1>4 DEF StoreOffset
  <2> QED BY <2>1 DEF BytesOnly
<1> QED BY <1>3, <1>4

-----------------------------------------------------------------------------
(***************************************************************************)
(* What a running call reads.                                              *)
(***************************************************************************)

\* What the entry has decided.
LEMMA RunningLegal ==
  ASSUME Decision, Accepted, pc # "entry"
  PROVE  Legal /\ CandidatesLegal
BY DEF Decision, RunsExactlyWhenLegal

\* The memory of the caller is made of bytes.
LEMMA BeforeBytes ==
  ASSUME Decision
  PROVE  BytesOnly(before)
BY DEF Holds, Decision, BytesOnly

\* The input at buffer r survives the call.
LEMMA InputIntact ==
  ASSUME Inv, Legal, NEW r \in Inputs \ {"candidates"}, NEW a \in Cells(region[r]),
         a \in DOMAIN memory
  PROVE  memory[a] = before[a]
<1> SUFFICES ASSUME memory[a] # before[a] PROVE FALSE
  OBVIOUS
<1>1. PICK s \in Outputs : a \in Cells(region[s])
  BY DEF Inv, OnlyOutputsWritten
<1>2. r \in Inputs \cup Outputs /\ s # r /\ ~(s = "out" /\ r = "candidates")
  BY DEF Inputs, Outputs
<1>3. Cells(region[s]) \cap Cells(region[r]) = {}
  BY <1>2 DEF Legal
<1> QED BY <1>1, <1>3

\* A scalar of a snapshot reads as it was before the call.
LEMMA ScalarIntact ==
  ASSUME Inv, Decision, Legal, width \in {1, 2, 4},
         NEW r \in Inputs \ {"candidates"}, NEW array \in Nat, array # 0,
         region[r] = <<array, call.size>>, Cells(<<array, call.size>>) \subseteq DOMAIN before,
         NEW o \in Nat, o <= call.size - width
  PROVE  /\ vc_read_little_endian(memory, array + o, width)
              = vc_read_little_endian(before, array + o, width)
         /\ vc_read_little_endian(before, array + o, width) \in 0 .. Weight[width] - 1
<1>1. call.size \in Nat /\ array + o \in Nat /\ width \in Nat
  BY Arguments, RangesAssumption DEF Inv
<1>2. ASSUME NEW k \in Nat, k < width
      PROVE  /\ (array + o) + k \in Cells(<<array, call.size>>)
             /\ memory[(array + o) + k] = before[(array + o) + k]
             /\ before[(array + o) + k] \in 0 .. ByteBase - 1
  <2>1. (array + o) + k \in Cells(<<array, call.size>>)
    BY <1>1, <1>2, CellOf
  <2>2. (array + o) + k \in DOMAIN before /\ DOMAIN memory = DOMAIN before
    BY <2>1 DEF Inv
  <2>3. memory[(array + o) + k] = before[(array + o) + k]
    BY <2>1, <2>2, InputIntact
  <2> QED BY <2>1, <2>2, <2>3, BeforeBytes DEF BytesOnly
<1>3. Bytes(before, array + o, width)
  BY <1>2 DEF Bytes
<1>4. Agree(memory, before, array + o, width)
  BY <1>2 DEF Agree
<1> QED BY <1>1, <1>3, <1>4, ReadAgrees, ReadBounded

\* The candidate in front of the loop reads as it was before the call.
LEMMA CandidateIntact ==
  ASSUME Inv, Decision, pc = "refining", index < call.candidate_count
  PROVE  /\ OffsetAt(memory, call.candidates, index) = OffsetAt(before, call.candidates, index)
         /\ OffsetAt(before, call.candidates, index) \in 0 .. Weight[OffsetBytes] - 1
<1>1. /\ call.candidates \in Nat /\ call.candidate_count \in Nat /\ OffsetBytes \in Nat
      /\ index \in Nat /\ IsCall(call) /\ Holds(before, call)
  BY Arguments, RangesAssumption, SearchAssumption DEF Inv, Locals, Decision
<1>2. call.candidates # 0 /\ call.function = "refine"
  BY <1>1 DEF Inv, Validated, Loops, Running
<1>3. PICK first \in Nat : first = call.candidates + index * OffsetBytes
  BY <1>1, <1>2, CandidateBytes
<1>4. Bytes(before, first, OffsetBytes)
  BY <1>1, <1>2, <1>3, CandidateBytes
<1>5. ASSUME NEW k \in Nat, k < OffsetBytes
      PROVE  memory[first + k] = before[first + k]
  <2>1. PICK left \in Nat : left = (call.candidate_count - index) * OffsetBytes
                            /\ OffsetBytes <= left
    <3>1. PICK d \in Nat : call.candidate_count - index = d + 1
      <4>1. call.candidate_count - index - 1 \in Nat
            /\ call.candidate_count - index = (call.candidate_count - index - 1) + 1
        BY <1>1
      <4> QED BY <4>1
    <3>2. (d + 1) * OffsetBytes = d * OffsetBytes + OffsetBytes /\ d * OffsetBytes \in Nat
      BY <1>1
    <3>3. PICK x \in Nat : x = d * OffsetBytes
      BY <3>2
    <3> QED BY <1>1, <3>1, <3>2, <3>3
  <2>2. first + k \in Cells(<<first, left>>)
    <3>1. first # 0
      <4>1. PICK skip \in Nat : skip = index * OffsetBytes
        BY <1>1
      <4> QED BY <1>1, <1>2, <1>3, <4>1
    <3> QED BY <1>1, <1>5, <2>1, <3>1, CellOf
  <2>3. first + k \in Unread
    BY <1>3, <2>1, <2>2 DEF Unread
  <2> QED BY <2>3 DEF Inv, Loops
<1>6. vc_read_little_endian(memory, first, OffsetBytes)
        = vc_read_little_endian(before, first, OffsetBytes)
  <2>1. Agree(memory, before, first, OffsetBytes)
    BY <1>5 DEF Agree
  <2> QED BY <1>1, <1>4, <2>1, ReadAgrees
<1>7. vc_read_little_endian(before, first, OffsetBytes) \in 0 .. Weight[OffsetBytes] - 1
  BY <1>1, <1>4, ReadBounded
<1> QED BY <1>3, <1>6, <1>7 DEF OffsetAt

\* Element i of the output, while there is room for it.
LEMMA ElementInOutput ==
  ASSUME IsCall(call), Holds(before, call), Validated,
         NEW i \in Nat, i < call.capacity
  PROVE  /\ call.out_offsets \in Nat /\ OffsetBytes \in Nat
         /\ i * OffsetBytes \in Nat /\ call.out_offsets + i * OffsetBytes \in Nat
         /\ \A k \in Nat : k < OffsetBytes =>
              /\ (call.out_offsets + i * OffsetBytes) + k \in Cells(region.out)
              /\ (call.out_offsets + i * OffsetBytes) + k \in DOMAIN before
<1>1. /\ call.out_offsets \in Nat /\ call.out_offsets # 0
      /\ call.capacity \in Nat /\ OffsetBytes \in Nat
  BY Arguments, RangesAssumption, SearchAssumption DEF Validated, ArgumentsPresent
<1>2. region.out = <<call.out_offsets, call.capacity * OffsetBytes>>
  BY <1>1, ProductExact DEF Validated, region
<1>3. PICK skip \in Nat, all \in Nat :
        skip = i * OffsetBytes /\ all = call.capacity * OffsetBytes
        /\ skip + OffsetBytes <= all
  <2>1. i * OffsetBytes + OffsetBytes <= call.capacity * OffsetBytes
    BY <1>1, ElementsApart
  <2>2. i * OffsetBytes \in Nat /\ call.capacity * OffsetBytes \in Nat
    BY <1>1
  <2> QED BY <2>1, <2>2
<1>4. Cells(<<call.out_offsets, all>>) \subseteq DOMAIN before
  BY <1>3 DEF Holds, Validated
<1>5. \A k \in Nat : k < OffsetBytes =>
        (call.out_offsets + skip) + k \in Cells(<<call.out_offsets, all>>)
  BY <1>1, <1>3, CellOf
<1> QED BY <1>1, <1>2, <1>3, <1>4, <1>5

-----------------------------------------------------------------------------
(***************************************************************************)
(* What a turn of a loop counts and stores.                                *)
(***************************************************************************)

\* The first n elements of the output are the n least of a set.
Listed(m, n, S) ==
  \A i \in Nat : i < n =>
    LET o == OffsetAt(m, call.out_offsets, i)
    IN  o \in S /\ Cardinality({f \in S : f < o}) = i

\* The counts and the output tell of a set of matches.
Counted(S) ==
  /\ IsFiniteSet(S) /\ S \subseteq Nat
  /\ local_total = Cardinality(S)
  /\ local_written = IF local_total < call.capacity THEN local_total ELSE call.capacity
  /\ Listed(memory, local_written, S)

\* A match above the others leaves the order of the others as it was.
LEMMA ListedAbove ==
  ASSUME NEW S, S \subseteq Nat, NEW x \in Nat, \A f \in S : f < x,
         NEW m, NEW n \in Nat, Listed(m, n, S)
  PROVE  Listed(m, n, S \cup {x})
<1> SUFFICES ASSUME NEW i \in Nat, i < n, NEW o, o = OffsetAt(m, call.out_offsets, i)
             PROVE  o \in S \cup {x} /\ Cardinality({f \in S \cup {x} : f < o}) = i
  BY DEF Listed
<1>1. o \in S /\ Cardinality({f \in S : f < o}) = i
  BY DEF Listed
<1>2. {f \in S \cup {x} : f < o} = {f \in S : f < o}
  BY <1>1
<1> QED BY <1>1, <1>2

\* Storing in one slot leaves the elements before it as they were.
LEMMA SlotsKept ==
  ASSUME IsCall(call), Holds(before, call), Validated, DOMAIN memory = DOMAIN before,
         BytesOnly(memory), NEW n \in Nat, n < call.capacity, NEW x,
         NEW i \in Nat, i < n
  PROVE  OffsetAt(StoreOffset(call.out_offsets, n, x), call.out_offsets, i)
           = OffsetAt(memory, call.out_offsets, i)
<1>1. call.capacity \in Nat
  BY Arguments, RangesAssumption
<1>2. /\ call.out_offsets \in Nat /\ OffsetBytes \in Nat /\ i * OffsetBytes \in Nat
      /\ \A k \in Nat : k < OffsetBytes =>
           (call.out_offsets + i * OffsetBytes) + k \in DOMAIN memory
  <2>1. i < call.capacity
    BY <1>1
  <2> QED BY <2>1, ElementInOutput
<1>3. n * OffsetBytes \in Nat /\ i * OffsetBytes + OffsetBytes <= n * OffsetBytes
  BY <1>2, ElementsApart, ElementInOutput
<1>4. PICK here \in Nat, slot \in Nat :
        /\ here = call.out_offsets + i * OffsetBytes
        /\ slot = call.out_offsets + n * OffsetBytes
        /\ here + OffsetBytes <= slot
  <2>1. PICK a \in Nat, b \in Nat : a = i * OffsetBytes /\ b = n * OffsetBytes
    BY <1>2, <1>3
  <2> QED BY <1>2, <1>3, <2>1
<1>5. PICK m : m = StoreOffset(call.out_offsets, n, x)
  OBVIOUS
<1>6. \A a \in DOMAIN memory : a \notin slot .. slot + OffsetBytes - 1 => m[a] = memory[a]
  BY <1>4, <1>5 DEF StoreOffset
<1>7. ASSUME NEW k \in Nat, k < OffsetBytes
      PROVE  /\ m[here + k] = memory[here + k]
             /\ memory[here + k] \in 0 .. ByteBase - 1
  <2>1. here + k \in DOMAIN memory
    BY <1>2, <1>4, <1>7
  <2>2. here + k \notin slot .. slot + OffsetBytes - 1
    BY <1>2, <1>4, <1>7
  <2> QED BY <1>6, <2>1, <2>2 DEF BytesOnly
<1>8. Agree(m, memory, here, OffsetBytes) /\ Bytes(memory, here, OffsetBytes)
  BY <1>7 DEF Agree, Bytes
<1>9. vc_read_little_endian(m, here, OffsetBytes)
        = vc_read_little_endian(memory, here, OffsetBytes)
  BY <1>2, <1>8, ReadAgrees
<1> QED BY <1>4, <1>5, <1>9 DEF OffsetAt

\* One turn of either loop takes the next offset into account.
LEMMA EmitCounts ==
  ASSUME Inv, Decision, Running, BytesOnly(memory), UNCHANGED call,
         NEW S, Counted(S), NEW x \in 0 .. Weight[OffsetBytes] - 1, \A f \in S : f < x,
         NEW matches, Emit(matches, x)
  PROVE  /\ BytesOnly(memory')
         /\ Counted(IF matches THEN S \cup {x} ELSE S)'
<1>1. /\ IsCall(call) /\ Holds(before, call) /\ Validated
      /\ DOMAIN memory = DOMAIN before
      /\ local_written \in Nat /\ local_total \in Nat /\ local_written <= call.capacity
      /\ call.capacity \in Nat /\ x \in Nat
  BY Arguments, RangesAssumption, WeightFacts, SearchAssumption DEF Inv, Decision, Locals
<1>2. CASE matches /\ local_written < call.capacity
  <2>1. /\ memory' = StoreOffset(call.out_offsets, local_written, x)
        /\ local_written' = local_written + 1 /\ local_total' = local_total + 1
    BY <1>2 DEF Emit
  <2>2. local_total = Cardinality(S) /\ local_written = local_total
    BY <1>1, <1>2 DEF Counted
  <2>3. /\ IsFiniteSet(S \cup {x}) /\ S \cup {x} \subseteq Nat
        /\ Cardinality(S \cup {x}) = local_total + 1
    <3>1. x \notin S /\ IsFiniteSet(S) /\ S \subseteq Nat
      BY <1>1 DEF Counted
    <3> QED BY <1>1, <2>2, <3>1, FS_AddElement
  <2>4. BytesOnly(memory')
    <3>1. call.out_offsets \in Nat
      BY <1>1, Arguments, RangesAssumption
    <3> QED BY <1>1, <2>1, <3>1, StoreKeepsBytes
  <2>5. OffsetAt(memory', call.out_offsets, local_written) = x
    <3>1. /\ call.out_offsets \in Nat
          /\ \A k \in Nat : k < OffsetBytes =>
               call.out_offsets + local_written * OffsetBytes + k \in DOMAIN memory
      BY <1>1, <1>2, ElementInOutput
    <3> QED BY <1>1, <2>1, <3>1, StoreReadsBack
  <2>6. \A i \in Nat : i < local_written =>
          OffsetAt(memory', call.out_offsets, i) = OffsetAt(memory, call.out_offsets, i)
    BY <1>1, <1>2, <2>1, SlotsKept
  <2>7. Listed(memory, local_written, S \cup {x})
    BY <1>1, ListedAbove DEF Counted
  <2>8. Cardinality({f \in S \cup {x} : f < x}) = local_written
    <3>1. {f \in S \cup {x} : f < x} = S
      BY <1>1
    <3> QED BY <2>2, <3>1
  <2>9. Listed(memory, local_written, S \cup {x})'
    <3> SUFFICES ASSUME NEW i \in Nat, i < local_written + 1,
                        NEW o, o = OffsetAt(memory', call.out_offsets, i)
                 PROVE  o \in S \cup {x} /\ Cardinality({f \in S \cup {x} : f < o}) = i
      BY <2>1 DEF Listed
    <3>1. CASE i < local_written
      BY <2>6, <2>7, <3>1 DEF Listed
    <3>2. CASE i = local_written
      BY <2>5, <2>8, <3>2
    <3> QED BY <1>1, <3>1, <3>2
  <2> QED BY <1>1, <1>2, <2>1, <2>2, <2>3, <2>4, <2>9 DEF Counted
<1>3. CASE matches /\ ~(local_written < call.capacity)
  <2>1. memory' = memory /\ local_written' = local_written /\ local_total' = local_total + 1
    BY <1>1, <1>3 DEF Emit
  <2>2. /\ IsFiniteSet(S \cup {x}) /\ S \cup {x} \subseteq Nat
        /\ Cardinality(S \cup {x}) = local_total + 1
    <3>1. x \notin S /\ IsFiniteSet(S) /\ S \subseteq Nat /\ local_total = Cardinality(S)
      BY <1>1 DEF Counted
    <3> QED BY <1>1, <3>1, FS_AddElement
  <2>3. local_written = call.capacity /\ local_total >= call.capacity
    BY <1>1, <1>3 DEF Counted
  <2>4. Listed(memory, local_written, S \cup {x})
    BY <1>1, ListedAbove DEF Counted
  <2>5. Listed(memory, local_written, S \cup {x})'
    BY <2>1, <2>4 DEF Listed
  <2> QED BY <1>1, <1>3, <2>1, <2>2, <2>3, <2>5 DEF Counted
<1>4. CASE ~matches
  <2>1. memory' = memory /\ local_written' = local_written /\ local_total' = local_total
    BY <1>1, <1>4 DEF Emit
  <2>2. Listed(memory, local_written, S)'
    BY <2>1 DEF Counted, Listed
  <2> QED BY <1>4, <2>1, <2>2 DEF Counted
<1> QED BY <1>2, <1>3, <1>4

-----------------------------------------------------------------------------
(***************************************************************************)
(* The result of a call.                                                   *)
(***************************************************************************)

\* Two multiples of the stride are at least a stride apart.
LEMMA StrideGap ==
  ASSUME NEW s \in Nat \ {0}, NEW a \in Nat, NEW b \in Nat, a % s = 0, b % s = 0, a < b
  PROVE  a + s <= b
<1>1. PICK p \in Int, q \in Int : a = s * p /\ b = s * q
  <2>1. a \in Int /\ b \in Int
    OBVIOUS
  <2>2. PICK p \in Int : a = s * p
    BY <2>1, Divisible
  <2>3. PICK q \in Int : b = s * q
    BY <2>1, Divisible
  <2> QED BY <2>2, <2>3
<1>2. PICK e \in Int : e = q - p
  OBVIOUS
<1>3. b - a = s * e
  BY <1>1, <1>2
<1>4. e >= 1
  <2> SUFFICES ASSUME e <= 0 PROVE FALSE
    OBVIOUS
  <2>1. PICK d \in Nat : e = -d
    <3>1. -e \in Nat /\ e = -(-e)
      OBVIOUS
    <3> QED BY <3>1
  <2>2. s * e = -(s * d) /\ s * d \in Nat
    BY <2>1
  <2> QED BY <1>3, <2>2
<1>5. PICK d \in Nat : e = 1 + d
  <2>1. e - 1 \in Nat /\ e = 1 + (e - 1)
    BY <1>4
  <2> QED BY <2>1
<1>6. s * e = s + s * d /\ s * d \in Nat
  BY <1>5
<1> QED BY <1>3, <1>6

\* The next offset of the scan is a multiple of the stride.
LEMMA StrideOn ==
  ASSUME NEW s \in Nat \ {0}, NEW a \in Nat, a % s = 0
  PROVE  (a + s) % s = 0
<1>1. PICK p \in Int : a = s * p
  <2>1. a \in Int
    OBVIOUS
  <2> QED BY <2>1, Divisible
<1>2. PICK e \in Int : e = p + 1
  OBVIOUS
<1>3. PICK b \in Nat : b = a + s
  OBVIOUS
<1>4. b = s * e
  BY <1>1, <1>2, <1>3
<1>5. b % s = 0
  BY <1>4
<1> QED BY <1>3, <1>5

\* The invariant of the loops: what has been counted and stored is what the
\* offsets passed so far hold.
Scanned ==
  pc = "scanning" => call.function = "initial" /\ index % call.stride = 0

Result ==
  /\ Inv /\ Decision /\ Scanned
  /\ Running => BytesOnly(memory) /\ Counted(Found)
  /\ OutputIsFirstMatches

\* While the call runs the property is the invariant.
LEMMA CountedOutput == Inv /\ Running /\ Counted(Found) => OutputIsFirstMatches
<1> SUFFICES ASSUME Inv, Running, Counted(Found) PROVE OutputIsFirstMatches
  OBVIOUS
<1>1. local_written \in Nat /\ pc # "done"
  BY DEF Inv, Locals, Running
<1>2. \A i \in 0 .. local_written - 1 : i \in Nat /\ i < local_written
  BY <1>1
<1>3. \A i \in 0 .. local_written - 1 :
        LET o == OffsetAt(memory, call.out_offsets, i)
        IN  o \in Found /\ Cardinality({f \in Found : f < o}) = i
  BY <1>2 DEF Counted, Listed
<1> QED BY <1>1, <1>3 DEF Counted, OutputIsFirstMatches

\* What is found depends on the arguments, the memory before the call and the
\* place in the loop.
LEMMA FoundAfter ==
  ASSUME UNCHANGED <<call, before>>
  PROVE  /\ Found' = {o \in Passed' : Satisfies(o)}
         /\ Examined' = Examined
BY DEF Found, Satisfies, ValueOf, width, Examined

\* The snapshots of a running call.
LEMMA Snapshots ==
  ASSUME Inv, Decision, Running
  PROVE  /\ IsCall(call) /\ Validated /\ Legal /\ CandidatesLegal
         /\ width \in {1, 2, 4} /\ call.relation \in Relations
         /\ call.size \in Nat /\ call.size <= Weight[OffsetBytes]
         /\ call.stride \in Nat \ {0}
         /\ Weight[OffsetBytes] \in Nat
<1>1. IsCall(call) /\ Validated
  BY DEF Inv
<1>2. Legal /\ CandidatesLegal
  BY RunningLegal DEF Accepted, Running
<1>3. width \in {1, 2, 4} /\ call.relation \in Relations /\ call.stride # 0
  BY <1>1, WidthTypes DEF Validated, QueryValid
<1>4. call.size \in Nat /\ call.stride \in Nat /\ Weight[OffsetBytes] \in Nat
  BY <1>1, Arguments, RangesAssumption, WeightFacts, SearchAssumption
<1>5. call.size <= Weight[OffsetBytes]
  BY <1>2 DEF Legal
<1> QED BY <1>1, <1>2, <1>3, <1>4, <1>5

\* The scalar at an offset inside the current snapshot.
LEMMA CurrentIntact ==
  ASSUME Inv, Decision, Running, NEW o \in Nat, o <= call.size - width
  PROVE  /\ vc_read_little_endian(memory, call.current + o, width)
              = vc_read_little_endian(before, call.current + o, width)
         /\ vc_read_little_endian(before, call.current + o, width) \in 0 .. Weight[width] - 1
<1>1. /\ IsCall(call) /\ Legal /\ width \in {1, 2, 4} /\ call.size \in Nat
      /\ Holds(before, call)
  BY Snapshots DEF Decision
<1>2. call.current \in Nat /\ call.current # 0
  BY <1>1, RangesAssumption DEF IsCall, Legal
<1>3. region["current"] = <<call.current, call.size>> /\ "current" \in Inputs \ {"candidates"}
  BY DEF region, Inputs
<1>4. Cells(<<call.current, call.size>>) \subseteq DOMAIN before
  BY <1>1 DEF Holds
<1> QED BY <1>1, <1>2, <1>3, <1>4, ScalarIntact

\* ...and inside the previous one, which only a refinement has.
LEMMA PreviousIntact ==
  ASSUME Inv, Decision, Running, call.function = "refine",
         NEW o \in Nat, o <= call.size - width
  PROVE  /\ vc_read_little_endian(memory, call.previous + o, width)
              = vc_read_little_endian(before, call.previous + o, width)
         /\ vc_read_little_endian(before, call.previous + o, width) \in 0 .. Weight[width] - 1
<1>1. /\ IsCall(call) /\ Legal /\ width \in {1, 2, 4} /\ call.size \in Nat
      /\ Holds(before, call)
  BY Snapshots DEF Decision
<1>2. call.previous \in Nat /\ call.previous # 0
  BY <1>1, RangesAssumption DEF IsCall, Legal
<1>3. region["previous"] = <<call.previous, call.size>>
      /\ "previous" \in Inputs \ {"candidates"}
  BY DEF region, Inputs
<1>4. Cells(<<call.previous, call.size>>) \subseteq DOMAIN before
  BY <1>1 DEF Holds
<1> QED BY <1>1, <1>2, <1>3, <1>4, ScalarIntact

\* One turn of the initial scan: the offset in front of the loop is the only
\* one that it passes, because no other multiple of the stride lies before the
\* next turn or, at the last one, before the end of the snapshot.
LEMMA ScanPasses ==
  ASSUME Inv, Decision, Scanned, Scan
  PROVE  /\ index \in Examined
         /\ Passed' = Passed \cup {index}
         /\ \A o \in Passed : o \in Nat /\ o < index
         /\ Scanned'
<1>1. /\ pc = "scanning" /\ UNCHANGED <<call, before>>
      /\ call.function = "initial" /\ index % call.stride = 0
  BY DEF Scan, Scanned
<1>2. /\ call.size \in Nat /\ call.stride \in Nat \ {0} /\ width \in {1, 2, 4}
  BY <1>1, Snapshots DEF Running
<1>3. /\ index \in Nat /\ index <= call.size - width
  BY <1>1 DEF Inv, Loops, Locals
<1>4. Examined = {o \in 0 .. call.size - width : o % call.stride = 0}
  BY <1>1 DEF Examined
<1>5. Passed = {o \in Examined : o < index}
  BY <1>1 DEF Passed
<1>6. index \in Examined
  BY <1>1, <1>2, <1>3, <1>4
<1>7. ASSUME NEW o \in Examined, index < o PROVE index + call.stride <= o
  <2>1. o \in Nat /\ o % call.stride = 0
    BY <1>2, <1>4
  <2> QED BY <1>1, <1>2, <1>3, <1>7, <2>1, StrideGap
<1>8. CASE StrideEnds(index)
  <2>1. pc' = "returning"
    BY <1>8 DEF Scan
  <2>2. Passed' = Examined
    BY <1>1, <2>1, FoundAfter DEF Passed
  <2>3. call.stride > (call.size - width) - index
    BY <1>8 DEF StrideEnds
  <2>4. \A o \in Examined : o \in Nat /\ o <= index
    BY <1>2, <1>3, <1>4, <1>7, <2>3
  <2>5. Passed' = Passed \cup {index}
    <3>1. \A o \in Examined : o < index \/ o = index
      BY <1>3, <2>4
    <3> QED BY <1>5, <1>6, <2>2, <3>1
  <2>6. \A o \in Passed : o \in Nat /\ o < index
    BY <1>5, <2>4
  <2>7. Scanned'
    BY <2>1 DEF Scanned
  <2> QED BY <1>6, <2>5, <2>6, <2>7
<1>9. CASE ~StrideEnds(index)
  <2>1. pc' = "scanning" /\ index' = (index + call.stride) % (AddressMax + 1)
    BY <1>1, <1>9 DEF Scan
  <2>2. call.stride <= (call.size - width) - index
    BY <1>2, <1>3, <1>9 DEF StrideEnds
  <2>3. index' = index + call.stride
    <3>1. AddressMax \in Nat /\ call.size <= AddressMax
      BY <1>1, Arguments, RangesAssumption DEF Inv
    <3>2. PICK next \in Nat : next = index + call.stride /\ next < AddressMax + 1
      BY <1>2, <1>3, <2>2, <3>1
    <3>3. next % (AddressMax + 1) = next
      BY <3>1, <3>2
    <3> QED BY <2>1, <3>2, <3>3
  <2>4. Passed' = {o \in Examined : o < index + call.stride}
    BY <1>1, <2>1, <2>3, FoundAfter DEF Passed
  <2>5. \A o \in Examined : o \in Nat
    BY <1>2, <1>4
  <2>6. \A o \in Examined : o < index + call.stride <=> o < index \/ o = index
    BY <1>2, <1>3, <1>7, <2>5
  <2>7. (index + call.stride) % call.stride = 0
    BY <1>1, <1>2, <1>3, StrideOn
  <2>8. Scanned'
    BY <1>1, <2>3, <2>7 DEF Scanned
  <2>9. Passed' = Passed \cup {index}
    BY <1>5, <1>6, <2>4, <2>6
  <2>10. \A o \in Passed : o \in Nat /\ o < index
    BY <1>5, <2>5
  <2> QED BY <1>6, <2>8, <2>9, <2>10
<1> QED BY <1>8, <1>9

\* One turn of the scan keeps the result right.
LEMMA ScanResult ==
  ASSUME Result, Scan, Inv'
  PROVE  BytesOnly(memory') /\ Counted(Found)'
<1>1. /\ pc = "scanning" /\ UNCHANGED <<call, before>> /\ Inv /\ Decision /\ Running
      /\ call.function = "initial" /\ BytesOnly(memory) /\ Counted(Found)
  BY DEF Scan, Result, Running, Scanned
<1>2. /\ IsCall(call) /\ Legal /\ call.size \in Nat /\ width \in {1, 2, 4}
      /\ call.relation \in Relations /\ Weight[OffsetBytes] \in Nat
      /\ call.size <= Weight[OffsetBytes]
  BY <1>1, Snapshots
<1>3. index \in Nat /\ index <= call.size - width
  BY <1>1 DEF Inv, Loops, Locals
<1>4. PICK c : c = vc_read_little_endian(before, call.current + index, width)
  OBVIOUS
<1>5. c \in 0 .. Weight[width] - 1
      /\ c = vc_read_little_endian(memory, call.current + index, width)
  BY <1>1, <1>3, <1>4, CurrentIntact
<1>6. call.relation \in {"EQUAL", "NOT_EQUAL"}
  BY <1>1, <1>2 DEF Legal
<1>7. Matches(0, c) <=> Satisfies(index)
  <2>1. 0 \in 0 .. Weight[width] - 1
    BY <1>2, WeightFacts
  <2> QED BY <1>2, <1>4, <1>5, <1>6, <2>1, MatchesSatisfies
<1>8. PICK S, matches, x, T :
        /\ S = Found /\ matches = Matches(0, c) /\ x = index
        /\ T = IF matches THEN S \cup {x} ELSE S
  OBVIOUS
<1>9. Emit(matches, x)
  BY <1>5, <1>8 DEF Scan
<1>10. x \in 0 .. Weight[OffsetBytes] - 1 /\ \A f \in S : f < x
  <2>1. \A f \in Found : f < index
    BY <1>1, ScanPasses DEF Found, Result
  <2> QED BY <1>2, <1>3, <1>8, <2>1
<1>11. BytesOnly(memory') /\ Counted(T)'
  <2>1. Counted(S)
    BY <1>1, <1>8
  <2> QED BY <1>1, <1>8, <1>9, <1>10, <2>1, EmitCounts
<1>12. Found' = T
  <2>1. Found' = {o \in Passed' : Satisfies(o)}
    BY <1>1, FoundAfter
  <2>2. Passed' = Passed \cup {index} /\ index \notin Passed
    BY <1>1, <1>3, ScanPasses DEF Result
  <2> QED BY <1>7, <1>8, <2>1, <2>2 DEF Found
<1>13. Counted(Found)'
  BY <1>11, <1>12 DEF Counted
<1> QED BY <1>11, <1>13

\* One turn of the refinement: the candidate in front of the loop is above
\* those it has passed, and reads as the caller left it.
LEMMA RefinePasses ==
  ASSUME Inv, Decision, Refine, NEW x, x = OffsetAt(before, call.candidates, index)
  PROVE  /\ Passed' = Passed \cup {x}
         /\ \A o \in Passed : o < x
         /\ x \in Nat /\ x <= call.size - width /\ x < Weight[OffsetBytes]
         /\ OffsetAt(memory, call.candidates, index) = x
<1>1. /\ pc = "refining" /\ pc' = "refining" /\ index < call.candidate_count
      /\ index' = index + 1 /\ UNCHANGED <<call, before>> /\ Running
  BY DEF Refine, Running
<1>2. call.function = "refine" /\ index \in Nat
  BY <1>1 DEF Inv, Loops, Locals
<1>3. CandidatesLegal /\ call.candidate_count \in Nat /\ Weight[OffsetBytes] \in Nat
  BY <1>1, Snapshots, Arguments, RangesAssumption
<1>4. index \in 0 .. call.candidate_count - 1
  BY <1>1, <1>2, <1>3
<1>5. Passed = {OffsetAt(before, call.candidates, i) : i \in 0 .. index - 1}
  BY <1>1, <1>2 DEF Passed
<1>6. Passed' = {OffsetAt(before, call.candidates, i) : i \in 0 .. index}
  <2>1. Passed' = {OffsetAt(before, call.candidates, i) : i \in 0 .. (index + 1) - 1}
    BY <1>1, <1>2 DEF Passed
  <2>2. (index + 1) - 1 = index
    BY <1>2
  <2> QED BY <2>1, <2>2
<1>7. Passed' = Passed \cup {x}
  <2>1. \A i : i \in 0 .. index <=> i \in 0 .. index - 1 \/ i = index
    BY <1>2
  <2> QED BY <1>5, <1>6, <2>1
<1>8. /\ x <= call.size - width
      /\ \A j \in 0 .. index - 1 : OffsetAt(before, call.candidates, j) < x
  BY <1>2, <1>3, <1>4 DEF CandidatesLegal
<1>9. OffsetAt(memory, call.candidates, index) = x /\ x \in 0 .. Weight[OffsetBytes] - 1
  BY <1>1, CandidateIntact
<1> QED BY <1>3, <1>5, <1>7, <1>8, <1>9

\* One turn of the refinement keeps the result right.
LEMMA RefineResult ==
  ASSUME Result, Refine
  PROVE  BytesOnly(memory') /\ Counted(Found)'
<1>1. /\ pc = "refining" /\ UNCHANGED <<call, before>> /\ Inv /\ Decision /\ Running
      /\ call.function = "refine" /\ BytesOnly(memory) /\ Counted(Found)
  BY DEF Refine, Result, Running, Inv, Loops
<1>2. /\ IsCall(call) /\ width \in {1, 2, 4} /\ call.relation \in Relations
      /\ Weight[OffsetBytes] \in Nat
  BY <1>1, Snapshots
<1>3. PICK x : x = OffsetAt(before, call.candidates, index)
  OBVIOUS
<1>4. /\ Passed' = Passed \cup {x} /\ \A o \in Passed : o < x
      /\ x \in Nat /\ x <= call.size - width /\ x < Weight[OffsetBytes]
      /\ OffsetAt(memory, call.candidates, index) = x
  BY <1>1, <1>3, RefinePasses
<1>5. PICK c, p : /\ c = vc_read_little_endian(before, call.current + x, width)
                  /\ p = vc_read_little_endian(before, call.previous + x, width)
  OBVIOUS
<1>6. /\ c \in 0 .. Weight[width] - 1
      /\ c = vc_read_little_endian(memory, call.current + x, width)
  BY <1>1, <1>4, <1>5, CurrentIntact
<1>7. /\ p \in 0 .. Weight[width] - 1
      /\ p = vc_read_little_endian(memory, call.previous + x, width)
  BY <1>1, <1>4, <1>5, PreviousIntact
<1>8. Matches(p, c) <=> Satisfies(x)
  BY <1>2, <1>5, <1>6, <1>7, MatchesSatisfies
<1>9. PICK S, matches, T :
        /\ S = Found /\ matches = Matches(p, c)
        /\ T = IF matches THEN S \cup {x} ELSE S
  OBVIOUS
<1>10. Emit(matches, x)
  BY <1>4, <1>6, <1>7, <1>9 DEF Refine
<1>11. x \in 0 .. Weight[OffsetBytes] - 1 /\ \A f \in S : f < x
  BY <1>2, <1>4, <1>9 DEF Found
<1>12. BytesOnly(memory') /\ Counted(T)'
  <2>1. Counted(S)
    BY <1>1, <1>9
  <2> QED BY <1>1, <1>9, <1>10, <1>11, <2>1, EmitCounts
<1>13. Found' = T
  <2>1. Found' = {o \in Passed' : Satisfies(o)}
    BY <1>1, FoundAfter
  <2> QED BY <1>4, <1>8, <1>9, <2>1 DEF Found
<1>14. Counted(Found)'
  BY <1>12, <1>13 DEF Counted
<1> QED BY <1>12, <1>14

\* Nothing has been passed, and nothing found, when a loop begins; a snapshot
\* shorter than a scalar has no offsets to pass.
LEMMA AcceptResult ==
  ASSUME Result, Accept
  PROVE  BytesOnly(memory') /\ Counted(Found)' /\ Scanned'
<1>1. /\ pc = "entry" /\ Inv /\ Decision
      /\ pc' = IF call.function = "refine" THEN "refining"
               ELSE IF call.size < width THEN "returning" ELSE "scanning"
      /\ UNCHANGED <<call, memory, index, local_written, local_total, status, before>>
  BY DEF Accept, Result
<1>2. IsCall(call) /\ index = 0 /\ local_written = 0 /\ local_total = 0
  BY <1>1 DEF Inv, Loops
<1>3. /\ call.size \in Nat /\ call.capacity \in Nat /\ call.function \in {"initial", "refine"}
      /\ call.stride \in Nat /\ width \in Nat
  BY <1>2, Arguments, RangesAssumption
<1>4. BytesOnly(memory')
  BY <1>1, BeforeBytes DEF Decision
<1>5. Examined' = Examined /\ width' = width
  BY <1>1, FoundAfter DEF width
<1>6. Passed' = {}
  <2>1. CASE call.function = "refine"
    <3>1. pc' = "refining" /\ call'.function # "initial" /\ index' = 0
      BY <1>1, <1>2, <2>1
    <3>2. Passed' = {OffsetAt(before, call.candidates, i) : i \in 0 .. 0 - 1}
      BY <1>1, <3>1 DEF Passed
    <3>3. 0 .. 0 - 1 = {}
      OBVIOUS
    <3> QED BY <3>2, <3>3
  <2>2. CASE call.function = "initial" /\ call.size < width
    <3>1. pc' = "returning"
      BY <1>1, <2>2
    <3>2. Passed' = Examined
      BY <1>5, <3>1 DEF Passed
    <3>3. 0 .. call.size - width = {}
      BY <1>3, <2>2
    <3> QED BY <2>2, <3>2, <3>3 DEF Examined
  <2>3. CASE call.function = "initial" /\ ~(call.size < width)
    <3>1. pc' = "scanning" /\ call'.function = "initial" /\ index' = 0
      BY <1>1, <1>2, <2>3
    <3>2. Passed' = {o \in Examined : o < 0}
      BY <1>5, <3>1 DEF Passed
    <3>3. \A o \in Examined : o \in Nat
      BY <1>3, <2>3 DEF Examined
    <3> QED BY <3>2, <3>3
  <2> QED BY <1>3, <2>1, <2>2, <2>3
<1>7. Found' = {}
  BY <1>1, <1>6, FoundAfter
<1>8. Counted({})'
  <2>1. /\ local_total' = Cardinality({})
        /\ local_written' = IF local_total' < call'.capacity THEN local_total' ELSE call'.capacity
    BY <1>1, <1>2, <1>3, FS_EmptySet
  <2>2. Listed(memory, local_written, {})'
    BY <1>1, <1>2 DEF Listed
  <2> QED BY <2>1, <2>2, FS_EmptySet DEF Counted
<1>9. Counted(Found)'
  BY <1>7, <1>8 DEF Counted
<1>10. Scanned'
  <2>1. 0 % call.stride = 0 \/ call.stride = 0
    BY <1>3
  <2>2. call.stride # 0
    <3>1. Validated
      BY <1>2, EntryValidates DEF Accept
    <3> QED BY <3>1 DEF Validated, QueryValid
  <2> QED BY <1>1, <1>2, <1>3, <2>1, <2>2 DEF Scanned
<1> QED BY <1>4, <1>9, <1>10

\* The stores through the two pointers do not reach the output.
LEMMA ReturnResult ==
  ASSUME Result, Return
  PROVE  OutputIsFirstMatches'
<1>1. /\ pc' = "done" /\ memory' = StoreCounters(local_written, local_total)
      /\ status' = IF local_total > call.capacity THEN "TRUNCATED" ELSE "OK"
      /\ UNCHANGED <<call, index, local_written, local_total, before>>
      /\ pc \in {"refining", "returning"}
      /\ pc = "refining" => index = call.candidate_count
  BY DEF Return
<1>2. Inv /\ Decision /\ Running /\ BytesOnly(memory) /\ Counted(Found)
  BY <1>1 DEF Result, Running
<1>3. /\ IsCall(call) /\ Validated /\ Legal /\ Holds(before, call)
      /\ DOMAIN memory = DOMAIN before /\ call.capacity \in Nat
      /\ local_written \in Nat /\ local_total \in Nat /\ local_written <= call.capacity
  BY <1>2, Snapshots, Arguments, RangesAssumption DEF Inv, Decision, Locals
<1>4. /\ call.written \in Cells(region["written"])
      /\ call.total_matches \in Cells(region["total"])
  BY <1>3, Arguments, RangesAssumption, CellOf DEF Validated, ArgumentsPresent, region
<1>5. /\ Cells(region["out"]) \cap Cells(region["written"]) = {}
      /\ Cells(region["out"]) \cap Cells(region["total"]) = {}
      /\ Cells(region["written"]) \cap Cells(region["total"]) = {}
  BY <1>3 DEF Legal, Outputs
<1>6. call.written # call.total_matches
  BY <1>4, <1>5
<1>7. call.written \in DOMAIN memory /\ call.total_matches \in DOMAIN memory
  <2>1. /\ Cells(<<call.written, 1>>) \subseteq DOMAIN before
        /\ Cells(<<call.total_matches, 1>>) \subseteq DOMAIN before
    BY <1>3 DEF Holds
  <2> QED BY <1>3, <1>4, <2>1 DEF region
<1>8. memory'[call.written] = local_written /\ memory'[call.total_matches] = local_total
  BY <1>1, <1>6, <1>7 DEF StoreCounters
<1>9. Found' = Found
  <2>1. Passed = Examined
    <3>1. CASE pc = "returning"
      BY <3>1 DEF Passed
    <3>2. CASE pc = "refining"
      BY <1>1, <1>2, <3>2 DEF Passed, Examined, Inv, Loops
    <3> QED BY <1>1, <3>1, <3>2
  <2>2. Passed' = Examined
    BY <1>1, FoundAfter DEF Passed
  <2> QED BY <1>1, <2>1, <2>2, FoundAfter DEF Found
<1>10. ASSUME NEW i \in Nat, i < local_written
       PROVE  OffsetAt(memory', call.out_offsets, i) = OffsetAt(memory, call.out_offsets, i)
  <2>1. PICK m : m = memory'
    OBVIOUS
  <2>2. PICK here \in Nat : here = call.out_offsets + i * OffsetBytes
    BY <1>3, <1>10, ElementInOutput
  <2>3. ASSUME NEW k \in Nat, k < OffsetBytes
        PROVE  /\ m[here + k] = memory[here + k]
               /\ memory[here + k] \in 0 .. ByteBase - 1
    <3>1. here + k \in Cells(region["out"]) /\ here + k \in DOMAIN memory
      BY <1>3, <1>10, <2>2, <2>3, ElementInOutput
    <3>2. here + k # call.written /\ here + k # call.total_matches
      BY <1>4, <1>5, <3>1
    <3> QED BY <1>1, <1>2, <2>1, <3>1, <3>2 DEF StoreCounters, BytesOnly
  <2>4. Agree(m, memory, here, OffsetBytes) /\ Bytes(memory, here, OffsetBytes)
    BY <2>3 DEF Agree, Bytes
  <2>5. OffsetBytes \in Nat
    BY SearchAssumption
  <2>6. vc_read_little_endian(m, here, OffsetBytes)
          = vc_read_little_endian(memory, here, OffsetBytes)
    BY <2>4, <2>5, ReadAgrees
  <2> QED BY <2>1, <2>2, <2>6 DEF OffsetAt
<1>11. ASSUME NEW i \in 0 .. local_written - 1, NEW o, o = OffsetAt(memory', call.out_offsets, i)
       PROVE  o \in Found /\ Cardinality({f \in Found : f < o}) = i
  <2>1. i \in Nat /\ i < local_written
    BY <1>3
  <2> QED BY <1>2, <1>10, <1>11, <2>1 DEF Counted, Listed
<1>12. /\ local_total = Cardinality(Found)
       /\ local_written = IF local_total < call.capacity THEN local_total ELSE call.capacity
  BY <1>2 DEF Counted
<1>13. status' = "TRUNCATED" <=> Cardinality(Found) > call.capacity
  BY <1>1, <1>12
<1> QED BY <1>1, <1>8, <1>9, <1>11, <1>12, <1>13 DEF OutputIsFirstMatches

LEMMA BegunResult == Begun => Result
<1> SUFFICES ASSUME Begun PROVE Result
  OBVIOUS
<1>1. pc = "entry" /\ status = "NONE"
  BY DEF Begun
<1>2. ~Running /\ ~Accepted /\ Scanned
  BY <1>1 DEF Running, Accepted, Scanned
<1> QED BY <1>2, BegunInv, BegunDecision DEF Result, OutputIsFirstMatches

LEMMA ResultStep == Result /\ Inv' /\ Decision' /\ [Next]_vars => Result'
<1> SUFFICES ASSUME Result, Inv', Decision', [Next]_vars PROVE Result'
  OBVIOUS
<1>0. Inv' /\ Running' /\ Counted(Found)' => OutputIsFirstMatches'
  BY CountedOutput, PTL
<1>1. CASE Refuse
  <2>1. /\ pc = "entry" /\ pc' = "done" /\ status' = EntryStatus /\ EntryStatus # "OK"
    BY <1>1 DEF Refuse
  <2>2. EntryStatus # "TRUNCATED"
    BY DEF EntryStatus, InitialStatus, RefineStatus, vc_validate_common,
           vc_validate_candidates
  <2>3. ~Accepted' /\ ~Running'
    BY <2>1, <2>2 DEF Accepted, Running
  <2>4. OutputIsFirstMatches'
    BY <2>3 DEF OutputIsFirstMatches
  <2>5. Scanned'
    BY <2>1 DEF Scanned
  <2> QED BY <2>3, <2>4, <2>5 DEF Result
<1>2. CASE Accept
  <2>1. Running'
    BY <1>2 DEF Accept, Running
  <2>2. BytesOnly(memory') /\ Counted(Found)' /\ Scanned'
    BY <1>2, AcceptResult
  <2> QED BY <1>0, <2>1, <2>2 DEF Result
<1>3. CASE Scan
  <2>1. Running'
    BY <1>3 DEF Scan, Running
  <2>2. BytesOnly(memory') /\ Counted(Found)'
    BY <1>3, ScanResult
  <2>3. Scanned'
    BY <1>3, ScanPasses DEF Result
  <2> QED BY <1>0, <2>1, <2>2, <2>3 DEF Result
<1>4. CASE Refine
  <2>1. Running' /\ Scanned'
    BY <1>4 DEF Refine, Running, Scanned
  <2>2. BytesOnly(memory') /\ Counted(Found)'
    BY <1>4, RefineResult
  <2> QED BY <1>0, <2>1, <2>2 DEF Result
<1>5. CASE Return
  <2>1. ~Running' /\ Scanned'
    BY <1>5 DEF Return, Running, Scanned
  <2>2. OutputIsFirstMatches'
    BY <1>5, ReturnResult
  <2> QED BY <2>1, <2>2 DEF Result
<1>6. CASE UNCHANGED vars
  <2>1. UNCHANGED <<call, memory, pc, index, local_written, local_total, status, before>>
    BY <1>6 DEF vars
  <2>2. Passed' = Passed
    BY <2>1 DEF Passed, Examined, width
  <2>3. Found' = Found
    BY <2>1, <2>2, FoundAfter DEF Found
  <2>4. Scanned' /\ Running' = Running
    BY <2>1 DEF Result, Scanned, Running
  <2>5. Counted(Found) => Counted(Found)'
    BY <2>1, <2>3 DEF Counted, Listed
  <2>6. OutputIsFirstMatches'
    BY <2>1, <2>3 DEF Result, OutputIsFirstMatches, Accepted, Running
  <2> QED BY <2>1, <2>4, <2>5, <2>6 DEF Result, Running
<1> QED BY <1>1, <1>2, <1>3, <1>4, <1>5, <1>6 DEF Next

\* For every snapshot, query, stride, list of candidates, capacity and layout
\* that runs, in place or not, the result is that of a filter on the whole
\* input as it was before the call, cut at the capacity, and the counters and
\* the status say what was cut.
THEOREM SearchFindsFirstMatches == Spec => []OutputIsFirstMatches
<1>1. Spec => []Inv /\ []Decision
  <2>1. Spec => []Decision
    BY InitBegun, BegunDecision, DecisionStep, PTL DEF Spec
  <2> QED BY <2>1, SearchInvariant, PTL
<1>2. Result => OutputIsFirstMatches
  BY DEF Result
<1> QED BY <1>1, <1>2, InitBegun, BegunResult, ResultStep, PTL DEF Spec
=============================================================================
