------------------------------- MODULE Search -------------------------------
(***************************************************************************)
(* One call of vc_search_initial or vc_search_refine (src/search.c) over a *)
(* flat memory in which the caller has placed both snapshots, the          *)
(* candidates, the output, the two counters and the query, anywhere: the   *)
(* overlap checks decide which layouts run, and a check that is missing    *)
(* shows as an input overwritten while it is being read.                   *)
(*                                                                         *)
(* Memory is addressed in bytes; a counter and the query take one address  *)
(* each, and the query's fields, which the code copies before it writes,   *)
(* are part of the call.  Offsets and indexes are counted from 0.          *)
(***************************************************************************)
EXTENDS Ranges, FiniteSets

CONSTANTS
  ByteBase,     \* the number of values of a byte
  OffsetBytes,  \* sizeof(uint32_t), the size of an offset
  Calls,        \* the calls that are made
  Memories(_)   \* the memories that a call may find

VARIABLES
  call, memory,
  pc, index, local_written, local_total, status,
  before        \* history: the memory when the call was made

vars == <<call, memory, pc, index, local_written, local_total, status, before>>

Types     == {"U8", "S8", "U16", "S16", "U32", "S32"}
Relations == {"EQUAL", "NOT_EQUAL", "CHANGED", "UNCHANGED", "INCREASED", "DECREASED"}

ASSUME SearchAssumption ==
  /\ ByteBase \in Nat /\ ByteBase % 2 = 0 /\ ByteBase > 0
  /\ OffsetBytes \in Nat \ {0}

\* Sizes are of type size_t, and addresses lie in the address space.
IsCall(c) ==
  /\ {c.current, c.previous, c.candidates, c.query, c.out_offsets, c.written,
      c.total_matches, c.size, c.candidate_count, c.capacity} \subseteq 0 .. AddressMax
  /\ {c.value_bits, c.stride} \subseteq Nat
  /\ c.function \in {"initial", "refine"}

\* A memory is made of bytes, and whatever the caller passes lies in it; only
\* an output larger than the address space cannot.
Holds(m, c) ==
  /\ DOMAIN m \subseteq 1 .. AddressMax
  /\ \A a \in DOMAIN m : m[a] \in 0 .. ByteBase - 1
  /\ \A buffer \in {<<c.current, c.size>>, <<c.previous, c.size>>,
                    <<c.candidates, c.candidate_count * OffsetBytes>>,
                    <<c.written, 1>>, <<c.total_matches, 1>>} :
       Cells(buffer) \subseteq DOMAIN m
  /\ ProductFits(c.capacity, OffsetBytes) =>
       Cells(<<c.out_offsets, c.capacity * OffsetBytes>>) \subseteq DOMAIN m

ASSUME CallsAssumption == \A c \in Calls : IsCall(c)

ASSUME MemoriesAssumption == \A c \in Calls : \A m \in Memories(c) : Holds(m, c)

-----------------------------------------------------------------------------
(***************************************************************************)
(* Scalars.                                                                *)
(***************************************************************************)

vc_scalar_width(type) ==
  CASE type \in {"U8", "S8"}   -> 1
    [] type \in {"U16", "S16"} -> 2
    [] type \in {"U32", "S32"} -> 4
    [] OTHER -> 0

\* 1 shifted left by i bytes.
Weight[i \in Nat] == IF i = 0 THEN 1 ELSE ByteBase * Weight[i - 1]

\* Bits under vc_width_mask.
Masked(bits, width) == bits % Weight[width]

vc_read_little_endian(m, address, width) ==
  LET value[i \in 0 .. width] ==
        IF i = 0 THEN 0 ELSE value[i - 1] + m[address + i - 1] * Weight[i - 1]
  IN  value[width]

vc_signed_value_NoSign(bits, width) == Masked(bits, width)

vc_signed_value(bits, width) ==
  LET value == Masked(bits, width)
      modulus == Weight[width]
  IN  IF value >= modulus \div 2 THEN -(((modulus - 1) - value) + 1) ELSE value

\* Whether b is above a in the order of the type.
Above(type, a, b, width) ==
  IF type \in {"S8", "S16", "S32"}
  THEN vc_signed_value(b, width) > vc_signed_value(a, width)
  ELSE b > a

vc_matches(type, relation, previous, current, constant, width) ==
  LET p == Masked(previous, width)
      c == Masked(current, width)
      k == Masked(constant, width)
  IN  CASE relation = "EQUAL"     -> c = k
        [] relation = "NOT_EQUAL" -> c # k
        [] relation = "CHANGED"   -> c # p
        [] relation = "UNCHANGED" -> c = p
        [] relation = "INCREASED" -> Above(type, p, c, width)
        [] relation = "DECREASED" -> Above(type, c, p, width)

width == vc_scalar_width(call.type)

Matches(previous, current) ==
  vc_matches(call.type, call.relation, previous, current, call.value_bits, width)

-----------------------------------------------------------------------------
(***************************************************************************)
(* The caller's buffers.                                                   *)
(***************************************************************************)

region ==
  [current    |-> <<call.current, call.size>>,
   previous   |-> <<call.previous, call.size>>,
   candidates |-> <<call.candidates, Product(call.candidate_count, OffsetBytes)>>,
   out        |-> <<call.out_offsets, Product(call.capacity, OffsetBytes)>>,
   written    |-> <<call.written, 1>>,
   total      |-> <<call.total_matches, 1>>,
   query      |-> <<call.query, 1>>]

\* Element i of an array of offsets.
OffsetAt(m, array, i) == vc_read_little_endian(m, array + i * OffsetBytes, OffsetBytes)

\* Storing an offset as uint32_t keeps its low bytes.
StoreOffset(array, i, offset) ==
  LET first == array + i * OffsetBytes
  IN  [a \in DOMAIN memory |->
         IF a \in first .. first + OffsetBytes - 1
         THEN (offset \div Weight[a - first]) % ByteBase
         ELSE memory[a]]

StoreCounters_WrittenTwice(written, total) ==
  [memory EXCEPT ![call.written] = written, ![call.total_matches] = written]

StoreCounters(written, total) ==
  [memory EXCEPT ![call.written] = written, ![call.total_matches] = total]

-----------------------------------------------------------------------------
(***************************************************************************)
(* Validation.                                                             *)
(***************************************************************************)

vc_size_is_representable_Always(size) == TRUE

vc_size_is_representable(size) == size <= Weight[OffsetBytes]

ArgumentsPresent ==
  /\ call.written # 0 /\ call.total_matches # 0 /\ call.query # 0
  /\ call.current = 0 => call.size = 0
  /\ call.out_offsets = 0 => call.capacity = 0
  /\ vc_size_is_representable(call.size)

QueryValid == width # 0 /\ call.stride # 0 /\ call.relation \in Relations

CommonPairs ==
  {<<"written", "total">>,
   <<"out", "current">>, <<"out", "query">>, <<"out", "written">>, <<"out", "total">>,
   <<"written", "current">>, <<"total", "current">>,
   <<"written", "query">>, <<"total", "query">>}

vc_validate_common ==
  IF ~ArgumentsPresent THEN "INVALID_ARGUMENT"
  ELSE IF ~QueryValid THEN "INVALID_QUERY"
  ELSE IF ~ProductFits(call.capacity, OffsetBytes) \/ AnyOverlap(region, CommonPairs)
  THEN "INVALID_ARGUMENT"
  ELSE "OK"

vc_validate_candidates ==
  IF call.candidates = 0 /\ call.candidate_count # 0 THEN "INVALID_ARGUMENT"
  ELSE IF \E i \in 0 .. call.candidate_count - 1 :
            LET offset == OffsetAt(memory, call.candidates, i)
            IN  \/ i # 0 /\ OffsetAt(memory, call.candidates, i - 1) >= offset
                \/ offset > call.size
                \/ width > call.size - offset
  THEN "INVALID_CANDIDATES"
  ELSE "OK"

PreviousPairs ==
  {<<"previous", "out">>, <<"written", "previous">>, <<"total", "previous">>,
   <<"written", "candidates">>, <<"total", "candidates">>}

RefinePairs_AnyAlias == PreviousPairs

\* The output may start where the candidates do, and nowhere else in them.
RefinePairs ==
  PreviousPairs \cup
    IF call.out_offsets = call.candidates THEN {} ELSE {<<"candidates", "out">>}

InitialStatus ==
  IF vc_validate_common # "OK" THEN vc_validate_common
  ELSE IF call.relation \notin {"EQUAL", "NOT_EQUAL"} THEN "INVALID_QUERY"
  ELSE "OK"

RefineStatus ==
  IF vc_validate_common # "OK" THEN vc_validate_common
  ELSE IF call.previous = 0 /\ call.size # 0 THEN "INVALID_ARGUMENT"
  ELSE IF vc_validate_candidates # "OK" THEN vc_validate_candidates
  ELSE IF ~ProductFits(call.candidate_count, OffsetBytes) \/ AnyOverlap(region, RefinePairs)
  THEN "INVALID_ARGUMENT"
  ELSE "OK"

EntryStatus == IF call.function = "initial" THEN InitialStatus ELSE RefineStatus

-----------------------------------------------------------------------------
(***************************************************************************)
(* The two loops.                                                          *)
(***************************************************************************)

Refuse ==
  /\ pc = "entry"
  /\ EntryStatus # "OK"
  /\ pc' = "done"
  /\ status' = EntryStatus
  /\ UNCHANGED <<call, memory, index, local_written, local_total, before>>

Accept ==
  /\ pc = "entry"
  /\ EntryStatus = "OK"
  /\ pc' = IF call.function = "refine" THEN "refining"
           ELSE IF call.size < width THEN "returning" ELSE "scanning"
  /\ UNCHANGED <<call, memory, index, local_written, local_total, status, before>>

Emit_Unbounded(matches, offset) ==
  IF matches
  THEN /\ memory' = StoreOffset(call.out_offsets, local_written, offset)
       /\ local_written' = local_written + 1
       /\ local_total' = local_total + 1
  ELSE UNCHANGED <<memory, local_written, local_total>>

Emit_CountsTheRest(matches, offset) ==
  LET stores == matches /\ local_written < call.capacity
  IN  /\ memory' = IF stores THEN StoreOffset(call.out_offsets, local_written, offset)
                   ELSE memory
      /\ local_written' = local_written + (IF stores THEN 1 ELSE 0)
      /\ local_total' = local_total + (IF matches /\ ~stores THEN 1 ELSE 0)

\* A match is counted, and stored while there is room.
Emit(matches, offset) ==
  LET stores == matches /\ local_written < call.capacity
  IN  /\ memory' = IF stores THEN StoreOffset(call.out_offsets, local_written, offset)
                   ELSE memory
      /\ local_written' = local_written + (IF stores THEN 1 ELSE 0)
      /\ local_total' = local_total + (IF matches THEN 1 ELSE 0)

StrideEnds_Wraps(offset) ==
  (offset + call.stride) % (AddressMax + 1) > call.size - width

\* The next offset would be past the last one; the comparison is arranged so
\* that it does not have to be computed.
StrideEnds(offset) == call.stride > (call.size - width) - offset

Scan ==
  /\ pc = "scanning"
  /\ Emit(Matches(0, vc_read_little_endian(memory, call.current + index, width)), index)
  /\ IF StrideEnds(index) THEN pc' = "returning" /\ UNCHANGED index
     ELSE /\ index' = (index + call.stride) % (AddressMax + 1)
          /\ UNCHANGED pc
  /\ UNCHANGED <<call, status, before>>

Refine ==
  LET offset == OffsetAt(memory, call.candidates, index)
  IN  /\ pc = "refining"
      /\ index < call.candidate_count
      /\ Emit(Matches(vc_read_little_endian(memory, call.previous + offset, width),
                      vc_read_little_endian(memory, call.current + offset, width)),
              offset)
      /\ index' = index + 1
      /\ UNCHANGED <<call, pc, status, before>>

Return ==
  /\ pc = "returning" \/ (pc = "refining" /\ index = call.candidate_count)
  /\ pc' = "done"
  /\ memory' = StoreCounters(local_written, local_total)
  /\ status' = IF local_total > call.capacity THEN "TRUNCATED" ELSE "OK"
  /\ UNCHANGED <<call, index, local_written, local_total, before>>

Init ==
  /\ call \in Calls
  /\ memory \in Memories(call)
  /\ pc = "entry"
  /\ index = 0
  /\ local_written = 0
  /\ local_total = 0
  /\ status = "NONE"
  /\ before = memory

Next == Refuse \/ Accept \/ Scan \/ Refine \/ Return

Spec == Init /\ [][Next]_vars

\* The calling thread keeps running.
FairSpec == Spec /\ WF_vars(Next)

-----------------------------------------------------------------------------
(***************************************************************************)
(* The reference, over the memory that the call found.                     *)
(***************************************************************************)

\* The number that the scalar at an address means: the one in the range of
\* the type that agrees with the bytes modulo their number of values.
ValueOf(address) ==
  LET modulus == Weight[width]
      low == IF call.type \in {"S8", "S16", "S32"} THEN -(modulus \div 2) ELSE 0
  IN  CHOOSE v \in low .. low + modulus - 1 :
        (v - vc_read_little_endian(before, address, width)) % modulus = 0

Satisfies(offset) ==
  LET c == ValueOf(call.current + offset)
      p == ValueOf(call.previous + offset)
  IN  CASE call.relation = "EQUAL"     -> (c - call.value_bits) % Weight[width] = 0
        [] call.relation = "NOT_EQUAL" -> (c - call.value_bits) % Weight[width] # 0
        [] call.relation = "CHANGED"   -> c # p
        [] call.relation = "UNCHANGED" -> c = p
        [] call.relation = "INCREASED" -> c > p
        [] call.relation = "DECREASED" -> c < p

Examined ==
  IF call.function = "initial"
  THEN {o \in 0 .. call.size - width : o % call.stride = 0}
  ELSE {OffsetAt(before, call.candidates, i) : i \in 0 .. call.candidate_count - 1}

\* What the call has looked at so far.
Passed ==
  CASE pc \in {"scanning", "refining"} ->
         IF call.function = "initial" THEN {o \in Examined : o < index}
         ELSE {OffsetAt(before, call.candidates, i) : i \in 0 .. index - 1}
    [] OTHER -> Examined

Found == {o \in Passed : Satisfies(o)}

Running  == pc \in {"scanning", "refining", "returning"}
Accepted == Running \/ status \in {"OK", "TRUNCATED"}

Inputs ==
  {"current", "query"} \cup IF call.function = "refine" THEN {"previous", "candidates"} ELSE {}

Outputs == {"out", "written", "total"}

InPlace == call.function = "refine" /\ call.out_offsets = call.candidates

\* What a caller has to respect, by the addresses of the buffers.
Legal ==
  /\ call.written # 0 /\ call.total_matches # 0 /\ call.query # 0
  /\ call.size # 0 =>
       call.current # 0 /\ (call.function = "refine" => call.previous # 0)
  /\ call.capacity # 0 => call.out_offsets # 0
  /\ call.size <= Weight[OffsetBytes]
  /\ call.capacity * OffsetBytes <= AddressMax
  /\ call.type \in Types /\ call.stride # 0
  /\ call.relation \in IF call.function = "refine" THEN Relations
                       ELSE {"EQUAL", "NOT_EQUAL"}
  /\ \A r \in Outputs, s \in Inputs \cup Outputs :
       \/ r = s
       \/ InPlace /\ r = "out" /\ s = "candidates"
       \/ Cells(region[r]) \cap Cells(region[s]) = {}

CandidatesLegal ==
  call.function = "refine" =>
    /\ call.candidate_count # 0 => call.candidates # 0
    /\ \A i \in 0 .. call.candidate_count - 1 :
         /\ OffsetAt(before, call.candidates, i) <= call.size - width
         /\ \A j \in 0 .. i - 1 :
              OffsetAt(before, call.candidates, j) < OffsetAt(before, call.candidates, i)

-----------------------------------------------------------------------------
(***************************************************************************)
(* Properties.                                                             *)
(***************************************************************************)

\* The loop variables stay in their ranges: no offset is computed that does
\* not fit in size_t, and no more is stored than is counted.
TypeOK ==
  /\ pc \in {"entry", "scanning", "refining", "returning", "done"}
  /\ status \in {"NONE", "OK", "TRUNCATED", "INVALID_ARGUMENT", "INVALID_QUERY",
                 "INVALID_CANDIDATES"}
  /\ index \in 0 .. AddressMax
  /\ local_total \in 0 .. call.size + call.candidate_count
  /\ local_written \in 0 .. local_total
  /\ DOMAIN memory = DOMAIN before

\* At every turn of either loop, in place or not, the output holds the least
\* matches among the offsets passed so far, in ascending order and as they
\* were before the call, as many as the capacity allows, and local_total
\* counts all of them; on return the caller's counters say so, and the status
\* whether they fitted.  The result is that of a filter on the whole input.
OutputIsFirstMatches ==
  Accepted =>
    /\ local_total = Cardinality(Found)
    /\ local_written = IF local_total < call.capacity THEN local_total ELSE call.capacity
    /\ \A i \in 0 .. local_written - 1 :
         LET o == OffsetAt(memory, call.out_offsets, i)
         IN  o \in Found /\ Cardinality({f \in Found : f < o}) = i
    /\ pc = "done" =>
         /\ memory[call.written] = local_written
         /\ memory[call.total_matches] = Cardinality(Found)
         /\ status = "TRUNCATED" <=> Cardinality(Found) > call.capacity

\* The part of the candidates that the loop has still to read.
Unread ==
  Cells(<<call.candidates + index * OffsetBytes,
          (call.candidate_count - index) * OffsetBytes>>)

\* In-place compaction never overtakes its reader: what the loop has still
\* to read is as the caller left it.
UnreadCandidatesIntact ==
  pc = "refining" =>
    /\ local_written <= index
    /\ \A a \in Unread : memory[a] = before[a]

\* Every call returns, whatever the stride: stepping never comes back to an
\* offset that has been passed.
Terminates == <>(pc = "done")

\* A call writes to its outputs only, so both snapshots, the query and (but
\* for in-place compaction) the candidates survive it, and a refused call
\* writes nothing at all.
OnlyOutputsWritten ==
  \A a \in DOMAIN memory :
    memory[a] # before[a] =>
      Accepted /\ a \in UNION {Cells(region[r]) : r \in Outputs}

\* A call runs exactly when the caller kept to the contract of search.h: no
\* pair of buffers is forgotten, whatever the layout, and no legal layout is
\* refused unless one of its buffers ends at the top of the address space.
RunsExactlyWhenLegal ==
  pc # "entry" =>
    IF Accepted THEN Legal /\ CandidatesLegal
    ELSE \/ ~Legal
         \/ ~CandidatesLegal
         \/ \E r \in Inputs \cup Outputs : ~BelowTop(region[r])
=============================================================================
