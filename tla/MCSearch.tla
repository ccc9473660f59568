------------------------------ MODULE MCSearch ------------------------------
(***************************************************************************)
(* The calls and memories of the two instances of Search: MCSearchValues   *)
(* varies what the buffers hold, MCSearchLayouts where they are.           *)
(***************************************************************************)
EXTENDS Search, Sequences

\* The low bytes, low first, of each offset of a list.
Stored(list) ==
  [i \in 1 .. Len(list) * OffsetBytes |->
     (list[(i + OffsetBytes - 1) \div OffsetBytes]
        \div ByteBase ^ ((i - 1) % OffsetBytes)) % ByteBase]

\* The cells of m, with the bytes of a sequence from an address on.
Laid(m, address, bytes) ==
  [a \in DOMAIN m |-> IF a \in address .. address + Len(bytes) - 1
                      THEN bytes[a - address + 1] ELSE m[a]]

-----------------------------------------------------------------------------
(***************************************************************************)
(* Values: every content of two snapshots of three or four cells of one    *)
(* bit, every list of candidates and every query.                          *)
(***************************************************************************)

ValuesCall ==
  [function |-> "refine", current |-> 1, previous |-> 6, candidates |-> 11,
   query |-> 27, out_offsets |-> 17, written |-> 25, total_matches |-> 26,
   size |-> 3, candidate_count |-> 0, capacity |-> 2,
   type |-> "U8", relation |-> "EQUAL", value_bits |-> 6, stride |-> 1]

ValuesMemory(current, previous, list) ==
  Laid(Laid(Laid([a \in 1 .. 27 |-> 0], 1, current), 6, previous), 11, Stored(list))

Bytes(n) == [1 .. n -> 0 .. ByteBase - 1]

\* Ascending lists, two that are not, and one whose last is past the end.
Lists == {<<>>, <<0>>, <<1>>, <<2>>, <<0, 1>>, <<0, 2>>, <<1, 2>>, <<0, 1, 2>>,
          <<1, 1>>, <<2, 0>>, <<0, 3>>}

RefineNarrow ==
  {[ValuesCall EXCEPT !.candidate_count = n, !.type = t, !.relation = r, !.value_bits = v,
      !.capacity = c, !.out_offsets = out] :
     n \in 0 .. 3, t \in {"U8", "S8", "S16"}, r \in Relations, v \in {1, 6},
     c \in {0, 1, 3}, out \in {11, 17}}

RefineWide ==
  {[ValuesCall EXCEPT !.size = 4, !.candidate_count = 1, !.type = t, !.relation = r,
      !.value_bits = v] :
     t \in {"U16", "S16", "U32", "S32"}, r \in Relations, v \in {1, 22}}

Initials ==
  {[ValuesCall EXCEPT !.function = "initial", !.size = n, !.type = t, !.relation = r,
      !.value_bits = v, !.capacity = c, !.stride = s] :
     n \in {0, 1, 3, 4, 5}, t \in {"U8", "S16", "U32", "BAD"},
     r \in {"EQUAL", "NOT_EQUAL", "CHANGED", "BAD"}, v \in {1, 22},
     c \in {0, 2}, s \in {0, 1, 2, 4, 30}}

ValuesCalls == RefineNarrow \cup RefineWide \cup Initials

ValuesMemories(c) ==
  {ValuesMemory(current, previous, list) :
     current \in Bytes(c.size),
     previous \in IF c.function = "initial" THEN {<<>>}
                  ELSE IF c.size = 4 THEN Bytes(4) ELSE {<<0, 1, 0>>, <<1, 0, 1>>},
     list \in {l \in Lists : Len(l) = c.candidate_count}}

-----------------------------------------------------------------------------
(***************************************************************************)
(* Layouts: from one layout in which no two buffers touch, two of the      *)
(* seven are moved to every pair of addresses, NULL and the last address   *)
(* included, and the two lists keep one or two elements.                   *)
(***************************************************************************)

Top == AddressMax

Start == [current |-> 1, previous |-> 3, candidates |-> 5, out_offsets |-> 9,
          written |-> 13, total_matches |-> 14, query |-> 15]

Objects == DOMAIN Start

Placed(f, at, count, capacity, relation) ==
  [function |-> f, current |-> at.current, previous |-> at.previous,
   candidates |-> at.candidates, query |-> at.query, out_offsets |-> at.out_offsets,
   written |-> at.written, total_matches |-> at.total_matches,
   size |-> 2, candidate_count |-> count, capacity |-> capacity,
   type |-> "U8", relation |-> relation, value_bits |-> 1, stride |-> 1]

Sizes(c) == [current |-> c.size, previous |-> c.size,
             candidates |-> c.candidate_count * OffsetBytes,
             out_offsets |-> c.capacity * OffsetBytes,
             written |-> 1, total_matches |-> 1, query |-> 1]

\* The buffers lie inside the address space.
Fits(c) == \A o \in Objects : c[o] = 0 \/ c[o] + Sizes(c)[o] - 1 <= Top

Moved == {[Start EXCEPT ![o] = a, ![p] = b] : o, p \in Objects, a, b \in 0 .. Top}

LargeCall(size, stride, value) ==
  [Placed("initial", [Start EXCEPT !.out_offsets = 0], 0, 0, "EQUAL")
     EXCEPT !.size = size, !.stride = stride, !.value_bits = value]

\* Snapshots of more than half of the address space, scanned with a stride
\* that would wrap; an output of more bytes than there are addresses.
HugeCalls ==
  {LargeCall(11, s, 1) : s \in {1, 10, 11, 17}}
    \cup {LargeCall(10, 9, 2), Placed("initial", Start, 0, Top, "EQUAL")}

LayoutCalls ==
  HugeCalls \cup
  {c \in {Placed(f, at, n, k, "NOT_EQUAL") : f \in {"initial", "refine"}, at \in Moved,
            n \in {0, 2}, k \in {1, 2}} : Fits(c)}

LayoutMemories(c) ==
  {Laid([a \in 1 .. Top |-> a % 2], c.candidates,
        IF c.candidate_count = 0 THEN <<>> ELSE Stored(<<0, 1>>))}
=============================================================================
