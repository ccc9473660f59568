---------------------------- MODULE ScannerTest -----------------------------
(***************************************************************************)
(* run_scanner_self_test of vita-self-test/main.c: six searches over the   *)
(* application's static buffers, each followed by a check.  The user may   *)
(* run it again and again, and every run finds in the buffers what the     *)
(* last one left there.  The searches are those of Search.                 *)
(***************************************************************************)
EXTENDS Search, Sequences

VARIABLES
  step,    \* the search in progress, 7 when the report has been returned
  report   \* self_test_result, with the match counts as a sequence

SNAPSHOT_BYTES  == 64
RESULT_CAPACITY == 16

\* Addresses of the static buffers and of the local variables.
previous_snapshot == 1
current_snapshot  == previous_snapshot + SNAPSHOT_BYTES
candidates        == current_snapshot + SNAPSHOT_BYTES
refined           == candidates + RESULT_CAPACITY * OffsetBytes
in_place          == refined + RESULT_CAPACITY * OffsetBytes
written           == in_place + 3 * OffsetBytes
total             == written + 1
query             == total + 1

-----------------------------------------------------------------------------
write_u32_le(m, array, offset, value) ==
  [a \in DOMAIN m |->
     LET i == a - (array + offset)
     IN  IF i \in 0 .. 3 THEN (value \div Weight[i]) % ByteBase ELSE m[a]]

memcpy(m, to, from, bytes) ==
  [a \in DOMAIN m |-> IF a \in to .. to + bytes - 1 THEN m[from + a - to] ELSE m[a]]

offsets_equal(array, count, expected) ==
  /\ count = Len(expected)
  /\ \A i \in 1 .. count : OffsetAt(memory, array, i - 1) = expected[i]

Request(function, relation, value, list, output, capacity) ==
  [function |-> function, current |-> current_snapshot, previous |-> previous_snapshot,
   size |-> SNAPSHOT_BYTES, candidates |-> list, candidate_count |-> 3,
   out_offsets |-> output, capacity |-> capacity, query |-> query,
   written |-> written, total_matches |-> total,
   type |-> "U32", relation |-> relation, value_bits |-> value, stride |-> 4]

\* The exact search is made on the earlier snapshot.
Exact(output, capacity) ==
  [Request("initial", "EQUAL", 100, 0, output, capacity) EXCEPT !.current = previous_snapshot]

refine(relation) ==
  Request("refine", relation, 0, candidates, refined, RESULT_CAPACITY)

Script ==
  <<Exact(candidates, RESULT_CAPACITY),
    refine("CHANGED"),
    refine("INCREASED"),
    Request("refine", "DECREASED", 0, in_place, in_place, 3),
    refine("UNCHANGED"),
    Exact(refined, 2)>>

Expected ==
  <<[status |-> "OK", total |-> 3, offsets |-> <<4, 20, 36>>],
    [status |-> "OK", total |-> 2, offsets |-> <<4, 36>>],
    [status |-> "OK", total |-> 1, offsets |-> <<4>>],
    [status |-> "OK", total |-> 1, offsets |-> <<36>>],
    [status |-> "OK", total |-> 1, offsets |-> <<20>>],
    [status |-> "TRUNCATED", total |-> 3, offsets |-> <<4, 20>>]>>

\* What is done to the buffers before a search.
Buffers(m, k) ==
  CASE k = 1 ->
         LET zeroed == [a \in DOMAIN m |-> IF a \in 1 .. SNAPSHOT_BYTES THEN 0 ELSE m[a]]
             four   == write_u32_le(zeroed, previous_snapshot, 4, 100)
             twenty == write_u32_le(four, previous_snapshot, 20, 100)
         IN  write_u32_le(twenty, previous_snapshot, 36, 100)
    [] k = 2 ->
         LET copy == memcpy(m, current_snapshot, previous_snapshot, SNAPSHOT_BYTES)
             four == write_u32_le(copy, current_snapshot, 4, 120)
         IN  write_u32_le(four, current_snapshot, 36, 80)
    [] k = 4 -> memcpy(m, in_place, candidates, 3 * OffsetBytes)
    [] OTHER -> m

Prepared(m, k) == [Buffers(m, k) EXCEPT ![written] = 0, ![total] = 0]

-----------------------------------------------------------------------------
NoReport == [checks |-> 0, failures |-> 0, matches |-> <<>>]

\* The memory a run starts from: in_place is on the stack and holds garbage.
Fresh(m) ==
  {[a \in DOMAIN m |-> IF a \in in_place .. written - 1 THEN garbage ELSE m[a]] :
     garbage \in {0, 1, ByteBase - 1}}

\* The first run: static storage is zero.
FirstCall == {Script[1]}
FirstMemory(c) == {Prepared(m, 1) : m \in Fresh([a \in 1 .. query |-> 0])}

\* The numbers that the test writes fit in one byte, and its buffers do not
\* reach the top of the address space.
ASSUME ScannerAssumption ==
  /\ OffsetBytes = 4 /\ ByteBase > 120 /\ query < AddressMax
  /\ Calls = FirstCall
  /\ \A c \in Calls : Memories(c) = FirstMemory(c)

TestInit ==
  /\ Init
  /\ step = 1
  /\ report = NoReport

Start(k, m) ==
  /\ call' = Script[k]
  /\ memory' = Prepared(m, k)
  /\ before' = memory'
  /\ pc' = "entry"
  /\ status' = "NONE"
  /\ index' = 0 /\ local_written' = 0 /\ local_total' = 0

Passes ==
  /\ status = Expected[step].status
  /\ memory[total] = Expected[step].total
  /\ offsets_equal(call.out_offsets, memory[written], Expected[step].offsets)

\* check, and on to the next search.
check ==
  /\ pc = "done"
  /\ step <= Len(Script)
  /\ report' = [checks   |-> report.checks + 1,
                failures |-> report.failures + (IF Passes THEN 0 ELSE 1),
                matches  |-> IF step <= 5 THEN Append(report.matches, memory[total])
                             ELSE report.matches]
  /\ step' = step + 1
  /\ IF step < Len(Script) THEN Start(step + 1, memory) ELSE UNCHANGED vars

\* Cross is pressed in the menu again.
RunAgain ==
  /\ step = Len(Script) + 1
  /\ report' = NoReport
  /\ step' = 1
  /\ \E m \in Fresh(memory) : Start(1, m)

Searching == Next /\ UNCHANGED <<step, report>>

TestSpec == TestInit /\ [][Searching \/ check \/ RunAgain]_<<vars, step, report>>

-----------------------------------------------------------------------------
\* The scanner self-test passes on every run, the residue of earlier runs in
\* candidates, refined, in_place and both snapshots notwithstanding, and the
\* result screen shows the counts that it announces as expected.
EveryRunPasses ==
  /\ report.failures = 0
  /\ step = Len(Script) + 1 => report.checks = 6 /\ report.matches = <<3, 2, 1, 1, 1>>
=============================================================================
