----------------------------- MODULE LegacyPsv -----------------------------
(***************************************************************************)
(* The legacy .psv importer of src/legacy_psv.c: one pass over the lines   *)
(* of a file that fills three caller-owned arrays which point at each      *)
(* other, taints cheats that contain anything not understood, and hands    *)
(* out all of it or nothing.                                               *)
(*                                                                         *)
(* A line of the source is reduced to the class that trimming and          *)
(* parse_code give it; the file is chosen line by line.  Arrays and        *)
(* indexes are counted from 1 and NoIndex stands for VC_PSV_NO_INDEX.  An   *)
(* array is the sequence of the records stored in it, so that stored_lines *)
(* is Len(lines), and zeroing an array empties the sequence.               *)
(*                                                                         *)
(* As in Pause, a definition named after another with a suffix is a faulty *)
(* variant that Spec never uses.                                           *)
(***************************************************************************)
EXTENDS Integers, Sequences, FiniteSets

CONSTANTS
  Capacities,       \* the <<lines, cheats, operations>> capacities of callers
  LegacyMaxCheats,  \* VC_PSV_LEGACY_MAX_CHEATS
  LegacyMaxCodes,   \* VC_PSV_LEGACY_MAX_CODES_PER_CHEAT
  MaxSourceLines    \* bound on the lines of a file

ASSUME LegacyPsvAssumption ==
  /\ Capacities \subseteq Nat \X Nat \X Nat
  /\ LegacyMaxCheats \in Nat
  /\ LegacyMaxCodes \in Nat
  /\ MaxSourceLines \in Nat

VARIABLES
  \* the caller's arrays and their capacities
  lines, cheats, operations, capacity,
  \* the counters of vc_psv_report
  total_lines, total_cheats, total_operations, unsupported_operations,
  non_direct_cheats, invalid_operation_sequences, malformed_lines,
  legacy_limit_violations,
  \* the locals of vc_psv_parse
  active_cheat, active_cheat_operation_count, active_cheat_tainted,
  relative_base_active, relative_write_seen,
  \* the progress of the call
  pc, status,
  \* history: the lines read so far
  source

outputs == <<lines, cheats, operations>>
totals  == <<total_lines, total_cheats, total_operations>>
alarms  == <<unsupported_operations, non_direct_cheats,
             invalid_operation_sequences, malformed_lines,
             legacy_limit_violations>>
context == <<active_cheat, active_cheat_operation_count, active_cheat_tainted,
             relative_base_active, relative_write_seen>>

vars == <<outputs, capacity, totals, alarms, context, pc, status, source>>

-----------------------------------------------------------------------------
\* What a trimmed line can be.  A "selector" has a module serial and a segment
\* in range, a "bad_selector" has not; "bad_code" starts with '$' and is not
\* accepted by parse_code; "bad_header" is "_V" and more, but no header.
LineClasses ==
  {"blank", "comment", "header", "long_header", "bad_header",
   "write", "selector", "bad_selector", "opaque_code", "bad_code", "opaque"}

Headers   == {"header", "long_header"}
CodeLines == {"write", "selector", "bad_selector", "opaque_code"}

\* vc_psv_operation_kind of a code line; the width of a write is left out.
operation_kind(class) ==
  CASE class = "write" -> "WRITE"
    [] class \in {"selector", "bad_selector"} -> "SELECT_MODULE_BASE"
    [] class = "opaque_code" -> "OPAQUE"

\* vc_psv_translation_state, in the order of the enumeration.
DirectOnly          == 0
ModuleRelative      == 1
RequiresUnsupported == 2
Malformed           == 3

NoIndex == 0

line_capacity      == capacity[1]
cheat_capacity     == capacity[2]
operation_capacity == capacity[3]

-----------------------------------------------------------------------------
(***************************************************************************)
(* taint_active_cheat(state): what it leaves in each place.                *)
(***************************************************************************)

Taints(state) == active_cheat # NoIndex /\ state # DirectOnly

TaintedCheats_LastWins(state) ==
  IF Taints(state) /\ active_cheat <= cheat_capacity
  THEN [cheats EXCEPT ![active_cheat].translation_state = state]
  ELSE cheats

TaintedCheats(state) ==
  IF /\ Taints(state)
     /\ active_cheat <= cheat_capacity
     /\ state > cheats[active_cheat].translation_state
  THEN [cheats EXCEPT ![active_cheat].translation_state = state]
  ELSE cheats

NonDirectAfter_OnlyStored(state) ==
  IF Taints(state) /\ ~active_cheat_tainted /\ active_cheat <= cheat_capacity
  THEN non_direct_cheats + 1
  ELSE non_direct_cheats

NonDirectAfter(state) ==
  IF Taints(state) /\ ~active_cheat_tainted
  THEN non_direct_cheats + 1
  ELSE non_direct_cheats

TaintActiveCheat(state) ==
  /\ cheats' = TaintedCheats(state)
  /\ non_direct_cheats' = NonDirectAfter(state)
  /\ active_cheat_tainted' = (active_cheat_tainted \/ Taints(state))

\* finalize_active_cheat: a selector that no typed write has followed.
DanglingSelector ==
  active_cheat # NoIndex /\ relative_base_active /\ ~relative_write_seen

FinalTaint == IF DanglingSelector THEN Malformed ELSE DirectOnly

InvalidAfterFinalize ==
  invalid_operation_sequences + (IF DanglingSelector THEN 1 ELSE 0)

store_line_Unbounded(kind, cheat, operation) ==
  /\ lines' = Append(lines, [kind |-> kind, cheat_index |-> cheat,
                             operation_index |-> operation])
  /\ total_lines' = total_lines + 1

\* store_line with the kind and the indexes the line ends up with.
store_line(kind, cheat, operation) ==
  /\ lines' = IF total_lines < line_capacity
              THEN Append(lines, [kind |-> kind, cheat_index |-> cheat,
                                  operation_index |-> operation])
              ELSE lines
  /\ total_lines' = total_lines + 1

\* A header, good or bad, closes the cheat before it.
OpenCheat(index) ==
  /\ active_cheat' = index
  /\ active_cheat_operation_count' = 0
  /\ active_cheat_tainted' = FALSE
  /\ relative_base_active' = FALSE
  /\ relative_write_seen' = FALSE

-----------------------------------------------------------------------------
(***************************************************************************)
(* The turns of the parsing loop, one for each branch of its body.         *)
(***************************************************************************)

\* Blank lines and comments.
SkippedLine(class) ==
  /\ class \in {"blank", "comment"}
  /\ store_line(class, NoIndex, NoIndex)
  /\ UNCHANGED <<cheats, operations, total_cheats, total_operations, alarms, context>>

\* A bad header ends the cheat before it and opens none.
BadHeaderLine(class) ==
  /\ class = "bad_header"
  /\ store_line("malformed", NoIndex, NoIndex)
  /\ malformed_lines' = malformed_lines + 1
  /\ invalid_operation_sequences' = InvalidAfterFinalize
  /\ cheats' = TaintedCheats(Malformed)
  /\ non_direct_cheats' = NonDirectAfter(Malformed)
  /\ OpenCheat(NoIndex)
  /\ UNCHANGED <<operations, total_cheats, total_operations,
                 unsupported_operations, legacy_limit_violations>>

HeaderLine(class) ==
  LET index == total_cheats + 1
      cheat == [translation_state |-> DirectOnly,
                header_line_index |-> total_lines + 1,
                first_operation_index |-> total_operations + 1,
                operation_count |-> 0]
      long  == IF class = "long_header" THEN 1 ELSE 0
      many  == IF index = LegacyMaxCheats + 1 THEN 1 ELSE 0
  IN  /\ class \in Headers
      /\ store_line("header", index, NoIndex)
      /\ cheats' = IF index <= cheat_capacity
                   THEN Append(TaintedCheats(FinalTaint), cheat)
                   ELSE TaintedCheats(FinalTaint)
      /\ non_direct_cheats' = NonDirectAfter(FinalTaint)
      /\ invalid_operation_sequences' = InvalidAfterFinalize
      /\ total_cheats' = index
      /\ legacy_limit_violations' = legacy_limit_violations + long + many
      /\ OpenCheat(index)
      /\ UNCHANGED <<operations, total_operations, unsupported_operations,
                     malformed_lines>>

\* A '$' line outside a cheat, or one parse_code refuses.
BadCodeLine(class) ==
  /\ class = "bad_code" \/ (class \in CodeLines /\ active_cheat = NoIndex)
  /\ store_line("malformed", NoIndex, NoIndex)
  /\ malformed_lines' = malformed_lines + 1
  /\ TaintActiveCheat(Malformed)
  /\ UNCHANGED <<operations, total_cheats, total_operations,
                 unsupported_operations, invalid_operation_sequences,
                 legacy_limit_violations, active_cheat,
                 active_cheat_operation_count, relative_base_active,
                 relative_write_seen>>

SelectorAccepted_Anywhere(class) == class = "selector"

\* Only a well-formed selector that is the first operation of its cheat.
SelectorAccepted(class) ==
  /\ class = "selector"
  /\ active_cheat_operation_count = 0
  /\ ~relative_base_active

CodeTaint(class) ==
  CASE operation_kind(class) = "WRITE" -> DirectOnly
    [] operation_kind(class) = "OPAQUE" -> RequiresUnsupported
    [] OTHER -> IF SelectorAccepted(class) THEN ModuleRelative ELSE Malformed

AddressMode(class) ==
  IF operation_kind(class) # "WRITE" THEN "NOT_APPLICABLE"
  ELSE IF relative_base_active THEN "SELECTED_MODULE_RELATIVE" ELSE "ABSOLUTE"

\* operation_count of the active cheat, when that cheat is stored.
CountedCheats(state) ==
  IF active_cheat <= cheat_capacity
  THEN [TaintedCheats(state) EXCEPT ![active_cheat].operation_count = @ + 1]
  ELSE TaintedCheats(state)

StoredOperations_IndexShift(class) ==
  IF total_operations < operation_capacity
  THEN Append(operations, [kind |-> operation_kind(class),
                           address_mode |-> AddressMode(class),
                           cheat_index |-> active_cheat,
                           line_index |-> total_lines])
  ELSE operations

StoredOperations(class) ==
  IF total_operations < operation_capacity
  THEN Append(operations, [kind |-> operation_kind(class),
                           address_mode |-> AddressMode(class),
                           cheat_index |-> active_cheat,
                           line_index |-> total_lines + 1])
  ELSE operations

CodeLine(class) ==
  LET kind    == operation_kind(class)
      selects == kind = "SELECT_MODULE_BASE"
      many    == IF active_cheat_operation_count = LegacyMaxCodes THEN 1 ELSE 0
  IN  /\ class \in CodeLines
      /\ active_cheat # NoIndex
      /\ store_line("code", active_cheat, total_operations + 1)
      /\ operations' = StoredOperations(class)
      /\ cheats' = CountedCheats(CodeTaint(class))
      /\ non_direct_cheats' = NonDirectAfter(CodeTaint(class))
      /\ active_cheat_tainted' = (active_cheat_tainted \/ Taints(CodeTaint(class)))
      /\ invalid_operation_sequences' =
           invalid_operation_sequences
             + (IF selects /\ ~SelectorAccepted(class) THEN 1 ELSE 0)
      /\ unsupported_operations' =
           unsupported_operations + (IF kind = "OPAQUE" THEN 1 ELSE 0)
      /\ relative_base_active' = (relative_base_active \/ SelectorAccepted(class))
      /\ relative_write_seen' =
           (~SelectorAccepted(class)
              /\ (relative_write_seen \/ (kind = "WRITE" /\ relative_base_active)))
      /\ total_operations' = total_operations + 1
      /\ active_cheat_operation_count' = active_cheat_operation_count + 1
      /\ legacy_limit_violations' = legacy_limit_violations + many
      /\ UNCHANGED <<total_cheats, malformed_lines, active_cheat>>

OpaqueLine(class) ==
  /\ class = "opaque"
  /\ store_line("opaque", active_cheat, NoIndex)
  /\ TaintActiveCheat(RequiresUnsupported)
  /\ UNCHANGED <<operations, total_cheats, total_operations,
                 unsupported_operations, invalid_operation_sequences,
                 malformed_lines, legacy_limit_violations, active_cheat,
                 active_cheat_operation_count, relative_base_active,
                 relative_write_seen>>

ParseLine(class) ==
  /\ pc = "parsing"
  /\ total_lines < MaxSourceLines
  /\ \/ SkippedLine(class)
     \/ BadHeaderLine(class)
     \/ HeaderLine(class)
     \/ BadCodeLine(class)
     \/ CodeLine(class)
     \/ OpaqueLine(class)
  /\ source' = Append(source, class)
  /\ UNCHANGED <<capacity, pc, status>>

-----------------------------------------------------------------------------
(***************************************************************************)
(* Entering and leaving vc_psv_parse.                                      *)
(***************************************************************************)

\* pointers: no pointer is NULL where its size is not 0; small: the source
\* has at most VC_PSV_MAX_SOURCE_BYTES; disjoint: no array size overflows and
\* no two ranges overlap.
Enter(pointers, small, disjoint) ==
  /\ pc = "entry"
  /\ \/ /\ ~pointers
        /\ pc' = "done" /\ status' = "INVALID_ARGUMENT"
     \/ /\ pointers /\ ~small
        /\ pc' = "done" /\ status' = "SOURCE_TOO_LARGE"
     \/ /\ pointers /\ small /\ ~disjoint
        /\ pc' = "done" /\ status' = "INVALID_ARGUMENT"
     \/ /\ pointers /\ small /\ disjoint
        /\ pc' = "parsing" /\ UNCHANGED status
  /\ UNCHANGED <<outputs, capacity, totals, alarms, context, source>>

Truncated_LinesOnly == Len(lines) # total_lines

Truncated ==
  \/ Len(lines) # total_lines
  \/ Len(cheats) # total_cheats
  \/ Len(operations) # total_operations

\* The end of the source: finalise, then discard_partial_outputs or deliver.
Finish ==
  /\ pc = "parsing"
  /\ pc' = "done"
  /\ invalid_operation_sequences' = InvalidAfterFinalize
  /\ non_direct_cheats' = NonDirectAfter(FinalTaint)
  /\ \/ /\ Truncated
        /\ status' = "TRUNCATED"
        /\ lines' = <<>> /\ cheats' = <<>> /\ operations' = <<>>
     \/ /\ ~Truncated
        /\ status' = "OK"
        /\ cheats' = TaintedCheats(FinalTaint)
        /\ UNCHANGED <<lines, operations>>
  /\ UNCHANGED <<capacity, totals, unsupported_operations, malformed_lines,
                 legacy_limit_violations, context, source>>

Init ==
  /\ lines = <<>> /\ cheats = <<>> /\ operations = <<>>
  /\ capacity \in Capacities
  /\ total_lines = 0 /\ total_cheats = 0 /\ total_operations = 0
  /\ unsupported_operations = 0
  /\ non_direct_cheats = 0
  /\ invalid_operation_sequences = 0
  /\ malformed_lines = 0
  /\ legacy_limit_violations = 0
  /\ active_cheat = NoIndex
  /\ active_cheat_operation_count = 0
  /\ active_cheat_tainted = FALSE
  /\ relative_base_active = FALSE
  /\ relative_write_seen = FALSE
  /\ pc = "entry"
  /\ status = "NONE"
  /\ source = <<>>

Next ==
  \/ \E pointers, small, disjoint \in BOOLEAN : Enter(pointers, small, disjoint)
  \/ \E class \in LineClasses : ParseLine(class)
  \/ Finish

Spec == Init /\ [][Next]_vars

-----------------------------------------------------------------------------
(***************************************************************************)
(* The reference: what a whole file s means, read without an order of      *)
(* processing.  A cheat is named by the position h of its header.          *)
(***************************************************************************)

Positions(s) == 1 .. Len(s)

HeaderPositions(s) == {i \in Positions(s) : s[i] \in Headers}

Closes(s, i) == s[i] \in Headers \cup {"bad_header"}

\* The lines of a cheat.
Block(s, h) == {i \in h + 1 .. Len(s) : \A j \in h + 1 .. i : ~Closes(s, j)}

ClosedByBadHeader(s, h) ==
  \E i \in Positions(s) : s[i] = "bad_header" /\ i - 1 \in Block(s, h) \cup {h}

Has(s, h, classes) == \E i \in Block(s, h) : s[i] \in classes

Codes(s, h) == {i \in Block(s, h) : s[i] \in CodeLines}

\* The selector that takes effect: the first code of the cheat.
GoodSelectors(s, h) ==
  {i \in Codes(s, h) : s[i] = "selector" /\ \A j \in Codes(s, h) : i <= j}

BadSelectors(s, h) ==
  {i \in Codes(s, h) : s[i] \in {"selector", "bad_selector"}} \ GoodSelectors(s, h)

Selects(s, h) == GoodSelectors(s, h) # {}

Dangles(s, h) == Selects(s, h) /\ ~Has(s, h, {"write"})

Translation(s, h) ==
  CASE \/ Has(s, h, {"bad_code"}) \/ ClosedByBadHeader(s, h)
       \/ BadSelectors(s, h) # {} \/ Dangles(s, h)   -> Malformed
    [] OTHER ->
         IF Has(s, h, {"opaque", "opaque_code"}) THEN RequiresUnsupported
         ELSE IF Selects(s, h) THEN ModuleRelative ELSE DirectOnly

CheatNumber(s, h) == Cardinality({g \in HeaderPositions(s) : g <= h})

AllCodes(s) == UNION {Codes(s, h) : h \in HeaderPositions(s)}

MalformedPositions(s) ==
  {i \in Positions(s) : \/ s[i] \in {"bad_header", "bad_code"}
                        \/ s[i] \in CodeLines /\ i \notin AllCodes(s)}

InvalidSequences(s) ==
  Cardinality(UNION {BadSelectors(s, h) : h \in HeaderPositions(s)})
    + Cardinality({h \in HeaderPositions(s) : Dangles(s, h)})

LimitViolations(s) ==
  Cardinality({h \in HeaderPositions(s) : s[h] = "long_header"})
    + (IF Cardinality(HeaderPositions(s)) > LegacyMaxCheats THEN 1 ELSE 0)
    + Cardinality({h \in HeaderPositions(s) : Cardinality(Codes(s, h)) > LegacyMaxCodes})

-----------------------------------------------------------------------------
(***************************************************************************)
(* Properties.                                                             *)
(***************************************************************************)

Parsed == pc = "done" /\ status \in {"OK", "TRUNCATED"}

Indexes(n) == 0 .. n

\* The arrays never outgrow the caller's capacities, and every stored index
\* is one the parser has handed out.
TypeOK ==
  /\ capacity \in Capacities
  /\ total_lines \in Nat /\ total_cheats \in Nat /\ total_operations \in Nat
  /\ Len(lines) <= line_capacity
  /\ Len(cheats) <= cheat_capacity
  /\ Len(operations) <= operation_capacity
  /\ \A l \in 1 .. Len(lines) :
       /\ lines[l].cheat_index \in Indexes(total_cheats)
       /\ lines[l].operation_index \in Indexes(total_operations)
  /\ \A c \in 1 .. Len(cheats) : cheats[c].translation_state \in DirectOnly .. Malformed
  /\ active_cheat \in Indexes(total_cheats)
  /\ active_cheat_tainted \in BOOLEAN
  /\ relative_base_active \in BOOLEAN
  /\ relative_write_seen \in BOOLEAN
  /\ pc \in {"entry", "parsing", "done"}
  /\ source \in Seq(LineClasses)

\* The incremental tainting gives every delivered cheat the state that its
\* whole block deserves: a bad header that closes it, a selector that comes
\* late, twice or with nothing to select for, and any unknown line count,
\* wherever in the block they are and in whatever order they come.
TranslationMatchesSource ==
  status = "OK" =>
    \A h \in HeaderPositions(source) :
      cheats[CheatNumber(source, h)].translation_state = Translation(source, h)

\* After OK the three arrays point at each other consistently: a code line
\* and its operation name each other and the same cheat, a header line and
\* its cheat name each other, and the operations of a cheat are the run that
\* first_operation_index and operation_count describe.
CrossIndexesClosed ==
  status = "OK" =>
    /\ \A l \in 1 .. Len(lines) :
         /\ lines[l].kind = "code" =>
              /\ lines[l].operation_index \in 1 .. Len(operations)
              /\ operations[lines[l].operation_index].line_index = l
              /\ operations[lines[l].operation_index].cheat_index = lines[l].cheat_index
         /\ lines[l].kind = "header" =>
              cheats[lines[l].cheat_index].header_line_index = l
    /\ \A o \in 1 .. Len(operations) :
         /\ operations[o].cheat_index \in 1 .. Len(cheats)
         /\ lines[operations[o].line_index].operation_index = o
    /\ \A c \in 1 .. Len(cheats) :
         /\ lines[cheats[c].header_line_index].cheat_index = c
         /\ {o \in 1 .. Len(operations) : operations[o].cheat_index = c}
              = cheats[c].first_operation_index
                  .. cheats[c].first_operation_index + cheats[c].operation_count - 1

\* All or nothing: the result is TRUNCATED exactly when the file needs more
\* of any one array than the caller has, and then no record is left behind.
AllOrNothing ==
  Parsed =>
    LET fits == /\ Len(source) <= line_capacity
                /\ Cardinality(HeaderPositions(source)) <= cheat_capacity
                /\ Cardinality(AllCodes(source)) <= operation_capacity
    IN  IF fits THEN /\ status = "OK"
                     /\ Len(lines) = Len(source)
                     /\ Len(cheats) = Cardinality(HeaderPositions(source))
                     /\ Len(operations) = Cardinality(AllCodes(source))
        ELSE status = "TRUNCATED" /\ outputs = <<<<>>, <<>>, <<>>>>

\* The report counts the file, not what fitted: totals (what a caller must
\* allocate to retry) and alarms are those of the source even when the cheat
\* they are about was not stored.
ReportMatchesSource ==
  Parsed =>
    /\ total_lines = Len(source)
    /\ total_cheats = Cardinality(HeaderPositions(source))
    /\ total_operations = Cardinality(AllCodes(source))
    /\ unsupported_operations =
         Cardinality({i \in AllCodes(source) : source[i] = "opaque_code"})
    /\ non_direct_cheats =
         Cardinality({h \in HeaderPositions(source) : Translation(source, h) # DirectOnly})
    /\ invalid_operation_sequences = InvalidSequences(source)
    /\ malformed_lines = Cardinality(MalformedPositions(source))
    /\ legacy_limit_violations = LimitViolations(source)

\* A delivered write is relative exactly when an accepted selector opens its
\* cheat, so no write can be detached from the base it was written for.
AddressModeMatchesSelector ==
  status = "OK" =>
    \A o \in 1 .. Len(operations) :
      operations[o].kind = "WRITE" =>
        operations[o].address_mode =
          IF Selects(source, cheats[operations[o].cheat_index].header_line_index)
          THEN "SELECTED_MODULE_RELATIVE" ELSE "ABSOLUTE"
=============================================================================
