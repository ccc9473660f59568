--------------------------- MODULE LegacyPsvProofs ---------------------------
(***************************************************************************)
(* Machine-checked proofs about LegacyPsv, for files of every length, every *)
(* capacity of the caller's arrays and every legacy limit.                 *)
(***************************************************************************)
EXTENDS LegacyPsv, TLAPS, FiniteSetTheorems

-----------------------------------------------------------------------------
(***************************************************************************)
(* The inductive invariant of the parsing loop.                            *)
(***************************************************************************)

\* The cheat of header h is still open at the end of s.
StillOpen(s, h) ==
  /\ h \in HeaderPositions(s)
  /\ \A j \in h + 1 .. Len(s) : ~Closes(s, j)

\* The translation state that a cheat has deserved so far: a selector dangles
\* only once its cheat is closed.
Spoilt(s, h) ==
  \/ Has(s, h, {"bad_code"}) \/ ClosedByBadHeader(s, h)
  \/ BadSelectors(s, h) # {} \/ (Dangles(s, h) /\ ~StillOpen(s, h))

SoFar(s, h) ==
  IF Spoilt(s, h) THEN Malformed
  ELSE IF Has(s, h, {"opaque", "opaque_code"}) THEN RequiresUnsupported
  ELSE IF Selects(s, h) THEN ModuleRelative ELSE DirectOnly

LineRecords ==
  [kind : {"blank", "comment", "malformed", "header", "code", "opaque"},
   cheat_index : Nat, operation_index : Nat]

CheatRecords ==
  [translation_state : DirectOnly .. Malformed, header_line_index : Nat,
   first_operation_index : Nat, operation_count : Nat]

OperationRecords ==
  [kind : {"WRITE", "SELECT_MODULE_BASE", "OPAQUE"},
   address_mode : {"NOT_APPLICABLE", "SELECTED_MODULE_RELATIVE", "ABSOLUTE"},
   cheat_index : Nat, line_index : Nat]

LoopTypes ==
  /\ capacity \in Capacities
  /\ lines \in Seq(LineRecords)
  /\ cheats \in Seq(CheatRecords)
  /\ operations \in Seq(OperationRecords)
  /\ active_cheat_tainted \in BOOLEAN
  /\ relative_base_active \in BOOLEAN
  /\ relative_write_seen \in BOOLEAN
  /\ source \in Seq(LineClasses)

\* The totals are those of the lines read so far, and each array holds as
\* much of its total as fits.
Fill(total, room) == IF total <= room THEN total ELSE room

TotalsInv ==
  /\ total_lines = Len(source)
  /\ total_cheats = Cardinality(HeaderPositions(source))
  /\ total_operations = Cardinality(AllCodes(source))
  /\ Len(lines) = Fill(total_lines, line_capacity)
  /\ Len(cheats) = Fill(total_cheats, cheat_capacity)
  /\ Len(operations) = Fill(total_operations, operation_capacity)

\* The locals describe the cheat that is open, when one is.
ActiveInv ==
  /\ active_cheat \in {NoIndex, total_cheats}
  /\ active_cheat # NoIndex <=> \E h \in HeaderPositions(source) : StillOpen(source, h)
  /\ \A h \in HeaderPositions(source) :
       StillOpen(source, h) =>
         /\ CheatNumber(source, h) = active_cheat
         /\ active_cheat_operation_count = Cardinality(Codes(source, h))
         /\ relative_base_active <=> Selects(source, h)
         /\ relative_write_seen <=> Selects(source, h) /\ Has(source, h, {"write"})
         /\ active_cheat_tainted <=> SoFar(source, h) # DirectOnly

\* Cheats are numbered in the order of their headers, and a stored cheat
\* knows its header and what its block has deserved so far.
CheatsInv ==
  /\ \A h \in HeaderPositions(source) :
       /\ CheatNumber(source, h) \in 1 .. total_cheats
       /\ CheatNumber(source, h) <= Len(cheats) =>
            /\ cheats[CheatNumber(source, h)].header_line_index = h
            /\ cheats[CheatNumber(source, h)].translation_state = SoFar(source, h)
  /\ \A g, h \in HeaderPositions(source) :
       CheatNumber(source, g) = CheatNumber(source, h) => g = h

\* Whatever two stored records name each other, and the operations of a cheat
\* are consecutive, up to the last one for the open cheat.
LinksInv ==
  /\ \A l \in 1 .. Len(lines) :
       /\ lines[l].cheat_index \in 0 .. total_cheats
       /\ lines[l].operation_index \in 0 .. total_operations
       /\ lines[l].kind = "code" =>
            /\ lines[l].operation_index \in 1 .. total_operations
            /\ lines[l].operation_index <= Len(operations) =>
                 /\ operations[lines[l].operation_index].line_index = l
                 /\ operations[lines[l].operation_index].cheat_index = lines[l].cheat_index
       /\ lines[l].kind = "header" =>
            /\ lines[l].cheat_index \in 1 .. total_cheats
            /\ lines[l].cheat_index <= Len(cheats) =>
                 cheats[lines[l].cheat_index].header_line_index = l
  /\ \A o \in 1 .. Len(operations) :
       /\ operations[o].cheat_index \in 1 .. total_cheats
       /\ operations[o].line_index \in 1 .. total_lines
       /\ operations[o].line_index <= Len(lines) =>
            lines[operations[o].line_index].operation_index = o
  /\ \A c \in 1 .. Len(cheats) :
       /\ cheats[c].header_line_index \in 1 .. total_lines
       /\ cheats[c].header_line_index <= Len(lines) =>
            lines[cheats[c].header_line_index].cheat_index = c

RunsInv ==
  \A c \in 1 .. Len(cheats) :
    /\ cheats[c].first_operation_index >= 1
    /\ cheats[c].first_operation_index + cheats[c].operation_count <= total_operations + 1
    /\ c = active_cheat =>
         cheats[c].first_operation_index + cheats[c].operation_count = total_operations + 1
    /\ \A o \in 1 .. Len(operations) :
         operations[o].cheat_index = c <=>
           /\ cheats[c].first_operation_index <= o
           /\ o < cheats[c].first_operation_index + cheats[c].operation_count

\* A stored write has the address mode of its cheat; no operation of the open
\* cheat is stored while none is counted.
ModesInv ==
  /\ \A o \in 1 .. Len(operations) :
       operations[o].cheat_index = active_cheat => active_cheat_operation_count # 0
  /\ \A o \in 1 .. Len(operations), h \in HeaderPositions(source) :
       operations[o].kind = "WRITE" /\ operations[o].cheat_index = CheatNumber(source, h) =>
         operations[o].address_mode =
           IF Selects(source, h) THEN "SELECTED_MODULE_RELATIVE" ELSE "ABSOLUTE"

AlarmsInv ==
  /\ unsupported_operations =
       Cardinality({i \in AllCodes(source) : source[i] = "opaque_code"})
  /\ non_direct_cheats =
       Cardinality({h \in HeaderPositions(source) : SoFar(source, h) # DirectOnly})
  /\ invalid_operation_sequences =
       Cardinality(UNION {BadSelectors(source, h) : h \in HeaderPositions(source)})
         + Cardinality({h \in HeaderPositions(source) :
                          Dangles(source, h) /\ ~StillOpen(source, h)})
  /\ malformed_lines = Cardinality(MalformedPositions(source))
  /\ legacy_limit_violations = LimitViolations(source)

LoopInv ==
  /\ LoopTypes /\ TotalsInv /\ ActiveInv /\ CheatsInv
  /\ LinksInv /\ RunsInv /\ ModesInv /\ AlarmsInv

\* While the call runs the loop invariant holds and no status is set; after
\* it, what the properties say.
Inv ==
  /\ TypeOK
  /\ pc # "done" => LoopInv /\ status = "NONE"
  /\ CrossIndexesClosed /\ AllOrNothing /\ AddressModeMatchesSelector
  /\ TranslationMatchesSource /\ ReportMatchesSource

-----------------------------------------------------------------------------
(***************************************************************************)
(* What one more line changes in the meaning of a file: t is s followed by *)
(* a line of class c.                                                      *)
(***************************************************************************)

Extension(s, t, c) == s \in Seq(LineClasses) /\ c \in LineClasses /\ t = Append(s, c)

Closing == Headers \cup {"bad_header"}

\* The lines before the new one stay, and the new one is the last.
LEMMA ExtensionFacts ==
  ASSUME NEW s, NEW t, NEW c, Extension(s, t, c)
  PROVE  /\ Len(s) \in Nat /\ t \in Seq(LineClasses)
         /\ Len(t) = Len(s) + 1
         /\ \A i \in 1 .. Len(s) : t[i] = s[i] /\ s[i] \in LineClasses
         /\ t[Len(s) + 1] = c
BY DEF Extension

\* A header line is one more header.
LEMMA HeaderStep ==
  ASSUME NEW s, NEW t, NEW c, Extension(s, t, c)
  PROVE  /\ HeaderPositions(s) \subseteq 1 .. Len(s)
         /\ HeaderPositions(t) =
              HeaderPositions(s) \cup (IF c \in Headers THEN {Len(s) + 1} ELSE {})
<1>1. PICK n \in Nat : /\ n = Len(s) /\ Len(t) = n + 1
                       /\ \A i \in 1 .. n : t[i] = s[i]
                       /\ t[n + 1] = c
  BY ExtensionFacts
<1> QED BY <1>1 DEF HeaderPositions, Positions

\* A line joins the block of the cheat that is open, unless it closes it.
LEMMA BlockStep ==
  ASSUME NEW s, NEW t, NEW c, Extension(s, t, c), NEW h \in HeaderPositions(s)
  PROVE  /\ Block(s, h) \subseteq h + 1 .. Len(s)
         /\ Block(t, h) =
              Block(s, h) \cup (IF StillOpen(s, h) /\ c \notin Closing THEN {Len(s) + 1} ELSE {})
<1>1. PICK n \in Nat : /\ n = Len(s) /\ Len(t) = n + 1
                       /\ \A i \in 1 .. n : t[i] = s[i]
                       /\ t[n + 1] = c
  BY ExtensionFacts
<1>2. h \in 1 .. n
  BY <1>1, HeaderStep
<1>3. Block(s, h) = {i \in h + 1 .. n : \A j \in h + 1 .. i : s[j] \notin Closing}
  BY <1>1 DEF Block, Closes, Closing
<1>4. Block(t, h) = {i \in h + 1 .. n + 1 : \A j \in h + 1 .. i : t[j] \notin Closing}
  BY <1>1 DEF Block, Closes, Closing
<1>5. StillOpen(s, h) <=> \A j \in h + 1 .. n : s[j] \notin Closing
  BY <1>1 DEF StillOpen, Closes, Closing
<1>6. ASSUME NEW i \in h + 1 .. n
      PROVE  i \in Block(t, h) <=> i \in Block(s, h)
  BY <1>1, <1>2, <1>3, <1>4, <1>6
<1>7. n + 1 \in Block(t, h) <=> StillOpen(s, h) /\ c \notin Closing
  <2>1. n + 1 \in Block(t, h) <=> \A j \in h + 1 .. n + 1 : t[j] \notin Closing
    BY <1>2, <1>4
  <2>2. (\A j \in h + 1 .. n + 1 : t[j] \notin Closing)
          <=> (\A j \in h + 1 .. n : s[j] \notin Closing) /\ c \notin Closing
    BY <1>1, <1>2
  <2> QED BY <1>5, <2>1, <2>2
<1>8. Block(s, h) \subseteq h + 1 .. n /\ Block(t, h) \subseteq h + 1 .. n + 1
  BY <1>3, <1>4
<1> QED BY <1>1, <1>2, <1>6, <1>7, <1>8

\* A cheat begins without lines.
LEMMA NewBlockEmpty ==
  ASSUME NEW s, NEW t, NEW c, Extension(s, t, c)
  PROVE  Block(t, Len(s) + 1) = {}
<1>1. PICK n \in Nat : n = Len(s) /\ Len(t) = n + 1
  BY ExtensionFacts
<1> QED BY <1>1 DEF Block

\* A header, good or bad, closes the cheat before it; a good one opens its own.
LEMMA OpenStep ==
  ASSUME NEW s, NEW t, NEW c, Extension(s, t, c)
  PROVE  /\ \A h \in HeaderPositions(s) : StillOpen(t, h) <=> StillOpen(s, h) /\ c \notin Closing
         /\ c \in Headers => StillOpen(t, Len(s) + 1)
<1>1. PICK n \in Nat : /\ n = Len(s) /\ Len(t) = n + 1
                       /\ \A i \in 1 .. n : t[i] = s[i]
                       /\ t[n + 1] = c
  BY ExtensionFacts
<1>2. ASSUME NEW h \in HeaderPositions(s)
      PROVE  StillOpen(t, h) <=> StillOpen(s, h) /\ c \notin Closing
  <2>1. h \in 1 .. n /\ h \in HeaderPositions(t)
    BY <1>1, <1>2, HeaderStep
  <2>2. StillOpen(t, h) <=> \A j \in h + 1 .. n + 1 : t[j] \notin Closing
    BY <1>1, <2>1 DEF StillOpen, Closes, Closing
  <2>3. StillOpen(s, h) <=> \A j \in h + 1 .. n : s[j] \notin Closing
    BY <1>1, <1>2 DEF StillOpen, Closes, Closing
  <2>4. (\A j \in h + 1 .. n + 1 : t[j] \notin Closing)
          <=> (\A j \in h + 1 .. n : s[j] \notin Closing) /\ c \notin Closing
    BY <1>1, <2>1
  <2> QED BY <2>2, <2>3, <2>4
<1>3. c \in Headers => StillOpen(t, n + 1)
  BY <1>1, HeaderStep DEF StillOpen
<1> QED BY <1>1, <1>2, <1>3

\* At most one cheat is open.
LEMMA OpenUnique ==
  ASSUME NEW s \in Seq(LineClasses), NEW g, NEW h, StillOpen(s, g), StillOpen(s, h)
  PROVE  g = h
<1>1. PICK n \in Nat : n = Len(s)
  OBVIOUS
<1>2. /\ g \in 1 .. n /\ s[g] \in Headers /\ \A j \in g + 1 .. n : s[j] \notin Headers
      /\ h \in 1 .. n /\ s[h] \in Headers /\ \A j \in h + 1 .. n : s[j] \notin Headers
  BY <1>1 DEF StillOpen, HeaderPositions, Positions, Closes
<1> QED BY <1>1, <1>2

\* What the block of a cheat has.
LEMMA HasStep ==
  ASSUME NEW s, NEW t, NEW c, Extension(s, t, c), NEW h \in HeaderPositions(s), NEW K
  PROVE  Has(t, h, K) <=> Has(s, h, K) \/ (StillOpen(s, h) /\ c \notin Closing /\ c \in K)
<1>1. PICK n \in Nat : /\ n = Len(s)
                       /\ \A i \in 1 .. n : t[i] = s[i]
                       /\ t[n + 1] = c
  BY ExtensionFacts
<1>2. /\ h \in 1 .. n /\ Block(s, h) \subseteq h + 1 .. n
      /\ Block(t, h) =
           Block(s, h) \cup (IF StillOpen(s, h) /\ c \notin Closing THEN {n + 1} ELSE {})
  BY <1>1, HeaderStep, BlockStep
<1>3. \A i \in Block(s, h) : t[i] = s[i]
  BY <1>1, <1>2
<1> QED BY <1>1, <1>2, <1>3 DEF Has

\* The codes of a cheat.
LEMMA CodesStep ==
  ASSUME NEW s, NEW t, NEW c, Extension(s, t, c), NEW h \in HeaderPositions(s)
  PROVE  /\ Codes(s, h) \subseteq 1 .. Len(s)
         /\ Codes(t, h) =
              Codes(s, h) \cup (IF StillOpen(s, h) /\ c \in CodeLines THEN {Len(s) + 1} ELSE {})
<1>1. PICK n \in Nat : /\ n = Len(s)
                       /\ \A i \in 1 .. n : t[i] = s[i]
                       /\ t[n + 1] = c
  BY ExtensionFacts
<1>2. /\ h \in 1 .. n /\ Block(s, h) \subseteq h + 1 .. n
      /\ Block(t, h) =
           Block(s, h) \cup (IF StillOpen(s, h) /\ c \notin Closing THEN {n + 1} ELSE {})
  BY <1>1, HeaderStep, BlockStep
<1>3. \A i \in Block(s, h) : t[i] = s[i] /\ i \in 1 .. n
  BY <1>1, <1>2
<1>4. c \in CodeLines => c \notin Closing
  BY DEF CodeLines, Closing, Headers
<1> QED BY <1>1, <1>2, <1>3, <1>4 DEF Codes

\* The line is a selector that opens its cheat.
Accepts(s, h, c) == StillOpen(s, h) /\ c = "selector" /\ Codes(s, h) = {}

\* The line is any other selector.
Rejects(s, h, c) ==
  StillOpen(s, h) /\ c \in {"selector", "bad_selector"} /\ ~Accepts(s, h, c)

\* Which selector takes effect, and which ones do not.
LEMMA SelectorStep ==
  ASSUME NEW s, NEW t, NEW c, Extension(s, t, c), NEW h \in HeaderPositions(s)
  PROVE  /\ Selects(t, h) <=> Selects(s, h) \/ Accepts(s, h, c)
         /\ BadSelectors(s, h) \subseteq Codes(s, h)
         /\ BadSelectors(t, h) =
              BadSelectors(s, h) \cup (IF Rejects(s, h, c) THEN {Len(s) + 1} ELSE {})
<1>1. PICK n \in Nat : /\ n = Len(s)
                       /\ \A i \in 1 .. n : t[i] = s[i]
                       /\ t[n + 1] = c
  BY ExtensionFacts
<1>2. PICK old : old = Codes(s, h) /\ old \subseteq 1 .. n
  BY <1>1, CodesStep
<1>3. Codes(t, h) = old \cup (IF StillOpen(s, h) /\ c \in CodeLines THEN {n + 1} ELSE {})
  BY <1>1, <1>2, CodesStep
<1>4. GoodSelectors(s, h) = {i \in old : s[i] = "selector" /\ \A j \in old : i <= j}
  BY <1>2 DEF GoodSelectors
<1>5. BadSelectors(s, h) =
        {i \in old : s[i] \in {"selector", "bad_selector"}} \ GoodSelectors(s, h)
  BY <1>2 DEF BadSelectors
<1>6. CASE ~(StillOpen(s, h) /\ c \in CodeLines)
  <2>1. Codes(t, h) = old
    BY <1>3, <1>6
  <2>2. GoodSelectors(t, h) = GoodSelectors(s, h)
    BY <1>1, <1>2, <1>4, <2>1 DEF GoodSelectors
  <2>3. BadSelectors(t, h) = BadSelectors(s, h)
    BY <1>1, <1>2, <1>5, <2>1, <2>2 DEF BadSelectors
  <2>4. ~Accepts(s, h, c) /\ ~Rejects(s, h, c)
    BY <1>6 DEF Accepts, Rejects, CodeLines
  <2> QED BY <1>2, <1>5, <2>2, <2>3, <2>4 DEF Selects
<1>7. CASE StillOpen(s, h) /\ c \in CodeLines
  <2>1. Codes(t, h) = old \cup {n + 1}
    BY <1>3, <1>7
  <2>2. GoodSelectors(t, h) =
          {i \in old \cup {n + 1} : t[i] = "selector" /\ \A j \in old \cup {n + 1} : i <= j}
    BY <2>1 DEF GoodSelectors
  <2>3. ASSUME NEW i \in old
        PROVE  i \in GoodSelectors(t, h) <=> i \in GoodSelectors(s, h)
    BY <1>1, <1>2, <1>4, <2>2, <2>3
  <2>4. n + 1 \in GoodSelectors(t, h) <=> c = "selector" /\ old = {}
    <3>1. n + 1 \in GoodSelectors(t, h) <=> c = "selector" /\ \A j \in old : n + 1 <= j
      BY <1>1, <2>2
    <3>2. (\A j \in old : n + 1 <= j) <=> old = {}
      BY <1>1, <1>2
    <3> QED BY <3>1, <3>2
  <2>5. GoodSelectors(t, h) =
          GoodSelectors(s, h) \cup (IF Accepts(s, h, c) THEN {n + 1} ELSE {})
    <3>1. Accepts(s, h, c) <=> c = "selector" /\ old = {}
      BY <1>2, <1>7 DEF Accepts
    <3>2. GoodSelectors(t, h) \subseteq old \cup {n + 1} /\ GoodSelectors(s, h) \subseteq old
      BY <1>4, <2>2
    <3> QED BY <2>3, <2>4, <3>1, <3>2
  <2>6. BadSelectors(t, h) =
          {i \in old \cup {n + 1} : t[i] \in {"selector", "bad_selector"}} \ GoodSelectors(t, h)
    BY <2>1 DEF BadSelectors
  <2>7. BadSelectors(t, h) =
          BadSelectors(s, h) \cup (IF Rejects(s, h, c) THEN {n + 1} ELSE {})
    <3>1. ASSUME NEW i \in old
          PROVE  i \in BadSelectors(t, h) <=> i \in BadSelectors(s, h)
      BY <1>1, <1>2, <1>5, <2>3, <2>6, <3>1
    <3>2. n + 1 \in BadSelectors(t, h) <=> Rejects(s, h, c)
      BY <1>1, <1>2, <1>7, <2>4, <2>6 DEF Rejects, Accepts
    <3>3. BadSelectors(t, h) \subseteq old \cup {n + 1} /\ BadSelectors(s, h) \subseteq old
      BY <1>5, <2>6
    <3> QED BY <3>1, <3>2, <3>3
  <2> QED BY <1>1, <1>2, <1>5, <2>5, <2>7 DEF Selects
<1> QED BY <1>6, <1>7

\* A cheat is closed by a bad header while it is open, or not at all.
LEMMA ClosedStep ==
  ASSUME NEW s, NEW t, NEW c, Extension(s, t, c), NEW h \in HeaderPositions(s)
  PROVE  ClosedByBadHeader(t, h) <=>
           ClosedByBadHeader(s, h) \/ (StillOpen(s, h) /\ c = "bad_header")
<1>1. PICK n \in Nat : /\ n = Len(s) /\ Len(t) = n + 1
                       /\ \A i \in 1 .. n : t[i] = s[i]
                       /\ t[n + 1] = c
  BY ExtensionFacts
<1>2. /\ h \in 1 .. n /\ Block(s, h) \subseteq h + 1 .. n
      /\ Block(t, h) =
           Block(s, h) \cup (IF StillOpen(s, h) /\ c \notin Closing THEN {n + 1} ELSE {})
  BY <1>1, HeaderStep, BlockStep
<1>3. n \in Block(s, h) \cup {h} <=> StillOpen(s, h)
  <2>1. StillOpen(s, h) <=> \A j \in h + 1 .. n : ~Closes(s, j)
    BY <1>1 DEF StillOpen
  <2>2. n \in Block(s, h) <=> n \in h + 1 .. n /\ \A j \in h + 1 .. n : ~Closes(s, j)
    BY <1>1 DEF Block
  <2> QED BY <1>1, <1>2, <2>1, <2>2
<1>4. ASSUME NEW i \in 1 .. n + 1
      PROVE  i - 1 \in Block(t, h) \cup {h} <=> i - 1 \in Block(s, h) \cup {h}
  BY <1>1, <1>2, <1>4
<1>5. ClosedByBadHeader(t, h) <=>
        \E i \in 1 .. n + 1 : t[i] = "bad_header" /\ i - 1 \in Block(s, h) \cup {h}
  BY <1>1, <1>4 DEF ClosedByBadHeader, Positions
<1>6. ClosedByBadHeader(s, h) <=>
        \E i \in 1 .. n : t[i] = "bad_header" /\ i - 1 \in Block(s, h) \cup {h}
  BY <1>1 DEF ClosedByBadHeader, Positions
<1>7. ClosedByBadHeader(t, h) <=>
        ClosedByBadHeader(s, h) \/ (c = "bad_header" /\ n \in Block(s, h) \cup {h})
  BY <1>1, <1>5, <1>6
<1> QED BY <1>3, <1>7

\* A cheat whose header has just been read is empty.
LEMMA NewCheat ==
  ASSUME NEW s, NEW t, NEW c, Extension(s, t, c), c \in Headers
  PROVE  /\ Codes(t, Len(s) + 1) = {} /\ BadSelectors(t, Len(s) + 1) = {}
         /\ ~Selects(t, Len(s) + 1) /\ ~Dangles(t, Len(s) + 1)
         /\ \A K : ~Has(t, Len(s) + 1, K)
         /\ SoFar(t, Len(s) + 1) = DirectOnly
<1>1. PICK n \in Nat : n = Len(s) /\ Len(t) = n + 1
  BY ExtensionFacts
<1>2. Block(t, n + 1) = {}
  BY <1>1, NewBlockEmpty
<1>3. Codes(t, n + 1) = {}
  BY <1>2 DEF Codes
<1>4. GoodSelectors(t, n + 1) = {} /\ BadSelectors(t, n + 1) = {}
  BY <1>3 DEF GoodSelectors, BadSelectors
<1>5. ~Selects(t, n + 1) /\ ~Dangles(t, n + 1)
  BY <1>4 DEF Selects, Dangles
<1>6. \A K : ~Has(t, n + 1, K)
  BY <1>2 DEF Has
<1>7. ~ClosedByBadHeader(t, n + 1)
  BY <1>1, <1>2 DEF ClosedByBadHeader, Positions
<1>8. SoFar(t, n + 1) = DirectOnly
  BY <1>4, <1>5, <1>6, <1>7 DEF SoFar, Spoilt
<1> QED BY <1>1, <1>3, <1>4, <1>5, <1>6, <1>8

\* Whether a cheat dangles is settled once it is closed.
LEMMA DanglesStep ==
  ASSUME NEW s, NEW t, NEW c, Extension(s, t, c), NEW h \in HeaderPositions(s)
  PROVE  /\ ~StillOpen(s, h) \/ c \in Closing => (Dangles(t, h) <=> Dangles(s, h))
         /\ ~StillOpen(s, h) => ~StillOpen(t, h)
         /\ c \in Closing => ~StillOpen(t, h)
<1>1. c \in Closing => c # "selector"
  BY DEF Closing, Headers
<1>2. Selects(t, h) <=> Selects(s, h) \/ Accepts(s, h, c)
  BY SelectorStep
<1>3. Has(t, h, {"write"}) <=> Has(s, h, {"write"}) \/ (StillOpen(s, h) /\ c \notin Closing /\ c = "write")
  BY HasStep
<1>4. StillOpen(t, h) <=> StillOpen(s, h) /\ c \notin Closing
  BY OpenStep
<1> QED BY <1>1, <1>2, <1>3, <1>4 DEF Dangles, Accepts

\* What a line of class c adds to the state of the cheat that it meets open.
Taint(s, h, c) ==
  IF \/ c \in {"bad_code", "bad_header"} \/ Rejects(s, h, c)
     \/ c \in Headers /\ Dangles(s, h)
  THEN Malformed
  ELSE IF c \in {"opaque", "opaque_code"} THEN RequiresUnsupported
  ELSE IF Accepts(s, h, c) THEN ModuleRelative ELSE DirectOnly

Worse(a, b) == IF b > a THEN b ELSE a

\* The running state of an open cheat is the worst of what its lines deserve.
LEMMA SoFarStep ==
  ASSUME NEW s, NEW t, NEW c, Extension(s, t, c), NEW h \in HeaderPositions(s)
  PROVE  SoFar(t, h) =
           IF StillOpen(s, h) THEN Worse(SoFar(s, h), Taint(s, h, c)) ELSE SoFar(s, h)
<1>1. Has(t, h, {"bad_code"}) <=>
        Has(s, h, {"bad_code"}) \/ (StillOpen(s, h) /\ c \notin Closing /\ c = "bad_code")
  BY HasStep
<1>2. Has(t, h, {"opaque", "opaque_code"}) <=>
        \/ Has(s, h, {"opaque", "opaque_code"})
        \/ (StillOpen(s, h) /\ c \notin Closing /\ c \in {"opaque", "opaque_code"})
  BY HasStep
<1>3. ClosedByBadHeader(t, h) <=>
        ClosedByBadHeader(s, h) \/ (StillOpen(s, h) /\ c = "bad_header")
  BY ClosedStep
<1>4. /\ Selects(t, h) <=> Selects(s, h) \/ Accepts(s, h, c)
      /\ BadSelectors(t, h) # {} <=> BadSelectors(s, h) # {} \/ Rejects(s, h, c)
  BY SelectorStep
<1>5. StillOpen(t, h) <=> StillOpen(s, h) /\ c \notin Closing
  BY OpenStep
<1>6. CASE ~StillOpen(s, h)
  <2>1. ~Accepts(s, h, c) /\ ~Rejects(s, h, c)
    BY <1>6 DEF Accepts, Rejects
  <2>2. Dangles(t, h) <=> Dangles(s, h)
    BY <1>6, DanglesStep
  <2>3. Spoilt(t, h) <=> Spoilt(s, h)
    BY <1>1, <1>3, <1>4, <1>5, <1>6, <2>1, <2>2 DEF Spoilt
  <2> QED BY <1>2, <1>4, <1>6, <2>1, <2>3 DEF SoFar
<1>7. CASE StillOpen(s, h)
  <2>1. Spoilt(t, h) <=>
          \/ Spoilt(s, h)
          \/ c \in {"bad_code", "bad_header"} \/ Rejects(s, h, c)
          \/ (c \in Headers /\ Dangles(s, h))
    <3>1. CASE c \in Closing
      <4>1. Dangles(t, h) <=> Dangles(s, h)
        BY <3>1, DanglesStep
      <4>2. c = "bad_header" \/ c \in Headers
        BY <3>1 DEF Closing
      <4> QED BY <1>1, <1>3, <1>4, <1>5, <1>7, <3>1, <4>1, <4>2 DEF Spoilt, Headers
    <3>2. CASE c \notin Closing
      <4>1. c # "bad_header" /\ c \notin Headers
        BY <3>2 DEF Closing
      <4> QED BY <1>1, <1>3, <1>4, <1>5, <1>7, <3>2, <4>1 DEF Spoilt
    <3> QED BY <3>1, <3>2
  <2>2. c \in {"opaque", "opaque_code"} => c \notin Closing
    BY DEF Closing, Headers
  <2>3. Has(t, h, {"opaque", "opaque_code"}) <=>
          Has(s, h, {"opaque", "opaque_code"}) \/ c \in {"opaque", "opaque_code"}
    BY <1>2, <1>7, <2>2
  <2>4. Accepts(s, h, c) => c = "selector" /\ c \notin Headers
    BY DEF Accepts, Headers
  <2>5. PICK old \in 0 .. 3, new \in 0 .. 3, add \in 0 .. 3 :
          old = SoFar(s, h) /\ new = SoFar(t, h) /\ add = Taint(s, h, c)
    BY DEF SoFar, Taint, DirectOnly, ModuleRelative, RequiresUnsupported, Malformed
  <2>6. new = IF add > old THEN add ELSE old
    BY <1>4, <2>1, <2>3, <2>4, <2>5
       DEF SoFar, Taint, DirectOnly, ModuleRelative, RequiresUnsupported, Malformed
  <2> QED BY <1>7, <2>5, <2>6 DEF Worse
<1> QED BY <1>6, <1>7

\* The states are those of vc_psv_translation_state.
LEMMA StateTypes ==
  ASSUME NEW s, NEW h, NEW c
  PROVE  SoFar(s, h) \in DirectOnly .. Malformed /\ Taint(s, h, c) \in DirectOnly .. Malformed
BY DEF SoFar, Taint, DirectOnly, ModuleRelative, RequiresUnsupported, Malformed

-----------------------------------------------------------------------------
(***************************************************************************)
(* Counting: every set that the report counts is a set of positions.       *)
(***************************************************************************)

\* A set of positions is finite, and has one more with the new one.
LEMMA CountStep ==
  ASSUME NEW n \in Nat, NEW S, S \subseteq 1 .. n
  PROVE  /\ IsFiniteSet(S) /\ Cardinality(S) \in Nat
         /\ Cardinality(S \cup {n + 1}) = Cardinality(S) + 1
<1>1. IsFiniteSet(1 .. n)
  BY FS_Interval
<1>2. IsFiniteSet(S)
  BY <1>1, FS_Subset
<1>3. n + 1 \notin S
  OBVIOUS
<1> QED BY <1>2, <1>3, FS_AddElement, FS_CardinalityType

\* The same for a position that may be old: a set of headers grows by one of
\* them.
LEMMA CountOne ==
  ASSUME NEW n \in Nat, NEW S, S \subseteq 1 .. n, NEW x, x \notin S
  PROVE  Cardinality(S \cup {x}) = Cardinality(S) + 1
<1>1. IsFiniteSet(S)
  BY CountStep
<1> QED BY <1>1, FS_AddElement

\* A count is 0 for the empty set alone.
LEMMA CountZero ==
  ASSUME NEW n \in Nat, NEW S, S \subseteq 1 .. n
  PROVE  Cardinality(S) \in Nat /\ (Cardinality(S) = 0 <=> S = {})
<1>1. IsFiniteSet(S)
  BY CountStep
<1> QED BY <1>1, FS_EmptySet, FS_CardinalityType

\* The numbers of cheats stay, and a new cheat has the next one.
LEMMA NumberStep ==
  ASSUME NEW s, NEW t, NEW c, Extension(s, t, c)
  PROVE  /\ \A h \in HeaderPositions(s) : CheatNumber(t, h) = CheatNumber(s, h)
         /\ Cardinality(HeaderPositions(s)) \in Nat
         /\ Cardinality(HeaderPositions(t)) =
              Cardinality(HeaderPositions(s)) + (IF c \in Headers THEN 1 ELSE 0)
         /\ c \in Headers =>
              CheatNumber(t, Len(s) + 1) = Cardinality(HeaderPositions(s)) + 1
<1>1. PICK n \in Nat : n = Len(s)
  BY ExtensionFacts
<1>2. PICK old : old = HeaderPositions(s) /\ old \subseteq 1 .. n
  BY <1>1, HeaderStep
<1>3. HeaderPositions(t) = old \cup (IF c \in Headers THEN {n + 1} ELSE {})
  BY <1>1, <1>2, HeaderStep
<1>4. ASSUME NEW h \in old PROVE CheatNumber(t, h) = CheatNumber(s, h)
  <2>1. {g \in HeaderPositions(t) : g <= h} = {g \in HeaderPositions(s) : g <= h}
    BY <1>2, <1>3, <1>4
  <2> QED BY <2>1 DEF CheatNumber
<1>5. Cardinality(old) \in Nat
  BY <1>2, CountStep
<1>6. CASE c \in Headers
  <2>1. HeaderPositions(t) = old \cup {n + 1}
    BY <1>3, <1>6
  <2>2. {g \in HeaderPositions(t) : g <= n + 1} = old \cup {n + 1}
    BY <1>2, <2>1
  <2>3. Cardinality(old \cup {n + 1}) = Cardinality(old) + 1
    BY <1>2, CountStep
  <2> QED BY <1>1, <1>2, <1>4, <1>5, <1>6, <2>1, <2>2, <2>3 DEF CheatNumber
<1>7. CASE c \notin Headers
  <2>1. HeaderPositions(t) = old
    BY <1>3, <1>7
  <2>2. Cardinality(HeaderPositions(t)) = Cardinality(old) + 0
    BY <1>5, <2>1
  <2> QED BY <1>1, <1>2, <1>4, <1>5, <1>7, <2>2
<1> QED BY <1>6, <1>7

\* A line of codes is a code of the file exactly when a cheat is open.
LEMMA AllCodesStep ==
  ASSUME NEW s, NEW t, NEW c, Extension(s, t, c)
  PROVE  /\ AllCodes(s) \subseteq 1 .. Len(s)
         /\ AllCodes(t) =
              AllCodes(s) \cup (IF /\ c \in CodeLines
                                   /\ \E h \in HeaderPositions(s) : StillOpen(s, h)
                                THEN {Len(s) + 1} ELSE {})
<1>1. \A h \in HeaderPositions(s) :
        /\ Codes(s, h) \subseteq 1 .. Len(s)
        /\ Codes(t, h) =
             Codes(s, h) \cup (IF StillOpen(s, h) /\ c \in CodeLines THEN {Len(s) + 1} ELSE {})
  BY CodesStep
<1>2. AllCodes(s) = UNION {Codes(s, h) : h \in HeaderPositions(s)}
  BY DEF AllCodes
<1>3. AllCodes(t) = UNION {Codes(t, h) : h \in HeaderPositions(s)}
  <2>1. CASE c \in Headers
    <3>1. HeaderPositions(t) = HeaderPositions(s) \cup {Len(s) + 1}
      BY <2>1, HeaderStep
    <3>2. Codes(t, Len(s) + 1) = {}
      BY <2>1, NewCheat
    <3> QED BY <3>1, <3>2 DEF AllCodes
  <2>2. CASE c \notin Headers
    <3>1. HeaderPositions(t) = HeaderPositions(s)
      BY <2>2, HeaderStep
    <3> QED BY <3>1 DEF AllCodes
  <2> QED BY <2>1, <2>2
<1> QED BY <1>1, <1>2, <1>3

\* Some cheat is open at the end of s.
SomeOpen(s) == \E h \in HeaderPositions(s) : StillOpen(s, h)

\* The count of unknown codes.
LEMMA UnsupportedStep ==
  ASSUME NEW s, NEW t, NEW c, Extension(s, t, c)
  PROVE  Cardinality({i \in AllCodes(t) : t[i] = "opaque_code"}) =
           Cardinality({i \in AllCodes(s) : s[i] = "opaque_code"})
             + (IF c = "opaque_code" /\ SomeOpen(s) THEN 1 ELSE 0)
<1>1. PICK n \in Nat : n = Len(s) /\ (\A i \in 1 .. n : t[i] = s[i]) /\ t[n + 1] = c
  BY ExtensionFacts
<1>0. {i \in AllCodes(s) : s[i] = "opaque_code"} \subseteq 1 .. n
  BY <1>1, AllCodesStep
<1>2. PICK old : old = {i \in AllCodes(s) : s[i] = "opaque_code"} /\ old \subseteq 1 .. n
  BY <1>0
<1>3. {i \in AllCodes(t) : t[i] = "opaque_code"} =
        old \cup (IF c = "opaque_code" /\ SomeOpen(s) THEN {n + 1} ELSE {})
  <2>1. /\ AllCodes(s) \subseteq 1 .. n
        /\ AllCodes(t) =
             AllCodes(s) \cup (IF c \in CodeLines /\ SomeOpen(s) THEN {n + 1} ELSE {})
    BY <1>1, AllCodesStep DEF SomeOpen
  <2>2. c = "opaque_code" => c \in CodeLines
    BY DEF CodeLines
  <2> QED BY <1>1, <1>2, <2>1, <2>2
<1>4. Cardinality(old) \in Nat /\ Cardinality(old \cup {n + 1}) = Cardinality(old) + 1
  BY <1>2, CountStep
<1> QED BY <1>2, <1>3, <1>4

\* The count of malformed lines.
LEMMA MalformedStep ==
  ASSUME NEW s, NEW t, NEW c, Extension(s, t, c)
  PROVE  Cardinality(MalformedPositions(t)) =
           Cardinality(MalformedPositions(s))
             + (IF \/ c \in {"bad_header", "bad_code"}
                   \/ (c \in CodeLines /\ ~SomeOpen(s))
                THEN 1 ELSE 0)
<1>1. PICK n \in Nat : /\ n = Len(s) /\ Len(t) = n + 1
                       /\ \A i \in 1 .. n : t[i] = s[i]
                       /\ t[n + 1] = c
  BY ExtensionFacts
<1>2. PICK old : old = MalformedPositions(s) /\ old \subseteq 1 .. n
  BY <1>1 DEF MalformedPositions, Positions
<1>3. /\ AllCodes(s) \subseteq 1 .. n
      /\ AllCodes(t) =
           AllCodes(s) \cup (IF c \in CodeLines /\ SomeOpen(s) THEN {n + 1} ELSE {})
  BY <1>1, AllCodesStep DEF SomeOpen
<1>4. ASSUME NEW i \in 1 .. n
      PROVE  i \in MalformedPositions(t) <=> i \in old
  BY <1>1, <1>2, <1>3, <1>4 DEF MalformedPositions, Positions
<1>5. n + 1 \in MalformedPositions(t) <=>
        c \in {"bad_header", "bad_code"} \/ (c \in CodeLines /\ ~SomeOpen(s))
  BY <1>1, <1>3 DEF MalformedPositions, Positions
<1>6. MalformedPositions(t) \subseteq 1 .. n + 1
  BY <1>1 DEF MalformedPositions, Positions
<1>7. MalformedPositions(t) =
        old \cup (IF n + 1 \in MalformedPositions(t) THEN {n + 1} ELSE {})
  BY <1>2, <1>4, <1>6
<1>8. Cardinality(old) \in Nat /\ Cardinality(old \cup {n + 1}) = Cardinality(old) + 1
  BY <1>2, CountStep
<1>9. CASE n + 1 \in MalformedPositions(t)
  BY <1>2, <1>5, <1>7, <1>8, <1>9
<1>10. CASE n + 1 \notin MalformedPositions(t)
  BY <1>2, <1>5, <1>7, <1>8, <1>10
<1> QED BY <1>9, <1>10

\* The count of selectors that do not take effect.
LEMMA BadSelectorStep ==
  ASSUME NEW s, NEW t, NEW c, Extension(s, t, c)
  PROVE  Cardinality(UNION {BadSelectors(t, h) : h \in HeaderPositions(t)}) =
           Cardinality(UNION {BadSelectors(s, h) : h \in HeaderPositions(s)})
             + (IF \E h \in HeaderPositions(s) : Rejects(s, h, c) THEN 1 ELSE 0)
<1>1. PICK n \in Nat : n = Len(s)
  BY ExtensionFacts
<1>2. \A h \in HeaderPositions(s) :
        /\ BadSelectors(s, h) \subseteq 1 .. n
        /\ BadSelectors(t, h) =
             BadSelectors(s, h) \cup (IF Rejects(s, h, c) THEN {n + 1} ELSE {})
  BY <1>1, SelectorStep, CodesStep
<1>0. UNION {BadSelectors(s, h) : h \in HeaderPositions(s)} \subseteq 1 .. n
  BY <1>2
<1>3. PICK old : /\ old = UNION {BadSelectors(s, h) : h \in HeaderPositions(s)}
                 /\ old \subseteq 1 .. n
  BY <1>0
<1>4. UNION {BadSelectors(t, h) : h \in HeaderPositions(t)} =
        UNION {BadSelectors(t, h) : h \in HeaderPositions(s)}
  <2>1. CASE c \in Headers
    BY <2>1, HeaderStep, NewCheat
  <2>2. CASE c \notin Headers
    BY <2>2, HeaderStep
  <2> QED BY <2>1, <2>2
<1>5. UNION {BadSelectors(t, h) : h \in HeaderPositions(s)} =
        old \cup (IF \E h \in HeaderPositions(s) : Rejects(s, h, c) THEN {n + 1} ELSE {})
  BY <1>2, <1>3
<1>6. Cardinality(old) \in Nat /\ Cardinality(old \cup {n + 1}) = Cardinality(old) + 1
  BY <1>3, CountStep
<1>7. CASE \E h \in HeaderPositions(s) : Rejects(s, h, c)
  BY <1>3, <1>4, <1>5, <1>6, <1>7
<1>8. CASE ~\E h \in HeaderPositions(s) : Rejects(s, h, c)
  <2>1. UNION {BadSelectors(t, h) : h \in HeaderPositions(t)} = old
    BY <1>4, <1>5, <1>8
  <2>2. (IF \E h \in HeaderPositions(s) : Rejects(s, h, c) THEN 1 ELSE 0) = 0
    BY <1>8
  <2>3. Cardinality(old) = Cardinality(old) + 0
    BY <1>6
  <2> QED BY <1>3, <2>1, <2>2, <2>3
<1> QED BY <1>7, <1>8

\* A set of headers that a line adds the open cheat to, or leaves alone.
LEMMA HeaderCountStep ==
  ASSUME NEW s, NEW t, NEW c, Extension(s, t, c), NEW S, NEW T,
         S \subseteq HeaderPositions(s), T \subseteq HeaderPositions(t),
         Len(s) + 1 \notin T, NEW Added,
         \A h \in HeaderPositions(s) : h \in T <=> h \in S \/ h \in Added,
         \A h \in Added : StillOpen(s, h) /\ h \notin S
  PROVE  /\ Cardinality(S) \in Nat
         /\ Cardinality(T) = Cardinality(S) + (IF Added # {} THEN 1 ELSE 0)
<1>1. PICK n \in Nat : n = Len(s)
  BY ExtensionFacts
<1>2. S \subseteq 1 .. n
  BY <1>1, HeaderStep
<1>3. Added \subseteq HeaderPositions(s)
  BY DEF StillOpen
<1>4. T = S \cup Added
  BY <1>3, HeaderStep
<1>5. CASE Added = {}
  <2>1. T = S /\ Cardinality(S) \in Nat
    BY <1>1, <1>2, <1>4, <1>5, CountStep
  <2> QED BY <1>5, <2>1
<1>6. CASE Added # {}
  <2>1. PICK h \in Added : TRUE
    BY <1>6
  <2>2. Added = {h}
    BY <2>1, OpenUnique DEF Extension
  <2>3. h \notin S
    BY <2>1
  <2> QED BY <1>2, <1>4, <1>6, <2>2, <2>3, CountOne, CountStep
<1> QED BY <1>5, <1>6

\* The count of closed cheats whose selector no write has followed.
LEMMA DanglingCountStep ==
  ASSUME NEW s, NEW t, NEW c, Extension(s, t, c)
  PROVE  Cardinality({h \in HeaderPositions(t) : Dangles(t, h) /\ ~StillOpen(t, h)}) =
           Cardinality({h \in HeaderPositions(s) : Dangles(s, h) /\ ~StillOpen(s, h)})
             + (IF /\ c \in Closing
                   /\ \E h \in HeaderPositions(s) : StillOpen(s, h) /\ Dangles(s, h)
                THEN 1 ELSE 0)
<1> DEFINE S == {h \in HeaderPositions(s) : Dangles(s, h) /\ ~StillOpen(s, h)}
           T == {h \in HeaderPositions(t) : Dangles(t, h) /\ ~StillOpen(t, h)}
           Added == {h \in HeaderPositions(s) : c \in Closing /\ StillOpen(s, h) /\ Dangles(s, h)}
<1>1. ASSUME NEW h \in HeaderPositions(s)
      PROVE  h \in T <=> h \in S \/ h \in Added
  <2>1. h \in HeaderPositions(t)
    BY HeaderStep
  <2>2. StillOpen(t, h) <=> StillOpen(s, h) /\ c \notin Closing
    BY OpenStep
  <2>3. ~StillOpen(s, h) \/ c \in Closing => (Dangles(t, h) <=> Dangles(s, h))
    BY DanglesStep
  <2> QED BY <2>1, <2>2, <2>3
<1>2. Len(s) + 1 \notin T
  <2>1. ASSUME Len(s) + 1 \in HeaderPositions(t) PROVE c \in Headers
    <3>1. PICK n \in Nat : n = Len(s) /\ Len(t) = n + 1 /\ t[n + 1] = c
      BY ExtensionFacts
    <3> QED BY <2>1, <3>1 DEF HeaderPositions
  <2> QED BY <2>1, OpenStep
<1>3. S \subseteq HeaderPositions(s) /\ T \subseteq HeaderPositions(t)
  OBVIOUS
<1>4. \A h \in Added : StillOpen(s, h) /\ h \notin S
  OBVIOUS
<1> HIDE DEF S, T, Added
<1>5. Cardinality(T) = Cardinality(S) + (IF Added # {} THEN 1 ELSE 0)
  BY <1>1, <1>2, <1>3, <1>4, HeaderCountStep
<1> QED BY <1>5 DEF S, T, Added

\* The position of the new line is a header only when the line is one.
LEMMA NewHeaderOnly ==
  ASSUME NEW s, NEW t, NEW c, Extension(s, t, c), Len(s) + 1 \in HeaderPositions(t)
  PROVE  c \in Headers
<1>1. PICK n \in Nat : n = Len(s) /\ Len(t) = n + 1 /\ t[n + 1] = c
  BY ExtensionFacts
<1> QED BY <1>1 DEF HeaderPositions

\* The count of cheats that have deserved some taint.
LEMMA NonDirectCountStep ==
  ASSUME NEW s, NEW t, NEW c, Extension(s, t, c)
  PROVE  Cardinality({h \in HeaderPositions(t) : SoFar(t, h) # DirectOnly}) =
           Cardinality({h \in HeaderPositions(s) : SoFar(s, h) # DirectOnly})
             + (IF \E h \in HeaderPositions(s) :
                     /\ StillOpen(s, h)
                     /\ SoFar(s, h) = DirectOnly
                     /\ Taint(s, h, c) # DirectOnly
                THEN 1 ELSE 0)
<1> DEFINE S == {h \in HeaderPositions(s) : SoFar(s, h) # DirectOnly}
           T == {h \in HeaderPositions(t) : SoFar(t, h) # DirectOnly}
           Added == {h \in HeaderPositions(s) : /\ StillOpen(s, h) /\ SoFar(s, h) = DirectOnly
                                                /\ Taint(s, h, c) # DirectOnly}
<1>1. ASSUME NEW h \in HeaderPositions(s)
      PROVE  h \in T <=> h \in S \/ h \in Added
  <2>1. h \in HeaderPositions(t)
    BY HeaderStep
  <2>2. PICK a \in 0 .. 3, b \in 0 .. 3 : a = SoFar(s, h) /\ b = Taint(s, h, c)
    BY StateTypes DEF DirectOnly, Malformed
  <2>3. SoFar(t, h) = IF StillOpen(s, h) THEN (IF b > a THEN b ELSE a) ELSE a
    BY <2>2, SoFarStep DEF Worse
  <2>4. SoFar(t, h) # 0 <=> a # 0 \/ (StillOpen(s, h) /\ a = 0 /\ b # 0)
    BY <2>2, <2>3
  <2> QED BY <2>1, <2>2, <2>4 DEF DirectOnly
<1>2. Len(s) + 1 \notin T
  BY NewHeaderOnly, NewCheat
<1>3. S \subseteq HeaderPositions(s) /\ T \subseteq HeaderPositions(t)
  OBVIOUS
<1>4. \A h \in Added : StillOpen(s, h) /\ h \notin S
  OBVIOUS
<1> HIDE DEF S, T, Added
<1>5. Cardinality(T) = Cardinality(S) + (IF Added # {} THEN 1 ELSE 0)
  BY <1>1, <1>2, <1>3, <1>4, HeaderCountStep
<1> QED BY <1>5 DEF S, T, Added

\* The count of the codes of one cheat.
LEMMA CodeCountStep ==
  ASSUME NEW s, NEW t, NEW c, Extension(s, t, c), NEW h \in HeaderPositions(s)
  PROVE  /\ Cardinality(Codes(s, h)) \in Nat
         /\ Cardinality(Codes(s, h)) = 0 <=> Codes(s, h) = {}
         /\ Cardinality(Codes(t, h)) =
              Cardinality(Codes(s, h)) + (IF StillOpen(s, h) /\ c \in CodeLines THEN 1 ELSE 0)
<1>1. PICK n \in Nat : n = Len(s)
  BY ExtensionFacts
<1>2. PICK old : old = Codes(s, h) /\ old \subseteq 1 .. n
  BY <1>1, CodesStep
<1>3. Codes(t, h) = old \cup (IF StillOpen(s, h) /\ c \in CodeLines THEN {n + 1} ELSE {})
  BY <1>1, <1>2, CodesStep
<1>4. /\ Cardinality(old) \in Nat /\ Cardinality(old \cup {n + 1}) = Cardinality(old) + 1
      /\ Cardinality(old) = 0 <=> old = {}
  BY <1>2, CountStep, CountZero
<1>5. CASE StillOpen(s, h) /\ c \in CodeLines
  BY <1>2, <1>3, <1>4, <1>5
<1>6. CASE ~(StillOpen(s, h) /\ c \in CodeLines)
  <2>1. Codes(t, h) = old
    BY <1>3, <1>6
  <2> QED BY <1>2, <1>4, <1>6, <2>1
<1> QED BY <1>5, <1>6

\* A cheat exceeds the limit of codes once, at one code past it.
LEMMA LongCheatCountStep ==
  ASSUME NEW s, NEW t, NEW c, Extension(s, t, c)
  PROVE  LET Long(r) == {h \in HeaderPositions(r) : Cardinality(Codes(r, h)) > LegacyMaxCodes}
         IN  /\ Cardinality(Long(s)) \in Nat
             /\ Cardinality(Long(t)) =
                  Cardinality(Long(s))
                    + (IF /\ c \in CodeLines
                          /\ \E h \in HeaderPositions(s) :
                               StillOpen(s, h) /\ Cardinality(Codes(s, h)) = LegacyMaxCodes
                       THEN 1 ELSE 0)
<1> DEFINE S == {h \in HeaderPositions(s) : Cardinality(Codes(s, h)) > LegacyMaxCodes}
           T == {h \in HeaderPositions(t) : Cardinality(Codes(t, h)) > LegacyMaxCodes}
           Added == {h \in HeaderPositions(s) :
                       /\ c \in CodeLines
                       /\ StillOpen(s, h) /\ Cardinality(Codes(s, h)) = LegacyMaxCodes}
<1>0. LegacyMaxCodes \in Nat
  BY LegacyPsvAssumption
<1>1. ASSUME NEW h \in HeaderPositions(s)
      PROVE  /\ h \in T <=> h \in S \/ h \in Added
             /\ h \in Added => h \notin S
  <2>1. h \in HeaderPositions(t)
    BY HeaderStep
  <2>2. PICK a \in Nat : a = Cardinality(Codes(s, h))
    BY CodeCountStep
  <2>3. Cardinality(Codes(t, h)) = a + (IF StillOpen(s, h) /\ c \in CodeLines THEN 1 ELSE 0)
    BY <2>2, CodeCountStep
  <2> QED BY <1>0, <2>1, <2>2, <2>3
<1>2. Len(s) + 1 \notin T
  <2>1. ASSUME c \in Headers PROVE ~(Cardinality(Codes(t, Len(s) + 1)) > LegacyMaxCodes)
    BY SMTT(30), <1>0, <2>1, NewCheat, FS_EmptySet
  <2> QED BY <2>1, NewHeaderOnly
<1>3. S \subseteq HeaderPositions(s) /\ T \subseteq HeaderPositions(t)
  OBVIOUS
<1>4. \A h \in Added : StillOpen(s, h) /\ h \notin S
  BY <1>1
<1> HIDE DEF S, T, Added
<1>5. /\ Cardinality(S) \in Nat
      /\ Cardinality(T) = Cardinality(S) + (IF Added # {} THEN 1 ELSE 0)
  BY <1>1, <1>2, <1>3, <1>4, HeaderCountStep
<1> QED BY <1>5 DEF S, T, Added

\* The count of descriptions that are too long.
LEMMA LongHeaderCountStep ==
  ASSUME NEW s, NEW t, NEW c, Extension(s, t, c)
  PROVE  /\ Cardinality({h \in HeaderPositions(s) : s[h] = "long_header"}) \in Nat
         /\ Cardinality({h \in HeaderPositions(t) : t[h] = "long_header"}) =
              Cardinality({h \in HeaderPositions(s) : s[h] = "long_header"})
                + (IF c = "long_header" THEN 1 ELSE 0)
<1>1. PICK n \in Nat : n = Len(s) /\ (\A i \in 1 .. n : t[i] = s[i]) /\ t[n + 1] = c
  BY ExtensionFacts
<1>2. /\ HeaderPositions(s) \subseteq 1 .. n
      /\ HeaderPositions(t) =
           HeaderPositions(s) \cup (IF c \in Headers THEN {n + 1} ELSE {})
  BY <1>1, HeaderStep
<1>3. {h \in HeaderPositions(s) : s[h] = "long_header"} \subseteq 1 .. n
  BY <1>2
<1>4. PICK old : /\ old = {h \in HeaderPositions(s) : s[h] = "long_header"}
                 /\ old \subseteq 1 .. n
  BY <1>3
<1>5. Cardinality(old) \in Nat /\ Cardinality(old \cup {n + 1}) = Cardinality(old) + 1
  BY <1>4, CountStep
<1>6. {h \in HeaderPositions(t) : t[h] = "long_header"} =
        old \cup (IF c = "long_header" THEN {n + 1} ELSE {})
  <2>1. c = "long_header" => c \in Headers
    BY DEF Headers
  <2> QED BY <1>1, <1>2, <1>4, <2>1
<1>7. CASE c = "long_header"
  BY <1>4, <1>5, <1>6, <1>7
<1>8. CASE c # "long_header"
  <2>1. {h \in HeaderPositions(t) : t[h] = "long_header"} = old
    BY <1>6, <1>8
  <2> QED BY <1>4, <1>5, <1>8, <2>1
<1> QED BY <1>7, <1>8

\* The count of legacy limits that are exceeded.
LEMMA LimitStep ==
  ASSUME NEW s, NEW t, NEW c, Extension(s, t, c)
  PROVE  /\ LimitViolations(s) \in Nat
         /\ LimitViolations(t) =
              LimitViolations(s)
                + (IF c = "long_header" THEN 1 ELSE 0)
                + (IF c \in Headers /\ Cardinality(HeaderPositions(s)) = LegacyMaxCheats
                   THEN 1 ELSE 0)
                + (IF /\ c \in CodeLines
                      /\ \E h \in HeaderPositions(s) :
                           StillOpen(s, h) /\ Cardinality(Codes(s, h)) = LegacyMaxCodes
                   THEN 1 ELSE 0)
<1>1. PICK a \in Nat, d \in {0, 1} :
        /\ a = Cardinality({h \in HeaderPositions(s) : s[h] = "long_header"})
        /\ d = IF c = "long_header" THEN 1 ELSE 0
        /\ Cardinality({h \in HeaderPositions(t) : t[h] = "long_header"}) = a + d
  BY LongHeaderCountStep
<1>2. PICK k \in Nat, e \in {0, 1} :
        /\ k = Cardinality({h \in HeaderPositions(s) :
                              Cardinality(Codes(s, h)) > LegacyMaxCodes})
        /\ e = IF /\ c \in CodeLines
                  /\ \E h \in HeaderPositions(s) :
                       StillOpen(s, h) /\ Cardinality(Codes(s, h)) = LegacyMaxCodes
               THEN 1 ELSE 0
        /\ Cardinality({h \in HeaderPositions(t) :
                          Cardinality(Codes(t, h)) > LegacyMaxCodes}) = k + e
  BY LongCheatCountStep
<1>3. PICK m \in Nat : /\ m = Cardinality(HeaderPositions(s))
                       /\ Cardinality(HeaderPositions(t)) = m + (IF c \in Headers THEN 1 ELSE 0)
  BY NumberStep
<1>4. LegacyMaxCheats \in Nat
  BY LegacyPsvAssumption
<1>5. PICK f \in {0, 1}, g \in {0, 1} :
        /\ f = IF m > LegacyMaxCheats THEN 1 ELSE 0
        /\ g = IF c \in Headers /\ m = LegacyMaxCheats THEN 1 ELSE 0
        /\ f + g = IF Cardinality(HeaderPositions(t)) > LegacyMaxCheats THEN 1 ELSE 0
  BY <1>3, <1>4
<1>6. LimitViolations(s) = a + f + k
  BY <1>1, <1>2, <1>3, <1>5 DEF LimitViolations
<1>7. LimitViolations(t) = (a + d) + (f + g) + (k + e)
  BY <1>1, <1>2, <1>5 DEF LimitViolations
<1>8. (a + d) + (f + g) + (k + e) = a + f + k + d + g + e
  OBVIOUS
<1>9. LimitViolations(t) = LimitViolations(s) + d + g + e
  BY <1>6, <1>7, <1>8
<1> QED BY <1>1, <1>2, <1>3, <1>5, <1>6, <1>9

-----------------------------------------------------------------------------
(***************************************************************************)
(* What one turn of the loop does to each part of the state, whatever the  *)
(* branch it takes.                                                        *)
(***************************************************************************)

\* Headers and codes are positions, so that they can be counted.
LEMMA SourceFacts ==
  ASSUME NEW s \in Seq(LineClasses)
  PROVE  /\ Len(s) \in Nat
         /\ HeaderPositions(s) \subseteq 1 .. Len(s)
         /\ AllCodes(s) \subseteq 1 .. Len(s)
         /\ Cardinality(HeaderPositions(s)) \in Nat
         /\ Cardinality(AllCodes(s)) \in Nat
         /\ Cardinality(HeaderPositions(s)) = 0 <=> HeaderPositions(s) = {}
<1>1. Extension(s, Append(s, "blank"), "blank")
  BY DEF Extension, LineClasses
<1>2. /\ HeaderPositions(s) \subseteq 1 .. Len(s) /\ AllCodes(s) \subseteq 1 .. Len(s)
      /\ Len(s) \in Nat
  BY <1>1, HeaderStep, AllCodesStep
<1> QED BY <1>2, CountStep, CountZero

\* Counters and capacities are natural numbers.
LEMMA Basics ==
  ASSUME LoopInv
  PROVE  /\ line_capacity \in Nat /\ cheat_capacity \in Nat /\ operation_capacity \in Nat
         /\ total_lines \in Nat /\ total_cheats \in Nat /\ total_operations \in Nat
         /\ Len(lines) \in Nat /\ Len(cheats) \in Nat /\ Len(operations) \in Nat
         /\ active_cheat \in {0, total_cheats}
         /\ active_cheat # NoIndex <=> SomeOpen(source)
<1>1. source \in Seq(LineClasses) /\ capacity \in Nat \X Nat \X Nat
  BY LegacyPsvAssumption DEF LoopInv, LoopTypes
<1>2. line_capacity \in Nat /\ cheat_capacity \in Nat /\ operation_capacity \in Nat
  BY <1>1 DEF line_capacity, cheat_capacity, operation_capacity
<1>3. total_lines \in Nat /\ total_cheats \in Nat /\ total_operations \in Nat
  BY <1>1, SourceFacts DEF LoopInv, TotalsInv
<1>4. Len(lines) \in Nat /\ Len(cheats) \in Nat /\ Len(operations) \in Nat
  BY DEF LoopInv, LoopTypes
<1>5. /\ active_cheat \in {0, total_cheats}
      /\ active_cheat # NoIndex <=> SomeOpen(source)
  BY DEF LoopInv, ActiveInv, SomeOpen, NoIndex
<1> QED BY <1>2, <1>3, <1>4, <1>5

\* The line is a code of the open cheat.
Coded(class) == class \in CodeLines /\ active_cheat # NoIndex

\* The counters, and the number of the open cheat.
LEMMA TotalsEffect ==
  ASSUME NEW class \in LineClasses, ParseLine(class)
  PROVE  /\ total_lines' = total_lines + 1
         /\ total_cheats' = IF class \in Headers THEN total_cheats + 1 ELSE total_cheats
         /\ total_operations' = IF Coded(class) THEN total_operations + 1 ELSE total_operations
         /\ active_cheat' = IF class \in Headers THEN total_cheats + 1
                            ELSE IF class = "bad_header" THEN NoIndex ELSE active_cheat
         /\ capacity' = capacity
         /\ source' = Append(source, class)
<1>0. capacity' = capacity /\ source' = Append(source, class)
  BY DEF ParseLine
<1>1. CASE SkippedLine(class)
  BY <1>0, <1>1 DEF SkippedLine, store_line, Coded, Headers, CodeLines, context
<1>2. CASE BadHeaderLine(class)
  BY <1>0, <1>2 DEF BadHeaderLine, store_line, Coded, Headers, CodeLines, OpenCheat
<1>3. CASE HeaderLine(class)
  BY <1>0, <1>3 DEF HeaderLine, store_line, Coded, Headers, CodeLines, OpenCheat
<1>4. CASE BadCodeLine(class)
  BY <1>0, <1>4 DEF BadCodeLine, store_line, Coded, Headers, CodeLines
<1>5. CASE CodeLine(class)
  BY <1>0, <1>5 DEF CodeLine, store_line, Coded, Headers, CodeLines
<1>6. CASE OpaqueLine(class)
  BY <1>0, <1>6 DEF OpaqueLine, store_line, Coded, Headers, CodeLines
<1> QED BY <1>1, <1>2, <1>3, <1>4, <1>5, <1>6 DEF ParseLine

\* The record of a line.
LineRecord(class) ==
  [kind |-> IF class \in Headers THEN "header"
            ELSE IF Coded(class) THEN "code"
            ELSE IF class \in {"blank", "comment", "opaque"} THEN class ELSE "malformed",
   cheat_index |-> IF class \in Headers THEN total_cheats + 1
                   ELSE IF Coded(class) \/ class = "opaque" THEN active_cheat ELSE NoIndex,
   operation_index |-> IF Coded(class) THEN total_operations + 1 ELSE NoIndex]

\* The array of lines.
LEMMA LinesEffect ==
  ASSUME NEW class \in LineClasses, ParseLine(class)
  PROVE  lines' = IF total_lines < line_capacity THEN Append(lines, LineRecord(class)) ELSE lines
<1>1. CASE SkippedLine(class)
  BY <1>1 DEF SkippedLine, store_line, LineRecord, Coded, Headers, CodeLines
<1>2. CASE BadHeaderLine(class)
  BY <1>2 DEF BadHeaderLine, store_line, LineRecord, Coded, Headers, CodeLines
<1>3. CASE HeaderLine(class)
  BY <1>3 DEF HeaderLine, store_line, LineRecord, Coded, Headers, CodeLines
<1>4. CASE BadCodeLine(class)
  BY <1>4 DEF BadCodeLine, store_line, LineRecord, Coded, Headers, CodeLines
<1>5. CASE CodeLine(class)
  BY <1>5 DEF CodeLine, store_line, LineRecord, Coded, Headers, CodeLines
<1>6. CASE OpaqueLine(class)
  BY <1>6 DEF OpaqueLine, store_line, LineRecord, Coded, Headers, CodeLines
<1> QED BY <1>1, <1>2, <1>3, <1>4, <1>5, <1>6 DEF ParseLine

\* The array of operations.
LEMMA OperationsEffect ==
  ASSUME NEW class \in LineClasses, ParseLine(class)
  PROVE  operations' = IF Coded(class) THEN StoredOperations(class) ELSE operations
<1>1. CASE SkippedLine(class)
  BY <1>1 DEF SkippedLine, Coded, CodeLines
<1>2. CASE BadHeaderLine(class)
  BY <1>2 DEF BadHeaderLine, Coded, CodeLines
<1>3. CASE HeaderLine(class)
  BY <1>3 DEF HeaderLine, Coded, Headers, CodeLines
<1>4. CASE BadCodeLine(class)
  BY <1>4 DEF BadCodeLine, Coded, CodeLines
<1>5. CASE CodeLine(class)
  BY <1>5 DEF CodeLine, Coded, CodeLines
<1>6. CASE OpaqueLine(class)
  BY <1>6 DEF OpaqueLine, Coded, CodeLines
<1> QED BY <1>1, <1>2, <1>3, <1>4, <1>5, <1>6 DEF ParseLine

\* The state with which a line taints the open cheat.
LineTaint(class) ==
  IF class \in Headers THEN FinalTaint
  ELSE IF class \in {"bad_header", "bad_code"} THEN Malformed
  ELSE IF class = "opaque" THEN RequiresUnsupported
  ELSE IF Coded(class) THEN CodeTaint(class) ELSE DirectOnly

HeaderRecord ==
  [translation_state |-> DirectOnly, header_line_index |-> total_lines + 1,
   first_operation_index |-> total_operations + 1, operation_count |-> 0]

\* Tainting with no state, or with no cheat open, changes nothing.
LEMMA NothingTainted ==
  ASSUME NEW state, state = DirectOnly \/ active_cheat = NoIndex
  PROVE  /\ TaintedCheats(state) = cheats
         /\ NonDirectAfter(state) = non_direct_cheats
         /\ ~Taints(state)
BY DEF TaintedCheats, NonDirectAfter, Taints

\* The array of cheats, and the count of tainted ones.
LEMMA CheatsEffect ==
  ASSUME NEW class \in LineClasses, ParseLine(class)
  PROVE  /\ cheats' =
              IF class \in Headers /\ total_cheats + 1 <= cheat_capacity
              THEN Append(TaintedCheats(LineTaint(class)), HeaderRecord)
              ELSE IF Coded(class) THEN CountedCheats(LineTaint(class))
              ELSE TaintedCheats(LineTaint(class))
         /\ non_direct_cheats' = NonDirectAfter(LineTaint(class))
<1>1. CASE SkippedLine(class)
  <2>1. class \notin Headers /\ ~Coded(class) /\ LineTaint(class) = DirectOnly
    BY <1>1 DEF SkippedLine, LineTaint, Coded, Headers, CodeLines
  <2>2. cheats' = cheats /\ non_direct_cheats' = non_direct_cheats
    BY <1>1 DEF SkippedLine, alarms
  <2> QED BY <2>1, <2>2, NothingTainted
<1>2. CASE BadHeaderLine(class)
  <2>1. class \notin Headers /\ ~Coded(class) /\ LineTaint(class) = Malformed
    BY <1>2 DEF BadHeaderLine, LineTaint, Coded, Headers, CodeLines
  <2> QED BY <1>2, <2>1 DEF BadHeaderLine
<1>3. CASE HeaderLine(class)
  <2>1. class \in Headers /\ ~Coded(class) /\ LineTaint(class) = FinalTaint
    BY <1>3 DEF HeaderLine, LineTaint, Coded, Headers, CodeLines
  <2> QED BY <1>3, <2>1 DEF HeaderLine, HeaderRecord
<1>4. CASE BadCodeLine(class)
  <2>1. class \notin Headers /\ ~Coded(class)
    BY <1>4 DEF BadCodeLine, Coded, Headers, CodeLines
  <2>2. cheats' = TaintedCheats(Malformed) /\ non_direct_cheats' = NonDirectAfter(Malformed)
    BY <1>4 DEF BadCodeLine, TaintActiveCheat
  <2>3. LineTaint(class) = Malformed \/ (LineTaint(class) = DirectOnly /\ active_cheat = NoIndex)
    BY <1>4 DEF BadCodeLine, LineTaint, Coded, Headers, CodeLines
  <2> QED BY <2>1, <2>2, <2>3, NothingTainted
<1>5. CASE CodeLine(class)
  <2>1. class \notin Headers /\ Coded(class) /\ LineTaint(class) = CodeTaint(class)
    BY <1>5 DEF CodeLine, LineTaint, Coded, Headers, CodeLines
  <2> QED BY <1>5, <2>1 DEF CodeLine
<1>6. CASE OpaqueLine(class)
  <2>1. class \notin Headers /\ ~Coded(class) /\ LineTaint(class) = RequiresUnsupported
    BY <1>6 DEF OpaqueLine, LineTaint, Coded, Headers, CodeLines
  <2> QED BY <1>6, <2>1 DEF OpaqueLine, TaintActiveCheat
<1> QED BY <1>1, <1>2, <1>3, <1>4, <1>5, <1>6 DEF ParseLine

\* The locals: a header, good or bad, resets them.
LEMMA ContextEffect ==
  ASSUME NEW class \in LineClasses, ParseLine(class),
         relative_base_active \in BOOLEAN, relative_write_seen \in BOOLEAN,
         active_cheat_tainted \in BOOLEAN
  PROVE  /\ class \in Closing =>
              /\ active_cheat_operation_count' = 0
              /\ ~relative_base_active' /\ ~relative_write_seen' /\ ~active_cheat_tainted'
         /\ class \notin Closing =>
              /\ active_cheat_operation_count' =
                   IF Coded(class) THEN active_cheat_operation_count + 1
                   ELSE active_cheat_operation_count
              /\ relative_base_active' <=>
                   relative_base_active \/ (Coded(class) /\ SelectorAccepted(class))
              /\ relative_write_seen' <=>
                   /\ ~(Coded(class) /\ SelectorAccepted(class))
                   /\ relative_write_seen \/ (Coded(class) /\ class = "write" /\ relative_base_active)
              /\ active_cheat_tainted' <=> active_cheat_tainted \/ Taints(LineTaint(class))
         /\ relative_base_active' \in BOOLEAN /\ relative_write_seen' \in BOOLEAN
         /\ active_cheat_tainted' \in BOOLEAN
<1>1. CASE SkippedLine(class)
  <2>1. class \notin Closing /\ ~Coded(class) /\ LineTaint(class) = DirectOnly
    BY <1>1 DEF SkippedLine, LineTaint, Coded, Headers, CodeLines, Closing
  <2>2. UNCHANGED <<active_cheat_operation_count, active_cheat_tainted,
                    relative_base_active, relative_write_seen>>
    BY <1>1 DEF SkippedLine, context
  <2> QED BY <2>1, <2>2, NothingTainted
<1>2. CASE BadHeaderLine(class)
  BY <1>2 DEF BadHeaderLine, OpenCheat, Closing
<1>3. CASE HeaderLine(class)
  BY <1>3 DEF HeaderLine, OpenCheat, Closing
<1>4. CASE BadCodeLine(class)
  <2>1. class \notin Closing /\ ~Coded(class)
    BY <1>4 DEF BadCodeLine, Coded, Headers, CodeLines, Closing
  <2>2. UNCHANGED <<active_cheat_operation_count, relative_base_active, relative_write_seen>>
    BY <1>4 DEF BadCodeLine
  <2>3. active_cheat_tainted' = (active_cheat_tainted \/ Taints(Malformed))
    BY <1>4 DEF BadCodeLine, TaintActiveCheat
  <2>4. LineTaint(class) = Malformed \/ (LineTaint(class) = DirectOnly /\ active_cheat = NoIndex)
    BY <1>4 DEF BadCodeLine, LineTaint, Coded, Headers, CodeLines
  <2>5. Taints(LineTaint(class)) <=> Taints(Malformed)
    BY <2>4, NothingTainted
  <2> QED BY <2>1, <2>2, <2>3, <2>5
<1>5. CASE CodeLine(class)
  <2>1. class \notin Closing /\ Coded(class) /\ LineTaint(class) = CodeTaint(class)
    BY <1>5 DEF CodeLine, LineTaint, Coded, Headers, CodeLines, Closing
  <2>2. operation_kind(class) = "WRITE" <=> class = "write"
    BY <1>5 DEF CodeLine, CodeLines, operation_kind
  <2>3. /\ active_cheat_operation_count' = active_cheat_operation_count + 1
        /\ active_cheat_tainted' = (active_cheat_tainted \/ Taints(CodeTaint(class)))
        /\ relative_base_active' = (relative_base_active \/ SelectorAccepted(class))
        /\ relative_write_seen' =
             (~SelectorAccepted(class)
                /\ (relative_write_seen
                      \/ (operation_kind(class) = "WRITE" /\ relative_base_active)))
    BY <1>5 DEF CodeLine
  <2> QED BY <2>1, <2>2, <2>3
<1>6. CASE OpaqueLine(class)
  <2>1. class \notin Closing /\ ~Coded(class) /\ LineTaint(class) = RequiresUnsupported
    BY <1>6 DEF OpaqueLine, LineTaint, Coded, Headers, CodeLines, Closing
  <2>2. UNCHANGED <<active_cheat_operation_count, relative_base_active, relative_write_seen>>
    BY <1>6 DEF OpaqueLine
  <2>3. active_cheat_tainted' = (active_cheat_tainted \/ Taints(RequiresUnsupported))
    BY <1>6 DEF OpaqueLine, TaintActiveCheat
  <2> QED BY <2>1, <2>2, <2>3
<1> QED BY <1>1, <1>2, <1>3, <1>4, <1>5, <1>6 DEF ParseLine

Numeric ==
  /\ unsupported_operations \in Nat /\ malformed_lines \in Nat
  /\ invalid_operation_sequences \in Nat /\ legacy_limit_violations \in Nat

\* The counters of the report other than the totals.
LEMMA AlarmsEffect ==
  ASSUME NEW class \in LineClasses, ParseLine(class), Numeric
  PROVE  /\ unsupported_operations' =
              unsupported_operations + (IF class = "opaque_code" /\ Coded(class) THEN 1 ELSE 0)
         /\ malformed_lines' =
              malformed_lines
                + (IF \/ class \in {"bad_header", "bad_code"}
                      \/ (class \in CodeLines /\ active_cheat = NoIndex)
                   THEN 1 ELSE 0)
         /\ invalid_operation_sequences' =
              invalid_operation_sequences
                + (IF \/ (class \in Closing /\ DanglingSelector)
                      \/ (/\ Coded(class) /\ class \in {"selector", "bad_selector"}
                          /\ ~SelectorAccepted(class))
                   THEN 1 ELSE 0)
<1> USE DEF Numeric
<1>1. CASE SkippedLine(class)
  BY <1>1 DEF SkippedLine, alarms, Coded, Headers, CodeLines, Closing
<1>2. CASE BadHeaderLine(class)
  BY <1>2 DEF BadHeaderLine, Coded, Headers, CodeLines, Closing, InvalidAfterFinalize
<1>3. CASE HeaderLine(class)
  BY <1>3 DEF HeaderLine, Coded, Headers, CodeLines, Closing, InvalidAfterFinalize
<1>4. CASE BadCodeLine(class)
  BY <1>4 DEF BadCodeLine, Coded, Headers, CodeLines, Closing
<1>5. CASE CodeLine(class)
  BY <1>5 DEF CodeLine, Coded, Headers, CodeLines, Closing, operation_kind
<1>6. CASE OpaqueLine(class)
  BY <1>6 DEF OpaqueLine, Coded, Headers, CodeLines, Closing
<1> QED BY <1>1, <1>2, <1>3, <1>4, <1>5, <1>6 DEF ParseLine

\* The counter of legacy limits.
LEMMA LimitEffect ==
  ASSUME NEW class \in LineClasses, ParseLine(class), Numeric, total_cheats \in Nat
  PROVE  legacy_limit_violations' =
           legacy_limit_violations
             + (IF class = "long_header" THEN 1 ELSE 0)
             + (IF class \in Headers /\ total_cheats = LegacyMaxCheats THEN 1 ELSE 0)
             + (IF Coded(class) /\ active_cheat_operation_count = LegacyMaxCodes
                THEN 1 ELSE 0)
<1>0. legacy_limit_violations \in Nat /\ LegacyMaxCheats \in Nat
  BY LegacyPsvAssumption DEF Numeric
<1>1. CASE ~HeaderLine(class) /\ ~CodeLine(class)
  <2>1. legacy_limit_violations' = legacy_limit_violations
    BY <1>1 DEF ParseLine, SkippedLine, BadHeaderLine, BadCodeLine, OpaqueLine, alarms
  <2>2. class \notin Headers /\ ~Coded(class)
    BY <1>1 DEF ParseLine, SkippedLine, BadHeaderLine, BadCodeLine, OpaqueLine, Headers,
                Coded, CodeLines
  <2>3. class # "long_header"
    BY <2>2 DEF Headers
  <2> QED BY <1>0, <2>1, <2>2, <2>3
<1>2. CASE HeaderLine(class)
  <2>1. class \in Headers /\ ~Coded(class)
    BY <1>2 DEF HeaderLine, Coded, Headers, CodeLines
  <2>2. legacy_limit_violations' =
          legacy_limit_violations
            + (IF class = "long_header" THEN 1 ELSE 0)
            + (IF total_cheats + 1 = LegacyMaxCheats + 1 THEN 1 ELSE 0)
    BY <1>2 DEF HeaderLine
  <2>3. total_cheats + 1 = LegacyMaxCheats + 1 <=> total_cheats = LegacyMaxCheats
    BY <1>0
  <2> QED BY <1>0, <2>1, <2>2, <2>3
<1>3. CASE CodeLine(class)
  <2>1. class \notin Headers /\ class # "long_header" /\ Coded(class)
    BY <1>3 DEF CodeLine, Coded, Headers, CodeLines
  <2>2. legacy_limit_violations' =
          legacy_limit_violations
            + (IF active_cheat_operation_count = LegacyMaxCodes THEN 1 ELSE 0)
    BY <1>3 DEF CodeLine
  <2> QED BY <1>0, <2>1, <2>2
<1> QED BY <1>1, <1>2, <1>3

-----------------------------------------------------------------------------
(***************************************************************************)
(* The locals decide what the reference says of the open cheat.            *)
(***************************************************************************)

\* The file gets one line longer.
LEMMA LineExtends ==
  ASSUME LoopInv, NEW class \in LineClasses, ParseLine(class)
  PROVE  Extension(source, source', class)
BY TotalsEffect DEF Extension, LoopInv, LoopTypes

\* The locals decide as the whole block of the open cheat would.
LEMMA LocalsDecide ==
  ASSUME LoopInv, NEW class \in LineClasses, NEW h, StillOpen(source, h)
  PROVE  /\ SelectorAccepted(class) <=> Accepts(source, h, class)
         /\ DanglingSelector <=> Dangles(source, h)
         /\ active_cheat # NoIndex
         /\ CheatNumber(source, h) = active_cheat
         /\ Coded(class) <=> class \in CodeLines
         /\ LineTaint(class) = Taint(source, h, class)
<1>1. h \in HeaderPositions(source) /\ source \in Seq(LineClasses)
  BY DEF StillOpen, LoopInv, LoopTypes
<1>2. /\ active_cheat # NoIndex /\ CheatNumber(source, h) = active_cheat
      /\ active_cheat_operation_count = Cardinality(Codes(source, h))
      /\ relative_base_active <=> Selects(source, h)
      /\ relative_write_seen <=> Selects(source, h) /\ Has(source, h, {"write"})
  BY <1>1 DEF LoopInv, ActiveInv
<1>3. active_cheat_operation_count = 0 <=> Codes(source, h) = {}
  <2>1. Extension(source, Append(source, class), class)
    BY <1>1 DEF Extension
  <2> QED BY <1>1, <1>2, <2>1, CodeCountStep
<1>4. Codes(source, h) = {} => ~Selects(source, h)
  BY DEF Selects, GoodSelectors
<1>5. SelectorAccepted(class) <=> Accepts(source, h, class)
  BY <1>2, <1>3, <1>4 DEF SelectorAccepted, Accepts
<1>6. DanglingSelector <=> Dangles(source, h)
  BY <1>2 DEF DanglingSelector, Dangles
<1>7. Coded(class) <=> class \in CodeLines
  BY <1>2 DEF Coded
<1>8. Accepts(source, h, class) => class = "selector"
  BY DEF Accepts
<1>9. Rejects(source, h, class) <=>
        class \in {"selector", "bad_selector"} /\ ~Accepts(source, h, class)
  BY DEF Rejects
<1>10. LineTaint(class) = Taint(source, h, class)
  <2>1. CASE class \in Headers
    BY <1>6, <1>8, <1>9, <2>1 DEF LineTaint, Taint, FinalTaint, Headers
  <2>2. CASE class \in CodeLines
    BY <1>5, <1>7, <1>8, <1>9, <2>2
       DEF LineTaint, Taint, CodeTaint, operation_kind, Headers, CodeLines
  <2>3. CASE class \notin Headers /\ class \notin CodeLines
    <3>1. ~Coded(class) /\ class \notin {"selector", "bad_selector"}
      BY <2>3 DEF Coded, CodeLines
    <3>2. class # "opaque_code"
      BY <2>3 DEF CodeLines
    <3> QED BY <1>8, <1>9, <2>3, <3>1, <3>2 DEF LineTaint, Taint
  <2> QED BY <2>1, <2>2, <2>3
<1> QED BY <1>2, <1>5, <1>6, <1>7, <1>10

-----------------------------------------------------------------------------
(***************************************************************************)
(* The array of cheats: tainting and counting change one field of one      *)
(* record.                                                                 *)
(***************************************************************************)

\* An update of a translation state touches nothing else.
LEMMA StateUpdate ==
  ASSUME NEW q \in Seq(CheatRecords), NEW k \in 1 .. Len(q), NEW v \in DirectOnly .. Malformed,
         NEW r, r = [q EXCEPT ![k].translation_state = v]
  PROVE  /\ r \in Seq(CheatRecords) /\ Len(r) = Len(q)
         /\ \A i \in 1 .. Len(q) :
              /\ r[i].translation_state = IF i = k THEN v ELSE q[i].translation_state
              /\ r[i].header_line_index = q[i].header_line_index
              /\ r[i].first_operation_index = q[i].first_operation_index
              /\ r[i].operation_count = q[i].operation_count
<1>1. Len(q) \in Nat /\ q \in [1 .. Len(q) -> CheatRecords]
  OBVIOUS
<1>2. PICK old \in CheatRecords : old = q[k]
  BY <1>1
<1>3. PICK new : new = [old EXCEPT !.translation_state = v]
  OBVIOUS
<1>4. /\ new \in CheatRecords
      /\ new.translation_state = v
      /\ new.header_line_index = old.header_line_index
      /\ new.first_operation_index = old.first_operation_index
      /\ new.operation_count = old.operation_count
  BY <1>2, <1>3 DEF CheatRecords
<1>5. r = [q EXCEPT ![k] = new]
  BY <1>1, <1>2, <1>3
<1>6. r \in [1 .. Len(q) -> CheatRecords] /\ r \in Seq(CheatRecords) /\ Len(r) = Len(q)
  BY <1>1, <1>4, <1>5
<1>7. \A i \in 1 .. Len(q) : r[i] = IF i = k THEN new ELSE q[i]
  BY <1>1, <1>5
<1> QED BY <1>2, <1>4, <1>6, <1>7

\* An update of a count of operations touches nothing else.
LEMMA CountUpdate ==
  ASSUME NEW q \in Seq(CheatRecords), NEW k \in 1 .. Len(q),
         NEW r, r = [q EXCEPT ![k].operation_count = @ + 1]
  PROVE  /\ r \in Seq(CheatRecords) /\ Len(r) = Len(q)
         /\ \A i \in 1 .. Len(q) :
              /\ r[i].translation_state = q[i].translation_state
              /\ r[i].header_line_index = q[i].header_line_index
              /\ r[i].first_operation_index = q[i].first_operation_index
              /\ r[i].operation_count = IF i = k THEN q[i].operation_count + 1
                                        ELSE q[i].operation_count
<1>1. Len(q) \in Nat /\ q \in [1 .. Len(q) -> CheatRecords]
  OBVIOUS
<1>2. PICK old \in CheatRecords : old = q[k]
  BY <1>1
<1>3. PICK new : new = [old EXCEPT !.operation_count = @ + 1]
  OBVIOUS
<1>4. /\ new \in CheatRecords
      /\ new.translation_state = old.translation_state
      /\ new.header_line_index = old.header_line_index
      /\ new.first_operation_index = old.first_operation_index
      /\ new.operation_count = old.operation_count + 1
  <2>1. /\ old.translation_state \in DirectOnly .. Malformed /\ old.header_line_index \in Nat
        /\ old.first_operation_index \in Nat /\ old.operation_count \in Nat
    BY <1>2 DEF CheatRecords
  <2>2. old.operation_count + 1 \in Nat
    BY <2>1
  <2>3. new = [translation_state |-> old.translation_state,
               header_line_index |-> old.header_line_index,
               first_operation_index |-> old.first_operation_index,
               operation_count |-> old.operation_count + 1]
    BY <1>2, <1>3 DEF CheatRecords
  <2> QED BY <2>1, <2>2, <2>3 DEF CheatRecords
<1>5. r = [q EXCEPT ![k] = new]
  BY <1>1, <1>2, <1>3
<1>6. r \in [1 .. Len(q) -> CheatRecords] /\ r \in Seq(CheatRecords) /\ Len(r) = Len(q)
  BY <1>1, <1>4, <1>5
<1>7. \A i \in 1 .. Len(q) : r[i] = IF i = k THEN new ELSE q[i]
  BY <1>1, <1>5
<1> QED BY <1>2, <1>4, <1>6, <1>7

\* The active cheat is stored exactly when its number fits the capacity.
LEMMA ActiveStored ==
  ASSUME LoopInv
  PROVE  /\ \A k \in 1 .. total_cheats : k \in 1 .. Len(cheats) <=> k <= cheat_capacity
         /\ active_cheat # NoIndex =>
              (active_cheat \in 1 .. Len(cheats) <=> active_cheat <= cheat_capacity)
         /\ active_cheat \in 1 .. Len(cheats) => active_cheat # NoIndex
<1>1. Len(cheats) = IF total_cheats <= cheat_capacity THEN total_cheats ELSE cheat_capacity
  BY DEF LoopInv, TotalsInv, Fill
<1> QED BY <1>1, Basics DEF NoIndex

\* taint_active_cheat leaves the worse state in the open cheat, when it is stored.
LEMMA TaintedFacts ==
  ASSUME LoopInv, NEW state \in DirectOnly .. Malformed
  PROVE  /\ TaintedCheats(state) \in Seq(CheatRecords)
         /\ Len(TaintedCheats(state)) = Len(cheats)
         /\ \A i \in 1 .. Len(cheats) :
              /\ TaintedCheats(state)[i].translation_state =
                   IF i = active_cheat THEN Worse(cheats[i].translation_state, state)
                   ELSE cheats[i].translation_state
              /\ TaintedCheats(state)[i].header_line_index = cheats[i].header_line_index
              /\ TaintedCheats(state)[i].first_operation_index =
                   cheats[i].first_operation_index
              /\ TaintedCheats(state)[i].operation_count = cheats[i].operation_count
<1>1. cheats \in Seq(CheatRecords)
  BY DEF LoopInv, LoopTypes
<1>2. \A i \in 1 .. Len(cheats) : cheats[i].translation_state \in 0 .. 3
  <2>1. \A i \in 1 .. Len(cheats) : cheats[i] \in CheatRecords
    BY <1>1
  <2> QED BY <2>1 DEF CheatRecords, DirectOnly, Malformed
<1>3. CASE /\ Taints(state) /\ active_cheat <= cheat_capacity
           /\ state > cheats[active_cheat].translation_state
  <2>1. active_cheat \in 1 .. Len(cheats)
    BY <1>3, ActiveStored DEF Taints
  <2>2. TaintedCheats(state) = [cheats EXCEPT ![active_cheat].translation_state = state]
    BY <1>3 DEF TaintedCheats
  <2>3. PICK r : r = TaintedCheats(state)
    OBVIOUS
  <2>4. /\ r \in Seq(CheatRecords) /\ Len(r) = Len(cheats)
        /\ \A i \in 1 .. Len(cheats) :
             /\ r[i].translation_state =
                  IF i = active_cheat THEN state ELSE cheats[i].translation_state
             /\ r[i].header_line_index = cheats[i].header_line_index
             /\ r[i].first_operation_index = cheats[i].first_operation_index
             /\ r[i].operation_count = cheats[i].operation_count
    BY SMTT(30), <1>1, <2>1, <2>2, <2>3, StateUpdate
  <2>5. Worse(cheats[active_cheat].translation_state, state) = state
    BY <1>3 DEF Worse
  <2> QED BY <2>3, <2>4, <2>5
<1>4. CASE ~(/\ Taints(state) /\ active_cheat <= cheat_capacity
             /\ state > cheats[active_cheat].translation_state)
  <2>1. TaintedCheats(state) = cheats
    BY <1>4 DEF TaintedCheats
  <2>2. ASSUME NEW i \in 1 .. Len(cheats), i = active_cheat
        PROVE  Worse(cheats[i].translation_state, state) = cheats[i].translation_state
    <3>1. active_cheat # NoIndex /\ active_cheat <= cheat_capacity
      BY <2>2, ActiveStored
    <3>2. state = DirectOnly \/ ~(state > cheats[i].translation_state)
      BY <1>4, <2>2, <3>1 DEF Taints
    <3>3. PICK a \in 0 .. 3 : a = cheats[i].translation_state
      BY <1>2, <2>2
    <3> QED BY <3>2, <3>3 DEF Worse, DirectOnly
  <2> QED BY <1>1, <2>1, <2>2
<1> QED BY <1>3, <1>4

\* A line taints with a state.
LEMMA LineTaintType ==
  ASSUME NEW class
  PROVE  LineTaint(class) \in DirectOnly .. Malformed
<1>1. FinalTaint \in 0 .. 3
  BY DEF FinalTaint, Malformed, DirectOnly
<1>2. CodeTaint(class) \in 0 .. 3
  BY DEF CodeTaint, Malformed, DirectOnly, ModuleRelative, RequiresUnsupported
<1> QED BY <1>1, <1>2 DEF LineTaint, Malformed, DirectOnly, RequiresUnsupported

\* The array after a line, record by record.
LEMMA CheatRecordsAfter ==
  ASSUME LoopInv, NEW class \in LineClasses, ParseLine(class)
  PROVE  /\ cheats' \in Seq(CheatRecords)
         /\ Len(cheats') = IF class \in Headers /\ total_cheats < cheat_capacity
                           THEN Len(cheats) + 1 ELSE Len(cheats)
         /\ \A i \in 1 .. Len(cheats) :
              /\ cheats'[i].translation_state =
                   IF i = active_cheat
                   THEN Worse(cheats[i].translation_state, LineTaint(class))
                   ELSE cheats[i].translation_state
              /\ cheats'[i].header_line_index = cheats[i].header_line_index
              /\ cheats'[i].first_operation_index = cheats[i].first_operation_index
              /\ cheats'[i].operation_count =
                   IF i = active_cheat /\ Coded(class) THEN cheats[i].operation_count + 1
                   ELSE cheats[i].operation_count
         /\ class \in Headers /\ total_cheats < cheat_capacity =>
              cheats'[Len(cheats) + 1] = HeaderRecord
<1>1. PICK mid \in Seq(CheatRecords) :
        /\ mid = TaintedCheats(LineTaint(class)) /\ Len(mid) = Len(cheats)
        /\ \A i \in 1 .. Len(cheats) :
             /\ mid[i].translation_state =
                  IF i = active_cheat
                  THEN Worse(cheats[i].translation_state, LineTaint(class))
                  ELSE cheats[i].translation_state
             /\ mid[i].header_line_index = cheats[i].header_line_index
             /\ mid[i].first_operation_index = cheats[i].first_operation_index
             /\ mid[i].operation_count = cheats[i].operation_count
  BY LineTaintType, TaintedFacts
<1>2. /\ total_cheats \in Nat /\ cheat_capacity \in Nat /\ Len(cheats) \in Nat
      /\ total_lines \in Nat /\ total_operations \in Nat
  BY Basics
<1>3. total_cheats + 1 <= cheat_capacity <=> total_cheats < cheat_capacity
  BY <1>2
<1>4. CASE class \in Headers /\ total_cheats < cheat_capacity
  <2>1. HeaderRecord \in CheatRecords
    BY <1>2 DEF HeaderRecord, CheatRecords, DirectOnly, Malformed
  <2>2. cheats' = Append(mid, HeaderRecord)
    BY <1>1, <1>3, <1>4, CheatsEffect
  <2>3. ~Coded(class)
    BY <1>4 DEF Coded, Headers, CodeLines
  <2>4. /\ cheats' \in Seq(CheatRecords) /\ Len(cheats') = Len(cheats) + 1
        /\ \A i \in 1 .. Len(cheats) : cheats'[i] = mid[i]
        /\ cheats'[Len(cheats) + 1] = HeaderRecord
    BY <1>1, <2>1, <2>2
  <2> QED BY <1>1, <1>4, <2>3, <2>4
<1>5. CASE class \notin Headers /\ Coded(class) /\ active_cheat <= cheat_capacity
  <2>1. active_cheat \in 1 .. Len(mid)
    BY <1>1, <1>5, ActiveStored DEF Coded
  <2>2. cheats' = [mid EXCEPT ![active_cheat].operation_count = @ + 1]
    BY <1>1, <1>5, CheatsEffect DEF CountedCheats
  <2>3. /\ cheats' \in Seq(CheatRecords) /\ Len(cheats') = Len(mid)
        /\ \A i \in 1 .. Len(mid) :
             /\ cheats'[i].translation_state = mid[i].translation_state
             /\ cheats'[i].header_line_index = mid[i].header_line_index
             /\ cheats'[i].first_operation_index = mid[i].first_operation_index
             /\ cheats'[i].operation_count = IF i = active_cheat THEN mid[i].operation_count + 1
                                             ELSE mid[i].operation_count
    BY <2>1, <2>2, CountUpdate
  <2> QED BY <1>1, <1>5, <2>3
<1>6. CASE /\ ~(class \in Headers /\ total_cheats < cheat_capacity)
           /\ ~(class \notin Headers /\ Coded(class) /\ active_cheat <= cheat_capacity)
  <2>1. class \in Headers => ~Coded(class)
    BY DEF Coded, Headers, CodeLines
  <2>2. cheats' = mid
    BY <1>1, <1>3, <1>6, <2>1, CheatsEffect DEF CountedCheats
  <2>3. ASSUME NEW i \in 1 .. Len(cheats) PROVE ~(i = active_cheat /\ Coded(class))
    BY <1>6, <2>1, <2>3, ActiveStored
  <2> QED BY <1>1, <1>6, <2>2, <2>3
<1> QED BY <1>4, <1>5, <1>6

-----------------------------------------------------------------------------
(***************************************************************************)
(* A line preserves each part of the loop invariant.                       *)
(***************************************************************************)

\* What is stored are records.
LEMMA RecordTypes ==
  ASSUME LoopInv, NEW class \in LineClasses
  PROVE  /\ LineRecord(class) \in LineRecords
         /\ Coded(class) =>
              [kind |-> operation_kind(class), address_mode |-> AddressMode(class),
               cheat_index |-> active_cheat, line_index |-> total_lines + 1]
                \in OperationRecords
<1>1. /\ total_lines \in Nat /\ total_cheats \in Nat /\ total_operations \in Nat
      /\ active_cheat \in Nat
  BY Basics
<1>2. /\ LineRecord(class).cheat_index \in Nat /\ LineRecord(class).operation_index \in Nat
      /\ LineRecord(class).kind \in
           {"blank", "comment", "malformed", "header", "code", "opaque"}
  BY <1>1 DEF LineRecord, NoIndex
<1>3. LineRecord(class) \in LineRecords
  BY <1>2 DEF LineRecord, LineRecords
<1>4. ASSUME Coded(class)
      PROVE  /\ operation_kind(class) \in {"WRITE", "SELECT_MODULE_BASE", "OPAQUE"}
             /\ AddressMode(class) \in {"NOT_APPLICABLE", "SELECTED_MODULE_RELATIVE", "ABSOLUTE"}
  BY <1>4 DEF Coded, CodeLines, operation_kind, AddressMode
<1> QED BY <1>1, <1>3, <1>4 DEF OperationRecords

\* The array of lines after a line.
LEMMA LinesAfter ==
  ASSUME LoopInv, NEW class \in LineClasses, ParseLine(class)
  PROVE  /\ lines' \in Seq(LineRecords)
         /\ Len(lines') = IF total_lines < line_capacity THEN Len(lines) + 1 ELSE Len(lines)
         /\ \A i \in 1 .. Len(lines) : lines'[i] = lines[i]
         /\ total_lines < line_capacity => lines'[Len(lines) + 1] = LineRecord(class)
<1>1. lines \in Seq(LineRecords) /\ LineRecord(class) \in LineRecords
  BY RecordTypes DEF LoopInv, LoopTypes
<1>2. PICK new \in LineRecords : new = LineRecord(class)
  BY <1>1
<1>3. CASE total_lines < line_capacity
  <2>1. lines' = Append(lines, new)
    BY <1>2, <1>3, LinesEffect
  <2> QED BY <1>1, <1>2, <1>3, <2>1
<1>4. CASE ~(total_lines < line_capacity)
  <2>1. lines' = lines
    BY <1>4, LinesEffect
  <2> QED BY <1>1, <1>4, <2>1
<1> QED BY <1>3, <1>4

\* The array of operations after a line.
LEMMA OperationsAfter ==
  ASSUME LoopInv, NEW class \in LineClasses, ParseLine(class)
  PROVE  /\ operations' \in Seq(OperationRecords)
         /\ Len(operations') =
              IF Coded(class) /\ total_operations < operation_capacity
              THEN Len(operations) + 1 ELSE Len(operations)
         /\ \A i \in 1 .. Len(operations) : operations'[i] = operations[i]
         /\ Coded(class) /\ total_operations < operation_capacity =>
              operations'[Len(operations) + 1] =
                [kind |-> operation_kind(class), address_mode |-> AddressMode(class),
                 cheat_index |-> active_cheat, line_index |-> total_lines + 1]
<1>1. operations \in Seq(OperationRecords)
  BY DEF LoopInv, LoopTypes
<1>2. CASE Coded(class) /\ total_operations < operation_capacity
  <2>1. PICK new \in OperationRecords :
          new = [kind |-> operation_kind(class), address_mode |-> AddressMode(class),
                 cheat_index |-> active_cheat, line_index |-> total_lines + 1]
    BY <1>2, RecordTypes
  <2>2. operations' = Append(operations, new)
    BY <1>2, <2>1, OperationsEffect DEF StoredOperations
  <2> QED BY <1>1, <1>2, <2>1, <2>2
<1>3. CASE ~(Coded(class) /\ total_operations < operation_capacity)
  <2>1. operations' = operations
    BY <1>3, OperationsEffect DEF StoredOperations
  <2> QED BY <1>1, <1>3, <2>1
<1> QED BY <1>2, <1>3

\* One lemma for each part of the invariant, from here to LineStep.
LEMMA TypesStep ==
  ASSUME LoopInv, NEW class \in LineClasses, ParseLine(class)
  PROVE  LoopTypes'
<1>1. /\ lines' \in Seq(LineRecords) /\ cheats' \in Seq(CheatRecords)
      /\ operations' \in Seq(OperationRecords)
  BY LinesAfter, CheatRecordsAfter, OperationsAfter
<1>2. /\ relative_base_active' \in BOOLEAN /\ relative_write_seen' \in BOOLEAN
      /\ active_cheat_tainted' \in BOOLEAN
  BY ContextEffect DEF LoopInv, LoopTypes
<1>3. source' \in Seq(LineClasses)
  BY LineExtends, ExtensionFacts
<1>4. capacity' \in Capacities
  BY TotalsEffect DEF LoopInv, LoopTypes
<1> QED BY <1>1, <1>2, <1>3, <1>4 DEF LoopTypes

\* A code is stored exactly when a cheat is open in the file.
LEMMA CodedIsCode ==
  ASSUME LoopInv, NEW class
  PROVE  Coded(class) <=> class \in CodeLines /\ SomeOpen(source)
BY Basics DEF Coded

LEMMA TotalsStep ==
  ASSUME LoopInv, NEW class \in LineClasses, ParseLine(class)
  PROVE  TotalsInv'
<1>1. Extension(source, source', class)
  BY LineExtends
<1>2. total_lines' = Len(source')
  BY <1>1, TotalsEffect, ExtensionFacts DEF LoopInv, TotalsInv
<1>3. total_cheats' = Cardinality(HeaderPositions(source'))
  <2>1. total_cheats = Cardinality(HeaderPositions(source)) /\ total_cheats \in Nat
    BY Basics DEF LoopInv, TotalsInv
  <2> QED BY <1>1, <2>1, TotalsEffect, NumberStep
<1>4. total_operations' = Cardinality(AllCodes(source'))
  <2>1. PICK n \in Nat : n = Len(source) /\ AllCodes(source) \subseteq 1 .. n
    BY <1>1, ExtensionFacts, AllCodesStep
  <2>2. PICK old : old = AllCodes(source)
    OBVIOUS
  <2>3. AllCodes(source') = old \cup (IF Coded(class) THEN {n + 1} ELSE {})
    BY <1>1, <2>1, <2>2, AllCodesStep, CodedIsCode DEF SomeOpen
  <2>4. Cardinality(old \cup {n + 1}) = Cardinality(old) + 1
    BY <2>1, <2>2, CountStep
  <2>5. total_operations = Cardinality(old)
    BY <2>2 DEF LoopInv, TotalsInv
  <2>6. CASE Coded(class)
    BY <2>3, <2>4, <2>5, <2>6, TotalsEffect
  <2>7. CASE ~Coded(class)
    <3>1. AllCodes(source') = old
      BY <2>3, <2>7
    <3> QED BY <2>5, <2>7, <3>1, TotalsEffect
  <2> QED BY <2>6, <2>7
<1>5. /\ line_capacity' = line_capacity /\ cheat_capacity' = cheat_capacity
      /\ operation_capacity' = operation_capacity
  BY TotalsEffect DEF line_capacity, cheat_capacity, operation_capacity
<1>6. /\ Len(lines) = Fill(total_lines, line_capacity)
      /\ Len(cheats) = Fill(total_cheats, cheat_capacity)
      /\ Len(operations) = Fill(total_operations, operation_capacity)
  BY DEF LoopInv, TotalsInv
<1>7. Len(lines') = Fill(total_lines + 1, line_capacity)
  BY <1>6, LinesAfter, Basics DEF Fill
<1>8. Len(cheats') = Fill(total_cheats', cheat_capacity)
  <2>1. CASE class \in Headers
    <3>1. Len(cheats') = Fill(total_cheats + 1, cheat_capacity)
      BY <1>6, <2>1, CheatRecordsAfter, Basics DEF Fill
    <3> QED BY <2>1, <3>1, TotalsEffect
  <2>2. CASE class \notin Headers
    BY <1>6, <2>2, CheatRecordsAfter, TotalsEffect
  <2> QED BY <2>1, <2>2
<1>9. Len(operations') = Fill(total_operations', operation_capacity)
  <2>1. CASE Coded(class)
    <3>0. Len(operations') = IF total_operations < operation_capacity
                             THEN Len(operations) + 1 ELSE Len(operations)
      BY <2>1, OperationsAfter
    <3>1. Len(operations') = Fill(total_operations + 1, operation_capacity)
      BY <1>6, <3>0, Basics DEF Fill
    <3> QED BY <2>1, <3>1, TotalsEffect
  <2>2. CASE ~Coded(class)
    BY <1>6, <2>2, OperationsAfter, TotalsEffect
  <2> QED BY <2>1, <2>2
<1> QED BY <1>2, <1>3, <1>4, <1>5, <1>7, <1>8, <1>9, TotalsEffect DEF TotalsInv

\* Where the headers of the longer file are.
LEMMA HeadersAfter ==
  ASSUME LoopInv, NEW class \in LineClasses, ParseLine(class),
         NEW h \in HeaderPositions(source')
  PROVE  \/ h \in HeaderPositions(source)
         \/ class \in Headers /\ h = Len(source) + 1 /\ h \notin HeaderPositions(source)
<1>1. Extension(source, source', class)
  BY LineExtends
<1>2. PICK n \in Nat : n = Len(source) /\ HeaderPositions(source) \subseteq 1 .. n
  BY <1>1, ExtensionFacts, HeaderStep
<1>3. HeaderPositions(source') =
        HeaderPositions(source) \cup (IF class \in Headers THEN {n + 1} ELSE {})
  BY <1>1, <1>2, HeaderStep
<1> QED BY <1>2, <1>3

LEMMA ActiveStep ==
  ASSUME LoopInv, NEW class \in LineClasses, ParseLine(class)
  PROVE  ActiveInv'
<1>1. Extension(source, source', class)
  BY LineExtends
<1>2. total_cheats \in Nat /\ active_cheat \in {0, total_cheats}
  BY Basics
<1>3. active_cheat' \in {NoIndex, total_cheats'}
  BY <1>2, TotalsEffect DEF NoIndex
<1>4. active_cheat' # NoIndex <=> \E h \in HeaderPositions(source') : StillOpen(source', h)
  <2>1. CASE class \in Headers
    <3>1. total_cheats + 1 # 0
      BY <1>2
    <3>2. active_cheat' # NoIndex
      BY <2>1, <3>1, TotalsEffect DEF NoIndex
    <3>3. StillOpen(source', Len(source) + 1)
      BY <1>1, <2>1, OpenStep
    <3> QED BY <3>2, <3>3 DEF StillOpen
  <2>2. CASE class = "bad_header"
    <3>1. class \in Closing /\ class \notin Headers
      BY <2>2 DEF Closing, Headers
    <3>2. active_cheat' = NoIndex
      BY <2>2, <3>1, TotalsEffect
    <3>3. \A h \in HeaderPositions(source') : ~StillOpen(source', h)
      BY <1>1, <3>1, HeadersAfter, OpenStep
    <3> QED BY <3>2, <3>3
  <2>3. CASE class \notin Closing
    <3>1. class \notin Headers /\ class # "bad_header"
      BY <2>3 DEF Closing
    <3>2. active_cheat' = active_cheat
      BY <3>1, TotalsEffect
    <3>3. HeaderPositions(source') = HeaderPositions(source)
      BY <1>1, <3>1, HeaderStep
    <3>4. \A h \in HeaderPositions(source) : StillOpen(source', h) <=> StillOpen(source, h)
      BY <1>1, <2>3, OpenStep
    <3> QED BY <3>2, <3>3, <3>4 DEF LoopInv, ActiveInv
  <2> QED BY <2>1, <2>2, <2>3 DEF Closing
<1>5. ASSUME NEW h \in HeaderPositions(source'), StillOpen(source', h)
      PROVE  /\ CheatNumber(source', h) = active_cheat'
             /\ active_cheat_operation_count' = Cardinality(Codes(source', h))
             /\ relative_base_active' <=> Selects(source', h)
             /\ relative_write_seen' <=> Selects(source', h) /\ Has(source', h, {"write"})
             /\ active_cheat_tainted' <=> SoFar(source', h) # DirectOnly
  <2>0. /\ relative_base_active \in BOOLEAN /\ relative_write_seen \in BOOLEAN
        /\ active_cheat_tainted \in BOOLEAN
    BY DEF LoopInv, LoopTypes
  <2>1. CASE class \in Headers /\ h = Len(source) + 1
    <3>1. class \in Closing
      BY <2>1 DEF Closing
    <3>2. /\ active_cheat_operation_count' = 0 /\ ~relative_base_active'
          /\ ~relative_write_seen' /\ ~active_cheat_tainted'
      BY <2>0, <3>1, ContextEffect
    <3>3. /\ Codes(source', h) = {} /\ ~Selects(source', h)
          /\ SoFar(source', h) = DirectOnly
      BY <1>1, <2>1, NewCheat
    <3>4. Cardinality(Codes(source', h)) = 0
      BY <3>3, FS_EmptySet
    <3>5. CheatNumber(source', h) = total_cheats + 1
      BY <1>1, <2>1, NumberStep DEF LoopInv, TotalsInv
    <3>6. active_cheat' = total_cheats + 1
      BY <2>1, TotalsEffect
    <3> QED BY <3>2, <3>3, <3>4, <3>5, <3>6
  <2>2. CASE h \in HeaderPositions(source)
    <3>1. StillOpen(source, h) /\ class \notin Closing
      BY <1>1, <1>5, <2>2, OpenStep
    <3>2. class \notin Headers /\ class # "bad_header"
      BY <3>1 DEF Closing
    <3>3. /\ SelectorAccepted(class) <=> Accepts(source, h, class)
          /\ Coded(class) <=> class \in CodeLines
          /\ LineTaint(class) = Taint(source, h, class)
          /\ active_cheat # NoIndex
      BY <3>1, LocalsDecide
    <3>4. /\ CheatNumber(source, h) = active_cheat
          /\ active_cheat_operation_count = Cardinality(Codes(source, h))
          /\ relative_base_active <=> Selects(source, h)
          /\ relative_write_seen <=> Selects(source, h) /\ Has(source, h, {"write"})
          /\ active_cheat_tainted <=> SoFar(source, h) # DirectOnly
      BY <2>2, <3>1 DEF LoopInv, ActiveInv
    <3>5. /\ active_cheat_operation_count' =
               IF Coded(class) THEN active_cheat_operation_count + 1
               ELSE active_cheat_operation_count
          /\ relative_base_active' <=>
               relative_base_active \/ (Coded(class) /\ SelectorAccepted(class))
          /\ relative_write_seen' <=>
               /\ ~(Coded(class) /\ SelectorAccepted(class))
               /\ relative_write_seen \/ (Coded(class) /\ class = "write" /\ relative_base_active)
          /\ active_cheat_tainted' <=> active_cheat_tainted \/ Taints(LineTaint(class))
      BY <2>0, <3>1, ContextEffect
    <3>6. Accepts(source, h, class) => class = "selector" /\ class \in CodeLines /\ ~Selects(source, h)
      BY DEF Accepts, CodeLines, Selects, GoodSelectors
    <3>7. Selects(source', h) <=> Selects(source, h) \/ Accepts(source, h, class)
      BY <1>1, <2>2, SelectorStep
    <3>8. Has(source', h, {"write"}) <=> Has(source, h, {"write"}) \/ class = "write"
      BY <1>1, <2>2, <3>1, HasStep
    <3>9. class = "write" => class \in CodeLines
      BY DEF CodeLines
    <3>10. CheatNumber(source', h) = active_cheat'
      BY <1>1, <2>2, <3>2, <3>4, NumberStep, TotalsEffect
    <3>11. active_cheat_operation_count' = Cardinality(Codes(source', h))
      <4>1. /\ Cardinality(Codes(source, h)) \in Nat
            /\ Cardinality(Codes(source', h)) =
                 Cardinality(Codes(source, h)) + (IF class \in CodeLines THEN 1 ELSE 0)
        BY <1>1, <2>2, <3>1, CodeCountStep
      <4>2. CASE class \in CodeLines
        BY <3>3, <3>4, <3>5, <4>1, <4>2
      <4>3. CASE class \notin CodeLines
        BY <3>3, <3>4, <3>5, <4>1, <4>3
      <4> QED BY <4>2, <4>3
    <3>12. relative_base_active' <=> Selects(source', h)
      BY <3>3, <3>4, <3>5, <3>6, <3>7
    <3>13. relative_write_seen' <=> Selects(source', h) /\ Has(source', h, {"write"})
      <4>1. Accepts(source, h, class) => ~Has(source, h, {"write"})
        BY DEF Accepts, Has, Codes, CodeLines
      <4> QED BY <3>3, <3>4, <3>5, <3>6, <3>7, <3>8, <3>9, <4>1
    <3>14. active_cheat_tainted' <=> SoFar(source', h) # DirectOnly
      <4>1. Taints(LineTaint(class)) <=> Taint(source, h, class) # DirectOnly
        BY <3>3 DEF Taints
      <4>2. SoFar(source', h) = Worse(SoFar(source, h), Taint(source, h, class))
        BY <1>1, <2>2, <3>1, SoFarStep
      <4>3. SoFar(source', h) # DirectOnly <=>
              SoFar(source, h) # DirectOnly \/ Taint(source, h, class) # DirectOnly
        <5>1. PICK a \in 0 .. 3, b \in 0 .. 3 :
                a = SoFar(source, h) /\ b = Taint(source, h, class)
          BY StateTypes DEF DirectOnly, Malformed
        <5> QED BY <4>2, <5>1 DEF Worse, DirectOnly
      <4> QED BY <3>4, <3>5, <4>1, <4>3
    <3> QED BY <3>10, <3>11, <3>12, <3>13, <3>14
  <2> QED BY <1>5, <2>1, <2>2, HeadersAfter
<1> QED BY <1>3, <1>4, <1>5 DEF ActiveInv

LEMMA CheatsStep ==
  ASSUME LoopInv, NEW class \in LineClasses, ParseLine(class)
  PROVE  CheatsInv'
<1>1. Extension(source, source', class)
  BY LineExtends
<1>2. /\ total_cheats \in Nat /\ cheat_capacity \in Nat /\ Len(cheats) \in Nat
      /\ total_cheats = Cardinality(HeaderPositions(source))
      /\ Len(cheats) = IF total_cheats <= cheat_capacity THEN total_cheats ELSE cheat_capacity
  BY Basics DEF LoopInv, TotalsInv, Fill
<1>3. total_cheats' = IF class \in Headers THEN total_cheats + 1 ELSE total_cheats
  BY TotalsEffect
<1>4. \A h \in HeaderPositions(source) :
        /\ CheatNumber(source', h) = CheatNumber(source, h)
        /\ CheatNumber(source, h) \in 1 .. total_cheats
  BY <1>1, NumberStep DEF LoopInv, CheatsInv
<1>5. class \in Headers => CheatNumber(source', Len(source) + 1) = total_cheats + 1
  BY <1>1, <1>2, NumberStep
<1>6. Len(cheats') = IF class \in Headers /\ total_cheats < cheat_capacity
                     THEN Len(cheats) + 1 ELSE Len(cheats)
  BY CheatRecordsAfter
<1>7. ASSUME NEW h \in HeaderPositions(source')
      PROVE  /\ CheatNumber(source', h) \in 1 .. total_cheats'
             /\ CheatNumber(source', h) <= Len(cheats') =>
                  /\ cheats'[CheatNumber(source', h)].header_line_index = h
                  /\ cheats'[CheatNumber(source', h)].translation_state = SoFar(source', h)
  <2>1. CASE class \in Headers /\ h = Len(source) + 1
    <3>1. CheatNumber(source', h) = total_cheats + 1 /\ total_cheats' = total_cheats + 1
      BY <1>3, <1>5, <2>1
    <3>2. ASSUME total_cheats + 1 <= Len(cheats')
          PROVE  total_cheats < cheat_capacity /\ Len(cheats) = total_cheats
      <4>1. total_cheats < cheat_capacity
        BY <1>2, <1>6, <3>2
      <4> QED BY <1>2, <4>1
    <3>3. ASSUME total_cheats + 1 <= Len(cheats')
          PROVE  cheats'[total_cheats + 1] = HeaderRecord
      BY <2>1, <3>2, <3>3, CheatRecordsAfter
    <3>4. SoFar(source', h) = DirectOnly
      BY <1>1, <2>1, NewCheat
    <3>5. total_lines + 1 = h
      BY <2>1 DEF LoopInv, TotalsInv
    <3> QED BY <1>2, <3>1, <3>3, <3>4, <3>5 DEF HeaderRecord
  <2>2. CASE h \in HeaderPositions(source)
    <3>1. PICK k \in 1 .. total_cheats : k = CheatNumber(source, h) /\ k = CheatNumber(source', h)
      BY <1>4, <2>2
    <3>2. k \in 1 .. total_cheats'
      BY <1>2, <1>3, <3>1
    <3>3. k <= Len(cheats') => k \in 1 .. Len(cheats)
      BY <1>2, <1>6, <3>1
    <3>4. ASSUME k \in 1 .. Len(cheats)
          PROVE  /\ cheats'[k].header_line_index = h
                 /\ cheats'[k].translation_state = SoFar(source', h)
      <4>1. /\ cheats[k].header_line_index = h
            /\ cheats[k].translation_state = SoFar(source, h)
        <5>1. CheatNumber(source, h) <= Len(cheats)
          BY <1>2, <3>1, <3>4
        <5> QED BY <2>2, <3>1, <5>1 DEF LoopInv, CheatsInv
      <4>2. /\ cheats'[k].header_line_index = cheats[k].header_line_index
            /\ cheats'[k].translation_state =
                 IF k = active_cheat THEN Worse(cheats[k].translation_state, LineTaint(class))
                 ELSE cheats[k].translation_state
        BY <3>4, CheatRecordsAfter
      <4>3. CASE StillOpen(source, h)
        <5>1. k = active_cheat /\ LineTaint(class) = Taint(source, h, class)
          BY <3>1, <4>3, LocalsDecide
        <5>2. SoFar(source', h) = Worse(SoFar(source, h), Taint(source, h, class))
          BY <1>1, <2>2, <4>3, SoFarStep
        <5> QED BY <4>1, <4>2, <5>1, <5>2
      <4>4. CASE ~StillOpen(source, h)
        <5>1. k # active_cheat
          <6>1. SUFFICES ASSUME k = active_cheat PROVE FALSE
            OBVIOUS
          <6>2. active_cheat # NoIndex
            BY <1>2, <3>1, <6>1 DEF NoIndex
          <6>3. PICK g \in HeaderPositions(source) : StillOpen(source, g)
            BY <6>2, Basics DEF SomeOpen
          <6>4. CheatNumber(source, g) = CheatNumber(source, h)
            BY <3>1, <6>1, <6>3, LocalsDecide
          <6>5. g = h
            BY <2>2, <6>4 DEF LoopInv, CheatsInv
          <6> QED BY <4>4, <6>3, <6>5
        <5>2. SoFar(source', h) = SoFar(source, h)
          BY <1>1, <2>2, <4>4, SoFarStep
        <5> QED BY <4>1, <4>2, <5>1, <5>2
      <4> QED BY <4>3, <4>4
    <3> QED BY <3>1, <3>2, <3>3, <3>4
  <2> QED BY <2>1, <2>2, HeadersAfter
<1>8. ASSUME NEW g \in HeaderPositions(source'), NEW h \in HeaderPositions(source'),
             CheatNumber(source', g) = CheatNumber(source', h)
      PROVE  g = h
  <2>1. \A f \in HeaderPositions(source) : CheatNumber(source', f) # total_cheats + 1
    BY <1>2, <1>4
  <2>2. CASE g \in HeaderPositions(source) /\ h \in HeaderPositions(source)
    BY <1>4, <1>8, <2>2 DEF LoopInv, CheatsInv
  <2>3. CASE g \notin HeaderPositions(source) \/ h \notin HeaderPositions(source)
    BY <1>5, <1>8, <2>1, <2>3, HeadersAfter
  <2> QED BY <2>2, <2>3
<1> QED BY <1>7, <1>8 DEF CheatsInv

LEMMA AlarmsStep ==
  ASSUME LoopInv, NEW class \in LineClasses, ParseLine(class)
  PROVE  AlarmsInv'
<1>1. Extension(source, source', class)
  BY LineExtends
<1>2. PICK uns \in Nat, mal \in Nat, bad \in Nat, dang \in Nat, direct \in Nat :
        /\ uns = Cardinality({i \in AllCodes(source) : source[i] = "opaque_code"})
        /\ mal = Cardinality(MalformedPositions(source))
        /\ bad = Cardinality(UNION {BadSelectors(source, h) : h \in HeaderPositions(source)})
        /\ dang = Cardinality({h \in HeaderPositions(source) :
                                 Dangles(source, h) /\ ~StillOpen(source, h)})
        /\ direct = Cardinality({h \in HeaderPositions(source) : SoFar(source, h) # DirectOnly})
  <2>1. PICK n \in Nat : /\ n = Len(source) /\ HeaderPositions(source) \subseteq 1 .. n
                         /\ AllCodes(source) \subseteq 1 .. n
    BY <1>1, ExtensionFacts, HeaderStep, AllCodesStep
  <2>2. UNION {BadSelectors(source, h) : h \in HeaderPositions(source)} \subseteq 1 .. n
    <3>1. \A h \in HeaderPositions(source) : BadSelectors(source, h) \subseteq 1 .. n
      BY <1>1, <2>1, SelectorStep, CodesStep
    <3> QED BY <3>1
  <2>3. MalformedPositions(source) \subseteq 1 .. n
    BY <2>1 DEF MalformedPositions, Positions
  <2>4. /\ {i \in AllCodes(source) : source[i] = "opaque_code"} \subseteq 1 .. n
        /\ {h \in HeaderPositions(source) :
              Dangles(source, h) /\ ~StillOpen(source, h)} \subseteq 1 .. n
        /\ {h \in HeaderPositions(source) : SoFar(source, h) # DirectOnly} \subseteq 1 .. n
    BY <2>1
  <2> QED BY <2>2, <2>3, <2>4, CountStep
<1>3. LimitViolations(source) \in Nat
  BY <1>1, LimitStep
<1>4. /\ unsupported_operations = uns /\ malformed_lines = mal
      /\ invalid_operation_sequences = bad + dang /\ non_direct_cheats = direct
      /\ legacy_limit_violations = LimitViolations(source)
  BY <1>2 DEF LoopInv, AlarmsInv
<1>5. Numeric
  BY <1>2, <1>3, <1>4 DEF Numeric
<1>6. unsupported_operations' =
        Cardinality({i \in AllCodes(source') : source'[i] = "opaque_code"})
  <2>1. class = "opaque_code" => class \in CodeLines
    BY DEF CodeLines
  <2>2. class = "opaque_code" /\ Coded(class) <=> class = "opaque_code" /\ SomeOpen(source)
    BY <2>1, CodedIsCode
  <2> QED BY <1>1, <1>2, <1>4, <1>5, <2>2, AlarmsEffect, UnsupportedStep
<1>7. malformed_lines' = Cardinality(MalformedPositions(source'))
  <2>1. active_cheat = NoIndex <=> ~SomeOpen(source)
    BY Basics
  <2> QED BY <1>1, <1>2, <1>4, <1>5, <2>1, AlarmsEffect, MalformedStep
<1>8. invalid_operation_sequences' =
        Cardinality(UNION {BadSelectors(source', h) : h \in HeaderPositions(source')})
          + Cardinality({h \in HeaderPositions(source') :
                           Dangles(source', h) /\ ~StillOpen(source', h)})
  <2>1. PICK rejected \in {0, 1} :
          /\ rejected = IF \E h \in HeaderPositions(source) : Rejects(source, h, class)
                        THEN 1 ELSE 0
          /\ Cardinality(UNION {BadSelectors(source', h) : h \in HeaderPositions(source')})
               = bad + rejected
    BY <1>1, <1>2, BadSelectorStep
  <2>2. PICK dangling \in {0, 1} :
          /\ dangling = IF /\ class \in Closing
                           /\ \E h \in HeaderPositions(source) :
                                StillOpen(source, h) /\ Dangles(source, h)
                        THEN 1 ELSE 0
          /\ Cardinality({h \in HeaderPositions(source') :
                            Dangles(source', h) /\ ~StillOpen(source', h)}) = dang + dangling
    BY <1>1, <1>2, DanglingCountStep
  <2>3. (\E h \in HeaderPositions(source) : Rejects(source, h, class)) <=>
          /\ Coded(class) /\ class \in {"selector", "bad_selector"}
          /\ ~SelectorAccepted(class)
    <3>1. CASE SomeOpen(source)
      <4>1. PICK h \in HeaderPositions(source) : StillOpen(source, h)
        BY <3>1 DEF SomeOpen
      <4>2. class \in {"selector", "bad_selector"} => class \in CodeLines
        BY DEF CodeLines
      <4>3. Rejects(source, h, class) <=>
              /\ Coded(class) /\ class \in {"selector", "bad_selector"}
              /\ ~SelectorAccepted(class)
        BY <4>1, <4>2, LocalsDecide DEF Rejects
      <4>4. \A g : Rejects(source, g, class) => g = h
        BY <1>1, <4>1, OpenUnique DEF Rejects, Extension
      <4> QED BY <4>1, <4>3, <4>4
    <3>2. CASE ~SomeOpen(source)
      BY <3>2, CodedIsCode DEF SomeOpen, Rejects
    <3> QED BY <3>1, <3>2
  <2>4. (\E h \in HeaderPositions(source) : StillOpen(source, h) /\ Dangles(source, h))
          <=> DanglingSelector
    <3>1. CASE SomeOpen(source)
      <4>1. PICK h \in HeaderPositions(source) : StillOpen(source, h)
        BY <3>1 DEF SomeOpen
      <4>2. Dangles(source, h) <=> DanglingSelector
        BY <4>1, LocalsDecide
      <4>3. \A g : StillOpen(source, g) => g = h
        BY <1>1, <4>1, OpenUnique DEF Extension
      <4> QED BY <4>1, <4>2, <4>3
    <3>2. CASE ~SomeOpen(source)
      BY <3>2, Basics DEF SomeOpen, DanglingSelector
    <3> QED BY <3>1, <3>2
  <2>5. class \in Closing => ~Coded(class)
    BY DEF Closing, Headers, Coded, CodeLines
  <2>6. invalid_operation_sequences' = (bad + dang) + (rejected + dangling)
    <3>1. invalid_operation_sequences' =
            (bad + dang)
              + (IF \/ (class \in Closing /\ DanglingSelector)
                    \/ (/\ Coded(class) /\ class \in {"selector", "bad_selector"}
                        /\ ~SelectorAccepted(class))
                 THEN 1 ELSE 0)
      BY <1>4, <1>5, AlarmsEffect
    <3>2. rejected + dangling =
            IF \/ (class \in Closing /\ DanglingSelector)
               \/ (/\ Coded(class) /\ class \in {"selector", "bad_selector"}
                   /\ ~SelectorAccepted(class))
            THEN 1 ELSE 0
      BY <2>1, <2>2, <2>3, <2>4, <2>5
    <3> QED BY <3>1, <3>2
  <2>7. (bad + dang) + (rejected + dangling) = (bad + rejected) + (dang + dangling)
    BY <1>2, <2>1, <2>2
  <2> QED BY <2>1, <2>2, <2>6, <2>7
<1>9. non_direct_cheats' =
        Cardinality({h \in HeaderPositions(source') : SoFar(source', h) # DirectOnly})
  <2>1. (\E h \in HeaderPositions(source) :
           /\ StillOpen(source, h) /\ SoFar(source, h) = DirectOnly
           /\ Taint(source, h, class) # DirectOnly)
          <=> Taints(LineTaint(class)) /\ ~active_cheat_tainted
    <3>1. CASE SomeOpen(source)
      <4>1. PICK h \in HeaderPositions(source) : StillOpen(source, h)
        BY <3>1 DEF SomeOpen
      <4>2. active_cheat_tainted <=> SoFar(source, h) # DirectOnly
        BY <4>1 DEF LoopInv, ActiveInv
      <4>3. Taints(LineTaint(class)) <=> Taint(source, h, class) # DirectOnly
        BY <4>1, LocalsDecide DEF Taints
      <4>4. \A g : StillOpen(source, g) => g = h
        BY <1>1, <4>1, OpenUnique DEF Extension
      <4> QED BY <4>1, <4>2, <4>3, <4>4
    <3>2. CASE ~SomeOpen(source)
      BY <3>2, Basics DEF SomeOpen, Taints
    <3> QED BY <3>1, <3>2
  <2>2. non_direct_cheats' =
          IF Taints(LineTaint(class)) /\ ~active_cheat_tainted THEN direct + 1 ELSE direct
    BY <1>4, CheatsEffect DEF NonDirectAfter
  <2>3. Cardinality({h \in HeaderPositions(source') : SoFar(source', h) # DirectOnly}) =
          direct + (IF Taints(LineTaint(class)) /\ ~active_cheat_tainted THEN 1 ELSE 0)
    BY <1>1, <1>2, <2>1, NonDirectCountStep
  <2>4. CASE Taints(LineTaint(class)) /\ ~active_cheat_tainted
    BY <2>2, <2>3, <2>4
  <2>5. CASE ~(Taints(LineTaint(class)) /\ ~active_cheat_tainted)
    <3>1. direct + 0 = direct
      BY <1>2
    <3> QED BY <2>2, <2>3, <2>5, <3>1
  <2> QED BY <2>4, <2>5
<1>10. legacy_limit_violations' = LimitViolations(source')
  <2>1. total_cheats \in Nat /\ total_cheats = Cardinality(HeaderPositions(source))
    BY Basics DEF LoopInv, TotalsInv
  <2>2. Coded(class) /\ active_cheat_operation_count = LegacyMaxCodes <=>
          /\ class \in CodeLines
          /\ \E h \in HeaderPositions(source) :
               StillOpen(source, h) /\ Cardinality(Codes(source, h)) = LegacyMaxCodes
    <3>1. CASE SomeOpen(source)
      <4>1. PICK h \in HeaderPositions(source) : StillOpen(source, h)
        BY <3>1 DEF SomeOpen
      <4>2. active_cheat_operation_count = Cardinality(Codes(source, h))
        BY <4>1 DEF LoopInv, ActiveInv
      <4>3. \A g : StillOpen(source, g) => g = h
        BY <1>1, <4>1, OpenUnique DEF Extension
      <4>4. Coded(class) <=> class \in CodeLines
        BY <4>1, LocalsDecide
      <4> QED BY <4>1, <4>2, <4>3, <4>4
    <3>2. CASE ~SomeOpen(source)
      BY <3>2, CodedIsCode DEF SomeOpen
    <3> QED BY <3>1, <3>2
  <2> QED BY <1>1, <1>4, <1>5, <2>1, <2>2, LimitEffect, LimitStep
<1> QED BY <1>6, <1>7, <1>8, <1>9, <1>10 DEF AlarmsInv

\* An array that grows does so at the end, by the record of this line.
LEMMA Growth ==
  ASSUME LoopInv, NEW class \in LineClasses, ParseLine(class)
  PROVE  /\ \A i \in 1 .. total_lines : i <= Len(lines') => i \in 1 .. Len(lines)
         /\ \A i \in 1 .. Len(lines') :
              \/ i \in 1 .. Len(lines)
              \/ i = total_lines + 1 /\ lines'[i] = LineRecord(class)
         /\ total_lines + 1 <= Len(lines') => lines'[total_lines + 1] = LineRecord(class)
         /\ \A i \in 1 .. total_cheats : i <= Len(cheats') => i \in 1 .. Len(cheats)
         /\ \A i \in 1 .. Len(cheats') :
              \/ i \in 1 .. Len(cheats)
              \/ i = total_cheats + 1 /\ class \in Headers /\ cheats'[i] = HeaderRecord
         /\ total_cheats + 1 <= Len(cheats') => cheats'[total_cheats + 1] = HeaderRecord
         /\ \A i \in 1 .. total_operations : i <= Len(operations') => i \in 1 .. Len(operations)
         /\ \A i \in 1 .. Len(operations') :
              \/ i \in 1 .. Len(operations)
              \/ /\ i = total_operations + 1 /\ Coded(class)
                 /\ operations'[i] =
                      [kind |-> operation_kind(class), address_mode |-> AddressMode(class),
                       cheat_index |-> active_cheat, line_index |-> total_lines + 1]
         /\ total_operations + 1 <= Len(operations') =>
              operations'[total_operations + 1] =
                [kind |-> operation_kind(class), address_mode |-> AddressMode(class),
                 cheat_index |-> active_cheat, line_index |-> total_lines + 1]
<1>1. /\ Len(lines) = Fill(total_lines, line_capacity)
      /\ Len(cheats) = Fill(total_cheats, cheat_capacity)
      /\ Len(operations) = Fill(total_operations, operation_capacity)
  BY DEF LoopInv, TotalsInv
<1>2. /\ \A i \in 1 .. total_lines : i <= Len(lines') => i \in 1 .. Len(lines)
      /\ \A i \in 1 .. Len(lines') :
           i \in 1 .. Len(lines)
             \/ (i = total_lines + 1 /\ Len(lines) = total_lines /\ total_lines < line_capacity)
      /\ total_lines + 1 <= Len(lines') =>
           Len(lines) = total_lines /\ total_lines < line_capacity
  <2>1. PICK old, new : old = Len(lines) /\ new = Len(lines')
    OBVIOUS
  <2>2. PICK total \in Nat, room \in Nat : total = total_lines /\ room = line_capacity
    BY Basics
  <2>3. old \in Nat /\ old = Fill(total, room)
    BY <1>1, <2>1, <2>2, Basics
  <2>4. new = IF total < room THEN old + 1 ELSE old
    BY <2>1, <2>2, LinesAfter
  <2>5. /\ new \in {old, old + 1}
        /\ new # old => total < room
    BY <2>4
  <2>6. /\ \A i \in 1 .. total : i <= new => i \in 1 .. old
        /\ \A i \in 1 .. new : i \in 1 .. old \/ (i = total + 1 /\ old = total /\ new # old)
        /\ total + 1 <= new => old = total /\ new # old
    BY <2>2, <2>3, <2>5 DEF Fill
  <2> QED BY <2>1, <2>2, <2>5, <2>6
<1>3. /\ \A i \in 1 .. total_cheats : i <= Len(cheats') => i \in 1 .. Len(cheats)
      /\ \A i \in 1 .. Len(cheats') :
           i \in 1 .. Len(cheats)
             \/ (i = total_cheats + 1 /\ Len(cheats) = total_cheats
                   /\ class \in Headers /\ total_cheats < cheat_capacity)
      /\ total_cheats + 1 <= Len(cheats') =>
           /\ Len(cheats) = total_cheats
           /\ class \in Headers /\ total_cheats < cheat_capacity
  <2>1. PICK old, new : old = Len(cheats) /\ new = Len(cheats')
    OBVIOUS
  <2>2. PICK total \in Nat, room \in Nat : total = total_cheats /\ room = cheat_capacity
    BY Basics
  <2>3. old \in Nat /\ old = Fill(total, room)
    BY <1>1, <2>1, <2>2, Basics
  <2>4. new = IF class \in Headers /\ total < room THEN old + 1 ELSE old
    BY <2>1, <2>2, CheatRecordsAfter
  <2>5. /\ new \in {old, old + 1}
        /\ new # old => class \in Headers /\ total < room
    BY <2>4
  <2>6. /\ \A i \in 1 .. total : i <= new => i \in 1 .. old
        /\ \A i \in 1 .. new : i \in 1 .. old \/ (i = total + 1 /\ old = total /\ new # old)
        /\ total + 1 <= new => old = total /\ new # old
    BY <2>2, <2>3, <2>5 DEF Fill
  <2> QED BY <2>1, <2>2, <2>5, <2>6
<1>4. /\ \A i \in 1 .. total_operations : i <= Len(operations') => i \in 1 .. Len(operations)
      /\ \A i \in 1 .. Len(operations') :
           i \in 1 .. Len(operations)
             \/ (i = total_operations + 1 /\ Len(operations) = total_operations
                   /\ Coded(class) /\ total_operations < operation_capacity)
      /\ total_operations + 1 <= Len(operations') =>
           /\ Len(operations) = total_operations
           /\ Coded(class) /\ total_operations < operation_capacity
  <2>1. PICK old, new : old = Len(operations) /\ new = Len(operations')
    OBVIOUS
  <2>2. PICK total \in Nat, room \in Nat : total = total_operations /\ room = operation_capacity
    BY Basics
  <2>3. old \in Nat /\ old = Fill(total, room)
    BY <1>1, <2>1, <2>2, Basics
  <2>4. new = IF Coded(class) /\ total < room THEN old + 1 ELSE old
    BY <2>1, <2>2, OperationsAfter
  <2>5. /\ new \in {old, old + 1}
        /\ new # old => Coded(class) /\ total < room
    BY <2>4
  <2>6. /\ \A i \in 1 .. total : i <= new => i \in 1 .. old
        /\ \A i \in 1 .. new : i \in 1 .. old \/ (i = total + 1 /\ old = total /\ new # old)
        /\ total + 1 <= new => old = total /\ new # old
    BY <2>2, <2>3, <2>5 DEF Fill
  <2> QED BY <2>1, <2>2, <2>5, <2>6
<1>5. total_lines < line_capacity => lines'[Len(lines) + 1] = LineRecord(class)
  BY LinesAfter
<1>6. class \in Headers /\ total_cheats < cheat_capacity =>
        cheats'[Len(cheats) + 1] = HeaderRecord
  BY CheatRecordsAfter
<1>7. Coded(class) /\ total_operations < operation_capacity =>
        operations'[Len(operations) + 1] =
          [kind |-> operation_kind(class), address_mode |-> AddressMode(class),
           cheat_index |-> active_cheat, line_index |-> total_lines + 1]
  BY OperationsAfter
<1>8. /\ \A i \in 1 .. Len(lines') :
           \/ i \in 1 .. Len(lines)
           \/ i = total_lines + 1 /\ lines'[i] = LineRecord(class)
      /\ total_lines + 1 <= Len(lines') => lines'[total_lines + 1] = LineRecord(class)
  BY <1>2, <1>5
<1>9. /\ \A i \in 1 .. Len(cheats') :
           \/ i \in 1 .. Len(cheats)
           \/ i = total_cheats + 1 /\ class \in Headers /\ cheats'[i] = HeaderRecord
      /\ total_cheats + 1 <= Len(cheats') => cheats'[total_cheats + 1] = HeaderRecord
  BY <1>3, <1>6
<1>10. /\ \A i \in 1 .. Len(operations') :
            \/ i \in 1 .. Len(operations)
            \/ /\ i = total_operations + 1 /\ Coded(class)
               /\ operations'[i] =
                    [kind |-> operation_kind(class), address_mode |-> AddressMode(class),
                     cheat_index |-> active_cheat, line_index |-> total_lines + 1]
       /\ total_operations + 1 <= Len(operations') =>
            operations'[total_operations + 1] =
              [kind |-> operation_kind(class), address_mode |-> AddressMode(class),
               cheat_index |-> active_cheat, line_index |-> total_lines + 1]
  BY <1>4, <1>7
<1> QED BY <1>2, <1>3, <1>4, <1>8, <1>9, <1>10

LEMMA LinksStep ==
  ASSUME LoopInv, NEW class \in LineClasses, ParseLine(class)
  PROVE  LinksInv'
<1>1. /\ total_lines \in Nat /\ total_cheats \in Nat /\ total_operations \in Nat
      /\ active_cheat \in {0, total_cheats} /\ NoIndex = 0
  BY Basics DEF NoIndex
<1>2. /\ total_lines' = total_lines + 1
      /\ total_cheats' \in {total_cheats, total_cheats + 1}
      /\ class \in Headers => total_cheats' = total_cheats + 1
      /\ total_operations' \in {total_operations, total_operations + 1}
      /\ Coded(class) => total_operations' = total_operations + 1
  BY TotalsEffect
<1>3. /\ \A i \in 1 .. Len(lines) : lines'[i] = lines[i]
      /\ \A i \in 1 .. Len(cheats) : cheats'[i].header_line_index = cheats[i].header_line_index
      /\ \A i \in 1 .. Len(operations) : operations'[i] = operations[i]
  BY LinesAfter, CheatRecordsAfter, OperationsAfter
<1>4. Coded(class) => active_cheat \in 1 .. total_cheats /\ class \notin Headers
  BY <1>1 DEF Coded, Headers, CodeLines
<1>8. /\ Len(lines) \in Nat /\ Len(cheats) \in Nat /\ Len(operations) \in Nat
  BY Basics
<1>9. \A i \in 1 .. total_lines :
        i <= Len(lines') => i \in 1 .. Len(lines) /\ i <= Len(lines)
  <2>1. \A i \in 1 .. total_lines : i <= Len(lines') => i \in 1 .. Len(lines)
    BY Growth
  <2> QED BY <1>8, <2>1
<1>10. \A i \in 1 .. total_cheats :
         i <= Len(cheats') => i \in 1 .. Len(cheats) /\ i <= Len(cheats)
  <2>1. \A i \in 1 .. total_cheats : i <= Len(cheats') => i \in 1 .. Len(cheats)
    BY Growth
  <2> QED BY <1>8, <2>1
<1>11. \A i \in 1 .. total_operations :
         i <= Len(operations') => i \in 1 .. Len(operations) /\ i <= Len(operations)
  <2>1. \A i \in 1 .. total_operations : i <= Len(operations') => i \in 1 .. Len(operations)
    BY Growth
  <2> QED BY <1>8, <2>1
<1>12. total_lines + 1 <= Len(lines') => lines'[total_lines + 1] = LineRecord(class)
  BY Growth
<1>13. total_cheats + 1 <= Len(cheats') =>
         cheats'[total_cheats + 1].header_line_index = total_lines + 1
  <2>1. total_cheats + 1 <= Len(cheats') => cheats'[total_cheats + 1] = HeaderRecord
    BY Growth
  <2> QED BY <2>1 DEF HeaderRecord
<1>14. total_operations + 1 <= Len(operations') =>
         /\ operations'[total_operations + 1].line_index = total_lines + 1
         /\ operations'[total_operations + 1].cheat_index = active_cheat
  <2>1. total_operations + 1 <= Len(operations') =>
          operations'[total_operations + 1] =
            [kind |-> operation_kind(class), address_mode |-> AddressMode(class),
             cheat_index |-> active_cheat, line_index |-> total_lines + 1]
    BY Growth
  <2> QED BY <2>1
<1>5. ASSUME NEW l \in 1 .. Len(lines')
      PROVE  /\ lines'[l].cheat_index \in 0 .. total_cheats'
             /\ lines'[l].operation_index \in 0 .. total_operations'
             /\ lines'[l].kind = "code" =>
                  /\ lines'[l].operation_index \in 1 .. total_operations'
                  /\ lines'[l].operation_index <= Len(operations') =>
                       /\ operations'[lines'[l].operation_index].line_index = l
                       /\ operations'[lines'[l].operation_index].cheat_index
                            = lines'[l].cheat_index
             /\ lines'[l].kind = "header" =>
                  /\ lines'[l].cheat_index \in 1 .. total_cheats'
                  /\ lines'[l].cheat_index <= Len(cheats') =>
                       cheats'[lines'[l].cheat_index].header_line_index = l
  <2>1. CASE l \in 1 .. Len(lines)
    <3>1. lines'[l] = lines[l]
      BY <1>3, <2>1
    <3>2. PICK c \in 0 .. total_cheats, o \in 0 .. total_operations :
            c = lines[l].cheat_index /\ o = lines[l].operation_index
      BY <2>1 DEF LoopInv, LinksInv
    <3>3. c \in 0 .. total_cheats' /\ o \in 0 .. total_operations'
      BY <1>1, <1>2, <3>2
    <3>4. ASSUME lines[l].kind = "code"
          PROVE  /\ o \in 1 .. total_operations'
                 /\ o <= Len(operations') =>
                      operations'[o].line_index = l /\ operations'[o].cheat_index = c
      <4>1. /\ o \in 1 .. total_operations
            /\ o <= Len(operations) =>
                 operations[o].line_index = l /\ operations[o].cheat_index = c
        BY <2>1, <3>2, <3>4 DEF LoopInv, LinksInv
      <4>2. o <= Len(operations') => o \in 1 .. Len(operations) /\ o <= Len(operations)
        BY <1>11, <4>1
      <4> QED BY <1>1, <1>2, <1>3, <4>1, <4>2
    <3>5. ASSUME lines[l].kind = "header"
          PROVE  /\ c \in 1 .. total_cheats'
                 /\ c <= Len(cheats') => cheats'[c].header_line_index = l
      <4>1. /\ c \in 1 .. total_cheats
            /\ c <= Len(cheats) => cheats[c].header_line_index = l
        BY <2>1, <3>2, <3>5 DEF LoopInv, LinksInv
      <4>2. c <= Len(cheats') => c \in 1 .. Len(cheats) /\ c <= Len(cheats)
        BY <1>10, <4>1
      <4> QED BY <1>1, <1>2, <1>3, <4>1, <4>2
    <3> QED BY <3>1, <3>2, <3>3, <3>4, <3>5
  <2>2. CASE l = total_lines + 1 /\ lines'[l] = LineRecord(class)
    <3>1. PICK new : new = LineRecord(class) /\ lines'[l] = new
      BY <2>2
    <3>2. CASE Coded(class)
      <4>1. /\ new.kind = "code" /\ new.cheat_index = active_cheat
            /\ new.operation_index = total_operations + 1
        BY <1>4, <3>1, <3>2 DEF LineRecord
      <4>2. total_operations + 1 <= Len(operations') =>
              /\ operations'[total_operations + 1].line_index = l
              /\ operations'[total_operations + 1].cheat_index = active_cheat
        BY <1>14, <2>2
      <4> QED BY <1>1, <1>2, <1>4, <3>1, <3>2, <4>1, <4>2
    <3>3. CASE class \in Headers
      <4>1. /\ new.kind = "header" /\ new.cheat_index = total_cheats + 1
            /\ new.operation_index = 0
        BY <1>1, <1>4, <3>1, <3>3 DEF LineRecord
      <4>2. total_cheats + 1 <= Len(cheats') =>
              cheats'[total_cheats + 1].header_line_index = l
        BY <1>13, <2>2
      <4> QED BY <1>1, <1>2, <3>1, <3>3, <4>1, <4>2
    <3>4. CASE ~Coded(class) /\ class \notin Headers
      <4>1. /\ new.kind # "header" /\ new.kind # "code"
            /\ new.cheat_index \in {0, active_cheat} /\ new.operation_index = 0
        BY <1>1, <3>1, <3>4 DEF LineRecord
      <4> QED BY <1>1, <1>2, <3>1, <4>1
    <3> QED BY <3>2, <3>3, <3>4
  <2> QED BY <2>1, <2>2, Growth
<1>6. ASSUME NEW o \in 1 .. Len(operations')
      PROVE  /\ operations'[o].cheat_index \in 1 .. total_cheats'
             /\ operations'[o].line_index \in 1 .. total_lines'
             /\ operations'[o].line_index <= Len(lines') =>
                  lines'[operations'[o].line_index].operation_index = o
  <2>1. CASE o \in 1 .. Len(operations)
    <3>1. PICK c \in 1 .. total_cheats, l \in 1 .. total_lines :
            /\ c = operations[o].cheat_index /\ l = operations[o].line_index
            /\ l <= Len(lines) => lines[l].operation_index = o
      BY <2>1 DEF LoopInv, LinksInv
    <3>2. operations'[o].cheat_index = c /\ operations'[o].line_index = l
      BY <1>3, <2>1, <3>1
    <3>3. l <= Len(lines') => l \in 1 .. Len(lines) /\ l <= Len(lines)
      BY <1>9, <3>1
    <3>4. l <= Len(lines') => lines'[l].operation_index = o
      BY <1>3, <3>1, <3>3
    <3>5. c \in 1 .. total_cheats' /\ l \in 1 .. total_lines'
      BY <1>1, <1>2, <3>1
    <3> QED BY <3>2, <3>4, <3>5
  <2>2. CASE /\ o = total_operations + 1 /\ Coded(class)
             /\ operations'[o] =
                  [kind |-> operation_kind(class), address_mode |-> AddressMode(class),
                   cheat_index |-> active_cheat, line_index |-> total_lines + 1]
    <3>1. operations'[o].cheat_index = active_cheat /\ operations'[o].line_index = total_lines + 1
      BY <2>2
    <3>2. total_lines + 1 <= Len(lines') => lines'[total_lines + 1].operation_index = o
      BY <1>12, <2>2 DEF LineRecord
    <3>3. active_cheat \in 1 .. total_cheats' /\ total_lines + 1 \in 1 .. total_lines'
      BY <1>1, <1>2, <1>4, <2>2
    <3> QED BY <3>1, <3>2, <3>3
  <2> QED BY <2>1, <2>2, Growth
<1>7. ASSUME NEW c \in 1 .. Len(cheats')
      PROVE  /\ cheats'[c].header_line_index \in 1 .. total_lines'
             /\ cheats'[c].header_line_index <= Len(lines') =>
                  lines'[cheats'[c].header_line_index].cheat_index = c
  <2>1. CASE c \in 1 .. Len(cheats)
    <3>1. PICK l \in 1 .. total_lines :
            /\ l = cheats[c].header_line_index
            /\ l <= Len(lines) => lines[l].cheat_index = c
      BY <2>1 DEF LoopInv, LinksInv
    <3>2. cheats'[c].header_line_index = l
      BY <1>3, <2>1, <3>1
    <3>3. l <= Len(lines') => l \in 1 .. Len(lines) /\ l <= Len(lines)
      BY <1>9, <3>1
    <3>4. l <= Len(lines') => lines'[l].cheat_index = c
      BY <1>3, <3>1, <3>3
    <3>5. l \in 1 .. total_lines'
      BY <1>1, <1>2, <3>1
    <3> QED BY <3>2, <3>4, <3>5
  <2>2. CASE c = total_cheats + 1 /\ class \in Headers /\ cheats'[c] = HeaderRecord
    <3>1. cheats'[c].header_line_index = total_lines + 1
      BY <2>2 DEF HeaderRecord
    <3>2. total_lines + 1 <= Len(lines') => lines'[total_lines + 1].cheat_index = c
      BY <1>12, <2>2 DEF LineRecord
    <3>3. total_lines + 1 \in 1 .. total_lines'
      BY <1>1, <1>2
    <3> QED BY <3>1, <3>2, <3>3
  <2> QED BY <2>1, <2>2, Growth
<1> QED BY <1>5, <1>6, <1>7 DEF LinksInv

LEMMA RunsStep ==
  ASSUME LoopInv, NEW class \in LineClasses, ParseLine(class)
  PROVE  RunsInv'
<1>1. /\ total_cheats \in Nat /\ total_operations \in Nat
      /\ Len(operations) \in Nat /\ Len(operations) <= total_operations
      /\ Len(cheats) \in Nat /\ Len(cheats) <= total_cheats
  BY Basics DEF LoopInv, TotalsInv, Fill
<1>2. \A o \in 1 .. Len(operations) :
        operations'[o] = operations[o] /\ operations[o].cheat_index \in 1 .. total_cheats
  BY OperationsAfter DEF LoopInv, LinksInv
<1>6. \A o \in 1 .. Len(operations') :
        \/ o \in 1 .. Len(operations)
        \/ /\ o = total_operations + 1 /\ Coded(class)
           /\ operations'[o].cheat_index = active_cheat
  <2>1. \A o \in 1 .. Len(operations') :
          \/ o \in 1 .. Len(operations)
          \/ /\ o = total_operations + 1 /\ Coded(class)
             /\ operations'[o] =
                  [kind |-> operation_kind(class), address_mode |-> AddressMode(class),
                   cheat_index |-> active_cheat, line_index |-> total_lines + 1]
    BY Growth
  <2> QED BY <2>1
<1>3. SUFFICES ASSUME NEW c \in 1 .. Len(cheats')
               PROVE  /\ cheats'[c].first_operation_index >= 1
                      /\ cheats'[c].first_operation_index + cheats'[c].operation_count
                           <= total_operations' + 1
                      /\ c = active_cheat' =>
                           cheats'[c].first_operation_index + cheats'[c].operation_count
                             = total_operations' + 1
                      /\ \A o \in 1 .. Len(operations') :
                           operations'[o].cheat_index = c <=>
                             /\ cheats'[c].first_operation_index <= o
                             /\ o < cheats'[c].first_operation_index
                                      + cheats'[c].operation_count
  BY DEF RunsInv
<1>4. CASE c \in 1 .. Len(cheats)
  <2>1. PICK first \in Nat, count \in Nat :
          /\ first = cheats[c].first_operation_index /\ count = cheats[c].operation_count
          /\ first >= 1 /\ first + count <= total_operations + 1
          /\ c = active_cheat => first + count = total_operations + 1
          /\ \A o \in 1 .. Len(operations) :
               operations[o].cheat_index = c <=> first <= o /\ o < first + count
    <3>1. cheats[c] \in CheatRecords
      BY <1>4 DEF LoopInv, LoopTypes
    <3>2. cheats[c].first_operation_index \in Nat /\ cheats[c].operation_count \in Nat
      BY <3>1 DEF CheatRecords
    <3> QED BY <1>4, <3>2 DEF LoopInv, RunsInv
  <2>2. c = active_cheat' => c = active_cheat /\ class \notin Headers
    BY <1>1, <1>4, TotalsEffect DEF NoIndex
  <2>3. CASE c = active_cheat /\ Coded(class)
    <3>1. /\ cheats'[c].first_operation_index = first
          /\ cheats'[c].operation_count = count + 1
          /\ total_operations' = total_operations + 1
      BY <1>4, <2>1, <2>3, CheatRecordsAfter, TotalsEffect
    <3>0. first + count = total_operations + 1 /\ c = active_cheat
      BY <2>1, <2>3
    <3>2. ASSUME NEW o \in 1 .. Len(operations')
          PROVE  operations'[o].cheat_index = c <=> first <= o /\ o < first + (count + 1)
      <4>1. CASE o \in 1 .. Len(operations)
        <5>1. operations'[o].cheat_index = c <=> first <= o /\ o < first + count
          BY <1>2, <2>1, <4>1
        <5>2. o < first + count /\ o < first + (count + 1)
          BY <1>1, <3>0, <4>1
        <5> QED BY <5>1, <5>2
      <4>2. CASE o = total_operations + 1 /\ operations'[o].cheat_index = active_cheat
        BY <1>1, <3>0, <4>2
      <4> QED BY <1>6, <4>1, <4>2
    <3>3. first + (count + 1) = (total_operations + 1) + 1
      BY <1>1, <3>0
    <3> QED BY <1>1, <2>1, <3>1, <3>2, <3>3
  <2>4. CASE ~(c = active_cheat /\ Coded(class))
    <3>1. /\ cheats'[c].first_operation_index = first
          /\ cheats'[c].operation_count = count
      BY <1>4, <2>1, <2>4, CheatRecordsAfter
    <3>2. total_operations' \in {total_operations, total_operations + 1}
      BY TotalsEffect
    <3>3. ASSUME NEW o \in 1 .. Len(operations')
          PROVE  operations'[o].cheat_index = c <=> first <= o /\ o < first + count
      <4>1. CASE o \in 1 .. Len(operations)
        BY <1>2, <2>1, <4>1
      <4>2. CASE o = total_operations + 1 /\ Coded(class)
                   /\ operations'[o].cheat_index = active_cheat
        <5>1. c # active_cheat
          BY <2>4, <4>2
        <5>2. ~(o < first + count)
          BY SMTT(30), <1>1, <2>1, <4>2
        <5> QED BY <4>2, <5>1, <5>2
      <4> QED BY <1>6, <4>1, <4>2
    <3>4. c = active_cheat' => first + count = total_operations' + 1
      <4>1. ASSUME c = active_cheat' PROVE total_operations' = total_operations
        BY <2>2, <2>4, <4>1, TotalsEffect
      <4> QED BY <2>1, <2>2, <4>1
    <3>5. first + count <= total_operations' + 1
      BY SMTT(30), <1>1, <2>1, <3>2
    <3> QED BY <2>1, <3>1, <3>3, <3>4, <3>5
  <2> QED BY <2>3, <2>4
<1>5. CASE c = total_cheats + 1 /\ class \in Headers /\ cheats'[c] = HeaderRecord
  <2>1. cheats'[c].first_operation_index = total_operations + 1 /\ cheats'[c].operation_count = 0
    BY <1>5 DEF HeaderRecord
  <2>2. ~Coded(class) /\ total_operations' = total_operations
    BY <1>5, TotalsEffect DEF Coded, Headers, CodeLines
  <2>3. ASSUME NEW o \in 1 .. Len(operations')
        PROVE  operations'[o].cheat_index # c
    <3>1. o \in 1 .. Len(operations)
      BY <2>2, Growth
    <3> QED BY <1>1, <1>2, <1>5, <3>1
  <2>4. ASSUME NEW o \in 1 .. Len(operations')
        PROVE  ~(total_operations + 1 <= o /\ o < total_operations + 1 + 0)
    <3>1. o \in Nat
      BY <2>2, <2>4, Growth
    <3> QED BY <1>1, <3>1
  <2> QED BY <1>1, <2>1, <2>2, <2>3, <2>4
<1> QED BY <1>4, <1>5, Growth

LEMMA ModesStep ==
  ASSUME LoopInv, NEW class \in LineClasses, ParseLine(class)
  PROVE  ModesInv'
<1>1. Extension(source, source', class)
  BY LineExtends
<1>2. /\ total_cheats \in Nat
      /\ total_cheats = Cardinality(HeaderPositions(source))
      /\ \A o \in 1 .. Len(operations) :
           /\ operations'[o] = operations[o]
           /\ operations[o].cheat_index \in 1 .. total_cheats
  BY Basics, OperationsAfter DEF LoopInv, LinksInv, TotalsInv
<1>3. \A o \in 1 .. Len(operations') :
        \/ o \in 1 .. Len(operations)
        \/ /\ o = total_operations + 1 /\ Coded(class)
           /\ operations'[o] =
                [kind |-> operation_kind(class), address_mode |-> AddressMode(class),
                 cheat_index |-> active_cheat, line_index |-> total_lines + 1]
  BY Growth
<1>4. active_cheat' = IF class \in Headers THEN total_cheats + 1
                      ELSE IF class = "bad_header" THEN NoIndex ELSE active_cheat
  BY TotalsEffect
<1>5. \A h \in HeaderPositions(source) :
        /\ CheatNumber(source', h) = CheatNumber(source, h)
        /\ CheatNumber(source, h) \in 1 .. total_cheats
  BY <1>1, NumberStep DEF LoopInv, CheatsInv
<1>6. ASSUME NEW o \in 1 .. Len(operations'), operations'[o].cheat_index = active_cheat'
      PROVE  active_cheat_operation_count' # 0
  <2>1. CASE class \in Closing
    <3>1. o \in 1 .. Len(operations)
      BY <1>3, <2>1 DEF Coded, Closing, CodeLines, Headers
    <3>2. operations'[o].cheat_index \in 1 .. total_cheats
      BY <1>2, <3>1
    <3>3. active_cheat' \in {total_cheats + 1, 0}
      BY <1>4, <2>1 DEF Closing, NoIndex
    <3> QED BY <1>2, <1>6, <3>2, <3>3
  <2>2. CASE class \notin Closing
    <3>1. active_cheat' = active_cheat
      BY <1>4, <2>2 DEF Closing
    <3>2. operations'[o].cheat_index # NoIndex
      BY <1>2, <1>3 DEF NoIndex, Coded
    <3>3. active_cheat # NoIndex
      BY <1>6, <3>1, <3>2
    <3>4. PICK h \in HeaderPositions(source) : StillOpen(source, h)
      BY <3>3, Basics DEF SomeOpen
    <3>5. active_cheat_operation_count \in Nat
      <4>1. active_cheat_operation_count = Cardinality(Codes(source, h))
        BY <3>4 DEF LoopInv, ActiveInv
      <4> QED BY <1>1, <4>1, CodeCountStep
    <3>6. active_cheat_operation_count' =
            IF Coded(class) THEN active_cheat_operation_count + 1
            ELSE active_cheat_operation_count
      BY <2>2, ContextEffect DEF LoopInv, LoopTypes
    <3>7. CASE Coded(class)
      <4>1. active_cheat_operation_count' = active_cheat_operation_count + 1
        BY <3>6, <3>7
      <4> QED BY <3>5, <4>1
    <3>8. CASE ~Coded(class)
      <4>1. o \in 1 .. Len(operations)
        BY <1>3, <3>8
      <4>2. operations[o].cheat_index = active_cheat
        BY <1>2, <1>6, <3>1, <4>1
      <4> QED BY <3>6, <3>8, <4>1, <4>2 DEF LoopInv, ModesInv
    <3> QED BY <3>7, <3>8
  <2> QED BY <2>1, <2>2
<1>7. ASSUME NEW o \in 1 .. Len(operations'), NEW h \in HeaderPositions(source'),
             operations'[o].kind = "WRITE",
             operations'[o].cheat_index = CheatNumber(source', h)
      PROVE  operations'[o].address_mode =
               IF Selects(source', h) THEN "SELECTED_MODULE_RELATIVE" ELSE "ABSOLUTE"
  <2>1. h \in HeaderPositions(source)
    <3>1. SUFFICES ASSUME h = Len(source) + 1, class \in Headers PROVE FALSE
      BY HeadersAfter
    <3>2. CheatNumber(source', h) = total_cheats + 1
      BY <1>1, <1>2, <3>1, NumberStep
    <3>3. o \in 1 .. Len(operations)
      BY <1>3, <3>1 DEF Coded, CodeLines, Headers
    <3>4. operations'[o].cheat_index \in 1 .. total_cheats
      BY <1>2, <3>3
    <3> QED BY <1>2, <1>7, <3>2, <3>4
  <2>2. Selects(source', h) <=> Selects(source, h) \/ Accepts(source, h, class)
    BY <1>1, <2>1, SelectorStep
  <2>3. operations'[o].cheat_index = CheatNumber(source, h)
    BY <1>5, <1>7, <2>1
  <2>4. CASE o \in 1 .. Len(operations)
    <3>1. operations[o].kind = "WRITE" /\ operations[o].cheat_index = CheatNumber(source, h)
      BY <1>2, <1>7, <2>3, <2>4
    <3>2. operations[o].address_mode =
            IF Selects(source, h) THEN "SELECTED_MODULE_RELATIVE" ELSE "ABSOLUTE"
      BY <2>1, <2>4, <3>1 DEF LoopInv, ModesInv
    <3>3. ~Accepts(source, h, class)
      <4>1. SUFFICES ASSUME Accepts(source, h, class) PROVE FALSE
        OBVIOUS
      <4>2. StillOpen(source, h) /\ Codes(source, h) = {}
        BY <4>1 DEF Accepts
      <4>3. /\ CheatNumber(source, h) = active_cheat
            /\ active_cheat_operation_count = Cardinality(Codes(source, h))
        BY <2>1, <4>2 DEF LoopInv, ActiveInv
      <4>4. active_cheat_operation_count = 0
        BY <4>2, <4>3, FS_EmptySet
      <4> QED BY <2>4, <3>1, <4>3, <4>4 DEF LoopInv, ModesInv
    <3> QED BY <1>2, <2>2, <2>4, <3>2, <3>3
  <2>5. CASE o \notin 1 .. Len(operations)
    <3>1. PICK new : /\ new = [kind |-> operation_kind(class), address_mode |-> AddressMode(class),
                               cheat_index |-> active_cheat, line_index |-> total_lines + 1]
                     /\ operations'[o] = new /\ Coded(class)
      BY <1>3, <2>5
    <3>2. /\ operation_kind(class) = "WRITE" /\ CheatNumber(source, h) = active_cheat
          /\ new.address_mode = AddressMode(class)
      BY <1>7, <2>3, <3>1
    <3>3. class = "write"
      BY <3>1, <3>2 DEF operation_kind, Coded, CodeLines
    <3>4. PICK g \in HeaderPositions(source) : StillOpen(source, g)
      BY <3>1, CodedIsCode DEF SomeOpen
    <3>5. g = h
      <4>1. CheatNumber(source, g) = CheatNumber(source, h)
        BY <3>2, <3>4, LocalsDecide
      <4> QED BY <2>1, <3>4, <4>1 DEF LoopInv, CheatsInv
    <3>6. relative_base_active <=> Selects(source, h)
      BY <2>1, <3>4, <3>5 DEF LoopInv, ActiveInv
    <3>7. ~Accepts(source, h, class)
      BY <3>3 DEF Accepts
    <3> QED BY <2>2, <3>1, <3>2, <3>6, <3>7 DEF AddressMode
  <2> QED BY <2>4, <2>5
<1> QED BY <1>6, <1>7 DEF ModesInv

LEMMA LineStep ==
  ASSUME LoopInv, NEW class \in LineClasses, ParseLine(class)
  PROVE  LoopInv'
BY TypesStep, TotalsStep, ActiveStep, CheatsStep, LinksStep, RunsStep, ModesStep, AlarmsStep
   DEF LoopInv

-----------------------------------------------------------------------------
(***************************************************************************)
(* Entering and leaving.                                                   *)
(***************************************************************************)

Running == pc \in {"entry", "parsing", "done"}

Unset == status \notin {"OK", "TRUNCATED"}

\* The type invariant is a weak form of the invariant of the loop.
LEMMA LoopTypeOK == LoopInv /\ Running => TypeOK
<1> SUFFICES ASSUME LoopInv, Running
             PROVE  TypeOK
  OBVIOUS
<1>1. /\ capacity \in Capacities /\ source \in Seq(LineClasses)
      /\ active_cheat_tainted \in BOOLEAN /\ relative_base_active \in BOOLEAN
      /\ relative_write_seen \in BOOLEAN
  BY DEF LoopInv, LoopTypes
<1>2. /\ total_lines \in Nat /\ total_cheats \in Nat /\ total_operations \in Nat
      /\ active_cheat \in Indexes(total_cheats)
  BY Basics DEF Indexes
<1>3. /\ Len(lines) <= line_capacity /\ Len(cheats) <= cheat_capacity
      /\ Len(operations) <= operation_capacity
  BY Basics DEF LoopInv, TotalsInv, Fill
<1>4. \A l \in 1 .. Len(lines) :
        /\ lines[l].cheat_index \in Indexes(total_cheats)
        /\ lines[l].operation_index \in Indexes(total_operations)
  BY DEF LoopInv, LinksInv, Indexes
<1>5. \A c \in 1 .. Len(cheats) : cheats[c].translation_state \in DirectOnly .. Malformed
  <2>1. \A c \in 1 .. Len(cheats) : cheats[c] \in CheatRecords
    BY DEF LoopInv, LoopTypes
  <2> QED BY <2>1 DEF CheatRecords
<1> QED BY <1>1, <1>2, <1>3, <1>4, <1>5 DEF TypeOK, Running

Delivery ==
  /\ CrossIndexesClosed /\ AllOrNothing /\ AddressModeMatchesSelector
  /\ TranslationMatchesSource /\ ReportMatchesSource

\* The properties are about calls that have returned a result.
LEMMA UnsetStatus == Unset => Delivery
BY DEF Unset, Delivery, CrossIndexesClosed, AllOrNothing, AddressModeMatchesSelector,
       TranslationMatchesSource, ReportMatchesSource, Parsed

\* An empty file means nothing.
LEMMA EmptySource ==
  /\ Len(<<>>) = 0 /\ HeaderPositions(<<>>) = {} /\ AllCodes(<<>>) = {}
  /\ MalformedPositions(<<>>) = {}
  /\ LimitViolations(<<>>) = 0
<1>1. Positions(<<>>) = {}
  BY DEF Positions
<1>2. HeaderPositions(<<>>) = {} /\ MalformedPositions(<<>>) = {}
  BY <1>1 DEF HeaderPositions, MalformedPositions
<1>3. AllCodes(<<>>) = {}
  BY <1>2 DEF AllCodes
<1>4. LegacyMaxCheats \in Nat /\ Cardinality({}) = 0
  BY LegacyPsvAssumption, FS_EmptySet
<1>5. LimitViolations(<<>>) = 0
  <2>1. /\ {h \in HeaderPositions(<<>>) : (<<>>)[h] = "long_header"} = {}
        /\ {h \in HeaderPositions(<<>>) : Cardinality(Codes(<<>>, h)) > LegacyMaxCodes} = {}
    BY <1>2
  <2>2. Cardinality(HeaderPositions(<<>>)) = 0 /\ ~(0 > LegacyMaxCheats)
    BY <1>2, <1>4
  <2>3. LimitViolations(<<>>) = 0 + 0 + 0
    BY <1>4, <2>1, <2>2 DEF LimitViolations
  <2> QED BY <2>3
<1> QED BY <1>2, <1>3, <1>5

\* The invariant holds before the first line.
LEMMA InitLoop ==
  ASSUME Init
  PROVE  LoopInv
<1>1. /\ source = <<>> /\ HeaderPositions(source) = {} /\ AllCodes(source) = {}
      /\ MalformedPositions(source) = {} /\ LimitViolations(source) = 0 /\ Len(source) = 0
  BY EmptySource DEF Init
<1>2. Cardinality({}) = 0
  BY FS_EmptySet
<1>3. LoopTypes
  <2>1. capacity \in Capacities
    BY DEF Init
  <2>2. /\ lines \in Seq(LineRecords) /\ cheats \in Seq(CheatRecords)
        /\ operations \in Seq(OperationRecords) /\ source \in Seq(LineClasses)
    BY DEF Init
  <2>3. /\ active_cheat_tainted \in BOOLEAN /\ relative_base_active \in BOOLEAN
        /\ relative_write_seen \in BOOLEAN
    BY DEF Init
  <2> QED BY <2>1, <2>2, <2>3 DEF LoopTypes
<1>4. TotalsInv
  <2>1. line_capacity \in Nat /\ cheat_capacity \in Nat /\ operation_capacity \in Nat
    BY <1>3, LegacyPsvAssumption
       DEF LoopTypes, line_capacity, cheat_capacity, operation_capacity
  <2>2. /\ total_lines = 0 /\ total_cheats = 0 /\ total_operations = 0
        /\ Len(lines) = 0 /\ Len(cheats) = 0 /\ Len(operations) = 0
    BY DEF Init
  <2>3. Fill(0, line_capacity) = 0 /\ Fill(0, cheat_capacity) = 0 /\ Fill(0, operation_capacity) = 0
    BY <2>1 DEF Fill
  <2> QED BY <1>1, <1>2, <2>2, <2>3 DEF TotalsInv
<1>5. ActiveInv /\ CheatsInv
  BY <1>1 DEF Init, ActiveInv, CheatsInv
<1>6. LinksInv /\ RunsInv /\ ModesInv
  <2>1. 1 .. Len(lines) = {} /\ 1 .. Len(cheats) = {} /\ 1 .. Len(operations) = {}
    BY DEF Init
  <2> QED BY <2>1 DEF LinksInv, RunsInv, ModesInv
<1>7. AlarmsInv
  <2>1. /\ unsupported_operations = 0 /\ non_direct_cheats = 0 /\ malformed_lines = 0
        /\ invalid_operation_sequences = 0 /\ legacy_limit_violations = 0
    BY DEF Init
  <2>2. /\ {i \in AllCodes(source) : source[i] = "opaque_code"} = {}
        /\ {h \in HeaderPositions(source) : SoFar(source, h) # DirectOnly} = {}
        /\ UNION {BadSelectors(source, h) : h \in HeaderPositions(source)} = {}
        /\ {h \in HeaderPositions(source) : Dangles(source, h) /\ ~StillOpen(source, h)} = {}
    BY <1>1
  <2>3. /\ Cardinality({i \in AllCodes(source) : source[i] = "opaque_code"}) = 0
        /\ Cardinality({h \in HeaderPositions(source) : SoFar(source, h) # DirectOnly}) = 0
        /\ Cardinality(MalformedPositions(source)) = 0
    BY <1>1, <1>2, <2>2
  <2>4. /\ Cardinality(UNION {BadSelectors(source, h) : h \in HeaderPositions(source)}) = 0
        /\ Cardinality({h \in HeaderPositions(source) :
                          Dangles(source, h) /\ ~StillOpen(source, h)}) = 0
    BY <1>2, <2>2
  <2>5. invalid_operation_sequences =
          Cardinality(UNION {BadSelectors(source, h) : h \in HeaderPositions(source)})
            + Cardinality({h \in HeaderPositions(source) :
                             Dangles(source, h) /\ ~StillOpen(source, h)})
    BY <2>1, <2>4
  <2> QED BY <1>1, <2>1, <2>3, <2>5 DEF AlarmsInv
<1> QED BY <1>3, <1>4, <1>5, <1>6, <1>7 DEF LoopInv

\* What holds about the file read so far does not depend on the control state.
LEMMA LoopUnchanged ==
  ASSUME LoopInv, UNCHANGED <<outputs, capacity, totals, alarms, context, source>>
  PROVE  LoopInv'
<1>1. /\ UNCHANGED <<lines, cheats, operations>> /\ UNCHANGED capacity
      /\ UNCHANGED <<total_lines, total_cheats, total_operations>>
      /\ UNCHANGED <<unsupported_operations, non_direct_cheats,
                     invalid_operation_sequences, malformed_lines,
                     legacy_limit_violations>>
      /\ UNCHANGED <<active_cheat, active_cheat_operation_count, active_cheat_tainted,
                     relative_base_active, relative_write_seen>>
      /\ UNCHANGED source
  BY DEF outputs, totals, alarms, context
<1>2. LoopTypes'
  BY <1>1 DEF LoopInv, LoopTypes
<1>3. TotalsInv' /\ ActiveInv'
  BY <1>1 DEF LoopInv, TotalsInv, ActiveInv, line_capacity, cheat_capacity, operation_capacity
<1>4. CheatsInv' /\ LinksInv'
  BY <1>1 DEF LoopInv, CheatsInv, LinksInv
<1>5. RunsInv' /\ ModesInv'
  BY <1>1 DEF LoopInv, RunsInv, ModesInv
<1>6. AlarmsInv'
  BY <1>1 DEF LoopInv, AlarmsInv
<1> QED BY <1>2, <1>3, <1>4, <1>5, <1>6 DEF LoopInv

\* A call that is turned away has read nothing and reports nothing.
LEMMA EnterStep ==
  ASSUME Inv, NEW pointers \in BOOLEAN, NEW small \in BOOLEAN, NEW disjoint \in BOOLEAN,
         Enter(pointers, small, disjoint)
  PROVE  Inv'
<1>1. LoopInv /\ status = "NONE"
  BY DEF Enter, Inv
<1>2. LoopInv'
  BY <1>1, LoopUnchanged DEF Enter
<1>3. Running' /\ Unset'
  BY <1>1 DEF Enter, Running, Unset
<1>4. pc' # "done" => status' = "NONE"
  BY <1>1 DEF Enter
<1>5. TypeOK'
  BY <1>2, <1>3, LoopTypeOK, PTL
<1>6. Delivery'
  BY <1>3, UnsetStatus, PTL
<1> QED BY <1>2, <1>4, <1>5, <1>6 DEF Inv, Delivery

LEMMA ParseStep ==
  ASSUME Inv, NEW class \in LineClasses, ParseLine(class)
  PROVE  Inv'
<1>1. LoopInv /\ status = "NONE" /\ pc = "parsing"
  BY DEF ParseLine, Inv
<1>2. LoopInv' /\ pc' = "parsing" /\ status' = "NONE"
  BY <1>1, LineStep DEF ParseLine
<1>3. Running' /\ Unset'
  BY <1>2 DEF Running, Unset
<1>4. TypeOK'
  BY <1>2, <1>3, LoopTypeOK, PTL
<1>5. Delivery'
  BY <1>3, UnsetStatus, PTL
<1> QED BY <1>2, <1>4, <1>5 DEF Inv, Delivery

\* Finishing closes the open cheat as one more header would: what a cheat has
\* deserved by then is what its whole block deserves.
LEMMA Delivered ==
  ASSUME NEW s \in Seq(LineClasses), NEW t, t = Append(s, "header")
  PROVE  /\ \A h \in HeaderPositions(s) : SoFar(t, h) = Translation(s, h)
         /\ {h \in HeaderPositions(t) : SoFar(t, h) # DirectOnly}
              = {h \in HeaderPositions(s) : Translation(s, h) # DirectOnly}
         /\ {h \in HeaderPositions(t) : Dangles(t, h) /\ ~StillOpen(t, h)}
              = {h \in HeaderPositions(s) : Dangles(s, h)}
<1>1. Extension(s, t, "header") /\ "header" \in Closing /\ "header" \in Headers
  BY DEF Extension, LineClasses, Closing, Headers
<1>2. HeaderPositions(t) = HeaderPositions(s) \cup {Len(s) + 1}
  BY <1>1, HeaderStep
<1>3. /\ SoFar(t, Len(s) + 1) = DirectOnly
      /\ ~Dangles(t, Len(s) + 1)
  BY <1>1, NewCheat
<1>4. ASSUME NEW h \in HeaderPositions(s)
      PROVE  /\ SoFar(t, h) = Translation(s, h)
             /\ Dangles(t, h) /\ ~StillOpen(t, h) <=> Dangles(s, h)
  <2>1. \A K : Has(t, h, K) <=> Has(s, h, K)
    BY <1>1, HasStep
  <2>2. ClosedByBadHeader(t, h) <=> ClosedByBadHeader(s, h)
    BY <1>1, ClosedStep
  <2>3. /\ Selects(t, h) <=> Selects(s, h)
        /\ BadSelectors(t, h) # {} <=> BadSelectors(s, h) # {}
    <3>1. ~Accepts(s, h, "header") /\ ~Rejects(s, h, "header")
      BY DEF Accepts, Rejects
    <3> QED BY <1>1, <3>1, SelectorStep
  <2>4. ~StillOpen(t, h) /\ (Dangles(t, h) <=> Dangles(s, h))
    BY <1>1, DanglesStep
  <2>5. Spoilt(t, h) <=> \/ Has(s, h, {"bad_code"}) \/ ClosedByBadHeader(s, h)
                         \/ BadSelectors(s, h) # {} \/ Dangles(s, h)
    BY <2>1, <2>2, <2>3, <2>4 DEF Spoilt
  <2>6. SoFar(t, h) = Translation(s, h)
    BY <2>1, <2>3, <2>5 DEF SoFar, Translation
  <2> QED BY <2>4, <2>6
<1> QED BY <1>2, <1>3, <1>4

\* Every number up to the total is that of a cheat.
LEMMA HeaderOfCheat ==
  ASSUME LoopInv, NEW c \in 1 .. total_cheats
  PROVE  \E h \in HeaderPositions(source) : CheatNumber(source, h) = c
<1> DEFINE S == HeaderPositions(source)
           T == 1 .. total_cheats
           f == [h \in S |-> CheatNumber(source, h)]
<1>1. total_cheats \in Nat /\ total_cheats = Cardinality(S)
  BY Basics DEF LoopInv, TotalsInv
<1>2. IsFiniteSet(T) /\ Cardinality(T) = total_cheats
  <2>1. IsFiniteSet(T) /\ Cardinality(T) = IF 1 > total_cheats THEN 0 ELSE total_cheats - 1 + 1
    BY SMTT(30), <1>1, FS_Interval
  <2> QED BY <1>1, <2>1
<1>3. f \in Injection(S, T)
  <2>1. /\ \A h \in S : CheatNumber(source, h) \in T
        /\ \A g, h \in S : CheatNumber(source, g) = CheatNumber(source, h) => g = h
    BY DEF LoopInv, CheatsInv
  <2>2. f \in [S -> T]
    BY <2>1
  <2>3. \A g, h \in S : f[g] = f[h] => g = h
    BY <2>1
  <2> QED BY <2>2, <2>3 DEF Injection, IsInjective
<1>4. f \in Surjection(S, T)
  BY <1>1, <1>2, <1>3, FS_Injection
<1>5. \E h \in S : f[h] = c
  BY <1>4 DEF Surjection
<1> QED BY <1>5

\* The arrays hold everything exactly when every total fits its capacity.
LEMMA Fits ==
  ASSUME LoopInv
  PROVE  ~Truncated <=> /\ total_lines <= line_capacity
                        /\ total_cheats <= cheat_capacity
                        /\ total_operations <= operation_capacity
<1>1. /\ Len(lines) = IF total_lines <= line_capacity THEN total_lines ELSE line_capacity
      /\ Len(cheats) = IF total_cheats <= cheat_capacity THEN total_cheats ELSE cheat_capacity
      /\ Len(operations) = IF total_operations <= operation_capacity THEN total_operations
                           ELSE operation_capacity
  BY DEF LoopInv, TotalsInv, Fill
<1> QED BY <1>1, Basics DEF Truncated

\* What is handed out: the arrays as they are, with the open cheat finalised.
LEMMA HandedOut ==
  ASSUME LoopInv, Finish, status' = "OK"
  PROVE  /\ lines' = lines /\ operations' = operations /\ source' = source
         /\ Len(lines) = total_lines /\ Len(cheats) = total_cheats
         /\ Len(operations) = total_operations
         /\ cheats' \in Seq(CheatRecords)
         /\ Len(cheats') = Len(cheats)
         /\ \A i \in 1 .. Len(cheats) :
              /\ cheats'[i].translation_state =
                   IF i = active_cheat THEN Worse(cheats[i].translation_state, FinalTaint)
                   ELSE cheats[i].translation_state
              /\ cheats'[i].header_line_index = cheats[i].header_line_index
              /\ cheats'[i].first_operation_index = cheats[i].first_operation_index
              /\ cheats'[i].operation_count = cheats[i].operation_count
<1>1. /\ ~Truncated /\ lines' = lines /\ operations' = operations /\ source' = source
      /\ cheats' = TaintedCheats(FinalTaint)
  BY DEF Finish
<1>2. FinalTaint \in DirectOnly .. Malformed
  BY DEF FinalTaint, Malformed, DirectOnly
<1>3. /\ Len(lines) = total_lines /\ Len(cheats) = total_cheats
      /\ Len(operations) = total_operations
  BY <1>1 DEF Truncated
<1> QED BY <1>1, <1>2, <1>3, TaintedFacts

\* Finishing makes the state so far the state of the whole block.
LEMMA FinishTranslation ==
  ASSUME LoopInv, Finish
  PROVE  TranslationMatchesSource'
<1> SUFFICES ASSUME status' = "OK", NEW h \in HeaderPositions(source')
             PROVE  cheats'[CheatNumber(source', h)].translation_state = Translation(source', h)
  BY DEF TranslationMatchesSource
<1>1. source' = source /\ h \in HeaderPositions(source) /\ source \in Seq(LineClasses)
  BY HandedOut DEF LoopInv, LoopTypes
<1>2. PICK k \in 1 .. Len(cheats) : k = CheatNumber(source, h)
  <2>1. CheatNumber(source, h) \in 1 .. total_cheats
    BY <1>1 DEF LoopInv, CheatsInv
  <2> QED BY <2>1, HandedOut
<1>3. cheats[k].translation_state = SoFar(source, h)
  <2>1. CheatNumber(source, h) <= Len(cheats)
    BY <1>2, Basics
  <2> QED BY <1>1, <1>2, <2>1 DEF LoopInv, CheatsInv
<1>4. cheats'[k].translation_state =
        IF k = active_cheat THEN Worse(cheats[k].translation_state, FinalTaint)
        ELSE cheats[k].translation_state
  BY <1>2, HandedOut
<1>5. PICK t : t = Append(source, "header")
  OBVIOUS
<1>6. Extension(source, t, "header") /\ SoFar(t, h) = Translation(source, h)
  BY <1>1, <1>5, Delivered DEF Extension, LineClasses
<1>7. CASE StillOpen(source, h)
  <2>1. k = active_cheat /\ FinalTaint = Taint(source, h, "header")
    BY <1>2, <1>7, LocalsDecide DEF LineClasses, LineTaint, Headers
  <2>2. SoFar(t, h) = Worse(SoFar(source, h), Taint(source, h, "header"))
    BY <1>1, <1>6, <1>7, SoFarStep
  <2> QED BY <1>1, <1>2, <1>3, <1>4, <1>6, <2>1, <2>2
<1>8. CASE ~StillOpen(source, h)
  <2>1. k # active_cheat
    <3>1. SUFFICES ASSUME k = active_cheat PROVE FALSE
      OBVIOUS
    <3>2. active_cheat # NoIndex
      BY <1>2, <3>1, Basics DEF NoIndex
    <3>3. PICK g \in HeaderPositions(source) : StillOpen(source, g)
      BY <3>2, Basics DEF SomeOpen
    <3>4. CheatNumber(source, g) = CheatNumber(source, h)
      BY <1>2, <3>1, <3>3, LocalsDecide DEF LineClasses
    <3>5. g = h
      BY <1>1, <3>4 DEF LoopInv, CheatsInv
    <3> QED BY <1>8, <3>3, <3>5
  <2>2. SoFar(t, h) = SoFar(source, h)
    BY <1>1, <1>6, <1>8, SoFarStep
  <2> QED BY <1>1, <1>2, <1>3, <1>4, <1>6, <2>1, <2>2
<1> QED BY <1>7, <1>8

\* The operations that a cheat counts are an interval.
LEMMA RunOf ==
  ASSUME NEW total \in Nat, NEW first \in Nat, NEW count \in Nat,
         first >= 1, first + count <= total + 1
  PROVE  {o \in 1 .. total : first <= o /\ o < first + count} = first .. first + count - 1
<1>1. ASSUME NEW o \in first .. first + count - 1
      PROVE  o \in 1 .. total /\ first <= o /\ o < first + count
  OBVIOUS
<1>2. ASSUME NEW o \in 1 .. total, first <= o, o < first + count
      PROVE  o \in first .. first + count - 1
  BY <1>2
<1> QED BY <1>1, <1>2

\* Nothing is handed out that names what is not.
LEMMA FinishIndexes ==
  ASSUME LoopInv, Finish
  PROVE  CrossIndexesClosed'
<1> SUFFICES ASSUME status' = "OK"
             PROVE  CrossIndexesClosed'
  BY DEF CrossIndexesClosed
<1>1. /\ lines' = lines /\ operations' = operations
      /\ Len(lines) = total_lines /\ Len(cheats) = total_cheats
      /\ Len(operations) = total_operations /\ Len(cheats') = Len(cheats)
      /\ \A i \in 1 .. Len(cheats) :
           /\ cheats'[i].header_line_index = cheats[i].header_line_index
           /\ cheats'[i].first_operation_index = cheats[i].first_operation_index
           /\ cheats'[i].operation_count = cheats[i].operation_count
  BY HandedOut
<1>2. /\ total_lines \in Nat /\ total_cheats \in Nat /\ total_operations \in Nat
  BY Basics
<1>3. ASSUME NEW l \in 1 .. Len(lines)
      PROVE  /\ lines[l].kind = "code" =>
                  /\ lines[l].operation_index \in 1 .. Len(operations)
                  /\ operations[lines[l].operation_index].line_index = l
                  /\ operations[lines[l].operation_index].cheat_index = lines[l].cheat_index
             /\ lines[l].kind = "header" =>
                  cheats'[lines[l].cheat_index].header_line_index = l
  <2>1. ASSUME lines[l].kind = "code"
        PROVE  /\ lines[l].operation_index \in 1 .. Len(operations)
               /\ operations[lines[l].operation_index].line_index = l
               /\ operations[lines[l].operation_index].cheat_index = lines[l].cheat_index
    <3>1. lines[l].operation_index \in 1 .. total_operations
      BY <2>1 DEF LoopInv, LinksInv
    <3>2. lines[l].operation_index <= Len(operations)
      BY <1>1, <1>2, <3>1
    <3> QED BY <1>1, <2>1, <3>1, <3>2 DEF LoopInv, LinksInv
  <2>2. ASSUME lines[l].kind = "header"
        PROVE  cheats'[lines[l].cheat_index].header_line_index = l
    <3>1. lines[l].cheat_index \in 1 .. total_cheats
      BY <2>2 DEF LoopInv, LinksInv
    <3>2. lines[l].cheat_index <= Len(cheats)
      BY <1>1, <1>2, <3>1
    <3>3. cheats[lines[l].cheat_index].header_line_index = l
      BY <2>2, <3>2 DEF LoopInv, LinksInv
    <3> QED BY <1>1, <3>1, <3>3
  <2> QED BY <2>1, <2>2
<1>4. ASSUME NEW o \in 1 .. Len(operations)
      PROVE  /\ operations[o].cheat_index \in 1 .. Len(cheats)
             /\ lines[operations[o].line_index].operation_index = o
  <2>1. /\ operations[o].cheat_index \in 1 .. total_cheats
        /\ operations[o].line_index \in 1 .. total_lines
    BY DEF LoopInv, LinksInv
  <2>2. operations[o].line_index <= Len(lines)
    BY <1>1, <1>2, <2>1
  <2> QED BY <1>1, <2>1, <2>2 DEF LoopInv, LinksInv
<1>5. ASSUME NEW c \in 1 .. Len(cheats)
      PROVE  /\ lines[cheats'[c].header_line_index].cheat_index = c
             /\ {o \in 1 .. Len(operations) : operations[o].cheat_index = c}
                  = cheats'[c].first_operation_index
                      .. cheats'[c].first_operation_index + cheats'[c].operation_count - 1
  <2>1. lines[cheats'[c].header_line_index].cheat_index = c
    <3>1. cheats[c].header_line_index \in 1 .. total_lines
      BY DEF LoopInv, LinksInv
    <3>2. cheats[c].header_line_index <= Len(lines)
      BY <1>1, <1>2, <3>1
    <3>3. lines[cheats[c].header_line_index].cheat_index = c
      BY <3>2 DEF LoopInv, LinksInv
    <3> QED BY <1>1, <3>3
  <2>2. PICK first \in Nat, count \in Nat :
          first = cheats[c].first_operation_index /\ count = cheats[c].operation_count
    <3>1. cheats[c] \in CheatRecords
      BY DEF LoopInv, LoopTypes
    <3> QED BY <3>1 DEF CheatRecords
  <2>3. /\ first >= 1 /\ first + count <= total_operations + 1
        /\ \A o \in 1 .. Len(operations) :
             operations[o].cheat_index = c <=> first <= o /\ o < first + count
    BY <2>2 DEF LoopInv, RunsInv
  <2>4. {o \in 1 .. total_operations : first <= o /\ o < first + count}
          = first .. first + count - 1
    BY <1>2, <2>3, RunOf
  <2>5. {o \in 1 .. Len(operations) : operations[o].cheat_index = c}
          = {o \in 1 .. total_operations : first <= o /\ o < first + count}
    BY <1>1, <2>3
  <2> QED BY <1>1, <2>1, <2>2, <2>4, <2>5
<1> QED BY <1>1, <1>3, <1>4, <1>5 DEF CrossIndexesClosed

\* A delivered write belongs to a delivered cheat.
LEMMA FinishModes ==
  ASSUME LoopInv, Finish
  PROVE  AddressModeMatchesSelector'
<1> SUFFICES ASSUME status' = "OK", NEW o \in 1 .. Len(operations'),
                    operations'[o].kind = "WRITE"
             PROVE  operations'[o].address_mode =
                      IF Selects(source', cheats'[operations'[o].cheat_index].header_line_index)
                      THEN "SELECTED_MODULE_RELATIVE" ELSE "ABSOLUTE"
  BY DEF AddressModeMatchesSelector
<1>1. operations' = operations /\ source' = source /\ Len(cheats) = total_cheats
  BY HandedOut
<1>2. o \in 1 .. Len(operations) /\ operations[o].kind = "WRITE"
  BY <1>1
<1>3. PICK c \in 1 .. total_cheats : c = operations[o].cheat_index
  BY <1>2 DEF LoopInv, LinksInv
<1>4. PICK h \in HeaderPositions(source) : CheatNumber(source, h) = c
  BY HeaderOfCheat
<1>5. cheats[c].header_line_index = h
  <2>1. CheatNumber(source, h) <= Len(cheats)
    BY <1>1, <1>4, Basics
  <2> QED BY <1>4, <2>1 DEF LoopInv, CheatsInv
<1>6. cheats'[c].header_line_index = h
  BY <1>1, <1>5, HandedOut
<1>7. operations[o].address_mode =
        IF Selects(source, h) THEN "SELECTED_MODULE_RELATIVE" ELSE "ABSOLUTE"
  BY <1>2, <1>3, <1>4 DEF LoopInv, ModesInv
<1> QED BY <1>1, <1>3, <1>6, <1>7

\* Truncated says that the file needs more than the caller has.
LEMMA FinishAllOrNothing ==
  ASSUME LoopInv, Finish
  PROVE  AllOrNothing'
<1>1. /\ total_lines = Len(source) /\ total_cheats = Cardinality(HeaderPositions(source))
      /\ total_operations = Cardinality(AllCodes(source))
  BY DEF LoopInv, TotalsInv
<1>2. source' = source /\ capacity' = capacity
  BY DEF Finish
<1>3. /\ line_capacity' = line_capacity /\ cheat_capacity' = cheat_capacity
      /\ operation_capacity' = operation_capacity
  BY <1>2 DEF line_capacity, cheat_capacity, operation_capacity
<1>4. CASE Truncated
  <2>1. status' = "TRUNCATED" /\ outputs' = <<<<>>, <<>>, <<>>>>
    BY <1>4 DEF Finish, outputs
  <2>2. ~(/\ Len(source) <= line_capacity
          /\ Cardinality(HeaderPositions(source)) <= cheat_capacity
          /\ Cardinality(AllCodes(source)) <= operation_capacity)
    BY <1>1, <1>4, Fits
  <2> QED BY <1>2, <1>3, <2>1, <2>2 DEF AllOrNothing
<1>5. CASE ~Truncated
  <2>1. status' = "OK"
    BY <1>5 DEF Finish
  <2>2. /\ Len(lines') = Len(source) /\ Len(cheats') = Cardinality(HeaderPositions(source))
        /\ Len(operations') = Cardinality(AllCodes(source))
    BY <1>1, <2>1, HandedOut
  <2>3. /\ Len(source) <= line_capacity
        /\ Cardinality(HeaderPositions(source)) <= cheat_capacity
        /\ Cardinality(AllCodes(source)) <= operation_capacity
    BY <1>1, <1>5, Fits
  <2> QED BY <1>2, <1>3, <2>1, <2>2, <2>3 DEF AllOrNothing
<1> QED BY <1>4, <1>5

\* Finishing counts the selector that dangles at the end of the file.
LEMMA FinishReport ==
  ASSUME LoopInv, Finish
  PROVE  ReportMatchesSource'
<1>1. /\ source' = source /\ total_lines' = total_lines /\ total_cheats' = total_cheats
      /\ total_operations' = total_operations
      /\ unsupported_operations' = unsupported_operations
      /\ malformed_lines' = malformed_lines
      /\ legacy_limit_violations' = legacy_limit_violations
  BY DEF Finish, totals
<1>2. PICK t : t = Append(source, "header")
  OBVIOUS
<1>3. source \in Seq(LineClasses) /\ Extension(source, t, "header")
  BY <1>2 DEF LoopInv, LoopTypes, Extension, LineClasses
<1>4. /\ {h \in HeaderPositions(t) : SoFar(t, h) # DirectOnly}
           = {h \in HeaderPositions(source) : Translation(source, h) # DirectOnly}
      /\ {h \in HeaderPositions(t) : Dangles(t, h) /\ ~StillOpen(t, h)}
           = {h \in HeaderPositions(source) : Dangles(source, h)}
  BY <1>2, <1>3, Delivered
<1>5. PICK bad \in Nat, dang \in Nat, direct \in Nat :
        /\ bad = Cardinality(UNION {BadSelectors(source, h) : h \in HeaderPositions(source)})
        /\ dang = Cardinality({h \in HeaderPositions(source) :
                                 Dangles(source, h) /\ ~StillOpen(source, h)})
        /\ direct = Cardinality({h \in HeaderPositions(source) : SoFar(source, h) # DirectOnly})
  <2>1. PICK n \in Nat : n = Len(source) /\ HeaderPositions(source) \subseteq 1 .. n
    BY <1>3, SourceFacts
  <2>2. UNION {BadSelectors(source, h) : h \in HeaderPositions(source)} \subseteq 1 .. n
    <3>1. \A h \in HeaderPositions(source) : BadSelectors(source, h) \subseteq 1 .. n
      BY <1>3, <2>1, SelectorStep, CodesStep
    <3> QED BY <3>1
  <2>3. /\ {h \in HeaderPositions(source) :
              Dangles(source, h) /\ ~StillOpen(source, h)} \subseteq 1 .. n
        /\ {h \in HeaderPositions(source) : SoFar(source, h) # DirectOnly} \subseteq 1 .. n
    BY <2>1
  <2> QED BY <2>2, <2>3, CountStep
<1>6. invalid_operation_sequences = bad + dang /\ non_direct_cheats = direct
  BY <1>5 DEF LoopInv, AlarmsInv
<1>7. (\E h \in HeaderPositions(source) : StillOpen(source, h) /\ Dangles(source, h))
        <=> DanglingSelector
  <2>1. CASE SomeOpen(source)
    <3>1. PICK h \in HeaderPositions(source) : StillOpen(source, h)
      BY <2>1 DEF SomeOpen
    <3>2. Dangles(source, h) <=> DanglingSelector
      BY <3>1, LocalsDecide DEF LineClasses
    <3>3. \A g : StillOpen(source, g) => g = h
      BY <1>3, <3>1, OpenUnique
    <3> QED BY <3>1, <3>2, <3>3
  <2>2. CASE ~SomeOpen(source)
    BY <2>2, Basics DEF SomeOpen, DanglingSelector
  <2> QED BY <2>1, <2>2
<1>8. invalid_operation_sequences' = InvalidSequences(source)
  <2>1. Cardinality({h \in HeaderPositions(source) : Dangles(source, h)}) =
          dang + (IF DanglingSelector THEN 1 ELSE 0)
    <3>1. "header" \in Closing
      BY DEF Closing, Headers
    <3> QED BY <1>3, <1>4, <1>5, <1>7, <3>1, DanglingCountStep
  <2>2. invalid_operation_sequences' = (bad + dang) + (IF DanglingSelector THEN 1 ELSE 0)
    BY <1>6 DEF Finish, InvalidAfterFinalize
  <2>3. PICK last \in {0, 1} : last = IF DanglingSelector THEN 1 ELSE 0
    OBVIOUS
  <2>4. (bad + dang) + last = bad + (dang + last)
    BY <1>5, <2>3
  <2> QED BY <1>5, <2>1, <2>2, <2>3, <2>4 DEF InvalidSequences
<1>9. non_direct_cheats' =
        Cardinality({h \in HeaderPositions(source) : Translation(source, h) # DirectOnly})
  <2>1. (\E h \in HeaderPositions(source) :
           /\ StillOpen(source, h) /\ SoFar(source, h) = DirectOnly
           /\ Taint(source, h, "header") # DirectOnly)
          <=> Taints(FinalTaint) /\ ~active_cheat_tainted
    <3>1. CASE SomeOpen(source)
      <4>1. PICK h \in HeaderPositions(source) : StillOpen(source, h)
        BY <3>1 DEF SomeOpen
      <4>2. active_cheat_tainted <=> SoFar(source, h) # DirectOnly
        BY <4>1 DEF LoopInv, ActiveInv
      <4>3. FinalTaint = Taint(source, h, "header") /\ active_cheat # NoIndex
        BY <4>1, LocalsDecide DEF LineClasses, LineTaint, Headers
      <4>4. Taints(FinalTaint) <=> Taint(source, h, "header") # DirectOnly
        BY <4>3 DEF Taints
      <4>5. \A g : StillOpen(source, g) => g = h
        BY <1>3, <4>1, OpenUnique
      <4> QED BY <4>1, <4>2, <4>4, <4>5
    <3>2. CASE ~SomeOpen(source)
      BY <3>2, Basics DEF SomeOpen, Taints
    <3> QED BY <3>1, <3>2
  <2>2. non_direct_cheats' =
          IF Taints(FinalTaint) /\ ~active_cheat_tainted THEN direct + 1 ELSE direct
    BY <1>6 DEF Finish, NonDirectAfter
  <2>3. Cardinality({h \in HeaderPositions(source) : Translation(source, h) # DirectOnly}) =
          direct + (IF Taints(FinalTaint) /\ ~active_cheat_tainted THEN 1 ELSE 0)
    BY <1>3, <1>4, <1>5, <2>1, NonDirectCountStep
  <2>4. direct + 0 = direct
    BY <1>5
  <2>5. CASE Taints(FinalTaint) /\ ~active_cheat_tainted
    BY <2>2, <2>3, <2>5
  <2>6. CASE ~(Taints(FinalTaint) /\ ~active_cheat_tainted)
    BY <2>2, <2>3, <2>4, <2>6
  <2> QED BY <2>5, <2>6
<1>10. /\ total_lines = Len(source)
       /\ total_cheats = Cardinality(HeaderPositions(source))
       /\ total_operations = Cardinality(AllCodes(source))
       /\ unsupported_operations =
            Cardinality({i \in AllCodes(source) : source[i] = "opaque_code"})
       /\ malformed_lines = Cardinality(MalformedPositions(source))
       /\ legacy_limit_violations = LimitViolations(source)
  BY DEF LoopInv, TotalsInv, AlarmsInv
<1> QED BY <1>1, <1>8, <1>9, <1>10 DEF ReportMatchesSource

LEMMA FinishTypes ==
  ASSUME LoopInv, Finish
  PROVE  TypeOK'
<1>1. /\ capacity' = capacity /\ source' = source /\ total_lines' = total_lines
      /\ total_cheats' = total_cheats /\ total_operations' = total_operations
      /\ active_cheat' = active_cheat
  BY DEF Finish, totals, context
<1>2. /\ active_cheat_tainted' \in BOOLEAN /\ relative_base_active' \in BOOLEAN
      /\ relative_write_seen' \in BOOLEAN /\ pc' \in {"entry", "parsing", "done"}
  BY DEF Finish, context, LoopInv, LoopTypes
<1>3. capacity' \in Capacities /\ source' \in Seq(LineClasses)
  BY <1>1 DEF LoopInv, LoopTypes
<1>4. /\ line_capacity' = line_capacity /\ cheat_capacity' = cheat_capacity
      /\ operation_capacity' = operation_capacity
  BY <1>1 DEF line_capacity, cheat_capacity, operation_capacity
<1>5. /\ total_lines \in Nat /\ total_cheats \in Nat /\ total_operations \in Nat
      /\ line_capacity \in Nat /\ cheat_capacity \in Nat /\ operation_capacity \in Nat
      /\ active_cheat \in Indexes(total_cheats)
  BY Basics DEF Indexes
<1>6. /\ Len(lines') <= line_capacity /\ Len(cheats') <= cheat_capacity
      /\ Len(operations') <= operation_capacity
      /\ \A l \in 1 .. Len(lines') :
           /\ lines'[l].cheat_index \in Indexes(total_cheats)
           /\ lines'[l].operation_index \in Indexes(total_operations)
      /\ \A c \in 1 .. Len(cheats') : cheats'[c].translation_state \in DirectOnly .. Malformed
  <2>1. CASE Truncated
    <3>1. Len(lines') = 0 /\ Len(cheats') = 0 /\ Len(operations') = 0
      BY <2>1 DEF Finish
    <3>2. 1 .. Len(lines') = {} /\ 1 .. Len(cheats') = {}
      BY <3>1
    <3> QED BY <1>5, <3>1, <3>2
  <2>2. CASE ~Truncated
    <3>1. status' = "OK"
      BY <2>2 DEF Finish
    <3>2. /\ Len(lines') <= line_capacity /\ Len(cheats') <= cheat_capacity
          /\ Len(operations') <= operation_capacity
      BY <2>2, <3>1, HandedOut, Fits
    <3>3. \A l \in 1 .. Len(lines') :
            /\ lines'[l].cheat_index \in Indexes(total_cheats)
            /\ lines'[l].operation_index \in Indexes(total_operations)
      BY <3>1, HandedOut DEF LoopInv, LinksInv, Indexes
    <3>4. \A c \in 1 .. Len(cheats') : cheats'[c].translation_state \in DirectOnly .. Malformed
      <4>1. cheats' \in Seq(CheatRecords)
        BY <3>1, HandedOut
      <4>2. \A c \in 1 .. Len(cheats') : cheats'[c] \in CheatRecords
        BY <4>1
      <4> QED BY <4>2 DEF CheatRecords
    <3> QED BY <3>2, <3>3, <3>4
  <2> QED BY <2>1, <2>2
<1> QED BY <1>1, <1>2, <1>3, <1>4, <1>5, <1>6 DEF TypeOK

LEMMA FinishStep ==
  ASSUME Inv, Finish
  PROVE  Inv'
<1>1. LoopInv /\ pc' = "done"
  BY DEF Finish, Inv
<1> QED BY <1>1, FinishTypes, FinishIndexes, FinishAllOrNothing, FinishModes,
           FinishTranslation, FinishReport DEF Inv

LEMMA InitInv ==
  ASSUME Init
  PROVE  Inv
<1>1. LoopInv /\ status = "NONE"
  BY InitLoop DEF Init
<1>2. Running /\ Unset
  BY DEF Init, Running, Unset
<1> QED BY <1>1, <1>2, LoopTypeOK, UnsetStatus DEF Inv, Delivery

LEMMA StutterInv ==
  ASSUME Inv, UNCHANGED vars
  PROVE  Inv'
<1>1. /\ UNCHANGED <<lines, cheats, operations>> /\ UNCHANGED capacity
      /\ UNCHANGED <<total_lines, total_cheats, total_operations>>
      /\ UNCHANGED <<unsupported_operations, non_direct_cheats,
                     invalid_operation_sequences, malformed_lines,
                     legacy_limit_violations>>
      /\ UNCHANGED <<active_cheat, active_cheat_operation_count, active_cheat_tainted,
                     relative_base_active, relative_write_seen>>
      /\ UNCHANGED <<pc, status, source>>
  BY DEF vars, outputs, totals, alarms, context
<1>2. LoopInv => LoopInv'
  BY LoopUnchanged DEF vars
<1>3. TypeOK'
  BY <1>1 DEF Inv, TypeOK, line_capacity, cheat_capacity, operation_capacity
<1>4. CrossIndexesClosed' /\ AddressModeMatchesSelector' /\ TranslationMatchesSource'
  BY <1>1 DEF Inv, CrossIndexesClosed, AddressModeMatchesSelector, TranslationMatchesSource
<1>5. AllOrNothing'
  BY <1>1 DEF Inv, AllOrNothing, Parsed, outputs, line_capacity, cheat_capacity,
              operation_capacity
<1>6. ReportMatchesSource'
  BY <1>1 DEF Inv, ReportMatchesSource, Parsed
<1> QED BY <1>1, <1>2, <1>3, <1>4, <1>5, <1>6 DEF Inv

LEMMA SpecInv == Spec => []Inv
<1>1. Init => Inv
  BY InitInv
<1>2. Inv /\ [Next]_vars => Inv'
  <2> SUFFICES ASSUME Inv, [Next]_vars
               PROVE  Inv'
    OBVIOUS
  <2>1. CASE \E pointers, small, disjoint \in BOOLEAN : Enter(pointers, small, disjoint)
    BY <2>1, EnterStep
  <2>2. CASE \E class \in LineClasses : ParseLine(class)
    BY <2>2, ParseStep
  <2>3. CASE Finish
    BY <2>3, FinishStep
  <2>4. CASE UNCHANGED vars
    BY <2>4, StutterInv
  <2> QED BY <2>1, <2>2, <2>3, <2>4 DEF Next
<1> QED BY <1>1, <1>2, PTL DEF Spec

-----------------------------------------------------------------------------
(***************************************************************************)
(* The results, for every capacity, every legacy limit and every file.     *)
(***************************************************************************)

\* vc_psv_parse never stores past a capacity and never writes an index that it
\* has not handed out.
THEOREM LegacyPsvTypeOK == Spec => []TypeOK
<1>1. Inv => TypeOK
  BY DEF Inv
<1> QED BY <1>1, SpecInv, PTL

\* The arrays that vc_psv_parse delivers point at each other consistently, and
\* the operations of a cheat are one run.
THEOREM IndexesClosed == Spec => []CrossIndexesClosed
<1>1. Inv => CrossIndexesClosed
  BY DEF Inv
<1> QED BY <1>1, SpecInv, PTL

\* vc_psv_parse delivers every record of the file when all three arrays have
\* room, and discard_partial_outputs leaves none when one of them has not.
THEOREM DeliversAllOrNothing == Spec => []AllOrNothing
<1>1. Inv => AllOrNothing
  BY DEF Inv
<1> QED BY <1>1, SpecInv, PTL

\* A delivered write is relative exactly when an accepted selector opens its
\* cheat.
THEOREM WritesKeepTheirBase == Spec => []AddressModeMatchesSelector
<1>1. Inv => AddressModeMatchesSelector
  BY DEF Inv
<1> QED BY <1>1, SpecInv, PTL

\* taint_active_cheat and finalize_active_cheat, line by line, give a cheat the
\* translation state that its whole block deserves.
THEOREM TaintIsTranslation == Spec => []TranslationMatchesSource
<1>1. Inv => TranslationMatchesSource
  BY DEF Inv
<1> QED BY <1>1, SpecInv, PTL

\* Every count of vc_psv_report is that of the file, stored or not.
THEOREM ReportIsExact == Spec => []ReportMatchesSource
<1>1. Inv => ReportMatchesSource
  BY DEF Inv
<1> QED BY <1>1, SpecInv, PTL
=============================================================================
