------------------------------ MODULE PsvFile -------------------------------
(***************************************************************************)
(* vc_psv_parse (src/legacy_psv.c) from its arguments and its bytes: the   *)
(* checks on the caller's buffers, the splitting of the source into lines  *)
(* and the reading of one line, composed with LegacyPsv, which does with   *)
(* the class of each line what the rest of the loop does.                  *)
(*                                                                         *)
(* A byte is named by its part in the syntax; "x" stands for every other   *)
(* one, "sp" for a space or a tab.  Offsets count from 0, as in the code.  *)
(***************************************************************************)
EXTENDS LegacyPsv, Ranges, FiniteSetsExt

CONSTANTS
  Texts,               \* the sources
  Arguments(_),        \* the addresses at which a caller passes a source and its buffers
  RecordBytes,         \* the size of a record of the three arrays
  MaxSourceBytes,      \* VC_PSV_MAX_SOURCE_BYTES
  MaxDescription,      \* VC_PSV_LEGACY_MAX_DESCRIPTION_BYTES
  CodeDigits,          \* the digits of a code (4)
  WordDigits,          \* the digits of an address and of a value (8)
  WriteCodes,          \* the codes of the three direct writes
  SelectorCode,        \* 0xb200
  MaxSerial            \* the greatest module serial of a selector (0xff)

\* The five objects of a caller.
Buffers == {"source", "lines", "cheats", "operations", "report"}

\* Sizes and addresses have their types, and fields their digits.
ASSUME PsvFileAssumption ==
  /\ RecordBytes \in Nat /\ MaxSourceBytes \in Nat
  /\ CodeDigits \in Nat \ {0} /\ WordDigits \in Nat \ {0}
  /\ SelectorCode \notin WriteCodes
  /\ \A t \in Texts :
       /\ t \in Seq(STRING) /\ Len(t) <= AddressMax
       /\ Arguments(t) \subseteq [Buffers -> 0 .. AddressMax]

VARIABLES
  text, arguments, position,
  spans,    \* the raw and content spans of the lines stored, <<begin, end>>
  headers   \* the activation and the description of the cheats stored

fileVars == <<vars, text, arguments, position, spans, headers>>

at(offset) == text[offset + 1]

-----------------------------------------------------------------------------
(***************************************************************************)
(* The arguments.                                                          *)
(***************************************************************************)

region ==
  [source     |-> <<arguments.source, Len(text)>>,
   lines      |-> <<arguments.lines, Product(line_capacity, RecordBytes)>>,
   cheats     |-> <<arguments.cheats, Product(cheat_capacity, RecordBytes)>>,
   operations |-> <<arguments.operations, Product(operation_capacity, RecordBytes)>>,
   report     |-> <<arguments.report, 1>>]

PointersPresent ==
  /\ arguments.report # 0
  /\ arguments.source = 0 => text = <<>>
  /\ arguments.lines = 0 => line_capacity = 0
  /\ arguments.cheats = 0 => cheat_capacity = 0
  /\ arguments.operations = 0 => operation_capacity = 0

ArraysFit == \A i \in 1 .. 3 : ProductFits(capacity[i], RecordBytes)

EntryPairs_InputsOnly == {<<"source", b>> : b \in Buffers \ {"source"}}

\* Every two of the five.
EntryPairs == {p \in Buffers \X Buffers : p[1] # p[2]}

Open ==
  /\ Enter(PointersPresent, Len(text) <= MaxSourceBytes,
           ArraysFit /\ ~AnyOverlap(region, EntryPairs))
  /\ UNCHANGED <<text, arguments, position, spans, headers>>

-----------------------------------------------------------------------------
(***************************************************************************)
(* Lines.                                                                  *)
(***************************************************************************)

\* Where the content of the line that begins at an offset ends.
ContentEnd(begin) ==
  CHOOSE q \in begin .. Len(text) :
    /\ q = Len(text) \/ at(q) \in {"CR", "LF"}
    /\ \A i \in begin .. q - 1 : at(i) \notin {"CR", "LF"}

RawEnd_EachByte(end) == IF end = Len(text) THEN end ELSE end + 1

\* CR LF is one line ending.
RawEnd(end) ==
  IF end = Len(text) THEN end
  ELSE IF at(end) = "CR" /\ end + 1 < Len(text) /\ at(end + 1) = "LF" THEN end + 2
  ELSE end + 1

\* The byte order mark is not content.
ContentBegin(begin, end) ==
  IF /\ total_lines = 0 /\ end - begin >= 3
     /\ at(begin) = "EF" /\ at(begin + 1) = "BB" /\ at(begin + 2) = "BF"
  THEN begin + 3
  ELSE begin

\* Both ends of trim_span.
SkipSpaces(begin, end) ==
  CHOOSE q \in begin .. end :
    (q = end \/ at(q) # "sp") /\ \A i \in begin .. q - 1 : at(i) = "sp"

DropSpaces(begin, end) ==
  CHOOSE q \in begin .. end :
    (q = begin \/ at(q - 1) # "sp") /\ \A i \in q .. end - 1 : at(i) = "sp"

-----------------------------------------------------------------------------
(***************************************************************************)
(* One line, trimmed.                                                      *)
(***************************************************************************)

\* Hexadecimal digits, of which three are enough.
hex_value(byte) ==
  CASE byte = "0" -> 0 [] byte = "1" -> 1 [] byte = "B" -> 11 [] OTHER -> -1

IsHex(begin, digits) == \A i \in begin .. begin + digits - 1 : hex_value(at(i)) >= 0

parse_hex_exact(begin, digits) ==
  LET parsed[n \in 0 .. digits] ==
        IF n = 0 THEN 0 ELSE parsed[n - 1] * 16 + hex_value(at(begin + n - 1))
  IN  parsed[digits]

\* A field of digits with nothing, or a space, behind it.
Separated(begin, end) == begin # end /\ at(begin) = "sp"

parse_code_Unseparated(begin, end) ==
  LET address == SkipSpaces(begin + 1 + CodeDigits, end)
      value   == SkipSpaces(address + WordDigits, end)
  IN  IF /\ end - begin >= 1 + CodeDigits + 1 + WordDigits + 1 + WordDigits
         /\ IsHex(begin + 1, CodeDigits)
         /\ end - address >= WordDigits /\ IsHex(address, WordDigits)
         /\ end - value = WordDigits /\ IsHex(value, WordDigits)
      THEN [ok      |-> TRUE,
            code    |-> parse_hex_exact(begin + 1, CodeDigits),
            address |-> parse_hex_exact(address, WordDigits),
            value   |-> parse_hex_exact(value, WordDigits)]
      ELSE [ok |-> FALSE]

parse_code(begin, end) ==
  LET code    == begin + 1
      address == SkipSpaces(code + CodeDigits, end)
      value   == SkipSpaces(address + WordDigits, end)
  IN  IF /\ end - begin >= 1 + CodeDigits + 1 + WordDigits + 1 + WordDigits
         /\ IsHex(code, CodeDigits) /\ Separated(code + CodeDigits, end)
         /\ end - address >= WordDigits
         /\ IsHex(address, WordDigits) /\ Separated(address + WordDigits, end)
         /\ end - value >= WordDigits
         /\ IsHex(value, WordDigits)
         /\ SkipSpaces(value + WordDigits, end) = end
      THEN [ok      |-> TRUE,
            code    |-> parse_hex_exact(code, CodeDigits),
            address |-> parse_hex_exact(address, WordDigits),
            value   |-> parse_hex_exact(value, WordDigits)]
      ELSE [ok |-> FALSE]

CodeClass(begin, end) ==
  LET parsed == parse_code(begin, end)
  IN  IF ~parsed.ok THEN "bad_code"
      ELSE IF parsed.code \in WriteCodes THEN "write"
      ELSE IF parsed.code # SelectorCode THEN "opaque_code"
      ELSE IF parsed.address <= MaxSerial /\ parsed.value <= 1 THEN "selector"
      ELSE "bad_selector"

StartsHeader(begin, end) ==
  end - begin >= 3 /\ at(begin) = "_" /\ at(begin + 1) = "V"

Description_Untrimmed(begin, end) == <<begin + 3, end>>

Description(begin, end) == <<SkipSpaces(begin + 3, end), end>>

HeaderClass(begin, end) ==
  LET description == Description(begin, end)
  IN  IF \/ at(begin + 2) \notin {"0", "1"}
         \/ begin + 3 < end /\ at(begin + 3) # "sp"
      THEN "bad_header"
      ELSE IF end - description[1] > MaxDescription THEN "long_header"
      ELSE "header"

LineClass(begin, end) ==
  IF begin = end THEN "blank"
  ELSE IF at(begin) = "#" THEN "comment"
  ELSE IF StartsHeader(begin, end) THEN HeaderClass(begin, end)
  ELSE IF at(begin) = "$" THEN CodeClass(begin, end)
  ELSE "opaque"

-----------------------------------------------------------------------------
\* One turn of the loop: split, trim and store, and what LegacyPsv does.
ReadLine ==
  \E end     \in {ContentEnd(position)} :
  \E content \in {ContentBegin(position, end)} :
  \E begin   \in {SkipSpaces(content, end)} :
  \E trimmed \in {DropSpaces(begin, end)} :
  \E class   \in {LineClass(begin, trimmed)} :
    /\ position < Len(text)
    /\ ParseLine(class)
    /\ position' = RawEnd(end)
    /\ spans' = IF total_lines < line_capacity
                THEN Append(spans, [raw |-> <<position, RawEnd(end)>>,
                                    content |-> <<content, end>>])
                ELSE spans
    /\ headers' = IF class \in Headers /\ total_cheats < cheat_capacity
                  THEN Append(headers, [activation  |-> at(begin + 2),
                                        description |-> Description(begin, trimmed)])
                  ELSE headers
    /\ UNCHANGED <<text, arguments>>

EndOfSource ==
  /\ position = Len(text)
  /\ Finish
  /\ spans' = IF Truncated THEN <<>> ELSE spans
  /\ headers' = IF Truncated THEN <<>> ELSE headers
  /\ UNCHANGED <<text, arguments, position>>

FileInit ==
  /\ Init
  /\ text \in Texts
  /\ arguments \in Arguments(text)
  /\ position = 0
  /\ spans = <<>>
  /\ headers = <<>>

FileNext == Open \/ ReadLine \/ EndOfSource

FileSpec == FileInit /\ [][FileNext]_fileVars

-----------------------------------------------------------------------------
(***************************************************************************)
(* The reference.                                                          *)
(***************************************************************************)

\* The bytes from one offset up to another.
Slice(begin, end) == SubSeq(text, begin + 1, end)

Endings == {<<"CR">>, <<"LF">>, <<"CR", "LF">>}

\* A sequence of bytes without the spaces around it.
Stripped(s) ==
  LET solid == {i \in 1 .. Len(s) : s[i] # "sp"}
  IN  IF solid = {} THEN <<>> ELSE SubSeq(s, Min(solid), Max(solid))

Digits(s) == \A i \in 1 .. Len(s) : s[i] \in {"0", "1", "B"}

Weight[n \in Nat] == IF n = 0 THEN 1 ELSE 16 * Weight[n - 1]

\* Digits by their weights, the last one first.
Number(s) ==
  LET last[n \in 0 .. Len(s)] ==
        IF n = 0 THEN 0
        ELSE last[n - 1] + hex_value(s[Len(s) + 1 - n]) * Weight[n - 1]
  IN  last[Len(s)]

\* The parts of a line of codes: the "$" and the code, what is between them
\* and the value, and the value.
CodeOf(s)  == SubSeq(s, 2, CodeDigits + 1)
Between(s) == SubSeq(s, CodeDigits + 2, Len(s) - WordDigits)
ValueOf(s) == SubSeq(s, Len(s) - WordDigits + 1, Len(s))
AddressOf(s) == Stripped(Between(s))

WellFormed(s) ==
  /\ Len(s) > CodeDigits + WordDigits
  /\ Len(AddressOf(s)) = WordDigits
  /\ Between(s)[1] = "sp" /\ Between(s)[Len(Between(s))] = "sp"
  /\ \A field \in {CodeOf(s), AddressOf(s), ValueOf(s)} : Digits(field)

CodeMeaning(s) ==
  CASE ~WellFormed(s) -> "bad_code"
    [] WellFormed(s) /\ Number(CodeOf(s)) \in WriteCodes -> "write"
    [] WellFormed(s) /\ Number(CodeOf(s)) = SelectorCode ->
         IF Number(AddressOf(s)) <= MaxSerial /\ Number(ValueOf(s)) \in {0, 1}
         THEN "selector" ELSE "bad_selector"
    [] OTHER -> "opaque_code"

HeaderMeaning(s) ==
  IF s[3] \in {"0", "1"} /\ (Len(s) = 3 \/ s[4] = "sp")
  THEN IF Len(Stripped(SubSeq(s, 4, Len(s)))) > MaxDescription THEN "long_header" ELSE "header"
  ELSE "bad_header"

\* What a line means, by its content without the spaces around it.
Meaning(s) ==
  CASE s = <<>> -> "blank"
    [] s # <<>> /\ s[1] = "#" -> "comment"
    [] s # <<>> /\ s[1] = "$" -> CodeMeaning(s)
    [] Len(s) >= 3 /\ SubSeq(s, 1, 2) = <<"_", "V">> -> HeaderMeaning(s)
    [] OTHER -> "opaque"

-----------------------------------------------------------------------------
(***************************************************************************)
(* Properties.                                                             *)
(***************************************************************************)

\* "Raw spans are contiguous and reconstruct the input byte-for-byte,
\* including mixed CR/LF endings and a UTF-8 BOM" (legacy_psv.h): at every
\* turn of the loop, and a line is its content, at most one mark before it on
\* the first line and one ending behind it, which only the last line lacks.
SpansReconstructSource ==
  Len(spans) = total_lines =>
    /\ position = IF spans = <<>> THEN 0 ELSE spans[Len(spans)].raw[2]
    /\ \A l \in 1 .. Len(spans) :
         LET raw == spans[l].raw
             content == spans[l].content
             ending == Slice(content[2], raw[2])
         IN  /\ raw[1] = IF l = 1 THEN 0 ELSE spans[l - 1].raw[2]
             /\ raw[1] < raw[2]
             /\ Slice(raw[1], content[1]) \in {<<>>} \cup
                  IF l = 1 THEN {<<"EF", "BB", "BF">>} ELSE {}
             /\ \A i \in content[1] .. content[2] - 1 : at(i) \notin {"CR", "LF"}
             /\ ending \in Endings \/ (ending = <<>> /\ raw[2] = Len(text))
             /\ ending = <<"CR">> /\ raw[2] < Len(text) => at(raw[2]) # "LF"

\* Each line is taken for what its content without surrounding spaces means,
\* whatever it is followed by: no field is read across the end of a line.
LinesReadAsWritten ==
  \A l \in 1 .. Len(spans) :
    source[l] = Meaning(Stripped(Slice(spans[l].content[1], spans[l].content[2])))

\* The description of a cheat is the rest of its header line, without the
\* spaces around it, and the flag is the digit behind "_V".
DescriptionsExact ==
  status = "OK" =>
    \A c \in 1 .. Len(cheats) :
      LET content == spans[cheats[c].header_line_index].content
          s == Stripped(Slice(content[1], content[2]))
          d == headers[c].description
      IN  /\ headers[c].activation = s[3]
          /\ Slice(d[1], d[2]) = Stripped(SubSeq(s, 4, Len(s)))

\* "Source, output arrays, and report must not overlap": the call is refused
\* for every two buffers that do, and no other call is, unless a buffer ends
\* at the top of the address space.
RefusedExactlyWhenOverlapping ==
  LET legal ==
        /\ PointersPresent
        /\ \A i \in 1 .. 3 : capacity[i] * RecordBytes <= AddressMax
        /\ \A p, q \in Buffers : p # q => Cells(region[p]) \cap Cells(region[q]) = {}
  IN  pc # "entry" =>
        CASE status = "SOURCE_TOO_LARGE" -> Len(text) > MaxSourceBytes
          [] status = "INVALID_ARGUMENT" -> ~legal \/ \E b \in Buffers : ~BelowTop(region[b])
          [] OTHER -> legal /\ Len(text) <= MaxSourceBytes
=============================================================================
