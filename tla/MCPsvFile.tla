----------------------------- MODULE MCPsvFile ------------------------------
(***************************************************************************)
(* The files and the layouts of the instance of PsvFile.                   *)
(***************************************************************************)
EXTENDS PsvFile

Strings(bytes, n) == UNION {[1 .. k -> bytes] : k \in 0 .. n}

Behind(prefix, strings) == {prefix \o s : s \in strings}

Mark   == <<"EF", "BB", "BF">>
Header == <<"_", "V", "0", "LF">>

\* Line ends, spaces and first bytes; marks, whole and broken; headers; codes.
MCTexts ==
  Strings({"CR", "LF", "sp", "#", "x"}, 5)
    \cup Behind(Mark, Strings({"CR", "LF", "_", "EF", "sp"}, 3))
    \cup Strings({"EF", "BB", "BF", "LF"}, 4)
    \cup Behind(<<"_", "V">>, Strings({"0", "1", "sp", "x", "LF"}, 5))
    \cup Behind(Header \o <<"$">>, Strings({"0", "B", "sp"}, 8))
    \cup Behind(Header \o <<"$">>, Strings({"1", "sp", "CR"}, 7))
    \cup Behind(Header \o <<"$", "B", "sp">>, Strings({"0", "1", "sp", "x"}, 6))
    \cup {[i \in 1 .. 14 |-> "x"]}

Base == [source |-> 1, report |-> 15, lines |-> 16, cheats |-> 28, operations |-> 32]

\* Each of the five buffers anywhere, for one short file; else no two touch.
MCArguments(t) ==
  IF t = <<"x", "LF">>
  THEN {[Base EXCEPT ![b] = a] : b \in Buffers, a \in 0 .. AddressMax}
  ELSE {Base}

\* Enough, too few, and more than there are addresses for.
MCCapacities == {<<6, 2, 2>>, <<1, 0, 2>>, <<6, 20, 2>>}
=============================================================================
