------------------------------ MODULE MCPause ------------------------------
(***************************************************************************)
(* Instances of Pause for TLC: well-formed allowlists, and one for each    *)
(* way vc_pause_validate_threads refuses.                                  *)
(***************************************************************************)
EXTENDS Pause

\* 4 is not a thread of the target: its suspend callback always fails.
WellFormedLists == {<<1, 4>>, <<1, 2, 3>>}

\* Empty, out of order, repeated, non-positive, longer than MaxThreads.
MalformedLists == {<<>>, <<2, 1>>, <<1, 1>>, <<0, 1>>, <<1, 2, 3, 4>>}

MCThreadLists == WellFormedLists \cup MalformedLists

\* Two threads of which the second is optional: enough for a partial failure.
MCShortThreadLists == {<<1>>, <<1, 2>>}
=============================================================================
