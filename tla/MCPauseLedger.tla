--------------------------- MODULE MCPauseLedger ----------------------------
(***************************************************************************)
(* The instance of PauseRefinement.                                        *)
(***************************************************************************)
EXTENDS PauseRefinement

\* 4 is not a thread of the target: its suspend callback always fails.
MCLedgerLists == {<<1, 2>>, <<1, 2, 3>>, <<2, 4>>}
=============================================================================
