-------------------------- MODULE PauseRefinement ---------------------------
(***************************************************************************)
(* Pause implements PauseLedger, for an adapter under which a title never  *)
(* exits in the middle of a call (AtomicCalls).                            *)
(***************************************************************************)
EXTENDS Pause

\* The record is about the process that is running.
ForLiveTarget == target_generation = live_generation

held == IF ForLiveTarget THEN {thread_ids[i] : i \in owned_mask} ELSE {}

mode ==
  IF ~active THEN "closed"
  ELSE IF ~ForLiveTarget THEN "orphaned"
  ELSE IF pc = "suspending" THEN "taking"
  ELSE IF Releasing THEN "giving"
  ELSE "holding"

Ledger == INSTANCE PauseLedger WITH count <- suspend_count, others <- foreign_count

\* Every step of pause.c, of the title and of other holders, seen through the
\* owned threads, is one step of the ledger or none: over any number of
\* failures and retries a suspension taken by vc_pause_begin is given back
\* exactly once, nothing is taken while giving back, a begun pause ends held
\* or given back, and only a process that is gone is written off.
ImplementsLedger == Ledger!Spec
=============================================================================
