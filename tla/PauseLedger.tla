---------------------------- MODULE PauseLedger -----------------------------
(***************************************************************************)
(* What pause.h promises, without allowlists, indexes, clocks or statuses: *)
(* a pause borrows one suspension of each of some threads and gives every  *)
(* one back exactly once, and what another holder has is never touched.    *)
(***************************************************************************)
EXTENDS Naturals

CONSTANT Threads

VARIABLES
  mode,    \* what is being done with the loan
  held,    \* the threads of which a suspension is borrowed
  count,   \* the suspensions of each thread, as the kernel counts them
  others   \* those of other holders

ledger == <<mode, held, count, others>>

Modes == {"closed", "taking", "holding", "giving", "orphaned"}

Init ==
  /\ mode = "closed"
  /\ held = {}
  /\ count = [t \in Threads |-> 0]
  /\ others = [t \in Threads |-> 0]

Becomes(from, to) == mode = from /\ mode' = to /\ UNCHANGED <<held, count, others>>

Open      == Becomes("closed", "taking")
Settle    == held # {} /\ Becomes("taking", "holding")
GiveUp    == Becomes("taking", "giving")
Return    == Becomes("holding", "giving")
Close     == held = {} /\ Becomes("giving", "closed")
Keep      == held # {} /\ Becomes("giving", "holding")
Abandon   == Becomes("orphaned", "closed")

Take(t) ==
  /\ mode = "taking" /\ t \notin held
  /\ held' = held \cup {t}
  /\ count' = [count EXCEPT ![t] = @ + 1]
  /\ UNCHANGED <<mode, others>>

GiveBack(t) ==
  /\ mode = "giving" /\ t \in held
  /\ held' = held \ {t}
  /\ count' = [count EXCEPT ![t] = @ - 1]
  /\ UNCHANGED <<mode, others>>

\* The process dies, and every suspension of its threads with it.
ProcessGone ==
  /\ mode \in {"closed", "holding", "orphaned"}
  /\ mode' = IF mode = "closed" THEN "closed" ELSE "orphaned"
  /\ held' = {}
  /\ count' = [t \in Threads |-> 0]
  /\ others' = [t \in Threads |-> 0]

OtherTakes(t) ==
  /\ count' = [count EXCEPT ![t] = @ + 1]
  /\ others' = [others EXCEPT ![t] = @ + 1]
  /\ UNCHANGED <<mode, held>>

OtherGivesBack(t) ==
  /\ others[t] > 0
  /\ count' = [count EXCEPT ![t] = @ - 1]
  /\ others' = [others EXCEPT ![t] = @ - 1]
  /\ UNCHANGED <<mode, held>>

Next ==
  \/ Open \/ Settle \/ GiveUp \/ Return \/ Close \/ Keep \/ Abandon
  \/ ProcessGone
  \/ \E t \in Threads : Take(t) \/ GiveBack(t) \/ OtherTakes(t) \/ OtherGivesBack(t)

Spec == Init /\ [][Next]_ledger
=============================================================================
