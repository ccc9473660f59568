------------------------------ MODULE MenuHold ------------------------------
(***************************************************************************)
(* MenuActivation fed with any samples of the Select button, at any        *)
(* timestamps, against a reference that looks at the whole history of      *)
(* samples since the last reset.                                           *)
(***************************************************************************)
EXTENDS MenuActivation, Sequences

CONSTANT MaxSamples  \* bound on the samples fed between two resets

ASSUME MenuHoldAssumption == MaxSamples \in Nat

VARIABLE samples     \* history: the samples since the last reset

vars == <<activation, event, samples>>

Sample == [down : BOOLEAN, now : Timestamps]

-----------------------------------------------------------------------------
Update(select_down, now) ==
  /\ Len(samples) < MaxSamples
  /\ vc_menu_activation_update(select_down, now)
  /\ samples' = Append(samples, [down |-> select_down, now |-> now])

Reset ==
  /\ vc_menu_activation_reset
  /\ event' = "NONE"
  /\ samples' = <<>>

HoldInit == Init /\ samples = <<>>

Next ==
  \/ \E select_down \in BOOLEAN, now \in Timestamps : Update(select_down, now)
  \/ Reset

Spec == HoldInit /\ [][Next]_vars

-----------------------------------------------------------------------------
(***************************************************************************)
(* The reference: when a reading of the samples alone opens the menu.      *)
(***************************************************************************)

\* Select is down in every sample from m to n.
DownThroughout(m, n) == \A k \in m .. n : samples[k].down

\* The clock never runs backwards from sample m to sample n.
ClockRunsForward(m, n) ==
  \A k \in m .. n : k > m => samples[k - 1].now <= samples[k].now

\* The timed interval that sample n belongs to begins with sample m.
IntervalBegins(m, n) ==
  /\ DownThroughout(m, n)
  /\ ClockRunsForward(m, n)
  /\ \/ m = 1
     \/ ~samples[m - 1].down
     \/ samples[m].now < samples[m - 1].now

\* At sample n, Select has been down for HoldMs of monotonic time.
HeldLongEnough(n) ==
  \E m \in 1 .. n : IntervalBegins(m, n) /\ samples[n].now - samples[m].now >= HoldMs

\* The menu opens at sample n: the first one of the press that is held long
\* enough.
Opens(n) ==
  /\ HeldLongEnough(n)
  /\ \A k \in 1 .. n - 1 : HeldLongEnough(k) => ~DownThroughout(k, n)

-----------------------------------------------------------------------------
\* The state record stays in its types.
TypeOK ==
  /\ pressed_since_ms \in Timestamps
  /\ last_timestamp_ms \in Timestamps
  /\ pressed \in BOOLEAN
  /\ latched \in BOOLEAN
  /\ event \in Events
  /\ samples \in Seq(Sample)

\* vc_menu_activation_update reports TRIGGERED exactly at the samples where
\* the history says that the menu opens: never early because a wrapped or
\* rolled-back clock made the difference large, never twice in one press,
\* and never missed.
EventMatchesHistory ==
  event = "TRIGGERED" <=> samples # <<>> /\ Opens(Len(samples))

\* While a hold is being timed its start is not after the last timestamp, so
\* the unsigned subtraction of the next non-rolled-back sample cannot wrap.
HoldDoesNotUnderflow == pressed /\ ~latched => pressed_since_ms <= last_timestamp_ms

\* The inductive invariant: the record summarises the history.
HistoryInv ==
  LET n == Len(samples)
  IN  /\ pressed <=> n > 0 /\ samples[n].down
      /\ n > 0 => last_timestamp_ms = samples[n].now
      /\ pressed /\ ~latched =>
           \E m \in 1 .. n :
             IntervalBegins(m, n) /\ samples[m].now = pressed_since_ms
      /\ latched <=>
           \E k \in 1 .. n : HeldLongEnough(k) /\ DownThroughout(k, n)

HoldInv == TypeOK /\ HistoryInv /\ HoldDoesNotUnderflow
=============================================================================
