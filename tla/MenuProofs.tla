----------------------------- MODULE MenuProofs -----------------------------
(***************************************************************************)
(* Machine-checked proof that the Select-hold state machine agrees with    *)
(* the history of its samples, for every hold time, every clock width and  *)
(* every number of samples.                                                *)
(***************************************************************************)
EXTENDS MenuHold, TLAPS

-----------------------------------------------------------------------------
\* Two intervals that reach the same sample begin at the same sample.
LEMMA IntervalUnique ==
  ASSUME samples \in Seq(Sample), NEW n \in 1 .. Len(samples),
         NEW m1 \in 1 .. n, NEW m2 \in 1 .. n,
         IntervalBegins(m1, n), IntervalBegins(m2, n)
  PROVE  m1 = m2
<1>1. ASSUME NEW a \in 1 .. n, NEW b \in 1 .. n, a < b,
             IntervalBegins(a, n), IntervalBegins(b, n)
      PROVE  FALSE
  <2>1. samples[b - 1].down /\ b # 1
    BY <1>1 DEF IntervalBegins, DownThroughout
  <2>2. samples[b - 1].now <= samples[b].now
    BY <1>1 DEF IntervalBegins, ClockRunsForward
  <2>3. samples[b].now \in Int /\ samples[b - 1].now \in Int
    <3>1. b \in 1 .. Len(samples) /\ b - 1 \in 1 .. Len(samples)
      BY <1>1
    <3>2. samples[b] \in Sample /\ samples[b - 1] \in Sample
      BY <3>1
    <3> QED BY SMTT(30), <3>2, MenuAssumption DEF Sample, Timestamps
  <2> QED BY <1>1, <2>1, <2>2, <2>3 DEF IntervalBegins
<1> QED BY <1>1

\* What appending a sample does to the reference.
LEMMA AppendSample ==
  ASSUME samples \in Seq(Sample), NEW down \in BOOLEAN, NEW now \in Timestamps,
         samples' = Append(samples, [down |-> down, now |-> now]),
         NEW n, n = Len(samples)
  PROVE  /\ samples' \in Seq(Sample) /\ Len(samples') = n + 1 /\ n \in Nat
         /\ samples'[n + 1].down = down /\ samples'[n + 1].now = now
         /\ \A k \in 1 .. n : samples'[k] = samples[k]
<1>1. [down |-> down, now |-> now] \in Sample
  BY DEF Sample
<1> QED BY <1>1

\* Earlier samples keep their reading.
LEMMA EarlierSamplesKept ==
  ASSUME samples \in Seq(Sample), NEW n, n = Len(samples),
         \A k \in 1 .. n : samples'[k] = samples[k],
         NEW k \in 1 .. n
  PROVE  HeldLongEnough(k)' <=> HeldLongEnough(k)
<1>1. n \in Nat
  OBVIOUS
<1>2. ASSUME NEW m \in 1 .. k PROVE IntervalBegins(m, k)' <=> IntervalBegins(m, k)
  <2>1. DownThroughout(m, k)' <=> DownThroughout(m, k)
    BY <1>1 DEF DownThroughout
  <2>2. ClockRunsForward(m, k)' <=> ClockRunsForward(m, k)
    <3>1. \A j \in m .. k : j > m => /\ samples'[j] = samples[j]
                                    /\ samples'[j - 1] = samples[j - 1]
      BY <1>1
    <3> QED BY <3>1 DEF ClockRunsForward
  <2>3. m # 1 => samples'[m - 1] = samples[m - 1]
    BY <1>1
  <2> QED BY <1>1, <2>1, <2>2, <2>3 DEF IntervalBegins
<1> QED BY <1>1, <1>2 DEF HeldLongEnough

\* The intervals that reach the new sample.
LEMMA IntervalsAtNewSample ==
  ASSUME samples \in Seq(Sample), NEW down \in BOOLEAN, NEW now \in Timestamps,
         samples' = Append(samples, [down |-> down, now |-> now]),
         NEW n, n = Len(samples)
  PROVE  /\ \A m \in 1 .. n : DownThroughout(m, n + 1)' <=> DownThroughout(m, n) /\ down
         /\ DownThroughout(n + 1, n + 1)' <=> down
         /\ \A m \in 1 .. n :
              IntervalBegins(m, n + 1)' <=>
                IntervalBegins(m, n) /\ down /\ samples[n].now <= now
         /\ IntervalBegins(n + 1, n + 1)' <=>
              down /\ (n = 0 \/ ~samples[n].down \/ now < samples[n].now)
<1> USE AppendSample
<1>1. \A m \in 1 .. n : DownThroughout(m, n + 1)' <=> DownThroughout(m, n) /\ down
  BY DEF DownThroughout
<1>2. DownThroughout(n + 1, n + 1)' <=> down
  BY DEF DownThroughout
<1>3. \A m \in 1 .. n : ClockRunsForward(m, n + 1)' <=>
                          ClockRunsForward(m, n) /\ samples[n].now <= now
  <2> SUFFICES ASSUME NEW m \in 1 .. n
               PROVE  ClockRunsForward(m, n + 1)' <=>
                        ClockRunsForward(m, n) /\ samples[n].now <= now
    OBVIOUS
  <2>1. \A j \in m .. n : j > m => /\ samples'[j] = samples[j]
                                  /\ samples'[j - 1] = samples[j - 1]
    OBVIOUS
  <2>2. samples'[n] = samples[n] /\ samples'[n + 1].now = now /\ n + 1 > m
    OBVIOUS
  <2>3. ClockRunsForward(m, n + 1)' <=>
          /\ \A j \in m .. n : j > m => samples'[j - 1].now <= samples'[j].now
          /\ samples'[n].now <= samples'[n + 1].now
    <3>1. m .. n + 1 = (m .. n) \cup {n + 1} /\ n + 1 - 1 = n
      OBVIOUS
    <3> HIDE AppendSample
    <3> QED BY <2>2, <3>1 DEF ClockRunsForward
  <2> QED BY <2>1, <2>2, <2>3 DEF ClockRunsForward
<1>4. ClockRunsForward(n + 1, n + 1)'
  BY DEF ClockRunsForward
<1>5. \A m \in 1 .. n : m # 1 => m - 1 \in 1 .. n
  OBVIOUS
<1>6. \A m \in 1 .. n :
        IntervalBegins(m, n + 1)' <=>
          IntervalBegins(m, n) /\ down /\ samples[n].now <= now
  BY <1>1, <1>3, <1>5 DEF IntervalBegins
<1>7. n # 0 => samples'[n] = samples[n]
  OBVIOUS
<1>8. IntervalBegins(n + 1, n + 1)' <=>
        down /\ (n = 0 \/ ~samples[n].down \/ now < samples[n].now)
  BY <1>2, <1>4, <1>7 DEF IntervalBegins
<1> QED BY <1>1, <1>2, <1>6, <1>8

-----------------------------------------------------------------------------
(***************************************************************************)
(* The record summarises the history.                                      *)
(***************************************************************************)

LEMMA UpdateTypes ==
  ASSUME TypeOK, NEW down \in BOOLEAN, NEW now \in Timestamps, Update(down, now)
  PROVE  TypeOK'
<1> USE MenuAssumption DEF TypeOK, Update, vc_menu_activation_update, Released, Held,
                           Events
<1>1. samples' \in Seq(Sample)
  BY AppendSample
<1>2. pressed_since_ms' \in Timestamps /\ last_timestamp_ms' \in Timestamps
  BY DEF HoldSince, Timestamps
<1>3. pressed' \in BOOLEAN
  OBVIOUS
<1>4. latched' \in BOOLEAN
  BY DEF LatchOnPress, HoldReached
<1>5. event' \in Events
  OBVIOUS
<1> QED BY <1>1, <1>2, <1>3, <1>4, <1>5

\* Select is up in the new sample: no interval reaches it.
LEMMA ReleasedStep ==
  ASSUME HoldInv, NEW now \in Timestamps, Update(FALSE, now)
  PROVE  HistoryInv' /\ HoldDoesNotUnderflow' /\ EventMatchesHistory'
<1> DEFINE n == Len(samples)
<1>1. samples \in Seq(Sample)
  BY DEF HoldInv, TypeOK
<1>2. samples' = Append(samples, [down |-> FALSE, now |-> now])
  BY DEF Update
<1>3. /\ Len(samples') = n + 1 /\ n \in Nat
      /\ ~samples'[n + 1].down /\ samples'[n + 1].now = now
  BY <1>1, <1>2, AppendSample
<1>4. /\ pressed' = FALSE /\ latched' = FALSE /\ event' = "NONE"
      /\ last_timestamp_ms' = now
  BY DEF Update, vc_menu_activation_update, Released
<1>5. \A k \in 1 .. n + 1 : ~(\A j \in k .. n + 1 : samples'[j].down)
  BY <1>3
<1>6. HistoryInv'
  BY <1>3, <1>4, <1>5 DEF HistoryInv, DownThroughout
<1>7. ~(\E m \in 1 .. n + 1 :
           /\ \A j \in m .. n + 1 : samples'[j].down
           /\ samples'[n + 1].now - samples'[m].now >= HoldMs)
  BY <1>5
<1>8. ~Opens(Len(samples))'
  BY <1>3, <1>7 DEF Opens, HeldLongEnough, IntervalBegins, DownThroughout
<1> QED BY <1>4, <1>6, <1>8 DEF HoldDoesNotUnderflow, EventMatchesHistory

\* Select is down in the new sample.
LEMMA HeldStep ==
  ASSUME HoldInv, NEW now \in Timestamps, Update(TRUE, now)
  PROVE  HistoryInv' /\ HoldDoesNotUnderflow' /\ EventMatchesHistory'
<1>a. PICK n : n = Len(samples)
  OBVIOUS
<1>1. samples \in Seq(Sample)
  BY DEF HoldInv, TypeOK
<1>2. samples' = Append(samples, [down |-> TRUE, now |-> now])
  BY DEF Update
<1>3. /\ Len(samples') = n + 1 /\ n \in Nat /\ samples' \in Seq(Sample)
      /\ samples'[n + 1].down /\ samples'[n + 1].now = now
      /\ \A k \in 1 .. n : samples'[k] = samples[k]
  BY <1>a, <1>1, <1>2, AppendSample
<1>4. /\ \A m \in 1 .. n : DownThroughout(m, n + 1)' <=> DownThroughout(m, n)
      /\ DownThroughout(n + 1, n + 1)'
      /\ \A m \in 1 .. n : IntervalBegins(m, n + 1)' <=>
                            IntervalBegins(m, n) /\ samples[n].now <= now
      /\ IntervalBegins(n + 1, n + 1)' <=>
           (n = 0 \/ ~samples[n].down \/ now < samples[n].now)
  BY <1>a, <1>1, <1>2, IntervalsAtNewSample
<1>5. \A k \in 1 .. n : HeldLongEnough(k)' <=> HeldLongEnough(k)
  BY <1>a, <1>1, <1>3, EarlierSamplesKept
<1>6. /\ last_timestamp_ms' = now /\ pressed_since_ms' = HoldSince(now)
      /\ event' = IF ~LatchOnPress /\ HoldReached(now, HoldSince(now))
                  THEN "TRIGGERED" ELSE "NONE"
  BY DEF Update, vc_menu_activation_update, Held
<1>6a. pressed'
  BY Zenon DEF Update, vc_menu_activation_update, Held
<1>6b. latched' <=> LatchOnPress \/ HoldReached(now, HoldSince(now))
  BY Zenon DEF Update, vc_menu_activation_update, Held
\* latched is the reference's "this press has opened the menu".
<1>7. pressed <=> n > 0 /\ samples[n].down
  BY <1>a DEF HoldInv, HistoryInv
<1>8. n > 0 => last_timestamp_ms = samples[n].now
  BY <1>a DEF HoldInv, HistoryInv
<1>9. latched <=> \E k \in 1 .. n : HeldLongEnough(k) /\ DownThroughout(k, n)
  BY <1>a DEF HoldInv, HistoryInv
<1>10. latched => pressed
  BY <1>3, <1>7, <1>9 DEF DownThroughout
<1>11. LatchOnPress <=> latched
  BY <1>10 DEF LatchOnPress
<1>12. ~latched =>
         \E m \in 1 .. n + 1 : IntervalBegins(m, n + 1)'
                               /\ samples'[m].now = HoldSince(now)
  <2> SUFFICES ASSUME ~latched
               PROVE  \E m \in 1 .. n + 1 : IntervalBegins(m, n + 1)'
                               /\ samples'[m].now = HoldSince(now)
    OBVIOUS
  <2>1. CASE IntervalRestarts(now)
    BY <1>3, <1>4, <1>7, <1>8, <2>1 DEF IntervalRestarts, HoldSince
  <2>2. CASE ~IntervalRestarts(now)
    <3>1. pressed /\ n > 0 /\ ~(now < samples[n].now)
      BY <1>7, <1>8, <2>2 DEF IntervalRestarts
    <3>2. PICK m \in 1 .. n : IntervalBegins(m, n) /\ samples[m].now = pressed_since_ms
      BY <1>a, <3>1 DEF HoldInv, HistoryInv
    <3>3. samples[n] \in Sample
      BY <1>1, <1>3, <1>a, <3>1
    <3>4. samples[n].now <= now
      BY <3>1, <3>3, MenuAssumption DEF Sample, Timestamps
    <3> QED BY <1>3, <1>4, <2>2, <3>2, <3>4 DEF HoldSince
  <2> QED BY <2>1, <2>2
<1>13. HoldSince(now) \in Timestamps
  BY DEF HoldSince, HoldInv, TypeOK
<1>14. ~latched => HoldSince(now) <= now
  <2>1. now \in Int /\ last_timestamp_ms \in Int /\ pressed_since_ms \in Int
    BY MenuAssumption DEF HoldInv, TypeOK, Timestamps
  <2> QED BY <2>1 DEF HoldSince, IntervalRestarts, HoldInv, HoldDoesNotUnderflow
<1>15. ~latched => (HeldLongEnough(n + 1)' <=> HoldReached(now, HoldSince(now)))
  <2> SUFFICES ASSUME ~latched
               PROVE  HeldLongEnough(n + 1)' <=> HoldReached(now, HoldSince(now))
    OBVIOUS
  <2>1. PICK m \in 1 .. n + 1 : IntervalBegins(m, n + 1)'
                               /\ samples'[m].now = HoldSince(now)
    BY <1>12
  <2>2. \A m2 \in 1 .. n + 1 : IntervalBegins(m2, n + 1)' => m2 = m
    <3>1. \A m2 \in 1 .. n : ~(IntervalBegins(m2, n + 1)' /\ IntervalBegins(n + 1, n + 1)')
      <4>1. \A m2 \in 1 .. n : IntervalBegins(m2, n) => samples[n].down
        BY <1>3 DEF IntervalBegins, DownThroughout
      <4>2. n > 0 => samples[n].now \in Int /\ now \in Int
        <5>1. n > 0 => samples[n] \in Sample
          BY <1>a, <1>1, <1>3
        <5> QED BY <5>1, MenuAssumption DEF Sample, Timestamps
      <4> QED BY <1>3, <1>4, <4>1, <4>2
    <3>2. \A m2 \in 1 .. n : m \in 1 .. n /\ IntervalBegins(m2, n + 1)' => m2 = m
      BY <1>a, <1>1, <1>3, <1>4, <2>1, IntervalUnique
    <3> QED BY <1>3, <2>1, <3>1, <3>2
  <2>3. HeldLongEnough(n + 1)' <=> now - HoldSince(now) >= HoldMs
    BY <1>3, <2>1, <2>2 DEF HeldLongEnough
  <2>4. HoldReached(now, HoldSince(now)) <=> now - HoldSince(now) >= HoldMs
    BY <1>13, <1>14, MenuAssumption DEF HoldReached, WrappingDifference, Timestamps
  <2> QED BY <2>3, <2>4
<1>16. (\E k \in 1 .. n : HeldLongEnough(k)' /\ DownThroughout(k, n + 1)') <=> latched
  BY <1>4, <1>5, <1>9
<1>17. Opens(n + 1)' <=> ~latched /\ HeldLongEnough(n + 1)'
  <2>1. 1 .. n + 1 - 1 = 1 .. n
    BY <1>3
  <2>2. Opens(n + 1)' <=>
          /\ HeldLongEnough(n + 1)'
          /\ \A k \in 1 .. n : HeldLongEnough(k)' => ~DownThroughout(k, n + 1)'
    BY <1>3, <2>1 DEF Opens
  <2> QED BY <1>16, <2>2
<1>18. EventMatchesHistory'
  <2>1. samples' # <<>> /\ Len(samples') = n + 1
    BY <1>3
  <2> QED BY <1>6, <1>11, <1>15, <1>17, <2>1 DEF EventMatchesHistory
<1>19. HoldDoesNotUnderflow'
  BY <1>6, <1>6b, <1>11, <1>14 DEF HoldDoesNotUnderflow
<1>20. latched' <=> \E k \in 1 .. n + 1 : HeldLongEnough(k)' /\ DownThroughout(k, n + 1)'
  <2>1. \A k : k \in 1 .. n + 1 <=> k \in 1 .. n \/ k = n + 1
    BY <1>3
  <2>2. latched' <=> latched \/ (~latched /\ HoldReached(now, HoldSince(now)))
    BY <1>6b, <1>11
  <2> QED BY <1>4, <1>15, <1>16, <2>1, <2>2
<1>21. pressed' /\ ~latched' =>
         \E m \in 1 .. n + 1 :
           IntervalBegins(m, n + 1)' /\ samples'[m].now = pressed_since_ms'
  BY <1>6, <1>6b, <1>11, <1>12
<1>22. HistoryInv'
  BY <1>3, <1>6, <1>6a, <1>20, <1>21 DEF HistoryInv
<1> QED BY <1>18, <1>19, <1>22

LEMMA HoldInvInit == HoldInit => HoldInv /\ EventMatchesHistory
<1> SUFFICES ASSUME HoldInit PROVE HoldInv /\ EventMatchesHistory
  OBVIOUS
<1> USE MenuAssumption DEF HoldInit, Init
<1>1. samples \in Seq(Sample) /\ Len(samples) = 0
  OBVIOUS
<1>2. pressed_since_ms \in Timestamps /\ last_timestamp_ms \in Timestamps
  BY DEF Timestamps
<1>3. pressed \in BOOLEAN /\ latched \in BOOLEAN /\ event \in Events
  BY DEF Events
<1>4. HistoryInv
  BY <1>1 DEF HistoryInv
<1> QED BY <1>1, <1>2, <1>3, <1>4
        DEF HoldInv, TypeOK, HoldDoesNotUnderflow, EventMatchesHistory

LEMMA HoldInvNext ==
  HoldInv /\ EventMatchesHistory /\ [Next]_vars => HoldInv' /\ EventMatchesHistory'
<1> SUFFICES ASSUME HoldInv, EventMatchesHistory, [Next]_vars
             PROVE  HoldInv' /\ EventMatchesHistory'
  OBVIOUS
<1>1. ASSUME NEW down \in BOOLEAN, NEW now \in Timestamps, Update(down, now)
      PROVE  HoldInv' /\ EventMatchesHistory'
  <2>1. TypeOK'
    BY <1>1, UpdateTypes DEF HoldInv
  <2>2. HistoryInv' /\ HoldDoesNotUnderflow' /\ EventMatchesHistory'
    <3>1. CASE down = TRUE
      BY <1>1, <3>1, HeldStep
    <3>2. CASE down = FALSE
      BY <1>1, <3>2, ReleasedStep
    <3> QED BY <1>1, <3>1, <3>2
  <2> QED BY <2>1, <2>2 DEF HoldInv
<1>2. CASE Reset
  <2> USE <1>2, MenuAssumption DEF Reset, vc_menu_activation_reset
  <2>1. samples' \in Seq(Sample) /\ Len(samples') = 0
    OBVIOUS
  <2>2. pressed_since_ms' \in Timestamps /\ last_timestamp_ms' \in Timestamps
    BY DEF Timestamps
  <2>3. pressed' \in BOOLEAN /\ latched' \in BOOLEAN /\ event' \in Events
    BY DEF Events
  <2>4. HistoryInv'
    BY <2>1 DEF HistoryInv
  <2> QED BY <2>1, <2>2, <2>3, <2>4
          DEF HoldInv, TypeOK, HoldDoesNotUnderflow, EventMatchesHistory
<1>3. CASE UNCHANGED vars
  BY <1>3 DEF vars, activation, HoldInv, TypeOK, HistoryInv, HoldDoesNotUnderflow,
              EventMatchesHistory, Opens, HeldLongEnough, IntervalBegins,
              DownThroughout, ClockRunsForward
<1> QED BY <1>1, <1>2, <1>3 DEF Next

-----------------------------------------------------------------------------
\* The record of vc_menu_activation_update stays in its types.
THEOREM MenuTypeCorrect == Spec => []TypeOK
<1>1. HoldInv => TypeOK
  BY DEF HoldInv
<1> QED BY <1>1, HoldInvInit, HoldInvNext, PTL DEF Spec

\* For every hold time, clock width and history of samples, the menu event is
\* reported exactly where the history says that the menu opens.
THEOREM MenuOpensExactlyOnHold == Spec => []EventMatchesHistory
BY HoldInvInit, HoldInvNext, PTL DEF Spec

\* The unsigned subtraction that times a hold never wraps.
THEOREM HoldNeverUnderflows == Spec => []HoldDoesNotUnderflow
<1>1. HoldInv => HoldDoesNotUnderflow
  BY DEF HoldInv
<1> QED BY <1>1, HoldInvInit, HoldInvNext, PTL DEF Spec

\* The four fields of the record are a summary of the whole history of samples
\* since the last reset: nothing else about it can matter to the next update.
THEOREM RecordSummarisesHistory == Spec => []HistoryInv
<1>1. HoldInv => HistoryInv
  BY DEF HoldInv
<1> QED BY <1>1, HoldInvInit, HoldInvNext, PTL DEF Spec
=============================================================================
