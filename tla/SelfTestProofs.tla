--------------------------- MODULE SelfTestProofs ---------------------------
(***************************************************************************)
(* Machine-checked proofs about SelfTest, for every hold time, display     *)
(* granularity and clock width.                                            *)
(***************************************************************************)
EXTENDS SelfTest, TLAPS

-----------------------------------------------------------------------------
(***************************************************************************)
(* The inductive invariant.                                                *)
(***************************************************************************)

\* Everything the record has seen lies in the past.
ClockInv ==
  /\ clock \in Timestamps
  /\ last_timestamp_ms <= clock
  /\ pressed_since_ms <= clock

\* The latch is set exactly while the press that opened the menu lasts, and
\* a press that has had its effect is still down.
ConsumedInv ==
  /\ latched => pressed
  /\ latched <=> "SELECT" \in consumed
  /\ consumed \subseteq previous_buttons

\* A hold that is being timed is an uninterrupted one on the home screen,
\* timed from its first frame and still too short; a run of home frames with
\* Select down is of a press that is known.
HoldInv ==
  /\ pressed /\ ~latched =>
       /\ screen = "HOME"
       /\ hold_start = pressed_since_ms
       /\ clock - pressed_since_ms < HoldMs
  /\ hold_start # NoTime => pressed

Inv == TypeOK /\ ClockInv /\ ConsumedInv /\ HoldInv /\ DisplayIsCurrent

-----------------------------------------------------------------------------
\* Arithmetic of durations.
LEMMA SelfDifference == ASSUME NEW a \in Nat, NEW b, b = a PROVE a - b = 0
OBVIOUS

LEMMA NatDifference ==
  ASSUME NEW a \in Nat, NEW b \in Nat, a >= b
  PROVE  a - b \in Nat
OBVIOUS

\* A longer hold is not in an earlier step of the progress bar.
LEMMA DivMonotone ==
  ASSUME NEW a \in Nat, NEW b \in Nat, NEW d \in Nat \ {0}, a <= b
  PROVE  a \div d \in 0 .. b \div d
<1>1. a \div d \in Nat /\ b \div d \in Nat /\ a % d \in 0 .. d - 1 /\ b % d \in 0 .. d - 1
  OBVIOUS
<1>2. a = d * (a \div d) + (a % d) /\ b = d * (b \div d) + (b % d)
  OBVIOUS
<1>3. PICK q \in Nat, r \in Nat, m \in 0 .. d - 1, n \in 0 .. d - 1 :
        q = a \div d /\ r = b \div d /\ a = d * q + m /\ b = d * r + n
  BY <1>1, <1>2
<1>4. ASSUME q > r PROVE FALSE
  <2>1. PICK e \in Nat : q = r + 1 + e
    <3>1. q - r - 1 \in Nat /\ q = r + 1 + (q - r - 1)
      BY <1>3, <1>4
    <3> QED BY <3>1
  <2>2. d * q = d * r + d + d * e
    BY <2>1
  <2>3. d * e \in Nat /\ d * r \in Nat
    BY <1>3
  <2> QED BY <1>3, <2>2, <2>3
<1> QED BY <1>1, <1>3, <1>4

LEMMA InitInv == AppInit => Inv
<1> SUFFICES ASSUME AppInit PROVE Inv
  OBVIOUS
<1>1. TypeOK
  <2>1. /\ screen \in Screens
        /\ previous_buttons \subseteq Buttons
        /\ last_draw_bucket \in {NoBucket} \cup 0 .. HoldMs \div BucketMs
        /\ hold_start \in {NoTime} \cup Timestamps
    BY DEF AppInit, Screens
  <2>2. pressed_since_ms \in Timestamps /\ last_timestamp_ms \in Timestamps
    BY MenuAssumption DEF AppInit, Init, Timestamps
  <2>3. exit_requested \in BOOLEAN /\ pressed \in BOOLEAN /\ latched \in BOOLEAN
    BY DEF AppInit, Init
  <2> QED BY <2>1, <2>2, <2>3 DEF TypeOK
<1>2. ClockInv
  BY MenuAssumption DEF AppInit, Init, ClockInv, Timestamps
<1>3. ConsumedInv
  BY DEF AppInit, Init, ConsumedInv
<1>4. HoldInv
  BY DEF AppInit, Init, HoldInv
<1>5. DisplayIsCurrent
  BY DEF AppInit, DisplayIsCurrent
<1> QED BY <1>1, <1>2, <1>3, <1>4, <1>5 DEF Inv

-----------------------------------------------------------------------------
(***************************************************************************)
(* One update of the hold record, at a time that is not before the last.   *)
(***************************************************************************)

\* One lemma for each kind of turn, from here to NextStep.
LEMMA ReleaseStep ==
  ASSUME Inv, clock' \in clock .. TimeMax, Released(clock')
  PROVE  /\ pressed_since_ms' = 0 /\ last_timestamp_ms' = clock'
         /\ pressed' = FALSE /\ latched' = FALSE /\ event' = "NONE"
BY DEF Released

\* A sample with Select down opens the menu only at the end of a hold that
\* was being timed, and leaves a hold that is too short.
LEMMA HeldStep ==
  ASSUME Inv, clock' \in clock .. TimeMax, Held(clock')
  PROVE  /\ pressed' = TRUE /\ last_timestamp_ms' = clock'
         /\ pressed_since_ms' = IF pressed THEN pressed_since_ms ELSE clock'
         /\ latched' \in BOOLEAN
         /\ latched' <=> latched \/ event' = "TRIGGERED"
         /\ event' \in {"NONE", "TRIGGERED"}
         /\ event' = "TRIGGERED" =>
              pressed /\ ~latched /\ clock' - pressed_since_ms >= HoldMs
         /\ ~latched' => clock' - pressed_since_ms' < HoldMs
<1>2. pressed' = TRUE /\ last_timestamp_ms' = clock' /\ pressed_since_ms' = HoldSince(clock')
  BY DEF Held
<1>3. /\ clock \in Nat /\ clock' \in Nat /\ clock <= clock' /\ HoldMs \in Nat /\ HoldMs > 0
      /\ pressed_since_ms \in Nat /\ pressed_since_ms <= clock
      /\ last_timestamp_ms \in Nat /\ last_timestamp_ms <= clock
  BY MenuAssumption DEF Inv, TypeOK, ClockInv, Timestamps
<1>4. pressed \in BOOLEAN /\ latched \in BOOLEAN /\ (latched => pressed)
  BY DEF Inv, TypeOK, ConsumedInv
<1>5. ~(clock' < last_timestamp_ms)
  BY <1>3
<1>6. HoldSince(clock') = IF pressed THEN pressed_since_ms ELSE clock'
  BY <1>4, <1>5 DEF HoldSince, IntervalRestarts
<1>7. PICK since \in Nat : /\ since = HoldSince(clock') /\ since <= clock'
  <2>1. CASE pressed
    BY <1>3, <1>6, <2>1
  <2>2. CASE ~pressed
    BY <1>3, <1>6, <2>2
  <2> QED BY <1>4, <2>1, <2>2
<1>8. HoldReached(clock', since) <=> clock' - since >= HoldMs
  BY <1>3, <1>7 DEF HoldReached, WrappingDifference
<1>9. /\ latched' = (LatchOnPress \/ (~LatchOnPress /\ HoldReached(clock', since)))
      /\ event' = IF ~LatchOnPress /\ HoldReached(clock', since) THEN "TRIGGERED" ELSE "NONE"
  BY <1>7 DEF Held
<1>10. LatchOnPress = latched
  BY <1>4 DEF LatchOnPress
<1>11. /\ latched' \in BOOLEAN
       /\ latched' <=> latched \/ event' = "TRIGGERED"
       /\ event' \in {"NONE", "TRIGGERED"}
  BY <1>4, <1>9, <1>10
<1>12. ASSUME event' = "TRIGGERED"
       PROVE  pressed /\ ~latched /\ clock' - pressed_since_ms >= HoldMs
  <2>1. ~latched
    BY <1>9, <1>10, <1>12
  <2>2. clock' - since >= HoldMs
    BY <1>8, <1>9, <1>12
  <2>3. ASSUME ~pressed PROVE FALSE
    <3>1. since = clock'
      BY <1>6, <1>7, <2>3
    <3>2. clock' - since = 0
      BY ONLY <1>3, <3>1, SelfDifference
    <3>3. 0 >= HoldMs
      BY ONLY <2>2, <3>2
    <3> QED BY <1>3, <3>3
  <2> QED BY <1>4, <1>6, <1>7, <2>1, <2>2, <2>3
<1>13. ASSUME ~latched' PROVE clock' - pressed_since_ms' < HoldMs
  <2>1. ~HoldReached(clock', since)
    BY <1>9, <1>13
  <2> QED BY <1>2, <1>3, <1>7, <1>8, <2>1
<1> QED BY <1>2, <1>6, <1>11, <1>12, <1>13

\* The clock bounds follow from what either kind of update leaves.
LEMMA ClockStep ==
  ASSUME Inv, clock' \in clock .. TimeMax,
         last_timestamp_ms' \in {0, last_timestamp_ms, clock'},
         pressed_since_ms' \in {0, pressed_since_ms, clock'}
  PROVE  /\ ClockInv'
         /\ pressed_since_ms' \in Timestamps /\ last_timestamp_ms' \in Timestamps
<1>1. /\ TimeMax \in Nat /\ clock \in 0 .. TimeMax
      /\ pressed_since_ms \in 0 .. TimeMax /\ last_timestamp_ms \in 0 .. TimeMax
      /\ last_timestamp_ms <= clock /\ pressed_since_ms <= clock
  BY MenuAssumption DEF Inv, TypeOK, ClockInv, Timestamps
<1> QED BY <1>1 DEF ClockInv, Timestamps

\* The progress that the home screen shows.
LEMMA HeldBucketType ==
  ASSUME Inv, clock' \in clock .. TimeMax, pressed_since_ms' \in Timestamps
  PROVE  HeldBucket(clock') \in 0 .. HoldMs \div BucketMs
<1>1. HoldMs \in Nat /\ clock' \in Nat /\ pressed_since_ms' \in Nat
  BY MenuAssumption DEF Inv, ClockInv, Timestamps
<1>2. PICK held \in Nat :
        held = IF pressed' /\ clock' >= pressed_since_ms' THEN clock' - pressed_since_ms' ELSE 0
  <2>1. CASE pressed' /\ clock' >= pressed_since_ms'
    <3>0. clock' >= pressed_since_ms'
      BY <2>1
    <3>1. clock' - pressed_since_ms' \in Nat
      BY ONLY <1>1, <3>0, NatDifference
    <3> QED BY <2>1, <3>1
  <2>2. CASE ~(pressed' /\ clock' >= pressed_since_ms')
    BY <2>2
  <2> QED BY <2>1, <2>2
<1>3. PICK shown \in Nat : shown = (IF held > HoldMs THEN HoldMs ELSE held) /\ shown <= HoldMs
  <2>1. CASE held > HoldMs
    BY <1>1, <2>1
  <2>2. CASE ~(held > HoldMs)
    BY <1>1, <2>2
  <2> QED BY <2>1, <2>2
<1>4. HeldBucket(clock') = shown \div BucketMs
  BY <1>2, <1>3 DEF HeldBucket
<1> QED BY <1>1, <1>3, <1>4, DivMonotone, SelfTestAssumption

-----------------------------------------------------------------------------
(***************************************************************************)
(* Every step preserves the invariant and respects the action properties.  *)
(***************************************************************************)

OneEffectStep == acted' # "NONE" => acted' \notin consumed

HomeHoldStep == acted' = "SELECT" => hold_start # NoTime /\ clock' - hold_start >= HoldMs

\* What Act records of a button that is down.
LEMMA ActFacts ==
  ASSUME NEW buttons \in SUBSET Buttons, NEW button, Act(button, buttons),
         button \in buttons \cup {"NONE"}
  PROVE  /\ acted' = button
         /\ consumed' \subseteq buttons
         /\ "SELECT" \in consumed' <=>
              ("SELECT" \in consumed /\ "SELECT" \in buttons) \/ button = "SELECT"
BY DEF Act, Buttons

\* A button acted on by its edge has not been acted on in this press.
LEMMA EdgeIsFresh ==
  ASSUME Inv, NEW buttons, NEW button \in buttons \ previous_buttons
  PROVE  button \in buttons /\ button \notin consumed
BY DEF Inv, ConsumedInv

LEMMA MissedInputStep ==
  ASSUME Inv, clock' \in clock .. TimeMax, MissedInput
  PROVE  Inv' /\ OneEffectStep /\ HomeHoldStep
<1>1. /\ previous_buttons' = previous_buttons /\ screen' = screen
      /\ exit_requested' = exit_requested /\ consumed' = consumed
      /\ acted' = "NONE" /\ hold_start' = NoTime
  BY DEF MissedInput, EdgesAfterMiss
<1>2. OneEffectStep /\ HomeHoldStep
  BY <1>1 DEF OneEffectStep, HomeHoldStep
<1>3. CASE HoldInterrupted
  <2>1. /\ pressed_since_ms' = 0 /\ last_timestamp_ms' = 0
        /\ pressed' = FALSE /\ latched' = FALSE
        /\ last_draw_bucket' = NoBucket /\ display' = <<"HOME", 0>>
    BY <1>3 DEF MissedInput, vc_menu_activation_reset, draw_home
  <2>2. screen = "HOME" /\ ~latched
    BY <1>3 DEF HoldInterrupted
  <2>3. /\ ClockInv'
        /\ pressed_since_ms' \in Timestamps /\ last_timestamp_ms' \in Timestamps
    BY <2>1, ClockStep
  <2>4. TypeOK'
    <3>1. /\ screen' \in Screens /\ previous_buttons' \subseteq Buttons
          /\ exit_requested' \in BOOLEAN /\ pressed' \in BOOLEAN /\ latched' \in BOOLEAN
      BY <1>1, <2>1 DEF Inv, TypeOK
    <3> QED BY <1>1, <2>1, <2>3, <3>1 DEF TypeOK
  <2>5. ConsumedInv'
    BY <1>1, <2>1, <2>2 DEF Inv, ConsumedInv
  <2>6. HoldInv'
    BY <1>1, <2>1 DEF HoldInv
  <2>7. DisplayIsCurrent'
    BY <1>1, <2>1, <2>2 DEF DisplayIsCurrent
  <2> QED BY <1>2, <2>3, <2>4, <2>5, <2>6, <2>7 DEF Inv
<1>4. CASE ~HoldInterrupted
  <2>1. /\ pressed_since_ms' = pressed_since_ms /\ last_timestamp_ms' = last_timestamp_ms
        /\ pressed' = pressed /\ latched' = latched
        /\ last_draw_bucket' = last_draw_bucket /\ display' = display
    BY <1>4 DEF MissedInput, activation
  <2>2. ~(pressed /\ ~latched)
    BY <1>4 DEF HoldInterrupted, Inv, HoldInv
  <2>3. /\ ClockInv'
        /\ pressed_since_ms' \in Timestamps /\ last_timestamp_ms' \in Timestamps
    BY <2>1, ClockStep
  <2>4. TypeOK'
    <3>1. /\ screen' \in Screens /\ previous_buttons' \subseteq Buttons
          /\ exit_requested' \in BOOLEAN /\ pressed' \in BOOLEAN /\ latched' \in BOOLEAN
      BY <1>1, <2>1 DEF Inv, TypeOK
    <3>2. last_draw_bucket' \in {NoBucket} \cup 0 .. HoldMs \div BucketMs
      BY <2>1 DEF Inv, TypeOK
    <3> QED BY <1>1, <2>1, <2>3, <3>1, <3>2 DEF TypeOK
  <2>5. ConsumedInv'
    BY <1>1, <2>1 DEF Inv, ConsumedInv
  <2>6. HoldInv'
    BY <1>1, <2>1, <2>2 DEF HoldInv
  <2>7. DisplayIsCurrent'
    BY <1>1, <2>1 DEF Inv, DisplayIsCurrent
  <2> QED BY <1>2, <2>3, <2>4, <2>5, <2>6, <2>7 DEF Inv
<1> QED BY <1>3, <1>4

\* What every home frame leaves, given what the update left of the record.
LEMMA HomeFrameCommon ==
  ASSUME Inv, clock' \in clock .. TimeMax, NEW buttons \in SUBSET Buttons,
         previous_buttons' = buttons,
         HomeFrame(buttons, buttons \ previous_buttons, clock'),
         pressed_since_ms' \in {0, pressed_since_ms, clock'},
         last_timestamp_ms' = clock',
         pressed' \in BOOLEAN, latched' \in BOOLEAN, ~exit_requested
  PROVE  TypeOK' /\ ClockInv' /\ DisplayIsCurrent'
<1>1. /\ ClockInv'
      /\ pressed_since_ms' \in Timestamps /\ last_timestamp_ms' \in Timestamps
  BY ClockStep
<1>2. PICK bucket \in 0 .. HoldMs \div BucketMs : bucket = HeldBucket(clock')
  BY <1>1, HeldBucketType
<1>3. bucket # NoBucket
  <2>1. PICK top : top = HoldMs \div BucketMs
    OBVIOUS
  <2> QED BY <2>1, <1>2 DEF NoBucket
<1>4. last_draw_bucket' = bucket
  BY <1>2 DEF HomeFrame
<1>5. screen = "HOME"
  BY DEF HomeFrame
<1>6. hold_start' \in {NoTime} \cup Timestamps
  <2>1. hold_start \in {NoTime} \cup Timestamps /\ clock' \in Timestamps
    BY <1>1 DEF Inv, TypeOK, ClockInv
  <2>2. hold_start' = IF "SELECT" \notin buttons THEN NoTime
                      ELSE IF hold_start = NoTime THEN clock' ELSE hold_start
    BY DEF HomeFrame
  <2> QED BY <2>1, <2>2
<1>7. /\ screen' \in {"HOME", "MENU"}
      /\ exit_requested' \in BOOLEAN
      /\ DisplayIsCurrent'
  <2>1. CASE event' = "TRIGGERED"
    <3>1. screen' = "MENU" /\ display' = <<"MENU", 0>> /\ exit_requested' = exit_requested
      BY <2>1 DEF HomeFrame, draw_menu
    <3> QED BY <3>1 DEF DisplayIsCurrent, Inv, TypeOK
  <2>2. CASE event' # "TRIGGERED"
    <3>1. /\ screen' = screen
          /\ exit_requested' = ("CIRCLE" \in buttons \ previous_buttons)
          /\ IF bucket # last_draw_bucket THEN display' = <<"HOME", bucket>>
             ELSE display' = display
      BY <2>2, <1>2 DEF HomeFrame, draw_home
    <3>2. CASE bucket # last_draw_bucket
      <4>1. display' = <<"HOME", bucket>>
        BY <3>1, <3>2
      <4> QED BY <1>4, <1>5, <3>1, <4>1 DEF DisplayIsCurrent
    <3>3. CASE bucket = last_draw_bucket
      <4>1. display' = display
        BY <3>1, <3>3
      <4>2. display[1] = screen /\ display[2] = last_draw_bucket
        BY <1>3, <1>5, <3>3 DEF Inv, DisplayIsCurrent
      <4> QED BY <1>4, <1>5, <3>1, <3>3, <4>1, <4>2 DEF DisplayIsCurrent
    <3> QED BY <3>2, <3>3
  <2> QED BY <2>1, <2>2
<1>8. screen' \in Screens /\ exit_requested' \in BOOLEAN /\ DisplayIsCurrent'
  BY <1>7 DEF Screens
<1>9. last_draw_bucket' \in {NoBucket} \cup 0 .. HoldMs \div BucketMs
  BY <1>4
<1> QED BY <1>1, <1>6, <1>8, <1>9 DEF TypeOK

\* What the last conjunct of a home frame records of the buttons.
LEMMA HomeFrameActs ==
  ASSUME Inv, NEW buttons \in SUBSET Buttons,
         HomeFrame(buttons, buttons \ previous_buttons, clock'),
         event' = "TRIGGERED" => "SELECT" \in buttons
  PROVE  /\ consumed' \subseteq buttons
         /\ "SELECT" \in consumed' <=>
              ("SELECT" \in consumed /\ "SELECT" \in buttons) \/ event' = "TRIGGERED"
         /\ acted' = "SELECT" <=> event' = "TRIGGERED"
         /\ acted' \in {"NONE", "SELECT"} \cup (buttons \ previous_buttons)
<1>1. CASE event' = "TRIGGERED"
  <2>1. Act("SELECT", buttons)
    BY <1>1 DEF HomeFrame
  <2>2. "SELECT" \in buttons \cup {"NONE"}
    BY <1>1
  <2> QED BY <1>1, <2>1, <2>2, ActFacts
<1>2. CASE event' # "TRIGGERED"
  <2>1. PICK button : /\ button = IF "CIRCLE" \in buttons \ previous_buttons THEN "CIRCLE" ELSE "NONE"
                      /\ Act(button, buttons)
    BY <1>2 DEF HomeFrame
  <2>2. button \in {"NONE"} \cup (buttons \ previous_buttons) /\ button # "SELECT"
    BY <2>1
  <2>3. button \in buttons \cup {"NONE"}
    BY <2>2
  <2> QED BY <1>2, <2>1, <2>2, <2>3, ActFacts
<1> QED BY <1>1, <1>2

LEMMA HomeFrameStep ==
  ASSUME Inv, clock' \in clock .. TimeMax, NEW buttons \in SUBSET Buttons,
         previous_buttons' = buttons, ~exit_requested,
         HomeFrame(buttons, buttons \ previous_buttons, clock')
  PROVE  Inv' /\ OneEffectStep /\ HomeHoldStep
<1>1. screen = "HOME" /\ (event' # "TRIGGERED" => screen' = screen)
  BY DEF HomeFrame
<1>2. hold_start' = IF "SELECT" \notin buttons THEN NoTime
                    ELSE IF hold_start = NoTime THEN clock' ELSE hold_start
  BY DEF HomeFrame
<1>3. CASE "SELECT" \notin buttons
  <2>1. Released(clock')
    BY <1>3 DEF HomeFrame, vc_menu_activation_update
  <2>2. /\ pressed_since_ms' = 0 /\ last_timestamp_ms' = clock'
        /\ pressed' = FALSE /\ latched' = FALSE /\ event' = "NONE"
    BY <2>1, ReleaseStep
  <2>3. TypeOK' /\ ClockInv' /\ DisplayIsCurrent'
    BY <2>2, HomeFrameCommon
  <2>4. /\ consumed' \subseteq buttons /\ "SELECT" \notin consumed'
        /\ acted' # "SELECT" /\ acted' \in {"NONE"} \cup (buttons \ previous_buttons)
    BY <1>3, <2>2, HomeFrameActs
  <2>5. ConsumedInv'
    BY <2>2, <2>4 DEF ConsumedInv
  <2>6. HoldInv'
    BY <1>2, <1>3, <2>2 DEF HoldInv
  <2>7. OneEffectStep
    BY <2>4, EdgeIsFresh DEF OneEffectStep
  <2>8. HomeHoldStep
    BY <2>4 DEF HomeHoldStep
  <2> QED BY <2>3, <2>5, <2>6, <2>7, <2>8 DEF Inv
<1>4. CASE "SELECT" \in buttons
  <2>1. Held(clock')
    BY <1>4 DEF HomeFrame, vc_menu_activation_update
  <2>2. /\ pressed' = TRUE /\ last_timestamp_ms' = clock'
        /\ pressed_since_ms' = IF pressed THEN pressed_since_ms ELSE clock'
        /\ latched' \in BOOLEAN
        /\ latched' <=> latched \/ event' = "TRIGGERED"
    BY <2>1, HeldStep
  <2>3. /\ event' = "TRIGGERED" =>
             pressed /\ ~latched /\ clock' - pressed_since_ms >= HoldMs
        /\ ~latched' => clock' - pressed_since_ms' < HoldMs
    BY <2>1, HeldStep
  <2>4. TypeOK' /\ ClockInv' /\ DisplayIsCurrent'
    BY <2>2, HomeFrameCommon
  <2>5. /\ consumed' \subseteq buttons
        /\ "SELECT" \in consumed' <=> "SELECT" \in consumed \/ event' = "TRIGGERED"
        /\ acted' = "SELECT" <=> event' = "TRIGGERED"
        /\ acted' \in {"NONE", "SELECT"} \cup (buttons \ previous_buttons)
    BY <1>4, HomeFrameActs
  <2>6. latched <=> "SELECT" \in consumed
    BY DEF Inv, ConsumedInv
  <2>7. ConsumedInv'
    BY <2>2, <2>5, <2>6 DEF ConsumedInv
  <2>8. pressed /\ ~latched => hold_start = pressed_since_ms /\ hold_start # NoTime
    BY DEF Inv, HoldInv, TypeOK, Timestamps, NoTime
  <2>9. ~pressed => hold_start = NoTime
    BY DEF Inv, HoldInv
  <2>10. HoldInv'
    <3>1. ASSUME ~latched' PROVE screen' = "HOME" /\ hold_start' = pressed_since_ms'
      BY <1>1, <1>2, <1>4, <2>2, <2>8, <2>9, <3>1
    <3> QED BY <2>2, <2>3, <3>1 DEF HoldInv
  <2>11. OneEffectStep
    <3>1. ASSUME acted' = "SELECT" PROVE acted' \notin consumed
      BY <2>3, <2>5, <2>6, <3>1
    <3> QED BY <2>5, <3>1, EdgeIsFresh DEF OneEffectStep
  <2>12. HomeHoldStep
    BY <2>3, <2>5, <2>8 DEF HomeHoldStep
  <2> QED BY <2>4, <2>7, <2>10, <2>11, <2>12 DEF Inv
<1> QED BY <1>3, <1>4

\* Off the home screen a press is a latched one, and stays one until the
\* release that clears it; whatever else the frame does with the screen, it
\* does by the edge of a button that is not Select.
LEMMA OffHomeStep ==
  ASSUME Inv, clock' \in clock .. TimeMax, NEW buttons \in SUBSET Buttons,
         previous_buttons' = buttons,
         screen # "HOME", RearmOffHome(buttons, clock'), hold_start' = NoTime,
         NEW button, Act(button, buttons), button # "SELECT",
         button \in {"NONE"} \cup (buttons \ previous_buttons),
         screen' \in Screens, display'[1] = screen',
         screen' = "HOME" => last_draw_bucket' = NoBucket,
         last_draw_bucket' \in {NoBucket, last_draw_bucket},
         exit_requested' \in BOOLEAN
  PROVE  Inv' /\ OneEffectStep /\ HomeHoldStep
<1>1. /\ acted' = button /\ consumed' \subseteq buttons
      /\ "SELECT" \in consumed' <=> "SELECT" \in consumed /\ "SELECT" \in buttons
  <2>1. button \in buttons \cup {"NONE"}
    OBVIOUS
  <2> QED BY <2>1, ActFacts
<1>2. OneEffectStep /\ HomeHoldStep
  BY <1>1, EdgeIsFresh DEF OneEffectStep, HomeHoldStep
<1>3. /\ pressed \in BOOLEAN /\ latched \in BOOLEAN
      /\ pressed <=> latched
      /\ latched <=> "SELECT" \in consumed
  BY DEF Inv, TypeOK, ConsumedInv, HoldInv
<1>4. /\ pressed_since_ms' \in {0, pressed_since_ms}
      /\ last_timestamp_ms' \in {last_timestamp_ms, clock'}
      /\ pressed' \in BOOLEAN /\ latched' \in BOOLEAN
      /\ pressed' <=> latched'
      /\ latched' <=> "SELECT" \in consumed /\ "SELECT" \in buttons
  <2>1. CASE "SELECT" \notin buttons /\ pressed
    <3>1. Released(clock')
      BY <2>1 DEF RearmOffHome, vc_menu_activation_update
    <3> QED BY <2>1, <3>1, ReleaseStep
  <2>2. CASE ~("SELECT" \notin buttons /\ pressed)
    <3>1. UNCHANGED activation
      BY <2>2 DEF RearmOffHome
    <3> QED BY <1>3, <2>2, <3>1 DEF activation
  <2> QED BY <2>1, <2>2
<1>5. /\ ClockInv'
      /\ pressed_since_ms' \in Timestamps /\ last_timestamp_ms' \in Timestamps
  BY <1>4, ClockStep
<1>6. TypeOK'
  <2>1. last_draw_bucket' \in {NoBucket} \cup 0 .. HoldMs \div BucketMs
    BY DEF Inv, TypeOK
  <2> QED BY <1>4, <1>5, <2>1 DEF TypeOK
<1>7. ConsumedInv'
  BY <1>1, <1>4 DEF ConsumedInv
<1>8. HoldInv'
  BY <1>4 DEF HoldInv
<1>9. DisplayIsCurrent'
  BY DEF DisplayIsCurrent
<1> QED BY <1>2, <1>5, <1>6, <1>7, <1>8, <1>9 DEF Inv

LEMMA MenuFrameStep ==
  ASSUME Inv, clock' \in clock .. TimeMax, NEW buttons \in SUBSET Buttons,
         previous_buttons' = buttons,
         MenuFrame(buttons, buttons \ previous_buttons, clock')
  PROVE  Inv' /\ OneEffectStep /\ HomeHoldStep
<1> DEFINE edges == buttons \ previous_buttons
<1>1. screen = "MENU" /\ RearmOffHome(buttons, clock') /\ hold_start' = NoTime
  BY DEF MenuFrame
<1>2. screen # "HOME" /\ exit_requested \in BOOLEAN /\ display[1] = "MENU"
  BY <1>1 DEF Inv, TypeOK, DisplayIsCurrent
<1>3. CASE "CROSS" \in edges
  <2>1. /\ screen' = "RESULT" /\ display' = <<"RESULT", 0>> /\ Act("CROSS", buttons)
        /\ last_draw_bucket' = last_draw_bucket /\ exit_requested' = exit_requested
    BY <1>3 DEF MenuFrame, draw_result
  <2>2. screen' \in Screens /\ display'[1] = screen' /\ screen' # "HOME"
    BY <2>1 DEF Screens
  <2>3. /\ last_draw_bucket' \in {NoBucket, last_draw_bucket}
        /\ exit_requested' \in BOOLEAN /\ "CROSS" # "SELECT"
    BY <1>2, <2>1
  <2> QED BY <1>1, <1>2, <1>3, <2>1, <2>2, <2>3, OffHomeStep
<1>4. CASE "CROSS" \notin edges /\ "CIRCLE" \in edges
  <2>1. /\ screen' = "HOME" /\ display' = <<"HOME", 0>> /\ Act("CIRCLE", buttons)
        /\ last_draw_bucket' = NoBucket /\ exit_requested' = exit_requested
    BY <1>4 DEF MenuFrame, CloseMenu, draw_home
  <2>2. screen' \in Screens /\ display'[1] = screen'
    BY <2>1 DEF Screens
  <2>3. /\ last_draw_bucket' \in {NoBucket, last_draw_bucket}
        /\ exit_requested' \in BOOLEAN /\ "CIRCLE" # "SELECT"
    BY <1>2, <2>1
  <2> QED BY <1>1, <1>2, <1>4, <2>1, <2>2, <2>3, OffHomeStep
<1>5. CASE "CROSS" \notin edges /\ "CIRCLE" \notin edges
  <2>1. /\ screen' = screen /\ display' = display
        /\ last_draw_bucket' = last_draw_bucket
        /\ exit_requested' = ("TRIANGLE" \in edges)
        /\ Act(IF "TRIANGLE" \in edges THEN "TRIANGLE" ELSE "NONE", buttons)
    BY <1>5 DEF MenuFrame
  <2>2. PICK button : /\ button = IF "TRIANGLE" \in edges THEN "TRIANGLE" ELSE "NONE"
                      /\ Act(button, buttons)
    BY <2>1
  <2>3. button \in {"NONE"} \cup edges /\ button # "SELECT"
    BY <2>2
  <2>4. screen' \in Screens /\ display'[1] = screen' /\ screen' # "HOME"
    BY <1>1, <1>2, <2>1 DEF Screens
  <2>5. /\ last_draw_bucket' \in {NoBucket, last_draw_bucket}
        /\ exit_requested' \in BOOLEAN
    BY <2>1
  <2> QED BY <1>1, <1>2, <2>2, <2>3, <2>4, <2>5, OffHomeStep
<1> QED BY <1>3, <1>4, <1>5

LEMMA ResultFrameStep ==
  ASSUME Inv, clock' \in clock .. TimeMax, NEW buttons \in SUBSET Buttons,
         previous_buttons' = buttons,
         ResultFrame(buttons, buttons \ previous_buttons, clock')
  PROVE  Inv' /\ OneEffectStep /\ HomeHoldStep
<1> DEFINE edges == buttons \ previous_buttons
<1>1. /\ screen = "RESULT" /\ RearmOffHome(buttons, clock') /\ hold_start' = NoTime
      /\ last_draw_bucket' = last_draw_bucket
  BY DEF ResultFrame
<1>2. /\ screen # "HOME" /\ exit_requested \in BOOLEAN /\ display[1] = "RESULT"
      /\ last_draw_bucket' \in {NoBucket, last_draw_bucket}
  BY <1>1 DEF Inv, TypeOK, DisplayIsCurrent
<1>3. CASE "CIRCLE" \in edges
  <2>1. /\ screen' = "MENU" /\ display' = <<"MENU", 0>> /\ Act("CIRCLE", buttons)
        /\ exit_requested' = exit_requested
    BY <1>3 DEF ResultFrame, draw_menu
  <2>2. screen' \in Screens /\ display'[1] = screen' /\ screen' # "HOME"
    BY <2>1 DEF Screens
  <2>3. exit_requested' \in BOOLEAN /\ "CIRCLE" # "SELECT"
    BY <1>2, <2>1
  <2> QED BY <1>1, <1>2, <1>3, <2>1, <2>2, <2>3, OffHomeStep
<1>4. CASE "CIRCLE" \notin edges
  <2>1. /\ screen' = screen /\ display' = display
        /\ exit_requested' = ("TRIANGLE" \in edges)
        /\ Act(IF "TRIANGLE" \in edges THEN "TRIANGLE" ELSE "NONE", buttons)
    BY <1>4 DEF ResultFrame
  <2>2. PICK button : /\ button = IF "TRIANGLE" \in edges THEN "TRIANGLE" ELSE "NONE"
                      /\ Act(button, buttons)
    BY <2>1
  <2>3. button \in {"NONE"} \cup edges /\ button # "SELECT"
    BY <2>2
  <2>4. screen' \in Screens /\ display'[1] = screen' /\ screen' # "HOME"
    BY <1>1, <1>2, <2>1 DEF Screens
  <2>5. exit_requested' \in BOOLEAN
    BY <2>1
  <2> QED BY <1>1, <1>2, <2>2, <2>3, <2>4, <2>5, OffHomeStep
<1> QED BY <1>3, <1>4

LEMMA NextStep ==
  ASSUME Inv, Next
  PROVE  Inv' /\ OneEffectStep /\ HomeHoldStep
<1>1. clock' \in clock .. TimeMax
  BY DEF Next
<1>2. CASE MissedInput
  BY <1>1, <1>2, MissedInputStep
<1>3. ASSUME NEW buttons \in SUBSET Buttons, Frame(buttons, clock')
      PROVE  Inv' /\ OneEffectStep /\ HomeHoldStep
  <2>1. previous_buttons' = buttons /\ ~exit_requested
    BY <1>3 DEF Frame
  <2>2. \/ HomeFrame(buttons, buttons \ previous_buttons, clock')
        \/ MenuFrame(buttons, buttons \ previous_buttons, clock')
        \/ ResultFrame(buttons, buttons \ previous_buttons, clock')
    BY <1>3 DEF Frame
  <2> QED BY <1>1, <2>1, <2>2, HomeFrameStep, MenuFrameStep, ResultFrameStep
<1> QED BY <1>2, <1>3 DEF Next

LEMMA StutterInv ==
  ASSUME Inv, UNCHANGED vars
  PROVE  Inv'
<1>1. UNCHANGED <<pressed_since_ms, last_timestamp_ms, pressed, latched, screen,
                  previous_buttons, last_draw_bucket, exit_requested, display,
                  clock, consumed, hold_start>>
  BY DEF vars, activation, app, history
<1> QED BY <1>1 DEF Inv, TypeOK, ClockInv, ConsumedInv, HoldInv, DisplayIsCurrent

-----------------------------------------------------------------------------
LEMMA SpecInv == Spec => []Inv
<1>1. Inv /\ [Next]_vars => Inv'
  BY NextStep, StutterInv
<1> QED BY <1>1, InitInv, PTL DEF Spec

\* The application's variables stay in their types: the cached bucket in
\* particular is the marker or one that a hold of at most HoldMs can reach.
THEOREM SelfTestTypeOK == Spec => []TypeOK
<1>1. Inv => TypeOK
  BY DEF Inv
<1> QED BY <1>1, SpecInv, PTL

\* After HoldMs of uninterrupted home-screen frames with Select down this
\* press has opened the menu, for every hold time, display granularity and
\* clock width.
THEOREM HoldIsHeard == Spec => []HomeHoldOpensMenu
<1>1. ASSUME Inv PROVE HomeHoldOpensMenu
  <2> SUFFICES ASSUME hold_start # NoTime, clock - hold_start >= HoldMs, ~latched
               PROVE  FALSE
    BY <1>1 DEF Inv, ConsumedInv, HomeHoldOpensMenu
  <2>1. hold_start = pressed_since_ms /\ clock - pressed_since_ms < HoldMs
    BY <1>1 DEF Inv, HoldInv
  <2>2. hold_start \in Nat /\ clock \in Nat /\ HoldMs \in Nat
    BY <1>1, <2>1, MenuAssumption DEF Inv, TypeOK, ClockInv, Timestamps
  <2> QED BY <2>1, <2>2
<1> QED BY <1>1, SpecInv, PTL

\* What is on the screen is the current screen with the cached progress: the
\* redraw that main.c skips when the bucket has not changed is never missed.
THEOREM DisplayStaysCurrent == Spec => []DisplayIsCurrent
<1>1. Inv => DisplayIsCurrent
  BY DEF Inv
<1> QED BY <1>1, SpecInv, PTL

\* A press that has had its effect has no second one before its release,
\* across screen changes and lost input samples.
THEOREM PressActsOnce == Spec => OnePressOneEffect
<1>1. Inv /\ [Next]_vars => [acted' # "NONE" => acted' \notin consumed]_vars
  BY NextStep DEF OneEffectStep
<1> QED BY <1>1, SpecInv, PTL DEF Spec, OnePressOneEffect

\* The menu opens only at the end of HoldMs of uninterrupted home-screen
\* frames with Select down.
THEOREM MenuOpensAfterHomeHold == Spec => MenuNeedsHomeHold
<1>1. Inv /\ [Next]_vars =>
        [acted' = "SELECT" => hold_start # NoTime /\ clock' - hold_start >= HoldMs]_vars
  BY NextStep DEF HomeHoldStep
<1> QED BY <1>1, SpecInv, PTL DEF Spec, MenuNeedsHomeHold

=============================================================================
