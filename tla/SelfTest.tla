------------------------------ MODULE SelfTest ------------------------------
(***************************************************************************)
(* The user-mode self-test application of vita-self-test/main.c: a frame   *)
(* loop that samples the pad, drives the Select-hold state machine and     *)
(* three screens, and sometimes gets no input sample at all.               *)
(*                                                                         *)
(* As in Pause, a definition named after another with a suffix is a faulty *)
(* variant that no specification uses.                                     *)
(***************************************************************************)
EXTENDS MenuActivation

CONSTANT BucketMs   \* the granularity of the progress display, 100 ms

ASSUME SelfTestAssumption == BucketMs \in Nat \ {0}

VARIABLES
  screen, previous_buttons, last_draw_bucket, exit_requested,
  result,     \* the outcome of the last scanner self-test
  display,    \* what is on the screen: <<screen, progress bucket>>
  clock,      \* sceKernelGetSystemTimeWide, which never runs backwards
  \* history: the button this frame acted on; the buttons whose current press
  \* has already been acted on; the time of the first of the uninterrupted
  \* home-screen frames with Select down that end here
  acted, consumed, hold_start

app     == <<screen, previous_buttons, last_draw_bucket, exit_requested, result, display>>
history == <<acted, consumed, hold_start>>
vars    == <<activation, event, app, clock, history>>

Screens == {"HOME", "MENU", "RESULT"}
Buttons == {"SELECT", "CROSS", "CIRCLE", "TRIANGLE"}

NoBucket == -1   \* UINT64_MAX, which no hold time reaches
NoTime   == -1

-----------------------------------------------------------------------------
draw_home(bucket) == display' = <<"HOME", bucket>>
draw_menu         == display' = <<"MENU", 0>>
draw_result       == display' = <<"RESULT", 0>>

HeldBucket_Unclamped(now) ==
  (IF pressed' /\ now >= pressed_since_ms' THEN now - pressed_since_ms' ELSE 0)
    \div BucketMs

\* The progress of the hold after the update, as the home screen shows it.
HeldBucket(now) ==
  LET held == IF pressed' /\ now >= pressed_since_ms' THEN now - pressed_since_ms' ELSE 0
  IN  (IF held > HoldMs THEN HoldMs ELSE held) \div BucketMs

Act(button, buttons) ==
  /\ acted' = button
  /\ consumed' = (consumed \cap buttons) \cup ({button} \ {"NONE"})

EdgesAfterMiss_Cleared == {}

\* "Missing input is not a physical button release": the edges are kept.
EdgesAfterMiss == previous_buttons

HoldInterrupted_Never == FALSE

HoldInterrupted == screen = "HOME" /\ pressed /\ ~latched

\* A frame without an input sample fails closed: an unlatched hold restarts.
MissedInput ==
  /\ ~exit_requested
  /\ previous_buttons' = EdgesAfterMiss
  /\ \/ /\ HoldInterrupted
        /\ vc_menu_activation_reset
        /\ last_draw_bucket' = NoBucket
        /\ draw_home(0)
     \/ /\ ~HoldInterrupted
        /\ UNCHANGED <<activation, last_draw_bucket, display>>
  /\ acted' = "NONE"
  /\ hold_start' = NoTime
  /\ UNCHANGED <<event, screen, exit_requested, result, consumed>>

\* The home screen: time the hold, redraw the progress, open the menu.
HomeFrame(buttons, edges, now) ==
  /\ screen = "HOME"
  /\ vc_menu_activation_update("SELECT" \in buttons, now)
  /\ last_draw_bucket' = HeldBucket(now)
  /\ hold_start' = IF "SELECT" \notin buttons THEN NoTime
                   ELSE IF hold_start = NoTime THEN now ELSE hold_start
  /\ \/ /\ event' = "TRIGGERED"
        /\ screen' = "MENU" /\ draw_menu
        /\ Act("SELECT", buttons)
        /\ UNCHANGED exit_requested
     \/ /\ event' = "NONE"
        /\ IF HeldBucket(now) # last_draw_bucket THEN draw_home(HeldBucket(now))
           ELSE UNCHANGED display
        /\ exit_requested' = ("CIRCLE" \in edges)
        /\ Act(IF "CIRCLE" \in edges THEN "CIRCLE" ELSE "NONE", buttons)
        /\ UNCHANGED screen
  /\ UNCHANGED result

RearmOffHome_Never(buttons, now) == UNCHANGED <<activation, event>>

\* Off the home screen holds are not timed, but a release rearms the latch.
RearmOffHome(buttons, now) ==
  IF "SELECT" \notin buttons /\ pressed
  THEN vc_menu_activation_update(FALSE, now)
  ELSE UNCHANGED <<activation, event>>

CloseMenu_KeepsBucket ==
  /\ screen' = "HOME" /\ draw_home(0)
  /\ UNCHANGED last_draw_bucket

CloseMenu ==
  /\ screen' = "HOME" /\ draw_home(0)
  /\ last_draw_bucket' = NoBucket

MenuFrame(buttons, edges, now) ==
  /\ screen = "MENU"
  /\ RearmOffHome(buttons, now)
  /\ hold_start' = NoTime
  /\ \/ /\ "CROSS" \in edges
        /\ result' \in {"PASS", "FAIL"}
        /\ screen' = "RESULT" /\ draw_result
        /\ Act("CROSS", buttons)
        /\ UNCHANGED <<last_draw_bucket, exit_requested>>
     \/ /\ "CROSS" \notin edges /\ "CIRCLE" \in edges
        /\ CloseMenu
        /\ Act("CIRCLE", buttons)
        /\ UNCHANGED <<exit_requested, result>>
     \/ /\ "CROSS" \notin edges /\ "CIRCLE" \notin edges
        /\ exit_requested' = ("TRIANGLE" \in edges)
        /\ Act(IF "TRIANGLE" \in edges THEN "TRIANGLE" ELSE "NONE", buttons)
        /\ UNCHANGED <<screen, last_draw_bucket, result, display>>

ResultFrame(buttons, edges, now) ==
  /\ screen = "RESULT"
  /\ RearmOffHome(buttons, now)
  /\ hold_start' = NoTime
  /\ \/ /\ "CIRCLE" \in edges
        /\ screen' = "MENU" /\ draw_menu
        /\ Act("CIRCLE", buttons)
        /\ UNCHANGED exit_requested
     \/ /\ "CIRCLE" \notin edges
        /\ exit_requested' = ("TRIANGLE" \in edges)
        /\ Act(IF "TRIANGLE" \in edges THEN "TRIANGLE" ELSE "NONE", buttons)
        /\ UNCHANGED <<screen, display>>
  /\ UNCHANGED <<last_draw_bucket, result>>

\* One turn of the loop with an input sample.
Frame(buttons, now) ==
  LET edges == buttons \ previous_buttons
  IN  /\ ~exit_requested
      /\ previous_buttons' = buttons
      /\ \/ HomeFrame(buttons, edges, now)
         \/ MenuFrame(buttons, edges, now)
         \/ ResultFrame(buttons, edges, now)

AppInit ==
  /\ Init
  /\ screen = "HOME"
  /\ previous_buttons = {}
  /\ last_draw_bucket = NoBucket
  /\ exit_requested = FALSE
  /\ result = "PASS"   \* zeroed: no failures
  /\ display = <<"HOME", 0>>
  /\ clock = 0
  /\ acted = "NONE" /\ consumed = {} /\ hold_start = NoTime

Next ==
  /\ clock' \in clock .. TimeMax
  /\ MissedInput \/ \E buttons \in SUBSET Buttons : Frame(buttons, clock')

Spec == AppInit /\ [][Next]_vars

-----------------------------------------------------------------------------
\* The application's variables stay in their types.
TypeOK ==
  /\ screen \in Screens
  /\ previous_buttons \subseteq Buttons
  /\ last_draw_bucket \in {NoBucket} \cup 0 .. HoldMs \div BucketMs
  /\ exit_requested \in BOOLEAN
  /\ pressed_since_ms \in Timestamps /\ last_timestamp_ms \in Timestamps
  /\ pressed \in BOOLEAN /\ latched \in BOOLEAN
  /\ hold_start \in {NoTime} \cup Timestamps

\* One physical press has at most one effect, across screen changes and lost
\* input samples: the Circle that closes the menu does not also leave the
\* application, and the Select that opened the menu does not open it again.
OnePressOneEffect == [][acted' # "NONE" => acted' \notin consumed]_vars

\* The menu opens only after HoldMs of uninterrupted home-screen frames with
\* Select down: time on other screens or across a lost sample never counts.
MenuNeedsHomeHold ==
  [][acted' = "SELECT" => hold_start # NoTime /\ clock' - hold_start >= HoldMs]_vars

\* After HoldMs of such frames the menu has been opened by this press: no
\* release, lost sample or visit to another screen leaves the latch set and
\* a new hold unheard.
HomeHoldOpensMenu ==
  hold_start # NoTime /\ clock - hold_start >= HoldMs => "SELECT" \in consumed

\* The screen shows the current screen and, at home, the progress that
\* last_draw_bucket caches, unless the cache has been invalidated.
DisplayIsCurrent ==
  /\ display[1] = screen
  /\ screen = "HOME" /\ last_draw_bucket # NoBucket => display[2] = last_draw_bucket
=============================================================================
