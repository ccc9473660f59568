--------------------------- MODULE MenuActivation ---------------------------
(***************************************************************************)
(* The Select-hold state machine of src/menu_activation.c: one event after *)
(* a continuous hold of HoldMs, not repeated until Select is released, the *)
(* interval restarted by a clock rollback.  Timestamps are uint64_t, and   *)
(* the subtraction that measures the hold wraps.                           *)
(***************************************************************************)
EXTENDS Integers

CONSTANTS
  HoldMs,   \* VC_MENU_SELECT_HOLD_MS
  TimeMax   \* UINT64_MAX

ASSUME MenuAssumption ==
  /\ TimeMax \in Nat
  /\ HoldMs \in 1 .. TimeMax

VARIABLES
  pressed_since_ms, last_timestamp_ms, pressed, latched,  \* the state record
  event                                                   \* the last result

activation == <<pressed_since_ms, last_timestamp_ms, pressed, latched>>

Timestamps == 0 .. TimeMax
Events == {"NONE", "TRIGGERED"}

\* a - b in uint64_t.
WrappingDifference(a, b) == IF a >= b THEN a - b ELSE a - b + TimeMax + 1

-----------------------------------------------------------------------------
vc_menu_activation_reset ==
  /\ pressed_since_ms' = 0
  /\ last_timestamp_ms' = 0
  /\ pressed' = FALSE
  /\ latched' = FALSE

\* Select is up: rearm.
Released(now) ==
  /\ pressed_since_ms' = 0
  /\ last_timestamp_ms' = now
  /\ pressed' = FALSE
  /\ latched' = FALSE
  /\ event' = "NONE"

\* As in Pause, a definition named after another with a suffix is a faulty
\* variant that no specification uses.
IntervalRestarts_RollbackIgnored(now) == ~pressed

\* The hold interval starts now: a new press, or a rollback while timing.
IntervalRestarts(now) == ~pressed \/ (now < last_timestamp_ms /\ ~latched)

\* A new press forgets the latch.
LatchOnPress == pressed /\ latched

HoldSince_Shifted(now) ==
  IF pressed /\ now < last_timestamp_ms
  THEN pressed_since_ms - (last_timestamp_ms - now)
  ELSE IF pressed THEN pressed_since_ms ELSE now

HoldSince(now) == IF IntervalRestarts(now) THEN now ELSE pressed_since_ms

HoldReached_Late(now, since) == WrappingDifference(now, since) > HoldMs

HoldReached(now, since) == WrappingDifference(now, since) >= HoldMs

\* Select is down: time the hold, and report it once.
Held(now) ==
  LET trigger == ~LatchOnPress /\ HoldReached(now, HoldSince(now))
  IN  /\ pressed_since_ms' = HoldSince(now)
      /\ last_timestamp_ms' = now
      /\ pressed' = TRUE
      /\ latched' = (LatchOnPress \/ trigger)
      /\ event' = IF trigger THEN "TRIGGERED" ELSE "NONE"

vc_menu_activation_update(select_down, now) ==
  \/ ~select_down /\ Released(now)
  \/ select_down /\ Held(now)

Init ==
  /\ pressed_since_ms = 0
  /\ last_timestamp_ms = 0
  /\ pressed = FALSE
  /\ latched = FALSE
  /\ event = "NONE"
=============================================================================
