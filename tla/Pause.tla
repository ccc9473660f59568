------------------------------- MODULE Pause -------------------------------
(***************************************************************************)
(* The gameplay-thread pause transaction of src/pause.c, driven by an      *)
(* adapter that menu, watchdog and cleanup paths call through, over a      *)
(* kernel that counts suspensions per thread.                              *)
(*                                                                         *)
(* Calls on one vc_pause_state are serialised by the adapter (the code has *)
(* no lock, and pause.h forbids a callback to reenter the state).  Inside  *)
(* a call every callback is a step of its own, so the clock, the target    *)
(* process and other holders of suspensions move between two callbacks.    *)
(*                                                                         *)
(* Positions in thread_ids are counted from 1: position i is bit i-1 of    *)
(* the code's owned_mask.                                                  *)
(***************************************************************************)
EXTENDS Integers, Sequences, FiniteSets

CONSTANTS
  Threads,        \* IDs of the threads the target process has
  ThreadLists,    \* the allowlists a caller may pass, malformed ones included
  MaxThreads,     \* VC_PAUSE_MAX_THREADS
  MaxDuration,    \* VC_PAUSE_MAX_DURATION_MS
  TimeMax,        \* UINT64_MAX
  AtomicCalls,    \* TRUE: a title never exits while a call is in progress
  MaxGeneration,  \* bound on the process generations
  MaxForeign,     \* bound on another holder's suspensions of one thread
  MaxRollbacks    \* bound on backward jumps of the clock

ASSUME PauseAssumption ==
  /\ Threads \subseteq Nat \ {0}
  /\ ThreadLists \subseteq Seq(Int)
  /\ MaxThreads \in Nat \ {0}
  /\ TimeMax \in Nat
  /\ MaxDuration \in Nat \ {0}
  /\ MaxDuration <= TimeMax
  /\ AtomicCalls \in BOOLEAN
  /\ MaxGeneration \in Nat \ {0}
  /\ MaxForeign \in Nat
  /\ MaxRollbacks \in Nat

VARIABLES
  \* vc_pause_state (thread_count is Len(thread_ids))
  active, target_generation, started_ms, deadline_ms, owned_mask, thread_ids,
  failed_thread_id,
  \* the call in progress, its loop index and locals, and the last status
  pc, index, rollback_failed, ticking, status,
  \* the kernel and the clock
  live_generation, suspend_count, foreign_count, clock, rollbacks,
  \* history: the last timestamp the open transaction was given, and the
  \* positions whose resume this call has attempted
  last_seen_ms, tried

transaction == <<active, target_generation, started_ms, deadline_ms,
                 owned_mask, thread_ids, failed_thread_id>>
call        == <<pc, index, rollback_failed, ticking, status>>
kernel      == <<live_generation, suspend_count, foreign_count>>
time        == <<clock, rollbacks>>
history     == <<last_seen_ms, tried>>

vars == <<transaction, call, kernel, time, history>>

Statuses == {"NONE", "OK", "EXPIRED", "INVALID_ARGUMENT", "INVALID_THREADS",
             "ALREADY_ACTIVE", "NOT_ACTIVE", "STALE_TARGET",
             "SUSPEND_FAILED", "ROLLBACK_FAILED", "RESUME_FAILED"}

Phases == {"idle", "suspending", "rolling_back", "resuming"}

-----------------------------------------------------------------------------
(***************************************************************************)
(* The adapter's callbacks and what they do to the kernel.  Success moves  *)
(* the suspend count by exactly one, failure leaves it (pause.h, contract  *)
(* of vc_pause_thread_operation).  The kernel does not know who suspended  *)
(* a thread: a resume takes whichever count is there.                      *)
(***************************************************************************)

suspend_thread(t) ==
  /\ t \in Threads
  /\ suspend_count' = [suspend_count EXCEPT ![t] = @ + 1]

resume_thread(t) ==
  /\ suspend_count[t] > 0
  /\ suspend_count' = [suspend_count EXCEPT ![t] = @ - 1]

\* What the adapter passes as target_generation: the generation it has just
\* read, or the null generation.
GenerationArguments == {0, live_generation}

\* vc_pause_abandon may be called only for a generation proved gone.
GoneGenerations == 0 .. live_generation - 1

-----------------------------------------------------------------------------
(***************************************************************************)
(* Helpers of the code.  A definition named after another with a suffix    *)
(* (BeginArgumentsValid_NoOverflowGuard, ...) is a deliberately faulty     *)
(* variant that Spec never uses: substituted for the original, it breaks   *)
(* the property that is meant to catch it.                                 *)
(***************************************************************************)

\* Sum in uint64_t, for terms whose sum is below twice the modulus.
WrappingSum(a, b) ==
  IF a + b > TimeMax THEN a + b - (TimeMax + 1) ELSE a + b

vc_pause_clear ==
  /\ active' = FALSE
  /\ target_generation' = 0
  /\ started_ms' = 0
  /\ deadline_ms' = 0
  /\ owned_mask' = {}
  /\ thread_ids' = <<>>
  /\ failed_thread_id' = 0
  /\ last_seen_ms' = 0

StrictlyIncreasing(list) ==
  \A i \in 1 .. Len(list) : i > 1 => list[i - 1] < list[i]

vc_pause_validate_threads_NoCount(list) ==
  /\ list # <<>>
  /\ \A i \in 1 .. Len(list) : list[i] > 0
  /\ StrictlyIncreasing(list)

vc_pause_validate_threads_AllowsRepeats(list) ==
  /\ Len(list) \in 1 .. MaxThreads
  /\ \A i \in 1 .. Len(list) : list[i] > 0
  /\ \A i \in 1 .. Len(list) : i > 1 => list[i - 1] <= list[i]

vc_pause_validate_threads(list) ==
  /\ list # <<>>
  /\ Len(list) <= MaxThreads
  /\ \A i \in 1 .. Len(list) : list[i] > 0
  /\ StrictlyIncreasing(list)

BeginArgumentsValid_NoOverflowGuard(pointers, generation, duration) ==
  /\ pointers
  /\ generation # 0
  /\ duration \in 1 .. MaxDuration

\* pointers: state, operations and both callbacks are non-NULL.
BeginArgumentsValid(pointers, generation, duration) ==
  /\ pointers
  /\ generation # 0
  /\ duration # 0
  /\ duration <= MaxDuration
  /\ clock <= TimeMax - duration

TransactionOpen_AfterFailure == active /\ failed_thread_id = 0

TransactionOpen == active \/ owned_mask # {}

SameTarget_Unchecked(generation) == TRUE

SameTarget(generation) == target_generation = generation

WithinWindow_NoDeadline == clock >= started_ms

WithinWindow == clock >= started_ms /\ clock < deadline_ms

-----------------------------------------------------------------------------
(***************************************************************************)
(* Entering and leaving a call.                                            *)
(***************************************************************************)

Return(s) ==
  /\ pc' = "idle"
  /\ status' = s
  /\ index' = 0
  /\ rollback_failed' = FALSE
  /\ ticking' = FALSE
  /\ tried' = {}
  /\ UNCHANGED <<kernel, time>>

\* A call that returns without touching the transaction.
Refuse(s) == Return(s) /\ UNCHANGED <<transaction, last_seen_ms>>

vc_pause_begin(pointers, generation, duration, list) ==
  LET valid == BeginArgumentsValid(pointers, generation, duration)
  IN  /\ pc = "idle"
      /\ \/ ~valid /\ Refuse("INVALID_ARGUMENT")
         \/ valid /\ TransactionOpen /\ Refuse("ALREADY_ACTIVE")
         \/ /\ valid /\ ~TransactionOpen /\ ~vc_pause_validate_threads(list)
            /\ Refuse("INVALID_THREADS")
         \/ /\ valid /\ ~TransactionOpen /\ vc_pause_validate_threads(list)
            /\ active' = TRUE
            /\ target_generation' = generation
            /\ started_ms' = clock
            /\ deadline_ms' = WrappingSum(clock, duration)
            /\ owned_mask' = {}
            /\ thread_ids' = list
            /\ failed_thread_id' = 0
            /\ last_seen_ms' = clock
            /\ pc' = "suspending"
            /\ UNCHANGED <<index, rollback_failed, ticking, status, tried,
                           kernel, time>>

SuspendNext_RollsBackFailed ==
  /\ pc = "suspending"
  /\ index < Len(thread_ids)
  /\ LET t == thread_ids[index + 1]
     IN  \/ /\ suspend_thread(t)
            /\ owned_mask' = owned_mask \cup {index + 1}
            /\ UNCHANGED <<failed_thread_id, pc>>
         \/ /\ failed_thread_id' = t
            /\ pc' = "rolling_back"
            /\ UNCHANGED <<owned_mask, suspend_count>>
  /\ index' = index + 1
  /\ UNCHANGED <<active, target_generation, started_ms, deadline_ms,
                 thread_ids, rollback_failed, ticking, status,
                 live_generation, foreign_count, time, history>>

\* One turn of the suspend loop; index positions are done.
SuspendNext ==
  /\ pc = "suspending"
  /\ index < Len(thread_ids)
  /\ LET t == thread_ids[index + 1]
     IN  \/ /\ suspend_thread(t)
            /\ owned_mask' = owned_mask \cup {index + 1}
            /\ index' = index + 1
            /\ UNCHANGED <<failed_thread_id, pc>>
         \/ /\ failed_thread_id' = t
            /\ pc' = "rolling_back"
            /\ UNCHANGED <<owned_mask, index, suspend_count>>
  /\ UNCHANGED <<active, target_generation, started_ms, deadline_ms,
                 thread_ids, rollback_failed, ticking, status,
                 live_generation, foreign_count, time, history>>

BeginDone ==
  /\ pc = "suspending"
  /\ index = Len(thread_ids)
  /\ failed_thread_id' = 0
  /\ Return("OK")
  /\ UNCHANGED <<active, target_generation, started_ms, deadline_ms,
                 owned_mask, thread_ids, last_seen_ms>>

\* One turn of the rollback loop.  The loop's skip of a position that is not
\* owned is dead code: every position below the failed one is owned when the
\* loop reaches it (RollbackOwnsPrefix), else this action would deadlock.
RollbackNext ==
  /\ pc = "rolling_back"
  /\ index > 0
  /\ index \in owned_mask
  /\ \/ /\ resume_thread(thread_ids[index])
        /\ owned_mask' = owned_mask \ {index}
        /\ UNCHANGED <<failed_thread_id, rollback_failed>>
     \/ /\ failed_thread_id' = thread_ids[index]
        /\ rollback_failed' = TRUE
        /\ UNCHANGED <<owned_mask, suspend_count>>
  /\ index' = index - 1
  /\ tried' = tried \cup {index}
  /\ UNCHANGED <<active, target_generation, started_ms, deadline_ms,
                 thread_ids, pc, ticking, status, live_generation,
                 foreign_count, time, last_seen_ms>>

RollbackStatus ==
  IF owned_mask # {} /\ rollback_failed THEN "ROLLBACK_FAILED"
  ELSE "SUSPEND_FAILED"

RollbackDone_NoClear ==
  /\ pc = "rolling_back"
  /\ index = 0
  /\ Return(RollbackStatus)
  /\ UNCHANGED <<transaction, last_seen_ms>>

RollbackDone ==
  /\ pc = "rolling_back"
  /\ index = 0
  /\ Return(RollbackStatus)
  /\ \/ owned_mask = {} /\ vc_pause_clear
     \/ owned_mask # {} /\ UNCHANGED <<transaction, last_seen_ms>>

\* The checks that vc_pause_end, vc_pause_tick and vc_pause_abandon share.
EntryRefused(pointers, generation) ==
  \/ ~(pointers /\ generation # 0) /\ Refuse("INVALID_ARGUMENT")
  \/ pointers /\ generation # 0 /\ ~active /\ Refuse("NOT_ACTIVE")
  \/ /\ pointers /\ generation # 0 /\ active /\ ~SameTarget(generation)
     /\ Refuse("STALE_TARGET")

EntryAccepted(pointers, generation) ==
  pointers /\ generation # 0 /\ active /\ SameTarget(generation)

StartResuming ==
  /\ failed_thread_id' = 0
  /\ pc' = "resuming"
  /\ index' = Len(thread_ids)
  /\ UNCHANGED <<active, target_generation, started_ms, deadline_ms,
                 owned_mask, thread_ids, rollback_failed, status, tried,
                 kernel, time>>

vc_pause_end(pointers, generation) ==
  /\ pc = "idle"
  /\ \/ EntryRefused(pointers, generation)
     \/ /\ EntryAccepted(pointers, generation)
        /\ StartResuming
        /\ UNCHANGED <<ticking, last_seen_ms>>

vc_pause_tick(pointers, generation) ==
  /\ pc = "idle"
  /\ \/ EntryRefused(pointers, generation)
     \/ /\ EntryAccepted(pointers, generation) /\ WithinWindow
        /\ Return("OK")
        /\ last_seen_ms' = clock
        /\ UNCHANGED transaction
     \/ /\ EntryAccepted(pointers, generation) /\ ~WithinWindow
        /\ StartResuming
        /\ ticking' = TRUE
        /\ last_seen_ms' = clock

KeepFailedResume_StopsLoop ==
  /\ failed_thread_id' = thread_ids[index]
  /\ index' = 0
  /\ UNCHANGED <<owned_mask, suspend_count>>

KeepFailedResume_Unreported ==
  /\ index' = index - 1
  /\ UNCHANGED <<owned_mask, suspend_count, failed_thread_id>>

\* A failed resume stays owned, the first one is reported, the loop goes on.
KeepFailedResume ==
  /\ failed_thread_id' =
       IF failed_thread_id = 0 THEN thread_ids[index] ELSE failed_thread_id
  /\ index' = index - 1
  /\ UNCHANGED <<owned_mask, suspend_count>>

\* A successful resume gives up the ownership of the position.
ResumeOwned ==
  /\ resume_thread(thread_ids[index])
  /\ owned_mask' = owned_mask \ {index}
  /\ index' = index - 1
  /\ UNCHANGED failed_thread_id

\* One turn of the resume loop.
ResumeNext ==
  /\ pc = "resuming"
  /\ index > 0
  /\ \/ /\ index \notin owned_mask
        /\ index' = index - 1
        /\ UNCHANGED <<owned_mask, failed_thread_id, suspend_count, tried>>
     \/ /\ index \in owned_mask
        /\ ResumeOwned \/ KeepFailedResume
        /\ tried' = tried \cup {index}
  /\ UNCHANGED <<active, target_generation, started_ms, deadline_ms,
                 thread_ids, pc, rollback_failed, ticking, status,
                 live_generation, foreign_count, time, last_seen_ms>>

ResumeStatus_ExpiredRegardless ==
  IF ticking THEN "EXPIRED"
  ELSE IF owned_mask # {} THEN "RESUME_FAILED" ELSE "OK"

\* vc_pause_tick turns the OK of vc_pause_end into EXPIRED.
ResumeStatus ==
  IF owned_mask # {} THEN "RESUME_FAILED"
  ELSE IF ticking THEN "EXPIRED" ELSE "OK"

ResumeDone ==
  /\ pc = "resuming"
  /\ index = 0
  /\ Return(ResumeStatus)
  /\ \/ owned_mask = {} /\ vc_pause_clear
     \/ owned_mask # {} /\ UNCHANGED <<transaction, last_seen_ms>>

vc_pause_abandon(pointers, generation) ==
  /\ pc = "idle"
  /\ \/ EntryRefused(pointers, generation)
     \/ /\ EntryAccepted(pointers, generation)
        /\ vc_pause_clear
        /\ Return("OK")

-----------------------------------------------------------------------------
(***************************************************************************)
(* The rest of the device.                                                 *)
(***************************************************************************)

\* The title exits and is launched again: a new process generation whose
\* thread IDs are recycled and whose threads nobody has suspended.
TitleRestarts ==
  /\ AtomicCalls => pc = "idle"
  /\ live_generation < MaxGeneration
  /\ live_generation' = live_generation + 1
  /\ suspend_count' = [t \in Threads |-> 0]
  /\ foreign_count' = [t \in Threads |-> 0]
  /\ UNCHANGED <<transaction, call, time, history>>

\* Another holder (a debugger, the game itself) suspends or resumes.
ForeignSuspend(t) ==
  /\ foreign_count[t] < MaxForeign
  /\ foreign_count' = [foreign_count EXCEPT ![t] = @ + 1]
  /\ suspend_count' = [suspend_count EXCEPT ![t] = @ + 1]
  /\ UNCHANGED <<transaction, call, live_generation, time, history>>

ForeignResume(t) ==
  /\ foreign_count[t] > 0
  /\ suspend_count[t] > 0
  /\ foreign_count' = [foreign_count EXCEPT ![t] = @ - 1]
  /\ suspend_count' = [suspend_count EXCEPT ![t] = @ - 1]
  /\ UNCHANGED <<transaction, call, live_generation, time, history>>

ClockAdvances ==
  /\ clock < TimeMax
  /\ clock' = clock + 1
  /\ UNCHANGED <<transaction, call, kernel, rollbacks, history>>

ClockRollsBack ==
  /\ rollbacks < MaxRollbacks
  /\ rollbacks' = rollbacks + 1
  /\ clock' \in 0 .. clock - 1
  /\ UNCHANGED <<transaction, call, kernel, history>>

-----------------------------------------------------------------------------
Init ==
  /\ active = FALSE
  /\ target_generation = 0
  /\ started_ms = 0
  /\ deadline_ms = 0
  /\ owned_mask = {}
  /\ thread_ids = <<>>
  /\ failed_thread_id = 0
  /\ pc = "idle"
  /\ index = 0
  /\ rollback_failed = FALSE
  /\ ticking = FALSE
  /\ status = "NONE"
  /\ live_generation = 1
  /\ suspend_count = [t \in Threads |-> 0]
  /\ foreign_count = [t \in Threads |-> 0]
  /\ clock \in 0 .. TimeMax
  /\ rollbacks = 0
  /\ last_seen_ms = 0
  /\ tried = {}

Calls ==
  \E pointers \in BOOLEAN :
    \/ \E generation \in GenerationArguments :
         \/ \E duration \in 0 .. MaxDuration + 1, list \in ThreadLists :
              vc_pause_begin(pointers, generation, duration, list)
         \/ vc_pause_end(pointers, generation)
         \/ vc_pause_tick(pointers, generation)
    \/ \E generation \in GoneGenerations :
         vc_pause_abandon(pointers, generation)

CallSteps ==
  \/ SuspendNext \/ BeginDone
  \/ RollbackNext \/ RollbackDone
  \/ ResumeNext \/ ResumeDone

Environment ==
  \/ TitleRestarts
  \/ \E t \in Threads : ForeignSuspend(t) \/ ForeignResume(t)
  \/ ClockAdvances
  \/ ClockRollsBack

Next == Calls \/ CallSteps \/ Environment

Spec == Init /\ [][Next]_vars

(***************************************************************************)
(* The watchdog "must call this regularly" (pause.h): it ticks with the    *)
(* generation it reads, and abandons a generation it has proved gone, both *)
(* strongly fair because they wait for other calls to return.  Time        *)
(* passes, a call in progress goes on, and a resume of one position that   *)
(* is retried forever succeeds.  end is not fair: a menu may never close.  *)
(***************************************************************************)
WatchdogTicks == vc_pause_tick(TRUE, live_generation)

WatchdogAbandons ==
  target_generation < live_generation /\ vc_pause_abandon(TRUE, target_generation)

ResumeSucceeds(i) ==
  /\ index = i
  /\ RollbackNext \/ ResumeNext
  /\ owned_mask' # owned_mask

Fairness ==
  /\ WF_vars(ClockAdvances)
  /\ WF_vars(CallSteps)
  /\ SF_vars(WatchdogTicks)
  /\ SF_vars(WatchdogAbandons)
  /\ \A i \in 1 .. MaxThreads : SF_vars(ResumeSucceeds(i))

FairSpec == Spec /\ Fairness

-----------------------------------------------------------------------------
(***************************************************************************)
(* Properties.                                                             *)
(***************************************************************************)

FlagsTypeOK ==
  /\ active \in BOOLEAN
  /\ rollback_failed \in BOOLEAN
  /\ ticking \in BOOLEAN

RecordTypeOK ==
  /\ target_generation \in 0 .. live_generation
  /\ started_ms \in 0 .. TimeMax
  /\ deadline_ms \in 0 .. TimeMax
  /\ thread_ids \in Seq(Int)
  /\ Len(thread_ids) <= MaxThreads
  /\ owned_mask \subseteq 1 .. Len(thread_ids)
  /\ failed_thread_id \in Int

CallTypeOK ==
  /\ pc \in Phases
  /\ index \in 0 .. Len(thread_ids)
  /\ status \in Statuses
  /\ tried \subseteq 1 .. Len(thread_ids)

DeviceTypeOK ==
  /\ live_generation \in 1 .. MaxGeneration
  /\ suspend_count \in [Threads -> Nat]
  /\ foreign_count \in [Threads -> Nat]
  /\ clock \in 0 .. TimeMax
  /\ rollbacks \in 0 .. MaxRollbacks
  /\ last_seen_ms \in 0 .. TimeMax

\* The fields of vc_pause_state and the kernel's counts stay in their ranges;
\* thread_ids never outgrows the fixed array VC_PAUSE_MAX_THREADS gives it,
\* and owned_mask has no bit beyond thread_count.
TypeOK == FlagsTypeOK /\ RecordTypeOK /\ CallTypeOK /\ DeviceTypeOK

\* The positions of the transaction that hold a suspension of thread t.
OwnedPositions(t) == {i \in owned_mask : thread_ids[i] = t}

\* The suspensions of t this transaction should account for: those of a
\* generation that is gone died with its process.
OwnedCount(t) ==
  IF target_generation = live_generation /\ OwnedPositions(t) # {} THEN 1 ELSE 0

\* Whatever fails, and whoever else suspends threads, a thread of the target
\* is held exactly once for each bit of owned_mask that names it: no
\* suspension acquired by vc_pause_begin is forgotten by a rollback, a retry
\* or a clear, and none of another holder's is released.
LedgerMatchesKernel ==
  \A t \in Threads : suspend_count[t] = foreign_count[t] + OwnedCount(t)

\* Between calls the transaction is active exactly when it owns something, so
\* the NOT_ACTIVE early return of vc_pause_end and vc_pause_tick never hides
\* a suspension, and no empty transaction blocks the next vc_pause_begin.
ActiveIffOwning == pc = "idle" => (active <=> owned_mask # {})

\* EXPIRED and SUSPEND_FAILED promise that nothing is held any more (the menu
\* must close); RESUME_FAILED and ROLLBACK_FAILED promise that the named
\* thread is still held and that the caller can retry.
StatusTellsTheTruth ==
  pc = "idle" =>
    /\ status \in {"EXPIRED", "SUSPEND_FAILED"} => ~active /\ owned_mask = {}
    /\ status \in {"RESUME_FAILED", "ROLLBACK_FAILED"} =>
         active /\ OwnedPositions(failed_thread_id) # {}

\* Between calls a transaction that holds only part of its allowlist always
\* names a thread in failed_thread_id: a half-paused game is never taken for
\* a paused one, after any number of failed retries.
PartialOwnershipReported ==
  pc = "idle" /\ active /\ failed_thread_id = 0 => owned_mask = 1 .. Len(thread_ids)

\* The window of an open transaction is not empty, does not wrap around
\* UINT64_MAX and is never longer than VC_PAUSE_MAX_DURATION_MS.
DeadlineSound ==
  active => started_ms < deadline_ms /\ deadline_ms - started_ms <= MaxDuration

\* The rollback loop of vc_pause_begin never meets a position it does not own.
RollbackOwnsPrefix == pc = "rolling_back" => 1 .. index \subseteq owned_mask

\* Positions a rollback or resume loop has passed and could not release.
Retained == owned_mask \ (1 .. index)

Releasing == pc \in {"rolling_back", "resuming"}

\* What the transaction record satisfies in every phase: it owns nothing when
\* it is not active, its allowlist has passed vc_pause_validate_threads, it
\* owns only threads the target has, and calls run only on an open one.
TransactionInv ==
  /\ active => target_generation # 0 /\ vc_pause_validate_threads(thread_ids)
  /\ ~active => owned_mask = {}
  /\ pc # "idle" => active
  /\ \A i \in owned_mask : thread_ids[i] \in Threads

\* Where the loops of vc_pause_begin and vc_pause_end are: the suspend loop
\* owns exactly what it has passed; a releasing loop has tried every position
\* it retains, and failed_thread_id (and rollback_failed) record the failure.
LoopInv ==
  /\ pc = "idle" => index = 0 /\ tried = {}
  /\ ~Releasing => ~rollback_failed
  /\ pc = "suspending" => owned_mask = 1 .. index /\ tried = {}
  /\ RollbackOwnsPrefix
  /\ pc = "rolling_back" => (rollback_failed <=> Retained # {})
  /\ Releasing =>
       /\ Retained \subseteq tried
       /\ Retained # {} => \E i \in Retained : thread_ids[i] = failed_thread_id
  /\ pc = "resuming" =>
       (Retained = {} => failed_thread_id = 0)

\* With AtomicCalls, a call in progress works on the live process.
GenerationInv ==
  AtomicCalls /\ pc # "idle" => target_generation = live_generation

\* The inductive invariant: every safety property below is a consequence of
\* it and of one step.
IInv ==
  /\ TypeOK
  /\ TransactionInv
  /\ LoopInv
  /\ GenerationInv
  /\ ActiveIffOwning
  /\ StatusTellsTheTruth
  /\ PartialOwnershipReported
  /\ DeadlineSound

\* While suspensions of the live process are retained, nothing replaces or
\* drops the record of them (generation, allowlist, window): vc_pause_begin
\* refuses on owned_mask, not only on active, no function clears it early, and
\* vc_pause_abandon cannot be reached with it.
TransactionPinned ==
  [][owned_mask # {} /\ target_generation = live_generation =>
       UNCHANGED <<target_generation, thread_ids, started_ms, deadline_ms>>]_vars

\* A call that gives suspensions back tries every position it still owns
\* when it returns: one failing resume does not strand the others.
EveryOwnedResumeTried ==
  [][pc' = "idle" /\ pc \in {"rolling_back", "resuming"} =>
       owned_mask' \subseteq tried]_vars

\* A callback that takes or gives back an owned suspension only ever touches
\* a thread of the generation the transaction was opened for, never a thread
\* of a later process that was given the same ID.
NoOperationOnRecycledThread ==
  [][suspend_count' # suspend_count /\ owned_mask' # owned_mask =>
       target_generation = live_generation]_vars

\* "A clock rollback is treated as expiry" (pause.h): a vc_pause_tick given
\* an earlier time than the transaction has seen starts to resume.
RollbackIsExpiry ==
  [][active /\ last_seen_ms' < last_seen_ms => pc' = "resuming" \/ ~active']_vars

\* The watchdog and the cleanup path end every pause, through failing
\* callbacks, backward clock jumps and restarts of the title.
PauseReleased == active ~> ~active
=============================================================================
