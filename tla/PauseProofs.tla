---------------------------- MODULE PauseProofs ----------------------------
(***************************************************************************)
(* Machine-checked proofs about Pause, for every number of threads, every  *)
(* allowlist, every width of the clock and any number of restarts, foreign *)
(* suspensions and clock jumps: its invariants, its action properties and, *)
(* last, that it implements PauseLedger.                                   *)
(***************************************************************************)
EXTENDS PauseRefinement, WellFoundedInduction, TLAPS

-----------------------------------------------------------------------------
(***************************************************************************)
(* Facts about allowlists.                                                 *)
(***************************************************************************)

\* A non-empty set of naturals has a least element.
LEMMA LeastNatural ==
  ASSUME NEW T \in SUBSET Nat, T # {}
  PROVE  \E n \in T : \A m \in T : n <= m
<1> DEFINE R == {p \in Nat \X Nat : p[1] < p[2]}
<1>1. IsWellFoundedOn(R, Nat)
  BY NatLessThanWellFounded DEF OpToRel
<1>2. \E n \in T : \A m \in T : ~(<<m, n>> \in R)
  <2> HIDE DEF R
  <2> QED BY <1>1, WFMin
<1>3. PICK n \in T : \A m \in T : ~(<<m, n>> \in R)
  BY <1>2
<1>4. \A m \in T : ~(m < n)
  BY <1>3
<1> QED BY <1>4

\* vc_pause_validate_threads compares neighbours only; the whole list is
\* nevertheless increasing, because a least position out of order would have
\* a neighbour in order.
LEMMA NeighboursSuffice ==
  ASSUME NEW list \in Seq(Int), StrictlyIncreasing(list),
         NEW i \in 1 .. Len(list), NEW j \in 1 .. Len(list), i < j
  PROVE  list[i] < list[j]
<1> DEFINE T == {k \in 1 .. Len(list) : i < k /\ ~(list[i] < list[k])}
<1> SUFFICES ASSUME T # {} PROVE FALSE
  BY DEF T
<1>1. T \in SUBSET Nat
  OBVIOUS
<1>2. PICK k \in T : \A m \in T : k <= m
  <2> HIDE DEF T
  <2> QED BY <1>1, LeastNatural
<1>3. k \in 1 .. Len(list) /\ k > 1 /\ k - 1 \in 1 .. Len(list)
  OBVIOUS
<1>4. list[k - 1] < list[k]
  BY <1>3 DEF StrictlyIncreasing
<1>5. k - 1 = i \/ list[i] < list[k - 1]
  BY <1>2, <1>3
<1> QED BY <1>3, <1>4, <1>5

\* A validated allowlist names no thread twice, so two bits of owned_mask
\* never stand for suspensions of the same thread.
LEMMA NoThreadTwice ==
  ASSUME NEW list \in Seq(Int), vc_pause_validate_threads(list),
         NEW i \in 1 .. Len(list), NEW j \in 1 .. Len(list),
         list[i] = list[j]
  PROVE  i = j
<1>1. StrictlyIncreasing(list)
  BY DEF vc_pause_validate_threads
<1>2. ~(i < j)
  BY <1>1, NeighboursSuffice
<1>3. ~(j < i)
  BY <1>1, NeighboursSuffice
<1> QED BY <1>2, <1>3

-----------------------------------------------------------------------------
(***************************************************************************)
(* The inductive invariant.                                                *)
(***************************************************************************)

\* The zeroed record of vc_pause_state_init satisfies the invariant.
LEMMA InitIInv == Init => IInv
<1> SUFFICES ASSUME Init PROVE IInv
  OBVIOUS
<1> USE PauseAssumption DEF Init
<1>1. TypeOK
  <2>0. FlagsTypeOK
    BY DEF TypeOK, FlagsTypeOK
  <2>1. RecordTypeOK
    BY DEF TypeOK, RecordTypeOK, CallTypeOK, DeviceTypeOK
  <2>2. CallTypeOK
    BY DEF TypeOK, RecordTypeOK, CallTypeOK, Phases, Statuses
  <2>3. DeviceTypeOK
    BY DEF TypeOK, DeviceTypeOK
  <2> QED BY <2>0, <2>1, <2>2, <2>3 DEF TypeOK
<1>2. TransactionInv /\ GenerationInv
  BY DEF TransactionInv, GenerationInv
<1>3. LoopInv
  BY DEF LoopInv, RollbackOwnsPrefix, Releasing
<1>4. ActiveIffOwning /\ StatusTellsTheTruth /\ PartialOwnershipReported
      /\ DeadlineSound
  BY DEF ActiveIffOwning, StatusTellsTheTruth, PartialOwnershipReported,
         DeadlineSound
<1> QED BY <1>1, <1>2, <1>3, <1>4 DEF IInv

Refusals == {"OK", "INVALID_ARGUMENT", "INVALID_THREADS", "ALREADY_ACTIVE",
             "NOT_ACTIVE", "STALE_TARGET"}

\* A call that returns at once and leaves the transaction alone: every early
\* return of the four functions, and a vc_pause_tick inside the window.
LEMMA EarlyReturn ==
  ASSUME IInv, pc = "idle", NEW s \in Refusals, Return(s),
         UNCHANGED transaction, last_seen_ms' \in 0 .. TimeMax
  PROVE  IInv'
<1> USE DEF IInv, Return, transaction, kernel, time
<1>1. TypeOK'
  <2>0. FlagsTypeOK'
    BY DEF TypeOK, FlagsTypeOK
  <2>1. RecordTypeOK'
    BY DEF TypeOK, RecordTypeOK, CallTypeOK, DeviceTypeOK
  <2>2. CallTypeOK'
    BY DEF TypeOK, RecordTypeOK, CallTypeOK, Phases, Statuses, Refusals
  <2>3. DeviceTypeOK'
    BY DEF TypeOK, DeviceTypeOK
  <2> QED BY <2>0, <2>1, <2>2, <2>3 DEF TypeOK
<1>2. TransactionInv' /\ GenerationInv'
  BY DEF TransactionInv, GenerationInv, vc_pause_validate_threads,
         StrictlyIncreasing
<1>3. LoopInv'
  BY DEF LoopInv, RollbackOwnsPrefix, Releasing
<1>4. ActiveIffOwning' /\ StatusTellsTheTruth' /\ PartialOwnershipReported'
      /\ DeadlineSound'
  BY DEF ActiveIffOwning, StatusTellsTheTruth, PartialOwnershipReported,
         DeadlineSound, Refusals
<1> QED BY <1>1, <1>2, <1>3, <1>4

\* A call that returns after clearing the record.
LEMMA ClearingReturn ==
  ASSUME IInv, NEW s \in Statuses \ {"RESUME_FAILED", "ROLLBACK_FAILED"},
         Return(s), vc_pause_clear
  PROVE  IInv'
<1> USE PauseAssumption DEF IInv, Return, vc_pause_clear, kernel, time
<1>1. TypeOK'
  <2>0. FlagsTypeOK'
    BY DEF TypeOK, FlagsTypeOK
  <2>1. RecordTypeOK'
    BY DEF TypeOK, RecordTypeOK, CallTypeOK, DeviceTypeOK
  <2>2. CallTypeOK'
    BY DEF TypeOK, RecordTypeOK, CallTypeOK, Phases, Statuses
  <2>3. DeviceTypeOK'
    BY DEF TypeOK, DeviceTypeOK
  <2> QED BY <2>0, <2>1, <2>2, <2>3 DEF TypeOK
<1>2. TransactionInv' /\ GenerationInv'
  BY DEF TransactionInv, GenerationInv
<1>3. LoopInv'
  BY DEF LoopInv, RollbackOwnsPrefix, Releasing
<1>4. ActiveIffOwning' /\ StatusTellsTheTruth' /\ PartialOwnershipReported'
      /\ DeadlineSound'
  BY DEF ActiveIffOwning, StatusTellsTheTruth, PartialOwnershipReported,
         DeadlineSound
<1> QED BY <1>1, <1>2, <1>3, <1>4

\* A step of the device that touches neither the record nor the call.
LEMMA DeviceStep ==
  ASSUME IInv, UNCHANGED <<transaction, call, history>>, DeviceTypeOK',
         live_generation' >= live_generation,
         AtomicCalls /\ pc # "idle" => UNCHANGED live_generation
  PROVE  IInv'
<1> USE DEF IInv, transaction, call, history
<1>1. TypeOK'
  <2>0. FlagsTypeOK'
    BY DEF TypeOK, FlagsTypeOK
  <2>1. RecordTypeOK'
    BY DEF TypeOK, RecordTypeOK, CallTypeOK, DeviceTypeOK
  <2>2. CallTypeOK'
    BY DEF TypeOK, RecordTypeOK, CallTypeOK, Phases, Statuses
  <2>3. DeviceTypeOK'
    BY DEF TypeOK
  <2> QED BY <2>0, <2>1, <2>2, <2>3 DEF TypeOK
<1>2. TransactionInv' /\ GenerationInv'
  BY DEF TransactionInv, GenerationInv, vc_pause_validate_threads,
         StrictlyIncreasing
<1>3. LoopInv'
  BY DEF LoopInv, RollbackOwnsPrefix, Releasing, Retained
<1>4. ActiveIffOwning' /\ StatusTellsTheTruth' /\ PartialOwnershipReported'
      /\ DeadlineSound'
  BY DEF ActiveIffOwning, StatusTellsTheTruth, PartialOwnershipReported,
         DeadlineSound, OwnedPositions
<1> QED BY <1>1, <1>2, <1>3, <1>4

\* The set-up of vc_pause_begin once its arguments have been accepted.
LEMMA BeginIInv ==
  ASSUME IInv, NEW pointers \in BOOLEAN, NEW generation \in GenerationArguments,
         NEW duration \in 0 .. MaxDuration + 1, NEW list \in ThreadLists,
         vc_pause_begin(pointers, generation, duration, list)
  PROVE  IInv'
<1> USE PauseAssumption DEF IInv
<1>0. pc = "idle" /\ last_seen_ms \in 0 .. TimeMax
  BY DEF vc_pause_begin, TypeOK, DeviceTypeOK
<1>a. CASE \E s \in Refusals : Refuse(s)
  BY <1>0, <1>a, EarlyReturn DEF Refuse
<1>b. CASE ~ \E s \in Refusals : Refuse(s)
  <2> DEFINE valid == BeginArgumentsValid(pointers, generation, duration)
  <2>1. /\ valid /\ vc_pause_validate_threads(list)
        /\ active' = TRUE
        /\ target_generation' = generation
        /\ started_ms' = clock
        /\ deadline_ms' = WrappingSum(clock, duration)
        /\ owned_mask' = {}
        /\ thread_ids' = list
        /\ failed_thread_id' = 0
        /\ last_seen_ms' = clock
        /\ pc' = "suspending"
        /\ UNCHANGED <<index, rollback_failed, ticking, status, tried,
                       kernel, time>>
    BY <1>b DEF vc_pause_begin, Refusals
  <2>2. generation \in 1 .. live_generation /\ deadline_ms' = clock + duration
        /\ duration \in 1 .. MaxDuration /\ deadline_ms' \in 0 .. TimeMax
    BY <2>1 DEF BeginArgumentsValid, WrappingSum, GenerationArguments, TypeOK,
                DeviceTypeOK
  <2>3. list \in Seq(Int) /\ Len(list) <= MaxThreads /\ index = 0 /\ tried = {}
    BY <1>0, <2>1 DEF vc_pause_validate_threads, LoopInv
  <2> HIDE DEF valid
  <2>4. TypeOK'
    <3>0. FlagsTypeOK'
      BY <2>1 DEF TypeOK, FlagsTypeOK
    <3>1. RecordTypeOK'
      BY <2>1, <2>2, <2>3 DEF TypeOK, RecordTypeOK, DeviceTypeOK, kernel
    <3>2. CallTypeOK'
      BY <2>1, <2>3 DEF TypeOK, CallTypeOK, Phases
    <3>3. DeviceTypeOK'
      BY <2>1 DEF TypeOK, DeviceTypeOK, kernel, time
    <3> QED BY <3>0, <3>1, <3>2, <3>3 DEF TypeOK
  <2>5. TransactionInv' /\ GenerationInv'
    BY <2>1, <2>2 DEF TransactionInv, GenerationInv, GenerationArguments,
                vc_pause_validate_threads, StrictlyIncreasing, kernel
  <2>6. LoopInv'
    BY <1>0, <2>1, <2>3 DEF LoopInv, RollbackOwnsPrefix, Releasing
  <2>7. ActiveIffOwning' /\ StatusTellsTheTruth' /\ PartialOwnershipReported'
    BY <2>1 DEF ActiveIffOwning, StatusTellsTheTruth, PartialOwnershipReported
  <2>8. DeadlineSound'
    BY <2>1, <2>2 DEF DeadlineSound, TypeOK, DeviceTypeOK
  <2> QED BY <2>4, <2>5, <2>6, <2>7, <2>8
<1> QED BY <1>a, <1>b

\* The entry of vc_pause_end, also as reached from vc_pause_tick: no position
\* has been passed yet, so nothing is retained.
LEMMA StartResumingIInv ==
  ASSUME IInv, pc = "idle", active, target_generation = live_generation,
         StartResuming, ticking' \in BOOLEAN, last_seen_ms' \in 0 .. TimeMax
  PROVE  IInv'
<1> USE DEF IInv, StartResuming, kernel, time
<1>1. TypeOK'
  <2>0. FlagsTypeOK'
    BY DEF TypeOK, FlagsTypeOK
  <2>1. RecordTypeOK'
    BY DEF TypeOK, RecordTypeOK, CallTypeOK, DeviceTypeOK
  <2>2. CallTypeOK'
    BY DEF TypeOK, RecordTypeOK, CallTypeOK, Phases, Statuses
  <2>3. DeviceTypeOK'
    BY DEF TypeOK, DeviceTypeOK
  <2> QED BY <2>0, <2>1, <2>2, <2>3 DEF TypeOK
<1>2. TransactionInv' /\ GenerationInv'
  BY DEF TransactionInv, GenerationInv, vc_pause_validate_threads,
         StrictlyIncreasing
<1>3. LoopInv'
  <2>1. Retained' = {}
    BY DEF Retained, TypeOK, RecordTypeOK
  <2> QED BY <2>1 DEF LoopInv, RollbackOwnsPrefix, Releasing
<1>4. ActiveIffOwning' /\ StatusTellsTheTruth' /\ PartialOwnershipReported'
      /\ DeadlineSound'
  BY DEF ActiveIffOwning, StatusTellsTheTruth, PartialOwnershipReported,
         DeadlineSound
<1> QED BY <1>1, <1>2, <1>3, <1>4

\* The checks shared by end, tick and abandon leave the record alone.
LEMMA EntryRefusedIInv ==
  ASSUME IInv, pc = "idle", NEW pointers, NEW generation,
         EntryRefused(pointers, generation)
  PROVE  IInv'
<1>1. PICK s \in Refusals : Refuse(s)
  BY DEF EntryRefused, Refusals
<1>2. last_seen_ms \in 0 .. TimeMax
  BY DEF IInv, TypeOK, DeviceTypeOK
<1> QED BY <1>1, <1>2, EarlyReturn DEF Refuse

\* A generation argument that passes the checks names the live process.
LEMMA AcceptedIsLive ==
  ASSUME NEW pointers, NEW generation \in GenerationArguments,
         EntryAccepted(pointers, generation)
  PROVE  active /\ target_generation = live_generation
BY DEF EntryAccepted, SameTarget, GenerationArguments

LEMMA EndIInv ==
  ASSUME IInv, NEW pointers \in BOOLEAN, NEW generation \in GenerationArguments,
         vc_pause_end(pointers, generation)
  PROVE  IInv'
<1>1. pc = "idle" /\ ticking \in BOOLEAN /\ last_seen_ms \in 0 .. TimeMax
  BY DEF IInv, TypeOK, FlagsTypeOK, DeviceTypeOK, vc_pause_end
<1>2. CASE EntryRefused(pointers, generation)
  BY <1>1, <1>2, EntryRefusedIInv
<1>3. CASE /\ EntryAccepted(pointers, generation)
           /\ StartResuming
           /\ UNCHANGED <<ticking, last_seen_ms>>
  BY <1>1, <1>3, AcceptedIsLive, StartResumingIInv
<1> QED BY <1>2, <1>3 DEF vc_pause_end

LEMMA TickIInv ==
  ASSUME IInv, NEW pointers \in BOOLEAN, NEW generation \in GenerationArguments,
         vc_pause_tick(pointers, generation)
  PROVE  IInv'
<1>1. pc = "idle" /\ clock \in 0 .. TimeMax
  BY DEF IInv, TypeOK, DeviceTypeOK, vc_pause_tick
<1>2. CASE EntryRefused(pointers, generation)
  BY <1>1, <1>2, EntryRefusedIInv
<1>3. CASE Return("OK") /\ last_seen_ms' = clock /\ UNCHANGED transaction
  BY <1>1, <1>3, EarlyReturn DEF Refusals
<1>4. CASE /\ EntryAccepted(pointers, generation)
           /\ StartResuming
           /\ ticking' = TRUE
           /\ last_seen_ms' = clock
  BY <1>1, <1>4, AcceptedIsLive, StartResumingIInv
<1> QED BY <1>2, <1>3, <1>4 DEF vc_pause_tick

LEMMA AbandonIInv ==
  ASSUME IInv, NEW pointers \in BOOLEAN, NEW generation \in GoneGenerations,
         vc_pause_abandon(pointers, generation)
  PROVE  IInv'
<1>1. pc = "idle"
  BY DEF vc_pause_abandon
<1>2. CASE EntryRefused(pointers, generation)
  BY <1>1, <1>2, EntryRefusedIInv
<1>3. CASE vc_pause_clear /\ Return("OK")
  BY <1>3, ClearingReturn DEF Statuses
<1> QED BY <1>2, <1>3 DEF vc_pause_abandon

LEMMA SuspendNextIInv ==
  ASSUME IInv, SuspendNext
  PROVE  IInv'
<1> DEFINE t == thread_ids[index + 1]
<1> USE DEF IInv, SuspendNext, time, history
<1>0. /\ active /\ owned_mask = 1 .. index /\ tried = {} /\ ~rollback_failed
      /\ index \in Nat /\ index < Len(thread_ids) /\ thread_ids \in Seq(Int)
      /\ t \in Int
  BY DEF TransactionInv, LoopInv, Releasing, TypeOK, RecordTypeOK, CallTypeOK
<1>1. CASE /\ suspend_thread(t)
           /\ owned_mask' = owned_mask \cup {index + 1}
           /\ index' = index + 1
           /\ UNCHANGED <<failed_thread_id, pc>>
  <2> USE <1>0, <1>1
  <2>1. owned_mask' = 1 .. index'
    OBVIOUS
  <2>2. TypeOK'
    <3>0. FlagsTypeOK'
      BY DEF TypeOK, FlagsTypeOK
    <3>1. RecordTypeOK'
      BY DEF TypeOK, RecordTypeOK
    <3>2. CallTypeOK'
      BY DEF TypeOK, CallTypeOK
    <3>3. DeviceTypeOK'
      BY DEF TypeOK, DeviceTypeOK, suspend_thread
    <3> QED BY <3>0, <3>1, <3>2, <3>3 DEF TypeOK
  <2>3. TransactionInv' /\ GenerationInv'
    BY DEF TransactionInv, GenerationInv, vc_pause_validate_threads,
           StrictlyIncreasing, suspend_thread
  <2>4. LoopInv'
    BY <2>1 DEF LoopInv, RollbackOwnsPrefix, Releasing
  <2>5. ActiveIffOwning' /\ StatusTellsTheTruth' /\ PartialOwnershipReported'
        /\ DeadlineSound'
    BY DEF ActiveIffOwning, StatusTellsTheTruth, PartialOwnershipReported,
           DeadlineSound
  <2> QED BY <2>2, <2>3, <2>4, <2>5
<1>2. CASE /\ failed_thread_id' = t
           /\ pc' = "rolling_back"
           /\ UNCHANGED <<owned_mask, index, suspend_count>>
  <2> USE <1>0, <1>2
  <2>2. TypeOK'
    <3>0. FlagsTypeOK'
      BY DEF TypeOK, FlagsTypeOK
    <3>1. RecordTypeOK'
      BY DEF TypeOK, RecordTypeOK
    <3>2. CallTypeOK'
      BY DEF TypeOK, CallTypeOK, Phases
    <3>3. DeviceTypeOK'
      BY DEF TypeOK, DeviceTypeOK
    <3> QED BY <3>0, <3>1, <3>2, <3>3 DEF TypeOK
  <2>3. TransactionInv' /\ GenerationInv'
    BY DEF TransactionInv, GenerationInv, vc_pause_validate_threads,
           StrictlyIncreasing
  <2>4. LoopInv'
    BY DEF LoopInv, RollbackOwnsPrefix, Releasing, Retained
  <2>5. ActiveIffOwning' /\ StatusTellsTheTruth' /\ PartialOwnershipReported'
        /\ DeadlineSound'
    BY DEF ActiveIffOwning, StatusTellsTheTruth, PartialOwnershipReported,
           DeadlineSound
  <2> QED BY <2>2, <2>3, <2>4, <2>5
<1> QED BY <1>1, <1>2

\* vc_pause_begin returns OK owning the whole allowlist, which is not empty.
LEMMA BeginDoneIInv ==
  ASSUME IInv, BeginDone
  PROVE  IInv'
<1> USE DEF IInv, BeginDone, Return, kernel, time
<1>0. active /\ owned_mask = 1 .. Len(thread_ids) /\ Len(thread_ids) \in Nat \ {0}
      /\ 1 \in owned_mask
  BY DEF LoopInv, TransactionInv, vc_pause_validate_threads, TypeOK, RecordTypeOK
<1>1. TypeOK'
  <2>0. FlagsTypeOK'
    BY DEF TypeOK, FlagsTypeOK
  <2>1. RecordTypeOK'
    BY DEF TypeOK, RecordTypeOK, CallTypeOK, DeviceTypeOK
  <2>2. CallTypeOK'
    BY DEF TypeOK, RecordTypeOK, CallTypeOK, Phases, Statuses
  <2>3. DeviceTypeOK'
    BY DEF TypeOK, DeviceTypeOK
  <2> QED BY <2>0, <2>1, <2>2, <2>3 DEF TypeOK
<1>2. TransactionInv' /\ GenerationInv'
  BY <1>0 DEF TransactionInv, GenerationInv, vc_pause_validate_threads,
         StrictlyIncreasing
<1>3. LoopInv'
  BY DEF LoopInv, RollbackOwnsPrefix, Releasing
<1>4. ActiveIffOwning' /\ StatusTellsTheTruth' /\ PartialOwnershipReported'
      /\ DeadlineSound'
  BY <1>0 DEF ActiveIffOwning, StatusTellsTheTruth, PartialOwnershipReported,
         DeadlineSound
<1> QED BY <1>1, <1>2, <1>3, <1>4

\* One turn of the rollback loop: a released position leaves owned_mask, a
\* retained one is tried, recorded and named.
LEMMA RollbackNextIInv ==
  ASSUME IInv, RollbackNext
  PROVE  IInv'
<1> USE DEF IInv, RollbackNext, time
<1>0. /\ active /\ index \in owned_mask /\ index \in 1 .. Len(thread_ids)
      /\ 1 .. index \subseteq owned_mask
      /\ thread_ids \in Seq(Int) /\ thread_ids[index] \in Int
      /\ owned_mask \subseteq 1 .. Len(thread_ids)
      /\ thread_ids[index] \in Threads
  BY DEF TransactionInv, LoopInv, RollbackOwnsPrefix, TypeOK, RecordTypeOK,
         CallTypeOK
<1>1. CASE /\ resume_thread(thread_ids[index])
           /\ owned_mask' = owned_mask \ {index}
           /\ UNCHANGED <<failed_thread_id, rollback_failed>>
  <2> USE <1>0, <1>1
  <2>1. Retained' = Retained
    BY DEF Retained
  <2>2. TypeOK'
    <3>0. FlagsTypeOK'
      BY DEF TypeOK, FlagsTypeOK
    <3>1. RecordTypeOK'
      BY DEF TypeOK, RecordTypeOK
    <3>2. CallTypeOK'
      BY DEF TypeOK, CallTypeOK
    <3>3. DeviceTypeOK'
      BY DEF TypeOK, DeviceTypeOK, resume_thread
    <3> QED BY <3>0, <3>1, <3>2, <3>3 DEF TypeOK
  <2>3. TransactionInv' /\ GenerationInv'
    BY DEF TransactionInv, GenerationInv, vc_pause_validate_threads,
           StrictlyIncreasing
  <2>4. LoopInv'
    BY <2>1 DEF LoopInv, RollbackOwnsPrefix, Releasing
  <2>5. ActiveIffOwning' /\ StatusTellsTheTruth' /\ PartialOwnershipReported'
        /\ DeadlineSound'
    BY DEF ActiveIffOwning, StatusTellsTheTruth, PartialOwnershipReported,
           DeadlineSound
  <2> QED BY <2>2, <2>3, <2>4, <2>5
<1>2. CASE /\ failed_thread_id' = thread_ids[index]
           /\ rollback_failed' = TRUE
           /\ UNCHANGED <<owned_mask, suspend_count>>
  <2> USE <1>0, <1>2
  <2>1. Retained' = Retained \cup {index}
    BY DEF Retained
  <2>2. TypeOK'
    <3>0. FlagsTypeOK'
      BY DEF TypeOK, FlagsTypeOK
    <3>1. RecordTypeOK'
      BY DEF TypeOK, RecordTypeOK
    <3>2. CallTypeOK'
      BY DEF TypeOK, CallTypeOK
    <3>3. DeviceTypeOK'
      BY DEF TypeOK, DeviceTypeOK
    <3> QED BY <3>0, <3>1, <3>2, <3>3 DEF TypeOK
  <2>3. TransactionInv' /\ GenerationInv'
    BY DEF TransactionInv, GenerationInv, vc_pause_validate_threads,
           StrictlyIncreasing
  <2>4. LoopInv'
    BY <2>1 DEF LoopInv, RollbackOwnsPrefix, Releasing
  <2>5. ActiveIffOwning' /\ StatusTellsTheTruth' /\ PartialOwnershipReported'
        /\ DeadlineSound'
    BY DEF ActiveIffOwning, StatusTellsTheTruth, PartialOwnershipReported,
           DeadlineSound
  <2> QED BY <2>2, <2>3, <2>4, <2>5
<1> QED BY <1>1, <1>2

\* A transaction that keeps suspensions when its call returns has tried all
\* of them and names one.
LEMMA RetainingReturn ==
  ASSUME IInv, Releasing, index = 0, owned_mask # {},
         NEW s \in {"RESUME_FAILED", "ROLLBACK_FAILED"}, Return(s),
         UNCHANGED <<transaction, last_seen_ms>>
  PROVE  IInv'
<1> USE DEF IInv, Return, transaction, kernel, time
<1>0. /\ active /\ Retained = owned_mask
      /\ \E i \in owned_mask : thread_ids[i] = failed_thread_id
  BY DEF TransactionInv, LoopInv, Releasing, Retained
<1>0a. failed_thread_id # 0
  BY <1>0 DEF TransactionInv, vc_pause_validate_threads, TypeOK, RecordTypeOK
<1>1. TypeOK'
  <2>0. FlagsTypeOK'
    BY DEF TypeOK, FlagsTypeOK
  <2>1. RecordTypeOK'
    BY DEF TypeOK, RecordTypeOK
  <2>2. CallTypeOK'
    BY DEF TypeOK, RecordTypeOK, CallTypeOK, Phases, Statuses
  <2>3. DeviceTypeOK'
    BY DEF TypeOK, DeviceTypeOK
  <2> QED BY <2>0, <2>1, <2>2, <2>3 DEF TypeOK
<1>2. TransactionInv' /\ GenerationInv'
  BY <1>0 DEF TransactionInv, GenerationInv, vc_pause_validate_threads,
         StrictlyIncreasing
<1>3. LoopInv'
  BY DEF LoopInv, RollbackOwnsPrefix, Releasing
<1>4. ActiveIffOwning' /\ PartialOwnershipReported' /\ DeadlineSound'
  BY <1>0, <1>0a DEF ActiveIffOwning, PartialOwnershipReported, DeadlineSound
<1>5. StatusTellsTheTruth'
  BY <1>0 DEF StatusTellsTheTruth, OwnedPositions
<1> QED BY <1>1, <1>2, <1>3, <1>4, <1>5

LEMMA RollbackDoneIInv ==
  ASSUME IInv, RollbackDone
  PROVE  IInv'
<1>1. CASE owned_mask = {} /\ vc_pause_clear
  BY <1>1, ClearingReturn DEF RollbackDone, RollbackStatus, Statuses
<1>2. CASE owned_mask # {} /\ UNCHANGED <<transaction, last_seen_ms>>
  <2>1. rollback_failed
    BY <1>2 DEF IInv, LoopInv, Retained, RollbackDone
  <2> QED BY <1>2, <2>1, RetainingReturn
          DEF RollbackDone, RollbackStatus, Releasing
<1> QED BY <1>1, <1>2 DEF RollbackDone

\* One turn of the resume loop, over positions that earlier calls may already
\* have released.
LEMMA ResumeNextIInv ==
  ASSUME IInv, ResumeNext
  PROVE  IInv'
<1> USE DEF IInv, ResumeNext, time
<1>0. /\ active /\ index \in 1 .. Len(thread_ids)
      /\ thread_ids \in Seq(Int) /\ thread_ids[index] \in Int
      /\ owned_mask \subseteq 1 .. Len(thread_ids)
      /\ thread_ids[index] # 0
  BY DEF TransactionInv, vc_pause_validate_threads, TypeOK, RecordTypeOK,
         CallTypeOK
<1>1. CASE /\ index \notin owned_mask
           /\ index' = index - 1
           /\ UNCHANGED <<owned_mask, failed_thread_id, suspend_count, tried>>
  <2> USE <1>0, <1>1
  <2>1. Retained' = Retained
    BY DEF Retained
  <2>2. TypeOK'
    <3>0. FlagsTypeOK'
      BY DEF TypeOK, FlagsTypeOK
    <3>1. RecordTypeOK'
      BY DEF TypeOK, RecordTypeOK
    <3>2. CallTypeOK'
      BY DEF TypeOK, CallTypeOK
    <3>3. DeviceTypeOK'
      BY DEF TypeOK, DeviceTypeOK
    <3> QED BY <3>0, <3>1, <3>2, <3>3 DEF TypeOK
  <2>3. TransactionInv' /\ GenerationInv'
    BY DEF TransactionInv, GenerationInv, vc_pause_validate_threads,
           StrictlyIncreasing
  <2>4. LoopInv'
    BY <2>1 DEF LoopInv, RollbackOwnsPrefix, Releasing
  <2>5. ActiveIffOwning' /\ StatusTellsTheTruth' /\ PartialOwnershipReported'
        /\ DeadlineSound'
    BY DEF ActiveIffOwning, StatusTellsTheTruth, PartialOwnershipReported,
           DeadlineSound
  <2> QED BY <2>2, <2>3, <2>4, <2>5
<1>2. CASE index \in owned_mask /\ ResumeOwned /\ tried' = tried \cup {index}
  <2> USE <1>0, <1>2 DEF ResumeOwned
  <2>0. thread_ids[index] \in Threads
    BY DEF TransactionInv
  <2>1. Retained' = Retained
    BY DEF Retained
  <2>2. TypeOK'
    <3>0. FlagsTypeOK'
      BY DEF TypeOK, FlagsTypeOK
    <3>1. RecordTypeOK'
      BY DEF TypeOK, RecordTypeOK
    <3>2. CallTypeOK'
      BY DEF TypeOK, CallTypeOK
    <3>3. DeviceTypeOK'
      BY SMTT(30), <2>0 DEF TypeOK, DeviceTypeOK, resume_thread
    <3> QED BY <3>0, <3>1, <3>2, <3>3 DEF TypeOK
  <2>3. TransactionInv' /\ GenerationInv'
    BY DEF TransactionInv, GenerationInv, vc_pause_validate_threads,
           StrictlyIncreasing
  <2>4. LoopInv'
    BY <2>1 DEF LoopInv, RollbackOwnsPrefix, Releasing
  <2>5. ActiveIffOwning' /\ StatusTellsTheTruth' /\ PartialOwnershipReported'
        /\ DeadlineSound'
    BY DEF ActiveIffOwning, StatusTellsTheTruth, PartialOwnershipReported,
           DeadlineSound
  <2> QED BY <2>2, <2>3, <2>4, <2>5
<1>3. CASE index \in owned_mask /\ KeepFailedResume /\ tried' = tried \cup {index}
  <2> USE <1>0, <1>3 DEF KeepFailedResume
  <2>1. Retained' = Retained \cup {index}
    BY DEF Retained
  <2>2. TypeOK'
    <3>0. FlagsTypeOK'
      BY DEF TypeOK, FlagsTypeOK
    <3>1. RecordTypeOK'
      BY DEF TypeOK, RecordTypeOK
    <3>2. CallTypeOK'
      BY DEF TypeOK, CallTypeOK
    <3>3. DeviceTypeOK'
      BY DEF TypeOK, DeviceTypeOK
    <3> QED BY <3>0, <3>1, <3>2, <3>3 DEF TypeOK
  <2>3. TransactionInv' /\ GenerationInv'
    BY DEF TransactionInv, GenerationInv, vc_pause_validate_threads,
           StrictlyIncreasing
  <2>4. LoopInv'
    BY <2>1 DEF LoopInv, RollbackOwnsPrefix, Releasing
  <2>5. ActiveIffOwning' /\ StatusTellsTheTruth' /\ PartialOwnershipReported'
        /\ DeadlineSound'
    BY DEF ActiveIffOwning, StatusTellsTheTruth, PartialOwnershipReported,
           DeadlineSound
  <2> QED BY <2>2, <2>3, <2>4, <2>5
<1> QED BY <1>1, <1>2, <1>3

LEMMA ResumeDoneIInv ==
  ASSUME IInv, ResumeDone
  PROVE  IInv'
<1>1. CASE owned_mask = {} /\ vc_pause_clear
  BY <1>1, ClearingReturn DEF ResumeDone, ResumeStatus, Statuses
<1>2. CASE owned_mask # {} /\ UNCHANGED <<transaction, last_seen_ms>>
  BY <1>2, RetainingReturn DEF ResumeDone, ResumeStatus, Releasing
<1> QED BY <1>1, <1>2 DEF ResumeDone

LEMMA EnvironmentIInv ==
  ASSUME IInv, Environment
  PROVE  IInv'
<1> USE PauseAssumption DEF IInv, TypeOK, DeviceTypeOK
<1>1. CASE TitleRestarts
  <2>1. DeviceTypeOK'
    BY <1>1 DEF TitleRestarts, time, history
  <2> QED BY <1>1, <2>1, DeviceStep DEF TitleRestarts
<1>2. CASE \E t \in Threads : ForeignSuspend(t)
  <2>1. DeviceTypeOK'
    BY <1>2 DEF ForeignSuspend, time, history
  <2> QED BY SMTT(30), <1>2, <2>1, DeviceStep DEF ForeignSuspend
<1>3. CASE \E t \in Threads : ForeignResume(t)
  <2>1. DeviceTypeOK'
    BY <1>3 DEF ForeignResume, time, history
  <2> QED BY SMTT(30), <1>3, <2>1, DeviceStep DEF ForeignResume
<1>4. CASE ClockAdvances
  <2>1. DeviceTypeOK'
    BY <1>4 DEF ClockAdvances, kernel, history
  <2> QED BY <1>4, <2>1, DeviceStep DEF ClockAdvances, kernel
<1>5. CASE ClockRollsBack
  <2>1. DeviceTypeOK'
    BY <1>5 DEF ClockRollsBack, kernel, history
  <2> QED BY <1>5, <2>1, DeviceStep DEF ClockRollsBack, kernel
<1> QED BY <1>1, <1>2, <1>3, <1>4, <1>5 DEF Environment

\* Every step of a call, of a loop or of the device keeps the invariant.
LEMMA NextIInv == IInv /\ [Next]_vars => IInv'
<1> SUFFICES ASSUME IInv, [Next]_vars PROVE IInv'
  OBVIOUS
<1>1. CASE Calls
  BY <1>1, BeginIInv, EndIInv, TickIInv, AbandonIInv DEF Calls
<1>2. CASE CallSteps
  BY <1>2, SuspendNextIInv, BeginDoneIInv, RollbackNextIInv, RollbackDoneIInv,
     ResumeNextIInv, ResumeDoneIInv DEF CallSteps
<1>3. CASE Environment
  BY <1>3, EnvironmentIInv
<1>4. CASE UNCHANGED vars
  <2>1. DeviceTypeOK'
    BY <1>4 DEF IInv, TypeOK, DeviceTypeOK, vars, kernel, time, history
  <2>2. live_generation \in Nat
    BY DEF IInv, TypeOK, DeviceTypeOK
  <2> QED BY <1>4, <2>1, <2>2, DeviceStep DEF vars, kernel
<1> QED BY <1>1, <1>2, <1>3, <1>4 DEF Next

-----------------------------------------------------------------------------
(***************************************************************************)
(* Theorems.                                                               *)
(***************************************************************************)

\* The invariant holds throughout every behaviour of the pause transaction.
THEOREM InductiveInvariant == Spec => []IInv
<1>1. Init => IInv
  BY InitIInv
<1>2. IInv /\ [Next]_vars => IInv'
  BY NextIInv
<1> QED BY <1>1, <1>2, PTL DEF Spec

\* Type correctness of vc_pause_state and of the loops: the thread array and
\* the ownership mask are never indexed outside thread_count.
THEOREM TypeCorrect == Spec => []TypeOK
<1>1. IInv => TypeOK
  BY DEF IInv
<1> QED BY <1>1, InductiveInvariant, PTL

\* Between calls the record is active exactly when it owns suspensions.
THEOREM ActiveExactlyWhenOwning == Spec => []ActiveIffOwning
<1>1. IInv => ActiveIffOwning
  BY DEF IInv
<1> QED BY <1>1, InductiveInvariant, PTL

\* What EXPIRED, SUSPEND_FAILED, RESUME_FAILED and ROLLBACK_FAILED promise.
THEOREM StatusIsTruthful == Spec => []StatusTellsTheTruth
<1>1. IInv => StatusTellsTheTruth
  BY DEF IInv
<1> QED BY <1>1, InductiveInvariant, PTL

\* A half-paused target is always reported in failed_thread_id.
THEOREM PartialOwnershipIsReported == Spec => []PartialOwnershipReported
<1>1. IInv => PartialOwnershipReported
  BY DEF IInv
<1> QED BY <1>1, InductiveInvariant, PTL

\* The deadline arithmetic neither wraps nor exceeds the longest duration.
THEOREM DeadlineIsSound == Spec => []DeadlineSound
<1>1. IInv => DeadlineSound
  BY DEF IInv
<1> QED BY <1>1, InductiveInvariant, PTL

-----------------------------------------------------------------------------
(***************************************************************************)
(* The suspension ledger.                                                  *)
(***************************************************************************)

\* A step that changes no count, and keeps what the record accounts for.
LEMMA LedgerKept ==
  ASSUME LedgerMatchesKernel, UNCHANGED <<suspend_count, foreign_count>>,
         \A t \in Threads : OwnedCount(t)' = OwnedCount(t)
  PROVE  LedgerMatchesKernel'
BY DEF LedgerMatchesKernel

\* Releasing or forgetting nothing: both records own no suspension of the live
\* process.
LEMMA NothingOwned ==
  ASSUME owned_mask = {} \/ target_generation # live_generation
  PROVE  \A t \in Threads : OwnedCount(t) = 0
BY DEF OwnedCount, OwnedPositions

\* A successful suspend callback of vc_pause_begin and the bit it sets.
LEMMA SuspendLedger ==
  ASSUME IInv, AtomicCalls, LedgerMatchesKernel, pc = "suspending",
         index < Len(thread_ids), suspend_thread(thread_ids[index + 1]),
         owned_mask' = owned_mask \cup {index + 1},
         UNCHANGED <<thread_ids, target_generation, live_generation, foreign_count>>
  PROVE  LedgerMatchesKernel'
<1>0. /\ owned_mask = 1 .. index /\ index \in Nat /\ index + 1 \in 1 .. Len(thread_ids)
      /\ thread_ids \in Seq(Int) /\ vc_pause_validate_threads(thread_ids)
      /\ target_generation = live_generation
      /\ thread_ids[index + 1] \in Threads /\ suspend_count \in [Threads -> Nat]
      /\ foreign_count \in [Threads -> Nat]
  BY SMTT(30) DEF IInv, TypeOK, RecordTypeOK, CallTypeOK, DeviceTypeOK, TransactionInv,
         LoopInv, GenerationInv, suspend_thread
<1>a. PICK t \in Threads : t = thread_ids[index + 1]
  BY <1>0
<1>1. \A i \in owned_mask : i \in 1 .. Len(thread_ids) /\ i # index + 1
  BY <1>0
<1>2. OwnedPositions(t) = {}
  <2>1. ASSUME NEW i \in owned_mask PROVE thread_ids[i] # t
    BY <1>0, <1>a, <1>1, NoThreadTwice
  <2> QED BY <2>1 DEF OwnedPositions
<1>3. OwnedPositions(t)' = {index + 1}
  BY <1>a, <1>2 DEF OwnedPositions
<1>4. OwnedCount(t) = 0 /\ OwnedCount(t)' = 1
  BY <1>0, <1>2, <1>3 DEF OwnedCount
<1>5. \A u \in Threads : u # t => OwnedPositions(u)' = OwnedPositions(u)
  BY <1>a DEF OwnedPositions
<1>6. \A u \in Threads : u # t => OwnedCount(u)' = OwnedCount(u)
  BY <1>5 DEF OwnedCount
<1>7. \A u \in Threads : suspend_count'[u] = suspend_count[u] + (IF u = t THEN 1 ELSE 0)
  BY <1>0, <1>a DEF suspend_thread
<1>8. SUFFICES ASSUME NEW u \in Threads
               PROVE  suspend_count'[u] = foreign_count'[u] + OwnedCount(u)'
  BY DEF LedgerMatchesKernel
<1>9. suspend_count[u] = foreign_count[u] + OwnedCount(u)
  BY DEF LedgerMatchesKernel
<1>10. CASE u = t
  <2>1. OwnedCount(u) = 0 /\ OwnedCount(u)' = 1
    BY <1>4, <1>10
  <2> QED BY <1>0, <1>7, <1>9, <1>10, <2>1
<1>11. CASE u # t
  BY <1>0, <1>6, <1>7, <1>9, <1>11
<1> QED BY <1>10, <1>11

\* A successful resume callback and the bit it clears.
LEMMA ResumeLedger ==
  ASSUME IInv, AtomicCalls, LedgerMatchesKernel, pc # "idle",
         index \in owned_mask, resume_thread(thread_ids[index]),
         owned_mask' = owned_mask \ {index},
         UNCHANGED <<thread_ids, target_generation, live_generation, foreign_count>>
  PROVE  LedgerMatchesKernel'
<1>0. /\ owned_mask \subseteq 1 .. Len(thread_ids)
      /\ thread_ids \in Seq(Int) /\ vc_pause_validate_threads(thread_ids)
      /\ target_generation = live_generation
      /\ thread_ids[index] \in Threads /\ suspend_count \in [Threads -> Nat]
      /\ foreign_count \in [Threads -> Nat]
  BY DEF IInv, TypeOK, RecordTypeOK, DeviceTypeOK, TransactionInv, GenerationInv
<1>a. PICK t \in Threads : t = thread_ids[index]
  BY <1>0
<1>1. OwnedPositions(t) = {index}
  <2>1. ASSUME NEW i \in owned_mask, thread_ids[i] = t PROVE i = index
    BY <1>0, <1>a, <2>1, NoThreadTwice
  <2> QED BY <1>a, <2>1 DEF OwnedPositions
<1>2. OwnedPositions(t)' = {}
  BY <1>a, <1>1 DEF OwnedPositions
<1>3. OwnedCount(t) = 1 /\ OwnedCount(t)' = 0
  BY <1>0, <1>1, <1>2 DEF OwnedCount
<1>4. \A u \in Threads : u # t => OwnedPositions(u)' = OwnedPositions(u)
  BY <1>a DEF OwnedPositions
<1>5. \A u \in Threads : u # t => OwnedCount(u)' = OwnedCount(u)
  BY <1>4 DEF OwnedCount
<1>6. \A u \in Threads : suspend_count'[u] = suspend_count[u] - (IF u = t THEN 1 ELSE 0)
  BY <1>0, <1>a DEF resume_thread
<1>7. SUFFICES ASSUME NEW u \in Threads
               PROVE  suspend_count'[u] = foreign_count'[u] + OwnedCount(u)'
  BY DEF LedgerMatchesKernel
<1>8. suspend_count[u] = foreign_count[u] + OwnedCount(u)
  BY DEF LedgerMatchesKernel
<1>9. CASE u = t
  <2>1. OwnedCount(u) = 1 /\ OwnedCount(u)' = 0
    BY <1>3, <1>9
  <2> QED BY <1>0, <1>6, <1>8, <1>9, <2>1
<1>10. CASE u # t
  BY <1>0, <1>5, <1>6, <1>8, <1>10
<1> QED BY <1>9, <1>10

\* A step of the code that fires no successful callback and either keeps or
\* forgets a record that owns nothing in the live process.
LEMMA QuietLedger ==
  ASSUME LedgerMatchesKernel, UNCHANGED <<live_generation, suspend_count, foreign_count>>,
         \/ UNCHANGED <<owned_mask, thread_ids, target_generation>>
         \/ /\ owned_mask = {} \/ target_generation # live_generation
            /\ owned_mask' = {}
  PROVE  LedgerMatchesKernel'
<1>1. CASE UNCHANGED <<owned_mask, thread_ids, target_generation>>
  BY <1>1, LedgerKept DEF OwnedCount, OwnedPositions
<1>2. CASE /\ owned_mask = {} \/ target_generation # live_generation
           /\ owned_mask' = {}
  <2>1. \A t \in Threads : OwnedCount(t) = 0
    BY <1>2, NothingOwned
  <2>2. \A t \in Threads : OwnedCount(t)' = 0
    BY <1>2 DEF OwnedCount, OwnedPositions
  <2> QED BY <2>1, <2>2, LedgerKept
<1> QED BY <1>1, <1>2

LEMMA CallsLedger ==
  ASSUME IInv, LedgerMatchesKernel, Calls
  PROVE  LedgerMatchesKernel'
<1> USE DEF kernel, transaction
<1>1. ASSUME NEW s, Refuse(s) PROVE LedgerMatchesKernel'
  BY <1>1, QuietLedger DEF Refuse, Return
<1>2. ASSUME NEW pointers \in BOOLEAN, NEW generation, NEW duration, NEW list,
             vc_pause_begin(pointers, generation, duration, list)
      PROVE  LedgerMatchesKernel'
  BY <1>1, <1>2, QuietLedger DEF vc_pause_begin, TransactionOpen
<1>3. ASSUME NEW pointers, NEW generation, EntryRefused(pointers, generation)
      PROVE  LedgerMatchesKernel'
  BY <1>1, <1>3 DEF EntryRefused
<1>4. ASSUME StartResuming PROVE LedgerMatchesKernel'
  BY <1>4, QuietLedger DEF StartResuming
<1>5. ASSUME NEW pointers, NEW generation, vc_pause_end(pointers, generation)
      PROVE  LedgerMatchesKernel'
  BY <1>3, <1>4, <1>5 DEF vc_pause_end
<1>6. ASSUME NEW pointers, NEW generation, vc_pause_tick(pointers, generation)
      PROVE  LedgerMatchesKernel'
  <2>1. CASE Return("OK") /\ UNCHANGED transaction
    BY <2>1, QuietLedger DEF Return
  <2> QED BY <1>3, <1>4, <1>6, <2>1 DEF vc_pause_tick
<1>7. ASSUME NEW pointers, NEW generation \in GoneGenerations,
             vc_pause_abandon(pointers, generation)
      PROVE  LedgerMatchesKernel'
  <2>1. CASE EntryAccepted(pointers, generation) /\ vc_pause_clear /\ Return("OK")
    <3>1. target_generation # live_generation
      BY <2>1 DEF EntryAccepted, SameTarget, GoneGenerations, IInv, TypeOK,
                  DeviceTypeOK
    <3> QED BY <2>1, <3>1, QuietLedger DEF vc_pause_clear, Return
  <2> QED BY <1>3, <1>7, <2>1 DEF vc_pause_abandon
<1> QED BY <1>2, <1>5, <1>6, <1>7 DEF Calls

LEMMA CallStepsLedger ==
  ASSUME IInv, AtomicCalls, LedgerMatchesKernel, CallSteps
  PROVE  LedgerMatchesKernel'
<1> USE DEF kernel, transaction
<1>1. CASE SuspendNext
  BY <1>1, SuspendLedger, QuietLedger DEF SuspendNext
<1>2. CASE BeginDone
  BY <1>2, QuietLedger DEF BeginDone, Return
<1>3. CASE RollbackNext
  BY <1>3, ResumeLedger, QuietLedger DEF RollbackNext
<1>4. CASE RollbackDone
  BY <1>4, QuietLedger DEF RollbackDone, Return, vc_pause_clear
<1>5. CASE ResumeNext
  BY <1>5, ResumeLedger, QuietLedger DEF ResumeNext, ResumeOwned, KeepFailedResume
<1>6. CASE ResumeDone
  BY <1>6, QuietLedger DEF ResumeDone, Return, vc_pause_clear
<1> QED BY <1>1, <1>2, <1>3, <1>4, <1>5, <1>6 DEF CallSteps

LEMMA EnvironmentLedger ==
  ASSUME IInv, AtomicCalls, LedgerMatchesKernel, Environment
  PROVE  LedgerMatchesKernel'
<1> USE DEF transaction, kernel
<1>0. suspend_count \in [Threads -> Nat] /\ foreign_count \in [Threads -> Nat]
  BY DEF IInv, TypeOK, DeviceTypeOK
<1>1. CASE TitleRestarts
  <2>1. target_generation' # live_generation'
    BY <1>1 DEF TitleRestarts, IInv, TypeOK, RecordTypeOK, DeviceTypeOK
  <2>2. \A t \in Threads : OwnedCount(t)' = 0
    BY <2>1 DEF OwnedCount
  <2> QED BY <1>1, <2>2 DEF TitleRestarts, LedgerMatchesKernel
<1>2. ASSUME NEW u \in Threads, ForeignSuspend(u)
      PROVE  LedgerMatchesKernel'
  <2>1. \A t \in Threads : OwnedCount(t)' = OwnedCount(t) /\ OwnedCount(t) \in {0, 1}
    BY <1>2 DEF ForeignSuspend, OwnedCount, OwnedPositions
  <2> QED BY <1>0, <1>2, <2>1 DEF ForeignSuspend, LedgerMatchesKernel
<1>3. ASSUME NEW u \in Threads, ForeignResume(u)
      PROVE  LedgerMatchesKernel'
  <2>1. \A t \in Threads : OwnedCount(t)' = OwnedCount(t) /\ OwnedCount(t) \in {0, 1}
    BY <1>3 DEF ForeignResume, OwnedCount, OwnedPositions
  <2> QED BY <1>0, <1>3, <2>1 DEF ForeignResume, LedgerMatchesKernel
<1>4. CASE ClockAdvances \/ ClockRollsBack
  BY <1>4, QuietLedger DEF ClockAdvances, ClockRollsBack
<1> QED BY <1>1, <1>2, <1>3, <1>4 DEF Environment

\* Every thread is held exactly as often as the record and the other holders
\* account for, whatever fails, provided that no title exits inside a call.
THEOREM LedgerTheorem ==
  ASSUME AtomicCalls
  PROVE  Spec => []LedgerMatchesKernel
<1>1. Init => LedgerMatchesKernel
  BY DEF Init, LedgerMatchesKernel, OwnedCount, OwnedPositions
<1>2. IInv /\ LedgerMatchesKernel /\ [Next]_vars => LedgerMatchesKernel'
  <2> SUFFICES ASSUME IInv, LedgerMatchesKernel, [Next]_vars
               PROVE  LedgerMatchesKernel'
    OBVIOUS
  <2>1. CASE UNCHANGED vars
    BY <2>1, QuietLedger DEF vars, transaction, kernel
  <2> QED BY <2>1, CallsLedger, CallStepsLedger, EnvironmentLedger DEF Next
<1> QED BY <1>1, <1>2, InductiveInvariant, PTL DEF Spec

-----------------------------------------------------------------------------
(***************************************************************************)
(* Action properties.                                                      *)
(***************************************************************************)

\* Only a record that owns nothing, or whose process is gone, is replaced.
LEMMA RecordReplaced ==
  ASSUME IInv, [Next]_vars
  PROVE  \/ owned_mask = {}
         \/ target_generation # live_generation
         \/ UNCHANGED <<target_generation, thread_ids, started_ms, deadline_ms>>
<1> USE DEF transaction
<1>1. CASE Calls
  <2>1. ASSUME NEW pointers, NEW generation \in GoneGenerations,
               vc_pause_abandon(pointers, generation)
        PROVE  \/ target_generation # live_generation
               \/ UNCHANGED <<target_generation, thread_ids, started_ms, deadline_ms>>
    BY <2>1 DEF vc_pause_abandon, EntryRefused, EntryAccepted, SameTarget, Refuse,
                GoneGenerations, IInv, TypeOK, DeviceTypeOK
  <2>2. ASSUME NEW pointers, NEW generation, NEW duration, NEW list,
               vc_pause_begin(pointers, generation, duration, list)
        PROVE  \/ owned_mask = {}
               \/ UNCHANGED <<target_generation, thread_ids, started_ms, deadline_ms>>
    BY <2>2 DEF vc_pause_begin, Refuse, TransactionOpen
  <2>3. ASSUME NEW pointers, NEW generation,
               vc_pause_end(pointers, generation) \/ vc_pause_tick(pointers, generation)
        PROVE  UNCHANGED <<target_generation, thread_ids, started_ms, deadline_ms>>
    BY <2>3 DEF vc_pause_end, vc_pause_tick, EntryRefused, Refuse, StartResuming
  <2> QED BY <1>1, <2>1, <2>2, <2>3 DEF Calls
<1>2. CASE CallSteps
  BY <1>2 DEF CallSteps, SuspendNext, BeginDone, RollbackNext, RollbackDone,
     ResumeNext, ResumeDone, vc_pause_clear
<1>3. CASE Environment
  BY <1>3 DEF Environment, TitleRestarts, ForeignSuspend, ForeignResume,
     ClockAdvances, ClockRollsBack
<1>4. CASE UNCHANGED vars
  BY <1>4 DEF vars
<1> QED BY <1>1, <1>2, <1>3, <1>4 DEF Next

\* Suspensions retained in the live process keep their generation, allowlist
\* and window.
THEOREM PinnedTheorem == Spec => TransactionPinned
<1>1. IInv /\ [Next]_vars =>
        [owned_mask # {} /\ target_generation = live_generation =>
           UNCHANGED <<target_generation, thread_ids, started_ms, deadline_ms>>]_vars
  BY RecordReplaced
<1> QED BY <1>1, InductiveInvariant, PTL DEF Spec, TransactionPinned

\* A call never returns with a suspension it has not tried to give back.
THEOREM EveryResumeTriedTheorem == Spec => EveryOwnedResumeTried
<1>1. IInv /\ [Next]_vars =>
        [pc' = "idle" /\ pc \in {"rolling_back", "resuming"} =>
           owned_mask' \subseteq tried]_vars
  <2> SUFFICES ASSUME IInv, Next, pc' = "idle", Releasing
               PROVE  owned_mask' \subseteq tried
    BY DEF Releasing
  <2>1. RollbackDone \/ ResumeDone
    BY DEF Next, Releasing, Calls, vc_pause_begin, vc_pause_end, vc_pause_tick,
       vc_pause_abandon, CallSteps, SuspendNext, BeginDone, RollbackNext,
       ResumeNext, Environment, TitleRestarts, ForeignSuspend, ForeignResume,
       ClockAdvances, ClockRollsBack, call
  <2>2. owned_mask' = {} \/ (owned_mask' = owned_mask /\ index = 0)
    BY <2>1 DEF RollbackDone, ResumeDone, vc_pause_clear, transaction
  <2>3. index = 0 => owned_mask \subseteq tried
    BY DEF IInv, LoopInv, Retained
  <2> QED BY <2>2, <2>3
<1> QED BY <1>1, InductiveInvariant, PTL DEF Spec, EveryOwnedResumeTried

\* Provided that no title exits inside a call, no callback ever reaches a
\* thread of another process generation.
THEOREM NoRecycledThreadTheorem ==
  ASSUME AtomicCalls
  PROVE  Spec => NoOperationOnRecycledThread
<1>1. IInv /\ [Next]_vars =>
        [suspend_count' # suspend_count /\ owned_mask' # owned_mask =>
           target_generation = live_generation]_vars
  <2> SUFFICES ASSUME IInv, Next, suspend_count' # suspend_count,
                      owned_mask' # owned_mask
               PROVE  target_generation = live_generation
    OBVIOUS
  <2>1. ~Environment
    BY DEF Environment, TitleRestarts, ForeignSuspend, ForeignResume,
       ClockAdvances, ClockRollsBack, transaction
  <2>2. ~Calls
    BY DEF Calls, vc_pause_begin, vc_pause_end, vc_pause_tick, vc_pause_abandon,
       EntryRefused, Refuse, Return, StartResuming, kernel
  <2>3. pc # "idle"
    BY <2>1, <2>2 DEF Next, CallSteps, SuspendNext, BeginDone, RollbackNext,
       RollbackDone, ResumeNext, ResumeDone
  <2> QED BY <2>3 DEF IInv, GenerationInv
<1> QED BY <1>1, InductiveInvariant, PTL DEF Spec, NoOperationOnRecycledThread

-----------------------------------------------------------------------------
(***************************************************************************)
(* The refinement, for all values of the constants with AtomicCalls.  It   *)
(* rests on the inductive invariant: a step of a call works on the live    *)
(* target (GenerationInv), a list names no thread twice, and a loop leaves *)
(* the record as LoopInv says.                                             *)
(***************************************************************************)


\* What the ledger is told about.
record == <<active, target_generation, owned_mask, thread_ids>>

LEMMA InitRefines == Init => Ledger!Init
BY DEF Init, Ledger!Init, held, mode

\* A call in progress is about the live target.
LEMMA InProgress ==
  ASSUME IInv, AtomicCalls, pc # "idle"
  PROVE  active /\ ForLiveTarget
BY DEF IInv, TransactionInv, GenerationInv, ForLiveTarget

\* A step that leaves the record, the kernel and the phase alone is invisible.
LEMMA Invisible ==
  ASSUME UNCHANGED <<record, kernel, pc>>
  PROVE  UNCHANGED Ledger!ledger
BY DEF Ledger!ledger, record, kernel, held, mode, ForLiveTarget, Releasing

\* So is a refused call.
LEMMA RefuseRefines ==
  ASSUME pc = "idle", NEW s, Refuse(s)
  PROVE  UNCHANGED Ledger!ledger
BY Invisible DEF Refuse, Return, transaction, record

\* A begun transaction owns nothing yet.
LEMMA BeginRefines ==
  ASSUME IInv, NEW pointers \in BOOLEAN, NEW generation \in GenerationArguments,
         NEW duration, NEW list, vc_pause_begin(pointers, generation, duration, list)
  PROVE  [Ledger!Next]_(Ledger!ledger)
<1>1. ASSUME NEW s, Refuse(s) PROVE UNCHANGED Ledger!ledger
  BY <1>1, RefuseRefines DEF vc_pause_begin
<1>2. ASSUME ~TransactionOpen, generation # 0, active' = TRUE,
             target_generation' = generation, owned_mask' = {}, pc' = "suspending",
             UNCHANGED kernel
      PROVE  Ledger!Open
  <2>1. ~active /\ owned_mask = {}
    BY <1>2 DEF TransactionOpen
  <2>2. target_generation' = live_generation'
    BY <1>2 DEF GenerationArguments, kernel
  <2>3. held = {} /\ held' = {}
    BY <1>2, <2>1 DEF held
  <2>4. mode = "closed" /\ mode' = "taking"
    BY <1>2, <2>1, <2>2 DEF mode, ForLiveTarget
  <2> QED BY <1>2, <2>3, <2>4 DEF Ledger!Open, Ledger!Becomes, kernel
<1> QED BY <1>1, <1>2 DEF vc_pause_begin, BeginArgumentsValid, Ledger!Next

\* One more suspension is borrowed, of a thread of which none was; or the
\* callback failed, and what has been borrowed is given back.
LEMMA SuspendRefines ==
  ASSUME IInv, AtomicCalls, SuspendNext
  PROVE  [Ledger!Next]_(Ledger!ledger)
<1>1. pc = "suspending" /\ active /\ ForLiveTarget /\ owned_mask = 1 .. index
  BY InProgress DEF SuspendNext, IInv, LoopInv
<1>2. /\ index \in Nat /\ index + 1 \in 1 .. Len(thread_ids)
      /\ thread_ids \in Seq(Int) /\ vc_pause_validate_threads(thread_ids)
  BY <1>1 DEF SuspendNext, IInv, TypeOK, CallTypeOK, RecordTypeOK, TransactionInv
<1>3. ForLiveTarget' /\ active' /\ UNCHANGED <<thread_ids, foreign_count>>
  BY <1>1 DEF SuspendNext, ForLiveTarget
<1>4. mode = "taking"
  BY <1>1 DEF mode
<1>5. held = {thread_ids[i] : i \in 1 .. index}
  BY <1>1 DEF held
<1> DEFINE t == thread_ids[index + 1]
<1>6. CASE suspend_thread(t) /\ owned_mask' = owned_mask \cup {index + 1} /\ UNCHANGED pc
  <2>1. t \in Threads /\ suspend_count' = [suspend_count EXCEPT ![t] = @ + 1]
    BY <1>6 DEF suspend_thread
  <2>2. t \notin held
    <3> SUFFICES ASSUME NEW i \in 1 .. index, thread_ids[i] = t PROVE FALSE
      BY <1>5
    <3>1. i \in 1 .. Len(thread_ids) /\ i # index + 1
      BY <1>2
    <3> QED BY <1>2, <3>1, NoThreadTwice
  <2>3. held' = held \cup {t}
    BY <1>1, <1>3, <1>5, <1>6 DEF held
  <2>4. UNCHANGED mode
    BY <1>1, <1>3, <1>4, <1>6 DEF mode
  <2>5. Ledger!Take(t)
    BY <1>3, <1>4, <2>1, <2>2, <2>3, <2>4 DEF Ledger!Take
  <2> QED BY <2>1, <2>5 DEF Ledger!Next
<1>7. CASE pc' = "rolling_back" /\ UNCHANGED <<owned_mask, suspend_count>>
  <2>1. mode' = "giving"
    BY <1>3, <1>7 DEF mode, Releasing
  <2>2. UNCHANGED held
    BY <1>1, <1>3, <1>7 DEF held
  <2> QED BY <1>3, <1>4, <1>7, <2>1, <2>2 DEF Ledger!Next, Ledger!GiveUp, Ledger!Becomes
<1> QED BY <1>6, <1>7 DEF SuspendNext

\* vc_pause_begin succeeds with a whole, non-empty list.
LEMMA BeginDoneRefines ==
  ASSUME IInv, AtomicCalls, BeginDone
  PROVE  [Ledger!Next]_(Ledger!ledger)
<1>1. pc = "suspending" /\ active /\ ForLiveTarget /\ owned_mask = 1 .. Len(thread_ids)
  BY InProgress DEF BeginDone, IInv, LoopInv
<1>2. thread_ids \in Seq(Int) /\ thread_ids # <<>>
  BY <1>1 DEF IInv, TypeOK, RecordTypeOK, TransactionInv, vc_pause_validate_threads
<1>3. 1 \in owned_mask
  BY <1>1, <1>2
<1>4. held # {}
  BY <1>1, <1>3 DEF held
<1>5. pc' = "idle" /\ UNCHANGED <<record, kernel>>
  BY DEF BeginDone, Return, record
<1>6. UNCHANGED <<held, ForLiveTarget, active>>
  BY <1>5 DEF held, ForLiveTarget, record, kernel
<1>7. mode = "taking" /\ mode' = "holding"
  BY <1>1, <1>5, <1>6 DEF mode, Releasing
<1> QED BY <1>4, <1>5, <1>6, <1>7 DEF Ledger!Next, Ledger!Settle, Ledger!Becomes, kernel

-----------------------------------------------------------------------------
(***************************************************************************)
(* Giving back.                                                            *)
(***************************************************************************)

\* A successful resume of the position that a releasing loop is at gives one
\* borrowed suspension back.
LEMMA ResumeRefines ==
  ASSUME IInv, AtomicCalls, Releasing, index \in owned_mask,
         resume_thread(thread_ids[index]), owned_mask' = owned_mask \ {index},
         UNCHANGED <<active, target_generation, thread_ids, pc, live_generation,
                     foreign_count>>
  PROVE  [Ledger!Next]_(Ledger!ledger)
<1>1. active /\ ForLiveTarget /\ active' /\ ForLiveTarget' /\ Releasing'
  BY InProgress DEF Releasing, ForLiveTarget
<1>2. /\ thread_ids \in Seq(Int) /\ owned_mask \subseteq 1 .. Len(thread_ids)
      /\ vc_pause_validate_threads(thread_ids) /\ thread_ids[index] \in Threads
  BY <1>1 DEF IInv, TypeOK, RecordTypeOK, TransactionInv
<1>3. mode = "giving" /\ mode' = "giving"
  BY <1>1 DEF mode, Releasing
<1> DEFINE t == thread_ids[index]
<1>4. held = {thread_ids[i] : i \in owned_mask}
  BY <1>1 DEF held
<1>5. held' = {thread_ids[i] : i \in owned_mask \ {index}}
  BY <1>1 DEF held
<1>6. \A i \in owned_mask : thread_ids[i] = t => i = index
  BY <1>2, NoThreadTwice
<1>7. held' = held \ {t} /\ t \in held
  BY <1>4, <1>5, <1>6
<1>8. suspend_count' = [suspend_count EXCEPT ![t] = @ - 1]
  BY DEF resume_thread
<1>9. Ledger!GiveBack(t)
  BY <1>3, <1>7, <1>8 DEF Ledger!GiveBack
<1> QED BY <1>2, <1>9 DEF Ledger!Next

\* A resume that fails, or a position that is not owned, changes nothing.
LEMMA SkipRefines ==
  ASSUME UNCHANGED <<active, target_generation, owned_mask, thread_ids, pc,
                     live_generation, suspend_count, foreign_count>>
  PROVE  [Ledger!Next]_(Ledger!ledger)
BY Invisible DEF record, kernel

LEMMA RollbackNextRefines ==
  ASSUME IInv, AtomicCalls, RollbackNext
  PROVE  [Ledger!Next]_(Ledger!ledger)
<1>1. /\ Releasing /\ index \in owned_mask
      /\ UNCHANGED <<active, target_generation, thread_ids, pc, live_generation,
                     foreign_count>>
  BY DEF RollbackNext, Releasing
<1>2. CASE resume_thread(thread_ids[index]) /\ owned_mask' = owned_mask \ {index}
  BY <1>1, <1>2, ResumeRefines
<1>3. CASE UNCHANGED <<owned_mask, suspend_count>>
  BY <1>1, <1>3, SkipRefines
<1> QED BY <1>2, <1>3 DEF RollbackNext

LEMMA ResumeNextRefines ==
  ASSUME IInv, AtomicCalls, ResumeNext
  PROVE  [Ledger!Next]_(Ledger!ledger)
<1>1. /\ Releasing
      /\ UNCHANGED <<active, target_generation, thread_ids, pc, live_generation,
                     foreign_count>>
  BY DEF ResumeNext, Releasing
<1>2. CASE index \in owned_mask /\ ResumeOwned
  BY <1>1, <1>2, ResumeRefines DEF ResumeOwned
<1>3. CASE UNCHANGED <<owned_mask, suspend_count>>
  BY <1>1, <1>3, SkipRefines
<1> QED BY <1>2, <1>3 DEF ResumeNext, KeepFailedResume

\* The end of a releasing loop: everything was given back and the record is
\* cleared, or the rest is kept.
LEMMA ReleasedRefines ==
  ASSUME IInv, AtomicCalls, Releasing, NEW s, Return(s),
         \/ owned_mask = {} /\ vc_pause_clear
         \/ owned_mask # {} /\ UNCHANGED <<transaction, last_seen_ms>>
  PROVE  [Ledger!Next]_(Ledger!ledger)
<1>1. active /\ ForLiveTarget /\ mode = "giving"
  BY InProgress DEF Releasing, mode
<1>2. pc' = "idle" /\ UNCHANGED <<suspend_count, foreign_count, live_generation>>
  BY DEF Return, kernel
<1>3. CASE owned_mask = {} /\ vc_pause_clear
  <2>1. held = {} /\ held' = {}
    BY <1>3 DEF held, vc_pause_clear
  <2>2. mode' = "closed"
    BY <1>3 DEF mode, vc_pause_clear
  <2> QED BY <1>1, <1>2, <2>1, <2>2 DEF Ledger!Next, Ledger!Close, Ledger!Becomes
<1>4. CASE owned_mask # {} /\ UNCHANGED <<transaction, last_seen_ms>>
  <2>1. UNCHANGED <<active, target_generation, owned_mask, thread_ids>>
    BY <1>4 DEF transaction
  <2>2. held # {}
    BY <1>1, <1>4 DEF held
  <2>3. active' /\ ForLiveTarget' /\ UNCHANGED held
    BY <1>1, <1>2, <2>1 DEF held, ForLiveTarget
  <2>4. mode' = "holding"
    BY <1>2, <2>3 DEF mode, Releasing
  <2> QED BY <1>1, <1>2, <2>2, <2>3, <2>4 DEF Ledger!Next, Ledger!Keep, Ledger!Becomes
<1> QED BY <1>3, <1>4

\* vc_pause_end, and vc_pause_tick past the deadline, start to give back.
LEMMA StartResumingRefines ==
  ASSUME pc = "idle", active, ForLiveTarget, StartResuming
  PROVE  [Ledger!Next]_(Ledger!ledger)
<1>1. pc' = "resuming" /\ UNCHANGED <<active, target_generation, owned_mask, thread_ids,
                                       live_generation, suspend_count, foreign_count>>
  BY DEF StartResuming, kernel
<1>2. UNCHANGED <<held, ForLiveTarget>>
  BY <1>1 DEF held, ForLiveTarget
<1>3. mode = "holding" /\ mode' = "giving"
  BY <1>1, <1>2 DEF mode, Releasing
<1> QED BY <1>1, <1>2, <1>3 DEF Ledger!Next, Ledger!Return, Ledger!Becomes

-----------------------------------------------------------------------------
(***************************************************************************)
(* The other calls, and the device.                                        *)
(***************************************************************************)

LEMMA EntryRefusedRefines ==
  ASSUME pc = "idle", NEW pointers \in BOOLEAN, NEW generation,
         EntryRefused(pointers, generation)
  PROVE  [Ledger!Next]_(Ledger!ledger)
BY RefuseRefines DEF EntryRefused

LEMMA EndRefines ==
  ASSUME NEW pointers \in BOOLEAN, NEW generation \in GenerationArguments,
         vc_pause_end(pointers, generation)
  PROVE  [Ledger!Next]_(Ledger!ledger)
<1>1. CASE EntryRefused(pointers, generation)
  BY <1>1, EntryRefusedRefines DEF vc_pause_end
<1>2. CASE EntryAccepted(pointers, generation) /\ StartResuming
  <2>1. active /\ ForLiveTarget
    BY <1>2 DEF EntryAccepted, SameTarget, GenerationArguments, ForLiveTarget
  <2> QED BY <1>2, <2>1, StartResumingRefines DEF vc_pause_end
<1> QED BY <1>1, <1>2 DEF vc_pause_end

LEMMA TickRefines ==
  ASSUME NEW pointers \in BOOLEAN, NEW generation \in GenerationArguments,
         vc_pause_tick(pointers, generation)
  PROVE  [Ledger!Next]_(Ledger!ledger)
<1>1. CASE EntryRefused(pointers, generation)
  BY <1>1, EntryRefusedRefines DEF vc_pause_tick
<1>2. CASE EntryAccepted(pointers, generation) /\ StartResuming
  <2>1. active /\ ForLiveTarget
    BY <1>2 DEF EntryAccepted, SameTarget, GenerationArguments, ForLiveTarget
  <2> QED BY <1>2, <2>1, StartResumingRefines DEF vc_pause_tick
<1>3. CASE Return("OK") /\ UNCHANGED transaction
  BY <1>3, Invisible DEF vc_pause_tick, Return, transaction, record
<1> QED BY <1>1, <1>2, <1>3 DEF vc_pause_tick

\* A generation that is gone is not the live one.
LEMMA AbandonRefines ==
  ASSUME IInv, NEW pointers \in BOOLEAN, NEW generation \in GoneGenerations,
         vc_pause_abandon(pointers, generation)
  PROVE  [Ledger!Next]_(Ledger!ledger)
<1>1. CASE EntryRefused(pointers, generation)
  BY <1>1, EntryRefusedRefines DEF vc_pause_abandon
<1>2. CASE EntryAccepted(pointers, generation) /\ vc_pause_clear /\ Return("OK")
  <2>1. live_generation \in Nat
    BY DEF IInv, TypeOK, DeviceTypeOK
  <2>2. active /\ ~ForLiveTarget
    BY <1>2, <2>1 DEF EntryAccepted, SameTarget, GoneGenerations, ForLiveTarget
  <2>3. held = {} /\ held' = {}
    BY <1>2, <2>2 DEF held, vc_pause_clear
  <2>4. mode = "orphaned" /\ mode' = "closed"
    BY <1>2, <2>2 DEF mode, vc_pause_clear
  <2> QED BY <1>2, <2>3, <2>4 DEF Ledger!Next, Ledger!Abandon, Ledger!Becomes, Return, kernel
<1> QED BY <1>1, <1>2 DEF vc_pause_abandon

LEMMA RestartRefines ==
  ASSUME IInv, AtomicCalls, TitleRestarts
  PROVE  [Ledger!Next]_(Ledger!ledger)
<1>1. /\ pc = "idle" /\ UNCHANGED <<active, target_generation, owned_mask, thread_ids, pc>>
      /\ live_generation' = live_generation + 1
      /\ suspend_count' = [t \in Threads |-> 0]
      /\ foreign_count' = [t \in Threads |-> 0]
  BY DEF TitleRestarts, transaction, call
<1>2. target_generation \in 0 .. live_generation /\ live_generation \in Nat
  BY DEF IInv, TypeOK, RecordTypeOK, DeviceTypeOK
<1>3. ~ForLiveTarget'
  BY <1>1, <1>2 DEF ForLiveTarget
<1>4. held' = {}
  BY <1>3 DEF held
<1>5. mode \in {"closed", "holding", "orphaned"}
  BY <1>1 DEF mode, Releasing
<1>6. mode' = IF mode = "closed" THEN "closed" ELSE "orphaned"
  BY <1>1, <1>3 DEF mode, Releasing
<1> QED BY <1>1, <1>4, <1>5, <1>6 DEF Ledger!Next, Ledger!ProcessGone

LEMMA ForeignRefines ==
  ASSUME NEW t \in Threads, ForeignSuspend(t) \/ ForeignResume(t)
  PROVE  [Ledger!Next]_(Ledger!ledger)
<1>1. UNCHANGED <<active, target_generation, owned_mask, thread_ids, pc, live_generation>>
  BY DEF ForeignSuspend, ForeignResume, transaction, call
<1>2. UNCHANGED <<held, mode>>
  BY <1>1 DEF held, mode, ForLiveTarget, Releasing
<1>3. CASE ForeignSuspend(t)
  BY <1>2, <1>3 DEF ForeignSuspend, Ledger!Next, Ledger!OtherTakes
<1>4. CASE ForeignResume(t)
  BY <1>2, <1>4 DEF ForeignResume, Ledger!Next, Ledger!OtherGivesBack
<1> QED BY <1>3, <1>4

LEMMA ClockRefines ==
  ASSUME ClockAdvances \/ ClockRollsBack
  PROVE  [Ledger!Next]_(Ledger!ledger)
<1>1. UNCHANGED <<record, kernel, pc>>
  BY DEF ClockAdvances, ClockRollsBack, transaction, call, record
<1> QED BY <1>1, Invisible

\* One step per action.
LEMMA NextRefines ==
  ASSUME AtomicCalls, IInv, [Next]_vars
  PROVE  [Ledger!Next]_(Ledger!ledger)
<1>1. CASE UNCHANGED vars
  <2>1. UNCHANGED <<record, kernel, pc>>
    BY <1>1 DEF vars, transaction, call, record
  <2> QED BY <2>1, Invisible
<1>2. CASE Calls
  <2>1. PICK pointers \in BOOLEAN :
          \/ \E generation \in GenerationArguments :
               \/ \E duration \in 0 .. MaxDuration + 1, list \in ThreadLists :
                    vc_pause_begin(pointers, generation, duration, list)
               \/ vc_pause_end(pointers, generation)
               \/ vc_pause_tick(pointers, generation)
          \/ \E generation \in GoneGenerations : vc_pause_abandon(pointers, generation)
    BY <1>2 DEF Calls
  <2> QED BY <2>1, BeginRefines, EndRefines, TickRefines, AbandonRefines
<1>3. CASE SuspendNext
  BY <1>3, SuspendRefines
<1>4. CASE BeginDone
  BY <1>4, BeginDoneRefines
<1>5. CASE RollbackNext
  BY <1>5, RollbackNextRefines
<1>6. CASE RollbackDone
  BY <1>6, ReleasedRefines DEF RollbackDone, Releasing
<1>7. CASE ResumeNext
  BY <1>7, ResumeNextRefines
<1>8. CASE ResumeDone
  BY <1>8, ReleasedRefines DEF ResumeDone, Releasing
<1>9. CASE Environment
  BY <1>9, RestartRefines, ForeignRefines, ClockRefines DEF Environment
<1> QED BY <1>1, <1>2, <1>3, <1>4, <1>5, <1>6, <1>7, <1>8, <1>9 DEF Next, CallSteps

\* pause.c keeps the ledger that pause.h promises, whatever the callbacks
\* answer and whenever the title restarts between two calls.
THEOREM PauseImplementsLedger ==
  ASSUME AtomicCalls
  PROVE  Spec => ImplementsLedger
<1>1. IInv /\ [Next]_vars => [Ledger!Next]_(Ledger!ledger)
  BY NextRefines
<1> QED BY <1>1, InitRefines, InductiveInvariant, PTL DEF Spec, ImplementsLedger, Ledger!Spec
=============================================================================
