# VitaCheat in TLA+

A verification project for the portable core of VitaCheat and the self-test
application that uses it. Each component of the core is a TLA+ module that
follows the C code; TLC checks it on small instances, and TLAPS proves what
matters most for every value of the constants. `PROJECT.json` maps every
definition to the lines it models.

## The system

VitaCheat is a scaffold of a cheat-authoring tool for the PlayStation Vita. The
code that exists is a C11 library without allocation, threads, files or
hardware access, and a user-mode application that exercises part of it.

| Component | State | Operations | What is hard |
|---|---|---|---|
| Pause transaction (`src/pause.c`) | `vc_pause_state`: allowlist of thread IDs, mask of owned suspensions, process generation, window, failed thread | begin, end, tick, abandon | callbacks that fail anywhere, rollbacks that fail too, retries, other holders of suspensions, a title that exits, clock jumps, overflow of the deadline |
| Menu activation (`src/menu_activation.c`) | start of the hold, last timestamp, pressed, latched | reset, update | clock rollback and unsigned subtraction, one event per press |
| Legacy importer (`src/legacy_psv.c`) | three caller arrays that index each other, a report, a few flags about the cheat being read | `vc_psv_parse` | one pass against a meaning that depends on the whole cheat; three independent capacities; all-or-nothing delivery |
| Snapshot search (`src/search.c`) | none between calls; caller arrays | initial search, refinement | in-place compaction, signed comparison, stride and pointer arithmetic |
| Self-test application (`vita-self-test/main.c`) | screen, previous buttons, cached progress, activation record | one frame of the loop | lost input samples, presses that span screens, a stale latch or cache |

The application calls menu activation once per home-screen frame (and on a
release elsewhere) and the search functions on a button. Nothing calls the pause
transaction yet. `pause.h` says what its future adapter must do: callbacks that
move a suspend count by exactly one or fail without effect, calls that are not
re-entered, a watchdog that ticks regularly, an abandon only for a process
generation that is proved gone. `docs/architecture.md` also names parts that have
no code at all (kernel service, Quick Menu launcher, injected plugin, companion,
database).

What makes the components correct:

- *Pause*: every suspension taken is recorded until it is given back, nobody
  else's is released, the returned status says what is still held, a record of
  held suspensions is never overwritten, a paused game is eventually resumed.
- *Menu activation*: the event is reported at exactly the samples where Select
  has been down for the hold time on a clock that ran forward, once per press.
- *Importer*: each cheat gets the translation state its whole block deserves,
  the arrays point at each other consistently, the report counts the file and
  not what fitted, and a caller gets everything or nothing.
- *Search*: the result is the ascending list of the offsets that satisfy the
  query, cut at the capacity, also when it overwrites its input.
- *Application*: a press has one effect, only an uninterrupted hold at home opens
  the menu, and the screen shows the current state.

## Modules

| Module | Models | Checked by | Proved in |
|---|---|---|---|
| `Pause` | pause transaction, kernel, clock, title | `MCPause` with `MCPause.cfg`, `MCPauseLive.cfg`, `MCPauseClockRollback.cfg`, `MCPauseRecycled.cfg` | `PauseProofs` |
| `MenuActivation` | the two functions, as actions on the record | through the next two | |
| `MenuHold` | the functions fed with any samples, and a reference over the history | `MCMenuHold.cfg` | `MenuProofs` |
| `SelfTest` | the application's frame loop, on top of `MenuActivation` | `MCSelfTest.cfg` | `SelfTestProofs` |
| `LegacyPsv` | the importer, one action per branch of the line loop | `MCLegacyPsv` with `MCLegacyPsv.cfg` | `LegacyPsvProofs` |
| `PsvFile` | the importer from its arguments and bytes, on top of `LegacyPsv` and `Ranges` | `MCPsvFile` with `MCPsvFile.cfg` | `PsvFileProofs` |
| `Ranges` | the overflow and overlap checks that the importer and the search share | through `Search` and `PsvFile` | `SharedProofs` |
| `Search` | both searches, over a flat memory | `MCSearch` with `MCSearchValues.cfg`, `MCSearchLayouts.cfg` | `SearchProofs` |
| `ScannerTest` | the application's scanner self-test, on top of `Search` | `MCScannerTest.cfg` | `ScannerProofs` |
| `PauseLedger` | what `pause.h` promises, as an abstract specification | | |
| `PauseRefinement` | the refinement mapping from `Pause` to `PauseLedger` | `MCPauseLedger` with `MCPauseLedger.cfg` | `PauseProofs` |

Definitions with a suffix after an underscore (`RollbackDone_NoClear`) are
deliberately faulty variants that no specification uses. Substituted for the
original, each must break the property `PROJECT.json` pairs it with.

### Pause

The variables are the fields of `vc_pause_state` (positions are counted from 1,
`owned_mask` is the set of owned positions, `thread_count` the length of
`thread_ids`), the control state of the call in progress (`pc`, `index` and the
locals), the kernel (`live_generation`, `suspend_count` per thread,
`foreign_count` for what other holders have) and the clock. A call that returns
at once is one step. A call that makes callbacks is a step into the loop, one
step per callback with either outcome, and a step that returns; the environment
moves in between. `last_seen_ms` and `tried` are history.

Assumptions on the environment, all from `pause.h`: a callback that succeeds moves
one count and one that fails moves none; a thread that does not exist cannot be
suspended; calls on one state are serialised (the code has no lock); the adapter
passes the generation it has just read, or 0; abandon is called only with a
generation that is gone. `AtomicCalls` says whether the title can exit while a
call is in progress. The code does not exclude it; the ledger property needs it,
and one run shows what happens without.

### MenuActivation, MenuHold

The state record and the last event. Timestamps are `0 .. TimeMax` and the
difference wraps as in `uint64_t`. `MenuHold` keeps the list of samples since the
last reset and defines, from that list alone, when the menu opens: the last
maximal run of samples with Select down and a clock that does not run backwards
has lasted `HoldMs`, and no earlier sample of the same press had.

### SelfTest

One step is one turn of the loop: a sample with any set of buttons, or none,
at any later time (`sceKernelGetSystemTimeWide` does not run backwards). The
trailing redraw and cache updates are part of the step. What the run of the
scanner returns decides nothing in the loop, so it is a nondeterministic result
here; `ScannerTest` computes it. `acted`, `consumed` and `hold_start` are history.

### LegacyPsv

A line is reduced to the class that `trim_span`, the header test and `parse_code`
give it (11 classes); descriptions, addresses and values are left out. The file is
chosen line by line, so every file up to the bound is covered. Arrays are
sequences, so `stored_lines` is `Len(lines)`. The reference is written over the
whole file, without an order of processing: the block of a header, its codes,
the selector that counts, the translation state it deserves.

### PsvFile

The same function from its arguments. A source is a sequence of bytes, each named
by its part in the syntax ("x" stands for all the others, "sp" for a space or a
tab). `Open` makes the checks on the five buffers; `ReadLine` finds the line, its
mark and its ending, trims it, classifies it and, in the same step, hands the
class to `ParseLine` of `LegacyPsv`; `EndOfSource` is the end of the function with
the discarding of partial outputs. A field is as many digits as the constants say:
eight-digit fields exceed TLC's integers and no test depends on their number.
The reference is a grammar of a whole line without its surrounding spaces; its
numbers are sums of digits by weight, where the code multiplies as it goes.
That the loop ends needs no fairness run: `SpansReconstructSource` says that
every line is at least one byte long.

### Ranges and Search

A region is an address and a length; `uintptr_t` and `size_t` wrap at
`AddressMax`. `Search` is one call: `call` holds the arguments, `memory` the bytes
and `before` (history) the memory as the call found it. The seven objects of the
caller (both snapshots, candidates, output, two counters, query) may be
anywhere, so whether a read sees what the caller wrote depends on the checks at
entry and on nothing else. `Refuse` and `Accept` are the entry of both functions,
`Scan` and `Refine` one turn of their loops, `Return` the stores through the two
pointers. Offsets are stored byte by byte with the width of the type, and values
are read in the same way. A counter and the query take one address, and the
query's fields are arguments: the code copies the query before it writes.
Multiplication wraps as in `size_t`, and storing an offset drops what does not
fit. The reference filters the memory before the call, with values as
mathematical integers; legality is stated with sets of addresses.

Whatever the caller passes is assumed to lie in memory, and memory to be made of
bytes (`IsCall`, `Holds`), as in C.

### ScannerTest

`run_scanner_self_test`: six searches of `Search` on addresses that stand for the
application's static buffers and locals, what is done to the buffers before each
one, and the check after it. The test can be run again, on the residue of
earlier runs; the local array holds any one of three bytes. A byte has 128
values in the run, so that the words fit TLC's integers; the test's numbers are smaller, and
the proof covers every byte that holds them.

### PauseLedger and PauseRefinement

The ledger has no allowlist, index, clock or status: a loan is opened, suspensions
are taken one at a time while it is being taken out, given back one at a time
while it is being returned, and it is closed only when nothing is held or written
off only when the process is gone. The mapping reads the loan from `Pause`: what is
held are the threads at the owned positions, if the record is about the process
that runs; the mode follows from `active`, the generation and the loop in
progress. Checks, refusals, failed callbacks and the clock are stutters.

## Runs

| Run | Shows | Bounds and why they are enough |
|---|---|---|
| `pause` | all safety properties of the pause transaction, the inductive invariant included | 3 threads, allowlists of 2 and 3 (and one per reason to refuse; allowlists of 1 are in `pause_release`), one thread that can never be suspended, 2 generations, one foreign suspension per thread, one clock jump, times 0..3 with durations up to 2. Three positions allow a failure before, at and after a success in both loop directions; every deadline that touches the largest time occurs. |
| `pause_release` | a pause always ends | 2 threads, 2 generations, one clock jump |
| `pause_clock_rollback` | violation, see findings | 2 threads |
| `pause_title_exit` | violation, see findings | 2 threads, 2 generations, `AtomicCalls = FALSE` |
| `menu_hold` | the event is exactly the reference's | 6 samples at times 0..3 with a hold of 2: two presses or two rollbacks with a complete hold after each |
| `legacy_psv` | agreement with the reference | every file of up to 5 lines, limits of 1 cheat and 1 code, five choices of capacities: room for all, each array too small, none. Five lines hold two cheats with a selector, a write and a bad line in any order. |
| `self_test` | frame loop properties | hold of 4, display steps of 2, times up to 12: two complete holds |
| `pause_ledger` | `Pause` implements `PauseLedger` | 3 threads and one that can never be suspended, 3 generations (two restarts), one foreign suspension per thread, times 0..2 |
| `search_values` | both searches agree with the reference filter; counters and status are right | snapshots of up to 5 cells of one bit, so that scalars of 1, 2 and 4 cells have every value, sign included; every relation and invalid ones; strides below, at and beyond the size; every ascending list of up to 3 candidates and three that must be refused; capacities below, at and above the matches; in place and not; a snapshot one cell longer than an offset can address |
| `search_layouts` | the checks at entry; no input is corrupted; no offset wraps; every call returns | an address space of 17: any two of the seven objects at any two addresses, NULL and the last one included, with lists of up to 2 elements; snapshots longer than half of the address space with strides that would wrap |
| `scanner_self_test` | the self-test passes on every run | the buffers of the application; every number of runs (the residue is a fixed point after the second) |
| `psv_file` | spans, lines, descriptions, overlap checks | all strings of up to 5 bytes of line ends, spaces and others; marks whole and broken; every header of up to 5 bytes behind `_V`; codes of up to 8 bytes with one-digit codes and two-digit fields; each buffer at every address; a source too long by one; a capacity whose product wraps |

`legacy_psv`, `psv_file`, the two search runs and `self_test` do not check for
deadlock because a parse, a call and an application end. A run of `self_test` also
ends when the clock reaches its bound.

### Fairness

`pause_release` and `search_layouts` assume fairness. A search is a function that
nothing blocks: the calling thread keeps running (weak fairness of its next
step), and what `Terminates` shows is that no stride brings the scan back to an
offset it has passed. For the pause, `pause.h` requires a watchdog, which is not
paused itself, to call tick regularly; the adapter's cleanup path abandons a
generation it has proved gone. Both wait for other calls to return, so they are
strongly fair. A call in progress goes on, and the clock advances (weak
fairness). A resume that is attempted for ever at the same position succeeds in
the end (strong fairness per position): without it no code could resume a
thread. Closing the menu is not fair, so the property does not lean on the user.

### Findings

- `pause_clock_rollback`: `pause.h` says that "A clock rollback is treated as
  expiry". `vc_pause_tick` keeps only the start and the deadline, so a clock that
  moves back but not before the start is not noticed, and the pause lasts longer.
- `pause_title_exit`: `docs/architecture.md` says that "a process generation change
  prevents operations on recycled thread IDs". The generation is compared once
  per call; a title that exits between two callbacks of a call leaves the rest of
  the callbacks to hit whichever threads have the IDs now. The adapter must keep
  the process alive during a call, or check in the callbacks.

## Proofs

### The pause transaction and the menu

`PauseProofs` proves, for every set of threads, allowlist, limit and clock width,
each safety property that `pause` checks. None is inductive by itself: what
`vc_pause_end` may conclude at the end of its loop depends on what the loop has
passed. `IInv` adds

- `TransactionInv`: an open record has a valid allowlist and a generation, owns only
  threads that exist, and a closed one owns nothing;
- `LoopInv`: the suspend loop owns exactly the positions it has passed; a loop
  that gives back has tried every position it retains, and the failure fields
  name a retained position exactly when there is one; the rollback loop owns
  everything still in front of it;
- `GenerationInv`: with `AtomicCalls`, a call works on the live generation.

`InductiveInvariant` has one lemma per action; early returns, returns that clear
and returns that retain are shared lemmas. Types, `ActiveIffOwning`,
`StatusTellsTheTruth`, `PartialOwnershipReported` and `DeadlineSound` are its
conjuncts; `TransactionPinned` and `EveryOwnedResumeTried` follow from it and one
step. `LedgerTheorem` and `NoRecycledThreadTheorem` assume `AtomicCalls`. The ledger also
needs that an allowlist names no thread twice. The code compares neighbours only,
so this is a lemma (`NoThreadTwice`) by induction, done through the least
counterexample of a set of naturals.

`MenuProofs` proves that the event agrees with the whole history for every hold
time, clock width and number of samples. The invariant `HistoryInv` says how the
record summarises the history: while a hold is timed there is a sample that
begins its interval at `pressed_since_ms`, and the latch is set exactly when an
earlier sample of this press was held long enough. `HoldDoesNotUnderflow` makes
the wrapping subtraction equal to the integer one.

`HistoryInv` itself is the theorem `RecordSummarisesHistory`.

The second half of `PauseProofs` proves `PauseImplementsLedger`: under `AtomicCalls`
the initial state maps to the ledger's, and every action, in a state that satisfies
`IInv`, maps to one step of the ledger or to none. The argument needs from `IInv` that
an allowlist names no thread twice (so giving back one position removes one thread
from what is held), that the suspend loop owns exactly what it has passed (so
taking is of a thread not held) and that the rollback and resume loops end with
nothing held or report what is.

### The application

`SelfTestProofs` proves every property that `self_test` checks, for every hold time,
display step and clock width. The invariant adds to the types that everything the
hold record has seen lies in the past (`ClockInv`), that the latch is set exactly
while the press of Select that opened the menu lasts and that a press that has had
its effect is still down (`ConsumedInv`), and that a hold being timed began at
`hold_start`, on the home screen, and is still too short (`HoldInv`).

### The importer, line by line

`LegacyPsvProofs` proves every property that `legacy_psv` checks, for files of every
length, all capacities and limits. The references quantify over the whole file and the
loop sees it line by line, so the proof has three layers:

- what one more line changes in the reference ("What one more line changes"): the block
  of the open cheat grows or is closed, one position joins a set that is counted;
- what one turn of the loop does to each part of the state, whatever its branch
  (`TotalsEffect`, `LinesEffect`, `CheatsEffect`, ...);
- one lemma for each part of `LoopInv`, which says that the state is the reference of
  the lines read so far: totals and their arrays (`TotalsInv`), the locals against the
  open cheat (`ActiveInv`), stored cheats against `SoFar`, the state deserved so far
  (`CheatsInv`), cross-indexes (`LinksInv`), runs of operations (`RunsInv`), address
  modes (`ModesInv`) and counters (`AlarmsInv`).

`SoFar` differs from the reference in one point: the selector of an open cheat does not
dangle yet. Finishing closes the cheat as one more header would (`Delivered`), and
then the two agree.

### The importer, from its bytes

`PsvFileProofs` proves that `PsvFile` implements `LegacyPsv` (`FileImplementsLines`), so
that the theorems above hold for every source, and every property that `psv_file`
checks, for every number of digits:

- `RefusesOverlaps` from the two lemmas on ranges below: every two of the five buffers
  are compared;
- `SpansReconstruct`: each line begins where the last one has ended, and is one mark,
  a content without line ends and one ending (`LineSpan`);
- `ReadsLinesAsWritten`: `trim_span` is the stripping of spaces (`TrimmedIsStripped`),
  `parse_hex_exact` gives the weighted sum of the digits (`HexIsNumber`), `parse_code`
  accepts what is well formed and nothing else (`AcceptedIsWellFormed`,
  `WellFormedIsAccepted`), and so the class of a line is its meaning
  (`LineClassIsMeaning`). The invariant `WrittenInv` carries this from the line to its
  record, through lines and cheats that are counted and not stored;
- `DescribesAsWritten`: the header of each delivered cheat is stored, because a call
  that delivers has stored every line.

### Ranges and the search

`SharedProofs` proves `PassedRegionsAreDisjoint` and `DisjointRegionsPass`: the overlap
check, with its wrapping sums, lets two buffers pass only when they share no address,
and refuses two that share none only when one of them ends at the top of the address
space. It also has the induction that the recursive functions of the models need,
stated for a set of numbers instead of a property: a set of naturals has a least
element (`LeastNatural`, from the well-founded order of finite sets), one that has 0 and
every successor is all of them (`Induction`), and a recursion has a solution
(`Recursion`).

`SearchProofs` proves, for every address space, layout, call and memory,
`SearchTypeCorrect`, `SearchWritesOutputs` and `SearchReadsIntact`: the loops stay in
their ranges, write to the outputs only, and read every candidate as the caller left
it. The inductive invariant `Inv` records what the entry has established and the call
alone determines (`Validated`), that no more is counted than has been passed, and
that the unread candidates are intact. The step that matters is the store in
`Refine`: the slot lies in the output (`SlotInOutput`) and not among the unread
candidates (`SlotNotUnread`), in place because at most `index` offsets have been
stored before element `index` is replaced, otherwise because the pair of the
candidates and the output has passed the check.

`SearchProgresses` is the part of termination that needs no fairness: each step of a
call strictly lowers `Remaining`, a number that is at first the size of the snapshot and
the number of candidates, and three. The step that matters is that of the stride, which
does not wrap.

The second half proves `SearchKeepsContract` (a call runs exactly when the caller
kept to the contract, up to the top of the address space) and
`SearchFindsFirstMatches`, the functional correctness of both functions. The latter rests on

- the meaning of bytes: a read is the sum of the bytes by weight, below the next
  weight, and the bytes that `StoreOffset` writes are those digits (`StoreReadsBack`);
- comparisons: the code compares bit patterns, signed ones after an offset; the
  reference compares integers (`CongruenceDecides`);
- that no store changes what is still to be read: the snapshots and the query
  (`ScalarIntact`), the candidates in front of the loop (`CandidateIntact`), the slots
  behind it (`SlotsKept`);
- the invariant `Counted`: the total is the number of matches among the offsets passed,
  and the slots hold the first of them in ascending order (`Listed`).

All of it starts from `Begun`, a call that has just been made, and not from `Init`, so
that it also holds of calls that are made one after another.

### The scanner self-test

`ScannerProofs` proves `ScannerPasses`: every run of the test passes, whatever the earlier
ones have left in the buffers and whatever the local array holds. It uses the proofs about
`Search` as they are. The invariant `TestInv` says that the search in progress is the one
at its place in the script (`Made`), that the memory it found is set as it needs
(`Setting`), that the invariant `Result` of the searches holds, and that the report is that
of the checks made so far (`Announced`). One turn of the argument:

- search *k* with its buffers set is a legal call (`ScriptLegal`), so it runs and does not
  refuse, and the offsets that satisfy its query are those in `Finds`
  (`NumbersRead`, `ScriptFinds`);
- its result is the first of them, as many as fit, by `OutputIsFirstMatches`, and a
  sorted list is determined by the ranks of its elements (`ScriptRanks`), so its check
  passes (`ScriptPasses`);
- it has written to its output and its counters only, so the snapshots and the list of
  candidates are what they were (`ScriptLeaves`), and after the writes and copies between
  the searches the memory is set for search *k* + 1 (`PreparedAfter`) or, when the test
  is run again, for the first (`PreparedFirst`).

### Assumptions

The constants are assumed to be what their C types make them: capacities, limits, sizes
and times are numbers that their types represent, addresses lie in the address space.
`MemoriesAssumption` adds what C requires of a caller (the objects passed exist, NULL is
not one), `ScannerAssumption` that an offset takes four bytes, that the numbers of the
scanner test fit in one byte and that its static buffers do not reach the top of the
address space, and `PsvFileAssumption` that a source fits the address space, that fields have
digits and that no code is both a write and the selector. `LedgerTheorem`,
`NoRecycledThreadTheorem` and `PauseImplementsLedger` have the hypothesis `AtomicCalls`.
TLC evaluates every assumption on the instances.

### Only model-checked

`PauseReleased` and `Terminates`: liveness under fairness is out of the prover's reach.
`SearchProgresses` is the safety part of the second: what is left to the run is that a
step is enabled until the call is done.

## Not modelled

- The numbers 32 and 64 as widths, eight-digit fields and bytes of 256 values: they
  are constants of the models, and smaller in the runs.
- The contents of the importer's operation records beyond their kind, mode and
  indexes: `PsvFile` computes the code, address and value of a line, and keeps of
  them what decides its class.
- Text, drawing and platform calls of the application.
- Everything the documents announce and the repository does not contain.
- Concurrent calls on one pause state, which the code does not support, and a second
  initialisation of a record in use, which it cannot notice.
- The host tests, the fuzzer and the build files.

## Plan

1. Done: `Pause` with its proofs, `MenuActivation` and `MenuHold` with theirs,
   `LegacyPsv`, `SelfTest`.
2. Done: `Ranges` and `Search` with their proofs, `PsvFile`, `ScannerTest`,
   `PauseLedger` with the refinement and its proof.
3. Done: proofs of every safety property of `LegacyPsv`, `PsvFile`, `Search` and
   `SelfTest`, and that `PsvFile` implements `LegacyPsv`.
4. Done: proofs that `ScannerTest` passes, from what is proved of `Search`, and that
   every step of a search brings its end nearer.
5. If the code grows: the adapter that calls the pause transaction, when it exists, as a
   module that `Pause` is composed with.
