# BimmerStein ECU Tool: verification project

The tool reads and writes engine computers (DME) and coding modules of BMW vehicles
over a serial K-line adapter. A PyQt5 front end (`gui.py`) runs one task at a
time on a worker thread; the task owns the serial port, talks to a module in strict
request and reply, and leaves behind three kinds of lasting state: bytes in the
vehicle's modules, durable journals on disk, and sessions kept in memory because
something has been erased and not yet written again. The specifications here are
about the places where several of these must agree in spite of lost answers, power
cuts, crashes, retries, a second tester, a forgetful operator and other programs on
the same folder, and about the images that are composed to be written.

`PROJECT.json` lists components, runs, mutants, the map from definitions to source
lines, hazards, findings and theorems. To repeat a check:

    tlc -workers 2 -config MCSwapJournal.cfg MCSwapJournal
    tlapm SwapJournalProofs.tla

## 1. Inventory

For each component: the state it keeps, what it does, what is hard about it, and what
makes it correct. What exactly is left out of a partly modelled one stands in
`PROJECT.json`.

| Component (sources) | State and operations | Hard behaviour and what is correct | Module |
|---|---|---|---|
| Transmission conversion journal (`transmission_swap_journal.py`) | one file per operation: phase, writes with intent/complete, failure; create, mark_*, resume, load | long sequences of failures and resumes; a record must never become one its own validator refuses, nor lose an intent | SwapJournal (all) |
| Transmission conversion (`transmission_conversion.py`, handlers in `gui.py`) | session in memory, journal, coding of the modules; prepare, write, rollback, verify, recover, settle | crash between intent, write and completion; failing rollback; chains of recoveries; somebody else codes a module meanwhile. A conversion ends all original or all target, or stays recoverable | TransmissionConversion (control; computing the plan not) |
| Native-fast DS2 writers (`ds2_fast_*_write.py`, `ds2_native_fast_*.py`, `ds2_write_authorization.py`) | session flags, authorization bytes, rate, flash; authorize, switch up, erase, program, verify, finalize, switch down, replay | every reply may be lost after the request took effect; wrong keys lock the DME; replays must end; fall back to the slow writer only if nothing was erased | NativeFastWrite, Dme |
| Native-fast reads (`ds2_fast_read.py`) | rate, completion latch, registry of the port | the rate changes on one side only; the next entry must see the latch | NativeFastRead |
| Legacy DS2 (`ds2.py`) | write phases, retained session | block retry decided by readback, one automatic and one manual phase replay | LegacyWrite |
| Soft-BSL service (`softbsl_service.py`, `engines/softbsl/softbsl_host.py`) | RAM agent kept alive, marker 0 (E740), two banks, rate ladder | retry at a lower rate after an erase; retained agent; a switch only the operator can move | SoftBslWrite |
| Soft-BSL install (`softbsl_install.py`, `cmd_install`) | one-shot door, phases, marker, retained recovery of either phase | a trigger sent twice becomes the payload of the first; the operator answers before he has cycled | SoftBslInstall; its images InstallImages |
| Soft-BSL RAM EEPROM, EEPROM editor, CH341A (`eeprom_ram.py`, `eeprom_editor.py`, `ch341a_eeprom_service.py`) | bytes of the chip, retained session, captures bound to a programmer | order of bytes in a checked record; a capture older than the chip | EepromWrite |
| Hardware BSL (`bsl_service.py`, `engines/bsl/`) | none kept after the task but the plan | guard against two firmwares in one flash; regions in order | HardwareBsl |
| MS42/MS43 writers (`ms42_ms43*.py`, `ms43_resident_writer.py`) | three routes, rates, sector repairs left, finalisation | erase whose reply is lost; fallback between routes; one repair per session | Ms4xWrite |
| MS42/MS43 storage, VIN, configuration | transactions over EEPROM and flash sectors | the committing word last; two banks never bad together | Ms4xData |
| Backup catalogue (`backup_manager.py`) | images, index, pending records, migration plan; add, remove, notes, rename, move, folders, scan, recovery at start | crash between two file operations, failing save and failing undo, files moved by others. No image destroyed, no provenance lost | BackupCatalogue (all) |
| Patching (`patch_service.py`, `engines/patcher/patch_ms41.py`), Patches tab and full-write gate in `gui.py` | composition of an image; base, ticks, removals, drafts of the tab; evidence about the boot region | supersession and requirements; a removal after an edit; boot patches that a writer drops silently | PatchEngine, InstallImages, PatchTab |
| GUI operation ownership (`port_owner.py`, `gui.py`) | owner of the port, connection, task, retained sessions, pollers, closing | release of a port another engine owns; completion delivered inside a modal question; closing with a retained session | OperationOwner |
| Native operation journal (`ds2_fast_safety.py`) | append-only log, terminal record | an append that fails stops the session | its failure acts as a lost request of NativeFastWrite |
| Live data and logging (`live_data.py`, `ms42_ms43_live.py`, `live_log.py`) | live poller and roughness worker, what they switched on, samples given to the view | a START or a registration carried out with its answer lost; the worker ends by itself while Stop is pressed | LiveSessions |
| Diagnostics, coding, actuators (`dtc.py`, `vehicle_*.py`, `actuator_tests.py`, `ms42_ms43_actuators.py`) | request/response; output test with its override | an output may be on although its request failed; Stop unconfirmed, then closed or disconnected | output tests in LiveSessions, the rest no |
| Operation log, support bundle, packaging, rate tables | output files | none | no: formatting and build tooling |

Interaction. `gui.py` starts a task only if none runs (`_task_busy`); the task takes
the port from its present owner, and a session that failed past its first erase is
handed back to the GUI as a retained recovery, which blocks other work until it is
replayed, released after an ignition cycle or given up at closing (OperationOwner
has who owns what; each writer module has what it does with its session). The
conversion calls the journal before and after each write and the engine-computer
writers for its last step. The Patches tab builds an image, archives it in the
catalogue, and hands it to the full write, which picks the writer for the
connection (PatchTab up to the choice, FlashWriters from there). The soft-BSL
installation composes two images (InstallImages) and flashes them in two phases
(SoftBslInstall). The catalogue's files are shared with Explorer and with
synchronisation programs.

Hazards are listed in `PROJECT.json` with the line where each bites and the
properties that would catch it.

## 2. Modules

### SwapJournal
One variable, the function from operation ids to records (phase, plan, writes,
failure, failedFrom). Each public method of `SwapOperationJournal` is an action with
a guard `Can...`; a call whose guard is false raises and leaves the file as it was,
which callers model with `Raises`. JSON, checksums and the archive digest are left
out: a record is its fields. `Next` is a client that may call anything with any
argument, so the invariants are about the journal and not about its present caller.

### TransmissionConversion, AtomicConversion
State: the vehicle (coding image of each owner, MS41 transmission record, DME mode),
the journal (an instance of SwapJournal), the session in memory, and where the
running task is. A task is a set `todo` of writes taken in a fixed order
(`First`); each write takes three steps, `MarkIntent`, the device write, `MarkComplete`,
and each step can fail or be cut off by `Crash`. A write cut short leaves the old image, a torn one or the new one.
`Rollback` goes through the written owners newest first and goes on after an error,
as `rollback_connected_modules` does. Recovery makes a new record that supersedes the
old one; `Chain`, `Attempted` and `Uncertain` are `_recovery_chain` and
`_recovery_owner_attempts`, and `Preflight` is what recovery checks of every owner
before writing. `Settle` and `CloseUntouched` close older records one call at a time.
The user can do what the GUI offers, cycle the ignition, leave, or let another tester
code a module between two tasks.

`AtomicConversion` is the abstract promise: the vehicle is worked on only while a
durable record is open, and the record is closed only on a vehicle that is wholly
original or wholly target. The refinement maps "open" to "some record is recoverable"
(`ImplementsAtomic`).

### Dme, NativeFastWrite, FlashOutcome
`Dme` is the computer as the repository's code sees it: not source of this
repository, modelled from what the writers send and expect (external in the map). Its
assumptions: the poll statuses 0C and 0F, that the program array must be intact for
the computer to answer at the low rate, that power-up resets the authorization bytes
E658 and E74B and the completion latch E659, and that a challenge sent while a key is
expected counts as a wrong key.

`NativeFastWrite` is one session, one action for each request. A request is answered,
refused, lost before it arrives, or carried out with the reply lost (`Answered`,
`Refused`, `Lost`). Flags keep their source names (`destructive_started`,
`authorization_may_be_active`, ...), since the decisions of the error handlers
(`Handle`, `Conclude`) and of the GUI (`Fallback`, `CanRecover`, `ReleaseAfterCycle`)
are made on them. `SetUpFails` is the transport that cannot be set up before any
request, where the GUI offers the slow write. After a packet without a confirmed reply
(`Unconfirmed`) the flash is read back, or, when the echo was wrong, the attempt ends
at once. A flash array has a few packets, each old, blank, a written prefix, a mixture
or new. The slow writer appears here up to its authorization, where it can spend a
wrong key; its block transfer is LegacyWrite's. `FlashOutcome` is the promise of
every writer: a write reported as not started left the flash alone, one reported
complete reached its target, and one that failed in between stays held.

### FlashWriters and the writers it composes
`FlashWriters` picks one writer in `Init` (the `writer` variable), as the interface
picks one for the family and route of the connection, and lets it run; the eight
modules share the variables `ecu`, `s` (the session), `pc`, `outcome` and `touched`.
Its properties are stated once and hold of each writer in that writer's terms;
`ImplementsPromise` refines FlashOutcome from `Content` and `Verdict` of each. `pc`
names the next request or the place where the operation rests ("idle", "held", an
open question). History is kept only in `outcome` and `touched`.

* `LegacyWrite`: one action a request of `write_partial` and `write_full`. After a lost answer
  a packet is sent again only if it reads back blank (`Resendable`). A failed phase is
  replayed once automatically, once by the user (`Handle`, `Retry`), and then needs a
  cycle.
* `SoftBslWrite`: entry by E740 and agent upload (`Open`, `FlashMode`, `Stage`), the rate ladder
  (`Handle` lowers the rate only before the first erase), erase and program by sector with the
  readbacks and the one repair, verification, the return to the application and its
  confirmation. Two banks behind a switch: `MoveSwitch` is the operator, who moves it
  also when not asked. A tune, full, identity-sector and cross-bank write differ in
  `Order`. A failure past the erase keeps the agent; a boot-recovery session and the retained retry
  are `OpenBoot`, `CloseBoot` and `Retry`.
* `SoftBslInstall`: phase 1 (fast or slow deployment of the door), the cycle with its
  proof and its questions, the staged entry, phase 2 by sector, finalizer and phase 3,
  which only looks. `mode` distinguishes a computer waiting for a trigger from one
  waiting for the payload of a trigger.
* `Ms4xWrite`: `_write` and `retry_write` over stock DS2, the resident loader and the
  RAM agent, with `Fallback` between the routes, the rates of the agent, invalidation, packets,
  boot markers and finalizer.
* `Ms4xData`: the storage restore and the VIN transactions, place by place. `CommitWord` is
  the word that makes a VIN record count.
* `NativeFastRead`: what is lasting in a read is the rate of the computer and what the
  program remembers of it: registry, latch, the bounded recovery and the repeat at 9600.
* `EepromWrite`: the agent's write byte by byte in the order of `build_write_plan`
  (`Plan`), with the retained session and its resumption (an empty plan succeeds without
  touching the chip; an entry refused at any rate ends the attempt), and the programmer's
  operations with what the window remembers of a capture (`seen`, `preseed`,
  `uncertain`).
* `HardwareBsl`: preview, confirmation, variant guard, then erase, program and verify
  of each region, over a coarse and a fine flash map.

### OperationOwner
Three kinds of threads: the GUI thread, the worker of a task, which also takes and
gives back the port, and the pollers. The variables in groups: `port` (owner of the
port, connected interface, engine handle, boot session), `conn` (Connect with its
Cancel), `work` (task and where it is, busy flag, controls), `held` (retained session
and what may be done with it), `side` (pollers, output test, queued call) and the
question `closeEvent` has open. A worker's result is delivered by `Done...`, also inside an open
question; `CloseEvent` and its answers follow `closeEvent` branch by branch. What a
task does to a vehicle is one outcome (`Result`).

### LiveSessions
Extends OperationOwner, whose every step is a step here (`OwnerStep`, `TimerStep`), with
the workers behind `poller` and `actuator`: `rough` (the roughness worker's place,
`_stop_confirmed`, failures in a row), `out` (the output test's place, `requested`, the
MS42/MS43 selector, its outcome) and `live` (the live worker's place, whether a telegram
selection is registered, samples completed and given to the view). `on` is what is
switched on in the engine computer. A request is answered, refused, or its reply is lost
after it was carried out or not (`Answered`, `Refused`, `Lost`); the ignition may go off
at any time. `...Handled` says what a step of OperationOwner does to a worker: a poller's
end can be shown only as its worker left it. `reported` is the history of what the user
was told may still be on.

### PatchEngine, InstallImages, PatchTab
An image is a function from cells to values; a cell is a maximal set of bytes that
the descriptors of the MS41.3 catalogue touch together, and a descriptor is a set of
edits of cells (`Edits`). `PatchEngine` has the functions `build`, `revert`, the
successor rules, parameter changes and the boot-region predicates under their source
names; `InstallImages` the plan and both images of the installation. `PatchTab` is
the tab as a state machine (base, `installed`, ticks, removals, drafts) followed by
the full write (`job`): base evidence, arming, gate and, as one step, what the flash
holds afterwards. The same state also serves `cmd_apply` and `compose_target`.
`PatchTabAssumption` says what a library, a computer and a selection are: images that
give every cell a content (`Contents`), and selections of patches of the catalogue.
Operators take intermediate images as parameters rather than naming them in LETs,
because TLC would compute a LET anew wherever it is used.

### BackupCatalogue
State: images at paths, folders, the index with its legacy flag, pending records,
the migration plan, the memory of the running `BackupManager`, and the operation
under way (`pc`, `op`). An operation is cut where the code makes one file operation
after another: pending record, image, index, removal of pending records. `SaveFails`
leads to the undo of the operation that called `_save`; the undo may fail too. On
"posix" `_move_file` is a link and an unlink, and may stop between the two
(`HalfMoved`); on "nt" it is one rename. A scan (`Refresh`) keeps the record of an
image found in place, lets the record of a missing image follow an image that is
unlike all others, and describes every other image afresh. Index, pending record and
plan are each replaced by one rename, hence in one step.

Images are told apart by content, records by an id (0 for records a scan makes up).
`owed` is a history variable: the ids of the records whose provenance the program
owes the user. A record leaves it when the user removes the image, or when the image
is touched while only a pending record describes it: the program then cannot tell
whose image it was. Left out: notes' text, nested folders, case-insensitive name
comparison, the order of the index, and file systems that forbid hard links.

### MC modules
Each `MC...` module extends the module it checks and defines what a cfg needs: model
values' symmetry (`Alike`), the kinds of write, the images of an EEPROM, all tasks, the
library of images and the selections. Every bound is a CONSTANT of its module.

## 3. Runs

| Run | Distinct states | What it asks |
|---|---|---|
| `swap_journal` | 4,096 | typing; no record its validator refuses; history only moves forward |
| `conversion` | 322,987 | at most one open conversion, recovery refused only after a torn rollback (`RecoveryOpen`); intents name everything written; journal never refuses a call of the task; closed records stay closed; foreign coding never overwritten; refinement of AtomicConversion; an interrupted conversion is settled (`EventuallySettled`) |
| `native_fast` | 783,588 | fall back only from a safe state, latch observed (`SafeRates`); only onto erased flash; no wrong key, no erase after A2 (`NothingSpent`); refinement of FlashOutcome; every write comes to rest and an offered retry repairs (`WritesSettle`) |
| `flash_writers` | 998,378 | eight writers: only onto erased flash; entry into a ready computer; every operation ends; normal mode again; right place and order (`RightPlace`); refinement of FlashOutcome |
| `port_owner` | 395,520 | one protocol at a time, port given back (`PortHeld`); what is shown as ended is off, whatever was lost, and every completed sample is given to the view (`ToldTruly`); a pressed Stop and a closing that waits for it are answered (`Answers`) |
| `backup` | 1,595,293 | provenance kept; catalogue at rest agrees with the folder; an image moved by others is found again; no image destroyed; migration plan given up only when carried out |
| `patches` | 279,745 | nothing of a removed or replaced revision remains; requirements and features kept; drafts apply; the two installation images agree; no boot patch arrives in part and what was built is what is flashed (`Arrives`) |
| `torn_rollback` | (stops at the violation) | finding 1 |
| `stuck_verification` | (stops) | finding 2 |
| `backup_refused` | (stops) | finding 3 |
| `close_unasked` | (stops) | finding 4 |
| `eeprom_rejected` | (stops) | finding 5 |

Bounds, and why they are enough.
* Journal: two operations with two writes each and two messages, so that two records,
  a repeated and a different failure report can interfere. The theorems of section 5
  remove the bound.
* Conversion: two owners (stopped between two; a rollback that fails on one and goes on
  with the other), four records (a recovery of a recovery reads the intents of both
  earlier records; the fourth is the retry after two failed recoveries), two failures,
  one change by somebody else.
* Native fast: two packets per array (one before and one after the failing one), two
  writes in a row (a latch, key or registry entry left over from the first), three
  failures.
* Writers: two packets of an array or region, one chunk of a Soft-BSL sector (two banks
  of three sectors already are six), two transmissions of each request, two rates, at
  most one sector left torn by earlier operations. Losses are not counted there: a
  request may fail as often as the code's own limits let it be sent. Two EEPROM images
  and a base of three stand for the bytes; two firmwares for the variant guard.
* Port owner: every task of the program is in the run, with an engine computer of either
  family. Only the samples of a live session are counted: one, which Stop may have waited
  for, is enough for the view to lack one.
* Patches: eight images (stock, each generation, foreign residues), five computers,
  fourteen selections, three counted operations (edit, build or write): an edit, a
  build and a write, or the edit after a build. Preparing steps (ticking, connecting,
  reading) are not counted, and stop when no counted step is left. Command line and
  installer compose from an untouched tab without a computer, since they share only
  the library with it.
* Catalogue: two contents, two names, two folders that exist one at a time, two
  records, two disturbances of which one by other programs. Two records are needed
  for an ambiguous match and for a name used twice; two disturbances for a failing
  save with a failing undo, or a crash in the recovery from a crash. Only "posix" is run in
  `backup`: every "nt" behaviour is one of its behaviours. The theorems of section 5
  remove all these bounds, for all its properties.

Deadlock is checked in every run but `flash_writers`: an MS42/MS43 computer with a torn boot
sector answers nobody, and the program may have ended.

Every property has a mutant in `PROJECT.json`: a plausible mistake in one mapped definition
(it stands in the module as a definition marked "Mutant") under which TLC finds the
property violated.

### Fairness
* Conversion: weak fairness of the task's steps, because the worker thread runs a task
  to its end; strong fairness of the user's actions that the GUI tells him to take
  (cycle, verify, recover), because each is enabled only between two tasks. Without a
  user who follows the instructions nothing can be settled, and `EventuallySettled`
  says so.
* Native fast: weak fairness of `SessionStep`, for the same worker. `RetryRepairs`
  also needs a user who takes the retry he is offered. `WritesEnd` needs neither the
  user nor the vehicle.
* Writers: weak fairness of `Work`, the worker thread. User, operator and surroundings
  owe nothing: a write also ends when nobody moves the switch.
* Port owner: weak fairness of the workers of the roughness check and of the output test
  (each request has a timeout), of the displays' timers, of the test's completion and of
  the call in the zero timer, which the event loop runs. Nothing of the user, and nothing
  of a Connect whose driver hangs.
* Catalogue and patches: no liveness is stated; every operation is a bounded sequence
  of calls.

## 4. Findings

1. **Torn rollback shuts recovery out** (`torn_rollback`, `RecoveryAdmissible`).
   `rollback_connected_modules` restores owners without journalling an intent. If a
   restore fails halfway the owner holds a mixture while the journal says its write
   is complete; every later recovery is refused. The user manual promises recovery of
   an interrupted conversion. `RecoveryOpen` shows that this is the only such case.
2. **Verification that cannot pass** (`stuck_verification`, `RecoveryStaysOffered`).
   A record interrupted while awaiting its ignition cycle is only resumed for
   verification. If a module has been coded again meanwhile, neither finish nor
   restore is offered, although the preflight of both would accept the vehicle.
3. **Catalogue refused for good** (`backup_refused`, `StartsAgain`). A removal deletes
   the image and cannot save the index; an image of other content is added under the
   same name and cut off before its index write. Recovery takes the stale index record
   for a conflict on every start, although the message says that a restart retries.
4. **Closing without the question** (`close_unasked`, `RecoveryAskedAbout`). `closeEvent` looks
   up the retained session before it asks whether to close over a running task. A write that
   fails while that question is open leaves a session that answering Yes gives up
   without "Flash Recovery Active".
5. **Half-written EEPROM record accepted** (`eeprom_rejected`, `Rejected`).
   `build_write_plan` spoils the low check byte with the target's plus one and writes
   the payload next; a mix of old and new payload can add up to just that value.

Smaller observations, not shown by a run. Where one bounds a property, the
definition named here is its exception.

Conversion and catalogue:
* the docstring of `mark_restored` (`transmission_swap_journal.py:392`) says that every
  owner was exactly restored; `settle_superseded_connected_swaps` also marks prior records
  restored after a recovery to the target;
* after a crash of a posix migration between link and unlink, the replay reports that
  the destination exists on every start, although the message asks for a restart;
* a failed way back of a rename leaves the entry at the old path until the next scan;
  the folder operations undo in the safe order (file first, then record);
* an image moved while only its pending record describes it loses its provenance if
  the program dies before the index is saved.

Stock DS2 at both rates:
* after an interrupted calibration phase and a cycle, a full replay that restarts in
  the program phase polls the calibration without the recovery tolerance; `Repairable`
  therefore asks for a whole calibration array there;
* the re-entry registry lives in the process: after a restart, or when the user skips
  the cycle he was asked for, the high rate can be entered over a busy latch. `lapses`
  names these two cases in the write's `LatchObserved`;
* a read whose selector was attempted but not acknowledged, and whose link is then
  unknown, is not entered in that registry (`ds2_fast_read.py:1248`; `lapsed`);
* a native-fast session whose outcome is unknown at commit ends only by closing the program after
  a cycle, since release is not offered for it.

Soft-BSL and its installation:
* the retry of a tune does not look at the bank again; a TOP bank without its marker
  is taken for BOTTOM (`~Marked` in `WritesRightBank`), and "entered from BOTTOM" is
  assumed by a cross-bank write, not checked;
* the guard of a cross-bank write says "NOTHING was erased ... re-run" while its agent
  runs and the port is closed, and its reset after success is not confirmed;
* a `reset()` that raises after a verified write retains a session though the flash is
  the target;
* `gui.py:10294` offers a retry where `softbsl_service.py:78` has none;
* `_finish_install` ignores the result of `_verify_install`: an E740 that cannot be
  cleared only warns, and "INSTALL DONE ... E740=0" is said all the same;
* a slow deployment of phase 1 that fails after its erase closes the port and retains
  nothing; an unconfirmed finalizer goes on.

MS42/MS43:
* a failed finalizer of the stock route retains a session that offers neither retry nor
  cycle;
* the identity backup of a write is not followed.

EEPROM and hardware recovery:
* a resumed EEPROM write plans again and may spoil the check with another value, which
  `_validate_recovery_image` does not know at the next resumption; no property says
  otherwise, since it would restate that one comparison (`eeprom_ram.py:2265`, `manual/USER_MANUAL.md:694`);
* `bsl_unbrick.py:1498` tells the user to run the plan again, which `_variant_guard`
  refuses when the erased region was the one with the id and no live program remains;
* after an interrupted write of all regions, a single-region write of another unsigned
  firmware passes the guard (`sane`).

Port and closing:
* a prompt of the installation's phase 1 (`gui.py:9640`) is followed by a task that can be
  refused after the port was taken (`ignored`).
* `_on_roughness_stop` looks at its worker twice; a session that ends in between is shown as
  "ECU Stop unconfirmed" although it is confirmed. Pressing Stop again clears it.

Patches:
* the boot gate compares in one direction: a stock program over a computer with the
  earlier calibration guard leaves its boot hook without a body, which
  `restore_missing_calguard_v5_body` repairs in a later image;
* the gate trusts the last full read without its connection's key (`gui.py:4471`,
  `:4716`); with a TOP bank and Write Boot off it is skipped (`half # "T"`);
* a removal that is built, declined at the write and built again makes the second comparison
  start from the first build, so that removed boot bytes stay in the computer
  (`job.from = ecu`).

## 5. Proofs

Eight modules of proofs, one for each component with theorems. Every theorem holds for
every value of the constants that the named assumptions allow, so without the bounds of
section 3. Each argument has the same form: an inductive invariant (TLC checked it on the
instance of the run before it was proved), one lemma per action or group of actions, and a
temporal step at the end. What each inductive invariant adds to the property is the
reason why the code is right:

`SwapJournalProofs` (assumption: no message equals the marker for "no failure").
`IInv == TypeOK /\ NeverLockedOut /\ FailedKeepsWrites`. The third conjunct is the
strengthening: `Resume` restores `failedFrom`, and a record that comes back as
"awaiting_cycle" is valid only if its writes are still complete. `GoodRecords` turns
IInv into a statement about single records, `SaveGood` is the only place where the
function is updated, and `CallKeepsIInv` has one step for each journal call. From the
same invariant: `JournalHistoryKept`.

`TransmissionConversionProofs` (`ConversionAssumption`). `IInv == TypeOK /\ JournalInv /\
TaskInv /\ VehicleInv`.
* `JournalInv`: the records are numbered without a gap, each supersedes an earlier one,
  and at most one is open and not superseded.
* `TaskInv` says what the running task is about to do at each place: a record is created
  only if nothing is open but the record it supersedes (`CreateInv`); the task works
  under the open record (`OpenInv`); what it still has to write is absent from the record
  but for the write at hand (`StepInv`); a rollback still has every changed owner ahead,
  unless one of its restores failed (`RollbackInv`).
* `VehicleInv` ties the vehicle to the chain of the open record: whatever is target or torn
  is an attempted write of the chain, and torn only where recovery may find it torn.
The lemmas on `Chain` say what a journal call does to a chain, and that chains are acyclic
and finite. `RecoveryStaysOpen` needs `MaxRecords <= ChainLimit`, as the code gives up
on longer chains; without it `RecoveryRefusals` says that the preflight of an undisturbed
vehicle refuses only over a torn rollback or a chain longer than that.
`ConversionIsAtomic` is the refinement of AtomicConversion, step by step.

`NativeFastWriteProofs` (`NativeFastAssumption`, `DmeAssumption`). The parts of `IInv`: the
outcome reported so far (`OutcomeInv`); the destructive boundary is noted before anything
is erased (`BoundaryInv`); which phase has been erased and written (`PhaseInv`); packets
behind the one at hand are written, those ahead blank (`CellsInv`); what is left of the
seeds, and that no challenge is sent to a computer that waits for a key (`AuthInv`); a busy
latch nobody was told about is in the registry or about to be (`LatchInv`); nothing is
erased after A2 (`EraseInv`). `OutcomeIsPromised` is the refinement of FlashOutcome.

`SessionWritersProofs` (the slow DS2, Soft-BSL and MS42/MS43 writers) and
`FlashWritersProofs` (the others, and all of them behind one operation;
`WritersAssumption`). `WriterInv` is one inductive invariant per writer;
the writer never changes, so that they are independent, and each has its own lemmas that
every step keeps it. The theorems follow from it: `WritersTyped`, `PacketsOntoErased`,
`FlashModeIsLeft`, `NothingMisplaced` and `EntryIsReady`. `WritersKeepPromise`, the
refinement of FlashOutcome, adds `KeptInv`.
* `LegacyInv`, `MsInv`: the packets behind the one at hand are blank; of the agent, the one
  at hand is blank on its first try and at most part of the new one after it.
* `SoftFresh` says how far a Soft-BSL write came (a first sector before the first erase, no
  erase while verifying), `SoftFlash` what the sectors and the chunks before and after the
  one at hand hold. `SoftBanked` is why the switch may be moved at any time: the bank it
  selects is the one the write is for, or has lost its marker, or holds all there is to
  write to its boot sector.
* `DataInv`: the second bank of retained data is begun when the first is written, and the
  word that commits a VIN record when the rest is.
* `EepromInv`: the plan of a seed or its undoing has the marker only. `EepromPlans` says of
  `Plan` that it is empty only where nothing differs.
* `BslInv`: the regions before the one at hand are written; what an unforced write of one
  region leaves as it is is of the firmware it writes (`BslGuards`, the argument of
  `_variant_guard`).
* `ReadInv` follows the registry, the selector and the link through a read; the
  installation's `TypeOK /\ OneTrigger` is inductive.
* `KeptInv`, again one part per writer, ties the place of the worker to the flash and to
  what will be reported: what ends as not started has not erased (each `...Kept` says
  where nothing is touched yet, and that whoever erased has noted it as destructive), and
  what comes to the end of its work has written all it is for: the arrays before the one
  at hand (`LegacyKept`), the regions before it and their markers (`MsKept`), every sector
  before the write leaves flash mode (`SoftKept`), the plan of an EEPROM change
  (`EepromKept`), all blocks of a read (`ReadKept`), both targets of an installation
  (`InstallKept`), every place of a record (`DataKept`); a hardware recovery follows from
  the order of its regions (`BslCompletes`). `Moves` spells out what FlashOutcome lets a
  step do to content and verdict, so that each writer's lemma (`LegacyPromised`, ...,
  `DataPromised`) is about its own steps only, and `WritersMove` joins them. The lemmas of
  the slow and Soft-BSL writers are in `SessionWritersProofs`, the other six in
  `FlashWritersProofs`.

`BackupCatalogueProofs` (`CatalogueAssumption`; with finitely many names and folders, which
the counting of images needs). `IInv == TInv /\ PInv`.
* `TInv` types the memory, the plan and the operation under way besides `TypeOK`; its
  `UndoTyped` says which operations may be undone and that what the undo needs is
  there.
* `PInv` is the argument why provenance is kept. `ProvenanceKept` alone is not
  inductive: saving the index replaces it by what memory holds, removing a pending
  record trusts that the index has it, and adopting a plan replaces the records by
  those of the plan. So: while the program runs its memory has every record it owes
  (`InMemory`); before pending records are removed, and while migrating, the index has
  them (`Indexed`); the plan covers them (`InPlan`); an image only a pending record
  describes is where the record says (`Attached`); and the record of an add is fresh and
  alone with its id (`Numbered`, `Publishing`).
* `VInv` adds why the catalogue is truthful at rest: records and images are one to one
  from the first scan on (`Shown`), every image lies in a folder that exists, and the way
  back of an operation whose index is not saved is free (`WayBack`).
* `MInv` adds why a migration is complete before its plan is removed.
`ScansFindImages` needs `OnlyRecord`: a scan may find two records of one moved image, when
one that was recovered from a pending file that could not be removed stands beside the
index's; it then decides for neither.

`PatchTabProofs`. `AInv` follows the full write only: its base is the last read over the
connection that is still open (`Connected`, `FreshRead`), a write that is not armed carries
no boot bytes that are not there (`Armed`), and one that is armed was gated for the bank it
goes to (`Whole`). `TabInv` follows the tab: its marks are what its base holds (`Shows`), and every
pending value (`Drafted`) is that of a patch that will be in the result, with everything it
requires, and differs from what the base gives it; so a removal or a tick that would leave
it without its patch has to drop it. Its proof rests on what `build` and `revert` make of a list
of patches. They are folds: the value of a fold is that of a recursive function chosen over all
subsets, so `FoldExists` first shows that there is one, from the least relation closed
under its steps, and `SubsetInduction` (from the strict subsets of a finite set being well
founded) then gives the induction. `RevertFold`, `PatchedSteps` and `SettingSteps` say with it
which cells a list of patches touches, and the rest is tables of the catalogue
(`PatchCells`, `EngineCells`, `Revisions`).

That no change of the image leaves anything behind (`NothingIsLeft`) and that it keeps what
it should (`WhatIsKept`) are about the image before and after one step, for every image, so
their argument is about the engine alone:
* removals leave every cell as it was or stock and every patch there or gone (`Remains`),
  because two patches that are wholly in an image share no cell, but for the two retired
  AMD drivers (`Apart`); `PatchedCells` and `BuiltCells` say what a composition is, cell by
  cell, and `NothingLeftTwice` lets the statement be carried over the several steps of the
  installer's target;
* preparing a base removes only what a patch of the composition supersedes
  (`PreparedKeeps`), provided that the guard goes along with its loader and the launch
  control with its ignition engine (`Along`), which is what the engine adds to a
  selection (`ResolvedAlong`). So a composition loses no patch of its base but to a
  successor (`BuildHolds`), brings none but its own (`BuildBrings`), and a requirement that
  was met stays met (`BuildKeepsMet`, `RemovalKeepsMet`). `TargetKept` follows the
  installer's target through its removals, and `SettingsArrive` the tab's settings. A
  composed target is the one composition that loses a feature: it drops the temporary door and
  decides anew on the TOP guard of an image that is not marked TOP or has not its driver
  (`Redecided`, in the property itself);
* the base of an installation's plan is freed of everything that is composed onto it
  (`RevertGone`, `PlanBase`), so that nothing is left out as already there, nothing is
  added but the AMD driver, and preparing touches no other cell (`FreshPlan`); bootstrap
  and target are then the same patches on the same cells but for the door's
  (`ImagesMatch`).

`LiveSessionsProofs` (`OperationAssumption`, `SessionsAssumption`) has the window and the
sessions in it. `IInv`: whatever is open on the port is open alone and under its name (`HandlesInv`), a task
has what it took from its start to its completion (`TaskInv`), and when nothing is open the
owner is free or a completed task that is about to be handled (`OwnerInv`). `AllInv == IInv
/\ TestInv /\ SInv` for the sessions: what is on in the engine computer belongs to a worker
that still has to switch it off, or was reported. `SessionsImplementOwner` is `SessionsSpec
=> Spec`, by which the theorems of the window hold with the workers running.

The constants' assumptions are evaluated by TLC in the runs of the modules that state
them.

Only model-checked:
* all liveness (`EventuallySettled`, `WritesSettle`, `WritesEnd`, `Answers`), which needs
  fairness and ENABLED;
* of `InstallImagesAgree` that the installer refuses neither of its images. `ImagesMatch`
  proves the rest of it, that they agree when both are composed, for every image. That
  they are composed is true of the library of `MCPatchTab` and not of every image: where
  a cell a patch needs holds anything else, the composition is refused, as it should be.

## 6. Not modelled, and why

* How the conversion plan is computed from the coding, archive files, wire formats,
  checksums, XDF definitions, byte layout of plans, frames and descriptors: pure data,
  tested by the repository's own unit tests.
* In the native-fast writers: the EEPROM-record write, the qualification of the entry,
  cancellation before the erase, the tolerance a variant conversion needs (its poll
  status 0E is a refusal here, `ds2_fast_slim_write.py:1057`); an error appending to the
  operation journal acts as a lost request. A program closed in spite of a retry that
  is open is a `Crash`.
* In the conversion: the error of a directory sync after a record was replaced, which
  counts as a save that failed or one that succeeded; the branch of
  `load_connected_swap_journal` that sends a session awaiting its cycle back to recovery
  because its cluster target is malformed (`transmission_conversion.py:3337`); another
  tester while a task runs.
* In the backup catalogue: at start, the refusals of an index of an unknown version and
  of a legacy file whose size has changed (`backup_manager.py:676`). A pending record
  that gives way to an indexed record of the same bytes (`:640`) is owed no longer.
* In the patches: `_validate_parameter_relationships` (`patch_service.py:651`), since
  the values it refuses are not in `Values`. In the installation's images:
  `restore_exact_deprecated_aif_payloads` (`softbsl_host.py:3429`) and the refusal of an
  unknown body of the calibration guard (`:3487`), whose current form has no program cell.
* The reads of the slow, Soft-BSL and MS42/MS43 protocols: they leave nothing behind
  but what their entry and exit leave, which the writers of the same protocol have.
* Agent uploads byte by byte, bench commands, dry runs and console front ends.
* The GUI's requests for identity, configuration and tune writes before they reach a
  writer; widgets and wording.
* Which channels are read and how they are decoded, the log's format, diagnostics and
  coding editors: request and reply without lasting state.
* Components marked "no" in the inventory.

## 7. Plan

Done: all modules of section 2.

Next proofs: which images the installer does not refuse (the half of `InstallImagesAgree`
that section 5 leaves to TLC); no other safety property is left.

Next modules: the identity, configuration and tune requests in front of the full
write.
