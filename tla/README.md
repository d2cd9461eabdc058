# Formal models of aemu

This directory holds TLA+ models of parts of the aemu repository. TLC model-checks
them on small instances, and TLAPS proves the main safety properties for every
value of the constants. Everything is written from the code under `src/`.
The graphics core described in `spec.md` has no code under `src/`; it is not
modelled yet (section 6).

## 1. The system and its parts

The source tree is a set of independent utilities of the Android emulator host:

| Part | Source | Concurrency | State |
|---|---|---|---|
| dirent: POSIX `opendir`/`readdir`/`telldir`/`seekdir` on Windows | `windows/src/dirent/dirent.cpp`, header `unnamed/part_004`, test `unnamed/part_001` | one caller per `DIR`; other processes change the directory | find handle, enumeration cursor, position |
| RecurrentTask | `base/include/aemu/base/async/RecurrentTask.h` | owner thread plus looper thread, one mutex | `mInFlight`, the Looper timer |
| SimpleRecurrentTask | same header, lines 178-235 | looper thread; deletes itself | timer |
| SimpleAsyncSocket | `unnamed/part_011`, `AsyncSocket.h` | adapter callbacks | none of its own |
| OutputLog | `unnamed/part_006` | none | the verbose flag; otherwise pure formatting into a stack buffer |
| Fatal-error path: `AbortMessage`, `die`, `setDieFunction` | `host-common/GfxstreamFatalErrorAbsl.cpp` | any thread; one unsynchronised global | `customDieFunction` |
| DefaultLooper, Process/Command, GraphicsObjectCounter, HostmemIdMapping, logging | `unnamed/part_012`-`017`, `host-common/...` | declarations only | — |
| Address-space graphics core | `spec.md` only | guest thread plus consumer thread per context | block pools, contexts, snapshot |

The parts do not call each other in this tree. RecurrentTask uses the Looper's
timer, whose implementation is not in the tree. The model abstracts the timer to
"armed or not".

## 2. Modules

### Dirent (`Dirent.tla`, `MCDirent.tla`, `DirentProofs.tla`, `DirentSeekProofs.tla`, `DirentOrderProofs.tla`)

State, with the code it stands for:

- `dirp` is `InternalDir`. It holds:
  - `handle`: the find handle, with 0 standing for `INVALID_HANDLE_VALUE`. Handles are numbered 1, 2, … in the order FindFirstFileW opens them.
  - `snap`: the enumeration that handle walks. A find handle sees the directory as it was when opened.
  - `cur`: the entry in `find_data`.
  - `first`, `end_reached`, `current_position`: the fields of the same names.
- `disk`: the directory's contents on disk, or `NoDir`. `changes` counts the edits made by another process.
- `open`: the caller holds the `DIR*`.
- `errno`: the errno value.
- `nextH`: the number of handles opened so far. `closes[h]` counts the FindClose calls on handle h.
- `pc`, `arg`, `left`: which call is under way, one loop iteration per step:
  - `"readdir"`: readdir's skip-`.`-and-`..` loop;
  - `"seekdir"`: seekdir's replay loop;
  - `"seekend"`: the `seekdir(-1)` loop.
- Ghost variables: `told` (the values telldir returned) and `done` (the last call that returned, with its argument; for readdir, the entry it returned or `NoEntry` for nullptr).

Actions:

- `OpenDir(p)` models lines 186-237. Each error return is modelled, with the errno `translate_windows_error_to_errno` gives. A new stream starts as `NewDir` (the `DIR()` constructor, lines 175-184, used by `Init` too) with the find handle and its enumeration filled in.
- `Utf8ToWideThrows(p)` models `utf8_to_wide` (lines 110-113). A `std::wstring_convert` built without error strings throws `std::range_error` on malformed UTF-8. So for the path `"badUtf8"`, opendir leaves by the exception: there is no stream and errno is untouched. The `EINVAL` check at lines 194-197 never fires.
- `Iterate` is one pass of readdir's loop (lines 245-291). It is used by:
  - `ReadDirStep`: a readdir the caller makes;
  - `SeekDirStep`: the loop at lines 349-356;
  - `SeekEndStep`: the loop at line 346.
- `Rewind` is rewinddir's body (lines 314-325), used by `RewindDir`, `seekdir(0)` and `seekdir(loc > 0)`. When FindFirstFileW fails, the handle is INVALID and `first`, `end_reached` and `current_position` keep their old values, as in the code.
- `CloseDir` models closedir. `~InternalDir` runs `CloseHandle`.
- `TellDir` models telldir.
- `NullCall` models the five `dirp == nullptr` checks.
- `ChangeDisk` is the environment: another process creates, removes or deletes entries.

Entry names are abstracted to classes: `Names` fit in `d_name`, `LongNames` do not (the check at line 276), and `Dot`/`DotDot` are skipped. The UTF-8 conversion is modelled only by whether it throws. The path strings and `get_file_index` are modelled in DirentPaths.

### RecurrentTask (`RecurrentTask.tla`, `MCRecurrentTask.tla`, `RecurrentTaskProofs.tla`)

Each section of the code that holds `mMutex` is one atomic step.

- Owner thread:
  - `Start` models `start` (lines 87-91).
  - `StopAsync` models lines 99-103.
  - `Destroy` models the destructor: `stopAndWait`, lines 105-113. It only calls stopAsync, after which the object is gone.
- Looper thread: `Fire` fires an armed timer, then taskCallback runs as three steps:
  - `Check`: `inFlight()` under the lock, line 143;
  - `Call`: `mFunction()` without the lock, line 144;
  - `Relock`: lines 145-152.
- Ghost variables:
  - `stopped`: the last owner call was a stop;
  - `pending`: a start has not yet been followed by a call of mFunction.

RecurrentTask has no abstract specification. The contract its comments state can be written as one, with `inFlight` and "a call under way". Each abstract guard is then the guard of `Check` at line 143, so any step of this code maps to an abstract step or a stutter. It also maps that way when `start`, `stopAsync` or the relock gets `mInFlight` wrong. Such a refinement says nothing the code could break. The comments' promises that the code can break are stated directly, as `InFlightMeansScheduled`, `StopDisarms`, `NoCallbackAfterDestroy` and `StartNotLost`.

### SimpleRecurrentTask (`SimpleRecurrentTask.tla`, `MCSimpleRecurrentTask.tla`)

The fire-and-forget task of lines 178-235. `task[t]` is "none" before `schedule()`, "armed" while its timer runs, and "freed" after `delete self`. `runs[t]` counts calls of mFunction, and `looper` is "running" or "deleted".

- `Schedule(t)` models `schedule()` and the constructor (lines 207-220).
- `TaskCallback(t)` is a whole timer callback (lines 222-230): the function runs, and the timer is restarted or the object deleted. The looper runs one callback at a time, so one step is faithful.
- `DeleteLooper` is the looper's owner deleting the looper. Its timers never fire after that.

### DirentPaths (`DirentPaths.tla`, `MCDirentPaths.tla`)

The strings opendir and readdir build, against the Windows path rules. A path is a sequence over a small alphabet: letters, `sep` for `\`, `slash`, `colon`, `q` and `star`.

- `FullName(p)` is the directory GetFileAttributesW checks (line 200). A path without the `\\?\` prefix is made absolute, `/` is turned into `\`, and repeated and trailing separators are dropped. A prefixed path is taken verbatim.
- `PrepareDirPath` models lines 121-130, and `CreateSearchPath` lines 132-140.
- `FullPath` is readdir's `path + L"\\" + cFileName` (line 283).
- `GetFileIndex` models lines 91-107.
- `Init` is an opendir that GetFileAttributesW accepted. `ReadEntry` is a readdir returning the entry `a`.

### FatalError (`FatalError.tla`, `MCFatalError.tla`)

- `custom` is the global `customDieFunction`, and `NoDie` is `std::nullopt`.
- `pc[t]` is where thread t is on the fatal path, and `proc` is how the process ended.
- The steps follow the destructor (lines 44-61) and die() (lines 30-35): `Raise`, `LogMetric`, `CheckCustom`, `LogFatal`, `DieCheck`, `DieCall` and `Abort`.
- The global is read without a lock, so the test at line 31 and the call at line 32 are separate steps. Another thread's `SetDieFunction` (line 63) can land between them.
- `DieCall` on an empty optional is undefined behaviour. The model takes the outcome the build gives, a crash.
- A die function may end the process or return. When it returns, abort() follows.

### OutputLog (`OutputLog.tla`, `MCOutputLog.tla`, `OutputLogProofs.tla`)

The text is abstracted to positions: the i-th character vsnprintf would write is `Char(i)`. A buffer maps `0..BufferSize-1` to characters, `Nul`, `Dot` or `Junk` (a byte left unwritten).

- `Vsnprintf(size)` models line 74: it writes at most `bufferSize - 1` characters and a nul.
- `Message(size)` is lines 69-83: the `>=` test, strncpy of "..." over the last three bytes, and the string_view of `strlen` bytes.
- `Level` is the severity switch (lines 85-128).
- `Log(sev, size, ts)` is a whole OutputLog call, with the verbose filter of line 65. ABSL_LOG(FATAL) ends the process.
- `EnableVerbose` models line 31.
- `StreamLog(sev)` is gfx_stream_logger (lines 33-59). It logs the caller's message as it is, with no verbose filter and no timestamp. Its switch, `StreamLevel`, sends any other letter to INFO, where OutputLog's switch drops it. FATAL ends the process here too, so either entry point can end the logging that `MessageIsFormattedText` is about. `direct` records the level it logged at.

## 3. Runs

| Run | Checks | Result | What it shows |
|---|---|---|---|
| `dirent_core` | `TypeOK`, `HandleDiscipline`, `ReadDirKeepsErrno` | pass (309k states) | In every order of the calls, with the directory deleted and re-created, each find handle is closed exactly once, except the open stream's own. This covers failed rewinds and seekdirs that rewind. A readdir step changes errno only when readdir fails. The end of the directory, a skipped `.` or `..`, and a returned entry leave errno alone, as POSIX and the header's lines 116-117 require of callers who set errno to 0 to tell the end from an error. The header's line 121 says otherwise (finding 6). |
| `dirent_seek` | `SeekLands`, `ReadDirInOrder` | pass (56k states) | Without long names and without concurrent changes, `seekdir(telldir())` and `seekdir(-1)` land where promised. readdir returns the entries in order: the entry it just returned is the telldir()-th of the listing, with `.` and `..` not counted. So no entry is skipped or repeated across rewinds and seeks. |
| `dirent_longname` | `SeekLands` | violation | A name too long for `d_name` stops `seekdir(-1)` early. This is finding 1. |
| `recurrent_safety` | `InFlightMeansScheduled`, `StopDisarms` | pass (370 states) | start/stopAsync racing each window of taskCallback keep `inFlight()` truthful, and a stop stays final. |
| `recurrent_destroy` | `NoCallbackAfterDestroy` | violation | The destructor returns while a callback is running. This is finding 2. |
| `recurrent_loststart` | `StartNotLost` (liveness) | violation | A start racing a callback that returns false is lost. This is finding 3. |
| `simple_task_deleted` | `EventuallyDeleted` (liveness) | pass (686 states) | Every scheduled SimpleRecurrentTask is eventually deleted, unless its looper is deleted first, in which case it leaks. |
| `dirent_paths_tests` | `SearchSameDirectory` | pass (200 states) | For the absolute spellings the unit tests use, with or without `\\?\`, FindFirstFileW enumerates the directory opendir checked. |
| `dirent_paths_relative` | `SearchSameDirectory` | violation | `opendir("a")`, a relative path, is accepted and then enumerates nothing. This is finding 4. |
| `fatal_terminates` | `FatalErrorTerminates` (liveness) | pass (476 states) | Once a thread destroys an AbortMessage, the process ends, whatever other threads do to the die function. Only a crash through an empty die function (finding 5) also ends it. |
| `fatal_empty` | `NoCallThroughEmpty` | violation | A `setDieFunction(std::nullopt)` between die()'s test and its call makes it call through an empty optional. This is finding 5. |
| `outputlog_lengths` | `MessageIsFormattedText` | pass (234 states) | For every length a successful vsnprintf returns, the logged view is the text, cut and marked with "..." when it does not fit. The view holds no nul and no unwritten byte. |

Every property of a passing run has a mutant in `PROJECT.json`. The mutant is a variant of one mapped definition with a plausible bug, and TLC must find it violating the property:

- `TranslateErrorNoPath`: a missing case label.
- `CloseDirLeak`: a destructor without FindClose.
- `SeekDirStepShort`: a loop one read short.
- `RewindKeepsPosition`: a rewinddir that does not reset `current_position`.
- `IterateEndErrno`: readdir setting ENOENT at the end of the directory, as the header's line 121 documents (finding 6).
- `RelockNoRearm` and `RelockIgnoreStop`: the two ways to get the re-arm at line 146 wrong.
- `TaskCallbackNoRestart`: a callback that forgets to restart the timer.
- `PrepareDirPathAlways`: the prefix added twice.
- `DieCallNoAbort`: die() without the abort() after the die function.
- `MessageOffByOne`: `>` for `>=` at line 76.

### Bounds

Dirent:

- Three short names and one long name.
- Listings of 4-5 entries.
- `MaxHandles = 4`: at most four FindFirstFileW calls. That is enough for open, failed rewind, rewind and seekdir in one behaviour.
- `MaxChanges = 2`: deletion and re-creation.
- `MaxLoc = 3`: larger than the number of readable entries, so seekdir past the end happens.

RecurrentTask:

- `MaxRuns = 3` calls of mFunction. The last call returns false.
- `MaxOps = 4` start/stop calls. That lets a start or a stop land in each of taskCallback's three windows, and a stop be followed by a restart.

The RecurrentTask runs use `CHECK_DEADLOCK FALSE`. Once the owner has made its MaxOps calls, or destroyed the task, and no timer is armed, nothing can happen, and the real program is idle there too.

SimpleRecurrentTask: three tasks and `MaxRuns = 3`. A task may be scheduled before or after the looper is deleted, and may run again or finish at each call.

DirentPaths:

- Letters `a` and `b`.
- `MCTestForms` is each root, with or without `\\?\`, followed by a well-formed tail of at most four characters.
- `MCAnySpelling` is every sequence of up to four characters over five symbols, plus their prefixed forms. That covers relative paths, `/`, doubled and trailing separators, and the bare root.

FatalError: two threads, one die function and three `setDieFunction` calls. That is enough to install, remove and re-install the function while both threads are on the fatal path.

OutputLog: a six-byte buffer stands for the 4096 of the code. Lengths 0..8 cover a text shorter than the buffer, one filling it exactly, and longer ones. The proof covers every buffer size.

The SimpleRecurrentTask, DirentPaths, FatalError and OutputLog runs use `CHECK_DEADLOCK FALSE`. Each reaches final states where the program has nothing more to do: every task freed or its looper deleted, the paths read, the process ended, or the FATAL log made.

### Fairness

- `RecurrentTask` assumes weak fairness of the looper thread (`WF_vars(LooperStep)`). An armed timer eventually fires, and a callback in progress runs to its end, as a running Looper does. The owner thread is not assumed to act.
- `SimpleRecurrentTask` assumes weak fairness of each task's callback. An armed timer of a running looper fires. Nothing obliges the looper's owner to delete the looper, nor anyone to schedule.
- `FatalError` assumes weak fairness of each thread's steps on the fatal path. A thread running a destructor keeps being scheduled. No thread is obliged to fail or to call `setDieFunction`.
- Dirent has no liveness property: its calls are made by the caller, who owes nothing.

## 4. Findings

1. **dirent, long names.** readdir returns nullptr with ENAMETOOLONG after consuming an entry too long for `d_name` (line 276), and does not count it. The effects:
   - `seekdir(-1)` (line 346) stops there with `end_reached` false. telldir then returns that position rather than -1, which the test at `part_001` lines 199-201 expects.
   - `seekdir(p)` to a later position fails with EINVAL.
2. **RecurrentTask destructor.** `stopAndWait` (line 112) does not wait, contrary to its documentation. The object can be freed while taskCallback is between `inFlight()` and the relock.
3. **RecurrentTask lost start.** A `start()` while mFunction runs and returns false is overwritten by `mInFlight = false` (line 151). The timer fires, `inFlight()` is false, and the task never runs again.
4. **dirent, relative paths.** GetFileAttributesW resolves a relative path or `/` separators. `prepare_dir_path` (line 129) then prepends `\\?\`, which turns that resolution off. So `opendir(".")`, `opendir("sub")` and `opendir("C:/dir")` pass the check and then fail in FindFirstFileW.
5. **Fatal-error race.** die() tests `customDieFunction` (line 31) and reads it again to call it (line 32), without a lock. A `setDieFunction(std::nullopt)` in between makes it call through an empty optional.

6. **readdir's end-of-directory errno (header/code divergence).** The header `dirent.h` (`part_004`) contradicts itself. Lines 116-117 say that a nullptr with errno not 0 is an error, and line 121 says `@retval ENOENT No more directory entries`. The code (dirent.cpp lines 252-254) sets `end_reached` and leaves errno alone, following lines 116-117. The `dirent_core` run shows this: `ReadDirKeepsErrno` holds on every behaviour, and the mutant `IterateEndErrno`, which does what line 121 documents, violates it. A caller that follows line 121 and waits for `errno == ENOENT` never sees the end of the directory.

The models also show four behaviours that no run lists as a finding:

- **Concurrent change (dirent line 349).** After another process changes the directory, seekdir's replay makes a position name another entry. POSIX leaves that unspecified.
- **Trailing separator (dirent line 283).** Opening a directory spelled with a trailing separator, such as `\\?\C:\`, makes readdir's full path contain a doubled separator, so d_ino is 0. With `Inputs <- MCAnySpelling`, TLC reports `EntryIndexed` violated. No run checks `EntryIndexed`: on the test spellings it only restates line 283, and all run slots are in use.
- **Malformed UTF-8 in opendir (line 193).** The header (`part_004` line 106) promises `EINVAL` for a name with invalid characters. Instead, `utf8_to_wide` throws `std::range_error` out of opendir, and the empty-result check at lines 194-197 is dead code. `OpenDir` models the throw. No run states the header's promise, because the run budget goes to the stream's invariants, so this divergence is listed as a hazard with no property.
- **Encoding error (part_006 line 80).** A negative vsnprintf return becomes the view's length, which reads far past the buffer. With `Sizes <- MCReturns`, TLC reports `MessageIsFormattedText` violated.

## 5. Proofs

`DirentProofs` proves `TypeCorrect == Spec => []TypeOK`, `HandlesReleasedOnce == Spec => []HandleDiscipline` and the action property `ReadDirErrno == Spec => ReadDirKeepsErrno`. Both rest on the inductive invariant `IInv == TypeOK /\ HandleBookkeeping /\ HandleDiscipline`. HandleDiscipline alone is not inductive; the strengthening says:

- the stream's handle is at most `nextH`, and handles above `nextH` were never closed, so a newly opened handle starts unclosed;
- a call under way is on an open stream;
- an open stream's `cur` indexes its enumeration, which TypeOK of `Iterate`'s result needs;
- seekdir's loop has a read left.

TLC checked IInv as an invariant of the core run before it was proved. `NextIInv` has one lemma per action. The lemmas rest on:

- `IterateType`: one pass of readdir's loop keeps the stream well formed and its handle unchanged;
- `RewindStep`: after rewinddir, both on success and on failure, the stream's handle is the only unclosed one;
- `CloseHandleStep` and `ClosedAfterClose`: the effect of FindClose on the counts.

`ReadDirErrno` needs only TypeOK from IInv. While `pc = "readdir"`, the only step that can change errno is `ReadDirStep`, because every other action is guarded by another `pc` or leaves errno alone. The lemma `IterateErrno` goes through the branches of readdir's loop. Only a FindNextFileW failure on an INVALID handle and a name too long for `d_name` set errno. Both end the call, and neither sets `end_reached` nor moves the position.

`DirentSeekProofs` proves `SeekLandsProved`: assuming `NoChange` and `ShortNames`, `Spec => []SeekLands`. `NoChange` means `EnvStates = {}`: no other process changes the directory. `ShortNames` means no listing holds a name in `LongNames`. The `dirent_seek` run's constants satisfy both, and each is needed:

- `dirent_longname` violates SeekLands with a long name (finding 1).
- With short names, SeekLands is also violated when an `EnvStates` value removes an entry: the replay then counts a different listing. POSIX leaves this case unspecified (the hazard at dirent.cpp:349).

The invariant is `IInv /\ SeekInv`. SeekInv is defined in `Dirent.tla`, and TLC checked it on the `dirent_seek` instance before it was proved. SeekLands alone is not inductive. It says nothing about seekdir while its loop runs, and the loop could fail with EINVAL before it reaches `loc`. SeekInv counts what is still ahead:

- `StreamOnDisk`: an open stream walks the listing on disk, with a valid handle.
- `PositionCounts`: until the end is reached, `current_position` plus the number of readable entries (not `.` or `..`) at or after the next index equals the listing's readable count.
- `ToldInListing`: every value telldir returned is -1 or between 0 and that count.
- `ReplayCounts`: while seekdir's loop runs, `current_position + left = loc`. If `loc` is a value telldir returned, the end has not been reached.

In the loop, the entries ahead number at least `left`, which is at least 1. So the EINVAL branch cannot happen for a told `loc`. Each read that returns an entry moves one position, and after the last one telldir gives `loc`. A pass that skips `.` or `..` changes nothing that is counted. The lemmas are:

- `IterateSeek`: one pass of readdir's loop, on the stream's record. The record-EXCEPT facts it needs are `DirRecEnter` and `DirRecAdvance`.
- `IterStep`: the same pass, stated for the state.
- `FreshCounts`: the stream rewinddir re-opens.
- One lemma per action, combined in `NextSeek`.

`DirentOrderProofs` proves `ReadDirInOrderProved`: under the same `NoChange` and `ShortNames`, `Spec => []ReadDirInOrder`. With a long name the property fails, as in finding 1: the long entry is consumed but not counted. On a deleted directory it does not apply. The invariant is `IInv /\ SeekInv /\ ReadDirReturned`:

- `ReadDirReturned` holds whatever the directory does. Right after readdir returned an entry, the find data holds that entry, `first` and `end_reached` are clear, and the entry is not `.` or `..`. The lemma `IterateReturned` shows this for the one branch of the loop that returns an entry. `ReturnedStep` shows that every other action ends in another call, in a call under way, or with the stream closed.
- The counting step `InOrder` follows. The entries up to the find data are the readable entries minus those ahead (FiniteSetTheorems' `FS_Difference`), and `PositionCounts` says how many are ahead.

TLC checked both conjuncts on the `dirent_seek` instance, and ReadDirReturned on the core instance too, before the proof.

`RecurrentTaskProofs` proves three theorems:

- `TypeCorrect`.
- `InFlightScheduled`: `[]InFlightMeansScheduled`.
- `StopIsFinal`: `[]StopDisarms`. StopDisarms is not inductive, because a Relock re-arms the timer when `mInFlight` is set. The invariant therefore adds `StopClears`: a stop also leaves `mInFlight` clear.

`OutputLogProofs` proves `FormattedText`: if `Sizes \subseteq Nat`, then `Spec => []MessageIsFormattedText`, for every buffer size of at least three bytes. That includes 4096. It rests on two facts:

- The lemma `MessageCorrect`: `Message(n) = Expected(n)` for every natural n. For a text that fits, it follows from what vsnprintf writes below the nul. For a text that does not fit, the marked buffer is compared with `text \o "..."` position by position, using SequenceTheorems' `ConcatProperties` and `SeqEqual`.
- The inductive invariant `IInv`: the last message is `Message` of a length in Sizes.

The proofs assume only `DirentAssumption`, `RecurrentTaskAssumption` and `OutputLogAssumption`. They say:

- the entry classes are disjoint;
- the listings are sequences of entries;
- the bounds are naturals;
- the buffer has at least three bytes.

Only TLC checks the following, on the instances above:

- the liveness properties `StartNotLost`, `EventuallyDeleted` and `FatalErrorTerminates`. TLAPS does not handle ENABLED and fairness here;
- `NoCallbackAfterDestroy` and `NoCallThroughEmpty`, whose runs are violations;
- `SearchSameDirectory`. `DirentPaths` uses SequencesExt, which declares RECURSIVE operators, and what it says about the path functions would need induction over strings. That is beyond tlapm here.

## 6. Not modelled, and the plan

- **SimpleAsyncSocket** (`part_011`). Its onRead/onClose callbacks run against an `AsyncSocketAdapter` whose implementations are not in the tree. A model would have to invent the adapter's event order, so its hazard (a close racing a read) is listed without a property.
- **UTF-8 conversion and formatting.** These are data conversions. They affect control flow only through "the name fits or not" and "the conversion throws", which Dirent models.
- **Declaration-only headers.** The Looper implementation, Process/Command, GraphicsObjectCounter, HostmemIdMapping, the logging headers and the Windows compatibility headers declare interfaces whose code is not in the tree.
- **The address-space graphics core.** It is described by `spec.md`, and its code is not under `src/`.
- **Build files and tests.** The tests serve as the statement of expected behaviour.

Plan for the next sittings, in order:

1. The graphics core, from `spec.md`:
   - a pool-allocator module with an abstract "disjoint live ranges" specification it refines;
   - the per-context ping protocol and the consumer thread.
2. SimpleAsyncSocket against a nondeterministic adapter.
3. Proofs of `SearchSameDirectory` for the test spellings, and of the pool's non-overlap invariant.
