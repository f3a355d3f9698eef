# kugou8-smtc-plugin: a TLA+ model

The plugin is a proxy `version.dll` that KuGou 8 loads into each of its
processes. A worker thread reads the song from KuGou's memory and shows it in
the Windows System Media Transport Controls (SMTC); commands given in SMTC are
carried out on KuGou's UI thread. This directory holds the models of the
plugin's core, what TLC checks of them and what TLAPS proves.

Paths below are relative to the repository; `src/...` is its `src` directory.

## 1. Inventory

### Components

| component | source | state | operations |
|---|---|---|---|
| **SharedMetadata** | `src/shared_metadata.cpp` | a named shared-memory block (sequence counter, title of 512 wide characters), a named writer mutex | `Publish`, `Read`, `Open` |
| **Title filter** | `src/metadata_transition_filter.cpp` | the last title observed | `Observe` |
| **Metadata source** | `src/metadata_source.cpp` | two cached control addresses, two scan deadlines, two backoffs | `ReadPlaybackControlTitle`, `ReadPlaybackControlTimeline`, process-memory scans |
| **Audio monitor** | `src/audio_session.cpp` | cached session, device enumerator, discovery deadline | `Query`, `Discover` |
| **Media control** | `src/media_control.cpp` | hook, hooked thread and window; echo guard; status guard | `Dispatch`, hook procedure, `TryEnter`, `RecordSuccessfulCommand`, `Resolve` |
| **SMTC bridge** | `src/smtc_bridge.cpp` | what it remembers having shown, cover retry window, message window | `Poll`, `OnButtonPressed`, `HandleMediaControl`, `HandleMediaControlCompletion`, start and stop |
| **Cover art** | `src/cover_art.cpp` | files only (KuGou's image cache, the prepared cache) | `Resolve` |
| **Runtime policy** | `src/runtime_policy.cpp` | the backoff's counter | role of a process, status of an activity, backoff |
| **Logging** | `src/logging.cpp` | log path, named mutex, log file | `Initialize`, `Write`, rotation |
| **Version forwarding, DllMain** | `src/forward_stubs.cpp`, `src/dllmain.cpp` | the system DLL's entry points | load, pin, start the worker |
| libwebp | `third_party/` | vendored, left aside | |
| tests, probe, scripts | `tests/`, `*.ps1` | left aside; read for what they promise | |

### How they interact

* Every KuGou process with the plugin has one worker. One, the *publisher*,
  owns the SMTC session; the others only publish titles. They meet in the
  shared block, which is written under a mutex and read without it.
* The worker's message loop alternates polls (a 500 ms timer), commands (posted
  by SMTC's button thread) and completions (posted by the hook procedure).
* A command goes: SMTC thread → message → worker (`HandleMediaControl`) →
  message to a KuGou window → hook procedure on the UI thread → message back →
  worker (`HandleMediaControlCompletion`).
* A poll goes: control text → filter → shared block → display; cover retry;
  audio session → status guard → status; control times → timeline.
* KuGou's UI thread changes and moves what the worker reads, with no lock.

### What is hard, and what makes each component right

* **SharedMetadata**: copies race with writes, and a writer may die half-way.
  Right: no read returns a mixture; a publication is atomic; a finished write
  repairs what a crash left; neither side is held up for ever.
* **Metadata source**: addresses stay cached while KuGou moves the panel;
  texts are read one by one during a change of song; a scan is expensive.
  Right: settled times are the song's own; a lost panel is found again; scans
  keep their growing distance.
* **Audio monitor**: the cached session may not be the one that sounds; a
  discovery drops it before knowing better. Right: music is noticed in time, a
  pause survives a failed discovery, discoveries are rare.
* **Media control**: a message crosses to another thread and is seen several
  times there; windows come and go; the audio session lags behind a command.
  Right: at most one execution, always under a hook, and the status of a
  command neither flickers nor sticks.
* **SMTC bridge**: several copies of "what is shown", any WinRT call may throw.
  Right: a copy changes only together with what it stands for, cover and
  progress belong to the title shown, and in the end title, progress and status
  are the player's.
* **Several processes**: each publishes what its own filter lets through, and
  any of them may die and start again. Right: what all have observed is what the
  block holds and what is shown in the end.
* **Cover art**: files appear late, replace each other, and may be partial.
  Right: the best picture that stays is found, what is returned is whole, is in
  the format its name says, and is the song's.
* **Logging**: several processes rotate one file. Right: no recent line is lost,
  the files stay bounded, nobody waits for ever to log.
* **Start and end**: any call may fail, `WM_CLOSE` and the player's module come
  at any time. Right: the code stays while it runs, no session or handler
  outlives the bridge.

`PROJECT.json` lists the hazards one by one, at their lines.

## 2. Modules

| module | models | composed of |
|---|---|---|
| `TitleRegister` | what the shared title promises: an atomic register whose writes may be dropped, whose reads may miss, and which a death may damage | |
| `SharedMetadata` | `Publish` and `Read`, one interlocked operation or one character at a time | refines `TitleRegister` |
| `MetadataFlow` | the processes with their filters and the publisher's display, meeting in the block | uses the actions of `TitleRegister` |
| `MetadataSource` | title and time reads of a poll, and the scan, against the UI thread | |
| `AudioSession` | `Query` and `Discover`, one session at a time | |
| `MediaControl` | guards, hook, dispatch, hook procedure | |
| `SmtcBridge` | the publisher's worker, KuGou, SMTC and the clock | extends `MediaControl` |
| `CoverNames` | the names of directories, songs, albums and singers | |
| `CoverArt` | search, choice and preparation of a cover, against KuGou's cache | extends `CoverNames` |
| `LogFile` | `Write`, rotation and append, by threads of several processes | |
| `PluginLifecycle` | loading, forwarding, pinning, role, start and end of the worker | |

`MC...` modules give the constants their values for TLC; `...Proofs` modules
hold the theorems about the module they extend.

### How the code becomes actions

**SharedMetadata.** `wpc[w]` is a writer's place in `Publish`: waiting for the
mutex, `locked`, `repaired` (an odd counter was incremented), `writing`,
`terminated`, `written`. `rpc[r]`, `attempt[r]` are a reader's place and its
attempts. `wmemcpy` copies the characters in any order (`written`, `copied`).
The mutex serialises writers, so the load of the counter in `Publish` belongs
to the step that acts on it. On x86 interlocked operations and
`MemoryBarrier` order the accesses, so steps are sequentially consistent. A
death abandons the mutex and leaves the block; `WAIT_ABANDONED` is treated as
the code does. Wrap-around of the 32-bit counter is excluded by
`BudgetAssumption`. The initial state is a zeroed mapping.

**MetadataFlow.** Every process polls: filter, publication, and in the
publisher the read and the display. The block is an instance of
`TitleRegister`, whose actions the processes take, so what holds here holds of
any implementation of it. `Cut[t]` is what 511 characters leave of a title.
The block goes with the last process that maps it.

**MediaControl and SmtcBridge.** `pc` divides a poll into six steps: observe
the control and publish, read and show, retry the cover, show the status, ask
the control for the title, read the times and show them. The player, the UI
thread and SMTC's button thread act between them. KuGou changes its panel text by
text: from a change of the song until `TextsSettle` the times there may be
another song's (`settled`). Times that were so at any moment between the two
looks at the title are `Mixed`, or refused; those that were not are the
title's. `MetadataSource` has the reads one by one and shows why
(`SettledSampleOwn`). A WinRT call that throws ends the poll (`PollThrows`) and leaves what was
done before it; a call that fails has no effect of its own. `draft` is what
was set on the `DisplayUpdater`, `shown` what its last `Update` made visible.
`TryPublishCoverArt` catches its own exceptions. Times are countdowns; `Tick`
decrements all of them. The shared block is here one variable, `channel`: an
atomic register whose writes may be dropped (`lock`) and reads may miss
(`miss`), which is what `SharedMetadata` is shown to implement. A title stands
for its artist, its times and its cover, and is one that the block keeps whole.
The control may show a song from the start. The hook procedure ignores a
completion that it cannot post (`completion`). `PublishMetadata` for an empty
title is left out: nobody publishes one, because the filter drops it, and
`last_raw_title_` starts empty; a title that a dying writer tore is in
`MetadataFlow`. `PollStatus` asks the status guard at its own moment, the code
with the time taken before the cover was looked up, by less than a tick.

**AudioSession.** `Query` either answers from its cached session or drops it
for a discovery; `previous` is kept as the code keeps it. A discovery takes the
sessions in any order and sees each in the state it has at that moment. Each
COM call that can fail is a kind of fault. One tick is one poll; a `Query`
takes less than a poll.

**MetadataSource.** `memory[p]` is what the two controls at offset `p` of a
region read like; old panels go on looking like panels until their memory is
reused. Title and time control lie in one panel and are built together, but are
cached apart. A scan sees a panel whose head lies in a chunk it reads
(`InChunk`). A poll reads title, then (through filter and block) fixes the
expected title, then reads title, total, elapsed, total again and title again,
with the UI thread acting between any two. A title read while it changes may be
torn (`DecodedTitle`); times fit into the string object and are read at once.
Whether one song's position exceeds another's duration is left open.

**CoverNames and CoverArt.** A name is a sequence of the few characters that
`Normalize`, `DirectoryKey` and the keys tell apart. A search visits the
matching files in any order and sees each at that moment, or not any more.
Choosing the best of a directory and then of the directories is one fold, by
the same preference. A picture is a number, which also orders the times of last
access, a format, and whether it is whole. `PrepareCover` is its system calls:
detect, delete or convert, move, copy. The name of a prepared cover is a hash of
the path, taken for unique. One process, the publisher, resolves covers.

**LogFile.** Bytes are numbered as they are written, a file is the set of its
bytes, and a line is a short or a long run of them. A handle follows the file it
was opened on, through renames. The order is the code's: the process's own mutex,
the named one with a second's patience, open, size, close and move, open again,
append. The size is compared before the line is appended, and not at all when
`GetFileSizeEx` fails.

**PluginLifecycle.** Each system call of `DllMain`, `Run`, `InitializeSmtc` and
`~SmtcBridge` works or fails; what `Run` returns and the destructor does about
it follows the code. When `DllMain` returns `FALSE` the loader unmaps the
plugin, also if it is pinned already. `SmtcBridge` begins where this module's
`FirstPoll` stands.

## 3. Runs

`tlc -config X.cfg M` for each row of `PROJECT.json` "runs".

| run | asks | instance |
|---|---|---|
| `block` | the block is an atomic register that only a death damages, for the instant of that death; completed writes repair it; a read ends, and so does the wait of a writer | 2 writers, 1 reader, 2 publications, 1 death and restart |
| `torn` | finding 1 | as `block` |
| `flow` | once all have observed a title, it is in the block, and is shown | 2 processes, a short and a long title, 2 changes, 2 deaths, 1 dropped publication or missed read |
| `source` | settled times are the song's own; torn titles get none; a panel in sight is found and its times come in time | 2 songs, 1 change, panel built twice, 1 failed scan, missed or torn title; a region of 4 chunks |
| `audio` | music noticed, pause not lost, discoveries keep their distance | 3 sessions, every kind of fault, any number of them |
| `display` | progress and cover only under their own title; memory and display change together; title and progress end up right | 2 songs, 2 changes, 1 click, 1 fault out of: mutex time-out, missed read, unreadable time, WinRT call, lost audio session |
| `commands` | commands run at most once, under a hook; a trusted status stands, but not for ever | 2 buttons, a window lost and created, 1 failing hook or post, lost completion, or panel not found |
| `cover` | the best lasting picture is found; what is returned is whole, in its format and its own | 2 pictures stored, 1 removed, 1 failure, 1 death |
| `log` | recent lines kept, files bounded by the maximum and less than a line, `Write` returns | 3 threads of 2 processes, 4 lines of 1 or 2 bytes in a log of 2, 2 deaths or hangs, 1 failure |
| `lifecycle` | code and exports stay, nothing outlives the bridge, a late player is served, `WM_CLOSE` ends the worker | 4 executables, 3 exports, 3 loads, 2 failures |
| `status_stopped`, `play_pauses` | findings 2 and 3 | the smallest instance that shows each |

**Why the bounds are enough.** *block:* the title capacity is 3, so that one
title is shorter than the block's room, one fills it and one is cut; two
writers already overlap a wait, a write and a time-out; one death leaves every
possible half-written block. *flow:* the hazard needs two filters and a title
that returns (A, B, A), and a death of either process on the way. *display:*
two songs and two changes give A, B, A with polls between any of them, which is
the shortest way to a stale value that looks current. A tick is a poll period;
the trust period is longer than a poll and the echo period no longer than one,
as 30 s, 500 ms and 250 ms are; the cover window (2 ticks) has several retries. *audio:* the refresh
period is longer than the retry period, as in the code. *source:* the scan
delays keep the order of 2, 2, 2, 5, 10 and 30 s; the head of a control is as
long as the overlap, which is the worst the assumption allows (108 of 128 bytes
in the code). *cover:* two pictures are a better and a worse one, or one
replaced in place. *log:* four lines can rotate a log of two bytes twice, so that an
archive is replaced, and a long one begun on a log of one byte outgrows it. *lifecycle:* two failures are one on the way in and one in
the destructor. Every bound on faults, songs, clicks, presses, windows, panels,
pictures and deaths is a named constant; the proofs of section 5 do without
most of them.

`log` and `lifecycle` do not check for deadlock: threads without a line to
write, and a worker that has ended, rest.

**Fairness.** Time passes and the worker runs (a thread in a message loop with
a timer). The UI thread empties its message queue and finishes the panel it has begun to
change. The audio session follows
the player after some time, which Windows does. A reader that began goes on;
a waiting writer is woken by the mutex or by its time-out, but *nothing* is
assumed of the holder of the mutex. KuGou ends up showing the song it
plays: every control follows it. A thread of a running process that logs goes on;
nothing is assumed of one that hangs. SMTC, the user, faults and crashes are
under no fairness.

## 4. Findings

1. **`torn`**: the next writer after a crash makes the odd counter even
   *before* it marks its own write (`shared_metadata.cpp:95`), so a reader in
   between accepts the half-written title of the dead one.
2. **`status_stopped`**: a status known before the first title is shown as
   Stopped but remembered as shown (`smtc_bridge.cpp:300`, `:247`): a player
   that goes on playing stays Stopped until its state next changes or a command
   completes.
3. **`play_pauses`**: the callback toggles (`media_control.cpp:408`), while the
   check against the current state (`smtc_bridge.cpp:401`) does not know the
   commands still queued: a second Play pauses.

More behaviours showed up while modelling. No run states them, because the code
promises nothing definite there; the properties except them by name.

* A title whose publication times out on the mutex (`shared_metadata.cpp:89`)
  counts as observed by the filter and is not published again. `DisplayConverges`
  and `AgreedTitleStored` except behaviours in which that happened.
* After a failed `Update` (`smtc_bridge.cpp:286`) the new title stays on the
  updater; if KuGou goes back to the old song, a later cover update shows it.
  `DisplayConverges` and `TimelineUnderOwnSong` except behaviours with a failed
  WinRT call.
* The recheck of `ReadTimelineFromControl` (`metadata_source.cpp:428`) covers
  the name and the duration, and the title is checked apart from them: during a
  change of song the times returned for a title can be another song's, although
  `src/README.md:18` says that a change of song clears the old progress. A later
  poll replaces them (`ProgressConverges`). This is why `SettledSampleOwn`
  speaks of settled texts, and `TimelineUnderOwnSong` of times that are not
  `Mixed`.
* A title of 512 characters, the most the control reader accepts, is cut to 511
  in the block (`shared_metadata.cpp:101`) and then never equals the title that
  the times are asked for: it is shown without progress, which
  `src/README.md:16` promises for every song. `SmtcBridge` has no such title.
* `RotateLogIfNeeded` compares the size before the append (`logging.cpp:67`): log
  and archive can exceed the 2 MiB by up to a line, and a log whose size cannot
  be read grows on. `LogBounded` says the former and excepts the latter.
* A process that dies in `CopyFileW` (`cover_art.cpp:519`) leaves part of a
  prepared cover, which every later `Resolve` returns; a converted cover goes
  through a temporary file and a move, and is safe. A picture that KuGou
  replaces in place keeps its old prepared cover. `ReturnedSound` and
  `ReturnedOwnPicture` except the two.
* The three calls of `~SmtcBridge` share one `try` block: if the first throws,
  the session stays enabled and the handler registered (`smtc_bridge.cpp:93`).
  `ClosedAfterEnd` excepts it.
* A process that could not create the named mutex logs without it and can lose
  the lines of others. `RecentLinesKept` and `LogBounded` except it.

## 5. Proofs

TLAPS checks the `...Proofs` modules, for every value of the constants that the
`ASSUME`s allow.

* **SharedMetadataProofs.** `TypeCorrect`, `CompletedWrite` and
  `AcceptOutsideWrites` rest on `CrashProofInv`: the types; `LockInv` (the
  holder of the mutex is the one writer between wait and release); `WriteInv`
  (what each writer finds: an odd counter through the write, an even one after
  a repair, its own characters at the places written). None of the theorems is
  inductive alone: that a finished write leaves an even counter needs the mutex
  and the odd counter of the write itself. `NoTornReadBeforeDeath` adds `ReadInv` (a
  reader's copy is the block's as long as the counter is the one it loaded)
  and, until somebody dies, `WholeInv` (an even counter has a whole title).
  `SeqlockIsRegister` holds with deaths: the register's value is the pending
  title from the instant the counter becomes odd, when no reader can accept, so
  `Store` is `BeginWrite`, `Load` is `Accept`, and a death takes the value to
  whatever is left in the block.
  `AcceptOutsideWrites` is only proved: no run repeats it.
* **MetadataFlowProofs.** `AgreedTitle` follows from `FlowInvariant`: unless a
  publication was dropped, some process *answers* for the block, by having
  written it last, by being about to write, or by having observed nothing yet.
  A death keeps the invariant because it empties the filter of the dead.
  `FlowUsesRegister` shows that the processes use the block as a register.
* **AudioSessionProofs.** `MusicIsNoticed` rests on `SoundInv`: the deadline
  leaves no room for a session to sound unnoticed, and one that sounded before
  the discovery is still to be looked at. `PauseIsKept` needs `ForgottenInv`: a
  monitor without a session remembers none, so that only a discovery that
  dropped an inactive session has one to fall back on. `DiscoveryIsSpaced`
  rests on `MissingInv`; its property excepts a failed count of the devices,
  where the code sets no deadline (`audio_session.cpp:85`).
* **SmtcBridgeProofs**, of `SmtcBridge` with the `MediaControl` in it, for any
  songs, periods and budgets.
  `BridgeTypes` needs `WindowInv`: a window number is left while there is no
  window. `TimelineIsOwn` and `CoverIsOwn` rest on `DisplayInv`: title and
  cover on the updater are those of the song that `PublishMetadata` last began
  to show, or none, whichever call threw (`DraftInv`), and until one has
  thrown, the bridge remembers the title that is shown (`UnthrownInv`). Neither
  property is inductive alone: SMTC shows what is on the updater, and what is
  on it a failed call may have left there. The times that
  `TimelineIsOwn` speaks of are those read from a settled panel; what it adds to
  their reads is that title and times are shown at different moments of a poll,
  each from its own source. `StatusIsRemembered` is an action property: a step
  that changes the status or its memory leaves them in agreement
  (`JustShown`). It does not say that they always agree: the first title parts them
  (finding 2). `TrustedStatusIsKept` rests on `TrustInv`: what a trusted command
  asked for is what the bridge remembers, so that nothing a poll resolves to is
  news while it is trusted.
  `QueueIsHooked` and `CommandsOnce` are inductive together: a command is run
  only where it lies under the hook, and a window takes its commands with it.
* **MetadataSourceProofs.** `ScanMissesNoControl`: the chunks of a scan overlap
  by enough and reach the end of the region, for any sizes; with the quotient
  of the control's offset as the witness, or the last chunk. `PanelIsFound`
  uses it, and `ControlInv`: while there is no cached control, the delay left
  and the ticks the panel has been in sight never exceed the longest delay;
  between a tick and the read after it that may be off by one. `TimesAreInTime`
  adds the same of the time control. `SettledSampleIsOwn` rests on `OwnInv`,
  which says at each of the five reads what the worker has read so far.
  `TornIsUntimed` counts: from the torn title that the song was shown with to
  the sample it takes three torn reads (`TornInv`). A run allows one.
* **CoverArtProofs.** `ReturnedIsSound` and `ReturnedIsOwnPicture` rest on
  `PreparedInv` (what a prepared cover is whose name is not doubtful, with the
  exception of one being copied) and `SourceInv` (what is in the temporary file
  at each place of `PrepareCover`). `BestIsFound` rests on `FoundInv`: of the
  files that lasted, those already visited do not beat the best, whatever the
  order. It assumes `NamesMatch`, that the directories of a song's pictures bear
  a name it is looked for under and a number; TLC evaluates it for the run's
  songs and places. That the number does no harm is `NumberIsIgnored`, that a
  description in parentheses does none is `DescriptionIsIgnored`: both for any
  name, by the place of the last underscore or parenthesis (`LastAt`). What
  `Normalize` does to any name takes induction over `SelectSeq` and is left
  to TLC.
* **LogFileProofs.** `RecentLinesAreKept` and `FilesStayBounded` rest on `IInv`:
  there is a byte `k` after which the log begins, and the archive has as many
  of the bytes up to `k` as make a log full; who works on the files owns the named
  mutex and has nothing open but the log. The bound is the maximum and less than
  the longest line, for any sizes of lines. `LogTypes` needs a count: the bytes
  written and a longest line for each call whose line is still to come are no
  more than a longest line for every call (`Counted`), for any set of threads,
  also without the mutex.
* **PluginLifecycleProofs.** `CodeAndExportsStay` rests on `LoaderInv` (what is
  set and pinned at each place of `DllMain`), `BridgeIsClosed` on `SessionInv`
  (how far the session is at each place of the worker). `LifecycleTypes` bounds
  the counters.

Every invariant and every action property of the passing runs is a theorem, and
TLC has confirmed each inductive invariant on the instance of its run before the
proof. What the proofs assume of the constants is in the modules' `ASSUME`s;
those only the proofs need are that `None` is none of the values it stands
beside (windows, pictures, paths), as with a null handle or `std::nullopt`.

Only model-checked: every liveness property (TLAPS has no fairness), that is
`DisplayConverges`, `ProgressConverges`, `StatusNotStuck`, `ShownConverges`,
`NobodyHeldUp`, `WriteEnds`, `CloseEndsWorker` and `LatePlayerServed`; and the
findings, which are counterexamples.

## 6. Not modelled

* The texts shown (splitting artist and title), `ParsePlaybackTime` beyond
  readable or not, image headers and decoding, where KuGou's cache lies.
* Which regions of memory are scanned, and a control across two regions.
* Several processes inside `SmtcBridge`: it has one publisher and takes the
  block as `MetadataFlow` and `SharedMetadata` justify it.
* A handler of SMTC that is still running when the bridge ends.
* An exception out of `HandleMediaControlCompletion`, which ends the process.
* A log without a path, which writes nothing.
* Vendored code, tests, the debug probe, scripts.

## 7. Plan

Done, in this order: `SharedMetadata` with its register, `MediaControl` and
`SmtcBridge`, `AudioSession`, `MetadataSource`; then deaths in the register and
its refinement, `MetadataFlow`, `CoverNames` and `CoverArt`, `LogFile`,
`PluginLifecycle`, the scan by chunks and torn titles.

The proofs cover the safety of every module. Next:

1. Composition: `AudioSession` should implement what `SmtcBridge` assumes of its
   `audio`, and the reads of `MetadataSource` what it assumes of steady times.
2. What remains true of `SmtcBridge` without the exceptions its properties make:
   how long a failed `Update` can be seen.
3. The growing distance of failed scans (`MetadataSource`), which the properties
   bound from above only.
4. The safety half of the liveness properties: what holds until the title or the
   status is the player's, as action properties.
