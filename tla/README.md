# Verification of BusyBox-Diag

TLA+ models, TLC runs and TLAPS proofs for the three diagnostic applets of this
repository (`ptop`, `diagnet`, `diagfs`), for what they use of `libdiag`, and for the
scripts that build, install and benchmark them. Paths
below are relative to the root of the repository. `PROJECT.json` maps every definition
to the lines it models and lists runs, mutants, findings, hazards and theorems.

## 1. The system

`tools/{ptop,diagnet,diagfs}` and `libdiag/src/libdiag` are the authoritative sources;
`busybox_overlay/` holds copies of them in BusyBox's layout, with the same logic.
All programs are single-threaded. What makes them hard is what happens around
them: a kernel that changes `/proc` between two reads, signals, failing calls, and standard
output that is buffered in one place and not in another.

| Component | State it keeps | Operations | Talks to | What is hard | What makes it correct |
|---|---|---|---|---|---|
| ptop loop (`ptop.c:247-319`, `ptop_signal.c`) | signal flags, cursor flag, `loops`, five owners of heap blocks | choose mode, collect, sleep, compute, display, release, restore | signals (handlers set flags), the terminal, malloc | a signal between any two statements; a failure between two allocations; `prev = curr` aliases | one owner per block; exit requests answered after at most one display; COUNT kept; cursor visible at exit |
| ptop sampling (`ptop_snapshot.c`, `ptop_delta.c`, `diag_proc.c`) | `prev`, `curr`, the deltas | read counters, walk `/proc`, read stat and status, subtract | the kernel | a snapshot is not atomic; any read of a process may fail; pids are reused; unsigned wrap; a zero interval; the wrong two fields read as times | only a process whose own stat file could not be read is missing; nobody is charged more than the two counters the code reads (`stime` and `cutime`) have grown; charges fit the interval and what reapers took over in it |
| ptop command line (`busybox_overlay/miscutils/ptop.c:166-282`) | `ptop_config_t` | one step per option | getopt, `atoi` | several options share a field; a number that is no int | the last option of a field wins; the loop never gets a negative delay, count or pid |
| ptop view (`ptop_filter.c`, `ptop.c:82-128`, `ptop_policy.c`, output) | the array of one display | filter, sort, cut, print | qsort | unstable sort, order of `/proc`, cut before or after sort | the display is a function of processes and options |
| diagnet command line (`diagnet.c`, whitelist parser) | filter flags, the whitelist block | one step per option, the parser's growing array | getopt, malloc | `--whitelist` repeated, bad or out of memory; exclusive options in either order | no block freed twice, leaked or overrun; exclusion kept |
| libdiag parsers (`diag_parse.c`, `diag_net.c`, `diag_proc.c`) | none between calls | numbers, address fields, the stat line | the kernel's text | signs, prefixes, saturation of strtoul; scan sets that stop early; process names with parentheses and line feeds; the number of fields to skip | a number or an address is taken for what it says or refused; a stat line is read for its name, state and parent, or refused (its times are one field off) |
| diagnet collector (`diagnet_collect.c`, `_state.c`, `_filter.c`, `_policy.c`, `_analyze.c`, `_output.c`, `diag_net.c`, `diag_reader.c`) | counters, record array, warning flags | per line: convert, filter, judge, count, keep; then warn, sort, report | callbacks from libdiag's line reader | failure of the second table after the first; realloc failing after counting | no partial report; counters and list agree; each accepted entry counted once |
| diagfs run (`diagfs.c`, `diagfs_mount.c`, order of `diagfs_output.c`) | position in the mount table, `is_first`, the stdio buffer | one path or all mounts: statfs, FIEMAP, print | the kernel, standard output | a mount failing in the middle of a JSON document; two writers on one descriptor; short writes | well-formed JSON; failures print nothing; each mount that was asked for is reported once or named in a message, unless a field is too long, `--quiet` hides the message or stdio loses the report |
| diagfs analysis (`diagfs_analyze.c`, `diagfs_policy.c`, `diag_fs.c`) | none between calls | sizes, percentages, levels, grades | statfs, FIEMAP | overflow of `unsigned long`, division, rounding, a capped count | shares in range and, where sizes fit a word, exact; no alarm late where they fit |
| benchmark (`benchmark_all_required.sh`, `benchmark_busybox_diag.sh`) | summaries, CSV file, reports | bootstrap, run the applets, time, report, copy | the bootstrap, the applets, awk | a bootstrap that fails over an older binary; summaries that say PASS unread; a run stopped in a series | what is reported was run, complete, and of the build just verified |
| scripts (the other `scripts/*.sh`) | the BusyBox tree, `./busybox`, the report, the install prefix, `.bashrc` | overlay, sync, build, verify, install: by the bootstrap, or each by hand | the file system, make, the applets | stopping at any command, running again over what is left; by hand nothing stops the next script | what the bootstrap installs, or the manual flow when each of its commands succeeds, was built whole and verified (an install by hand after a failure installs whatever `./busybox` is); a completed bootstrap repairs everything |

## 2. Modules

| Module | Models | Used by |
|---|---|---|
| `PtopLoop` | `main()` of ptop after its options, statement by statement where a signal or a failure can tell the statements apart | `PtopLoop_proofs` |
| `PtopMonitor` | abstract: what the loop promises its user | `PtopLoop` (`INSTANCE ... WITH`) |
| `PtopSampling` | kernel and sampler interleaved at every read | `MCPtopSampling`, `PtopSampling_proofs` |
| `PtopCli` | the options of ptop, one action each | `PtopView` (`EXTENDS`) |
| `PtopView` | from the command line to a display: options, filter, sort, cut, output | `MCPtopView`, `PtopView_proofs` |
| `LibdiagParse` | the parsers, put to every text up to a length | `MCInput`, `Input_proofs` |
| `DiagReport` | abstract: what diagfs and diagnet promise to the script that runs them | `DiagnetCollect`, `DiagfsRun` (`INSTANCE ... WITH`) |
| `DiagnetCli` | option loop and whitelist memory | `MCInput`, `Input_proofs` |
| `DiagnetCollect` | the run of diagnet after its options | `MCDiagnetCollect`, `DiagnetCollect_proofs` |
| `DiagfsRun` | one run of diagfs, and the two writers to stdout | `DiagfsRun_proofs` |
| `DiagfsAnalyze` | the arithmetic behind one report | `MCDiagfsAnalyze`, `DiagfsAnalyze_proofs` |
| `Bootstrap` | `bootstrap_busybox_diag.sh` and the scripts it runs, again and again, and each of them by hand in any order | `Benchmarks` (`EXTENDS`) |
| `Benchmarks` | the benchmark around the bootstrap | `Bootstrap_proofs` |
| `VerifyReport` | `verify_busybox_diag.sh` check by check, and its report | |

The modules meet where the programs do. `PtopLoop` treats what a sample holds as opaque, and
`PtopSampling` and `PtopView` open it: a collection of `PtopLoop` (`ReadCpu` to
`ProcsDone`) is a walk of `PtopSampling`, and its `Show` is the pipeline of `PtopView`.
`PtopView` begins with the options of `PtopCli` and hands their configuration to the pipeline. `LibdiagParse` opens
what `PtopSampling` and `DiagnetCollect` treat as a line that can or cannot be parsed.
`Run` of `DiagnetCli` is a whole behaviour of `DiagnetCollect`; `Statfs` and `Fiemap` of
`DiagfsRun` decide which report is written, `DiagfsAnalyze` what stands in it. `Verify` of `Bootstrap` is a whole run of `VerifyReport`.

### How state and actions correspond to the code

* **PtopLoop.** `pc` names the next statement of `main()` or of the function it is in.
  `ptr` gives the value of the five pointers that can own a block (`prev.procs`, `curr.procs`,
  `delta.items`, the collection buffer, the sorted copy), `Garbage` before they are
  written; `heap` is what malloc has given out. Every allocation and read has a failing
  variant with the clean-up the code does. `Signal` may happen before any statement: a
  handler sets its flag, a signal without handler kills. Hiding the cursor is two steps
  (`HideCursor`, `MarkHidden`) because `ptop_terminal_hide_cursor` writes to the terminal first and
  sets its flag afterwards, and a signal fits between them.
* **PtopSampling.** `ReadCpu` reads `/proc/stat`; `Readdir`, `ReadStat` and `ReadStatus` take one
  entry each, in ascending order of pid as procfs does; `Tick`, `IowaitBack` (the kernel may take back iowait jiffies), `Fork` and
  `ProcessEnds` are the kernel and may come between any two of them. Each read may fail for a process that is alive as for one that is gone:
  without its stat file it is skipped, without its status file its size is 0. `utime`, `stime` and `cutime` are what the kernel prints in the line of a process;
  a process that ends hands its user time to whoever reaps it (`Reaped`). `Ticks` is what the code makes of the line: `diag_proc.c:90` skips one field too many, so
  `stime + cutime`. Subtractions are modulo `Word`.
* **PtopCli.** An action stores what its option says and refuses as the code does: a number first and then its test, a word
  only after it. `Atoi` is what `atoi` does with a number that is no int: `strtol` saturates, the cast wraps. The module maps the overlay's
  copy of `ptop.c`, where `bb_show_usage()` ends the program with 1; `InBusyBox` tells the two builds apart.
* **PtopView.** Directory order and the outcome of qsort among equal elements are chosen freely; the pipeline begins
  with whatever configuration the options have left.
* **LibdiagParse.** The C library's `strtoul` and `sscanf` are operators on sequences of characters, and each parser of libdiag
  is one that returns what it stores, as a set that is empty for an error. The state is only the text, which grows. A stat line has `Before` numbers between
  the parent and utime (nine in the kernel's line), and the parser skips `Skipped`, one more, as its format does.
* **DiagnetCli.** One action per kind of option; options that only store a value are one
  action (`PlainOption`). malloc returns any free block, realloc may move the block or not.
* **DiagnetCollect.** `ReadLine` is the whole callback `collect_cb`, from conversion to the
  record array. Opening, reading and growing may fail at any line. The kernel chooses each
  line when it is read. `Document` is what each of the four output functions prints; its format and `--quiet` are chosen
  in `Output`, because nothing looks at them before.
* **DiagfsRun.** `buffer` is stdio's, `stdout` what the reader has received: `printf`
  appends to the first, `write(2)` to the second; a terminal flushes at each line, and a buffer that is full is written at any time (`Flush`). Either may be refused: a short
  `write(2)` leaves a message (`told`), what stdio loses nobody notices (`dropped`). `skipped` holds the mounts whose statfs failed, `warned` those that a message names:
  under `--quiet` none (`diagfs_mount.c:62`).
* **DiagfsAnalyze.** Unsigned arithmetic is modulo `Word`; the pipeline from statfs to the grades is
  one action per function.
* **Bootstrap.** `script` is the script that runs, `pc` its next command; `After` is the order of the commands, `First` and `Last` say where each script begins and
  ends. Because of `set -e` a command that fails ends the whole script, and so does a signal: `Stops` may happen before any command, and the next `Start` (of the
  bootstrap) or `StartByHand` (of any helper script, whatever has failed before) finds what is left. Each of `Parts` has the version of the overlay it came from;
  `ApplyOverlay` copies any subset of them when it is stopped; `./busybox` is a copy of the whole tree's
  versions. `cp` to the installed binary is two steps, because it truncates first (`Torn`). Histories: `verified` says that the verification has passed this very
  `./busybox`, `flow` how far the manual flow (apply, build, verify, install) has come with nothing failing in between, `origin` whether the installed copy came from a bootstrap or the end of
  such a flow (`careful`), and whether it was `verified`.
* **VerifyReport.** `pc` is the next check, `report` what the report file says has passed, the history `passed` what has passed.
* **Benchmarks.** `step` is the part of the benchmark that comes next; `Alone` is any step of another script, an upgrade or a
  removal between two runs, `Bootstraps` a step of the bootstrap as first phase. `BenchStops` may end a run before any command. A
  row of the CSV file is one sample, applet and reference in turn; `cp` to the latest report truncates it first. What was measured is left out, whether all
  of it was measured is kept (`csv`, `ratios`, `latest`). `exercised` says that the three applets have run to the end in `./busybox` as it is, and `summary` whether
  that was so when the PASS lines were written.

## 3. What the runs check

Passing runs (each property has a mutant of the code that violates it). The types of `PtopLoop`, `PtopSampling`, `DiagfsRun`,
`DiagfsAnalyze`, `DiagnetCli` and `Bootstrap` are proved (section 5), so no run repeats them:

| Run | Bounds | Shows |
|---|---|---|
| `ptop_loop` | COUNT 1..3 or none, 4 blocks, 2 reallocations per collection | `HeapOwned`, `MemorySafe`: no leak, double free or use after free on any path. `OneLateDisplay`, `ExitAnswered`: an exit request is answered, after at most one more display. `CountKept`, `CountEnds`: exactly COUNT displays, however many resizes interrupt the sleep. `CursorRestored`. `ImplementsMonitor`: refinement |
| `ptop_sampling` | 2 pids, 3 processes, 2 jiffies, 2 handed on, 1 taken back, word of 64 | `Complete`: a process that lives through the collection is missing only if its own stat file could not be read, and has its own memory size or 0. `NoOvercharge`, `ChargesFit`: what is charged, against the two counters the code reads. `SystemShare` |
| `ptop_view` | 3 options with numbers at and beyond the limits of an int of 4 and a long of 5 bits; 3 processes, 2 loads, 2 sizes, 2 states | `LastWins`, `Sane`: what the options leave for the loop. `Deterministic`: a definition of the display that uses neither sorting nor order |
| `input` | every text of up to 6 (number), 8 (address) and 5 (name) characters over binary digits and the characters told apart; beside the empty text, command lines of 4 options, 5 ports, arrays from 2 | `NumberMeans`: exactly the texts that are numbers and fit are taken, for what they say. `AddressExact`: an address field is taken exactly when it begins as the kernel prints one. `StatExact`: no process name passes for the fields after it, and which two numbers of the line are stored as times. `Exclusive`, `MemorySafe`, `InBounds`: the command line of diagnet |
| `diagnet_collect` | 2 entries per table, arrays from 1, warning at 2 | `Balanced`, `ListMatchesCounts`, `ReportExact` (rows, sums and warnings are about the same entries), `ImplementsReport`: refinement of `DiagReport` |
| `diagfs_run` | 3 mounts of every kind, every option | `JsonDocument`. `AllReported`: a mount that was not asked to be left out is reported in full or a message gives it up, a few named cases apart. `ImplementsReport`: refinement of `DiagReport` |
| `diagfs_analyze` | word of 12 bits, kilobyte of 128 bytes, sizes that overflow it | `SpaceInRange`: also where sizes overflow. `PercentsExact`, and `AlarmInTime` on the true shares in bytes and inodes, where nothing overflows. `SaturationHarmless` |
| `bootstrap` | 2 parts, 2 versions, 2 samples, any number of bootstraps, scripts by hand, benchmarks, failures and removals | `OnlyVerified`, `OneVersion`: what a bootstrap installs, or the manual flow when each of its commands succeeds, was built from one complete overlay and went through the whole verification (which tolerates a failing ptop: `verify_busybox_diag.sh:108`). `Converges`: a completed bootstrap repairs what earlier ones left. `MeasuresCurrent`: a benchmark that bootstraps measures the version it has just built. `SummaryBacked`: three applets have run in this very build before the PASS lines of the summary. `LatestWhole`: the latest report is of complete series |

Why the bounds are enough. At most four of ptop's blocks are ever live at once, so four
show every aliasing; three displays have a first, a middle and a last one; two reallocations
have one that grows nothing and one that grows a block that already holds entries. A
pid is reused as soon as there are three processes for two pids; of two jiffies one can be worked before a reading and one after it, and two handed on let a reaper
take over both. The comparators are total orders, so three
elements with two values each show every tie and every cut; three options are one that is overridden, one that overrides it and one
between or after them. The texts are long enough for a blank, a sign, a prefix and a number that overflows (a long has five binary digits), for an
address that is a digit too short or too long with a port that is a digit too long, and for names that hold the shortest tail
`) R 1` of a stat line, whose numbers are the parent, one that counts nothing, utime, stime, cutime and one more, so that the shift by one shows; a name never holds a whole one, because a process name has at most 15 characters and the numbers after
it take more (`ParseAssumption`). The whitelist array grows three times
(ports 1, 3, 5) and four options allow good, bad and repeated lists in every order. Two entries per table
and a first capacity of one make a record array grow at records 1, 2 and 3 and fail at each.
Three mounts have a first, a skipped and a following one in every order, which is all `is_first`
and the separators can tell apart. The arithmetic run keeps the one relation the argument needs (a
kilobyte of at least 100 bytes) and includes products just below, at and above the word. Three values of a part (absent, 1 and 2)
allow a tree, a binary and an installation that all differ, two parts are enough for a tree of two versions, and two samples have a first and a last one to stop between.

Runs that show a disagreement between code and documentation (`findings`):

| Run | Property | What happens |
|---|---|---|
| `ptop_sampling_zero` | `BusyIsReal` | a signal ends sleep() before a jiffy has passed: `total_delta` becomes 1, `idle_delta` is 0, and an idle system is shown as 100 % busy |
| `ptop_sampling_work` | `ChargeIsWork` | a process that never worked is charged what the child it reaped has worked: `diag_proc.c:90` skips ten fields where nine stand before utime, so stime is stored as utime and cutime as stime, and the test of the fixture expects it so |
| `diagfs_header` | `HeaderFirst` | into a pipe or a file the table's header comes after its body |
| `bootstrap_report` | `PassMeansPassed` | the report says `[PASS]` before the first check is made, and still says so after a check has failed |

Smaller divergences met while reading, not made into runs: without `--fiemap` the JSON report of a path says
`fiemap_supported: true`, because `ret_fiemap` starts as 0 (`diagfs.c:100`; `tools/diagfs/README.md:145` says false); a read
error in the mount table is taken for its end and exits 0 (`diagfs_mount.c:43`; `tools/diagfs/README.md:238`);
`apply_overlay.sh:33` tells the user to run a script in the BusyBox tree that only the bootstrap copies there; `-S t` never selects a
process in tracing stop, because only the option is folded to upper case (`ptop.c:221`,
`ptop_filter.c:14`); `--fiemap` on a path that cannot be opened exits 0 (`diagfs.c:106`); a mount with
more than 1023 characters of options is dropped without a warning (`diagfs_mount.c:45`);
`--pseudo` never shows what is mounted below `/sys/` (`diagfs_mount.c:56`), and shows real file systems too, where `diagfs.1:18-19` says pseudo ones only
(`tools/diagfs/README.md:137-138` says it includes them); a mount whose statfs fails is left out without a word under `--quiet` (`diagfs_mount.c:62`); extent counts are graded one
step milder than the table in `tools/diagfs/README.md:252` (more than 50 are only "warn", 10 to 50 "ok": `diagfs_analyze.c:77-81`); a file system whose size in bytes overflows
`unsigned long` (4 GiB on 32-bit targets) may be full and graded "ok"; the manual flow of `docs/USER_MANUAL.md:227-237`, `docs/local_install.md` and `CONTRIBUTING.md:46-52`
does not stop at a script that fails, and `install_busybox_diag_local.sh:14` looks only whether `./busybox` is executable, so a build that failed its verification, or came from a
half-applied overlay, is installed; a failed
allocation in `--whitelist` exits 2 (`diagnet.c:191`) where `diagnet.md:193` says 1; SIGHUP and SIGQUIT
leave the cursor hidden (`ptop_signal.c:64`); warnings that `diagnet.md:151,183` describes as observations of the system are computed from
counters that hold only what passed the filters (`diagnet_policy.c:121`); `ptop -h` exits 1 under BusyBox, where `docs/compatibility_matrix.md:74` has 0 for
help; what stdio cannot write at the end of diagfs or diagnet is lost with exit code 0; a number of `ptop` that does not fit into an int wraps around
and may be accepted (`-d 4294967297` is a delay of 1); a process whose name holds a line feed is not listed, because its stat
line is cut there (`diag_proc.c`); `diag_ipv4_hex_le` is right on little-endian hosts only; `time_cmd` in
`benchmark_all_required.sh:97-104` stands in a command substitution, so an applet or a `top` that fails is timed like one that works, and its case gets
PASS or FAIL where SKIP would be true; with `--skip-bootstrap` the PASS lines of `manual_test_summary.txt` are written for a build no verification has seen.

## 4. Fairness

Only `PtopLoop` has liveness properties, under `WF_vars(Main)`: if the process has a next statement,
it eventually runs it. Two things justify it: the operating system schedules a runnable process,
and `sleep(cfg.delay_sec)`, whose delay is finite and positive, ends. Nothing is assumed about signals: they may
come never, or between any two statements for ever. In particular `CountEnds` holds although SIGWINCH may end
every sleep early, and `ExitAnswered` although the request may arrive just after the test of the flag.

## 5. What is proved

All proofs hold for every value of the constants that satisfies the module's named assumptions.

* **`PtopLoop_proofs`** (from `PointerAssumption`, `BoundAssumption`). `TypeCorrect`;
  `MemoryCorrect` (`HeapOwned` and `MemorySafe`) for any set of blocks; `LateDisplayBound`, `CursorVisibleAtExit`,
  `CountCorrect`; and `Refinement`: `Spec => ImplementsMonitor`. `HeapOwned` alone is not inductive:
  whether `curr` owns a block depends on which snapshot is being filled, so `MemoryInv` adds the types and
  the value of `dest` where it is already decided. `LateInv` says that no display has been late at any
  statement between the test of the flag and the next display, and `CursorInv` that a hidden cursor is
  flagged except between the escape sequence and the assignment. `CountInv` says that `loops` plus `shown`
  is `count` except between the display and the decrement, and that an iteration runs only while `loops` is not 0.
* **`PtopSampling_proofs`** (from `SamplingAssumption`). `TypeCorrect`, `NobodyLost`, `NobodyOvercharged`, `BusyExact` and `ChargesBounded` (`ChargesFit`), for
  any number of pids, processes and jiffies, worked or handed on, in a word that holds them (`Word > MaxTicks + MaxHanded`). `NobodyLost` allows for any read that fails; the two theorems about charges are about the counters the code
  reads, `Ticks`, whichever fields they come from. The invariant `SamplingInv` adds what each of the two snapshots knows of the kernel when it was taken, and, for the
  walk in progress, that each process that lives on, and whose stat file was not tried in vain, is either behind `at` and kept, or still ahead. For `ChargesBounded` a bound on each charge is not enough:
  all of them together must fit. So `ChargesInv` counts: `Distinct` says that no process has two pids or two places in the list, and `Timed` that the ticks gained
  since a snapshot began (`Since`, a set of pairs of process and tick) are no more than the jiffies passed and handed on since. A jiffy adds one pair at most, a reaper that takes over n jiffies n pairs (`JiffyGains`, `ReapGains`), a reading makes
  the set empty, and when the delta is computed the charges are injected into that set (`ChargesInject`).
* **`PtopView_proofs`** (from `CliAssumption`). `SaneConfig` and `LastOptionWins`, for any numbers and command lines of any length. `Accepted` says
  that the configuration is already sane at each option that has not been refused; `LastWins` is inductive by itself, because an
  option changes exactly the fields it stores into (`Handles`, `Effect`). `TypeCorrect` and `DisplayDetermined` (`Deterministic`) are about samples of any size. `ViewInv`
  says what the array holds at each stage: the sample in some order, the selected processes in some order, these in *the* order (`Full`), the first lines of it (`Display`). That
  there is only one order needs no induction over the array: the comparators are strict and total, hence the processes before the one at place `k` are exactly those
  at the places before `k`, and their number is `k - 1` (`PlaceOf`, `OnlyArrangement`).
* **`DiagnetCollect_proofs`** (from `CollectAssumption`). `TypeCorrect` (records fit the array),
  `CountersBalanced`, `StatsMatchList`, and the refinement `ReportKept`: `Spec => ImplementsReport`. The invariant adds `Progress`: at each step, which tables
  have been read to their end. `EntryStep` does the callback, `OtherStep` the rest. `ReportIsExact` (`ReportExact`) is about what the kernel has shown, in tables of any
  length: `ReportInv` adds `Tally` (each counter is the number of accepted entries of its kind) and `Kept` (while nothing has failed, the array holds each accepted
  entry as often as it was shown; at the output, in order, with the warning already decided).
  An entry that is read adds one index to the sets that are counted (`AppendPlaces`), and sorting moves indices (`SortsKeep`).
* **`DiagfsRun_proofs`** (from `RunAssumption`). `TypeCorrect`; the refinement `ReportKept`; `DocumentWellFormed` (`JsonDocument`) and `EveryMountReported` (`AllReported`) for mount tables
  of any length. For the first: the stream a document is printed into (standard output at a terminal, stdio's buffer otherwise) is an opening
  and then alternating reports and commas, with `isFirst` true exactly when no report has come yet. For the second: the reports of the one stream that gets them
  (`Active`) are ascending and on mounts that are `Due`, and unless stdio has lost something all that are due are there; `DueMount` says what the next line adds, `WarnInv` that without `--quiet`
  each mount whose statfs failed was named, and `AtTheEnd` relates what was due to what was asked for. `Flush` only moves a prefix of the buffer to standard output (`Emptied`).
* **`DiagfsAnalyze_proofs`** (from `AnalyzeAssumption`). `TypeCorrect`, `PercentInRange`,
  `LevelSurvivesSaturation`, `AlarmsInTime`, `PercentsTrue` (`PercentsExact`), for words of any width. The argument for `PercentInRange`: a kilobyte
  is at least 100 bytes, so a size in kilobytes times 100 still fits a word. For `PercentsTrue`: each reduction modulo the word is the identity when nothing
  overflows (`SizesExact`), and a quotient is the only number whose multiple is next below the dividend (`OnlyQuotient`), which is how `Floor` and `Ceiling` are
  defined. `SpaceFacts` says which sizes each function has left for the next one. `AlarmsInTime` is about bytes while the code grades kilobytes: the divisions lose nothing of blocks of whole kilobytes (`WholeKilobytes`)
  and at most one kilobyte of others (`UsedAtLeast`), so a share of bytes that has reached a limit has reached it in kilobytes (`ReachedInKilobytes`), and in percent.
* **`Input_proofs`**, for `DiagnetCli` (from `CliAssumption`). `TypeCorrect`, `StateOrListen`, `MemoryCorrect`,
  `WhitelistInBounds`. The invariant adds `Owner`: the live block, if any, is the one the parser or
  `ctx.wl_extra` holds, and its capacity is at least the length.
* **`Input_proofs`**, for `LibdiagParse` (from `ParseAssumption`): `NumbersRead` (`NumberMeans`), `AddressesRead` (`AddressExact`) and `StatLinesRead`
  (`StatExact`), for digits of any base at least 2, any widths, any number of fields and texts of any length (names of up to 15 characters, in the proportions of
  `ParseAssumption`). The invariant of the text is only its alphabet (`TextInv`); everything rests on lemmas about the parsers. Induction is done with two facts: a set that holds 0 and
  the successor of each of its numbers holds all of them (`SetInduction`, from the well-foundedness of `<`), and a function may be defined by a first value and
  a step (`Iteration`), so that the recursive functions of the model satisfy their equations. From these: a text of digits is what printing its value gives, and a
  number is the value of its print (`ValueIsNumber`, `ValueIsPrinted`). `ScanFills` and `ScanReads` say that `strtoul` reads to the end of a text exactly when it is
  blanks, a sign, a prefix and digits, which gives `ParsersExact`. `NumberSplit` and `OctetsPrinted` cut the print of an address into those of its four bytes, and
  `PrintedUnique` says that no other address is printed so; hence `AddressOfText` and `TextOfAddress`. For a stat line, `StatLineIs` gives the place of every character, hence which numbers the parser stores: the one behind utime as utime and the next as stime.
  Without a line feed in the name the conversions of sscanf take one field each (`TakenNext`). With one, what is left behind a parenthesis of the name
  is too short: each conversion takes a digit and all but the first a character in front of it (`StandsNext`, `ScanShort`).
* **`Bootstrap_proofs`** (from `PartsAssumption`, `VersionAssumption`, `SamplesAssumption`), for any number of parts, versions, runs and samples. `TypeCorrect`,
  `NothingUnverified`, `NoMixture`, `Repairs`, `OneLine` (at most one activation line). `OneVersion` is not inductive: that a careful copy
  is of one version follows from the order of the commands, so `Bootstrapped` says what is current at each command of a bootstrap, and `Flowing` what each stage of the manual flow
  has left, whatever scripts are run again in between. `Failure` and `Success` treat at once the commands that end a script and those that go on. `BenchKeepsBootstrap` (`BenchSpec => Spec`) carries these results over to the benchmark, on which
  `MeasuredIsCurrent`, `SummaryIsBacked` and `LatestIsWhole` rest.

## 6. What is only model-checked

Liveness under fairness (`ExitAnswered`, `CountEnds`) and anything about ENABLED are out of the prover's
reach; they hold in the bounds of section 3. Every invariant and every action property of a passing run is a theorem. No theorem that takes an operator
as a parameter can be cited, neither the library's induction theorems nor those about folds and sums. Where a property speaks of a sum, or of how often something
occurs in a sequence, it therefore says so by the cardinality of a set of indices or of pairs; where it speaks of the value of digits, the definitions are
recursive functions, and `SetInduction` takes the set of the numbers for which a claim holds in place of the claim.

## 7. What is not modelled

The wording, layout, colours and escaping of output; `ptop_tree.c`, a stub; the table of file system types of `diag_fs.c`; the overlay, except for
its `ptop.c`, and the deprecated copy under `libdiag/tools/ptop`, whose logic is
that of the modelled files; examples and test scripts; Makefiles. `diag_parse_ulong` and `diag_read_first_line` are called by no
tool; the first is modelled with its siblings, the second repeats `read_file_first_line`. Scripts run one at a time: two that run at once on the same tree are not modelled, and neither is a make that is killed
while it links (that it then leaves the old `./busybox` or none is make's and the linker's affair). That the helper scripts are in a BusyBox tree only after a bootstrap has copied them is
not tracked; `StartByHand` lets each run at any time. Of the seven keys of diagnet's
filter three are kept, because the other port and the addresses are compared in the same way. Two hazards have no property: a read error of the mount table,
which the code does not tell from its end, and a signal without a handler, about which the repository promises nothing.
About times nothing is promised beyond the two counters that are read (`ptop_sampling_work`), about sizes that overflow only that shares stay in range, and about an install by hand after a script that failed
nothing but that the next completed bootstrap repairs it.

## 8. Plan

Order of the modules: ptop first, because it is the only program with asynchronous events; then diagnet's collector
and diagfs's run, whose failures decide whether a report can be trusted; then arithmetic, command lines and scripts; then the parsers, the abstract
report, and the benchmark around the bootstrap. These exist. Next:

1. `DiagnetCli` composed with `DiagnetCollect`, and the usage errors of diagfs.
2. The lemmas on which several of the proofs rest separately (counting indices of a sequence, unsigned subtraction) stated once.
