# A TLA+ model of ci-scripts

ci-scripts builds Linux/powerpc kernels and selftests in containers, boots
them under QEMU or on real machines, runs tests on what came up and decides
from the console log whether it was good. The decisions are made by Python
and shell programs that run many processes at once, talk to consoles whose
output comes when it likes, and work on directories that outlive each run.
This directory models those decisions, checks them with TLC and proves the
central ones with TLAPS.

Contents: [the system](#the-system), [modules](#modules),
[runs](#runs-and-their-bounds), [fairness](#fairness), [proofs](#proofs),
[disagreements found](#disagreements-found), [hard behaviours](#hard-behaviours),
[not modelled](#not-modelled), [what is left](#what-is-left).

## The system

| Component | Code | State | Operations | Module |
|---|---|---|---|---|
| Job runner | `lib/ngci.py` `Job`, `run_jobs` | `jobs`, `running`, `result`, one child process per job | start, join with timeout, rotate, drain | `JobPool` |
| Suite driver | `lib/ngci.py` `run_one_config`, `build*`, `munge_configs`, `boot_*`, `run_tests` | the output directories, results of builds, boots, tests | build all, boot all, run the tests of a boot | `SuiteRun` |
| Suite construction | `lib/ngci.py` `TestSuite`, `filter_matches`; `etc/tests.py` | dictionaries of kernels and boots, a shared list of fragments | add kernel, add boot, filter, compare versions | `SuiteDef` |
| Build scripts | `build/scripts/*.sh` | an output directory, the symlink to the latest kernel | configure, merge, make, modules, clean, link | `KernelBuild` |
| Environment lookup | `lib/utils.py` `get_*` | where kernel, release and tarballs were found | look up | `EnvLookup` |
| QEMU configuration | `lib/qemu.py` `QemuConfig` | drives, mounts, prompt, initrd, root | arguments, defaults, cloud image, command | `QemuConfig` |
| Console layer | `lib/pexpect_utils.py` | child, prompt stack, bug patterns, buffer, log | expect, send, push/pop prompt, wait for exit | `Console` |
| QEMU session | `lib/qemu.py` `qemu_main`, `lib/qemu_callbacks.py`, `lib/application_tests/` | steps to be taken, alarm, result | boot, callbacks, tests, shutdown, verdict | `QemuSession` |
| Log filter | `lib/utils.py` `filter_log_warnings`, `etc/filters.ini` | `ignoring`, `found`, the lines written | read a line | `LogFilter` |
| Hardware boot | `lib/boot_utils.py` | the machine, its console, power control | install, reboot, petitboot, kexec, ssh, checks | `HardwareBoot` |
| Dlpar test | `scripts/test/dlpar` | memory and cores online, DRC indices | remove, add, repair, count | `Dlpar` |
| Symbol dump | `lib/dump.py`, `scripts/misc/dump-ftr-fixups.py` | symbol table, `variant` | look up by name and address, dump fixups | `SymbolDump` |
| Wrappers and recipes | `scripts/boot/*`, `external/`, `tests/`, `root-disks/`, container images | - | - | - |

How they interact. A suite function of `etc/tests.py` fills a `TestSuite`.
`run_one_config` calls `build`, which makes one job per kernel and selftest
that passes the filters and hands them to `run_jobs`; then `boot_kernels` does
the same with one job per boot. The children share nothing with each other but
the **output directories** and the link to the latest kernel: a boot reads what
a build wrote, in this run or an earlier one. A build job runs `build.sh`,
which runs `container-build.sh` in a container. A boot job calls a boot
script, which is either a QEMU session over a console or a hardware boot over
console, power control and ssh; both end with the log filter. A test of a boot
is a script run after the boot script, or a callback run inside it whose traces
in `console.log` the script looks for.

What makes each part correct:

* job runner: no job lost or doubled, the factor respected, the verdict that of
  all jobs, a hung child does not stop the rest, a failure is noticed soon;
* driver: OK means built, booted and tested; no stale kernel is taken for a new
  one; boots wait for builds; the exit status tells the truth;
* suite construction: a boot gets the kernel it was defined with, filters mean
  what they say, every selftest is judged by its own output;
* builds: a status of 0 is a kernel of the configuration asked for, modules are
  never ahead of the kernel, the shared link names a good build;
* configuration: kernel, release and tarballs belong together; drive letters,
  prompts and root file systems agree between host and guest; nothing is tested
  with an input missing;
* console and sessions: an oops is seen wherever it appears, prompts follow the
  shell, success hides nothing, a session ends;
* log filter: verdict and report are what the markers and patterns mean;
* hardware boot: success means that the machine runs the new kernel, commands
  for petitboot are never typed at a host, a boot ends;
* dlpar: resources come back, nobody is blamed for nothing, the test ends;
* symbol dump: an address is found at its nearest symbol, what is said of a
  fixup is true.

## Modules

| Module | What it is |
|---|---|
| `Batch` | Abstract specification of a batch of jobs: jobs start at most once, in order, at most `width` alive; one verdict when nothing is alive. |
| `JobPool` | `Job` and `run_jobs()` in detail, with the refinement mapping `B == INSTANCE Batch`. |
| `JobPoolFailFast` | `JobPool` with two history variables: which child failed first and how many jobs were started after that. |
| `SuiteRun` | `run_one_config()`: every build, boot and test step; **composes two instances of `Batch`** over the output directories. |
| `SuiteDef` | A series of `add_...()` calls; filters, versions, directory names and markers as operators with reference definitions. |
| `KernelBuild` | Kernel builds side by side, each of whose commands may fail, and the link they share. |
| `EnvLookup` | The lookups a boot script starts with. |
| `QemuConfig` | **Extends `EnvLookup`**: from the arguments to a command line. |
| `Console` | One `PexpectHelper` and the process it talks to. |
| `QemuSession` | **Composes `QemuConfig`, `Console` and `LogFilter`** (`Scan`, instantiated on the log of the session). |
| `LogFilter` | `filter_log_warnings()` line by line, against a declarative reading of the log. |
| `HardwareBoot` | `BasicBoot` and `PowernvBoot` against a machine. |
| `Dlpar`, `SymbolDump` | The test and the tool of these names. |
| `MC*` | Instances for TLC; modules without one need none. |
| `*Proofs` | Theorems and proofs about the module they are named after; `JobPoolProofs` also about `JobPoolFailFast`, `LookupProofs` about `SuiteDef` and `SymbolDump`. |

Correspondence with the code:

* **JobPool.** The variables are the locals of `run_jobs()`, `pc` its program
  counter, `proc[j]` the child of job `j`. `Round` is the test of the outer
  `while`, `StartJob`/`FillDone` the inner one, `JoinHead`/`JoinTimeout` the two
  ways out of `wait_for_one_job(10)`, `PopEmpty` its IndexError, `DrainHead` and
  `Return` the last loop. `Exit(j)` happens at any moment: children are
  processes. One call of `wait_for_one_job` is one action because only the parent
  touches the lists and it reads the exit code once.
* **SuiteRun.** `step[t]` and `host_step[b]` are the control of the build and
  boot children, `dir[t]` the contents of an output directory together with
  whether this run wrote them. `Init` lets every directory hold anything an
  earlier run, complete or killed at any point, can leave. The start and the
  verdict of a batch are conjoined actions of `Batch`, so what `SuiteRun` shows
  rests on what `run_jobs()` is shown to implement. `Clean`, `Make` and `Prune`
  may each fail and leave the directory as `rm -rf`, `make` and `prune.sh` can
  leave it. `BootHost` is the boot script: it may fail for its own reasons, but
  cannot succeed without `vmlinux` and `kernel.release`.
* **SuiteDef.** `Programs` is the series of calls a suite function makes. Lists
  of fragments are Python lists, of which one is shared by reference
  (`powernv_configs`); `Contents` is what a list holds when it is looked at.
  `Judges` tells the tests whose `run.sh` greps for "not ok" (selftests) from
  those whose `run.sh` only extracts lines (`qemu-test-...`). A version has up
  to three parts; `AtLeast` is the whole loop of `image_at_least()`, an image
  without a version and one of another name included.
* **KernelBuild.** `pc[b]` walks through the kernel task of
  `container-build.sh` and the end of `build.sh`. Every command may fail, `rm`
  and `ln` included; what is modelled is which failures set `rc`. The history
  variable `failed` remembers the commands that did, so that a property can say
  what a status of 0 means in spite of them. A `.config` is the set of what went
  into it. A custom `.config` is mounted, but `CUSTOM_CONFIG` is not passed to
  the container, so that it is `make` without a target which runs
  (`MakeNoTarget`). `Init` lets the directories hold anything earlier builds
  left, and `latest-kernel` name one of those that are built in again: the
  ordinary re-run. `ln -s` over a link that is there makes a link inside the
  directory that one names (`strays`).
* **QemuConfig.** `conf_phase` orders `configure_from_env()`,
  `configure_from_args()`, `apply_defaults()` and the start of `qemu_main()`.
  `drive_of[c]` is the letter remembered for a content, `disks` what the drives
  hold. When `apply_defaults()` gives up its caller goes on: a script that sets
  the emulator and the memory itself (`preset`) starts a guest all the same,
  without a prompt. An image of a name the code does not know (`"other"`) gets
  no `root=`. A command line is a record of what the four functions distinguish;
  machine types, CPUs, accelerators and capabilities only change the text of
  the command and are left out.
* **Console.** The other side owes the answers in `owed` and prints them, and
  kernel messages in between, in any chunks; `buffer` is what was read and not
  matched. An `expect()` sets `waiting`; it ends with the **earliest** text that
  any of its patterns, bug patterns included, matches (`FirstIs`), with a
  timeout, or with the end of the output. Prompts are three: that of a shell at
  home, in another directory, and of xmon. `PromptMatches` says which of them a
  pattern of `apply_defaults()` matches.
* **QemuSession.** `todo` is the script's remaining steps; `Steps(c)` are those
  of each callback, and a `"cmd"` stands for a run of consecutive `p.cmd()`s,
  which all do the same (send, expect the prompt). What comes next depends on
  what was matched only in `standard_boot()` (`AfterBoot`) and in the search for
  `not ok` (`CheckFails`). Steps without a timeout are `Unbounded`. A guest
  started without a prompt has no function to boot it either, which is an
  exception right after the start. xmon is
  entered by `scripts/test/qemu-xmon`, in the way `"xmon"` does.
* **HardwareBoot.** `phase` is the program counter; `check` that of
  `check_petitboot()`, which three callers use. The machine, its firmware and
  its network are the environment: a host may hang, go down by itself, come up
  with the installed image or another kernel; petitboot itself is assumed not
  to crash while it is being talked to. The console is text on its way
  (`coming`, delivered by `Arrives` when it likes) and text received and not
  consumed (`console`, pexpect's buffer). Every wait matches anywhere in the
  latter, so an answer that came too late for one wait, `skiroot` among them, is
  found by a later one, behind a reset or not. `logged_in` is a shell of the host
  that somebody left open on the console before the boot; its prompt looks like
  petitboot's.
* **Dlpar.** One action per write to `/sys/kernel/dlpar`, each of which may be
  refused; memory in units of 10 LMBs. Partitions with 4 threads per core are
  included, since the code takes 8. A round that asks for more cores than there
  are indices is an IndexError.
* **LogFilter.** A line is the four things the scan can tell of it. `Copies`
  keeps the code's habit of writing a line once per matching pattern.
* **SymbolDump.** A fixup is two sets of feature bits. `Kept` is the condition
  under which its code is kept, `Says` what each word of `dump_fixups()` means.

Operators named `...Defect` are not part of a model. Each is a copy of the
definition it precedes with one plausible mistake (a dropped guard, a wrong
order); put in its place it violates the property PROJECT.json names. They
document what each property can detect.

## Runs and their bounds

| Run | Instance | Shows |
|---|---|---|
| `pool` | 5 jobs, factors -1..3, one job may hang | no job lost or doubled, the factor, the verdict, `FewLateStarts`, `ImplementsBatch`, `Terminates`, `HungJobsDoNotStarve` |
| `suite` | a kernel, selftests, a kernel that is not rebuilt; two boots; widths -1, 1, 2; one missing fragment | what OK and a booted kernel stand for; `BootsAfterBuilds`, `AllTestsRun`, `DirsStableDuringBoots`, `RunEnds` |
| `suite_exit_status` | two builds, one boot | **violated**: `FailedBannerMeansFailedExit` |
| `suite_stale` | as above, one missing fragment | **violated**: `FailedBuildLeavesNoOldArtifacts` |
| `suite_def` | every series of up to three of eleven calls | `BootsGetTheirKernel`; filters of up to 3 words, versions of up to 3 parts and markers against their references |
| `suite_dirs` | as above | **violated**: `DirNameMatchesOutputDir` |
| `suite_merge` | the loop of `full_compile_test()` over two images | **violated**: `BtfOffOnlyFor550` |
| `kernel_build` | two builds, any command failing, the link naming nothing, another directory or one of theirs | `OkIsTheKernelAskedFor`, `ModulesNotAhead`, `LatestIsOk` |
| `session` | every content of both trees with one command line, every combination of options without a boot, and whole sessions of several command lines and lists of callbacks, 2 kernel messages | the configuration's agreements, `MissingInputNeverTested`, `SuccessIsClean`, `VerdictHonoursTests`, `PatternsOffOnlyInWindow`, `PromptFollowsShell`, `SessionsEnd` |
| `hw` | every kind of machine, 3 waits for ssh, 2 tries for the network, 3 texts on the console, 1 crash | `SuccessAccounted`, `KexecNotOnHost`, `BootEnds` |
| `dlpar` | up to 5 cores of 4 or 8 threads, up to 12 units, 3 rounds of up to 3 cores | `ResourcesComeBack`, `BlameIsDeserved`, `TestEnds` |
| `readers` | logs of up to 3 lines, up to 2 matches per line; tables and fixups of up to 4 lines, addresses 0..3 | `WrittenIsReference`, `FindAddrIsReference`, `RangesAgree`, `VariantAccounted` |

Why the bounds are enough. Five jobs and factor three give lists in which the
failing, the slow and the late job are all different, a rotation of a full
list, and a start after a join; the bound of `FewLateStarts`, two, is reached.
`SuiteRun` needs one directory of each kind (kernel built now, selftests built
now, kernel left from before) and two boots that depend on different ones. Two
builds are enough to interleave `rm -f` and `ln -s`. Three texts are a late
answer in front of the screen and prompt of the machine that is there now. Two
kernel messages in a session can lie before, in and behind any window and any
wait. Three calls make a kernel, a boot of it and a change of the kernel. Three waits and two tries
distinguish the first, a middle and the last iteration; the counts of the code
are 30 and 29, those of `Dlpar` 11 rounds of up to 7 cores, and nothing but the
last iteration depends on them. With three cores per round at most and five in
the partition, a round can ask for more cores than are known, as many, and
fewer. The theorems below remove the bounds for every invariant. All bounds are
CONSTANTS of the modules or sets in the MC modules; `MaxNoise`, `MaxCrashes`,
`MaxText`, `MaxLines` and `MaxAddr` exist for TLC only. `readers` checks two
programs that share nothing, each with the other not begun.

Some invariants are proved and not among the properties of a run, since a run
would say less: the type invariants, the inductive invariants, `PopIsSafe`,
`ExitTellsBuilds`, `TarballInCwdWins`, and `VerdictIsReference`, which follows
from `WrittenIsReference`.

Deadlock is checked everywhere: `Finished` is the only step of a run that is
over.

## Fairness

* `JobPool!FairSpec` (and `FFFairSpec`): weak fairness of the parent, a process
  that is never blocked for good (`join(10)` times out), and of the exit of
  every child outside `Hung`. `HungJobsDoNotStarve` is about a child that hangs:
  the others are still started and joined. `Terminates` claims the return of
  `run_jobs()` under the assumption that no child hangs.
* `SuiteRun!FairSpec`: weak fairness of the driver and of each job. Boot scripts
  end as the runs `session` and `hw` show, and builds because make is finite.
* `QemuSession!FairSpec`: weak fairness of the script and of the alarm. Nothing
  is asked of the guest: it may print for ever, fall silent or die. Every wait
  that is not `Unbounded` has a timeout. `Unlimited` names the sessions that may
  never end: `--gdb`, host mounts, interactive ones, and those in which a
  callback without a timeout runs after one that cleared the alarm (or clears it
  itself), and those of `--pexpect-timeout 0`, which takes the timeout from every
  wait. `SessionsEnd` claims the end of every other one.
* `HardwareBoot!FairSpec`: weak fairness of the script outside of the calls that
  have no timeout (`Unlimited`): `getpassword` before a console is opened
  (`lib/boot_utils.py:228`), power control, and the wait for the console's
  program when it is closed. `BootEnds` claims that a boot ends or is in one of
  these. Nothing is asked of the machine.
* `Dlpar!FairSpec`: weak fairness of the one process there is; the kernel
  answers every write.

No liveness is claimed of `LogFilter`, `SuiteDef`, `KernelBuild` and
`SymbolDump` (loops over a file or a list; make).

## Proofs

| Module | Theorems (`Spec => [] ...` unless said otherwise) |
|---|---|
| `JobPoolProofs` | `IndInv`, `TypeOK`, `NoJobLost`, `BoundedConcurrency`, `VerdictSound`, `PopIsSafe`; `Spec => ImplementsBatch`; of `JobPoolFailFast`: `FFIndInv`, `FewLateStarts` |
| `SuiteRunProofs` | `TypeOK`, `OkMeansTested`, `BootedKernelsAccounted`, `BootsAfterBuilds`, `AllTestsRun`, `ExitTellsBuilds`; `Spec => DirsStableDuringBoots`, `Spec => BuildBatch!BatchSpec`, `Spec => BootBatch!BatchSpec` |
| `KernelBuildProofs` | `TypeOK`, `IndInv`, `OkIsTheKernelAskedFor`, `ModulesNotAhead`, `LatestIsOk` |
| `QemuSessionProofs` | `ReleaseIsOfKernel`, `TarballInCwdWins`, `MissingInputNeverTested`, `OneRootFileSystem`, `DriveLettersAgree`; `SessInv`, `SuccessIsClean`, `VerdictHonoursTests`, `PatternsOffOnlyInWindow`, `PromptFollowsShell` |
| `LogFilterProofs` | `IndInv`, `VerdictIsReference`, `WrittenIsReference` |
| `HardwareBootProofs` | `TypeOK`, `KexecNotOnHost`, `SuccessAccounted` |
| `DlparProofs` | `TypeOK`, `ResourcesComeBack`, `BlameIsDeserved` |
| `LookupProofs` | of `SuiteDef`: `SuiteInv`, `BootsGetTheirKernel`, `FilterIsReference`, `VersionsCompare`, `VerdictIsOwn`; of `SymbolDump`: `DumpInv`, `VariantAccounted`, `FindAddrIsReference`, `RangesAgree`; for data of any size: `FilterMatchesIsReference`, `NumberIsLexicographic`, `FirstPartDecides`, `RunShIsOwn`, `FindAddrFindsNearest` |

Every invariant of every passing run is the statement of one of them, and so
are the refinement of `Batch` by `JobPool` and the action property.

They hold for every value of the constants that satisfies the ASSUMEs of the
modules, and from nothing else: numbers of jobs, builds, boots, lines, waits,
rounds are natural numbers, sets of options are sets of the right records, the
names of builds are none of the two words used for links, dlpar's partitions
have 4 or 8 threads per core, a program of `SuiteDef` is a sequence of calls.

*JobPool.* None of the properties is inductive alone. `IndInv` adds to
`NoJobLost` that a failure is either still in `running` or already in `result`,
and where each list can be empty at each program counter. One lemma per action;
the lemmas about `Append` and `Tail` of a list without duplicates carry the
rotation. The bound on live children follows from the length of `running`,
whose elements are distinct and include every live child. Refinement:
`StartJob` maps to `BatchStart`, `Exit` to `BatchExit`, `Return` to
`BatchReturn`, `PopEmpty` to `BatchAbandon`, every other action to a stutter.

*JobPoolFailFast.* As long as the first failed child is in `running` at
position p, no more than `Len(running) - p` of the jobs behind it started late,
and neither rotation nor a join of the head changes that; joining the failed
child makes `result` false and ends the rounds.

*SuiteRun.* `SuiteInv` says of each phase what is settled (`PhaseInv`), ties
the verdicts of the two batches to the steps of the jobs (`VerdictInv`), and
gives for each directory what it may hold by how far its build came (`DirInv`)
and for each host what it may have booted by how far its boot came (`HostInv`,
`OriginInv`). `OkMeansTested` is not inductive: the banner is computed at the
end from results reached long before the directories are looked at.
`DirsStableDuringBoots` is an action property: once boots run, `PhaseInv` leaves
no build alive that could write. That both halves of a run are behaviours of
`Batch` (`BuildsAreABatch`, `BootsAreABatch`) closes the composition:
`PoolImplementsBatch` says that `run_jobs()` offers nothing else, these say that
`run_one_config()` and its jobs ask for nothing else. A step of a job maps to
`BatchExit` or to a stutter.

*KernelBuild.* Three invariants per build follow the configuration, the kernel
and the archive through the steps while `rc` is 0; new modules are there only
behind the step that archives them, with `rc` still 0, which is what
`ModulesNotAhead` rests on. `LatestIsOk` is not inductive since between `rm -f`
and `ln -s` the link is missing or stale: `LinkInv` says that then some build is
about to make it, or its `rm` failed.

*QemuSession.* `ConfInv` says where each path was found by phase (`FoundInv`),
what each phase may rely on (`PhaseInv`: there is a prompt only if
`apply_defaults()` did not give up, and an initrd with it or by an option),
and that `drive_of` and `disks` are inverse (`Agree`), which drives added at
the end preserve as no content is added twice. Only `Configuring` changes any
of it, so for these the rest of a session is one lemma.

For the session itself none of the four properties is inductive: each speaks of
a moment, and what makes it true was arranged many steps earlier. `SessInv` is
thirteen conjuncts about three things. *The plan:* what is left to do keeps its
windows whole (`Plan`): an ignore window is `ignore`, `provoke`, `detect` in a
row, a stay in xmon `xmon`, `cmd`, `xmon_exit`, and the end comes last. That
holds of the list the script is called with for every list of callbacks, which
is an induction over it (`CallbacksBlock`, `SessionPlanIsPlan`), and of every
tail of it. *The wait:* what is awaited belongs to the head of the plan
(`WaitInv`), so whether the bug patterns are off (`BugInv`), the log is inside a
window (`WindowInv`) and which prompts are stacked (`StackInv`) can be read off
the plan. *The console:* one shell is awaited at a time and nothing is printed
that nobody asked for (`SyncInv`), the shell that answers next matches the
innermost prompt (`ShellInv`), a failed test is printed before the shell that
answers the `grep` (`GrepInv`), and what is not known to be right is still to be
looked at by a step of the plan (`ReleaseInv`, `TestsInv`). `SuccessIsClean` then
follows as a session cannot report success without having read everything before
the end (`SkipInv`, `LogIsClean`).

The proof attempt found two `CASE` expressions whose guards overlapped
(`TestSteps`, `AfterBoot`): TLC takes the first that holds, TLA+ any of them.
They are disjoint now, in the order of the code.

*LogFilter.* The flag `ignoring` is membership of the last line in a window of
the declarative reading, and one more line leaves the windows of the earlier
ones alone; then verdict and written lines grow by what the line adds.

*HardwareBoot.* `SuccessInv` adds to the property when the machine is known to
be young and when its release has been compared; a crash after that sets
`late_reboot`. `KexecNotOnHost` is not inductive: a late `skiroot` in the buffer
would let the next check pass whatever the machine shows then. `HostInv` says
that as long as the host shows an open shell no `skiroot` is on the console or
on its way, since that shell was left open before the boot and goes with the
first reset, in front of which no petitboot answered.

*Dlpar.* At each program counter, what is missing is among the cores still to
be added, unless an addition was refused (`CpuInv`), likewise for memory
(`MemoryInv`); the count that is expected is the number of threads of the cores
left, for 8 threads a core (`CountInv`). With 8 threads every core but one has
an index (`ShapeInv`), which bounds the partitions that die of an IndexError.

*SuiteDef.* `BootsGetTheirKernel` becomes inductive with the fact that a kernel
is kept under its own name (`KernelsInv`) and that a shared list only grows. The
others are about operators: `FilterMatches` recurses up a list of filters and
`Console` along a list of tests, and both are shown to be what the reference
says by induction on the length, for lists of any length; the runs' invariants,
over lists of up to three and two, are instances. Versions of one shape compare
part by part (`NumberIsLexicographic`); for others a number lies between its
first part and the next, times the weight of the digits behind it
(`FirstPartDecides`).

*SymbolDump.* `TableInv`: addresses do not decrease. After m symbols the pass of
`find_addr()` remembers the first of the longest names at the highest address
seen (`Remembers`, by induction on m), and it stops behind exactly the symbols
that are not above the address (`FindAddrStops`). That the two lookups agree
then takes the order of the table once more: no other line lies inside of a
range. `PrintedInv` ties the variable that is carried from entry to entry to the
last line printed, so that an entry without words of its own shows those of the
nearest entry before it that has some.

*Induction.* The library's induction theorems take an operator as a parameter
and cannot be used here. `NatInd` states induction over the natural numbers for
a set instead, proved from the well-foundedness of `<`. For each recursive
function one lemma (`...Unfold`) shows that a function satisfying its equations
exists, and then that it does satisfy them.

Only model-checked, being out of the prover's reach: the liveness properties
under fairness (`Terminates`, `HungJobsDoNotStarve`, `RunEnds`, `SessionsEnd`,
`BootEnds`, `TestEnds`).

## Disagreements found

Shown by a run:

* **A failed boot or test exits with 0** (`lib/ngci.py:522`). `run_one_config`
  prints the banner "Failed" if a boot failed (515-516) and returns
  `build_result`. Run `suite_exit_status`: all builds succeed, the boot fails.
  `ExitTellsBuilds` states what the exit status does tell.
* **A failed build can leave old artifacts** (`lib/ngci.py:591`), against the
  comment on line 598. `munge_configs` fails before the clean. Run `suite_stale`;
  with `continue_on_error` the old kernel is then booted, which is why
  `BootedKernelsAccounted` allows `munge_failed` (and `clean_failed`) for a stale
  kernel and nothing else.
* **BTF is disabled for more than 5.5.0** (`etc/tests.py:286`). The fragment is
  appended to the list all images share, against the comment on line 288. Run
  `suite_merge`.
* **A clang kernel of a plain defconfig is looked for in another directory than
  it is built in** (`lib/ngci.py:120`). `get_output_dir()` appends `+clang` to a
  defconfig without a `+` (`build/scripts/lib.sh:81-86`), `dir_name()` does not,
  against the comment on line 121, "Has to match get_output_dir() in lib.sh".
  Run `suite_dirs`.

Modelled as the code does it, and stated by the properties in their exceptions:

* A QEMU boot without a named test raises AttributeError: `test_output_dir` is
  set only for one (`lib/qemu.py:376`, 389), while `README.md:195` boots without
  (`DefaultsRaise`).
* After `cd` into a test's directory the prompts that name the home directory
  match no more (`lib/qemu.py:721`), so only Ubuntu images get through a test
  (`PromptFollowsShell` is about them).
* A test without a `test.py` cannot be created: `factory.py:29` leaves out an
  argument that line 9-10 require (the step `"raise"`).
* `drain()` does not empty pexpect's buffer (`boot_utils.py:489`), against the
  comment above it: screens from before a reboot can be seen after it
  (`HardwareBoot!Drain`).
* `NoXcat.get_power_state()` returns None (`boot_utils.py:351`), so a machine
  without power control is "reset" by nothing and ssh reaches the old system;
  `SuccessAccounted` states what is left of the verdict then: the uptime.
* That verdict of a `hostname` may come late, too: `skiroot` printed for one
  check is found by the next one, behind a reset (`HardwareBoot!Hostname`).
  `KexecNotOnHost` is what holds nevertheless.
* Versions with different numbers of digits behind the first part compare as
  numbers do: korg@5.10.0 passes for 8.5.0, korg@9.5 does not
  (`VersionsCompare`).
* The `run.sh` of a `qemu-test-...` extracts lines and judges nothing
  (`lib/ngci.py:313-315`, `VerdictIsOwn`).
* A custom `.config` is mounted and never used: `CUSTOM_CONFIG`, which
  `container-build.sh:61` tests, is not passed on (`build.sh:146-152`). The
  status of a failed defconfig, `merge_config.sh`, `mod2yesconfig` or `tar` is
  overwritten or not looked at (`OkIsTheKernelAskedFor`). A kernel may be newer
  than the modules beside it (`ModulesNotAhead`).
* `build.sh` exits with the status of the container although `rm -f` or `ln -s`
  failed (251-252), and a rebuild that fails has spoilt the directory that
  `latest-kernel` names from the run before (`LatestIsOk`).
* `apply_defaults()` does not tell that it gave up (`lib/qemu.py:261-263`): with
  no root disks or an empty `kernel.release`, scripts that set the emulator and
  the memory start a guest, and fail then (`MissingInputNeverTested`). An image
  of an unknown name gets no `root=` (494-504, `OneRootFileSystem`).
* The dlpar test dies of an IndexError when it picks more cores than there are
  indices (`scripts/test/dlpar:99`): on partitions of at most 7 cores, with
  nothing refused (`BlameIsDeserved`).
* `dump_fixups()` has no words for an entry that needs some bits set and others
  clear, or whose value is not inside of its mask, and shows those of an earlier
  one (`dump-ftr-fixups.py:233-242`, `VariantAccounted`).

## Hard behaviours

PROJECT.json lists every hazard with its line and the properties that cover it:
order of exits against polling, rotation, late failure, negative and zero
factors; partial failure of clean, make, prune, tar and configuration; stale
artifacts, lists and variables; overlap of builds and boots and of two updates
of one link; kernel messages before, inside and after every wait; timeouts and
the alarm at any point; a guest or machine that hangs, dies or reboots between
two checks; refused writes in the middle of a round. What a killed run leaves
behind is part of `SuiteRun!Init`.

## Not modelled

* `scripts/boot/*`: 129 executables that only pass constants to the QEMU or
  hardware boot.
* `scripts/test/remote-*`, `qemu-lkdtm`: straight-line pipelines of ssh, tar and
  grep; their verdict on the log is that of `LogFilter`.
* `scripts/misc/dump-mcount.py`, `dump-extable.py` and the like: stateless
  printers over `find_addr()`; `apply-configs.py`.
* `build/Makefile`, container images, `external/`, `tests/`, `root-disks/`:
  control belongs to make, Docker and wget. `etc/configs.py`: data.
* Of `container-build.sh`, the selftests, perf and docs tasks, which are single
  commands with their status; in `SuiteRun` they are one step that may fail.
* Of the QEMU configuration, whatever only changes the text of the command line.
* Everywhere: wording of logs, timings, contents of generated scripts. In
  `SuiteRun`: the symlink `artifacts`, log files, and the setup of tests (it
  writes scripts); what filters drop is a constant of the instance. In
  `QemuSession`: the text of a message (it is matched by a bug pattern, by the
  log filter, by both or by neither).

## What is left

* A boot script's abstract outcome as a module of its own, implemented by
  `QemuSession` and `HardwareBoot` and used by `SuiteRun!BootHost`. The two
  sides agree now by what their properties say of a success.
* The same for `KernelBuild` and the make step of `SuiteRun`.
* `tests.py`'s suites as programs of `SuiteDef`: they are data, some hundreds of
  calls; the instance takes calls of every kind they make.
