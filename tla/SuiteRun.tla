------------------------------ MODULE SuiteRun ------------------------------
(***************************************************************************)
(* lib/ngci.py, run_one_config(): one run of a test suite.  It builds the  *)
(* kernels and selftests as one batch of jobs, then boots the kernels as a *)
(* second batch, each boot job also running its tests.  The batches are    *)
(* those of module Batch, which run_jobs() implements (module JobPool).    *)
(*                                                                         *)
(* The two halves communicate only through the output directories, which   *)
(* outlive the run: a run starts with whatever earlier runs, finished or   *)
(* killed, left in them.                                                   *)
(***************************************************************************)
EXTENDS Integers, Sequences, FiniteSets

CONSTANTS
    NumTargets,     \* output directories: kernels and selftests of the suite
    NumBuilds,      \* 1..NumBuilds get a build job, the filters drop the rest
    Selftests,      \* the targets that are selftests
    NumBoots,       \* boot jobs
    KernelOf,       \* the kernel each boot job boots
    TestsOf,        \* its tests: the selftests target each needs, or NoTarget
    WithFragments,  \* kernels that name config fragments, any of which may be missing
    Widths          \* values of kfactor and bfactor, 0 already replaced

NoTarget == 0
Targets == 1..NumTargets
Builds == 1..NumBuilds
Boots == 1..NumBoots

ASSUME SizesAssumption ==
    NumTargets \in Nat /\ NumBuilds \in 0..NumTargets /\ NumBoots \in Nat
ASSUME SuiteAssumption ==
    /\ Selftests \subseteq Targets
    /\ WithFragments \subseteq Targets \ Selftests
    /\ KernelOf \in [Boots -> Targets \ Selftests]
    /\ TestsOf \in [Boots -> Seq(Selftests \cup {NoTarget})]
    /\ Widths \subseteq Int \ {0}

VARIABLES
    continue_on_error, dry_run, skip_boot, kwidth, bwidth,  \* the arguments
    phase,          \* where run_one_config() is
    step,           \* where each build job is
    dir,            \* what each output directory holds
    build_result,
    host_step,      \* where each boot job is
    booted,         \* which kernel its boot script came up with
    test_results,   \* results of its tests, in order
    boot_result,
    exit_status     \* of the ngci process

args == <<continue_on_error, dry_run, skip_boot, kwidth, bwidth>>
buildVars == <<step, dir, build_result>>
bootVars == <<host_step, booted, test_results, boot_result>>
vars == <<args, phase, buildVars, bootVars, exit_status>>

(* Contents of an output directory, by where the artifacts are:            *)
(*   absent    no directory       empty    a log, nothing bootable         *)
(*   unpruned  a build tree: vmlinux on top, kernel.release deep inside    *)
(*   hidden    everything moved into artifacts/, prune.sh not finished     *)
(*   pruned    vmlinux, kernel.release, or selftests.tar.gz, on top        *)
(* `fresh` says that this run put it there.                                *)
Stages == {"absent", "empty", "unpruned", "hidden", "pruned"}
Contents == [stage : Stages, fresh : BOOLEAN]
Holds(s) == [stage |-> s, fresh |-> TRUE]

BuildFailures == {"munge_failed", "clean_failed", "make_failed", "prune_failed"}
BuildSteps == {"none", "munge", "clean", "make", "prune", "ok"} \cup BuildFailures
HostSteps == {"none", "host", "test", "ok", "fail"}

JobStatus(s) ==
    CASE s \in {"none", "ok"} -> s
      [] s \in BuildFailures \cup {"fail"} -> "fail"
      [] OTHER -> "alive"

BuildBatch == INSTANCE Batch
    WITH NumJobs <- NumBuilds, width <- kwidth, keepGoing <- continue_on_error,
         status <- [t \in Builds |-> JobStatus(step[t])], verdict <- build_result

BootBatch == INSTANCE Batch
    WITH NumJobs <- NumBoots, width <- bwidth, keepGoing <- continue_on_error,
         status <- [b \in Boots |-> JobStatus(host_step[b])], verdict <- boot_result

-----------------------------------------------------------------------------
Init ==
    /\ continue_on_error \in BOOLEAN
    /\ dry_run \in BOOLEAN
    /\ skip_boot \in BOOLEAN
    /\ kwidth \in Widths
    /\ bwidth \in Widths
    /\ phase = "build"
    /\ step = [t \in Targets |-> "none"]
    /\ \E left \in [Targets -> Stages] :
           dir = [t \in Targets |-> [stage |-> left[t], fresh |-> FALSE]]
    /\ build_result = "open"
    /\ host_step = [b \in Boots |-> "none"]
    /\ booted = [b \in Boots |-> "no"]
    /\ test_results = [b \in Boots |-> <<>>]
    /\ boot_result = "open"
    /\ exit_status = "running"

-----------------------------------------------------------------------------
(* build_one_kernel() and build_one_selftest(), one child process each. *)

Goto(t, s) == step' = [step EXCEPT ![t] = s]
BuildLocal == UNCHANGED <<args, phase, build_result, bootVars, exit_status>>

StartBuild(t) ==
    /\ phase = "build"
    /\ Goto(t, IF t \in Selftests THEN "clean" ELSE "munge")
    /\ BuildBatch!BatchStart(t)
    /\ UNCHANGED <<args, phase, dir, build_result, bootVars, exit_status>>

(* Definitions named ...Defect are not part of the model: each is the next *)
(* definition with a plausible mistake, which the properties must tell     *)
(* from the code.                                                          *)

(* munge_configs(): None for a fragment that is not there, before any      *)
(* clean.                                                                  *)
Munge(t) ==
    /\ step[t] = "munge"
    /\ Goto(t, "clean") \/ (t \in WithFragments /\ Goto(t, "munge_failed"))
    /\ UNCHANGED dir
    /\ BuildLocal

(* A dry run makes the directory and opens the log in it, nothing else. *)
DryBuild(t) ==
    /\ step[t] = "clean"
    /\ dry_run
    /\ Goto(t, "ok")
    /\ dir' = IF dir[t].stage = "absent"
              THEN [dir EXCEPT ![t] = Holds("empty")] ELSE dir
    /\ BuildLocal

(* clean.sh is rm -rf; the new directory gets a log.  When the clean fails *)
(* (check=True) the job dies with the directory as it was.                 *)
Clean(t) ==
    /\ step[t] = "clean"
    /\ ~dry_run
    /\ \/ Goto(t, "make") /\ dir' = [dir EXCEPT ![t] = Holds("empty")]
       \/ Goto(t, "clean_failed") /\ UNCHANGED dir
    /\ BuildLocal

(* ... a build that failed is cleaned and made again. *)
MakeDefect(t) ==
    /\ step[t] = "make"
    /\ \/ Goto(t, "prune") /\ dir' = [dir EXCEPT ![t] = Holds("unpruned")]
       \/ /\ Goto(t, "clean")
          /\ \E s \in {"empty", "unpruned"} : dir' = [dir EXCEPT ![t] = Holds(s)]
    /\ BuildLocal

(* make in the container.  vmlinux may be linked before a later part of    *)
(* the build fails; a failed build is left in place, unpruned.             *)
Make(t) ==
    /\ step[t] = "make"
    /\ \/ Goto(t, "prune") /\ dir' = [dir EXCEPT ![t] = Holds("unpruned")]
       \/ /\ Goto(t, "make_failed")
          /\ \E s \in {"empty", "unpruned"} : dir' = [dir EXCEPT ![t] = Holds(s)]
    /\ BuildLocal

(* prune.sh under set -e: it may stop after any of its moves. *)
Prune(t) ==
    /\ step[t] = "prune"
    /\ \/ Goto(t, "ok") /\ dir' = [dir EXCEPT ![t] = Holds("pruned")]
       \/ /\ Goto(t, "prune_failed")
          /\ \E s \in {"unpruned", "hidden", "pruned"} :
                 dir' = [dir EXCEPT ![t] = Holds(s)]
    /\ BuildLocal

(* ... the boots begin although a build failed. *)
BuildsDoneDefect ==
    /\ phase = "build"
    /\ UNCHANGED <<args, step, dir, bootVars>>
    /\ BuildBatch!BatchReturn
    /\ phase' = "boot"
    /\ UNCHANGED exit_status

(* build() returns; run_one_config() goes on to the boots or gives up. *)
BuildsDone ==
    /\ phase = "build"
    /\ UNCHANGED <<args, step, dir, bootVars>>
    /\ BuildBatch!BatchReturn
    /\ IF build_result' = "TRUE" \/ continue_on_error
       THEN phase' = "boot" /\ UNCHANGED exit_status
       ELSE phase' = "done" /\ exit_status' = "-1"

(* An IndexError in run_jobs() goes up through main. *)
BuildsRaise ==
    /\ phase = "build"
    /\ UNCHANGED <<args, step, dir, bootVars>>
    /\ BuildBatch!BatchAbandon
    /\ phase' = "crashed"
    /\ exit_status' = "1"

-----------------------------------------------------------------------------
(* boot_and_test(), one child process per boot. *)

HostGoto(b, s) == host_step' = [host_step EXCEPT ![b] = s]
BootLocal == UNCHANGED <<args, phase, buildVars, boot_result, exit_status>>

StartBoot(b) ==
    /\ phase = "boot"
    /\ HostGoto(b, "host")
    /\ BootBatch!BatchStart(b)
    /\ UNCHANGED <<args, phase, buildVars, booted, test_results, boot_result,
                   exit_status>>

(* boot_host() gives up without vmlinux; the boot script it runs dies      *)
(* reading --release-path without kernel.release, and may fail anyway.     *)
HasVmlinux(c) == c.stage \in {"unpruned", "pruned"}
HasReleaseDefect(c) == HasVmlinux(c)
HasRelease(c) == c.stage = "pruned"

BootHost(b) ==
    /\ host_step[b] = "host"
    /\ LET c == dir[KernelOf[b]]
       IN  \/ /\ skip_boot
              /\ HostGoto(b, "test")
              /\ UNCHANGED booted
           \/ /\ ~skip_boot
              /\ HostGoto(b, "fail")
              /\ UNCHANGED booted
           \/ /\ ~skip_boot /\ dry_run
              /\ HostGoto(b, "test")
              /\ UNCHANGED booted
           \/ /\ ~skip_boot /\ ~dry_run
              /\ HasVmlinux(c) /\ HasRelease(c)
              /\ HostGoto(b, "test")
              /\ booted' = [booted EXCEPT ![b] = IF c.fresh THEN "fresh" ELSE "stale"]
    /\ UNCHANGED test_results
    /\ BootLocal

(* run_tests(): every test runs, whatever the ones before it did.  A test  *)
(* that copies selftests.tar.gz to the host cannot pass without it.        *)
RunTest(b) ==
    /\ host_step[b] = "test"
    /\ ~dry_run
    /\ Len(test_results[b]) < Len(TestsOf[b])
    /\ LET need == TestsOf[b][Len(test_results[b]) + 1]
       IN  \E r \in BOOLEAN :
               /\ r /\ need # NoTarget => dir[need].stage = "pruned"
               /\ test_results' = [test_results EXCEPT ![b] = Append(@, r)]
    /\ UNCHANGED <<host_step, booted>>
    /\ BootLocal

(* ... the last test decides; a failed test ends the boot job. *)
TestsDoneLastDefect(b) ==
    /\ host_step[b] = "test"
    /\ dry_run \/ Len(test_results[b]) = Len(TestsOf[b])
    /\ HostGoto(b, IF test_results[b] = <<>> \/ test_results[b][Len(test_results[b])]
                   THEN "ok" ELSE "fail")
    /\ UNCHANGED <<booted, test_results>>
    /\ BootLocal

TestsDoneEarlyDefect(b) ==
    /\ host_step[b] = "test"
    /\ LET failed == \E i \in DOMAIN test_results[b] : ~test_results[b][i]
       IN  /\ dry_run \/ failed \/ Len(test_results[b]) = Len(TestsOf[b])
           /\ HostGoto(b, IF failed THEN "fail" ELSE "ok")
    /\ UNCHANGED <<booted, test_results>>
    /\ BootLocal

TestsDone(b) ==
    /\ host_step[b] = "test"
    /\ dry_run \/ Len(test_results[b]) = Len(TestsOf[b])
    /\ HostGoto(b, IF \A i \in DOMAIN test_results[b] : test_results[b][i]
                   THEN "ok" ELSE "fail")
    /\ UNCHANGED <<booted, test_results>>
    /\ BootLocal

(* The end of run_one_config(): the value returned, and so the exit status *)
(* of ngci, is that of the builds.                                         *)
BootsDone ==
    /\ phase = "boot"
    /\ UNCHANGED <<args, buildVars, host_step, booted, test_results>>
    /\ BootBatch!BatchReturn
    /\ phase' = "done"
    /\ exit_status' = IF build_result = "TRUE" THEN "0" ELSE "-1"

BootsRaise ==
    /\ phase = "boot"
    /\ UNCHANGED <<args, buildVars, host_step, booted, test_results>>
    /\ BootBatch!BatchAbandon
    /\ phase' = "crashed"
    /\ exit_status' = "1"

-----------------------------------------------------------------------------
BuildJob(t) == Munge(t) \/ DryBuild(t) \/ Clean(t) \/ Make(t) \/ Prune(t)
BootJob(b) == BootHost(b) \/ RunTest(b) \/ TestsDone(b)
Driver ==
    \/ \E t \in Builds : StartBuild(t)
    \/ \E b \in Boots : StartBoot(b)
    \/ BuildsDone \/ BuildsRaise \/ BootsDone \/ BootsRaise
Finished == phase \in {"done", "crashed"} /\ UNCHANGED vars

Next ==
    \/ Driver
    \/ \E t \in Builds : BuildJob(t)
    \/ \E b \in Boots : BootJob(b)
    \/ Finished

Spec == Init /\ [][Next]_vars

(* The driver polls on; builds, boots and tests end, each in its own time. *)
FairSpec ==
    /\ Spec
    /\ WF_vars(Driver)
    /\ \A t \in Builds : WF_vars(BuildJob(t))
    /\ \A b \in Boots : WF_vars(BootJob(b))
-----------------------------------------------------------------------------
(* Every variable keeps its type. *)
TypeOK ==
    /\ {continue_on_error, dry_run, skip_boot} \subseteq BOOLEAN
    /\ {kwidth, bwidth} \subseteq Widths
    /\ phase \in {"build", "boot", "done", "crashed"}
    /\ step \in [Targets -> BuildSteps]
    /\ dir \in [Targets -> Contents]
    /\ {build_result, boot_result} \subseteq {"open", "TRUE", "FALSE", "raised"}
    /\ host_step \in [Boots -> HostSteps]
    /\ booted \in [Boots -> {"no", "stale", "fresh"}]
    /\ test_results \in [Boots -> Seq(BOOLEAN)]
    /\ exit_status \in {"running", "0", "-1", "1"}

(* The last banner of run_one_config(). *)
Banner == IF build_result = "TRUE" /\ boot_result = "TRUE" THEN "OK" ELSE "Failed"

(* A real run that ends with the OK banner has built every target afresh,  *)
(* booted every host with the kernel of this run unless its build was      *)
(* filtered out, and seen every test of every host pass.                   *)
OkMeansTested ==
    phase = "done" /\ Banner = "OK" /\ ~dry_run /\ ~skip_boot =>
        /\ \A t \in Builds : dir[t] = Holds("pruned")
        /\ \A b \in Boots :
               /\ \/ booted[b] = "fresh"
                  \/ booted[b] = "stale" /\ KernelOf[b] \notin Builds
               /\ Len(test_results[b]) = Len(TestsOf[b])
               /\ \A i \in DOMAIN TestsOf[b] : test_results[b][i]

(* Where a kernel that booted came from.  A build whose make failed may    *)
(* leave a vmlinux that boot_host() accepts, yet no boot of it succeeds;   *)
(* a kernel of an earlier run boots only where this run left it in place.  *)
BootedKernelsAccounted ==
    \A b \in Boots :
        /\ booted[b] = "fresh" => step[KernelOf[b]] \in {"ok", "prune_failed"}
        /\ booted[b] = "stale" =>
               \/ KernelOf[b] \notin Builds
               \/ step[KernelOf[b]] \in {"munge_failed", "clean_failed"}

(* Boots begin only when no build is running any more, and in a suite that *)
(* stops on error only after every build succeeded.                        *)
BootsAfterBuilds ==
    \A b \in Boots : host_step[b] # "none" =>
        \A t \in Builds :
            /\ JobStatus(step[t]) \in {"ok", "fail"}
            /\ continue_on_error \/ step[t] = "ok"

(* A boot that came up is followed by all of its tests: one that fails     *)
(* does not hide the ones behind it.                                       *)
AllTestsRun ==
    \A b \in Boots : booted[b] # "no" /\ host_step[b] \in {"ok", "fail"} =>
        Len(test_results[b]) = Len(TestsOf[b])

(* Nothing is written to an output directory while hosts boot from it. *)
DirsStableDuringBoots == [][phase = "boot" => dir' = dir]_vars

(* The exit status of ngci tells whether the builds succeeded. *)
ExitTellsBuilds ==
    phase = "done" => (exit_status = "0" <=> \A t \in Builds : step[t] = "ok")

(* A run ends. *)
RunEnds == <>(phase \in {"done", "crashed"})

(* ngci.py:515 announces "Failed" when a boot or a test failed; the exit   *)
(* status does not.                                                        *)
FailedBannerMeansFailedExit ==
    phase = "done" /\ ~dry_run /\ Banner = "Failed" => exit_status # "0"

(* ngci.py:598 cleans "so a failed build doesn't leave old artifacts lying *)
(* around".                                                                *)
FailedBuildLeavesNoOldArtifacts ==
    \A t \in Builds : JobStatus(step[t]) = "fail" =>
        ~(dir[t].stage = "pruned" /\ ~dir[t].fresh)
=============================================================================
