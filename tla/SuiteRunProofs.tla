--------------------------- MODULE SuiteRunProofs ---------------------------
(***************************************************************************)
(* Proofs about one run of a test suite, for any suite: any kernels,       *)
(* selftests, boots and tests, any widths of the batches, and any contents *)
(* of the output directories to begin with.                                *)
(***************************************************************************)
EXTENDS SuiteRun, SequenceTheorems, TLAPS

BuildsOver ==
    \A t \in Builds :
        /\ JobStatus(step[t]) \in {"ok", "fail"}
        /\ continue_on_error \/ step[t] = "ok"

(* The phases follow one another: what is settled when one ends. *)
PhaseInv ==
    /\ phase = "build" => build_result = "open" /\ boot_result = "open"
                          /\ \A b \in Boots : host_step[b] = "none"
    /\ phase # "build" => \A t \in Builds : JobStatus(step[t]) # "alive"
    /\ phase = "boot" => BuildsOver /\ build_result \in {"TRUE", "FALSE"}
    /\ phase = "done" => build_result \in {"TRUE", "FALSE"}
                         /\ (exit_status = "0" <=> build_result = "TRUE")
    /\ \A b \in Boots : host_step[b] # "none" => BuildsOver

VerdictInv ==
    /\ phase # "build" /\ build_result \in {"TRUE", "FALSE"} =>
          (build_result = "TRUE" <=> \A t \in Builds : step[t] = "ok")
    /\ boot_result = "TRUE" => \A b \in Boots : host_step[b] = "ok"

(* What is in a directory, by how far its build job came. *)
DirInv(t) ==
    /\ t \notin Builds => step[t] = "none"
    /\ step[t] \in {"none", "munge", "clean", "munge_failed", "clean_failed"} => ~dir[t].fresh
    /\ step[t] \in {"make", "prune", "make_failed", "prune_failed"} => dir[t].fresh
    /\ step[t] = "make_failed" => dir[t].stage # "pruned"
    /\ step[t] = "ok" /\ ~dry_run => dir[t] = Holds("pruned")
    /\ step[t] \in {"make", "prune", "make_failed", "prune_failed"} => ~dry_run

(* What is known of a host, by how far its boot job came. *)
OriginInv(b) ==
    /\ booted[b] = "fresh" => step[KernelOf[b]] \in {"ok", "prune_failed"}
    /\ booted[b] = "stale" =>
           KernelOf[b] \notin Builds \/ step[KernelOf[b]] \in {"munge_failed", "clean_failed"}

HostInv(b) ==
    /\ host_step[b] \in {"none", "host"} => booted[b] = "no"
    /\ booted[b] # "no" => ~dry_run
    /\ host_step[b] \in {"test", "ok"} /\ ~skip_boot /\ ~dry_run => booted[b] # "no"
    /\ host_step[b] \in {"ok", "fail"} /\ booted[b] # "no" =>
           Len(test_results[b]) = Len(TestsOf[b])
    /\ host_step[b] = "ok" /\ ~dry_run =>
           /\ Len(test_results[b]) = Len(TestsOf[b])
           /\ \A i \in DOMAIN test_results[b] : test_results[b][i] = TRUE

SuiteInv ==
    /\ TypeOK /\ PhaseInv /\ VerdictInv
    /\ \A t \in Targets : DirInv(t)
    /\ \A b \in Boots : HostInv(b) /\ OriginInv(b)

-----------------------------------------------------------------------------
(* What the abstract batches of jobs say of the steps of the jobs.         *)
LEMMA KernelsAreTargets == \A b \in Boots : KernelOf[b] \in Targets
BY SuiteAssumption

LEMMA BuildsAreTargets == Builds \subseteq Targets
BY SizesAssumption DEF Builds, Targets

LEMMA BuildStart ==
    ASSUME TypeOK, NEW t \in Builds, BuildBatch!BatchStart(t)
    PROVE  step[t] = "none"
<1>1. JobStatus(step[t]) = "none"
    BY DEF BuildBatch!BatchStart
<1> QED BY <1>1, BuildsAreTargets DEF JobStatus, TypeOK, BuildSteps, BuildFailures

LEMMA BootStart ==
    ASSUME TypeOK, NEW b \in Boots, BootBatch!BatchStart(b)
    PROVE  host_step[b] = "none"
<1>1. JobStatus(host_step[b]) = "none"
    BY DEF BootBatch!BatchStart
<1> QED BY <1>1 DEF JobStatus, TypeOK, HostSteps, BuildFailures

LEMMA StatusOk ==
    \A s : JobStatus(s) = "ok" <=> s = "ok"
BY DEF JobStatus, BuildFailures

LEMMA StatusKinds ==
    \A s \in BuildSteps \cup HostSteps : JobStatus(s) \in {"none", "ok", "fail", "alive"}
BY DEF JobStatus, BuildSteps, HostSteps, BuildFailures

LEMMA BuildReturn ==
    ASSUME TypeOK, BuildBatch!BatchReturn
    PROVE  /\ build_result' \in {"TRUE", "FALSE"}
           /\ build_result' = "TRUE" <=> \A t \in Builds : step[t] = "ok"
           /\ \A t \in Builds : JobStatus(step[t]) # "alive"
           /\ continue_on_error => \A t \in Builds : JobStatus(step[t]) # "none"
<1>1. BuildBatch!Jobs = Builds
    BY DEF BuildBatch!Jobs, Builds
<1>2. \A s : BuildBatch!InState(s) = {t \in Builds : JobStatus(step[t]) = s}
    BY <1>1 DEF BuildBatch!InState
<1>3. build_result' = IF BuildBatch!InState("ok") = Builds THEN "TRUE" ELSE "FALSE"
    BY <1>1 DEF BuildBatch!BatchReturn
<1>4. BuildBatch!InState("ok") = Builds <=> \A t \in Builds : step[t] = "ok"
    BY <1>2, StatusOk
<1>5. BuildBatch!InState("alive") = {} /\ (continue_on_error => BuildBatch!InState("none") = {})
    BY DEF BuildBatch!BatchReturn
<1> QED BY <1>2, <1>3, <1>4, <1>5

LEMMA BootReturn ==
    ASSUME TypeOK, BootBatch!BatchReturn
    PROVE  /\ boot_result' \in {"TRUE", "FALSE"}
           /\ boot_result' = "TRUE" => \A b \in Boots : host_step[b] = "ok"
<1>1. BootBatch!Jobs = Boots
    BY DEF BootBatch!Jobs, Boots
<1>2. BootBatch!InState("ok") = {b \in Boots : JobStatus(host_step[b]) = "ok"}
    BY <1>1 DEF BootBatch!InState
<1>3. boot_result' = IF BootBatch!InState("ok") = Boots THEN "TRUE" ELSE "FALSE"
    BY <1>1 DEF BootBatch!BatchReturn
<1> QED BY <1>2, <1>3, StatusOk

LEMMA BuildAbandon ==
    ASSUME TypeOK, BuildBatch!BatchAbandon
    PROVE  build_result' = "raised" /\ \A t \in Builds : JobStatus(step[t]) = "none"
<1>1. BuildBatch!Jobs = Builds
    BY DEF BuildBatch!Jobs, Builds
<1> QED BY <1>1 DEF BuildBatch!BatchAbandon, BuildBatch!InState

-----------------------------------------------------------------------------
LEMMA TypeInit == Init => TypeOK
<1> SUFFICES ASSUME Init PROVE TypeOK
    OBVIOUS
<1>1. {continue_on_error, dry_run, skip_boot} \subseteq BOOLEAN
    BY Zenon DEF Init
<1>2. dir \in [Targets -> Contents]
  <2>1. PICK left \in [Targets -> Stages] :
            dir = [t \in Targets |-> [stage |-> left[t], fresh |-> FALSE]]
      BY DEF Init
  <2>2. \A t \in Targets : [stage |-> left[t], fresh |-> FALSE] \in Contents
      BY DEF Contents
  <2> QED BY <2>1, <2>2
<1>3. test_results \in [Boots -> Seq(BOOLEAN)]
  <2>1. <<>> \in Seq(BOOLEAN)
      OBVIOUS
  <2> QED BY <2>1 DEF Init
<1> QED BY <1>1, <1>2, <1>3 DEF Init, TypeOK, BuildSteps, HostSteps

LEMMA HoldsType == \A s \in Stages : Holds(s) \in Contents /\ Holds(s).stage = s /\ Holds(s).fresh
BY DEF Holds, Contents

(* The build jobs change nothing but their own step and directory.         *)
LEMMA BuildJobStep ==
    ASSUME TypeOK, PhaseInv, NEW t \in Builds, BuildJob(t), DirInv(t)
    PROVE  /\ phase = "build" /\ BuildLocal
           /\ \E s \in BuildSteps \ {"none"} : step' = [step EXCEPT ![t] = s]
           /\ dir' = dir \/ \E c \in Contents : dir' = [dir EXCEPT ![t] = c]
           /\ DirInv(t)'
<1> USE HoldsType, BuildsAreTargets DEF Stages, BuildSteps, BuildFailures
<1>1. BuildLocal
    BY DEF BuildJob, Munge, DryBuild, Clean, Make, Prune
<1>2. step[t] \in {"munge", "clean", "make", "prune"}
    BY DEF BuildJob, Munge, DryBuild, Clean, Make, Prune
<1>3. JobStatus(step[t]) = "alive"
    BY <1>2 DEF JobStatus
<1>4. phase = "build"
    BY <1>3 DEF PhaseInv
<1>5. t \in Targets /\ dry_run' = dry_run
    BY <1>1 DEF BuildLocal, args
<1>6. dir[t] \in Contents /\ dir[t].fresh \in BOOLEAN /\ dir \in [Targets -> Contents]
    BY <1>5 DEF TypeOK, Contents
<1>7. /\ \E s \in BuildSteps \ {"none"} : step' = [step EXCEPT ![t] = s]
      /\ dir' = dir \/ \E c \in Contents : dir' = [dir EXCEPT ![t] = c]
      /\ DirInv(t)'
  <2> USE <1>5, <1>6 DEF Goto, TypeOK, DirInv
  <2>1. CASE Munge(t)
      BY <2>1 DEF Munge
  <2>2. CASE DryBuild(t)
      BY <2>2 DEF DryBuild
  <2>3. CASE Clean(t)
      BY <2>3 DEF Clean
  <2>4. CASE Make(t)
      BY <2>4 DEF Make
  <2>5. CASE Prune(t)
      BY <2>5 DEF Prune
  <2> QED BY <2>1, <2>2, <2>3, <2>4, <2>5 DEF BuildJob
<1> QED BY <1>1, <1>4, <1>7

LEMMA BuildJobInv ==
    ASSUME SuiteInv, NEW t \in Builds, BuildJob(t)
    PROVE  SuiteInv'
<1>1. t \in Targets /\ DirInv(t)
    BY BuildsAreTargets DEF SuiteInv
<1>2. phase = "build" /\ BuildLocal /\ DirInv(t)'
    BY <1>1, BuildJobStep DEF SuiteInv
<1>3. PICK s \in BuildSteps \ {"none"} : step' = [step EXCEPT ![t] = s]
    BY <1>1, BuildJobStep DEF SuiteInv
<1>4. dir' = dir \/ \E c \in Contents : dir' = [dir EXCEPT ![t] = c]
    BY <1>1, BuildJobStep DEF SuiteInv
<1>5. TypeOK'
  <2>1. step' \in [Targets -> BuildSteps]
      BY <1>1, <1>3 DEF SuiteInv, TypeOK
  <2>2. dir' \in [Targets -> Contents]
      BY <1>1, <1>4 DEF SuiteInv, TypeOK
  <2>3. UNCHANGED <<args, phase, build_result, bootVars, exit_status>>
      BY <1>2 DEF BuildLocal
  <2> QED BY <2>1, <2>2, <2>3 DEF SuiteInv, TypeOK, args, bootVars
<1>6. PhaseInv' /\ VerdictInv'
    BY <1>2 DEF SuiteInv, PhaseInv, VerdictInv, BuildLocal, bootVars
<1>7. ASSUME NEW u \in Targets PROVE DirInv(u)'
  <2>1. CASE u # t
      BY <1>1, <1>2, <1>3, <1>4, <2>1 DEF SuiteInv, TypeOK, DirInv, BuildLocal, args
  <2> QED BY <1>2, <2>1
<1>8. ASSUME NEW b \in Boots PROVE HostInv(b)' /\ OriginInv(b)'
    BY <1>2, <1>8 DEF SuiteInv, PhaseInv, HostInv, OriginInv, BuildLocal, args, bootVars
<1> QED BY <1>5, <1>6, <1>7, <1>8 DEF SuiteInv

LEMMA StartBuildInv ==
    ASSUME SuiteInv, NEW t \in Builds, StartBuild(t)
    PROVE  SuiteInv'
<1>1. t \in Targets /\ step[t] = "none" /\ phase = "build"
    BY BuildsAreTargets, BuildStart DEF SuiteInv, StartBuild
<1>2. PICK s \in {"clean", "munge"} : step' = [step EXCEPT ![t] = s]
    BY DEF StartBuild, Goto
<1>3. UNCHANGED <<args, phase, dir, build_result, bootVars, exit_status>>
    BY DEF StartBuild
<1>4. TypeOK'
    BY <1>1, <1>2, <1>3 DEF SuiteInv, TypeOK, BuildSteps, args, bootVars
<1>5. PhaseInv' /\ VerdictInv'
    BY <1>1, <1>3 DEF SuiteInv, PhaseInv, VerdictInv, bootVars
<1>6. ASSUME NEW u \in Targets PROVE DirInv(u)'
    BY <1>1, <1>2, <1>3, <1>6 DEF SuiteInv, TypeOK, DirInv, args
<1>7. ASSUME NEW b \in Boots PROVE HostInv(b)' /\ OriginInv(b)'
    BY <1>1, <1>3, <1>7 DEF SuiteInv, PhaseInv, HostInv, OriginInv, args, bootVars
<1> QED BY <1>4, <1>5, <1>6, <1>7 DEF SuiteInv

LEMMA BuildsDoneInv ==
    ASSUME SuiteInv, BuildsDone
    PROVE  SuiteInv'
<1>1. phase = "build" /\ UNCHANGED <<args, step, dir, bootVars>>
    BY DEF BuildsDone
<1>2. /\ build_result' \in {"TRUE", "FALSE"}
      /\ build_result' = "TRUE" <=> \A t \in Builds : step[t] = "ok"
      /\ \A t \in Builds : JobStatus(step[t]) # "alive"
      /\ continue_on_error => \A t \in Builds : JobStatus(step[t]) # "none"
    BY BuildReturn DEF SuiteInv, BuildsDone
<1>3. \/ /\ build_result' = "TRUE" \/ continue_on_error
         /\ phase' = "boot" /\ exit_status' = exit_status
      \/ build_result' = "FALSE" /\ phase' = "done" /\ exit_status' = "-1"
    BY <1>2 DEF BuildsDone
<1>4. TypeOK'
    BY <1>1, <1>2, <1>3 DEF SuiteInv, TypeOK, args, bootVars
<1>5. phase' = "boot" => BuildsOver
  <2> SUFFICES ASSUME phase' = "boot", NEW t \in Builds
               PROVE  JobStatus(step[t]) \in {"ok", "fail"} /\ (continue_on_error \/ step[t] = "ok")
      BY DEF BuildsOver
  <2>1. step[t] \in BuildSteps
      BY BuildsAreTargets DEF SuiteInv, TypeOK
  <2>2. CASE build_result' = "TRUE"
      BY <1>2, <2>2, StatusOk
  <2>3. CASE continue_on_error
      BY <1>2, <2>1, <2>3, StatusKinds
  <2> QED BY <1>3, <2>2, <2>3
<1>6. PhaseInv'
    BY <1>1, <1>2, <1>3, <1>5 DEF SuiteInv, PhaseInv, BuildsOver, args, bootVars
<1>7. VerdictInv'
    BY <1>1, <1>2 DEF SuiteInv, VerdictInv, bootVars
<1>8. ASSUME NEW t \in Targets PROVE DirInv(t)'
    BY <1>1, <1>8 DEF SuiteInv, DirInv, args
<1>9. ASSUME NEW b \in Boots PROVE HostInv(b)' /\ OriginInv(b)'
    BY <1>1, <1>9 DEF SuiteInv, HostInv, OriginInv, args, bootVars
<1> QED BY <1>4, <1>6, <1>7, <1>8, <1>9 DEF SuiteInv

LEMMA BuildsRaiseInv ==
    ASSUME SuiteInv, BuildsRaise
    PROVE  SuiteInv'
<1>1. phase = "build" /\ UNCHANGED <<args, step, dir, bootVars>>
      /\ phase' = "crashed" /\ exit_status' = "1"
    BY DEF BuildsRaise
<1>2. build_result' = "raised" /\ \A t \in Builds : JobStatus(step[t]) = "none"
    BY BuildAbandon DEF SuiteInv, BuildsRaise
<1>3. TypeOK'
    BY <1>1, <1>2 DEF SuiteInv, TypeOK, args, bootVars
<1>4. PhaseInv' /\ VerdictInv'
    BY <1>1, <1>2 DEF SuiteInv, PhaseInv, VerdictInv, bootVars
<1>5. ASSUME NEW t \in Targets PROVE DirInv(t)'
    BY <1>1, <1>5 DEF SuiteInv, DirInv, args
<1>6. ASSUME NEW b \in Boots PROVE HostInv(b)' /\ OriginInv(b)'
    BY <1>1, <1>6 DEF SuiteInv, HostInv, OriginInv, args, bootVars
<1> QED BY <1>3, <1>4, <1>5, <1>6 DEF SuiteInv

-----------------------------------------------------------------------------
(* During the boots nothing that concerns the builds changes.              *)
LEMMA OverStays ==
    ASSUME SuiteInv, UNCHANGED <<args, step, dir>>
    PROVE  (BuildsOver => BuildsOver') /\ \A t \in Targets : DirInv(t)'
BY DEF SuiteInv, BuildsOver, DirInv, args

LEMMA StartBootInv ==
    ASSUME SuiteInv, NEW b \in Boots, StartBoot(b)
    PROVE  SuiteInv'
<1>1. host_step[b] = "none" /\ phase = "boot" /\ boot_result = "open"
    BY BootStart DEF SuiteInv, StartBoot, BootBatch!BatchStart
<1>2. host_step' = [host_step EXCEPT ![b] = "host"]
    BY DEF StartBoot, HostGoto
<1>3. UNCHANGED <<args, phase, buildVars, booted, test_results, boot_result, exit_status>>
    BY DEF StartBoot
<1>4. TypeOK'
    BY <1>2, <1>3 DEF SuiteInv, TypeOK, HostSteps, args, buildVars
<1>5. \A t \in Targets : DirInv(t)'
    BY <1>3, OverStays DEF buildVars
<1>6. PhaseInv' /\ VerdictInv'
    BY <1>1, <1>3, OverStays DEF SuiteInv, PhaseInv, VerdictInv, buildVars
<1>7. ASSUME NEW c \in Boots PROVE HostInv(c)' /\ OriginInv(c)'
    BY <1>1, <1>2, <1>3, <1>7 DEF SuiteInv, TypeOK, HostInv, OriginInv, args, buildVars
<1> QED BY <1>4, <1>5, <1>6, <1>7 DEF SuiteInv

(* ... and a boot job changes nothing but its own host's variables.        *)
LEMMA BootJobFrame ==
    ASSUME SuiteInv, NEW b \in Boots, BootLocal, host_step[b] \in {"host", "test"},
           NEW s \in HostSteps \ {"none"}, HostGoto(b, s),
           booted' \in [Boots -> {"no", "stale", "fresh"}],
           test_results' \in [Boots -> Seq(BOOLEAN)],
           \A c \in Boots \ {b} : booted'[c] = booted[c] /\ test_results'[c] = test_results[c],
           HostInv(b)', OriginInv(b)'
    PROVE  SuiteInv'
<1>1. UNCHANGED <<args, phase, buildVars, boot_result, exit_status>>
    BY DEF BootLocal
<1>2. host_step' \in [Boots -> HostSteps]
    BY DEF SuiteInv, TypeOK, HostGoto
<1>3. TypeOK'
    BY <1>1, <1>2 DEF SuiteInv, TypeOK, args, buildVars
<1>4. \A t \in Targets : DirInv(t)'
    BY <1>1, OverStays DEF buildVars
<1>5. BuildsOver /\ phase # "build" /\ boot_result # "TRUE"
    BY DEF SuiteInv, PhaseInv, VerdictInv
<1>6. BuildsOver'
    BY <1>1, <1>5, OverStays DEF buildVars
<1>7. PhaseInv' /\ VerdictInv'
    BY <1>1, <1>5, <1>6 DEF SuiteInv, PhaseInv, VerdictInv, buildVars
<1>8. ASSUME NEW c \in Boots PROVE HostInv(c)' /\ OriginInv(c)'
  <2>1. CASE c # b
      BY <1>1, <1>8, <2>1 DEF SuiteInv, TypeOK, HostGoto, HostInv, OriginInv, args, buildVars
  <2> QED BY <2>1
<1> QED BY <1>3, <1>4, <1>7, <1>8 DEF SuiteInv

(* A kernel that is bootable has been built by this run, or left by it.    *)
LEMMA BootableOrigin ==
    ASSUME SuiteInv, BuildsOver, ~dry_run, NEW k \in Targets, HasRelease(dir[k])
    PROVE  IF dir[k].fresh THEN step[k] \in {"ok", "prune_failed"}
           ELSE k \notin Builds \/ step[k] \in {"munge_failed", "clean_failed"}
<1>1. DirInv(k) /\ step[k] \in BuildSteps
    BY DEF SuiteInv, TypeOK
<1>2. CASE k \in Builds
  <2>1. JobStatus(step[k]) \in {"ok", "fail"}
      BY <1>2 DEF BuildsOver
  <2>2. step[k] \in {"ok"} \cup BuildFailures
      BY <1>1, <2>1 DEF JobStatus, BuildSteps
  <2> QED BY <1>1, <2>2 DEF BuildFailures, DirInv, HasRelease, Holds
<1>3. CASE k \notin Builds
    BY <1>1, <1>3 DEF DirInv
<1> QED BY <1>2, <1>3

LEMMA BootHostInv ==
    ASSUME SuiteInv, NEW b \in Boots, BootHost(b)
    PROVE  SuiteInv'
<1> DEFINE k == KernelOf[b]
<1>1. k \in Targets /\ BuildsOver /\ booted[b] = "no" /\ host_step[b] = "host"
    BY KernelsAreTargets DEF SuiteInv, PhaseInv, HostInv, BootHost
<1>2. BootLocal /\ test_results' = test_results
    BY DEF BootHost
<1>3. UNCHANGED <<args, step>>
    BY <1>2 DEF BootLocal, buildVars
<1>4. CASE booted' = booted
  <2>1. PICK s \in {"test", "fail"} :
            HostGoto(b, s) /\ (s = "test" => skip_boot \/ dry_run)
    <3>1. CASE skip_boot /\ HostGoto(b, "test")
        BY <3>1
    <3>2. CASE HostGoto(b, "fail")
        BY <3>2
    <3>3. CASE dry_run /\ HostGoto(b, "test")
        BY <3>3
    <3>4. CASE booted' = [booted EXCEPT ![b] = IF dir[k].fresh THEN "fresh" ELSE "stale"]
        BY <1>1, <1>4, <3>4 DEF SuiteInv, TypeOK
    <3> QED BY <3>1, <3>2, <3>3, <3>4 DEF BootHost
  <2>2. host_step'[b] = s
      BY <2>1 DEF HostGoto, SuiteInv, TypeOK
  <2>3. HostInv(b)' /\ OriginInv(b)'
      BY <1>1, <1>2, <1>3, <1>4, <2>1, <2>2 DEF SuiteInv, HostInv, OriginInv, args
  <2>4. booted' \in [Boots -> {"no", "stale", "fresh"}] /\ test_results' \in [Boots -> Seq(BOOLEAN)]
      BY <1>2, <1>4 DEF SuiteInv, TypeOK
  <2> QED BY <1>1, <1>2, <1>4, <2>1, <2>3, <2>4, BootJobFrame DEF HostSteps
<1>5. CASE booted' # booted
  <2>1. /\ ~skip_boot /\ ~dry_run /\ HasRelease(dir[k]) /\ HostGoto(b, "test")
        /\ booted' = [booted EXCEPT ![b] = IF dir[k].fresh THEN "fresh" ELSE "stale"]
      BY <1>5 DEF BootHost
  <2>2. IF dir[k].fresh THEN step[k] \in {"ok", "prune_failed"}
        ELSE k \notin Builds \/ step[k] \in {"munge_failed", "clean_failed"}
      BY <1>1, <2>1, BootableOrigin
  <2>3. host_step'[b] = "test" /\ booted'[b] = IF dir[k].fresh THEN "fresh" ELSE "stale"
      BY <2>1 DEF HostGoto, SuiteInv, TypeOK
  <2>4. HostInv(b)' /\ OriginInv(b)'
      BY <1>2, <1>3, <2>1, <2>2, <2>3 DEF HostInv, OriginInv, args
  <2>5. /\ booted' \in [Boots -> {"no", "stale", "fresh"}]
        /\ test_results' \in [Boots -> Seq(BOOLEAN)]
        /\ \A c \in Boots \ {b} : booted'[c] = booted[c]
      BY <1>2, <2>1 DEF SuiteInv, TypeOK
  <2> QED BY <1>1, <1>2, <2>1, <2>4, <2>5, BootJobFrame DEF HostSteps
<1> QED BY <1>4, <1>5

LEMMA RunTestInv ==
    ASSUME SuiteInv, NEW b \in Boots, RunTest(b)
    PROVE  SuiteInv'
<1>1. host_step[b] = "test" /\ BootLocal /\ UNCHANGED <<host_step, booted>>
    BY DEF RunTest
<1>2. PICK r \in BOOLEAN : test_results' = [test_results EXCEPT ![b] = Append(@, r)]
    BY DEF RunTest
<1>3. UNCHANGED <<args, step>>
    BY <1>1 DEF BootLocal, buildVars
<1>4. test_results' \in [Boots -> Seq(BOOLEAN)]
      /\ \A c \in Boots \ {b} : test_results'[c] = test_results[c]
    BY <1>2 DEF SuiteInv, TypeOK
<1>5. HostGoto(b, "test") /\ booted' \in [Boots -> {"no", "stale", "fresh"}]
    BY <1>1 DEF HostGoto, SuiteInv, TypeOK
<1>6. HostInv(b)' /\ OriginInv(b)'
    BY <1>1, <1>3 DEF SuiteInv, HostInv, OriginInv, args
<1> QED BY <1>1, <1>4, <1>5, <1>6, BootJobFrame DEF HostSteps

LEMMA TestsDoneInv ==
    ASSUME SuiteInv, NEW b \in Boots, TestsDone(b)
    PROVE  SuiteInv'
<1>1. host_step[b] = "test" /\ BootLocal /\ UNCHANGED <<booted, test_results>>
    BY DEF TestsDone
<1>2. UNCHANGED <<args, step>>
    BY <1>1 DEF BootLocal, buildVars
<1>3. dry_run \/ Len(test_results[b]) = Len(TestsOf[b])
    BY DEF TestsDone
<1>4. PICK s \in {"ok", "fail"} :
          HostGoto(b, s) /\ (s = "ok" => \A i \in DOMAIN test_results[b] : test_results[b][i])
    BY DEF TestsDone
<1>5. booted' \in [Boots -> {"no", "stale", "fresh"}] /\ test_results' \in [Boots -> Seq(BOOLEAN)]
    BY <1>1 DEF SuiteInv, TypeOK
<1>6. host_step'[b] = s
    BY <1>4 DEF HostGoto, SuiteInv, TypeOK
<1>7. s = "ok" => \A i \in DOMAIN test_results[b] : test_results[b][i] = TRUE
    BY Zenon, <1>4 DEF SuiteInv, TypeOK
<1>8. HostInv(b)' /\ OriginInv(b)'
    BY <1>1, <1>2, <1>3, <1>6, <1>7 DEF SuiteInv, HostInv, OriginInv, args
<1> QED BY <1>1, <1>4, <1>5, <1>8, BootJobFrame DEF HostSteps

LEMMA BootsEndInv ==
    ASSUME SuiteInv, BootsDone \/ BootsRaise
    PROVE  SuiteInv'
<1>1. phase = "boot" /\ UNCHANGED <<args, buildVars, host_step, booted, test_results>>
    BY DEF BootsDone, BootsRaise
<1>2. build_result \in {"TRUE", "FALSE"} /\ BuildsOver
    BY <1>1 DEF SuiteInv, PhaseInv
<1>3. /\ boot_result' \in {"TRUE", "FALSE", "raised"}
      /\ boot_result' = "TRUE" => \A b \in Boots : host_step[b] = "ok"
    BY BootReturn DEF SuiteInv, BootsDone, BootsRaise, BootBatch!BatchAbandon
<1>4. \/ phase' = "crashed" /\ exit_status' = "1"
      \/ phase' = "done" /\ exit_status' = IF build_result = "TRUE" THEN "0" ELSE "-1"
    BY DEF BootsDone, BootsRaise
<1>5. TypeOK'
    BY <1>1, <1>3, <1>4 DEF SuiteInv, TypeOK, args, buildVars
<1>6. BuildsOver'  /\ \A t \in Targets : DirInv(t)'
    BY <1>1, <1>2, OverStays DEF buildVars
<1>7. PhaseInv' /\ VerdictInv'
    BY <1>1, <1>2, <1>3, <1>4, <1>6 DEF SuiteInv, PhaseInv, VerdictInv, buildVars
<1>8. ASSUME NEW b \in Boots PROVE HostInv(b)' /\ OriginInv(b)'
    BY <1>1, <1>8 DEF SuiteInv, HostInv, OriginInv, args, buildVars
<1> QED BY <1>5, <1>6, <1>7, <1>8 DEF SuiteInv

LEMMA InitInv == Init => SuiteInv
<1> SUFFICES ASSUME Init PROVE SuiteInv
    OBVIOUS
<1>1. PhaseInv /\ VerdictInv
    BY DEF Init, PhaseInv, VerdictInv
<1>2. ASSUME NEW t \in Targets PROVE DirInv(t)
    BY <1>2 DEF Init, DirInv
<1>3. ASSUME NEW b \in Boots PROVE HostInv(b) /\ OriginInv(b)
    BY <1>3 DEF Init, HostInv, OriginInv
<1> QED BY <1>1, <1>2, <1>3, TypeInit DEF SuiteInv

LEMMA NextInv == SuiteInv /\ [Next]_vars => SuiteInv'
<1> SUFFICES ASSUME SuiteInv, [Next]_vars PROVE SuiteInv'
    OBVIOUS
<1>1. ASSUME NEW t \in Builds, StartBuild(t) PROVE SuiteInv'
    BY <1>1, StartBuildInv
<1>2. ASSUME NEW b \in Boots, StartBoot(b) PROVE SuiteInv'
    BY <1>2, StartBootInv
<1>3. CASE BuildsDone
    BY <1>3, BuildsDoneInv
<1>4. CASE BuildsRaise
    BY <1>4, BuildsRaiseInv
<1>5. CASE BootsDone \/ BootsRaise
    BY <1>5, BootsEndInv
<1>6. ASSUME NEW t \in Builds, BuildJob(t) PROVE SuiteInv'
    BY <1>6, BuildJobInv
<1>7. ASSUME NEW b \in Boots, BootJob(b) PROVE SuiteInv'
    BY <1>7, BootHostInv, RunTestInv, TestsDoneInv DEF BootJob
<1>8. CASE UNCHANGED vars
  <2>1. UNCHANGED <<args, phase, step, dir, build_result, host_step, booted, test_results,
                    boot_result, exit_status>>
      BY <1>8 DEF vars, buildVars, bootVars
  <2>2. TypeOK' /\ PhaseInv' /\ VerdictInv'
      BY <2>1, OverStays DEF SuiteInv, TypeOK, PhaseInv, VerdictInv, args
  <2>3. \A t \in Targets : DirInv(t)'
      BY <2>1, OverStays
  <2>4. ASSUME NEW b \in Boots PROVE HostInv(b)' /\ OriginInv(b)'
      BY <2>1, <2>4 DEF SuiteInv, HostInv, OriginInv, args
  <2> QED BY <2>2, <2>3, <2>4 DEF SuiteInv
<1> QED BY <1>1, <1>2, <1>3, <1>4, <1>5, <1>6, <1>7, <1>8 DEF Next, Driver, Finished

-----------------------------------------------------------------------------
(* What is known of the directories by the steps of the builds, and of the *)
(* hosts by the steps of the boots, holds throughout a run of any suite.   *)
THEOREM SuiteInvHolds == Spec => []SuiteInv
BY InitInv, NextInv, PTL DEF Spec

(* Every variable of a suite run keeps its type.                           *)
THEOREM TypeCorrect == Spec => []TypeOK
<1>1. SuiteInv => TypeOK
    BY DEF SuiteInv
<1> QED BY SuiteInvHolds, <1>1, PTL

(* No boot succeeds from a kernel whose build failed after the clean, and  *)
(* a kernel of an earlier run is booted only where this run left it alone. *)
THEOREM BootedKernelsAccountedHolds == Spec => []BootedKernelsAccounted
<1>1. SuiteInv => BootedKernelsAccounted
    BY DEF SuiteInv, OriginInv, BootedKernelsAccounted
<1> QED BY SuiteInvHolds, <1>1, PTL

(* Boots begin only when no build runs, and after an error only if the     *)
(* suite goes on after errors.                                             *)
THEOREM BootsAfterBuildsHolds == Spec => []BootsAfterBuilds
<1>1. SuiteInv => BootsAfterBuilds
    BY DEF SuiteInv, PhaseInv, BuildsOver, BootsAfterBuilds
<1> QED BY SuiteInvHolds, <1>1, PTL

(* A boot that came up is followed by all of its tests.                    *)
THEOREM AllTestsRunHolds == Spec => []AllTestsRun
<1>1. SuiteInv => AllTestsRun
    BY DEF SuiteInv, HostInv, AllTestsRun
<1> QED BY SuiteInvHolds, <1>1, PTL

(* The exit status of ngci tells whether the builds succeeded.             *)
THEOREM ExitTellsBuildsHolds == Spec => []ExitTellsBuilds
<1>1. SuiteInv => ExitTellsBuilds
    BY DEF SuiteInv, PhaseInv, VerdictInv, ExitTellsBuilds
<1> QED BY SuiteInvHolds, <1>1, PTL

(* A real run that ends with the OK banner built every target afresh,      *)
(* booted every host, with a stale kernel only if its build was filtered   *)
(* out, and saw every test pass.                                           *)
THEOREM OkMeansTestedHolds == Spec => []OkMeansTested
<1>1. ASSUME SuiteInv PROVE OkMeansTested
  <2> SUFFICES ASSUME phase = "done", Banner = "OK", ~dry_run, ~skip_boot
               PROVE  /\ \A t \in Builds : dir[t] = Holds("pruned")
                      /\ \A b \in Boots :
                             /\ \/ booted[b] = "fresh"
                                \/ booted[b] = "stale" /\ KernelOf[b] \notin Builds
                             /\ Len(test_results[b]) = Len(TestsOf[b])
                             /\ \A i \in DOMAIN TestsOf[b] : test_results[b][i]
      BY DEF OkMeansTested
  <2>1. build_result = "TRUE" /\ boot_result = "TRUE"
      BY DEF Banner
  <2>2. /\ \A t \in Builds : step[t] = "ok"
        /\ \A b \in Boots : host_step[b] = "ok"
      BY <1>1, <2>1 DEF SuiteInv, VerdictInv
  <2>3. \A t \in Builds : dir[t] = Holds("pruned")
      BY <1>1, <2>2, BuildsAreTargets DEF SuiteInv, DirInv
  <2>4. ASSUME NEW b \in Boots
        PROVE  /\ \/ booted[b] = "fresh"
                  \/ booted[b] = "stale" /\ KernelOf[b] \notin Builds
               /\ Len(test_results[b]) = Len(TestsOf[b])
               /\ \A i \in DOMAIN TestsOf[b] : test_results[b][i]
    <3>1. HostInv(b) /\ OriginInv(b) /\ booted[b] \in {"no", "stale", "fresh"}
        BY <1>1, <2>4 DEF SuiteInv, TypeOK
    <3>2. \/ booted[b] = "fresh"
          \/ booted[b] = "stale" /\ KernelOf[b] \notin Builds
        BY <2>2, <3>1 DEF HostInv, OriginInv
    <3>3. /\ Len(test_results[b]) = Len(TestsOf[b])
          /\ \A i \in DOMAIN test_results[b] : test_results[b][i] = TRUE
        BY <2>2, <3>1 DEF HostInv
    <3>4. DOMAIN TestsOf[b] = DOMAIN test_results[b]
      <4>1. test_results[b] \in Seq(BOOLEAN) /\ TestsOf[b] \in Seq(Selftests \cup {NoTarget})
          BY <1>1, <2>4, SuiteAssumption DEF SuiteInv, TypeOK
      <4> QED BY <3>3, <4>1, LenProperties
    <3>5. \A i \in DOMAIN TestsOf[b] : test_results[b][i]
        BY Zenon, <3>3, <3>4
    <3> QED BY <3>2, <3>3, <3>5
  <2> QED BY <2>3, <2>4
<1> QED BY SuiteInvHolds, <1>1, PTL

(* Nothing is written to an output directory while hosts boot from it.     *)
THEOREM DirsStableDuringBootsHolds == Spec => DirsStableDuringBoots
<1>1. ASSUME SuiteInv, [Next]_vars PROVE [phase = "boot" => dir' = dir]_vars
  <2> SUFFICES ASSUME phase = "boot", Next PROVE dir' = dir
      BY <1>1 DEF vars, buildVars
  <2>1. ASSUME NEW t \in Builds PROVE ~BuildJob(t)
      BY <1>1, <2>1, BuildsAreTargets, BuildJobStep DEF SuiteInv
  <2>2. ASSUME NEW b \in Boots, BootJob(b) PROVE dir' = dir
      BY <2>2 DEF BootJob, BootHost, RunTest, TestsDone, BootLocal, buildVars
  <2>3. CASE Driver
      BY <2>3 DEF Driver, StartBuild, StartBoot, BuildsDone, BuildsRaise, BootsDone, BootsRaise,
                  buildVars
  <2> QED BY <2>1, <2>2, <2>3 DEF Next, Finished, vars, buildVars
<1> QED BY SuiteInvHolds, <1>1, PTL DEF Spec, DirsStableDuringBoots

-----------------------------------------------------------------------------
(* The two batches of a run are batches: what the jobs do between the calls *)
(* of run_jobs() is what Batch allows.                                     *)
BuildStatus == [t \in Builds |-> JobStatus(step[t])]
BootStatus == [b \in Boots |-> JobStatus(host_step[b])]

LEMMA BuildBatchInit == Init => BuildBatch!BatchInit
<1> SUFFICES ASSUME Init PROVE BuildBatch!BatchInit
    OBVIOUS
<1>1. kwidth \in Int
    BY SuiteAssumption DEF Init
<1>2. continue_on_error \in BOOLEAN
    BY Zenon DEF Init
<1>3. [t \in Builds |-> JobStatus(step[t])] = [t \in Builds |-> "none"]
  <2>1. \A t \in Builds : step[t] = "none"
      BY BuildsAreTargets DEF Init
  <2>2. JobStatus("none") = "none"
      BY DEF JobStatus, BuildFailures
  <2> QED BY <2>1, <2>2
<1> QED BY <1>1, <1>2, <1>3 DEF Init, BuildBatch!BatchInit, BuildBatch!Jobs, Builds

LEMMA BootBatchInit == Init => BootBatch!BatchInit
<1> SUFFICES ASSUME Init PROVE BootBatch!BatchInit
    OBVIOUS
<1>1. bwidth \in Int
    BY SuiteAssumption DEF Init
<1>2. continue_on_error \in BOOLEAN
    BY Zenon DEF Init
<1>3. [b \in Boots |-> JobStatus(host_step[b])] = [b \in Boots |-> "none"]
  <2>1. \A b \in Boots : host_step[b] = "none"
      BY DEF Init
  <2>2. JobStatus("none") = "none"
      BY DEF JobStatus, BuildFailures
  <2> QED BY <2>1, <2>2
<1> QED BY <1>1, <1>2, <1>3 DEF Init, BootBatch!BatchInit, BootBatch!Jobs, Boots

(* A job that is alive stays so or ends. *)
LEMMA BuildJobMapped ==
    ASSUME SuiteInv, NEW t \in Builds, BuildJob(t)
    PROVE  UNCHANGED BuildBatch!batchVars \/ BuildBatch!BatchExit(t)
<1>1. t \in Targets /\ DirInv(t) /\ step \in [Targets -> BuildSteps]
    BY BuildsAreTargets DEF SuiteInv, TypeOK
<1>2. BuildLocal
    BY <1>1, BuildJobStep DEF SuiteInv
<1>3. PICK s \in BuildSteps \ {"none"} : step' = [step EXCEPT ![t] = s]
    BY <1>1, BuildJobStep DEF SuiteInv
<1>4. step[t] \in {"munge", "clean", "make", "prune"}
    BY DEF BuildJob, Munge, DryBuild, Clean, Make, Prune
<1>5. JobStatus(step[t]) = "alive"
    BY <1>4 DEF JobStatus, BuildFailures
<1>6. JobStatus(s) \in {"alive", "ok", "fail"}
    BY <1>3 DEF JobStatus, BuildSteps, BuildFailures
<1>7. BuildStatus' = [BuildStatus EXCEPT ![t] = JobStatus(s)]
  <2>1. \A u \in Builds : step'[u] = IF u = t THEN s ELSE step[u]
      BY <1>1, <1>3, BuildsAreTargets
  <2> QED BY <2>1 DEF BuildStatus
<1>8. kwidth' = kwidth /\ continue_on_error' = continue_on_error /\ build_result' = build_result
    BY <1>2 DEF BuildLocal, args
<1>9. BuildStatus[t] = "alive"
    BY <1>5 DEF BuildStatus
<1>10. CASE JobStatus(s) = "alive"
  <2>1. BuildStatus' = BuildStatus
      BY <1>7, <1>9, <1>10 DEF BuildStatus
  <2> QED BY <1>8, <2>1 DEF BuildBatch!batchVars, BuildStatus
<1>11. CASE JobStatus(s) \in {"ok", "fail"}
    BY <1>7, <1>8, <1>9, <1>11 DEF BuildBatch!BatchExit, BuildStatus
<1> QED BY <1>6, <1>10, <1>11

LEMMA BootJobMapped ==
    ASSUME SuiteInv, NEW b \in Boots, BootJob(b)
    PROVE  UNCHANGED BootBatch!batchVars \/ BootBatch!BatchExit(b)
<1>1. host_step \in [Boots -> HostSteps]
    BY DEF SuiteInv, TypeOK
<1>2. BootLocal /\ host_step[b] \in {"host", "test"}
    BY DEF BootJob, BootHost, RunTest, TestsDone
<1>3. \E s \in {"host", "test", "ok", "fail"} : host_step' = [host_step EXCEPT ![b] = s]
  <2>1. CASE BootHost(b)
      BY <2>1 DEF BootHost, HostGoto
  <2>2. CASE RunTest(b)
    <3>1. host_step' = [host_step EXCEPT ![b] = host_step[b]]
        BY <1>1, <2>2 DEF RunTest
    <3> QED BY <1>2, <3>1
  <2>3. CASE TestsDone(b)
      BY <2>3 DEF TestsDone, HostGoto
  <2> QED BY <2>1, <2>2, <2>3 DEF BootJob
<1>4. PICK s \in {"host", "test", "ok", "fail"} : host_step' = [host_step EXCEPT ![b] = s]
    BY <1>3
<1>5. JobStatus(host_step[b]) = "alive"
    BY <1>2 DEF JobStatus, BuildFailures
<1>6. JobStatus(s) \in {"alive", "ok", "fail"}
    BY <1>4 DEF JobStatus, BuildFailures
<1>7. BootStatus' = [BootStatus EXCEPT ![b] = JobStatus(s)]
  <2>1. \A c \in Boots : host_step'[c] = IF c = b THEN s ELSE host_step[c]
      BY <1>1, <1>4
  <2> QED BY <2>1 DEF BootStatus
<1>8. bwidth' = bwidth /\ continue_on_error' = continue_on_error /\ boot_result' = boot_result
    BY <1>2 DEF BootLocal, args
<1>9. BootStatus[b] = "alive"
    BY <1>5 DEF BootStatus
<1>10. CASE JobStatus(s) = "alive"
  <2>1. BootStatus' = BootStatus
      BY <1>7, <1>9, <1>10 DEF BootStatus
  <2> QED BY <1>8, <2>1 DEF BootBatch!batchVars, BootStatus
<1>11. CASE JobStatus(s) \in {"ok", "fail"}
    BY <1>7, <1>8, <1>9, <1>11 DEF BootBatch!BatchExit, BootStatus
<1> QED BY <1>6, <1>10, <1>11

LEMMA BuildsMapped ==
    SuiteInv /\ [Next]_vars => [BuildBatch!BatchNext]_(BuildBatch!batchVars)
<1> SUFFICES ASSUME SuiteInv, [Next]_vars
             PROVE  BuildBatch!BatchNext \/ UNCHANGED BuildBatch!batchVars
    OBVIOUS
<1>0. BuildBatch!Jobs = Builds
    BY DEF BuildBatch!Jobs, Builds
<1>1. ASSUME NEW t \in Builds, StartBuild(t) PROVE BuildBatch!BatchNext
    BY <1>0, <1>1 DEF StartBuild, BuildBatch!BatchNext
<1>2. CASE BuildsDone
    BY <1>2 DEF BuildsDone, BuildBatch!BatchNext
<1>3. CASE BuildsRaise
    BY <1>3 DEF BuildsRaise, BuildBatch!BatchNext
<1>4. ASSUME NEW t \in Builds, BuildJob(t)
      PROVE  BuildBatch!BatchNext \/ UNCHANGED BuildBatch!batchVars
    BY <1>0, <1>4, BuildJobMapped DEF BuildBatch!BatchNext
<1>5. CASE UNCHANGED <<args, buildVars>>
    BY <1>5 DEF BuildBatch!batchVars, args, buildVars
<1>6. ASSUME NEW b \in Boots, StartBoot(b) \/ BootJob(b) PROVE UNCHANGED <<args, buildVars>>
    BY <1>6 DEF StartBoot, BootJob, BootHost, RunTest, TestsDone, BootLocal
<1>7. BootsDone \/ BootsRaise \/ Finished \/ UNCHANGED vars => UNCHANGED <<args, buildVars>>
    BY DEF BootsDone, BootsRaise, Finished, vars
<1> QED BY <1>1, <1>2, <1>3, <1>4, <1>5, <1>6, <1>7 DEF Next, Driver

LEMMA BootsMapped ==
    SuiteInv /\ [Next]_vars => [BootBatch!BatchNext]_(BootBatch!batchVars)
<1> SUFFICES ASSUME SuiteInv, [Next]_vars
             PROVE  BootBatch!BatchNext \/ UNCHANGED BootBatch!batchVars
    OBVIOUS
<1>0. BootBatch!Jobs = Boots
    BY DEF BootBatch!Jobs, Boots
<1>1. ASSUME NEW b \in Boots, StartBoot(b) PROVE BootBatch!BatchNext
    BY <1>0, <1>1 DEF StartBoot, BootBatch!BatchNext
<1>2. CASE BootsDone
    BY <1>2 DEF BootsDone, BootBatch!BatchNext
<1>3. CASE BootsRaise
    BY <1>3 DEF BootsRaise, BootBatch!BatchNext
<1>4. ASSUME NEW b \in Boots, BootJob(b)
      PROVE  BootBatch!BatchNext \/ UNCHANGED BootBatch!batchVars
    BY <1>0, <1>4, BootJobMapped DEF BootBatch!BatchNext
<1>5. CASE UNCHANGED <<args, bootVars>>
    BY <1>5 DEF BootBatch!batchVars, args, bootVars
<1>6. ASSUME NEW t \in Builds, StartBuild(t) \/ BuildJob(t) PROVE UNCHANGED <<args, bootVars>>
    BY <1>6 DEF StartBuild, BuildJob, Munge, DryBuild, Clean, Make, Prune, BuildLocal
<1>7. BuildsDone \/ BuildsRaise \/ Finished \/ UNCHANGED vars => UNCHANGED <<args, bootVars>>
    BY DEF BuildsDone, BuildsRaise, Finished, vars
<1> QED BY <1>1, <1>2, <1>3, <1>4, <1>5, <1>6, <1>7 DEF Next, Driver

(* What a run makes of its builds is a batch of jobs as run_jobs() runs    *)
(* one: build() passes kfactor and continue_on_error, and uses the verdict *)
(* of a batch that is over.                                                *)
THEOREM BuildsAreABatch == Spec => BuildBatch!BatchSpec
BY BuildBatchInit, BuildsMapped, SuiteInvHolds, PTL DEF Spec, BuildBatch!BatchSpec

(* So is what it makes of its boots, with bfactor, in boot_kernels().      *)
THEOREM BootsAreABatch == Spec => BootBatch!BatchSpec
BY BootBatchInit, BootsMapped, SuiteInvHolds, PTL DEF Spec, BootBatch!BatchSpec
=============================================================================
