-------------------------- MODULE JobPoolFailFast --------------------------
(***************************************************************************)
(* How late does run_jobs() notice a failure?  The parent looks at one     *)
(* child per round, so after a child has failed it may still start others. *)
(* `late` is a history variable: it counts the jobs started after some     *)
(* child had already exited with a failure.  `firstFail` records that      *)
(* child (0: none).  Neither is read by the program.                       *)
(***************************************************************************)
EXTENDS JobPool

VARIABLES firstFail, late

failFastVars == <<vars, firstFail, late>>

FFInit == Init /\ firstFail = 0 /\ late = 0

FFStart ==
    /\ StartJob
    /\ late' = IF firstFail = 0 THEN late ELSE late + 1
    /\ UNCHANGED firstFail

FFExit(j) ==
    /\ Exit(j)
    /\ firstFail' = IF firstFail = 0 /\ proc'[j] = "fail" THEN j ELSE firstFail
    /\ UNCHANGED late

FFOther ==
    /\ FillDone \/ JoinHead \/ JoinTimeout \/ PopEmpty \/ DrainHead \/ Return
           \/ Finished
    /\ UNCHANGED <<firstFail, late>>

FFNext == FFStart \/ (\E j \in Jobs : FFExit(j)) \/ FFOther

FFSpec == FFInit /\ [][FFNext]_failFastVars

FFFairSpec == FFSpec /\ Fairness

-----------------------------------------------------------------------------
FFTypeOK ==
    /\ TypeOK
    /\ firstFail \in 0..NumJobs
    /\ late \in Nat

(* A batch that stops on error starts fewer jobs after the first failed    *)
(* exit than it has slots: at most factor - 1 builds run in vain.          *)
FewLateStarts ==
    ~continue_on_error /\ factor > 0 => late <= factor - 1

(* Why: every late start stands behind the failed child in `running`, and  *)
(* rotating or joining the head never lets a new job overtake it.  Once    *)
(* the failed child is joined, result is FALSE and no round begins.        *)
LateBehindFailure ==
    ~continue_on_error /\ firstFail # 0 =>
        \/ \E p \in 1..Len(running) :
               running[p] = firstFail /\ late + p <= Len(running)
        \/ ~result /\ pc # "fill" /\ late <= factor - 1

(* With what the history variables mean, the invariant is inductive. *)
FFIndInv ==
    /\ IndInv
    /\ FFTypeOK
    /\ firstFail = 0 => late = 0 /\ \A j \in Jobs : proc[j] # "fail"
    /\ firstFail # 0 => proc[firstFail] = "fail"
    /\ LateBehindFailure
=============================================================================
