------------------------------ MODULE JobPool ------------------------------
(***************************************************************************)
(* lib/ngci.py, class Job and run_jobs(): the "make -j in python" that     *)
(* runs kernel builds (kfactor at a time) and boots (bfactor at a time).   *)
(*                                                                         *)
(* The parent keeps two lists, `jobs` still to start and `running`, and    *)
(* polls only the HEAD of `running`: join(10), and if the child is still   *)
(* alive the head goes to the back.  Children are processes of their own   *)
(* and exit at any moment, in any order, with status 0 or not.             *)
(***************************************************************************)
EXTENDS Integers, Sequences, FiniteSets

CONSTANTS NumJobs,     \* len(jobs) when run_jobs() is called
          Factors,     \* values of the --kfactor/--bfactor argument
          Hung         \* children that may never end

Jobs == 1..NumJobs

ASSUME NumJobsAssumption == NumJobs \in Nat
ASSUME FactorsAssumption == Factors \subseteq Int
ASSUME HungAssumption == Hung \subseteq Jobs

VARIABLES pc,                \* where run_jobs() is
          jobs,              \* jobs not started yet, a list
          running,           \* started and not yet joined, a list
          result,            \* conjunction of the exit statuses joined so far
          n,                 \* number the next job gets
          proc,              \* the child of each job
          factor,            \* the argument, after the test for 0
          continue_on_error

vars == <<pc, jobs, running, result, n, proc, factor, continue_on_error>>
params == <<factor, continue_on_error>>

Status == {"none", "alive", "ok", "fail"}
Exited == {"ok", "fail"}

Elements(s) == {s[i] : i \in 1..Len(s)}
Distinct(s) == \A i, k \in 1..Len(s) : s[i] = s[k] => i = k

-----------------------------------------------------------------------------
(* Definitions named ...Defect are not part of the model: each is the next *)
(* definition with a plausible mistake, which the properties must tell     *)
(* from the code.                                                          *)

(* ... the result forgotten. *)
RoundResultDefect(js, res, coe) == IF js # <<>> THEN "fill" ELSE "drain"

(* The test of the outer while, evaluated before each round. *)
Round(js, res, coe) ==
    IF js # <<>> /\ (res \/ coe) THEN "fill" ELSE "drain"

Init ==
    /\ \E f \in Factors : factor = IF f = 0 THEN NumJobs ELSE f
    /\ continue_on_error \in BOOLEAN
    /\ jobs = [i \in Jobs |-> i]
    /\ running = <<>>
    /\ result = TRUE
    /\ n = 1
    /\ proc = [j \in Jobs |-> "none"]
    /\ pc = Round(jobs, result, continue_on_error)

CanFillDefect == Len(running) <= factor /\ jobs # <<>>

CanFill == Len(running) < factor /\ jobs # <<>>

(* ... jobs.pop() takes the last job. *)
StartJobDefect ==
    /\ pc = "fill"
    /\ CanFill
    /\ LET last == jobs[Len(jobs)]
       IN  /\ proc' = [proc EXCEPT ![last] = "alive"]
           /\ running' = Append(running, last)
    /\ jobs' = SubSeq(jobs, 1, Len(jobs) - 1)
    /\ n' = n + 1
    /\ UNCHANGED <<pc, result, params>>

(* The inner while: pop the head of jobs, fork its child. *)
StartJob ==
    /\ pc = "fill"
    /\ CanFill
    /\ proc' = [proc EXCEPT ![Head(jobs)] = "alive"]
    /\ running' = Append(running, Head(jobs))
    /\ jobs' = Tail(jobs)
    /\ n' = n + 1
    /\ UNCHANGED <<pc, result, params>>

FillDone ==
    /\ pc = "fill"
    /\ ~CanFill
    /\ pc' = "wait"
    /\ UNCHANGED <<jobs, running, result, n, proc, params>>

(* ... only the last job joined counts; the job stays in the list. *)
JoinHeadResultDefect ==
    /\ pc = "wait" /\ running # <<>> /\ proc[Head(running)] \in Exited
    /\ running' = Tail(running)
    /\ result' = (proc[Head(running)] = "ok")
    /\ pc' = Round(jobs, result', continue_on_error)
    /\ UNCHANGED <<jobs, n, proc, params>>

JoinHeadRequeueDefect ==
    /\ pc = "wait" /\ running # <<>> /\ proc[Head(running)] \in Exited
    /\ running' = Append(Tail(running), Head(running))
    /\ result' = (result /\ proc[Head(running)] = "ok")
    /\ pc' = Round(jobs, result', continue_on_error)
    /\ UNCHANGED <<jobs, n, proc, params>>

(* wait_for_one_job(10) when the head has exited by the time exitcode is   *)
(* read.                                                                   *)
JoinHead ==
    /\ pc = "wait"
    /\ running # <<>>
    /\ proc[Head(running)] \in Exited
    /\ running' = Tail(running)
    /\ result' = (result /\ proc[Head(running)] = "ok")
    /\ pc' = Round(jobs, result', continue_on_error)
    /\ UNCHANGED <<jobs, n, proc, params>>

(* ... the head goes back to the front; it is dropped. *)
TimedOut == pc = "wait" /\ running # <<>> /\ proc[Head(running)] = "alive"

JoinTimeoutFrontDefect ==
    /\ TimedOut
    /\ pc' = Round(jobs, result, continue_on_error)
    /\ UNCHANGED <<jobs, running, result, n, proc, params>>

JoinTimeoutDropDefect ==
    /\ TimedOut
    /\ running' = Tail(running)
    /\ pc' = Round(jobs, result, continue_on_error)
    /\ UNCHANGED <<jobs, result, n, proc, params>>

(* ... and when it has not: the head goes to the back, no result. *)
JoinTimeout ==
    /\ pc = "wait"
    /\ running # <<>>
    /\ proc[Head(running)] = "alive"
    /\ running' = Append(Tail(running), Head(running))
    /\ pc' = Round(jobs, result, continue_on_error)
    /\ UNCHANGED <<jobs, result, n, proc, params>>

(* running.pop(0) on an empty list: IndexError leaves run_jobs(). *)
PopEmpty ==
    /\ pc = "wait"
    /\ running = <<>>
    /\ pc' = "raised"
    /\ UNCHANGED <<jobs, running, result, n, proc, params>>

(* The last loop joins without a timeout, so only an exited head moves on. *)
DrainHead ==
    /\ pc = "drain"
    /\ running # <<>>
    /\ proc[Head(running)] \in Exited
    /\ running' = Tail(running)
    /\ result' = (result /\ proc[Head(running)] = "ok")
    /\ UNCHANGED <<pc, jobs, n, proc, params>>

Return ==
    /\ pc = "drain"
    /\ running = <<>>
    /\ pc' = "done"
    /\ UNCHANGED <<jobs, running, result, n, proc, params>>

(* A child ends: sys.exit(0) if its function returned a true value,        *)
(* anything else (False, an exception, a signal) is not 0.                 *)
Exit(j) ==
    /\ proc[j] = "alive"
    /\ \E s \in Exited : proc' = [proc EXCEPT ![j] = s]
    /\ UNCHANGED <<pc, jobs, running, result, n, params>>

Parent == StartJob \/ FillDone \/ JoinHead \/ JoinTimeout \/ PopEmpty
              \/ DrainHead \/ Return

Finished == pc \in {"done", "raised"} /\ UNCHANGED vars

Next == Parent \/ (\E j \in Jobs : Exit(j)) \/ Finished

Spec == Init /\ [][Next]_vars

(* The parent keeps running, and every child that is not hung ends some    *)
(* time: what a boot script waits for has timeouts, a build is a finite    *)
(* make.                                                                   *)
Fairness == WF_vars(Parent) /\ \A j \in Jobs \ Hung : WF_vars(Exit(j))

-----------------------------------------------------------------------------
(* Every variable has its type; the lists hold job numbers. *)
TypeOK ==
    /\ pc \in {"fill", "wait", "drain", "done", "raised"}
    /\ jobs \in Seq(Jobs)
    /\ running \in Seq(Jobs)
    /\ result \in BOOLEAN
    /\ n \in Nat
    /\ proc \in [Jobs -> Status]
    /\ factor \in Int
    /\ continue_on_error \in BOOLEAN

Alive == {j \in Jobs : proc[j] = "alive"}

(* run_jobs() neither loses a job nor starts one twice: the two lists hold *)
(* no duplicates, a job waits in `jobs` exactly until it is started, and a *)
(* live child is always still in `running`, whatever the rotation did.     *)
NoJobLost ==
    /\ n \in 1..(NumJobs + 1)
    /\ Len(jobs) = NumJobs + 1 - n
    /\ \A i \in 1..Len(jobs) : jobs[i] = n + i - 1
    /\ Distinct(running)
    /\ \A j \in Jobs : proc[j] = "none" <=> j >= n
    /\ Alive \subseteq Elements(running)
    /\ Elements(running) \subseteq 1..(n - 1)

(* At no time are more children alive than the factor the user asked for:  *)
(* the machine is never oversubscribed, exited but unjoined jobs included. *)
BoundedConcurrency ==
    factor >= 0 => Cardinality(Alive) <= factor /\ Len(running) <= factor

(* The value returned is TRUE only if every job ran and succeeded, FALSE   *)
(* only if one failed, and a batch that continues on error has run all.    *)
VerdictSound ==
    pc = "done" =>
        /\ Alive = {}
        /\ result <=> \A j \in Jobs : proc[j] = "ok"
        /\ result <=> \A j \in Jobs : proc[j] # "fail"
        /\ continue_on_error => \A j \in Jobs : proc[j] \in Exited

(* running.pop(0) never meets an empty list, unless the factor given on    *)
(* the command line is negative.                                           *)
PopIsSafe == pc = "raised" => factor < 0

(* What makes the properties above inductive.  A failure is either still   *)
(* in `running` or already in `result`; a round begins only with a job to  *)
(* start, so the fill loop leaves `running` empty only for a factor that   *)
(* admits nothing; and the drain loop is entered only with nothing left to *)
(* start, or after an error that stops the batch.                          *)
ResultInv ==
    result <=> \A j \in Jobs : proc[j] = "fail" => j \in Elements(running)

ControlInv ==
    /\ factor >= 0 => Len(running) <= factor
    /\ factor = 0 => NumJobs = 0
    /\ factor < 0 => n = 1
    /\ pc = "fill" =>
           (result \/ continue_on_error) /\ (jobs # <<>> \/ running # <<>>)
    /\ pc = "wait" => running # <<>> \/ factor < 0
    /\ pc \in {"drain", "done"} => jobs = <<>> \/ ~(result \/ continue_on_error)
    /\ pc = "done" => running = <<>>
    /\ pc = "raised" => factor < 0

IndInv == TypeOK /\ NoJobLost /\ ResultInv /\ ControlInv

(* run_jobs() comes back, unless a child that hangs is still there. *)
Terminates == <>[](pc \in {"done", "raised"} \/ \E j \in Hung : proc[j] = "alive")

(* The rotation is there for this: as long as the factor leaves one slot   *)
(* beside the hung children, every other job still runs to its end, in a   *)
(* batch that continues on error.                                          *)
HungJobsDoNotStarve ==
    continue_on_error /\ factor > Cardinality(Hung)
        => \A j \in Jobs \ Hung : <>(proc[j] \in Exited)

-----------------------------------------------------------------------------
(* The abstract batch: what is alive and what was returned. *)
Verdict ==
    CASE pc = "done" -> IF result THEN "TRUE" ELSE "FALSE"
      [] pc = "raised" -> "raised"
      [] OTHER -> "open"

B == INSTANCE Batch WITH width <- factor, keepGoing <- continue_on_error,
                         status <- proc, verdict <- Verdict

(* run_jobs() implements the abstract batch. *)
ImplementsBatch == B!BatchSpec
=============================================================================
