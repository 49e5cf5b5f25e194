------------------------------- MODULE Batch -------------------------------
(***************************************************************************)
(* What the job runner of lib/ngci.py promises to build() and              *)
(* boot_kernels(), without saying how it waits: jobs are started at most   *)
(* once and in order, at most `width` of them are alive at a time, and the *)
(* caller gets one verdict when nothing is alive any more.  The verdict is *)
(* TRUE exactly when every job of the batch ran and succeeded; a batch     *)
(* that goes on after errors runs every job.                               *)
(***************************************************************************)
EXTENDS Integers, FiniteSets

CONSTANTS NumJobs      \* length of the list handed to run_jobs()

Jobs == 1..NumJobs

VARIABLES width,       \* how many jobs may be alive at a time
          keepGoing,   \* continue_on_error
          status,      \* per job: "none", "alive", "ok" or "fail"
          verdict      \* "open" until the batch returns TRUE or FALSE

batchVars == <<width, keepGoing, status, verdict>>

InState(s) == {j \in Jobs : status[j] = s}

BatchInit ==
    /\ width \in Int
    /\ keepGoing \in BOOLEAN
    /\ status = [j \in Jobs |-> "none"]
    /\ verdict = "open"

(* Jobs start in list order, and only while a slot is free. *)
BatchStart(j) ==
    /\ verdict = "open"
    /\ status[j] = "none"
    /\ \A i \in 1..(j - 1) : status[i] # "none"
    /\ Cardinality(InState("alive")) < width
    /\ status' = [status EXCEPT ![j] = "alive"]
    /\ UNCHANGED <<width, keepGoing, verdict>>

BatchExit(j) ==
    /\ status[j] = "alive"
    /\ \E s \in {"ok", "fail"} : status' = [status EXCEPT ![j] = s]
    /\ UNCHANGED <<width, keepGoing, verdict>>

(* The next definition with a defect: it does not wait for live jobs. *)
BatchReturnDefect ==
    /\ verdict = "open"
    /\ InState("none") = {}
    /\ verdict' = IF InState("fail") = {} THEN "TRUE" ELSE "FALSE"
    /\ UNCHANGED <<width, keepGoing, status>>

(* Jobs may be left unstarted only after a failure in a batch that stops   *)
(* at the first one.                                                       *)
BatchReturn ==
    /\ verdict = "open"
    /\ InState("alive") = {}
    /\ InState("none") # {} => ~keepGoing /\ InState("fail") # {}
    /\ verdict' = IF InState("ok") = Jobs THEN "TRUE" ELSE "FALSE"
    /\ UNCHANGED <<width, keepGoing, status>>

(* A width below zero can start nothing: the batch is abandoned. *)
BatchAbandon ==
    /\ verdict = "open"
    /\ width < 0
    /\ InState("none") = Jobs
    /\ verdict' = "raised"
    /\ UNCHANGED <<width, keepGoing, status>>

BatchNext ==
    \/ \E j \in Jobs : BatchStart(j) \/ BatchExit(j)
    \/ BatchReturn
    \/ BatchAbandon

BatchSpec == BatchInit /\ [][BatchNext]_batchVars
=============================================================================
