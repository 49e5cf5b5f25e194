--------------------------- MODULE JobPoolProofs ---------------------------
(***************************************************************************)
(* Proofs about run_jobs() for every number of jobs, every factor and both *)
(* values of continue_on_error; the last part is about JobPoolFailFast: a  *)
(* batch that stops on error wastes at most factor - 1 starts.             *)
(***************************************************************************)
EXTENDS JobPoolFailFast, SequenceTheorems, FiniteSetTheorems, TLAPS

-----------------------------------------------------------------------------
(* Facts about the three things done to a list: append at the back, drop   *)
(* the head, move the head to the back.                                    *)

LEMMA AppendElements ==
    ASSUME NEW S, NEW s \in Seq(S), NEW e \in S
    PROVE  Elements(Append(s, e)) = Elements(s) \cup {e}
<1> DEFINE t == Append(s, e)
<1>1. Len(t) = Len(s) + 1 /\ t[Len(s) + 1] = e
          /\ \A i \in 1..Len(s) : t[i] = s[i]
    BY AppendProperties
<1>2. Len(s) \in Nat
    BY LenProperties
<1>3. ASSUME NEW x \in Elements(t) PROVE x \in Elements(s) \cup {e}
  <2>1. PICK i \in 1..Len(t) : x = t[i]
      BY <1>3 DEF Elements
  <2>2. i \in 1..Len(s) \/ i = Len(s) + 1
      BY <2>1, <1>1, <1>2
  <2> QED BY <2>1, <2>2, <1>1 DEF Elements
<1>4. ASSUME NEW x \in Elements(s) \cup {e} PROVE x \in Elements(t)
  <2>1. CASE x = e
      BY <2>1, <1>1, <1>2 DEF Elements
  <2>2. CASE x \in Elements(s)
    <3>1. PICK i \in 1..Len(s) : x = s[i]
        BY <2>2 DEF Elements
    <3>2. i \in 1..Len(t) /\ t[i] = x
        BY <3>1, <1>1, <1>2
    <3> QED BY <3>2 DEF Elements
  <2> QED BY <1>4, <2>1, <2>2
<1> QED BY <1>3, <1>4

LEMMA AppendDistinct ==
    ASSUME NEW S, NEW s \in Seq(S), NEW e \in S,
           Distinct(s), e \notin Elements(s)
    PROVE  Distinct(Append(s, e))
<1> DEFINE t == Append(s, e)
<1>1. Len(t) = Len(s) + 1 /\ t[Len(s) + 1] = e
          /\ \A i \in 1..Len(s) : t[i] = s[i]
    BY AppendProperties
<1>2. Len(s) \in Nat
    BY LenProperties
<1>3. SUFFICES ASSUME NEW i \in 1..Len(t), NEW k \in 1..Len(t), t[i] = t[k]
               PROVE  i = k
    BY DEF Distinct
<1>4. \A m \in 1..Len(t) : m \in 1..Len(s) \/ m = Len(s) + 1
    BY <1>1, <1>2
<1>5. \A m \in 1..Len(s) : s[m] # e
    BY DEF Elements
<1> QED BY <1>1, <1>3, <1>4, <1>5 DEF Distinct

LEMMA TailElements ==
    ASSUME NEW S, NEW s \in Seq(S), s # <<>>
    PROVE  /\ Elements(s) = Elements(Tail(s)) \cup {Head(s)}
           /\ Distinct(s) => Distinct(Tail(s)) /\ Head(s) \notin Elements(Tail(s))
<1> DEFINE t == Tail(s)
<1>1. Len(s) \in Nat \ {0}
    BY EmptySeq
<1>2. Len(t) = Len(s) - 1 /\ \A i \in 1..Len(t) : t[i] = s[i + 1]
    BY HeadTailProperties
<1>3. Head(s) = s[1]
    BY <1>1
<1>4. ASSUME NEW x \in Elements(s) PROVE x \in Elements(t) \cup {Head(s)}
  <2>1. PICK i \in 1..Len(s) : x = s[i]
      BY <1>4 DEF Elements
  <2>2. CASE i = 1
      BY <2>1, <2>2, <1>3
  <2>3. CASE i # 1
    <3>1. i - 1 \in 1..Len(t) /\ t[i - 1] = s[(i - 1) + 1] /\ (i - 1) + 1 = i
        BY <2>3, <1>1, <1>2
    <3> QED BY <2>1, <3>1 DEF Elements
  <2> QED BY <2>2, <2>3
<1>5. ASSUME NEW x \in Elements(t) \cup {Head(s)} PROVE x \in Elements(s)
  <2>1. CASE x = Head(s)
      BY <2>1, <1>1, <1>3 DEF Elements
  <2>2. CASE x \in Elements(t)
    <3>1. PICK i \in 1..Len(t) : x = t[i]
        BY <2>2 DEF Elements
    <3>2. i + 1 \in 1..Len(s) /\ x = s[i + 1]
        BY <3>1, <1>1, <1>2
    <3> QED BY <3>2 DEF Elements
  <2> QED BY <1>5, <2>1, <2>2
<1>6. ASSUME Distinct(s) PROVE Distinct(t) /\ Head(s) \notin Elements(t)
  <2>1. ASSUME NEW i \in 1..Len(t), NEW k \in 1..Len(t), t[i] = t[k]
        PROVE  i = k
    <3>1. i + 1 \in 1..Len(s) /\ k + 1 \in 1..Len(s) /\ s[i + 1] = s[k + 1]
        BY <2>1, <1>1, <1>2
    <3>2. i + 1 = k + 1
        BY <3>1, <1>6 DEF Distinct
    <3> QED BY <3>2, <1>1, <1>2
  <2>2. ASSUME NEW i \in 1..Len(t) PROVE t[i] # Head(s)
    <3>1. i + 1 \in 1..Len(s) /\ 1 \in 1..Len(s) /\ i + 1 # 1
        BY <1>1, <1>2
    <3> QED BY <3>1, <1>2, <1>3, <1>6 DEF Distinct
  <2> QED BY <2>1, <2>2 DEF Distinct, Elements
<1> QED BY <1>4, <1>5, <1>6

LEMMA RotateElements ==
    ASSUME NEW S, NEW s \in Seq(S), s # <<>>
    PROVE  LET t == Append(Tail(s), Head(s))
           IN  /\ t \in Seq(S)
               /\ t # <<>>
               /\ Len(t) = Len(s)
               /\ Elements(t) = Elements(s)
               /\ Distinct(s) => Distinct(t)
<1> DEFINE u == Tail(s)
           h == Head(s)
           t == Append(u, h)
<1>1. h \in S /\ u \in Seq(S) /\ Len(u) = Len(s) - 1
    BY HeadTailProperties
<1>2. Len(s) \in Nat
    BY LenProperties
<1>3. Elements(s) = Elements(u) \cup {h}
          /\ (Distinct(s) => Distinct(u) /\ h \notin Elements(u))
    BY TailElements
<1> HIDE DEF u, h
<1>4. t \in Seq(S) /\ t # <<>> /\ Len(t) = Len(u) + 1
    BY <1>1, AppendProperties
<1>5. Elements(t) = Elements(u) \cup {h}
    BY <1>1, AppendElements
<1>6. Distinct(s) => Distinct(t)
    BY <1>1, <1>3, AppendDistinct
<1>7. Len(t) = Len(s)
    BY <1>1, <1>2, <1>4
<1>8. /\ t \in Seq(S)
      /\ t # <<>>
      /\ Len(t) = Len(s)
      /\ Elements(t) = Elements(s)
      /\ Distinct(s) => Distinct(t)
    BY <1>3, <1>4, <1>5, <1>6, <1>7
<1> QED BY <1>8 DEF t, u, h

(* A list has at least as many places as elements. *)
LEMMA ElementsCardinality ==
    ASSUME NEW S, NEW s \in Seq(S)
    PROVE  /\ IsFiniteSet(Elements(s))
           /\ Cardinality(Elements(s)) <= Len(s)
<1>1. Len(s) \in Nat /\ s \in [1..Len(s) -> S]
    BY LenProperties
<1>2. s \in Surjection(1..Len(s), Elements(s))
    BY <1>1 DEF Surjection, Elements
<1>3. IsFiniteSet(1..Len(s)) /\ Cardinality(1..Len(s)) = Len(s)
    BY <1>1, FS_Interval
<1> QED BY <1>2, <1>3, FS_Surjection

-----------------------------------------------------------------------------
(* The inductive invariant. *)

LEMMA InitIndInv == Init => IndInv
<1> SUFFICES ASSUME Init PROVE IndInv
    OBVIOUS
<1> USE NumJobsAssumption, FactorsAssumption
<1>1. jobs \in Seq(Jobs) /\ Len(jobs) = NumJobs
    BY DEF Init, Jobs
<1>2. running = <<>> /\ running \in Seq(Jobs) /\ Len(running) = 0
    BY EmptySeq DEF Init
<1>3. PICK f \in Factors : factor = IF f = 0 THEN NumJobs ELSE f
    BY DEF Init
<1>4. factor \in Int
    BY <1>3
<1>5. pc \in {"fill", "drain"} /\ (pc = "fill" => jobs # <<>>)
          /\ (pc = "drain" => jobs = <<>>)
    BY DEF Init, Round
<1>6. TypeOK
    BY <1>1, <1>2, <1>4, <1>5 DEF Init, TypeOK, Status
<1>7. NoJobLost
    BY <1>1, <1>2 DEF Init, NoJobLost, Jobs, Distinct, Elements, Alive
<1>8. ResultInv
    BY DEF Init, ResultInv
<1>9. ControlInv
    BY <1>1, <1>2, <1>3, <1>5 DEF Init, ControlInv
<1> QED BY <1>6, <1>7, <1>8, <1>9 DEF IndInv

(* The head of `jobs` is job n: nothing has touched it, and starting it    *)
(* moves the boundary between waiting and started jobs by one.             *)
LEMMA StartJobIndInv == IndInv /\ StartJob => IndInv'
<1> SUFFICES ASSUME IndInv, StartJob PROVE IndInv'
    OBVIOUS
<1> DEFINE h == Head(jobs)
<1>0. TypeOK /\ NoJobLost /\ ResultInv /\ ControlInv /\ NumJobs \in Nat
    BY NumJobsAssumption DEF IndInv
<1>1. /\ jobs # <<>> /\ jobs \in Seq(Jobs) /\ running \in Seq(Jobs)
      /\ Len(jobs) \in Nat \ {0} /\ Len(running) \in Nat
    BY <1>0, EmptySeq, LenProperties DEF StartJob, CanFill, TypeOK
<1>2. h = n /\ h \in Jobs
    BY <1>0, <1>1 DEF NoJobLost, Jobs
<1>3. /\ jobs' \in Seq(Jobs) /\ Len(jobs') = Len(jobs) - 1
      /\ \A i \in 1..Len(jobs') : jobs'[i] = jobs[i + 1]
    BY <1>1, HeadTailProperties DEF StartJob
<1>4. /\ running' \in Seq(Jobs) /\ Len(running') = Len(running) + 1
      /\ running' # <<>>
      /\ Elements(running') = Elements(running) \cup {h}
    BY <1>1, <1>2, AppendProperties, AppendElements DEF StartJob
<1>5. proc[h] = "none" /\ h \notin Elements(running)
    BY <1>0, <1>2 DEF NoJobLost
<1>6. Distinct(running')
    BY <1>0, <1>1, <1>2, <1>5, AppendDistinct DEF StartJob, NoJobLost
<1>7. proc' = [proc EXCEPT ![h] = "alive"] /\ n' = n + 1
          /\ UNCHANGED <<pc, result, factor, continue_on_error>>
    BY DEF StartJob, params
<1>8. Len(running) < factor
    BY DEF StartJob, CanFill
<1> HIDE DEF h
<1>9. TypeOK'
    BY <1>0, <1>2, <1>3, <1>4, <1>7 DEF TypeOK, Status
<1>10. NoJobLost'
  <2>1. n' \in 1..(NumJobs + 1) /\ Len(jobs') = NumJobs + 1 - n'
      BY <1>0, <1>1, <1>3, <1>7 DEF NoJobLost
  <2>2. ASSUME NEW i \in 1..Len(jobs') PROVE jobs'[i] = n' + i - 1
    <3>1. i + 1 \in 1..Len(jobs) /\ jobs'[i] = jobs[i + 1]
        BY <1>1, <1>3
    <3>2. jobs[i + 1] = n + (i + 1) - 1
        BY <3>1, <1>0 DEF NoJobLost
    <3> QED BY <3>1, <3>2, <1>0, <1>7 DEF TypeOK
  <2>3. \A j \in Jobs : proc'[j] = "none" <=> j >= n'
    <3>1. \A j \in Jobs : j # h => proc'[j] = proc[j]
        BY <1>0, <1>7 DEF TypeOK
    <3>2. proc'[h] = "alive"
        BY <1>0, <1>2, <1>7 DEF TypeOK
    <3> QED BY <3>1, <3>2, <1>0, <1>2, <1>7 DEF NoJobLost, TypeOK, Jobs
  <2>4. Alive' \subseteq Elements(running')
      BY <1>0, <1>4, <1>7 DEF Alive, NoJobLost, TypeOK
  <2>5. Elements(running') \subseteq 1..(n' - 1)
      BY <1>0, <1>2, <1>4, <1>7 DEF NoJobLost
  <2> QED BY <2>1, <2>2, <2>3, <2>4, <2>5, <1>6 DEF NoJobLost
<1>11. ResultInv'
  <2>1. \A j \in Jobs : proc'[j] = "fail" <=> proc[j] = "fail"
      BY <1>0, <1>2, <1>5, <1>7 DEF TypeOK
  <2>2. ASSUME NEW j \in Jobs, proc[j] = "fail"
        PROVE  j \in Elements(running') <=> j \in Elements(running)
      BY <2>2, <1>4, <1>5
  <2> QED BY <2>1, <2>2, <1>0, <1>7 DEF ResultInv
<1>12. ControlInv'
  <2>1. pc = "fill" /\ factor \in Int
      BY <1>0 DEF StartJob, TypeOK
  <2>2. factor > 0 /\ Len(running') <= factor
      BY <2>1, <1>1, <1>4, <1>8
  <2> QED BY <1>0, <1>4, <1>7, <2>1, <2>2 DEF ControlInv
<1> QED BY <1>9, <1>10, <1>11, <1>12 DEF IndInv

LEMMA FillDoneIndInv == IndInv /\ FillDone => IndInv'
<1> SUFFICES ASSUME IndInv, FillDone PROVE IndInv'
    OBVIOUS
<1> USE DEF FillDone, params
<1>1. TypeOK' /\ NoJobLost' /\ ResultInv'
    BY DEF IndInv, TypeOK, NoJobLost, ResultInv, Alive
<1>2. running = <<>> => factor < 0
  <2>1. running = <<>> => jobs # <<>> /\ Len(running) = 0
      BY EmptySeq DEF IndInv, ControlInv
  <2>2. running = <<>> => ~(0 < factor)
      BY <2>1 DEF CanFill
  <2>3. jobs # <<>> => NumJobs # 0
    <3>1. jobs # <<>> => Len(jobs) \in Nat \ {0}
        BY EmptySeq DEF IndInv, TypeOK
    <3> QED BY <3>1, NumJobsAssumption DEF IndInv, NoJobLost
  <2> QED BY <2>1, <2>2, <2>3 DEF IndInv, ControlInv, TypeOK
<1>3. ControlInv'
    BY <1>2 DEF IndInv, ControlInv
<1> QED BY <1>1, <1>3 DEF IndInv

(* Joining the head moves its failure from `running` into `result`. *)
LEMMA DropHead ==
    ASSUME IndInv, running # <<>>, proc[Head(running)] \in Exited,
           running' = Tail(running),
           result' = (result /\ proc[Head(running)] = "ok"),
           UNCHANGED <<jobs, n, proc, factor, continue_on_error>>
    PROVE  /\ running' \in Seq(Jobs) /\ Len(running') <= Len(running)
           /\ result' \in BOOLEAN
           /\ NoJobLost' /\ ResultInv'
<1> DEFINE h == Head(running)
<1>0. TypeOK /\ NoJobLost /\ ResultInv
    BY DEF IndInv
<1>1. /\ h \in Jobs /\ running' \in Seq(Jobs)
      /\ Len(running') = Len(running) - 1 /\ Len(running) \in Nat
    BY <1>0, HeadTailProperties, LenProperties DEF TypeOK
<1>2. /\ Elements(running) = Elements(running') \cup {h}
      /\ Distinct(running') /\ h \notin Elements(running')
    BY <1>0, TailElements DEF TypeOK, NoJobLost
<1>3. proc[h] = "ok" \/ proc[h] = "fail"
    BY DEF Exited
<1>4. Alive' \subseteq Elements(running')
    BY <1>0, <1>2, <1>3 DEF NoJobLost, Alive
<1>5. NoJobLost'
    BY <1>0, <1>2, <1>4 DEF NoJobLost
<1>6. ResultInv'
    BY <1>0, <1>1, <1>2, <1>3 DEF ResultInv
<1> QED BY <1>0, <1>1, <1>5, <1>6 DEF TypeOK

LEMMA JoinHeadIndInv == IndInv /\ JoinHead => IndInv'
<1> SUFFICES ASSUME IndInv, JoinHead PROVE IndInv'
    OBVIOUS
<1>1. /\ running' \in Seq(Jobs) /\ Len(running') <= Len(running)
      /\ result' \in BOOLEAN /\ NoJobLost' /\ ResultInv'
    BY DropHead DEF JoinHead, params
<1>2. pc' = Round(jobs, result', continue_on_error)
          /\ UNCHANGED <<jobs, n, proc, factor, continue_on_error>>
    BY DEF JoinHead, params
<1>3. TypeOK'
    BY <1>1, <1>2 DEF IndInv, TypeOK, Round
<1>4. ControlInv'
  <2>1. Len(running) \in Nat /\ Len(running') \in Nat
      BY <1>1, LenProperties DEF IndInv, TypeOK
  <2> QED BY <1>1, <1>2, <2>1 DEF IndInv, ControlInv, Round, TypeOK
<1> QED BY <1>1, <1>3, <1>4 DEF IndInv

LEMMA JoinTimeoutIndInv == IndInv /\ JoinTimeout => IndInv'
<1> SUFFICES ASSUME IndInv, JoinTimeout PROVE IndInv'
    OBVIOUS
<1>1. /\ running' \in Seq(Jobs) /\ running' # <<>>
      /\ Len(running') = Len(running)
      /\ Elements(running') = Elements(running)
      /\ Distinct(running')
    BY RotateElements DEF JoinTimeout, IndInv, TypeOK, NoJobLost
<1>2. pc' = Round(jobs, result, continue_on_error)
          /\ UNCHANGED <<jobs, result, n, proc, factor, continue_on_error>>
    BY DEF JoinTimeout, params
<1>3. TypeOK'
    BY <1>1, <1>2 DEF IndInv, TypeOK, Round
<1>4. NoJobLost' /\ ResultInv'
    BY <1>1, <1>2 DEF IndInv, NoJobLost, ResultInv, Alive
<1>5. ControlInv'
    BY <1>1, <1>2 DEF IndInv, ControlInv, Round
<1> QED BY <1>3, <1>4, <1>5 DEF IndInv

LEMMA PopEmptyIndInv == IndInv /\ PopEmpty => IndInv'
BY DEF PopEmpty, params, IndInv, TypeOK, NoJobLost, ResultInv, ControlInv, Alive

LEMMA DrainHeadIndInv == IndInv /\ DrainHead => IndInv'
<1> SUFFICES ASSUME IndInv, DrainHead PROVE IndInv'
    OBVIOUS
<1>1. /\ running' \in Seq(Jobs) /\ Len(running') <= Len(running)
      /\ result' \in BOOLEAN /\ NoJobLost' /\ ResultInv'
    BY DropHead DEF DrainHead, params
<1>2. pc = "drain" /\ (result' => result)
          /\ UNCHANGED <<pc, jobs, n, proc, factor, continue_on_error>>
    BY DEF DrainHead, params
<1>3. TypeOK'
    BY <1>1, <1>2 DEF IndInv, TypeOK
<1>4. ControlInv'
  <2>1. Len(running) \in Nat /\ Len(running') \in Nat
      BY <1>1, LenProperties DEF IndInv, TypeOK
  <2> QED BY <1>1, <1>2, <2>1 DEF IndInv, ControlInv, TypeOK
<1> QED BY <1>1, <1>3, <1>4 DEF IndInv

LEMMA ReturnIndInv == IndInv /\ Return => IndInv'
BY DEF Return, params, IndInv, TypeOK, NoJobLost, ResultInv, ControlInv, Alive

(* A child that fails is still in `running`: the verdict is not yet false. *)
LEMMA ExitIndInv == ASSUME NEW j \in Jobs PROVE IndInv /\ Exit(j) => IndInv'
<1> SUFFICES ASSUME IndInv, Exit(j) PROVE IndInv'
    OBVIOUS
<1>1. PICK s \in Exited : proc' = [proc EXCEPT ![j] = s]
    BY DEF Exit
<1>2. proc[j] = "alive" /\ j \in Elements(running)
          /\ UNCHANGED <<pc, jobs, running, result, n, factor, continue_on_error>>
    BY DEF Exit, params, IndInv, NoJobLost, Alive
<1>3. /\ proc'[j] = s /\ s # "none" /\ s # "alive"
      /\ \A k \in Jobs : k # j => proc'[k] = proc[k]
    BY <1>1 DEF IndInv, TypeOK, Exited
<1>4. TypeOK'
    BY <1>1, <1>2 DEF IndInv, TypeOK, Status, Exited
<1>5. NoJobLost'
  <2>1. \A k \in Jobs : proc'[k] = "none" <=> proc[k] = "none"
      BY <1>2, <1>3
  <2>2. Alive' \subseteq Alive
      BY <1>3 DEF Alive
  <2> QED BY <1>2, <2>1, <2>2 DEF IndInv, NoJobLost
<1>6. ResultInv'
    BY <1>2, <1>3 DEF IndInv, ResultInv
<1>7. ControlInv'
    BY <1>2 DEF IndInv, ControlInv
<1> QED BY <1>4, <1>5, <1>6, <1>7 DEF IndInv

LEMMA NextIndInv == IndInv /\ [Next]_vars => IndInv'
<1> SUFFICES ASSUME IndInv, [Next]_vars PROVE IndInv'
    OBVIOUS
<1>1. CASE StartJob
    BY <1>1, StartJobIndInv
<1>2. CASE FillDone
    BY <1>2, FillDoneIndInv
<1>3. CASE JoinHead
    BY <1>3, JoinHeadIndInv
<1>4. CASE JoinTimeout
    BY <1>4, JoinTimeoutIndInv
<1>5. CASE PopEmpty
    BY <1>5, PopEmptyIndInv
<1>6. CASE DrainHead
    BY <1>6, DrainHeadIndInv
<1>7. CASE Return
    BY <1>7, ReturnIndInv
<1>8. CASE \E j \in Jobs : Exit(j)
    BY <1>8, ExitIndInv
<1>9. CASE Finished \/ UNCHANGED vars
    BY <1>9 DEF Finished, vars, IndInv, TypeOK, NoJobLost, ResultInv,
                ControlInv, Alive
<1> QED BY <1>1, <1>2, <1>3, <1>4, <1>5, <1>6, <1>7, <1>8, <1>9 DEF Next, Parent

(* The invariant of run_jobs() holds in every reachable state. *)
THEOREM IndInvHolds == Spec => []IndInv
BY InitIndInv, NextIndInv, PTL DEF Spec

-----------------------------------------------------------------------------
(* What the runs check on four jobs, for any number of them. *)

(* Every variable keeps its type. *)
THEOREM TypeCorrect == Spec => []TypeOK
BY IndInvHolds, PTL DEF IndInv

(* run_jobs() neither loses a job nor starts one twice. *)
THEOREM JobsConserved == Spec => []NoJobLost
<1>1. IndInv => NoJobLost
    BY DEF IndInv
<1> QED BY <1>1, IndInvHolds, PTL

(* No more children are alive than the factor allows. *)
THEOREM ConcurrencyBounded == Spec => []BoundedConcurrency
<1>1. IndInv => BoundedConcurrency
  <2> SUFFICES ASSUME IndInv, factor >= 0
               PROVE  Cardinality(Alive) <= factor /\ Len(running) <= factor
      BY DEF BoundedConcurrency
  <2>1. running \in Seq(Jobs) /\ Len(running) \in Nat /\ factor \in Int
      BY LenProperties DEF IndInv, TypeOK
  <2>2. IsFiniteSet(Elements(running))
            /\ Cardinality(Elements(running)) <= Len(running)
      BY <2>1, ElementsCardinality
  <2>3. Alive \in SUBSET Elements(running)
      BY DEF IndInv, NoJobLost
  <2>4. IsFiniteSet(Alive) /\ Cardinality(Alive) <= Cardinality(Elements(running))
      BY <2>2, <2>3, FS_Subset
  <2>5. Cardinality(Alive) \in Nat /\ Cardinality(Elements(running)) \in Nat
      BY <2>2, <2>4, FS_CardinalityType
  <2>6. Len(running) <= factor
      BY DEF IndInv, ControlInv
  <2> QED BY <2>1, <2>2, <2>4, <2>5, <2>6
<1> QED BY <1>1, IndInvHolds, PTL

(* The returned value is the conjunction of the exit statuses of all jobs. *)
THEOREM VerdictIsSound == Spec => []VerdictSound
<1>1. IndInv => VerdictSound
  <2> SUFFICES ASSUME IndInv, pc = "done"
               PROVE  /\ Alive = {}
                      /\ result <=> \A j \in Jobs : proc[j] = "ok"
                      /\ result <=> \A j \in Jobs : proc[j] # "fail"
                      /\ continue_on_error => \A j \in Jobs : proc[j] \in Exited
      BY DEF VerdictSound
  <2>1. running = <<>> /\ Elements(running) = {}
      BY EmptySeq DEF IndInv, ControlInv, Elements
  <2>2. Alive = {}
      BY <2>1 DEF IndInv, NoJobLost
  <2>3. result <=> \A j \in Jobs : proc[j] # "fail"
      BY <2>1 DEF IndInv, ResultInv
  <2>4. ASSUME result \/ continue_on_error
        PROVE  \A j \in Jobs : proc[j] \in Exited
    <3>1. jobs = <<>> /\ Len(jobs) = 0
        BY <2>4, EmptySeq DEF IndInv, ControlInv
    <3>2. n = NumJobs + 1
        BY <3>1, NumJobsAssumption DEF IndInv, NoJobLost
    <3>3. \A j \in Jobs : proc[j] # "none"
        BY <3>2, NumJobsAssumption DEF IndInv, NoJobLost, Jobs
    <3> QED BY <3>3, <2>2 DEF IndInv, TypeOK, Status, Exited, Alive
  <2>5. result <=> \A j \in Jobs : proc[j] = "ok"
      BY <2>3, <2>4 DEF Exited, IndInv, TypeOK
  <2> QED BY <2>2, <2>3, <2>4, <2>5
<1> QED BY <1>1, IndInvHolds, PTL

(* running.pop(0) is never asked of an empty list, negative factors apart. *)
THEOREM PopNeverUnderflows == Spec => []PopIsSafe
<1>1. IndInv => PopIsSafe
    BY DEF IndInv, ControlInv, PopIsSafe
<1> QED BY <1>1, IndInvHolds, PTL

-----------------------------------------------------------------------------
(* run_jobs() implements the abstract batch. *)

LEMMA InitMapped == Init => B!BatchInit
<1> SUFFICES ASSUME Init PROVE B!BatchInit
    OBVIOUS
<1>1. IndInv
    BY InitIndInv
<1>2. Verdict = "open"
    BY DEF Init, Round, Verdict
<1> QED BY <1>1, <1>2 DEF Init, IndInv, TypeOK, B!BatchInit, B!Jobs, Jobs

(* While the fill loop has room, so has the abstract batch. *)
LEMMA StartMapped == IndInv /\ StartJob => \E j \in Jobs : B!BatchStart(j)
<1> SUFFICES ASSUME IndInv, StartJob PROVE \E j \in Jobs : B!BatchStart(j)
    OBVIOUS
<1>1. /\ Len(jobs) \in Nat \ {0} /\ Len(running) \in Nat
      /\ running \in Seq(Jobs)
    BY EmptySeq, LenProperties DEF IndInv, TypeOK, StartJob, CanFill
<1>2. Head(jobs) = n /\ n \in Jobs /\ NumJobs \in Nat
    BY <1>1, NumJobsAssumption DEF IndInv, NoJobLost, Jobs
<1>3. Verdict = "open" /\ Verdict' = "open"
    BY DEF StartJob, Verdict
<1>4. proc[n] = "none" /\ \A i \in 1..(n - 1) : proc[i] # "none"
    BY <1>2 DEF IndInv, NoJobLost, Jobs
<1>5. Cardinality(Alive) < factor
  <2>1. IsFiniteSet(Elements(running))
            /\ Cardinality(Elements(running)) <= Len(running)
      BY <1>1, ElementsCardinality
  <2>2. Alive \in SUBSET Elements(running)
      BY DEF IndInv, NoJobLost
  <2>3. IsFiniteSet(Alive) /\ Cardinality(Alive) <= Cardinality(Elements(running))
      BY <2>1, <2>2, FS_Subset
  <2>4. Cardinality(Alive) \in Nat /\ Cardinality(Elements(running)) \in Nat
      BY <2>1, <2>3, FS_CardinalityType
  <2>5. Len(running) < factor /\ factor \in Int
      BY DEF StartJob, CanFill, IndInv, TypeOK
  <2> QED BY <1>1, <2>1, <2>3, <2>4, <2>5
<1>6. B!Cardinality(B!InState("alive")) = Cardinality(Alive)
  <2>1. B!InState("alive") = Alive
      BY DEF B!InState, B!Jobs, Jobs, Alive
  <2> HIDE DEF Alive
  <2> QED BY <2>1, Zenon DEF B!Cardinality, Cardinality
<1>7. B!BatchStart(n)
    BY <1>2, <1>3, <1>4, <1>5, <1>6 DEF B!BatchStart, StartJob, params
<1> QED BY <1>2, <1>7

LEMMA ExitMapped ==
    ASSUME NEW j \in Jobs PROVE IndInv /\ Exit(j) => B!BatchExit(j)
<1> SUFFICES ASSUME Exit(j) PROVE B!BatchExit(j)
    OBVIOUS
<1>1. Verdict' = Verdict
    BY DEF Exit, Verdict
<1> QED BY <1>1 DEF Exit, Exited, params, B!BatchExit

LEMMA ReturnMapped == IndInv /\ Return => B!BatchReturn
<1> SUFFICES ASSUME IndInv, Return PROVE B!BatchReturn
    OBVIOUS
<1>1. running = <<>> /\ Elements(running) = {}
    BY EmptySeq DEF Return, Elements
<1>2. Alive = {}
    BY <1>1 DEF IndInv, NoJobLost
<1>3. result <=> \A j \in Jobs : proc[j] # "fail"
    BY <1>1 DEF IndInv, ResultInv
<1>4. ASSUME result \/ continue_on_error
      PROVE  \A j \in Jobs : proc[j] # "none"
  <2>1. jobs = <<>> /\ Len(jobs) = 0
      BY <1>4, EmptySeq DEF IndInv, ControlInv, Return
  <2>2. n = NumJobs + 1
      BY <2>1, NumJobsAssumption DEF IndInv, NoJobLost
  <2> QED BY <2>2, NumJobsAssumption DEF IndInv, NoJobLost, Jobs
<1>5. \A j \in Jobs : proc[j] \in {"none", "ok", "fail"}
    BY <1>2 DEF IndInv, TypeOK, Status, Alive
<1>6. result <=> {j \in Jobs : proc[j] = "ok"} = Jobs
    BY <1>3, <1>4, <1>5
<1>7. {j \in Jobs : proc[j] = "none"} # {} =>
          ~continue_on_error /\ {j \in Jobs : proc[j] = "fail"} # {}
    BY <1>3, <1>4
<1>8. Verdict = "open" /\ Verdict' = IF result THEN "TRUE" ELSE "FALSE"
    BY DEF Return, Verdict
<1> QED BY <1>2, <1>6, <1>7, <1>8
        DEF Return, params, Alive, B!BatchReturn, B!InState, B!Jobs, Jobs

LEMMA PopEmptyMapped == IndInv /\ PopEmpty => B!BatchAbandon
<1> SUFFICES ASSUME IndInv, PopEmpty PROVE B!BatchAbandon
    OBVIOUS
<1>1. factor < 0 /\ n = 1
    BY DEF IndInv, ControlInv, PopEmpty
<1>2. \A j \in Jobs : proc[j] = "none"
    BY <1>1 DEF IndInv, NoJobLost, Jobs
<1>3. Verdict = "open" /\ Verdict' = "raised"
    BY DEF PopEmpty, Verdict
<1> QED BY <1>1, <1>2, <1>3
        DEF PopEmpty, params, B!BatchAbandon, B!InState, B!Jobs, Jobs

LEMMA NextMapped == IndInv /\ [Next]_vars => [B!BatchNext]_(B!batchVars)
<1> SUFFICES ASSUME IndInv, [Next]_vars PROVE [B!BatchNext]_(B!batchVars)
    OBVIOUS
<1> USE DEF B!batchVars
<1>1. CASE StartJob
    BY <1>1, StartMapped DEF B!BatchNext, B!Jobs, Jobs
<1>2. CASE \E j \in Jobs : Exit(j)
    BY <1>2, ExitMapped DEF B!BatchNext, B!Jobs, Jobs
<1>3. CASE Return
    BY <1>3, ReturnMapped DEF B!BatchNext
<1>4. CASE PopEmpty
    BY <1>4, PopEmptyMapped DEF B!BatchNext
<1>5. CASE FillDone
    BY <1>5 DEF FillDone, Verdict, params
<1>6. CASE JoinHead
    BY <1>6 DEF JoinHead, Round, Verdict, params
<1>7. CASE JoinTimeout
    BY <1>7 DEF JoinTimeout, Round, Verdict, params
<1>8. CASE DrainHead
    BY <1>8 DEF DrainHead, Verdict, params
<1>9. CASE Finished \/ UNCHANGED vars
    BY <1>9 DEF Finished, vars, Verdict
<1> QED BY <1>1, <1>2, <1>3, <1>4, <1>5, <1>6, <1>7, <1>8, <1>9 DEF Next, Parent

(* What build() and boot_kernels() may assume of run_jobs(). *)
THEOREM PoolImplementsBatch == Spec => ImplementsBatch
BY InitMapped, NextMapped, IndInvHolds, PTL DEF Spec, ImplementsBatch, B!BatchSpec

-----------------------------------------------------------------------------
(* Late starts, JobPoolFailFast. *)

LEMMA FFInitInv == FFInit => FFIndInv
<1> SUFFICES ASSUME FFInit PROVE FFIndInv
    OBVIOUS
<1>1. IndInv
    BY InitIndInv DEF FFInit
<1> QED BY <1>1, NumJobsAssumption
        DEF FFInit, Init, IndInv, FFIndInv, FFTypeOK, LateBehindFailure

LEMMA FFNextIndInv == FFIndInv /\ [FFNext]_failFastVars => IndInv'
BY NextIndInv DEF FFIndInv, FFNext, failFastVars, FFStart, FFExit, FFOther,
                  Next, Parent, vars

(* Of the conjuncts, only the last is disturbed by a start. *)
LEMMA FFStartInv == FFIndInv /\ FFStart => FFIndInv'
<1> SUFFICES ASSUME FFIndInv, FFStart PROVE FFIndInv'
    OBVIOUS
<1> DEFINE h == Head(jobs)
<1>1. IndInv /\ StartJob /\ IndInv'
    BY StartJobIndInv DEF FFIndInv, FFStart
<1>2. /\ jobs # <<>> /\ jobs \in Seq(Jobs) /\ running \in Seq(Jobs)
      /\ Len(jobs) \in Nat \ {0} /\ Len(running) \in Nat
    BY <1>1, EmptySeq, LenProperties DEF StartJob, CanFill, IndInv, TypeOK
<1>3. h = n /\ h \in Jobs /\ proc[h] = "none"
  <2>1. h = n /\ h \in Jobs
      BY <1>1, <1>2, NumJobsAssumption DEF IndInv, NoJobLost, Jobs
  <2> QED BY <2>1, <1>1 DEF IndInv, NoJobLost
<1>4. /\ Len(running') = Len(running) + 1
      /\ \A i \in 1..Len(running) : running'[i] = running[i]
    BY <1>2, <1>3, AppendProperties, <1>1 DEF StartJob
<1>5. /\ proc' = [proc EXCEPT ![h] = "alive"]
      /\ UNCHANGED <<pc, result, factor, continue_on_error, firstFail>>
    BY <1>1 DEF StartJob, params, FFStart
<1>6. late' = IF firstFail = 0 THEN late ELSE late + 1
    BY DEF FFStart
<1> HIDE DEF h
<1>7. FFTypeOK'
    BY <1>1, <1>5, <1>6 DEF FFIndInv, FFTypeOK, IndInv
<1>8. (firstFail = 0 => late = 0 /\ \A j \in Jobs : proc[j] # "fail")'
    BY <1>1, <1>3, <1>5, <1>6 DEF FFIndInv, IndInv, TypeOK
<1>9. (firstFail # 0 => proc[firstFail] = "fail")'
    BY <1>1, <1>3, <1>5 DEF FFIndInv, IndInv, TypeOK
<1>10. LateBehindFailure'
  <2> SUFFICES ASSUME ~continue_on_error, firstFail # 0
               PROVE  \E p \in 1..Len(running') :
                          running'[p] = firstFail /\ late' + p <= Len(running')
      BY <1>5 DEF LateBehindFailure
  <2>1. pc = "fill"
      BY <1>1 DEF StartJob
  <2>2. PICK p \in 1..Len(running) :
            running[p] = firstFail /\ late + p <= Len(running)
      BY <2>1 DEF FFIndInv, LateBehindFailure
  <2>3. /\ p \in 1..Len(running') /\ running'[p] = firstFail
        /\ late' + p <= Len(running')
      BY <2>2, <1>2, <1>4, <1>6 DEF FFIndInv, FFTypeOK
  <2> QED BY <2>3
<1> QED BY <1>1, <1>7, <1>8, <1>9, <1>10 DEF FFIndInv

(* The first failure starts the count; its child is still in `running`. *)
LEMMA FFExitInv == ASSUME NEW j \in Jobs PROVE FFIndInv /\ FFExit(j) => FFIndInv'
<1> SUFFICES ASSUME FFIndInv, FFExit(j) PROVE FFIndInv'
    OBVIOUS
<1>1. IndInv /\ Exit(j) /\ IndInv'
    BY ExitIndInv DEF FFIndInv, FFExit
<1>2. PICK s \in Exited : proc' = [proc EXCEPT ![j] = s]
    BY <1>1 DEF Exit
<1>3. /\ proc[j] = "alive" /\ j \in Elements(running) /\ proc'[j] = s
      /\ s = "ok" \/ s = "fail"
      /\ \A k \in Jobs : k # j => proc'[k] = proc[k]
      /\ UNCHANGED <<pc, running, result, factor, continue_on_error, late>>
    BY <1>1, <1>2 DEF Exit, params, FFExit, IndInv, NoJobLost, Alive, TypeOK, Exited
<1>4. firstFail' = IF firstFail = 0 /\ s = "fail" THEN j ELSE firstFail
    BY <1>3 DEF FFExit
<1>5. j # 0 /\ j \in 0..NumJobs /\ NumJobs \in Nat
    BY NumJobsAssumption DEF Jobs
<1>6. FFTypeOK'
    BY <1>1, <1>3, <1>4, <1>5 DEF FFIndInv, FFTypeOK, IndInv
<1>7. (firstFail = 0 => late = 0 /\ \A k \in Jobs : proc[k] # "fail")'
    BY <1>3, <1>4, <1>5 DEF FFIndInv
<1>8. (firstFail # 0 => proc[firstFail] = "fail")'
    BY <1>3, <1>4, <1>5 DEF FFIndInv, FFTypeOK, Jobs
<1>9. LateBehindFailure'
  <2>1. CASE firstFail # 0
      BY <2>1, <1>3, <1>4 DEF FFIndInv, LateBehindFailure
  <2>2. CASE firstFail = 0 /\ s = "fail"
    <3>1. PICK p \in 1..Len(running) : running[p] = j
        BY <1>3 DEF Elements
    <3>2. Len(running) \in Nat /\ late = 0
        BY <2>2, LenProperties DEF FFIndInv, IndInv, TypeOK
    <3>3. late' + p <= Len(running')
        BY <3>1, <3>2, <1>3
    <3> QED BY <3>1, <3>3, <2>2, <1>3, <1>4 DEF LateBehindFailure
  <2>3. CASE firstFail = 0 /\ s # "fail"
      BY <2>3, <1>4 DEF LateBehindFailure
  <2> QED BY <2>1, <2>2, <2>3
<1> QED BY <1>1, <1>6, <1>7, <1>8, <1>9 DEF FFIndInv

(* Joining the head either shifts the failed child one place forward, with *)
(* everything behind it, or joins it: then the batch is over.              *)
LEMMA FFDropHead ==
    ASSUME FFIndInv, running # <<>>, running' = Tail(running),
           result' = (result /\ proc[Head(running)] = "ok"),
           ~result' /\ ~continue_on_error => pc' # "fill",
           pc # "fill",
           UNCHANGED <<proc, factor, continue_on_error, firstFail, late>>
    PROVE  LateBehindFailure'
<1> SUFFICES ASSUME ~continue_on_error, firstFail # 0
             PROVE  \/ \E p \in 1..Len(running') :
                          running'[p] = firstFail /\ late + p <= Len(running')
                    \/ ~result' /\ pc' # "fill" /\ late <= factor - 1
    BY DEF LateBehindFailure
<1>1. /\ Len(running) \in Nat \ {0} /\ Len(running') = Len(running) - 1
      /\ \A i \in 1..Len(running') : running'[i] = running[i + 1]
      /\ late \in Nat /\ factor \in Int /\ result \in BOOLEAN
    BY EmptySeq, HeadTailProperties DEF FFIndInv, FFTypeOK, IndInv, TypeOK
<1>2. CASE ~result /\ late <= factor - 1
    BY <1>2
<1>3. CASE \E p \in 1..Len(running) :
               running[p] = firstFail /\ late + p <= Len(running)
  <2>1. PICK p \in 1..Len(running) :
            running[p] = firstFail /\ late + p <= Len(running)
      BY <1>3
  <2>2. CASE p = 1
    <3>1. Head(running) = firstFail
        BY <2>1, <2>2, <1>1 DEF FFIndInv, IndInv, TypeOK
    <3>2. ~result'
        BY <3>1 DEF FFIndInv
    <3>3. factor >= 0 => Len(running) <= factor
        BY DEF FFIndInv, IndInv, ControlInv
    <3>4. factor >= 0
      <4>1. factor < 0 => n = 1 /\ \A j \in Jobs : proc[j] = "none"
          BY DEF FFIndInv, IndInv, ControlInv, NoJobLost, Jobs
      <4>2. firstFail \in Jobs /\ proc[firstFail] = "fail"
          BY NumJobsAssumption DEF FFIndInv, FFTypeOK, Jobs
      <4> QED BY <4>1, <4>2, <1>1
    <3> QED BY <3>2, <3>3, <3>4, <2>1, <2>2, <1>1
  <2>3. CASE p # 1
    <3>1. /\ p - 1 \in 1..Len(running') /\ running'[p - 1] = running[(p - 1) + 1]
          /\ (p - 1) + 1 = p /\ late + (p - 1) <= Len(running')
        BY <2>1, <2>3, <1>1
    <3> QED BY <3>1, <2>1
  <2> QED BY <2>2, <2>3
<1> QED BY <1>2, <1>3 DEF FFIndInv, LateBehindFailure

(* Only a live child goes to the back, so never the failed one. *)
LEMMA FFTimeout ==
    ASSUME FFIndInv, JoinTimeout, UNCHANGED <<firstFail, late>>
    PROVE  LateBehindFailure'
<1> DEFINE u == Tail(running)
<1>1. /\ running # <<>> /\ proc[Head(running)] = "alive"
      /\ running' = Append(u, Head(running))
      /\ pc' = Round(jobs, result, continue_on_error)
      /\ UNCHANGED <<result, proc, factor, continue_on_error>>
    BY DEF JoinTimeout, params
<1>2. /\ Len(running) \in Nat \ {0} /\ Len(u) = Len(running) - 1
      /\ \A i \in 1..Len(u) : u[i] = running[i + 1]
      /\ u \in Seq(Jobs) /\ Head(running) \in Jobs
      /\ late \in Nat /\ Head(running) = running[1]
    BY <1>1, EmptySeq, HeadTailProperties DEF FFIndInv, FFTypeOK, IndInv, TypeOK
<1>3. /\ Len(running') = Len(running)
      /\ \A i \in 1..Len(u) : running'[i] = u[i]
    BY <1>1, <1>2, AppendProperties
<1> HIDE DEF u
<1> SUFFICES ASSUME ~continue_on_error, firstFail # 0
             PROVE  \/ \E p \in 1..Len(running') :
                          running'[p] = firstFail /\ late + p <= Len(running')
                    \/ ~result' /\ pc' # "fill" /\ late <= factor - 1
    BY <1>1 DEF LateBehindFailure
<1>4. CASE ~result /\ late <= factor - 1
    BY <1>1, <1>4 DEF Round
<1>5. CASE \E p \in 1..Len(running) :
               running[p] = firstFail /\ late + p <= Len(running)
  <2>1. PICK p \in 1..Len(running) :
            running[p] = firstFail /\ late + p <= Len(running)
      BY <1>5
  <2>2. p # 1
      BY <2>1, <1>1, <1>2 DEF FFIndInv
  <2>3. /\ p - 1 \in 1..Len(u) /\ p - 1 \in 1..Len(running')
        /\ (p - 1) + 1 = p /\ late + (p - 1) <= Len(running')
      BY <2>1, <2>2, <1>2, <1>3
  <2>4. running'[p - 1] = firstFail
      BY <2>1, <2>3, <1>2, <1>3
  <2> QED BY <2>3, <2>4
<1> QED BY <1>4, <1>5 DEF FFIndInv, LateBehindFailure

LEMMA FFOtherInv == FFIndInv /\ FFOther => FFIndInv'
<1> SUFFICES ASSUME FFIndInv, FFOther PROVE FFIndInv'
    OBVIOUS
<1>1. IndInv'
    BY FFNextIndInv DEF FFNext
<1>2. UNCHANGED <<proc, factor, continue_on_error, firstFail, late>>
    BY DEF FFOther, FillDone, JoinHead, JoinTimeout, PopEmpty, DrainHead,
           Return, Finished, params, vars
<1>3. FFTypeOK'
    BY <1>1, <1>2 DEF FFIndInv, FFTypeOK, IndInv
<1>4. LateBehindFailure'
  <2>1. CASE JoinHead
    <3>1. ~result' /\ ~continue_on_error => pc' # "fill"
        BY <2>1 DEF JoinHead, Round
    <3> QED BY <2>1, <3>1, <1>2, FFDropHead DEF JoinHead
  <2>2. CASE DrainHead
      BY <2>2, <1>2, FFDropHead DEF DrainHead
  <2>3. CASE JoinTimeout
      BY <2>3, <1>2, FFTimeout
  <2>4. CASE FillDone \/ PopEmpty \/ Return \/ Finished
      BY <2>4, <1>2 DEF FFIndInv, LateBehindFailure, FillDone, PopEmpty,
                        Return, Finished, vars
  <2> QED BY <2>1, <2>2, <2>3, <2>4 DEF FFOther
<1> QED BY <1>1, <1>2, <1>3, <1>4 DEF FFIndInv

LEMMA FFNextInv == FFIndInv /\ [FFNext]_failFastVars => FFIndInv'
<1> SUFFICES ASSUME FFIndInv, [FFNext]_failFastVars PROVE FFIndInv'
    OBVIOUS
<1>1. CASE FFStart
    BY <1>1, FFStartInv
<1>2. CASE \E j \in Jobs : FFExit(j)
    BY <1>2, FFExitInv
<1>3. CASE FFOther
    BY <1>3, FFOtherInv
<1>4. CASE UNCHANGED failFastVars
  <2>1. IndInv'
      BY FFNextIndInv
  <2> QED BY <1>4, <2>1 DEF failFastVars, vars, FFIndInv, FFTypeOK, IndInv,
                            LateBehindFailure
<1> QED BY <1>1, <1>2, <1>3, <1>4 DEF FFNext

(* With the failure remembered the invariant of run_jobs() still holds and*)
(* what was started late is behind the failed child in `running`.          *)
THEOREM FFIndInvHolds == FFSpec => []FFIndInv
BY FFInitInv, FFNextInv, PTL DEF FFSpec

(* After the first failed exit, at most factor - 1 more jobs are started. *)
THEOREM LateStartsBounded == FFSpec => []FewLateStarts
<1>1. FFIndInv => FewLateStarts
  <2> SUFFICES ASSUME FFIndInv, ~continue_on_error, factor > 0
               PROVE  late <= factor - 1
      BY DEF FewLateStarts
  <2>1. late \in Nat /\ factor \in Int /\ Len(running) \in Nat
            /\ Len(running) <= factor
      BY LenProperties DEF FFIndInv, FFTypeOK, IndInv, TypeOK, ControlInv
  <2>2. CASE firstFail = 0
      BY <2>1, <2>2 DEF FFIndInv
  <2>3. CASE firstFail # 0
      BY <2>1, <2>3 DEF FFIndInv, LateBehindFailure
  <2> QED BY <2>2, <2>3
<1> QED BY <1>1, FFIndInvHolds, PTL
=============================================================================
