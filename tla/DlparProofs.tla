----------------------------- MODULE DlparProofs -----------------------------
(***************************************************************************)
(* Proofs about the dlpar test, for partitions of any size, any number of  *)
(* rounds, and a kernel that refuses what it likes.                        *)
(***************************************************************************)
EXTENDS Dlpar, SequenceTheorems, FiniteSetTheorems, TLAPS

AllCores == 0..(cores - 1)
Missing == AllCores \ online
Drcs(from, to) == {drcs[i] : i \in from..to}
AddRefused == "cpu_add" \in refused
InMemory == {"shrink", "grow", "offline", "online"}

(* The types that TypeOK leaves to the values. *)
ShapeInv ==
    /\ rc \in [memory : {"open", "TRUE", "FALSE"}, cpu : {"open", "TRUE", "FALSE", "raised"}]
    /\ threads \in {4, 8} /\ cores \in Nat \ {0}
    /\ \A i, k \in 1..Len(drcs) : drcs[i] = drcs[k] => i = k
    /\ threads = 8 /\ drcs # <<>> => Len(drcs) = cores - 1

(* What is offline is what is still to be given back, unless giving it     *)
(* back was refused.                                                       *)
MemoryInv ==
    /\ pc \in {"shrink", "grow"} => removed = 0
    /\ pc = "shrink" => units = memory
    /\ pc = "grow" => units + Ten = memory
    /\ pc \in {"offline", "online"} =>
           /\ units + removed <= memory
           /\ units + removed < memory => "memory_add" \in refused
    /\ pc \notin InMemory /\ units < memory => "memory_add" \in refused

CpuInv ==
    /\ pc \in InMemory \cup {"lookup"} => Missing = {} /\ drcs = <<>> /\ nth = 0 /\ round = 0
    /\ pc # "end" => rc.cpu = "open"
    /\ pc = "remove" =>
           /\ nth <= num_cores /\ nth <= Len(drcs)
           /\ num_cores <= Len(drcs) \/ num_cores <= MaxPick
           /\ AddRefused \/ Missing = Drcs(1, nth)
    /\ pc = "add" =>
           /\ nth <= num_cores /\ num_cores <= Len(drcs)
           /\ AddRefused \/ Missing \subseteq Drcs(nth + 1, num_cores)
    /\ pc = "repair" =>
           /\ nth <= Len(drcs)
           /\ AddRefused \/ Missing \subseteq Drcs(nth + 1, Len(drcs))
    /\ pc = "end" =>
           AddRefused \/ Missing = {} \/ (rc.cpu = "raised" /\ Len(drcs) < MaxPick)

(* Cores of 8 threads are counted as expected until a write is refused. *)
CountInv ==
    /\ pc = "remove" /\ threads = 8 =>
           /\ expected = 8 * (cores - num_cores)
           /\ AddRefused \/ Cardinality(online) = cores - nth
    /\ pc = "repair" /\ threads = 8 => refused \cap {"cpu_add", "cpu_remove"} # {}
    /\ BlameIsDeserved

IndInv == TypeOK /\ ShapeInv /\ MemoryInv /\ CpuInv /\ CountInv

-----------------------------------------------------------------------------
LEMMA CoresCounted ==
    ASSUME ShapeInv, online \subseteq AllCores
    PROVE  /\ IsFiniteSet(online) /\ Cardinality(online) \in Nat
           /\ Missing = {} => Cardinality(online) = cores
<1>1. IsFiniteSet(AllCores) /\ Cardinality(AllCores) = cores
    BY FS_Interval DEF ShapeInv, AllCores
<1>2. IsFiniteSet(online)
    BY <1>1, FS_Subset
<1>3. Missing = {} => online = AllCores
    BY DEF Missing
<1> QED BY <1>1, <1>2, <1>3, FS_CardinalityType

LEMMA InitInv == Init => IndInv
<1> SUFFICES ASSUME Init PROVE IndInv
    OBVIOUS
<1>1. memory \in 0..MaxUnits /\ units = memory
    BY DEF Init
<1>2. memory \in Nat
    BY <1>1, SizesAssumption
<1>3. threads \in {4, 8} /\ cores \in Nat \ {0} /\ drcs = <<>>
    BY SizesAssumption DEF Init
<1>4. TypeOK
    BY <1>1, <1>2, <1>3, SizesAssumption DEF Init, TypeOK
<1>5. ShapeInv
    BY <1>1, <1>2, <1>3 DEF Init, ShapeInv
<1>6. MemoryInv /\ CpuInv
    BY <1>1, <1>2 DEF Init, MemoryInv, CpuInv, InMemory, Missing, AllCores
<1>7. CountInv
    BY DEF Init, CountInv, BlameIsDeserved
<1> QED BY <1>4, <1>5, <1>6, <1>7 DEF IndInv

(* A step of memory_dlpar() does not concern the cores, nor one of         *)
(* cpu_dlpar() the memory.                                                 *)
LEMMA MemoryStep ==
    ASSUME IndInv, Shrink \/ Grow \/ OfflineMemory \/ OnlineMemory \/ MemoryDone
    PROVE  IndInv'
<1>1. /\ UNCHANGED <<memory, cpuVars>> /\ pc \in InMemory /\ pc' \in InMemory \cup {"lookup"}
      /\ rc'.cpu = rc.cpu /\ refused' \subseteq refused \cup {"memory_add", "memory_remove"}
      /\ refused \subseteq refused'
    BY DEF IndInv, ShapeInv, InMemory, Shrink, Grow, OfflineMemory, OnlineMemory, MemoryDone, Goto,
           Refuse, Memory, memoryVars
<1>2. rc' \in [memory : {"open", "TRUE", "FALSE"}, cpu : {"open", "TRUE", "FALSE", "raised"}]
    BY DEF IndInv, ShapeInv, Shrink, Grow, OfflineMemory, OnlineMemory, MemoryDone, Memory
<1>3. MemoryInv' /\ removed' \in 0..MaxUnits /\ units' \in 0..memory'
  <2> USE <1>1 DEF MemoryInv, InMemory, Ten, Goto, Refuse, Memory, Offline, Online
  <2>0. MemoryInv /\ memory \in 0..MaxUnits /\ units \in 0..memory /\ removed \in 0..MaxUnits
        /\ MaxUnits \in Nat
      BY SizesAssumption DEF IndInv, TypeOK
  <2>1. CASE Shrink
      BY <2>0, <2>1 DEF Shrink
  <2>2. CASE Grow
      BY <2>0, <2>2 DEF Grow
  <2>3. CASE OfflineMemory
      BY <2>0, <2>3 DEF OfflineMemory
  <2>4. CASE OnlineMemory
      BY <2>0, <2>4 DEF OnlineMemory
  <2>5. CASE MemoryDone
      BY <2>0, <2>5 DEF MemoryDone, memoryVars
  <2> QED BY <2>1, <2>2, <2>3, <2>4, <2>5
<1>4. ShapeInv'
  <2>1. UNCHANGED <<threads, cores, drcs>>
      BY <1>1 DEF cpuVars
  <2>2. (threads \in {4, 8} /\ cores \in Nat \ {0})'
      BY <2>1 DEF IndInv, ShapeInv
  <2>3. (\A i, k \in 1..Len(drcs) : drcs[i] = drcs[k] => i = k)'
      BY <2>1 DEF IndInv, ShapeInv
  <2>4. (threads = 8 /\ drcs # <<>> => Len(drcs) = cores - 1)'
      BY <2>1 DEF IndInv, ShapeInv
  <2> QED BY <1>2, <2>2, <2>3, <2>4 DEF ShapeInv
<1>5. TypeOK'
    BY <1>1, <1>2, <1>3 DEF IndInv, TypeOK, cpuVars, InMemory, Writes
<1>6. CpuInv'
    BY <1>1 DEF IndInv, CpuInv, cpuVars, InMemory, Missing, AllCores
<1>7. CountInv'
    BY <1>1 DEF IndInv, CpuInv, CountInv, cpuVars, InMemory, BlameIsDeserved
<1> QED BY <1>3, <1>4, <1>5, <1>6, <1>7 DEF IndInv

-----------------------------------------------------------------------------
(* What the steps of cpu_dlpar() leave alone.                              *)
CpuStep ==
    LookupDrcs \/ RemoveCore \/ CountAfterRemove \/ Repair \/ AddCore \/ CountAfterAdd

LEMMA CpuFrame ==
    ASSUME IndInv, CpuStep
    PROVE  /\ UNCHANGED <<memoryVars, threads, cores>> /\ pc \notin InMemory /\ pc # "end"
           /\ rc' \in [memory : {"open", "TRUE", "FALSE"}, cpu : {"open", "TRUE", "FALSE", "raised"}]
           /\ pc' \in {"remove", "add", "repair", "end"}
           /\ refused \subseteq refused' /\ refused' \subseteq Writes
           /\ MemoryInv'
<1>1. pc \notin InMemory /\ pc # "end"
    BY DEF CpuStep, LookupDrcs, RemoveCore, CountAfterRemove, Repair, AddCore, CountAfterAdd, InMemory
<1>2. UNCHANGED <<memoryVars, threads, cores>>
    BY DEF CpuStep, LookupDrcs, RemoveCore, CountAfterRemove, Repair, AddCore, CountAfterAdd
<1>3. /\ pc' \in {"remove", "add", "repair", "end"}
      /\ refused \subseteq refused' /\ refused' \subseteq Writes
    BY DEF IndInv, TypeOK, CpuStep, LookupDrcs, RemoveCore, CountAfterRemove, Repair, AddCore,
           CountAfterAdd, Goto, Cpu, Refuse, Writes, Add
<1>4. rc' = rc \/ \E r \in {"TRUE", "FALSE", "raised"} : rc' = [rc EXCEPT !.cpu = r]
    BY DEF CpuStep, LookupDrcs, RemoveCore, CountAfterRemove, Repair, AddCore, CountAfterAdd, Cpu
<1>5. rc' \in [memory : {"open", "TRUE", "FALSE"}, cpu : {"open", "TRUE", "FALSE", "raised"}]
    BY <1>4 DEF IndInv, ShapeInv
<1>6. MemoryInv'
    BY <1>1, <1>2, <1>3 DEF IndInv, MemoryInv, InMemory, memoryVars
<1> QED BY <1>1, <1>2, <1>3, <1>5, <1>6

LEMMA CoreRange ==
    ASSUME threads \in {4, 8}, cores \in Nat \ {0}, NEW t \in Asked, t % threads = 0
    PROVE  CoreOf(t) \in 1..(cores - 1) /\ t = threads * CoreOf(t)
<1>1. PICK j \in 1..((All - 1) \div 8) : t = 8 * j
    BY DEF Asked
<1>2. All \in Nat \ {0} /\ t \in Nat /\ 8 <= t /\ t <= All - 1
    BY <1>1 DEF All
<1>3. CASE threads = 4
    BY <1>2, <1>3 DEF CoreOf, All
<1>4. CASE threads = 8
    BY <1>2, <1>4 DEF CoreOf, All
<1> QED BY <1>3, <1>4

LEMMA LookupInv ==
    ASSUME IndInv, LookupDrcs
    PROVE  IndInv'
<1> USE SizesAssumption
<1>1. /\ UNCHANGED <<memoryVars, threads, cores>>
      /\ rc' \in [memory : {"open", "TRUE", "FALSE"}, cpu : {"open", "TRUE", "FALSE", "raised"}]
      /\ MemoryInv'
    BY CpuFrame DEF CpuStep
<1>2. /\ pc = "lookup" /\ UNCHANGED <<online, round, nth, refused>>
      /\ Missing = {} /\ drcs = <<>> /\ nth = 0 /\ round = 0 /\ rc.cpu = "open"
    BY DEF IndInv, CpuInv, LookupDrcs, InMemory
<1>3. threads \in {4, 8} /\ cores \in Nat \ {0} /\ online \subseteq AllCores
    BY DEF IndInv, TypeOK, ShapeInv, AllCores
<1>4. Cardinality(online) = cores
    BY <1>2, CoresCounted DEF IndInv, TypeOK, AllCores
<1>5. Nproc \in Nat /\ (threads = 8 => Nproc = 8 * cores)
    BY <1>3, <1>4 DEF Nproc
<1>6. num_cores' = (IF Nproc < 8 THEN 0 ELSE (Nproc \div 8) - 1) /\ num_cores' \in Nat
    BY <1>5 DEF LookupDrcs
<1>7. PICK found \in SUBSET {t \in Asked : t % threads = 0} :
      \E first \in {f \in [1..Cardinality(found) -> found] : Ascending(f)} :
          IF Cardinality(found) < num_cores' \/ num_cores' = 0
          THEN Cpu("FALSE") /\ UNCHANGED <<drcs, expected>>
          ELSE /\ drcs' = [k \in 1..num_cores' |-> CoreOf(first[k])]
               /\ expected' = Nproc - num_cores' * 8
               /\ Goto("remove") /\ UNCHANGED rc
    BY DEF LookupDrcs
<1>8. CASE Cpu("FALSE") /\ UNCHANGED <<drcs, expected>>
  <2>1. pc' = "end" /\ drcs' = <<>> /\ rc'.memory = rc.memory /\ rc'.cpu = "FALSE"
      BY <1>2, <1>8 DEF Cpu, Goto, IndInv, ShapeInv
  <2>2. TypeOK'
      BY <1>1, <1>2, <1>6, <1>8, <2>1 DEF IndInv, TypeOK, memoryVars
  <2>3. ShapeInv'
      BY <1>1, <1>3, <2>1 DEF ShapeInv
  <2>4. CpuInv' /\ CountInv'
      BY <1>1, <1>2, <2>1 DEF CpuInv, CountInv, BlameIsDeserved, InMemory, Missing, AllCores
  <2> QED BY <1>1, <2>2, <2>3, <2>4 DEF IndInv
<1>9. CASE ~(Cpu("FALSE") /\ UNCHANGED <<drcs, expected>>)
  <2>1. PICK first \in {f \in [1..Cardinality(found) -> found] : Ascending(f)} :
            /\ ~(Cardinality(found) < num_cores') /\ num_cores' # 0
            /\ drcs' = [k \in 1..num_cores' |-> CoreOf(first[k])]
            /\ expected' = Nproc - num_cores' * 8
            /\ pc' = "remove" /\ rc' = rc
      BY <1>7, <1>9 DEF Goto
  <2>2. Cardinality(found) \in Nat
    <3>1. Asked \subseteq 0..(threads * cores)
      <4>1. ASSUME NEW j \in 1..((All - 1) \div 8) PROVE 8 * j \in 0..All
          BY <1>3, <4>1 DEF All
      <4> QED BY <4>1 DEF Asked, All
    <3>2. threads * cores \in Int
        BY <1>3
    <3>3. IsFiniteSet(0..(threads * cores))
        BY <3>2, FS_Interval
    <3>4. found \subseteq 0..(threads * cores)
        BY <3>1
    <3>5. IsFiniteSet(found)
        BY <3>3, <3>4, FS_Subset
    <3> QED BY <3>5, FS_CardinalityType
  <2>3. \A j \in 1..num_cores' :
            /\ j \in 1..Cardinality(found) /\ first[j] \in Asked /\ first[j] % threads = 0
      BY <1>6, <2>1, <2>2
  <2>4. \A j \in 1..num_cores' : CoreOf(first[j]) \in 1..(cores - 1)
                                 /\ first[j] = threads * CoreOf(first[j])
      BY <1>3, <2>3, CoreRange
  <2>5. Len(drcs') = num_cores' /\ drcs' \in Seq(1..(cores - 1))
    <3>1. PICK n \in Nat : n = num_cores'
        BY <1>6
    <3>2. drcs' \in [1..n -> 1..(cores - 1)]
        BY <2>1, <2>4, <3>1
    <3>3. \A S : \A f \in [1..n -> S] : f \in Seq(S) /\ Len(f) = n
        BY <3>1, SeqDef, LenProperties
    <3> QED BY <3>1, <3>2, <3>3
  <2>6. \A i, j \in 1..num_cores' : drcs'[i] = drcs'[j] => i = j
    <3> SUFFICES ASSUME NEW i \in 1..num_cores', NEW j \in 1..num_cores', drcs'[i] = drcs'[j]
                 PROVE  i = j
        OBVIOUS
    <3>1. first[i] = first[j]
        BY <2>1, <2>4
    <3>2. ~(i < j) /\ ~(j < i)
      <4>1. first[i] \in Nat
          BY <2>3 DEF Asked
      <4>2. i < j => first[i] < first[j]
          BY <2>1, <2>3 DEF Ascending
      <4>3. j < i => first[j] < first[i]
          BY <2>1, <2>3 DEF Ascending
      <4> QED BY <3>1, <4>1, <4>2, <4>3
    <3> QED BY <1>6, <3>2
  <2>7. TypeOK'
      BY <1>1, <1>2, <1>5, <1>6, <2>1, <2>5 DEF IndInv, TypeOK, memoryVars
  <2>8. ShapeInv'
    <3>1. threads = 8 => Len(drcs') = cores - 1
        BY <1>3, <1>5, <1>6, <2>1, <2>5
    <3> QED BY <1>1, <1>3, <2>5, <2>6, <3>1 DEF ShapeInv
  <2>9. CpuInv'
      BY <1>1, <1>2, <1>6, <2>1, <2>5 DEF CpuInv, InMemory, Missing, AllCores, Drcs
  <2>10. CountInv'
    <3>1. threads = 8 => expected' = 8 * (cores - num_cores')
        BY <1>3, <1>5, <1>6, <2>1
    <3> QED BY <1>1, <1>2, <1>3, <1>4, <2>1, <3>1 DEF CountInv, BlameIsDeserved
  <2> QED BY <1>1, <2>7, <2>8, <2>9, <2>10 DEF IndInv
<1> QED BY <1>8, <1>9

LEMMA DrcsSplit ==
    ASSUME NEW n \in Nat, NEW m \in Nat, n < m
    PROVE  /\ Drcs(1, n + 1) = Drcs(1, n) \cup {drcs[n + 1]}
           /\ Drcs(n + 1, m) = Drcs(n + 2, m) \cup {drcs[n + 1]}
<1>1. 1..(n + 1) = 1..n \cup {n + 1} /\ (n + 1)..m = (n + 2)..m \cup {n + 1}
    OBVIOUS
<1> QED BY <1>1 DEF Drcs

(* The next core of a loop, and what the steps of a round keep. *)
LEMMA RoundFrame ==
    ASSUME IndInv, RemoveCore \/ CountAfterRemove \/ Repair \/ AddCore \/ CountAfterAdd,
           online' \subseteq AllCores, nth' \in Nat,
           num_cores' \in Nat, expected' \in Int, round' \in 0..(Rounds - 1), CpuInv', CountInv'
    PROVE  IndInv'
<1>1. /\ UNCHANGED <<memoryVars, threads, cores>> /\ pc' \in {"remove", "add", "repair", "end"}
      /\ rc' \in [memory : {"open", "TRUE", "FALSE"}, cpu : {"open", "TRUE", "FALSE", "raised"}]
      /\ refused' \subseteq Writes /\ MemoryInv'
    BY CpuFrame DEF CpuStep
<1>2. drcs' = drcs
    BY DEF RemoveCore, CountAfterRemove, Repair, AddCore, CountAfterAdd
<1>3. TypeOK'
    BY <1>1, <1>2 DEF IndInv, TypeOK, memoryVars, AllCores
<1>4. ShapeInv'
    BY <1>1, <1>2 DEF IndInv, ShapeInv
<1> QED BY <1>1, <1>3, <1>4 DEF IndInv

LEMMA RemoveCoreInv ==
    ASSUME IndInv, RemoveCore
    PROVE  IndInv'
<1>1. /\ pc = "remove" /\ nth < num_cores /\ nth \in Nat /\ num_cores \in Nat /\ cores \in Nat
      /\ UNCHANGED <<memoryVars, threads, cores, drcs, num_cores, expected, round>>
      /\ online \subseteq AllCores /\ Len(drcs) \in Nat /\ MaxPick \in Nat
      /\ rc.cpu = "open"
    BY SizesAssumption, LenProperties DEF IndInv, TypeOK, ShapeInv, CpuInv, RemoveCore, AllCores
<1>2. /\ nth <= Len(drcs)
      /\ num_cores <= Len(drcs) \/ num_cores <= MaxPick
      /\ AddRefused \/ Missing = Drcs(1, nth)
    BY <1>1 DEF IndInv, CpuInv
<1>3. CASE nth >= Len(drcs)
  <2>1. UNCHANGED <<online, nth, refused>> /\ pc' = "end" /\ rc'.cpu = "raised"
      BY <1>3 DEF RemoveCore, Cpu, Goto, IndInv, ShapeInv
  <2>2. CpuInv'
    <3>1. Len(drcs) < MaxPick
        BY <1>1, <1>2, <1>3
    <3> QED BY <1>1, <2>1, <3>1 DEF CpuInv, InMemory
  <2>3. CountInv'
    <3>1. threads = 8 => drcs = <<>> \/ cores <= MaxPick
        BY <1>1, <1>2, <1>3 DEF IndInv, ShapeInv
    <3>2. BlameIsDeserved'
        BY <1>1, <2>1, <3>1 DEF BlameIsDeserved
    <3> QED BY <2>1, <3>2 DEF CountInv
  <2> QED BY <1>1, <2>1, <2>2, <2>3, RoundFrame DEF IndInv, TypeOK
<1>4. CASE /\ nth < Len(drcs) /\ online' = online \ {drcs[nth + 1]}
           /\ nth' = nth + 1 /\ UNCHANGED <<pc, rc, refused>>
  <2> DEFINE x == drcs[nth + 1]
  <2>1. x \in 1..(cores - 1) /\ x \in AllCores
      BY <1>1, <1>4 DEF IndInv, TypeOK, AllCores
  <2>2. Missing' = Missing \cup {x}
      BY <1>1, <1>4, <2>1 DEF Missing, AllCores
  <2>3. Drcs(1, nth + 1) = Drcs(1, nth) \cup {x}
      BY <1>1, DrcsSplit
  <2>4. Missing = Drcs(1, nth) => x \in online
    <3>1. x \notin Drcs(1, nth)
      <4>1. ASSUME NEW i \in 1..nth PROVE drcs[i] # x
          BY <1>1, <1>4, <4>1 DEF IndInv, ShapeInv
      <4> QED BY <4>1 DEF Drcs
    <3> QED BY <2>1, <3>1 DEF Missing
  <2>5. CpuInv'
    <3>1. (AddRefused \/ Missing = Drcs(1, nth))'
        BY <1>1, <1>2, <1>4, <2>2, <2>3 DEF AddRefused, Drcs
    <3> QED BY <1>1, <1>2, <1>4, <3>1 DEF CpuInv, InMemory
  <2>6. CountInv'
    <3>1. IsFiniteSet(online) /\ Cardinality(online) \in Nat
        BY <1>1, CoresCounted DEF IndInv
    <3>2. ASSUME threads = 8, ~AddRefused PROVE Cardinality(online') = cores - (nth + 1)
      <4>1. Cardinality(online) = cores - nth /\ x \in online
          BY <1>1, <1>2, <2>4, <3>2 DEF IndInv, CountInv
      <4>2. Cardinality(online \ {x}) = Cardinality(online) - 1
          BY <3>1, <4>1, FS_RemoveElement
      <4> QED BY <1>1, <1>4, <4>1, <4>2
    <3>3. Cardinality(online)' = Cardinality(online')
        OBVIOUS
    <3>4. BlameIsDeserved'
        BY <1>1, <1>4 DEF BlameIsDeserved
    <3> QED BY <1>1, <1>4, <3>2, <3>3, <3>4 DEF IndInv, CountInv, AddRefused
  <2>7. online' \subseteq AllCores /\ nth' \in Nat
      BY <1>1, <1>4
  <2> QED BY <1>1, <2>5, <2>6, <2>7, RoundFrame DEF IndInv, TypeOK
<1>5. CASE /\ nth < Len(drcs) /\ refused' = refused \cup {"cpu_remove"} /\ pc' = "repair"
           /\ nth' = 0 /\ UNCHANGED <<online, rc>>
  <2>1. Drcs(1, nth) \subseteq Drcs(1, Len(drcs))
      BY <1>1, <1>2 DEF Drcs
  <2>2. CpuInv'
    <3>1. (AddRefused \/ Missing \subseteq Drcs(nth + 1, Len(drcs)))'
        BY <1>1, <1>2, <1>5, <2>1 DEF AddRefused, Drcs, Missing, AllCores
    <3> QED BY <1>1, <1>5, <3>1 DEF CpuInv, InMemory
  <2>3. CountInv'
      BY <1>1, <1>5 DEF CountInv, BlameIsDeserved
  <2> QED BY <1>1, <1>5, <2>2, <2>3, RoundFrame DEF IndInv, TypeOK
<1> QED BY <1>1, <1>3, <1>4, <1>5 DEF RemoveCore, Refuse, Goto

LEMMA CountAfterRemoveInv ==
    ASSUME IndInv, CountAfterRemove
    PROVE  IndInv'
<1>1. /\ pc = "remove" /\ nth = num_cores /\ nth' = 0
      /\ pc' = (IF Nproc = expected THEN "add" ELSE "repair")
      /\ UNCHANGED <<memoryVars, threads, cores, online, drcs, num_cores, expected, round, rc,
                     refused>>
    BY DEF CountAfterRemove, Goto
<1>2. /\ nth \in Nat /\ cores \in Nat /\ online \subseteq AllCores /\ Len(drcs) \in Nat
      /\ rc.cpu = "open"
    BY <1>1, LenProperties DEF IndInv, TypeOK, ShapeInv, CpuInv, AllCores
<1>3. nth <= Len(drcs) /\ (AddRefused \/ Missing = Drcs(1, nth))
    BY <1>1 DEF IndInv, CpuInv
<1>4. CpuInv'
  <2>1. Drcs(1, nth) \subseteq Drcs(1, Len(drcs))
      BY <1>2, <1>3 DEF Drcs
  <2>2. (AddRefused \/ Missing \subseteq Drcs(nth + 1, num_cores))'
      BY <1>1, <1>3 DEF AddRefused, Missing, AllCores, Drcs
  <2>3. (AddRefused \/ Missing \subseteq Drcs(nth + 1, Len(drcs)))'
      BY <1>1, <1>3, <2>1 DEF AddRefused, Missing, AllCores, Drcs
  <2> QED BY <1>1, <1>2, <1>3, <2>2, <2>3 DEF CpuInv, InMemory
<1>5. CountInv'
  <2>1. ASSUME threads = 8, ~AddRefused PROVE Nproc = expected
    <3>1. expected = 8 * (cores - num_cores) /\ Cardinality(online) = cores - nth
        BY <1>1, <2>1 DEF IndInv, CountInv
    <3> QED BY <1>1, <1>2, <2>1, <3>1 DEF Nproc
  <2>2. BlameIsDeserved'
      BY <1>1, <1>2 DEF BlameIsDeserved
  <2> QED BY <1>1, <2>1, <2>2 DEF CountInv, AddRefused
<1> QED BY <1>1, <1>2, <1>4, <1>5, RoundFrame DEF IndInv, TypeOK

(* Adding a core: it is there afterwards, or the kernel refused.           *)
LEMMA AddLemma ==
    ASSUME NEW n \in Nat, NEW m \in Nat, n < m, Add(drcs[n + 1]), drcs[n + 1] \in AllCores,
           UNCHANGED <<cores, drcs>>, AddRefused \/ Missing \subseteq Drcs(n + 1, m),
           online \subseteq AllCores
    PROVE  /\ AddRefused' \/ Missing' \subseteq Drcs(n + 2, m)
           /\ online' \subseteq AllCores /\ (AddRefused => AddRefused')
<1> DEFINE x == drcs[n + 1]
<1>1. \/ online' = online \cup {x} /\ refused' = refused
      \/ online' = online /\ refused' = refused \cup {"cpu_add"}
    BY DEF Add, Refuse
<1>2. CASE online' = online \cup {x} /\ refused' = refused
  <2>1. Missing' = Missing \ {x}
      BY <1>2 DEF Missing, AllCores
  <2>2. Drcs(n + 1, m) = Drcs(n + 2, m) \cup {x}
      BY DrcsSplit
  <2> QED BY <1>2, <2>1, <2>2 DEF AddRefused
<1>3. CASE online' = online /\ refused' = refused \cup {"cpu_add"}
    BY <1>3 DEF AddRefused
<1> QED BY <1>1, <1>2, <1>3

LEMMA RepairInv ==
    ASSUME IndInv, Repair
    PROVE  IndInv'
<1>1. /\ pc = "repair" /\ nth \in Nat /\ Len(drcs) \in Nat /\ nth <= Len(drcs)
      /\ UNCHANGED <<memoryVars, threads, cores, drcs, num_cores, expected, round>>
      /\ online \subseteq AllCores /\ rc.cpu = "open"
      /\ AddRefused \/ Missing \subseteq Drcs(nth + 1, Len(drcs))
      /\ threads = 8 => refused \cap {"cpu_add", "cpu_remove"} # {}
    BY LenProperties DEF IndInv, TypeOK, CpuInv, CountInv, Repair, AllCores
<1>2. CASE nth < Len(drcs)
  <2>1. Add(drcs[nth + 1]) /\ nth' = nth + 1 /\ UNCHANGED <<pc, rc>>
      BY <1>2 DEF Repair
  <2>2. drcs[nth + 1] \in AllCores
    <3>1. drcs \in Seq(1..(cores - 1)) /\ nth + 1 \in 1..Len(drcs)
        BY <1>1, <1>2 DEF IndInv, TypeOK
    <3>2. drcs[nth + 1] \in 1..(cores - 1)
        BY <3>1, ElementOfSeq
    <3>3. cores \in Nat
        BY DEF IndInv, ShapeInv
    <3> QED BY <3>2, <3>3 DEF AllCores
  <2>3. /\ AddRefused' \/ Missing' \subseteq Drcs(nth + 2, Len(drcs))
        /\ online' \subseteq AllCores
      BY <1>1, <1>2, <2>1, <2>2, AddLemma
  <2>4. (AddRefused \/ Missing \subseteq Drcs(nth + 1, Len(drcs)))'
      BY <1>1, <2>1, <2>3 DEF Drcs
  <2>5. CpuInv'
      BY <1>1, <1>2, <2>1, <2>4 DEF CpuInv, InMemory
  <2>6. CountInv'
      BY <1>1, <2>1 DEF CountInv, BlameIsDeserved, Add, Refuse
  <2> QED BY <1>1, <2>1, <2>3, <2>5, <2>6, RoundFrame DEF IndInv, TypeOK
<1>3. CASE ~(nth < Len(drcs))
  <2>1. UNCHANGED <<online, nth, refused>> /\ pc' = "end" /\ rc'.cpu = "FALSE"
      BY <1>3 DEF Repair, Cpu, Goto, IndInv, ShapeInv
  <2>2. Drcs(nth + 1, Len(drcs)) = {}
      BY <1>1, <1>3 DEF Drcs
  <2>3. (AddRefused \/ Missing = {})'
      BY <1>1, <2>1, <2>2 DEF AddRefused, Missing, AllCores
  <2>4. CpuInv' /\ CountInv'
      BY <1>1, <2>1, <2>3 DEF CpuInv, CountInv, BlameIsDeserved, InMemory
  <2> QED BY <1>1, <2>1, <2>4, RoundFrame DEF IndInv, TypeOK
<1> QED BY <1>2, <1>3

LEMMA AddCoreInv ==
    ASSUME IndInv, AddCore
    PROVE  IndInv'
<1>1. /\ pc = "add" /\ nth \in Nat /\ num_cores \in Nat /\ nth < num_cores
      /\ Len(drcs) \in Nat /\ num_cores <= Len(drcs)
      /\ UNCHANGED <<pc, memoryVars, threads, cores, drcs, num_cores, expected, round, rc>>
      /\ online \subseteq AllCores /\ rc.cpu = "open"
      /\ AddRefused \/ Missing \subseteq Drcs(nth + 1, num_cores)
      /\ Add(drcs[nth + 1]) /\ nth' = nth + 1
    BY LenProperties DEF IndInv, TypeOK, CpuInv, AddCore, AllCores
<1>2. drcs[nth + 1] \in AllCores
  <2>1. drcs \in Seq(1..(cores - 1)) /\ nth + 1 \in 1..Len(drcs)
      BY <1>1 DEF IndInv, TypeOK
  <2>2. drcs[nth + 1] \in 1..(cores - 1)
      BY <2>1, ElementOfSeq
  <2>3. cores \in Nat
      BY DEF IndInv, ShapeInv
  <2> QED BY <2>2, <2>3 DEF AllCores
<1>3. /\ AddRefused' \/ Missing' \subseteq Drcs(nth + 2, num_cores)
      /\ online' \subseteq AllCores
    BY <1>1, <1>2, AddLemma
<1>4. (AddRefused \/ Missing \subseteq Drcs(nth + 1, num_cores))'
    BY <1>1, <1>3 DEF Drcs
<1>5. CpuInv' /\ CountInv'
    BY <1>1, <1>4 DEF CpuInv, CountInv, BlameIsDeserved, InMemory
<1> QED BY <1>1, <1>3, <1>5, RoundFrame DEF IndInv, TypeOK

LEMMA CountAfterAddInv ==
    ASSUME IndInv, CountAfterAdd
    PROVE  IndInv'
<1>1. /\ pc = "add" /\ nth \in Nat /\ nth = num_cores /\ nth' = 0
      /\ UNCHANGED <<memoryVars, threads, cores, online, drcs, refused>>
      /\ online \subseteq AllCores /\ rc.cpu = "open" /\ Len(drcs) \in Nat
      /\ AddRefused \/ Missing \subseteq Drcs(nth + 1, num_cores)
    BY LenProperties DEF IndInv, TypeOK, CpuInv, CountAfterAdd, AllCores
<1>2. AddRefused \/ Missing = {}
    BY <1>1 DEF Drcs
<1>3. AddRefused \/ (Missing = {} /\ Cardinality(online) = cores /\ Nproc = All)
    BY <1>1, <1>2, CoresCounted DEF IndInv, Nproc, All
<1>4. (AddRefused \/ Missing = {})'
    BY <1>1, <1>2 DEF AddRefused, Missing, AllCores
<1>5. CASE UNCHANGED <<num_cores, expected, round>>
  <2>1. /\ pc' = "end"
        /\ rc'.cpu = "TRUE" \/ (rc'.cpu = "FALSE" /\ Nproc # All)
    <3>1. CASE Nproc # All
        BY <3>1 DEF CountAfterAdd, Cpu, Goto, IndInv, ShapeInv
    <3>2. CASE Nproc = All /\ round + 1 = Rounds
        BY <3>2 DEF CountAfterAdd, Cpu, Goto, IndInv, ShapeInv
    <3>3. CASE Nproc = All /\ round + 1 # Rounds
      <4>1. round' = round + 1
          BY <3>3 DEF CountAfterAdd
      <4> QED BY <1>5, <4>1, SizesAssumption DEF IndInv, TypeOK
    <3> QED BY <3>1, <3>2, <3>3
  <2>2. CpuInv' /\ CountInv'
      BY <1>1, <1>3, <1>4, <2>1 DEF CpuInv, CountInv, BlameIsDeserved, InMemory, AddRefused
  <2> QED BY <1>1, <1>5, <2>2, RoundFrame DEF IndInv, TypeOK
<1>6. CASE ~UNCHANGED <<num_cores, expected, round>>
  <2>1. /\ round + 1 # Rounds /\ round' = round + 1 /\ num_cores' \in 1..MaxPick
        /\ expected' = All - num_cores' * 8 /\ pc' = "remove" /\ rc' = rc
      BY <1>6 DEF CountAfterAdd, Expected, Goto
  <2>2. /\ num_cores' \in Nat /\ num_cores' <= MaxPick
        /\ round' \in 0..(Rounds - 1)
      BY <2>1, SizesAssumption DEF IndInv, TypeOK
  <2>3. /\ All \in Int /\ expected' \in Int
        /\ threads = 8 => expected' = 8 * (cores - num_cores')
      BY <2>1, <2>2 DEF All, IndInv, ShapeInv
  <2>4. (AddRefused \/ Missing = Drcs(1, nth))'
    <3>1. Drcs(1, nth)' = {}
        BY <1>1 DEF Drcs
    <3> QED BY <1>4, <3>1
  <2>5. CpuInv'
      BY <1>1, <2>1, <2>2, <2>4 DEF CpuInv, InMemory
  <2>6. CountInv'
    <3>1. (AddRefused \/ Cardinality(online) = cores - nth)'
        BY <1>1, <1>3 DEF AddRefused, IndInv, ShapeInv
    <3>2. BlameIsDeserved'
        BY <1>1, <2>1 DEF BlameIsDeserved
    <3> QED BY <1>1, <2>1, <2>3, <3>1, <3>2 DEF CountInv
  <2> QED BY <1>1, <2>2, <2>3, <2>5, <2>6, RoundFrame
<1> QED BY <1>5, <1>6

LEMMA NextInv == IndInv /\ [Next]_vars => IndInv'
<1> SUFFICES ASSUME IndInv, [Next]_vars PROVE IndInv'
    OBVIOUS
<1>1. CASE Shrink \/ Grow \/ OfflineMemory \/ OnlineMemory \/ MemoryDone
    BY <1>1, MemoryStep
<1>2. CASE LookupDrcs
    BY <1>2, LookupInv
<1>3. CASE RemoveCore
    BY <1>3, RemoveCoreInv
<1>4. CASE CountAfterRemove
    BY <1>4, CountAfterRemoveInv
<1>5. CASE Repair
    BY <1>5, RepairInv
<1>6. CASE AddCore
    BY <1>6, AddCoreInv
<1>7. CASE CountAfterAdd
    BY <1>7, CountAfterAddInv
<1>8. CASE UNCHANGED vars
    BY <1>8 DEF vars, memoryVars, cpuVars, IndInv, TypeOK, ShapeInv, MemoryInv, CpuInv, CountInv,
       BlameIsDeserved, Missing, AllCores, Drcs, AddRefused, InMemory
<1> QED BY <1>1, <1>2, <1>3, <1>4, <1>5, <1>6, <1>7, <1>8 DEF Next, Step, Finished

-----------------------------------------------------------------------------
(* What is missing at each step of the test is what it still has to give   *)
(* back, or what it was refused, for partitions of any size.               *)
THEOREM IndInvHolds == Spec => []IndInv
BY InitInv, NextInv, PTL DEF Spec

(* Every variable of the dlpar test keeps its type.                        *)
THEOREM TypeCorrect == Spec => []TypeOK
<1>1. IndInv => TypeOK
    BY DEF IndInv
<1> QED BY IndInvHolds, <1>1, PTL

(* The test leaves the partition as it found it, unless the kernel refused *)
(* to take something back or the test picked more cores than it knows.     *)
THEOREM ResourcesComeBackHolds == Spec => []ResourcesComeBack
<1>1. ASSUME IndInv PROVE ResourcesComeBack
  <2> SUFFICES ASSUME pc = "end"
               PROVE  /\ units < memory => "memory_add" \in refused
                      /\ Cardinality(online) < cores =>
                            "cpu_add" \in refused \/ (rc.cpu = "raised" /\ Len(drcs) < MaxPick)
      BY DEF ResourcesComeBack
  <2>1. units < memory => "memory_add" \in refused
      BY <1>1 DEF IndInv, MemoryInv, InMemory
  <2>2. "cpu_add" \in refused \/ Missing = {} \/ (rc.cpu = "raised" /\ Len(drcs) < MaxPick)
      BY <1>1 DEF IndInv, CpuInv, AddRefused
  <2>3. Missing = {} => ~(Cardinality(online) < cores)
      BY <1>1, CoresCounted DEF IndInv, TypeOK, ShapeInv, AllCores
  <2> QED BY <2>1, <2>2, <2>3
<1> QED BY IndInvHolds, <1>1, PTL

(* The test blames no partition of cores of 8 threads that did all it was  *)
(* asked to do, unless it has at most as many cores as the test may pick.  *)
THEOREM BlameIsDeservedHolds == Spec => []BlameIsDeserved
<1>1. IndInv => BlameIsDeserved
    BY DEF IndInv, CountInv
<1> QED BY IndInvHolds, <1>1, PTL
=============================================================================
