------------------------------- MODULE Dlpar --------------------------------
(***************************************************************************)
(* scripts/test/dlpar: memory and cores are taken away from a running      *)
(* partition and given back by writes to /sys/kernel/dlpar, any of which   *)
(* the kernel may refuse, and what is left is counted after every round.   *)
(* Memory is counted in units of 10 LMBs.                                  *)
(***************************************************************************)
EXTENDS Integers, Sequences, FiniteSets

CONSTANTS
    MaxCores, MaxUnits,   \* sizes of the partitions considered
    Threads,              \* threads per core considered; the code takes 8
    Rounds, MaxPick       \* 11 and 7 in the code

ASSUME SizesAssumption ==
    /\ {MaxCores, MaxUnits, MaxPick} \subseteq Nat
    /\ Threads \subseteq {4, 8} /\ Rounds \in Nat \ {0}

VARIABLES
    pc,
    memory, units,  \* of the partition; how many of them are online
    removed,      \* i of memory_dlpar()
    threads,      \* per core of this partition
    cores,        \* their number
    online,       \* the cores that are
    drcs,         \* the cores looked up, to be removed and added by index
    num_cores, expected, round,
    nth,          \* i of the loop over the cores
    rc,           \* of main(), "open", TRUE, FALSE; "raised"
    refused       \* the writes that were: history

memoryVars == <<memory, units, removed>>
cpuVars == <<threads, cores, online, drcs, num_cores, expected, round, nth>>
vars == <<pc, memoryVars, cpuVars, rc, refused>>

Ten == 10    \* units of `count 100`
Writes == {"memory_remove", "memory_add", "cpu_remove", "cpu_add"}

Init ==
    /\ pc = "shrink"
    /\ memory \in 0..MaxUnits
    /\ units = memory
    /\ removed = 0
    /\ threads \in Threads
    /\ cores \in 1..MaxCores
    /\ online = 0..(cores - 1)
    /\ drcs = <<>>
    /\ num_cores = 0 /\ expected = 0 /\ round = 0 /\ nth = 0
    /\ rc = [memory |-> "open", cpu |-> "open"]
    /\ refused = {}

-----------------------------------------------------------------------------
Goto(next) == pc' = next
Refuse(w) == refused' = refused \cup {w}
Memory(r) == rc' = [rc EXCEPT !.memory = r] /\ Goto("lookup")
Cpu(r) == rc' = [rc EXCEPT !.cpu = r] /\ Goto("end")

Offline(n) == units' = units - n
Online(n) == units' = units + n

(* memory_dlpar(): 100 LMBs off and on; the kernel undoes a write that     *)
(* fails half way.                                                         *)
Shrink ==
    /\ pc = "shrink"
    /\ \/ units >= Ten /\ Offline(Ten) /\ Goto("grow") /\ UNCHANGED <<rc, refused>>
       \/ Refuse("memory_remove") /\ Memory("FALSE") /\ UNCHANGED units
    /\ UNCHANGED <<memory, removed, cpuVars>>

Grow ==
    /\ pc = "grow"
    /\ \/ Online(Ten) /\ Goto("offline") /\ UNCHANGED <<rc, refused>>
       \/ Refuse("memory_add") /\ Memory("FALSE") /\ UNCHANGED units
    /\ UNCHANGED <<memory, removed, cpuVars>>

(* Offlining until failure. *)
OfflineMemory ==
    /\ pc = "offline"
    /\ \/ /\ units > 0 /\ Offline(1)
          /\ removed' = removed + 1
          /\ UNCHANGED <<pc, refused>>
       \/ Refuse("memory_remove") /\ Goto("online") /\ UNCHANGED <<units, removed>>
    /\ UNCHANGED <<memory, cpuVars, rc>>

(* Definitions named ...Defect are not part of the model. *)
OnlineMemoryDefect ==
    /\ pc = "online" /\ removed > 0
    /\ \/ Online(1) /\ removed' = removed - 1 /\ UNCHANGED <<pc, refused>>
       \/ Refuse("memory_add") /\ Goto("offline") /\ UNCHANGED <<units, removed>>
    /\ UNCHANGED <<memory, cpuVars, rc>>
(* A unit that does not come back is only reported. *)
OnlineMemory ==
    /\ pc = "online" /\ removed > 0
    /\ removed' = removed - 1
    /\ (Online(1) /\ UNCHANGED refused) \/ (Refuse("memory_add") /\ UNCHANGED units)
    /\ UNCHANGED <<pc, memory, cpuVars, rc>>

MemoryDone ==
    /\ pc = "online" /\ removed = 0
    /\ Memory("TRUE")
    /\ UNCHANGED <<memoryVars, cpuVars, refused>>

-----------------------------------------------------------------------------
Nproc == threads * Cardinality(online)
All == threads * cores

(* The core that holds thread t, and the threads lookup_drcs() asks for.   *)
CoreOf(t) == t \div threads
Asked == {8 * k : k \in 1..((All - 1) \div 8)}
Ascending(f) == \A i, k \in DOMAIN f : i < k => f[i] < f[k]

(* cpu_dlpar(): all but one core, by their threads in steps of 8.  A core  *)
(* may have no index in the device tree, or the thread not be the first of *)
(* a core.  With nothing to remove, [] is taken for a failure.             *)
LookupDrcs ==
    /\ pc = "lookup"
    /\ num_cores' = IF Nproc < 8 THEN 0 ELSE (Nproc \div 8) - 1
    /\ \E found \in SUBSET {t \in Asked : t % threads = 0} :
       \E first \in {f \in [1..Cardinality(found) -> found] : Ascending(f)} :
          IF Cardinality(found) < num_cores' \/ num_cores' = 0
          THEN Cpu("FALSE") /\ UNCHANGED <<drcs, expected>>
          ELSE /\ drcs' = [k \in 1..num_cores' |-> CoreOf(first[k])]
               /\ expected' = Nproc - num_cores' * 8
               /\ Goto("remove") /\ UNCHANGED rc
    /\ UNCHANGED <<memoryVars, threads, cores, online, round, nth, refused>>

RemoveCoreDefect ==
    /\ pc = "remove" /\ nth < num_cores
    /\ IF nth >= Len(drcs) THEN Cpu("raised") /\ UNCHANGED <<online, nth, refused>>
       ELSE \/ /\ online' = online \ {drcs[nth + 1]}
               /\ nth' = nth + 1
               /\ UNCHANGED <<pc, rc, refused>>
            \/ Refuse("cpu_remove") /\ Cpu("FALSE") /\ UNCHANGED <<online, nth>>
    /\ UNCHANGED <<memoryVars, threads, cores, drcs, num_cores, expected, round>>

(* A number of cores picked for a later round may be larger than that of   *)
(* the cores known: IndexError, with all of them removed.                  *)
RemoveCore ==
    /\ pc = "remove" /\ nth < num_cores
    /\ IF nth >= Len(drcs) THEN Cpu("raised") /\ UNCHANGED <<online, nth, refused>>
       ELSE \/ /\ online' = online \ {drcs[nth + 1]}
               /\ nth' = nth + 1
               /\ UNCHANGED <<pc, rc, refused>>
            \/ Refuse("cpu_remove") /\ Goto("repair") /\ nth' = 0 /\ UNCHANGED <<online, rc>>
    /\ UNCHANGED <<memoryVars, threads, cores, drcs, num_cores, expected, round>>

CountAfterRemove ==
    /\ pc = "remove" /\ nth = num_cores
    /\ nth' = 0
    /\ Goto(IF Nproc = expected THEN "add" ELSE "repair")
    /\ UNCHANGED <<memoryVars, threads, cores, online, drcs, num_cores, expected, round, rc, refused>>

(* A core that is there already cannot be added: the write fails. *)
Add(core) ==
    \/ online' = online \cup {core} /\ UNCHANGED refused
    \/ core \notin online /\ Refuse("cpu_add") /\ UNCHANGED online

(* repair(): every core looked up, whatever was removed. *)
Repair ==
    /\ pc = "repair"
    /\ IF nth < Len(drcs)
       THEN Add(drcs[nth + 1]) /\ nth' = nth + 1 /\ UNCHANGED <<pc, rc>>
       ELSE Cpu("FALSE") /\ UNCHANGED <<online, nth, refused>>
    /\ UNCHANGED <<memoryVars, threads, cores, drcs, num_cores, expected, round>>

AddCore ==
    /\ pc = "add" /\ nth < num_cores
    /\ Add(drcs[nth + 1])
    /\ nth' = nth + 1
    /\ UNCHANGED <<pc, memoryVars, threads, cores, drcs, num_cores, expected, round, rc>>

ExpectedDefect(n) == expected
Expected(n) == All - n * 8

(* The next round removes a random number of cores. *)
CountAfterAdd ==
    /\ pc = "add" /\ nth = num_cores
    /\ nth' = 0
    /\ IF Nproc # All THEN Cpu("FALSE") /\ UNCHANGED <<num_cores, expected, round>>
       ELSE IF round + 1 = Rounds
       THEN Cpu("TRUE") /\ UNCHANGED <<num_cores, expected, round>>
       ELSE /\ round' = round + 1
            /\ num_cores' \in 1..MaxPick
            /\ expected' = Expected(num_cores')
            /\ Goto("remove") /\ UNCHANGED rc
    /\ UNCHANGED <<memoryVars, threads, cores, online, drcs, refused>>

Finished == pc = "end" /\ UNCHANGED vars

Step ==
    \/ Shrink \/ Grow \/ OfflineMemory \/ OnlineMemory \/ MemoryDone
    \/ LookupDrcs \/ RemoveCore \/ CountAfterRemove \/ Repair \/ AddCore \/ CountAfterAdd

Next == Step \/ Finished
Spec == Init /\ [][Next]_vars

(* One process, which runs on; the kernel answers every write. *)
FairSpec == Spec /\ WF_vars(Step)

-----------------------------------------------------------------------------
(* Every variable keeps its type. *)
TypeOK ==
    /\ pc \in {"shrink", "grow", "offline", "online", "lookup", "remove", "add", "repair", "end"}
    /\ memory \in 0..MaxUnits /\ units \in 0..memory
    /\ removed \in 0..MaxUnits
    /\ online \subseteq 0..(cores - 1)
    /\ drcs \in Seq(1..(cores - 1))
    /\ num_cores \in Nat /\ expected \in Int /\ round \in 0..(Rounds - 1) /\ nth \in Nat
    /\ rc.memory \in {"open", "TRUE", "FALSE"} /\ rc.cpu \in {"open", "TRUE", "FALSE", "raised"}
    /\ refused \subseteq Writes

(* The test leaves the partition as it found it, whatever the kernel       *)
(* refuses to take and in whatever round: resources are missing at the end *)
(* only if the kernel refused to take them back, or if the test picked     *)
(* more cores than it knows and died of it.                                *)
ResourcesComeBack ==
    pc = "end" =>
        /\ units < memory => "memory_add" \in refused
        /\ Cardinality(online) < cores =>
              "cpu_add" \in refused \/ (rc.cpu = "raised" /\ Len(drcs) < MaxPick)

(* The test blames no partition of at least two cores of 8 threads that    *)
(* did all it was asked.  It fails only if a write was refused, or an      *)
(* index was missing in the device tree; it also fails, with the exception *)
(* of RemoveCore, a partition of so few cores that more of them may be     *)
(* picked for a later round than can be removed, and no other.             *)
BlameIsDeserved ==
    rc.cpu \in {"FALSE", "raised"} /\ threads = 8 /\ cores > 1 =>
        \/ refused \cap {"cpu_add", "cpu_remove"} # {}
        \/ drcs = <<>>
        \/ rc.cpu = "raised" /\ cores <= MaxPick

(* The test comes to its end: memory is offlined until that fails, and it  *)
(* is given back in as many steps, failed ones included.                   *)
TestEnds == <>(pc = "end")
=============================================================================
