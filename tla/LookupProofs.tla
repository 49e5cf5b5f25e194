---------------------------- MODULE LookupProofs ----------------------------
(***************************************************************************)
(* Proofs about the two components that fill tables and look things up in  *)
(* them: SuiteDef, for any series of calls a suite function may make, any  *)
(* number of filters and of tests, and SymbolDump, for symbol tables and   *)
(* fixup sections of any size.                                             *)
(***************************************************************************)
EXTENDS SuiteDef, SymbolDump, SequenceTheorems, WellFoundedInduction, TLAPS

-----------------------------------------------------------------------------
(* Induction over Nat, for a set. *)

LEMMA NatMin == \A T \in SUBSET Nat : T # {} => \E x \in T : \A y \in T : x <= y
<1> SUFFICES ASSUME NEW T \in SUBSET Nat, T # {} PROVE \E x \in T : \A y \in T : x <= y
    OBVIOUS
<1> DEFINE R == OpToRel(<, Nat)
<1>1. IsWellFoundedOn(R, Nat)
    BY NatLessThanWellFounded
<1>2. \A x, y \in Nat : x < y => <<x, y>> \in R
    BY DEF OpToRel
<1> HIDE DEF R
<1>3. PICK x \in T : \A y \in T : ~(<<y, x>> \in R)
    BY <1>1, WFMin
<1>4. \A y \in T : x <= y
  <2> SUFFICES ASSUME NEW y \in T PROVE x <= y
      OBVIOUS
  <2>1. x \in Nat /\ y \in Nat
      OBVIOUS
  <2>2. ~(y < x)
      BY <1>2, <1>3, <2>1, Zenon
  <2> QED BY <2>1, <2>2
<1> QED BY <1>4

LEMMA NatInd ==
    ASSUME NEW S, 0 \in S, \A n \in Nat : n \in S => n + 1 \in S
    PROVE  Nat \subseteq S
<1> SUFFICES ASSUME Nat \ S # {} PROVE FALSE
    OBVIOUS
<1>1. PICK x \in Nat \ S : \A y \in Nat \ S : x <= y
    BY NatMin
<1>2. x # 0 /\ x - 1 \in Nat /\ x - 1 < x
    BY <1>1
<1>3. x - 1 \in S
    BY <1>1, <1>2
<1> QED BY <1>1, <1>2, <1>3

-----------------------------------------------------------------------------
(* What a suite function has defined. *)
SuiteTypeInv ==
    /\ todo \in Seq(Calls)
    /\ powernv_configs \in Seq(Fragments) /\ powernv_configs # <<>>

(* A kernel is kept under its own name. *)
KernelsInv == \A n \in DOMAIN kernels : kernels[n] \in Kernels /\ Name(kernels[n]) = n

SuiteInv == SuiteTypeInv /\ KernelsInv /\ BootsGetTheirKernel

LEMMA SuiteInitInv == Init => SuiteInv
<1> SUFFICES ASSUME Init PROVE SuiteInv
    OBVIOUS
<1>1. todo \in Seq(Calls)
    BY ProgramsAssumption DEF Init
<1>2. powernv_configs = <<"powernv">>
    BY DEF Init
<1>3. powernv_configs \in Seq(Fragments)
  <2>1. <<"powernv">> \in [1..1 -> Fragments]
      BY DEF Fragments
  <2> QED BY <1>2, <2>1, SeqDef
<1>4. powernv_configs # <<>>
  <2>1. Len(<<"powernv">>) = 1 /\ Len(<<>>) = 0
      OBVIOUS
  <2> QED BY <1>2, <2>1
<1>5. DOMAIN kernels = {} /\ DOMAIN boots = {}
    BY DEF Init
<1> QED BY <1>1, <1>3, <1>4, <1>5 DEF SuiteInv, SuiteTypeInv, KernelsInv, BootsGetTheirKernel

(* Nothing is replaced by something different. *)
LEMMA AddKernelInv ==
    ASSUME SuiteInv, NEW k \in Kernels, AddKernel(k)
    PROVE  KernelsInv' /\ BootsGetTheirKernel'
<1>1. CASE Raises
    BY <1>1 DEF Raises, SuiteInv, KernelsInv, BootsGetTheirKernel, Appended, SameKernel, Contents
<1>2. CASE /\ ~(Name(k) \in DOMAIN kernels /\ ~SameKernel(kernels[Name(k)], k))
           /\ kernels' = Put(kernels, Name(k), k)
           /\ UNCHANGED <<powernv_configs, boots, outcome>>
  <2>1. /\ DOMAIN kernels' = DOMAIN kernels \cup {Name(k)}
        /\ kernels'[Name(k)] = k
        /\ \A n \in DOMAIN kernels : n # Name(k) => kernels'[n] = kernels[n]
      BY <1>2 DEF Put
  <2>2. KernelsInv'
      BY <2>1 DEF SuiteInv, KernelsInv
  <2>3. ASSUME NEW key \in DOMAIN boots
        PROVE  LET b == boots[key].kernel_build IN
               /\ Name(b) \in DOMAIN kernels'
               /\ ~Appended => SameKernel(b, kernels'[Name(b)])
    <3> DEFINE b == boots[key].kernel_build
    <3>1. Name(b) \in DOMAIN kernels /\ (~Appended => SameKernel(b, kernels[Name(b)]))
        BY DEF SuiteInv, BootsGetTheirKernel
    <3>2. CASE Name(b) # Name(k)
        BY <2>1, <3>1, <3>2
    <3>3. CASE Name(b) = Name(k)
      <4>1. SameKernel(kernels[Name(k)], k)
          BY <1>2, <3>1, <3>3
      <4>2. ~Appended => SameKernel(b, k)
          BY <3>1, <3>3, <4>1 DEF SameKernel
      <4> QED BY <2>1, <3>1, <3>3, <4>2
    <3> QED BY <3>2, <3>3
  <2>4. BootsGetTheirKernel'
      BY <1>2, <2>3 DEF BootsGetTheirKernel, Appended, SameKernel, Contents
  <2> QED BY <2>2, <2>4
<1> QED BY <1>1, <1>2 DEF AddKernel

LEMMA AddBootInv ==
    ASSUME SuiteInv, NEW b \in Boots, AddBoot(b)
    PROVE  KernelsInv' /\ BootsGetTheirKernel'
<1> DEFINE qs == IF b.name = "qemu" THEN Qemus ELSE {"none"}
           keys == {BootKey(b, q) : q \in qs}
<1>1. CASE Raises
    BY <1>1 DEF Raises, SuiteInv, KernelsInv, BootsGetTheirKernel, Appended, SameKernel, Contents
<1>2. CASE /\ Name(b) \in DOMAIN kernels
           /\ boots' = [key \in DOMAIN boots \cup keys |->
                            IF key \in keys
                            THEN [cmdline |-> b.cmdline, kernel_build |-> kernels[Name(b)]]
                            ELSE boots[key]]
           /\ UNCHANGED <<powernv_configs, kernels, outcome>>
  <2>1. KernelsInv'
      BY <1>2 DEF SuiteInv, KernelsInv
  <2>2. kernels[Name(b)] \in Kernels /\ Name(kernels[Name(b)]) = Name(b)
      BY <1>2 DEF SuiteInv, KernelsInv
  <2> HIDE DEF keys
  <2>3. ASSUME NEW key \in DOMAIN boots'
        PROVE  LET k == boots'[key].kernel_build IN
               Name(k) \in DOMAIN kernels /\ (~Appended => SameKernel(k, kernels[Name(k)]))
    <3>1. CASE key \in keys
      <4>1. boots'[key].kernel_build = kernels[Name(b)]
          BY <1>2, <3>1
      <4> QED BY <1>2, <2>2, <4>1 DEF SameKernel
    <3>2. CASE key \notin keys
      <4>1. key \in DOMAIN boots /\ boots'[key] = boots[key]
          BY <1>2, <3>2
      <4> QED BY <4>1 DEF SuiteInv, BootsGetTheirKernel
    <3> QED BY <3>1, <3>2
  <2>4. BootsGetTheirKernel'
      BY <1>2, <2>3 DEF BootsGetTheirKernel, Appended, SameKernel, Contents
  <2> QED BY <2>1, <2>4
<1> QED BY <1>1, <1>2 DEF AddBoot

(* Once something was appended to the shared list, it never is what it was. *)
LEMMA AppendInv ==
    ASSUME SuiteInv, NEW x \in Fragments, AppendToShared(x), todo' \in Seq(Calls)
    PROVE  SuiteInv'
<1>1. /\ powernv_configs' \in Seq(Fragments)
      /\ Len(powernv_configs') = Len(powernv_configs) + 1
      /\ Len(powernv_configs) \in Nat \ {0}
    BY AppendProperties, LenProperties, EmptySeq DEF SuiteInv, SuiteTypeInv, AppendToShared
<1>2. powernv_configs' # <<"powernv">> /\ powernv_configs' # <<>>
  <2>1. Len(<<"powernv">>) = 1 /\ Len(<<>>) = 0
      OBVIOUS
  <2>2. Len(powernv_configs') # 1 /\ Len(powernv_configs') # 0
      BY <1>1
  <2> QED BY <2>1, <2>2, Zenon
<1>3. KernelsInv'
    BY DEF SuiteInv, KernelsInv, AppendToShared
<1>4. BootsGetTheirKernel'
    BY <1>2 DEF SuiteInv, BootsGetTheirKernel, AppendToShared, Appended
<1> QED BY <1>1, <1>2, <1>3, <1>4 DEF SuiteInv, SuiteTypeInv

LEMMA SuiteNextInv == SuiteInv /\ [Next]_vars => SuiteInv'
<1> SUFFICES ASSUME SuiteInv, [Next]_vars PROVE SuiteInv'
    OBVIOUS
<1>1. CASE Do
  <2>1. /\ todo' \in Seq(Calls) /\ Head(todo) \in Calls
      BY <1>1, HeadTailProperties DEF Do, SuiteInv, SuiteTypeInv
  <2>2. CASE Head(todo).call = "kernel"
    <3>1. Head(todo).kernel \in Kernels /\ AddKernel(Head(todo).kernel)
        BY <1>1, <2>1, <2>2 DEF Do, Calls
    <3>2. powernv_configs' = powernv_configs
        BY <3>1 DEF AddKernel, Raises
    <3> QED BY <2>1, <3>1, <3>2, AddKernelInv DEF SuiteInv, SuiteTypeInv
  <2>3. CASE Head(todo).call = "boot"
    <3>1. Head(todo).boot \in Boots /\ AddBoot(Head(todo).boot)
        BY <1>1, <2>1, <2>3 DEF Do, Calls
    <3>2. powernv_configs' = powernv_configs
        BY <3>1 DEF AddBoot, Raises
    <3> QED BY <2>1, <3>1, <3>2, AddBootInv DEF SuiteInv, SuiteTypeInv
  <2>4. CASE Head(todo).call = "append"
    <3>1. Head(todo).item \in Fragments /\ AppendToShared(Head(todo).item)
        BY <1>1, <2>1, <2>4 DEF Do, Calls
    <3> QED BY <2>1, <3>1, AppendInv
  <2> QED BY <2>1, <2>2, <2>3, <2>4 DEF Calls
<1>2. CASE UNCHANGED <<todo, powernv_configs, kernels, boots>>
    BY <1>2 DEF SuiteInv, SuiteTypeInv, KernelsInv, BootsGetTheirKernel, Appended, SameKernel,
                Contents
<1> QED BY <1>1, <1>2 DEF Next, Return, Finished, vars

(* The inductive invariant of a suite's definition. *)
THEOREM SuiteInvHolds == Spec => []SuiteInv
BY SuiteInitInv, SuiteNextInv, PTL DEF Spec

(* What a boot will boot is built as the suite said when the boot was      *)
(* added, whatever kernels and boots are added after it (add_kernel(),     *)
(* add_boot()), as long as no list that they share is changed.             *)
THEOREM BootsGetTheirKernelHolds == Spec => []BootsGetTheirKernel
<1>1. SuiteInv => BootsGetTheirKernel
    BY DEF SuiteInv
<1> QED BY <1>1, SuiteInvHolds, PTL

-----------------------------------------------------------------------------
(* filter_matches() for filters in any number and order: there is one that *)
(* matches and includes, and none before it that matches and excludes.     *)
Includes(fs, i) ==
    \E m \in i..Len(fs) :
        /\ fs[m].matches /\ ~fs[m].excludes
        /\ \A k \in i..m : ~(fs[k].matches /\ fs[k].excludes)

LEMMA IncludesStep ==
    ASSUME NEW fs \in Seq(Filters), NEW i \in 1..Len(fs)
    PROVE  /\ ~fs[i].matches => (Includes(fs, i) <=> Includes(fs, i + 1))
           /\ fs[i].matches => (Includes(fs, i) <=> ~fs[i].excludes)
<1>n. PICK n \in Nat : n = Len(fs)
    BY LenProperties
<1>1. ASSUME ~fs[i].matches, Includes(fs, i) PROVE Includes(fs, i + 1)
  <2>1. PICK m \in i..n : /\ fs[m].matches /\ ~fs[m].excludes
                          /\ \A k \in i..m : ~(fs[k].matches /\ fs[k].excludes)
      BY <1>1, <1>n DEF Includes
  <2>2. m # i
      BY <1>1, <2>1
  <2>3. m \in (i + 1)..n /\ \A k \in (i + 1)..m : k \in i..m
      BY <1>n, <2>2
  <2> QED BY <1>n, <2>1, <2>3 DEF Includes
<1>2. ASSUME ~fs[i].matches, Includes(fs, i + 1) PROVE Includes(fs, i)
  <2>1. PICK m \in (i + 1)..n :
            /\ fs[m].matches /\ ~fs[m].excludes
            /\ \A k \in (i + 1)..m : ~(fs[k].matches /\ fs[k].excludes)
      BY <1>2, <1>n DEF Includes
  <2>2. m \in i..n /\ \A k \in i..m : k = i \/ k \in (i + 1)..m
      BY <1>n
  <2>3. \A k \in i..m : ~(fs[k].matches /\ fs[k].excludes)
      BY <1>2, <2>1, <2>2
  <2> QED BY <1>n, <2>1, <2>2, <2>3 DEF Includes
<1>3. ASSUME fs[i].matches, Includes(fs, i) PROVE ~fs[i].excludes
  <2>1. PICK m \in i..n : \A k \in i..m : ~(fs[k].matches /\ fs[k].excludes)
      BY <1>3, <1>n DEF Includes
  <2>2. i \in i..m
      BY <1>n
  <2> QED BY <1>3, <2>1, <2>2
<1>4. ASSUME fs[i].matches, ~fs[i].excludes PROVE Includes(fs, i)
  <2>1. i \in i..n /\ \A k \in i..i : k = i
      BY <1>n
  <2> QED BY <1>n, <1>4, <2>1 DEF Includes
<1> QED BY <1>1, <1>2, <1>3, <1>4

LEMMA FilterMatchesUnfold ==
    ASSUME NEW fs \in Seq(Filters), NEW n \in Nat, n = Len(fs)
    PROVE  \E f : /\ FilterMatches(fs) = f[1]
                  /\ f = [i \in 1..(n + 1) |->
                            IF i > n THEN FALSE
                            ELSE IF ~fs[i].matches THEN f[i + 1] ELSE ~fs[i].excludes]
<1> DEFINE Unfolds(f) ==
        f = [i \in 1..(n + 1) |->
                IF i > n THEN FALSE
                ELSE IF ~fs[i].matches THEN f[i + 1] ELSE ~fs[i].excludes]
           h == [i \in 1..(n + 1) |-> IF Includes(fs, i) THEN TRUE ELSE FALSE]
           G == [i \in 1..(n + 1) |->
                    IF i > n THEN FALSE
                    ELSE IF ~fs[i].matches THEN h[i + 1] ELSE ~fs[i].excludes]
<1>1. \A i \in 1..n : i \in 1..(n + 1) /\ i + 1 \in 1..(n + 1) /\ ~(i > n)
    OBVIOUS
<1>2. ~Includes(fs, n + 1)
    BY DEF Includes
<1>3. \A i \in 1..n : fs[i].excludes \in BOOLEAN /\ fs[i].matches \in BOOLEAN
  <2>1. \A i \in 1..n : fs[i] \in Filters
      BY ElementOfSeq
  <2> QED BY <2>1 DEF Filters
<1>4. ASSUME NEW i \in 1..(n + 1) PROVE h[i] = G[i]
  <2>1. i = n + 1 \/ i \in 1..n
      OBVIOUS
  <2>2. CASE i = n + 1
    <3>1. h[i] = FALSE
        BY <1>2, <2>2
    <3>2. G[i] = FALSE
        BY <2>2
    <3> QED BY <3>1, <3>2
  <2>3. CASE i \in 1..n
    <3>1. h[i] = IF Includes(fs, i) THEN TRUE ELSE FALSE
        OBVIOUS
    <3>2. h[i + 1] = IF Includes(fs, i + 1) THEN TRUE ELSE FALSE
        BY <1>1, <2>3
    <3>3. G[i] = IF ~fs[i].matches THEN h[i + 1] ELSE ~fs[i].excludes
        BY <1>1, <2>3
    <3>4. CASE fs[i].matches
        BY <1>3, <2>3, <3>1, <3>3, <3>4, IncludesStep
    <3>5. CASE ~fs[i].matches
        BY <2>3, <3>1, <3>2, <3>3, <3>5, IncludesStep
    <3> QED BY <3>4, <3>5
  <2> QED BY <2>1, <2>2, <2>3
<1>5. h = [i \in 1..(n + 1) |-> h[i]] /\ G = [i \in 1..(n + 1) |-> G[i]]
    OBVIOUS
<1>6. h = G
  <2> HIDE DEF h, G
  <2> QED BY <1>4, <1>5
<1> HIDE DEF h
<1>7. Unfolds(h)
    BY <1>6, Zenon
<1> DEFINE F == CHOOSE f : Unfolds(f)
<1>8. Unfolds(F)
    BY <1>7
<1>9. FilterMatches(fs) = F[1]
    BY DEF FilterMatches
<1> QED BY <1>8, <1>9

(* What filter_matches() answers, for a list of filters of any length. *)
THEOREM FilterMatchesIsReference ==
    \A fs \in Seq(Filters) :
        FilterMatches(fs) <=>
            \E i \in DOMAIN fs :
                /\ fs[i].matches /\ ~fs[i].excludes
                /\ \A k \in 1..i : ~(fs[k].matches /\ fs[k].excludes)
<1> SUFFICES ASSUME NEW fs \in Seq(Filters)
             PROVE  FilterMatches(fs) <=>
                        \E i \in DOMAIN fs :
                            /\ fs[i].matches /\ ~fs[i].excludes
                            /\ \A k \in 1..i : ~(fs[k].matches /\ fs[k].excludes)
    OBVIOUS
<1>n. PICK n \in Nat : n = Len(fs)
    BY LenProperties
<1>1. PICK f : /\ FilterMatches(fs) = f[1]
               /\ f = [i \in 1..(n + 1) |->
                         IF i > n THEN FALSE
                         ELSE IF ~fs[i].matches THEN f[i + 1] ELSE ~fs[i].excludes]
    BY <1>n, FilterMatchesUnfold
<1>2. f[n + 1] = FALSE /\ \A i \in 1..n : f[i] = IF ~fs[i].matches THEN f[i + 1]
                                                 ELSE ~fs[i].excludes
  <2>1. n + 1 \in 1..(n + 1) /\ n + 1 > n
        /\ \A i \in 1..n : i \in 1..(n + 1) /\ ~(i > n)
      OBVIOUS
  <2> QED BY <1>1, <2>1
<1>3. ~Includes(fs, n + 1)
    BY <1>n DEF Includes
<1> DEFINE S == {m \in Nat : m <= n => (f[n + 1 - m] <=> Includes(fs, n + 1 - m))}
<1>4. 0 \in S
    BY <1>2, <1>3
<1>5. ASSUME NEW m \in Nat, m \in S PROVE m + 1 \in S
  <2> SUFFICES ASSUME m + 1 <= n
               PROVE  f[n + 1 - (m + 1)] <=> Includes(fs, n + 1 - (m + 1))
      OBVIOUS
  <2>1. PICK i \in 1..n : i = n + 1 - (m + 1) /\ i + 1 = n + 1 - m
    <3>1. n + 1 - (m + 1) \in 1..n /\ n + 1 - (m + 1) + 1 = n + 1 - m
        OBVIOUS
    <3> QED BY <3>1
  <2>2. f[i + 1] <=> Includes(fs, i + 1)
      BY <1>5, <2>1
  <2>3. f[i] = IF ~fs[i].matches THEN f[i + 1] ELSE ~fs[i].excludes
      BY <1>2
  <2>4. /\ ~fs[i].matches => (Includes(fs, i) <=> Includes(fs, i + 1))
        /\ fs[i].matches => (Includes(fs, i) <=> ~fs[i].excludes)
      BY <1>n, IncludesStep
  <2>5. f[i] <=> Includes(fs, i)
      BY <2>2, <2>3, <2>4
  <2> QED BY <2>1, <2>5
<1>6. Nat \subseteq S
  <2> HIDE DEF S
  <2> QED BY <1>4, <1>5, NatInd
<1>7. n \in S
    BY <1>6
<1>8. FilterMatches(fs) <=> Includes(fs, 1)
    BY <1>1, <1>3, <1>7
<1>9. DOMAIN fs = 1..Len(fs)
    BY LenProperties
<1> QED BY <1>8, <1>9 DEF Includes

(* The same for the filters that the run of the model tries. *)
THEOREM FilterIsReferenceHolds == Spec => []FilterIsReference
<1>1. \A m \in 0..3 : [1..m -> Filters] \subseteq Seq(Filters)
    BY SeqDef
<1>2. FilterIsReference
    BY <1>1, FilterMatchesIsReference DEF FilterIsReference
<1> QED BY <1>2, PTL

-----------------------------------------------------------------------------
(* image_at_least(): a version is a number to the base of its parts.       *)
LEMMA SameInterval == \A m \in Nat, n \in Nat \ {0} : 1..n = 1..m => n = m
<1> SUFFICES ASSUME NEW m \in Nat, NEW n \in Nat \ {0}, 1..n = 1..m PROVE n = m
    OBVIOUS
<1>1. n \in 1..n
    OBVIOUS
<1>2. n \in 1..m
    BY <1>1
<1>3. m \in 1..m
    BY <1>2
<1>4. m \in 1..n
    BY <1>3
<1> QED BY <1>2, <1>4

LEMMA VersionParts ==
    ASSUME NEW v \in Versions
    PROVE  \E n \in 1..3 : v \in [1..n -> 0..99] /\ Len(v) = n
<1>1. PICK n \in 1..3 : v \in [1..n -> 0..99]
    BY DEF Versions
<1>2. v \in Seq(0..99)
    BY <1>1, SeqDef
<1>3. Len(v) \in Nat /\ DOMAIN v = 1..Len(v)
    BY <1>2, LenProperties
<1>4. 1..n = 1..Len(v)
    BY <1>1, <1>3
<1>5. n = Len(v)
  <2>1. n \in Nat \ {0} /\ Len(v) \in Nat
      BY <1>3
  <2> QED BY <1>4, <2>1, SameInterval, Zenon
<1> QED BY <1>1, <1>5

LEMMA BaseBounds == \A n \in 0..99 : n \in Nat /\ n < Base(n) /\ Base(n) \in {10, 100}
BY DEF Base

LEMMA Positional ==
    \A B \in {10, 100}, a, b, c, d \in Nat : b < B /\ d < B =>
        /\ a * B + b >= c * B + d <=> a > c \/ (a = c /\ b >= d)
        /\ a * B + b = c * B + d <=> a = c /\ b = d
        /\ a * B + b \in Nat
<1>1. \A a, b, c, d \in Nat : b < 10 /\ d < 10 =>
        /\ a * 10 + b >= c * 10 + d <=> a > c \/ (a = c /\ b >= d)
        /\ a * 10 + b = c * 10 + d <=> a = c /\ b = d
        /\ a * 10 + b \in Nat
    OBVIOUS
<1>2. \A a, b, c, d \in Nat : b < 100 /\ d < 100 =>
        /\ a * 100 + b >= c * 100 + d <=> a > c \/ (a = c /\ b >= d)
        /\ a * 100 + b = c * 100 + d <=> a = c /\ b = d
        /\ a * 100 + b \in Nat
    OBVIOUS
<1> QED BY <1>1, <1>2

LEMMA LaterByParts ==
    ASSUME NEW n \in 1..3, NEW v \in [1..n -> 0..99], NEW w \in [1..n -> 0..99]
    PROVE  /\ n = 1 => (Later(v, w) <=> v[1] >= w[1])
           /\ n = 2 => (Later(v, w) <=> v[1] > w[1] \/ (v[1] = w[1] /\ v[2] >= w[2]))
           /\ n = 3 => (Later(v, w) <=> \/ v[1] > w[1]
                                        \/ v[1] = w[1] /\ v[2] > w[2]
                                        \/ v[1] = w[1] /\ v[2] = w[2] /\ v[3] >= w[3])
<1>1. \A i \in 1..n : v[i] \in Nat /\ w[i] \in Nat
  <2>1. \A i \in 1..n : v[i] \in 0..99
      OBVIOUS
  <2>2. \A i \in 1..n : w[i] \in 0..99
      OBVIOUS
  <2>3. \A i \in 1..n : v[i] \in Nat /\ v[i] < Base(v[i]) /\ Base(v[i]) \in {10, 100}
      BY <2>1, BaseBounds, Zenon
  <2>4. \A i \in 1..n : w[i] \in Nat /\ w[i] < Base(w[i]) /\ Base(w[i]) \in {10, 100}
      BY <2>2, BaseBounds, Zenon
  <2> QED BY <2>3, <2>4
<1>2. v = w <=> \A i \in 1..n : v[i] = w[i]
    OBVIOUS
<1>3. DOMAIN v = 1..n
    OBVIOUS
<1>4. ASSUME n = 1 PROVE Later(v, w) <=> v[1] >= w[1]
  <2>1. 1 \in 1..n /\ (\A i \in 1..n : i = 1) /\ \A k \in 1..(1 - 1) : FALSE
      BY <1>4
  <2>2. Later(v, w) <=> v = w \/ v[1] > w[1]
      BY <1>3, <2>1 DEF Later
  <2>3. v = w <=> v[1] = w[1]
      BY <1>2, <2>1
  <2> QED BY <1>1, <2>1, <2>2, <2>3
<1>5. ASSUME n = 2 PROVE Later(v, w) <=> v[1] > w[1] \/ (v[1] = w[1] /\ v[2] >= w[2])
  <2>1. /\ {1, 2} \subseteq 1..n /\ \A i \in 1..n : i = 1 \/ i = 2
        /\ (\A k \in 1..(1 - 1) : FALSE) /\ 1 \in 1..(2 - 1) /\ \A k \in 1..(2 - 1) : k = 1
      BY <1>5
  <2>2. Later(v, w) <=> v = w \/ v[1] > w[1] \/ (v[2] > w[2] /\ v[1] = w[1])
      BY <1>3, <2>1 DEF Later
  <2>3. v = w <=> v[1] = w[1] /\ v[2] = w[2]
      BY <1>2, <2>1
  <2> QED BY <1>1, <2>1, <2>2, <2>3
<1>6. ASSUME n = 3
      PROVE Later(v, w) <=> \/ v[1] > w[1]
                            \/ v[1] = w[1] /\ v[2] > w[2]
                            \/ v[1] = w[1] /\ v[2] = w[2] /\ v[3] >= w[3]
  <2>1. /\ {1, 2, 3} \subseteq 1..n /\ \A i \in 1..n : i = 1 \/ i = 2 \/ i = 3
        /\ (\A k \in 1..(1 - 1) : FALSE) /\ 1 \in 1..(2 - 1) /\ \A k \in 1..(2 - 1) : k = 1
        /\ {1, 2} \subseteq 1..(3 - 1) /\ \A k \in 1..(3 - 1) : k = 1 \/ k = 2
      BY <1>6
  <2>2. Later(v, w) <=> \/ v = w \/ v[1] > w[1] \/ (v[2] > w[2] /\ v[1] = w[1])
                        \/ v[3] > w[3] /\ v[1] = w[1] /\ v[2] = w[2]
      BY <1>3, <2>1 DEF Later
  <2>3. v = w <=> v[1] = w[1] /\ v[2] = w[2] /\ v[3] = w[3]
      BY <1>2, <2>1
  <2> QED BY <1>1, <2>1, <2>2, <2>3
<1> QED BY <1>4, <1>5, <1>6

LEMMA NumberIsNat == \A v \in Versions : Number(v) \in Nat
<1> SUFFICES ASSUME NEW v \in Versions PROVE Number(v) \in Nat
    OBVIOUS
<1>1. PICK n \in 1..3 : v \in [1..n -> 0..99] /\ Len(v) = n
    BY VersionParts
<1>2. \A i \in 1..n : v[i] \in Nat /\ Base(v[i]) \in Nat
  <2>1. \A i \in 1..n : v[i] \in 0..99
      BY <1>1
  <2>2. \A i \in 1..n : v[i] \in Nat /\ Base(v[i]) \in {10, 100}
      BY <2>1, BaseBounds, Zenon
  <2> QED BY <2>2
<1>3. CASE n = 1
    BY <1>1, <1>2, <1>3 DEF Number
<1>4. CASE n = 2
  <2>1. Number(v) = v[1] * Base(v[2]) + v[2]
      BY <1>1, <1>4 DEF Number
  <2> QED BY <1>2, <1>4, <2>1
<1>5. CASE n = 3
  <2>1. Number(v) = (v[1] * Base(v[2]) + v[2]) * Base(v[3]) + v[3]
      BY <1>1, <1>5 DEF Number
  <2> QED BY <1>2, <1>5, <2>1
<1> QED BY <1>3, <1>4, <1>5

LEMMA SomeInVersions == SomeVersions \subseteq Versions
<1>1. /\ [1..1 -> 0..99] \subseteq Versions
      /\ [1..2 -> 0..99] \subseteq Versions
      /\ [1..3 -> 0..99] \subseteq Versions
    BY 1 \in 1..3, 2 \in 1..3, 3 \in 1..3 DEF Versions
<1>2. /\ <<14>> \in [1..1 -> 0..99] /\ <<31>> \in [1..1 -> 0..99]
      /\ <<36>> \in [1..1 -> 0..99] /\ <<4>> \in [1..1 -> 0..99]
    OBVIOUS
<1>3. <<8, 5>> \in [1..2 -> 0..99] /\ <<9, 5>> \in [1..2 -> 0..99]
    OBVIOUS
<1>4. /\ <<5, 5, 0>> \in [1..3 -> 0..99] /\ <<5, 10, 0>> \in [1..3 -> 0..99]
      /\ <<8, 5, 0>> \in [1..3 -> 0..99] /\ <<12, 1, 0>> \in [1..3 -> 0..99]
      /\ <<13, 0, 0>> \in [1..3 -> 0..99] /\ <<12, 0, 10>> \in [1..3 -> 0..99]
    OBVIOUS
<1> QED BY <1>1, <1>2, <1>3, <1>4 DEF SomeVersions

LEMMA ListVersions ==
    ASSUME NEW versions \in SomeLists, NEW i \in DOMAIN versions
    PROVE  versions[i].version \in Versions
<1>1. <<31>> \in SomeVersions /\ <<36>> \in SomeVersions /\ <<8, 5, 0>> \in SomeVersions
      /\ <<12, 1, 0>> \in SomeVersions
    BY DEF SomeVersions
<1> QED BY <1>1, SomeInVersions DEF SomeLists

(* Versions of one shape compare as versions do. *)
THEOREM NumberIsLexicographic ==
    \A v, w \in Versions : Alike(v, w) => (Number(v) >= Number(w) <=> Later(v, w))
<1> SUFFICES ASSUME NEW v \in Versions, NEW w \in Versions, Alike(v, w)
             PROVE  Number(v) >= Number(w) <=> Later(v, w)
    OBVIOUS
<1>1. PICK n \in 1..3 : v \in [1..n -> 0..99] /\ Len(v) = n
    BY VersionParts
<1>2. w \in [1..n -> 0..99] /\ Len(w) = n
    BY <1>1, VersionParts DEF Alike
<1>3. \A i \in 2..n : Base(v[i]) = Base(w[i])
    BY <1>1 DEF Alike
<1>4. \A i \in 1..n : /\ v[i] \in Nat /\ v[i] < Base(v[i]) /\ Base(v[i]) \in {10, 100}
                      /\ w[i] \in Nat /\ w[i] < Base(w[i])
  <2>1. \A i \in 1..n : v[i] \in 0..99
      BY <1>1
  <2>2. \A i \in 1..n : w[i] \in 0..99
      BY <1>2
  <2>3. \A i \in 1..n : v[i] \in Nat /\ v[i] < Base(v[i]) /\ Base(v[i]) \in {10, 100}
      BY <2>1, BaseBounds, Zenon
  <2>4. \A i \in 1..n : w[i] \in Nat /\ w[i] < Base(w[i]) /\ Base(w[i]) \in {10, 100}
      BY <2>2, BaseBounds, Zenon
  <2> QED BY <2>3, <2>4
<1>5. CASE n = 1
    BY <1>1, <1>2, <1>5, LaterByParts DEF Number
<1>6. CASE n = 2
  <2>0. 1 \in 1..n /\ 2 \in 1..n /\ 2 \in 2..n
      BY <1>6
  <2>1. Number(v) = v[1] * Base(v[2]) + v[2] /\ Number(w) = w[1] * Base(v[2]) + w[2]
      BY <1>1, <1>2, <1>3, <1>6, <2>0 DEF Number
  <2>2. Number(v) >= Number(w) <=> v[1] > w[1] \/ (v[1] = w[1] /\ v[2] >= w[2])
    <3>1. /\ Base(v[2]) \in {10, 100} /\ v[1] \in Nat /\ v[2] \in Nat /\ w[1] \in Nat /\ w[2] \in Nat
          /\ v[2] < Base(v[2]) /\ w[2] < Base(v[2])
        BY <1>3, <1>4, <2>0
    <3> QED BY <2>1, <3>1, Positional
  <2> QED BY <1>1, <1>2, <1>6, <2>2, LaterByParts
<1>7. CASE n = 3
  <2> DEFINE a == v[1] * Base(v[2]) + v[2]
             c == w[1] * Base(v[2]) + w[2]
  <2>0. {1, 2, 3} \subseteq 1..n /\ {2, 3} \subseteq 2..n
      BY <1>7
  <2>1. Number(v) = a * Base(v[3]) + v[3] /\ Number(w) = c * Base(v[3]) + w[3]
      BY <1>1, <1>2, <1>3, <1>7, <2>0 DEF Number
  <2>f. /\ Base(v[2]) \in {10, 100} /\ v[1] \in Nat /\ v[2] \in Nat /\ w[1] \in Nat /\ w[2] \in Nat
        /\ v[2] < Base(v[2]) /\ w[2] < Base(v[2])
      BY <1>3, <1>4, <2>0
  <2>g. /\ Base(v[3]) \in {10, 100} /\ v[3] \in Nat /\ w[3] \in Nat
        /\ v[3] < Base(v[3]) /\ w[3] < Base(v[3])
      BY <1>3, <1>4, <2>0
  <2>2. /\ a >= c <=> v[1] > w[1] \/ (v[1] = w[1] /\ v[2] >= w[2])
        /\ a = c <=> v[1] = w[1] /\ v[2] = w[2]
        /\ a \in Nat
      BY <2>f, Positional
  <2>3. c \in Nat
      BY <2>f, Positional
  <2> HIDE DEF a, c
  <2>4. Number(v) >= Number(w) <=> a > c \/ (a = c /\ v[3] >= w[3])
      BY <2>g, <2>1, <2>2, <2>3, Positional
  <2>5. a > c <=> a >= c /\ a # c
      BY <2>2, <2>3
  <2>6. v[1] \in Nat /\ v[2] \in Nat /\ v[3] \in Nat /\ w[1] \in Nat /\ w[2] \in Nat /\ w[3] \in Nat
      BY <1>4, <1>7
  <2>7. Later(v, w) <=> \/ v[1] > w[1]
                        \/ v[1] = w[1] /\ v[2] > w[2]
                        \/ v[1] = w[1] /\ v[2] = w[2] /\ v[3] >= w[3]
      BY <1>1, <1>2, <1>7, LaterByParts
  <2> QED BY <2>2, <2>4, <2>5, <2>6, <2>7
<1> QED BY <1>5, <1>6, <1>7

(* What is behind the first part weighs less than one more of that. *)
LEMMA Weighed ==
    \A a, b, c \in Nat, B, C \in {10, 100} : b < B /\ c < C =>
        /\ a * B <= a * B + b /\ a * B + b < (a + 1) * B
        /\ a * (B * C) <= (a * B + b) * C + c /\ (a * B + b) * C + c < (a + 1) * (B * C)
        /\ B * C \in {100, 1000, 10000}
<1>1. ASSUME NEW a \in Nat, NEW b \in Nat, NEW c \in Nat, NEW B \in {10}, NEW C \in {10, 100}, b < B, c < C
      PROVE  /\ a * B <= a * B + b /\ a * B + b < (a + 1) * B
             /\ a * (B * C) <= (a * B + b) * C + c /\ (a * B + b) * C + c < (a + 1) * (B * C)
             /\ B * C \in {100, 1000, 10000}
  <2>1. CASE C = 10
      BY <1>1, <2>1
  <2>2. CASE C = 100
      BY <1>1, <2>2
  <2> QED BY <2>1, <2>2
<1>2. ASSUME NEW a \in Nat, NEW b \in Nat, NEW c \in Nat, NEW B \in {100}, NEW C \in {10, 100}, b < B, c < C
      PROVE  /\ a * B <= a * B + b /\ a * B + b < (a + 1) * B
             /\ a * (B * C) <= (a * B + b) * C + c /\ (a * B + b) * C + c < (a + 1) * (B * C)
             /\ B * C \in {100, 1000, 10000}
  <2>1. CASE C = 10
      BY <1>2, <2>1
  <2>2. CASE C = 100
      BY <1>2, <2>2
  <2> QED BY <2>1, <2>2
<1> QED BY <1>1, <1>2

(* The number lies between its first part and the next, times the weight. *)
LEMMA WeightBounds ==
    ASSUME NEW v \in Versions
    PROVE  /\ v[1] \in Nat /\ Weight(v) \in {1, 10, 100, 1000, 10000}
           /\ v[1] * Weight(v) <= Number(v) /\ Number(v) < (v[1] + 1) * Weight(v)
<1>1. PICK n \in 1..3 : v \in [1..n -> 0..99] /\ Len(v) = n
    BY VersionParts
<1>2. \A i \in 1..n : v[i] \in Nat /\ v[i] < Base(v[i]) /\ Base(v[i]) \in {10, 100}
  <2>1. \A i \in 1..n : v[i] \in 0..99
      BY <1>1
  <2> QED BY <2>1, BaseBounds, Zenon
<1>3. CASE n = 1
    BY <1>1, <1>2, <1>3 DEF Number, Weight
<1>4. CASE n = 2
  <2>1. Number(v) = v[1] * Base(v[2]) + v[2] /\ Weight(v) = Base(v[2])
      BY <1>1, <1>4 DEF Number, Weight
  <2>2. v[1] \in Nat /\ v[2] \in Nat /\ v[2] < Base(v[2]) /\ Base(v[2]) \in {10, 100}
      BY <1>2, <1>4
  <2> QED BY <2>1, <2>2, Weighed
<1>5. CASE n = 3
  <2>1. Number(v) = (v[1] * Base(v[2]) + v[2]) * Base(v[3]) + v[3] /\ Weight(v) = Base(v[2]) * Base(v[3])
      BY <1>1, <1>5 DEF Number, Weight
  <2>2. /\ v[1] \in Nat /\ v[2] \in Nat /\ v[2] < Base(v[2]) /\ Base(v[2]) \in {10, 100}
        /\ v[3] \in Nat /\ v[3] < Base(v[3]) /\ Base(v[3]) \in {10, 100}
      BY <1>2, <1>5
  <2> QED BY <2>1, <2>2, Weighed
<1> QED BY <1>3, <1>4, <1>5

(* Versions of whatever shapes, as tests.py makes numbers of them: one     *)
(* whose first part is lower does not compare as the same or newer unless  *)
(* it has more digits behind that part.                                    *)
THEOREM FirstPartDecides ==
    \A v, w \in Versions : Number(v) >= Number(w) => v[1] >= w[1] \/ Weight(v) > Weight(w)
<1> SUFFICES ASSUME NEW v \in Versions, NEW w \in Versions, v[1] < w[1], Weight(v) <= Weight(w)
             PROVE  Number(v) < Number(w)
    BY WeightBounds, NumberIsNat
<1>1. /\ Number(v) < (v[1] + 1) * Weight(v) /\ w[1] * Weight(w) <= Number(w)
      /\ v[1] \in Nat /\ w[1] \in Nat /\ Weight(v) \in Nat /\ Weight(w) \in Nat
    BY WeightBounds
<1>2. (v[1] + 1) * Weight(v) <= w[1] * Weight(w)
  <2> DEFINE x == v[1] + 1
             y == w[1]
             p == Weight(v)
             q == Weight(w)
  <2>1. x \in Nat /\ y \in Nat /\ p \in Nat /\ q \in Nat /\ x <= y /\ p <= q
      BY <1>1
  <2> HIDE DEF x, y, p, q
  <2>2. x * p <= y * p /\ y * p <= y * q
      BY <2>1
  <2>3. x * p \in Nat /\ y * p \in Nat /\ y * q \in Nat
      BY <2>1
  <2>4. x * p <= y * q
      BY <2>2, <2>3
  <2> QED BY <2>4 DEF x, y, p, q
<1>3. Number(v) \in Nat /\ Number(w) \in Nat /\ (v[1] + 1) * Weight(v) \in Nat /\ w[1] * Weight(w) \in Nat
    BY <1>1, NumberIsNat
<1> QED BY <1>1, <1>2, <1>3

(* What image_at_least() says of any image and any list, as the invariant  *)
(* of the run has it.                                                      *)
THEOREM VersionsCompareHolds == Spec => []VersionsCompare
<1>1. ASSUME NEW image \in SomeImages, NEW versions \in SomeLists
      PROVE  LET v == image.version
                 asked == {versions[i].version :
                               i \in {n \in DOMAIN versions : versions[n].name = image.name}}
                 passes == AtLeast(image, versions)
             IN  /\ v = <<>> => (passes <=> asked # {})
                 /\ v # <<>> /\ (\A w \in asked : Alike(v, w)) => (passes <=> \E w \in asked : Later(v, w))
                 /\ v # <<>> /\ passes => \E w \in asked : v[1] >= w[1] \/ Weight(v) > Weight(w)
                 /\ v # <<>> /\ ~passes => \A w \in asked : v[1] <= w[1] \/ Weight(v) < Weight(w)
  <2> DEFINE v == image.version
             asked == {versions[i].version :
                           i \in {n \in DOMAIN versions : versions[n].name = image.name}}
             passes == AtLeast(image, versions)
  <2>1. asked \subseteq Versions
    <3>1. \A i \in DOMAIN versions : versions[i].version \in Versions
        BY ListVersions
    <3> QED BY <3>1
  <2>2. v # <<>> => v \in Versions
      BY SomeInVersions DEF SomeImages
  <2>3. passes <=> \E w \in asked : v # <<>> => Number(v) >= Number(w)
      BY DEF AtLeast
  <2> HIDE DEF v, asked, passes
  <2>4. ASSUME v # <<>>, \A w \in asked : Alike(v, w)
        PROVE  passes <=> \E w \in asked : Later(v, w)
      BY <2>1, <2>2, <2>3, <2>4, NumberIsLexicographic
  <2>5. ASSUME v # <<>>, passes
        PROVE  \E w \in asked : v[1] >= w[1] \/ Weight(v) > Weight(w)
      BY <2>1, <2>2, <2>3, <2>5, FirstPartDecides
  <2>6. ASSUME v # <<>>, ~passes, NEW w \in asked
        PROVE  v[1] <= w[1] \/ Weight(v) < Weight(w)
    <3>1. Number(w) >= Number(v)
        BY <2>1, <2>2, <2>3, <2>6, NumberIsNat
    <3>2. w[1] >= v[1] \/ Weight(w) > Weight(v)
        BY <2>1, <2>2, <2>6, <3>1, FirstPartDecides
    <3> QED BY <2>1, <2>2, <2>6, <3>2, WeightBounds
  <2>7. v = <<>> => (passes <=> asked # {})
      BY <2>3
  <2> QED BY <2>4, <2>5, <2>6, <2>7 DEF v, asked, passes
<1>2. VersionsCompare
    BY <1>1 DEF VersionsCompare
<1> QED BY <1>2, PTL

-----------------------------------------------------------------------------
(* The console log of a boot: three lines for every test, in order. *)
LogLines == [mark : {"starting", "ok", "not ok", "end"}, name : TestNames \cup {"output"}]

LEMMA TestLinesType ==
    ASSUME NEW t \in SomeTests
    PROVE  /\ TestLines(t) \in Seq(LogLines) /\ Len(TestLines(t)) = 3
           /\ TestLines(t)[1] = [mark |-> "starting", name |-> t.name]
           /\ TestLines(t)[2] = [mark |-> t.result, name |-> "output"]
           /\ TestLines(t)[3] = [mark |-> "end", name |-> t.name]
<1>1. /\ Len(TestLines(t)) = 3
      /\ TestLines(t)[1] = [mark |-> "starting", name |-> t.name]
      /\ TestLines(t)[2] = [mark |-> t.result, name |-> "output"]
      /\ TestLines(t)[3] = [mark |-> "end", name |-> t.name]
    BY DEF TestLines
<1>2. t.name \in TestNames /\ t.result \in {"ok", "not ok"}
    BY DEF SomeTests
<1>3. TestLines(t) \in [1..3 -> LogLines]
  <2> DEFINE a == [mark |-> "starting", name |-> t.name]
             b == [mark |-> t.result, name |-> "output"]
             c == [mark |-> "end", name |-> t.name]
  <2>1. a \in LogLines /\ b \in LogLines /\ c \in LogLines
      BY <1>2 DEF LogLines
  <2>2. TestLines(t) = <<a, b, c>>
      BY DEF TestLines
  <2> HIDE DEF a, b, c
  <2> QED BY <2>1, <2>2
<1> QED BY <1>1, <1>3, SeqDef

LEMMA ConsoleUnfold ==
    ASSUME NEW tests \in Seq(SomeTests), NEW n \in Nat, n = Len(tests)
    PROVE  \E f : /\ Console(tests) = f[n]
                  /\ f = [i \in 0..n |->
                            IF i = 0 THEN <<>> ELSE f[i - 1] \o TestLines(tests[i])]
<1> DEFINE Unfolds(m, f) ==
        f = [i \in 0..m |-> IF i = 0 THEN <<>> ELSE f[i - 1] \o TestLines(tests[i])]
           S == {m \in Nat : \E f : Unfolds(m, f)}
<1>1. 0 \in S
  <2>1. Unfolds(0, [i \in 0..0 |-> <<>>])
      BY SMT
  <2> QED BY <2>1
<1>2. ASSUME NEW m \in Nat, m \in S PROVE m + 1 \in S
  <2>1. PICK f : Unfolds(m, f)
      BY <1>2
  <2> DEFINE h == [i \in 0..(m + 1) |->
                        IF i = m + 1 THEN f[m] \o TestLines(tests[m + 1]) ELSE f[i]]
  <2>2. ASSUME NEW i \in 0..(m + 1)
        PROVE  h[i] = IF i = 0 THEN <<>> ELSE h[i - 1] \o TestLines(tests[i])
    <3>1. CASE i = m + 1
        BY <3>1
    <3>2. CASE i \in 0..m
      <4>1. h[i] = f[i] /\ i # m + 1 /\ (i # 0 => h[i - 1] = f[i - 1])
          BY <3>2
      <4> QED BY <2>1, <3>2, <4>1
    <3> QED BY <3>1, <3>2
  <2> DEFINE G == [i \in 0..(m + 1) |->
                        IF i = 0 THEN <<>> ELSE h[i - 1] \o TestLines(tests[i])]
  <2>3. /\ \A i \in 0..(m + 1) : G[i] = h[i]
        /\ G = [i \in 0..(m + 1) |-> G[i]] /\ h = [i \in 0..(m + 1) |-> h[i]]
      BY <2>2
  <2>4. h = G
    <3> HIDE DEF G, h
    <3> QED BY <2>3
  <2> HIDE DEF h
  <2>5. Unfolds(m + 1, h)
      BY <2>4, Zenon
  <2>6. m + 1 \in Nat /\ \E ff : Unfolds(m + 1, ff)
      BY <2>5
  <2> QED BY <2>6, Zenon
<1> HIDE DEF S
<1>3. Nat \subseteq S
    BY <1>1, <1>2, NatInd
<1>4. \E f : Unfolds(n, f)
    BY <1>3 DEF S
<1> DEFINE F == CHOOSE f : Unfolds(n, f)
<1>5. Unfolds(n, F)
    BY <1>4
<1>6. Console(tests) = F[n]
    BY DEF Console
<1> QED BY <1>5, <1>6

(* The first m tests are in log, and nothing else. *)
HoldsTests(log, tests, m) ==
    /\ log \in Seq(LogLines) /\ Len(log) = 3 * m
    /\ \A i \in 1..m :
        /\ log[3 * i - 2] = [mark |-> "starting", name |-> tests[i].name]
        /\ log[3 * i - 1] = [mark |-> tests[i].result, name |-> "output"]
        /\ log[3 * i] = [mark |-> "end", name |-> tests[i].name]

LEMMA HoldsOneMore ==
    ASSUME NEW tests \in Seq(SomeTests), NEW m \in Nat, m + 1 \in 1..Len(tests), NEW log,
           HoldsTests(log, tests, m)
    PROVE  HoldsTests(log \o TestLines(tests[m + 1]), tests, m + 1)
<1> DEFINE t == tests[m + 1]
           new == TestLines(t)
           both == log \o new
<1>1. t \in SomeTests
    BY ElementOfSeq
<1>2. /\ new \in Seq(LogLines) /\ Len(new) = 3
      /\ new[1] = [mark |-> "starting", name |-> t.name]
      /\ new[2] = [mark |-> t.result, name |-> "output"]
      /\ new[3] = [mark |-> "end", name |-> t.name]
    BY <1>1, TestLinesType
<1>3. log \in Seq(LogLines) /\ Len(log) = 3 * m
    BY DEF HoldsTests
<1> HIDE DEF new
<1>4. /\ both \in Seq(LogLines) /\ Len(both) = Len(log) + Len(new)
      /\ \A k \in 1..(Len(log) + Len(new)) :
            both[k] = IF k <= Len(log) THEN log[k] ELSE new[k - Len(log)]
    BY <1>2, <1>3, ConcatProperties
<1> HIDE DEF both, t
<1>5. /\ \A k \in 1..(3 * m) : both[k] = log[k]
      /\ both[3 * m + 1] = new[1] /\ both[3 * m + 2] = new[2] /\ both[3 * m + 3] = new[3]
    BY <1>2, <1>3, <1>4
<1>6. ASSUME NEW i \in 1..(m + 1)
      PROVE  /\ both[3 * i - 2] = [mark |-> "starting", name |-> tests[i].name]
             /\ both[3 * i - 1] = [mark |-> tests[i].result, name |-> "output"]
             /\ both[3 * i] = [mark |-> "end", name |-> tests[i].name]
  <2>1. CASE i = m + 1
    <3>1. 3 * i - 2 = 3 * m + 1 /\ 3 * i - 1 = 3 * m + 2 /\ 3 * i = 3 * m + 3
        BY <2>1
    <3>2. tests[i] = t
        BY <2>1 DEF t
    <3> QED BY <1>2, <1>5, <3>1, <3>2
  <2>2. CASE i \in 1..m
    <3>1. 3 * i - 2 \in 1..(3 * m) /\ 3 * i - 1 \in 1..(3 * m) /\ 3 * i \in 1..(3 * m)
        BY <2>2
    <3> QED BY <1>5, <2>2, <3>1 DEF HoldsTests
  <2> QED BY <2>1, <2>2
<1>7. Len(both) = 3 * (m + 1)
    BY <1>2, <1>3, <1>4
<1>8. HoldsTests(both, tests, m + 1)
    BY <1>4, <1>6, <1>7 DEF HoldsTests
<1> QED BY <1>8 DEF both, new, t

LEMMA ConsoleHolds ==
    ASSUME NEW tests \in Seq(SomeTests)
    PROVE  HoldsTests(Console(tests), tests, Len(tests))
<1>n. PICK n \in Nat : n = Len(tests)
    BY LenProperties
<1>1. PICK f : /\ Console(tests) = f[n]
               /\ f = [i \in 0..n |->
                         IF i = 0 THEN <<>> ELSE f[i - 1] \o TestLines(tests[i])]
    BY <1>n, ConsoleUnfold
<1>2. f[0] = <<>> /\ \A i \in 1..n : f[i] = f[i - 1] \o TestLines(tests[i])
    BY <1>1
<1> DEFINE S == {m \in Nat : m <= n => HoldsTests(f[m], tests, m)}
<1>3. 0 \in S
  <2>1. HoldsTests(<<>>, tests, 0)
      BY EmptySeq DEF HoldsTests
  <2> QED BY <1>2, <2>1
<1>4. ASSUME NEW m \in Nat, m \in S PROVE m + 1 \in S
  <2> SUFFICES ASSUME m + 1 <= n PROVE HoldsTests(f[m + 1], tests, m + 1)
      OBVIOUS
  <2>1. HoldsTests(f[m], tests, m) /\ m + 1 \in 1..Len(tests)
      BY <1>4, <1>n
  <2>2. f[m + 1] = f[m] \o TestLines(tests[m + 1])
    <3>1. m + 1 \in 1..n /\ (m + 1) - 1 = m
        OBVIOUS
    <3> QED BY <1>2, <3>1
  <2> QED BY <2>1, <2>2, HoldsOneMore
<1>5. Nat \subseteq S
  <2> HIDE DEF S
  <2> QED BY <1>3, <1>4, NatInd
<1> QED BY <1>1, <1>5, <1>n

(* Which test a line of the log is of. *)
LEMMA Thirds ==
    ASSUME NEW n \in Nat, NEW j \in 1..(3 * n)
    PROVE  \E i \in 1..n : j = 3 * i - 2 \/ j = 3 * i - 1 \/ j = 3 * i
<1> DEFINE S == {m \in Nat : m + 1 <= 3 * n => \E i \in 1..n : m + 1 = 3 * i - 2 \/ m + 1 = 3 * i - 1
                                                             \/ m + 1 = 3 * i}
<1>1. 0 \in S
  <2>1. 0 + 1 <= 3 * n => 1 \in 1..n /\ 0 + 1 = 3 * 1 - 2
      OBVIOUS
  <2> QED BY <2>1
<1>2. ASSUME NEW m \in Nat, m \in S PROVE m + 1 \in S
  <2> SUFFICES ASSUME m + 1 + 1 <= 3 * n
               PROVE  \E i \in 1..n : m + 1 + 1 = 3 * i - 2 \/ m + 1 + 1 = 3 * i - 1
                                       \/ m + 1 + 1 = 3 * i
      OBVIOUS
  <2>1. PICK i \in 1..n : m + 1 = 3 * i - 2 \/ m + 1 = 3 * i - 1 \/ m + 1 = 3 * i
      BY <1>2
  <2>2. CASE m + 1 = 3 * i
    <3>1. i + 1 \in 1..n /\ m + 1 + 1 = 3 * (i + 1) - 2
        BY <2>2
    <3> QED BY <3>1
  <2>3. CASE m + 1 # 3 * i
      BY <2>1, <2>3
  <2> QED BY <2>2, <2>3
<1>3. Nat \subseteq S
  <2> HIDE DEF S
  <2> QED BY <1>1, <1>2, NatInd
<1>4. j - 1 \in Nat /\ j - 1 + 1 = j /\ j <= 3 * n
    OBVIOUS
<1>5. j - 1 \in S
    BY <1>3, <1>4
<1> QED BY <1>4, <1>5

(* run.sh of a test judges that test's own output, or nothing if it does   *)
(* not judge, with any number of tests in one boot, if no name is the      *)
(* beginning of another.                                                   *)
THEOREM RunShIsOwn ==
    \A tests \in Seq(SomeTests) :
        (\A i, k \in DOMAIN tests : i # k => ~Matches(tests[i].name, tests[k].name)) =>
            \A i \in DOMAIN tests :
                RunShPasses(Console(tests), tests[i].name) <=>
                    (Judges(tests[i].name) => tests[i].result = "ok")
<1> SUFFICES ASSUME NEW tests \in Seq(SomeTests),
                    \A i, k \in DOMAIN tests :
                        i # k => ~Matches(tests[i].name, tests[k].name),
                    NEW i \in DOMAIN tests
             PROVE  RunShPasses(Console(tests), tests[i].name) <=>
                        (Judges(tests[i].name) => tests[i].result = "ok")
    OBVIOUS
<1> DEFINE log == Console(tests)
           name == tests[i].name
<1>n. PICK n \in Nat : n = Len(tests) /\ DOMAIN tests = 1..n
    BY LenProperties
<1>1. /\ DOMAIN log = 1..(3 * n)
      /\ \A k \in 1..n :
            /\ log[3 * k - 2] = [mark |-> "starting", name |-> tests[k].name]
            /\ log[3 * k - 1] = [mark |-> tests[k].result, name |-> "output"]
            /\ log[3 * k] = [mark |-> "end", name |-> tests[k].name]
    BY <1>n, ConsoleHolds, LenProperties DEF HoldsTests
<1>2. \A k \in 1..n : tests[k].result \in {"ok", "not ok"}
  <2>1. \A k \in 1..n : tests[k] \in SomeTests
      BY <1>n, ElementOfSeq
  <2> QED BY <2>1 DEF SomeTests
<1> HIDE DEF log
<1>m. ASSUME NEW k \in 1..n
      PROVE  /\ log[3 * k - 2].mark = "starting" /\ log[3 * k - 2].name = tests[k].name
             /\ log[3 * k - 1].mark = tests[k].result
             /\ log[3 * k].mark = "end" /\ log[3 * k].name = tests[k].name
  <2> DEFINE a == log[3 * k - 2]
             b == log[3 * k - 1]
             c == log[3 * k]
  <2>1. /\ a = [mark |-> "starting", name |-> tests[k].name]
        /\ b = [mark |-> tests[k].result, name |-> "output"]
        /\ c = [mark |-> "end", name |-> tests[k].name]
      BY <1>1
  <2> HIDE DEF a, b, c
  <2>2. /\ a.mark = "starting" /\ a.name = tests[k].name /\ b.mark = tests[k].result
        /\ c.mark = "end" /\ c.name = tests[k].name
      BY <2>1
  <2> QED BY <2>2 DEF a, b, c
<1>3. i \in 1..n /\ 3 * i - 2 \in 1..(3 * n) /\ 3 * i - 1 \in 1..(3 * n) /\ 3 * i \in 1..(3 * n)
    BY <1>n
(* The markers that match are the test's own. *)
<1>4. ASSUME NEW s \in 1..(3 * n), log[s].mark = "starting", Matches(name, log[s].name)
      PROVE  s = 3 * i - 2
  <2>1. PICK k \in 1..n : s = 3 * k - 2 \/ s = 3 * k - 1 \/ s = 3 * k
      BY Thirds
  <2>2. s = 3 * k - 2
      BY <1>m, <1>2, <1>4, <2>1
  <2>3. log[s].name = tests[k].name
      BY <1>m, <2>2
  <2>4. k = i
      BY <1>n, <1>3, <1>4, <2>3
  <2> QED BY <2>2, <2>4
<1>5. 3 * i - 1 \in Extracted(log, name)
  <2>1. /\ 3 * i - 2 \in 1..(3 * i - 1) /\ \A e \in (3 * i - 2)..(3 * i - 1 - 1) : e = 3 * i - 2
      BY <1>3
  <2>2. log[3 * i - 2].mark = "starting" /\ log[3 * i - 2].name = name
      BY <1>m, <1>3
  <2>3. Matches(name, name)
      BY DEF Matches
  <2>4. \A e \in (3 * i - 2)..(3 * i - 1 - 1) : log[e].mark # "end"
      BY <2>1, <2>2
  <2> QED BY <1>1, <1>3, <2>1, <2>2, <2>3, <2>4 DEF Extracted
<1>6. ASSUME NEW j \in Extracted(log, name)
      PROVE  j = 3 * i - 2 \/ j = 3 * i - 1 \/ j = 3 * i
  <2>1. j \in 1..(3 * n)
      BY <1>1 DEF Extracted
  <2>2. PICK s \in 1..j : /\ log[s].mark = "starting" /\ Matches(name, log[s].name)
                          /\ \A e \in s..(j - 1) :
                                ~(log[e].mark = "end" /\ Matches(name, log[e].name))
      BY <1>6 DEF Extracted
  <2>3. s = 3 * i - 2
      BY <1>4, <2>1, <2>2
  <2>4. log[3 * i].mark = "end" /\ Matches(name, log[3 * i].name)
      BY <1>m, <1>3 DEF Matches
  <2>5. ~(3 * i \in s..(j - 1))
      BY <2>2, <2>4
  <2> QED BY <1>3, <2>1, <2>2, <2>3, <2>5
<1>7. /\ log[3 * i - 2].mark = "starting" /\ log[3 * i - 1].mark = tests[i].result
      /\ log[3 * i].mark = "end"
    BY <1>m, <1>3
<1>8. RunShPasses(log, name) <=> (Judges(name) => log[3 * i - 1].mark # "not ok")
    BY <1>5, <1>6, <1>7 DEF RunShPasses
<1>9. RunShPasses(log, name) <=> (Judges(name) => tests[i].result = "ok")
    BY <1>2, <1>3, <1>7, <1>8
<1> QED BY <1>9 DEF log

(* The same for the tests that the run of the model tries. *)
THEOREM VerdictIsOwnHolds == Spec => []VerdictIsOwn
<1>1. \A m \in 1..2 : [1..m -> SomeTests] \subseteq Seq(SomeTests)
    BY SeqDef
<1>2. VerdictIsOwn
    BY <1>1, RunShIsOwn DEF VerdictIsOwn
<1> QED BY <1>2, PTL

-----------------------------------------------------------------------------
(* The symbol table: addresses do not decrease, as nm -n prints them and   *)
(* as a line without one takes that of the line before.                    *)
Symbols == [addr : Nat, name : Names, type : {"T", "w"}]
Addr(i) == symbols[i].addr
IsReal(i) == symbols[i].type # "w"
LengthAt(i) == NameLength(symbols[i].name)

TableInv ==
    /\ symbols \in Seq(Symbols)
    /\ last_addr \in Nat
    /\ \A i \in 1..Len(symbols) : Addr(i) <= last_addr
    /\ \A i, k \in 1..Len(symbols) : i <= k => Addr(i) <= Addr(k)

(* A variant is that of the last entry printed. *)
Variants == {"never", "always", "if set", "if clear"}
PrintedInv ==
    /\ variant \in Variants \cup {"unbound"}
    /\ printed \in Seq([entry : Entries, variant : Variants])
    /\ variant = "unbound" => printed = <<>>
    /\ variant # "unbound" => printed # <<>> /\ printed[Len(printed)].variant = variant

DumpInv == TableInv /\ PrintedInv /\ VariantAccounted

LEMMA DumpInitInv == DumpInit => DumpInv
BY EmptySeq DEF DumpInit, DumpInv, TableInv, PrintedInv, VariantAccounted, Addr

LEMMA ReadSymbolInv ==
    ASSUME TableInv, NEW l \in NmLines, ReadSymbol(l)
    PROVE  TableInv'
<1> DEFINE addr == IF l.addr = Undefined THEN last_addr ELSE l.addr
           sym == [l EXCEPT !.addr = addr]
<1>1. /\ symbols' = Append(symbols, sym) /\ last_addr' = addr
      /\ IF l.addr = Undefined THEN last_addr = 0 ELSE l.addr >= last_addr
    BY DEF ReadSymbol
<1>2. addr \in Nat /\ addr >= last_addr
    BY <1>1, DumpBoundsAssumption DEF NmLines, TableInv, Undefined
<1>3. sym \in Symbols /\ sym.addr = addr
    BY <1>2 DEF NmLines, Symbols
<1> HIDE DEF sym, addr
<1>n. PICK n \in Nat : n = Len(symbols)
    BY LenProperties DEF TableInv
<1>4. /\ symbols' \in Seq(Symbols) /\ Len(symbols') = n + 1
      /\ \A i \in 1..n : symbols'[i] = symbols[i]
      /\ symbols'[n + 1] = sym
    BY <1>1, <1>3, <1>n, AppendProperties DEF TableInv
<1>5. ASSUME NEW i \in 1..(n + 1)
      PROVE  /\ i \in 1..n => symbols'[i].addr = Addr(i) /\ Addr(i) <= last_addr /\ Addr(i) \in Nat
             /\ i = n + 1 => symbols'[i].addr = addr
  <2>1. \A k \in 1..n : symbols[k] \in Symbols
      BY <1>n, ElementOfSeq DEF TableInv
  <2> QED BY <1>3, <1>4, <1>n, <2>1 DEF TableInv, Addr, Symbols
<1>6. \A i \in 1..(n + 1) : i \in 1..n \/ i = n + 1
    OBVIOUS
<1>7. \A i \in 1..(n + 1) : symbols'[i].addr <= addr
    BY <1>2, <1>5, <1>6 DEF TableInv
<1>8. ASSUME NEW i \in 1..(n + 1), NEW k \in 1..(n + 1), i <= k
      PROVE  symbols'[i].addr <= symbols'[k].addr
  <2>1. CASE k = n + 1
      BY <1>5, <1>7, <2>1
  <2>2. CASE k \in 1..n
    <3>1. i \in 1..n
        BY <1>8, <2>2
    <3> QED BY <1>5, <1>8, <1>n, <2>2, <3>1 DEF TableInv
  <2> QED BY <1>6, <2>1, <2>2
<1> QED BY <1>1, <1>2, <1>4, <1>7, <1>8 DEF TableInv, Addr

(* What is said of an entry is true, or, where dump_fixups() has no words  *)
(* for it, what was said before is kept, and is true of no entry but one   *)
(* that is always patched.                                                 *)
Truth(e, said) ==
    Says(said, e) = Kept(e) <=> ~Unsaid(e) \/ (said = "always" /\ ~(e.value \subseteq e.mask))

LEMMA WordsAreTrue ==
    ASSUME NEW e \in Entries, NEW was, ~Unsaid(e)
    PROVE  VariantOf(e, was) \in Variants /\ Truth(e, VariantOf(e, was))
<1>1. e.mask \in SUBSET Bits /\ e.value \in SUBSET Bits
    BY DEF Entries
<1>2. CASE e.mask = {} /\ e.value = {}
  <2>1. VariantOf(e, was) = "never" /\ Says("never", e) = SUBSET Bits
      BY <1>2 DEF VariantOf, Says
  <2>2. Kept(e) = SUBSET Bits
      BY <1>2 DEF Kept
  <2> QED BY <2>1, <2>2 DEF Truth, Variants
<1>3. CASE e.mask = {} /\ e.value # {}
  <2>1. VariantOf(e, was) = "always" /\ Says("always", e) = {}
      BY <1>3 DEF VariantOf, Says
  <2>2. Kept(e) = {}
      BY <1>3 DEF Kept
  <2> QED BY <2>1, <2>2 DEF Truth, Variants
<1>4. CASE e.mask # {} /\ e.value = e.mask
  <2>1. VariantOf(e, was) = "if set" /\ Says("if set", e) = {bits \in SUBSET Bits : e.mask \subseteq bits}
      BY <1>4 DEF VariantOf, Says
  <2>2. Kept(e) = {bits \in SUBSET Bits : e.mask \subseteq bits}
      BY <1>4 DEF Kept
  <2> QED BY <2>1, <2>2 DEF Truth, Variants
<1>5. CASE e.mask # {} /\ e.value = {}
  <2>1. /\ VariantOf(e, was) = "if clear"
        /\ Says("if clear", e) = {bits \in SUBSET Bits : e.mask \cap bits = {}}
      BY <1>5 DEF VariantOf, Says
  <2>2. Kept(e) = {bits \in SUBSET Bits : e.mask \cap bits = {}}
      BY <1>5 DEF Kept
  <2> QED BY <2>1, <2>2 DEF Truth, Variants
<1> QED BY <1>2, <1>3, <1>4, <1>5 DEF Unsaid

LEMMA OldWordsAreFalse ==
    ASSUME NEW e \in Entries, Unsaid(e), NEW was
    PROVE  VariantOf(e, was) = was /\ (was \in Variants => Truth(e, was))
<1>1. e.mask \in SUBSET Bits /\ e.value \in SUBSET Bits
    BY DEF Entries
<1>2. e.mask # {} /\ e.value # {} /\ e.value # e.mask
    BY DEF Unsaid
<1>3. VariantOf(e, was) = was
    BY <1>2 DEF VariantOf
<1>4. e.value \subseteq e.mask => e.value \in Kept(e)
    BY <1>1 DEF Kept
<1>5. ~(e.value \subseteq e.mask) => Kept(e) = {}
    BY DEF Kept
<1>6. {} \notin Kept(e)
    BY <1>2 DEF Kept
<1>7. e.mask \notin Kept(e)
    BY <1>2 DEF Kept
<1>8. CASE was = "never"
  <2>1. {} \in Says(was, e)
      BY <1>8 DEF Says
  <2> QED BY <1>3, <1>6, <1>8, <2>1 DEF Truth, Unsaid
<1>9. CASE was = "always"
  <2>1. Says(was, e) = {}
      BY <1>9 DEF Says
  <2> QED BY <1>3, <1>4, <1>5, <1>9, <2>1 DEF Truth, Unsaid
<1>10. CASE was = "if set"
  <2>1. Says(was, e) = {bits \in SUBSET Bits : e.mask \subseteq bits}
      BY <1>10 DEF Says
  <2>2. e.mask \in Says(was, e)
      BY <1>1, <2>1
  <2> QED BY <1>3, <1>7, <1>10, <2>2 DEF Truth, Unsaid
<1>11. CASE was = "if clear"
  <2>1. Says(was, e) = {bits \in SUBSET Bits : e.mask \cap bits = {}}
      BY <1>11 DEF Says
  <2>2. {} \in Says(was, e)
      BY <2>1
  <2> QED BY <1>3, <1>6, <1>11, <2>2 DEF Truth, Unsaid
<1> QED BY <1>3, <1>8, <1>9, <1>10, <1>11 DEF Variants

(* One more entry is printed with what was said of the nearest entry       *)
(* before it, or of itself.                                                *)
LEMMA DumpFixupInv ==
    ASSUME PrintedInv, VariantAccounted, NEW e \in Entries, DumpFixup(e)
    PROVE  PrintedInv' /\ VariantAccounted'
<1>1. variant' = VariantOf(e, variant)
    BY DEF DumpFixup
<1>2. CASE variant' = "unbound"
  <2>1. printed' = printed
      BY <1>2 DEF DumpFixup
  <2>2. variant = "unbound"
      BY <1>1, <1>2, WordsAreTrue, OldWordsAreFalse DEF Variants
  <2> QED BY <1>2, <2>1, <2>2 DEF PrintedInv, VariantAccounted
<1>3. CASE variant' # "unbound"
  <2> DEFINE line == [entry |-> e, variant |-> variant']
  <2>1. printed' = Append(printed, line)
      BY <1>3 DEF DumpFixup
  <2>2. variant' \in Variants
      BY <1>1, <1>3, WordsAreTrue, OldWordsAreFalse DEF PrintedInv
  <2>3. line \in [entry : Entries, variant : Variants]
      BY <2>2
  <2>4. line.entry = e /\ line.variant = variant'
      OBVIOUS
  <2> HIDE DEF line
  <2>n. PICK n \in Nat : n = Len(printed)
      BY LenProperties DEF PrintedInv
  <2>5. /\ printed' \in Seq([entry : Entries, variant : Variants]) /\ Len(printed') = n + 1
        /\ \A i \in 1..n : printed'[i] = printed[i]
        /\ printed'[n + 1] = line
      BY <2>1, <2>3, <2>n, AppendProperties DEF PrintedInv
  <2>6. printed' # <<>>
      BY <2>5, EmptySeq
  <2>7. PrintedInv'
      BY <1>3, <2>2, <2>4, <2>5, <2>6 DEF PrintedInv
  <2>8. DOMAIN printed = 1..n /\ DOMAIN printed' = 1..(n + 1)
      BY <2>n, <2>5, LenProperties DEF PrintedInv
  <2>9. ASSUME NEW i \in 1..n
        PROVE  /\ Truth(printed'[i].entry, printed'[i].variant)
               /\ Unsaid(printed'[i].entry) => \E k \in 1..(i - 1) :
                     /\ ~Unsaid(printed'[k].entry) /\ printed'[k].variant = printed'[i].variant
                     /\ \A m \in (k + 1)..i : Unsaid(printed'[m].entry)
    <3>1. \A m \in 1..i : printed'[m] = printed[m]
        BY <2>5
    <3>2. Truth(printed[i].entry, printed[i].variant)
        BY <2>8 DEF VariantAccounted, Truth
    <3>3. Unsaid(printed[i].entry) => \E k \in 1..(i - 1) :
              /\ ~Unsaid(printed[k].entry) /\ printed[k].variant = printed[i].variant
              /\ \A m \in (k + 1)..i : Unsaid(printed[m].entry)
        BY <2>8 DEF VariantAccounted
    <3>4. i \in 1..i /\ \A k \in 1..(i - 1) : k \in 1..i /\ \A m \in (k + 1)..i : m \in 1..i
        OBVIOUS
    <3> QED BY <3>1, <3>2, <3>3, <3>4
  <2>10. /\ Truth(printed'[n + 1].entry, printed'[n + 1].variant)
         /\ Unsaid(printed'[n + 1].entry) => \E k \in 1..(n + 1 - 1) :
                /\ ~Unsaid(printed'[k].entry) /\ printed'[k].variant = printed'[n + 1].variant
                /\ \A m \in (k + 1)..(n + 1) : Unsaid(printed'[m].entry)
    <3>0. printed'[n + 1].entry = e /\ printed'[n + 1].variant = variant'
        BY <2>4, <2>5
    <3>1. CASE ~Unsaid(e)
        BY <1>1, <3>0, <3>1, WordsAreTrue
    <3>2. CASE Unsaid(e)
      <4>1. variant' = variant /\ Truth(e, variant')
          BY <1>1, <2>2, <3>2, OldWordsAreFalse
      <4>2. printed # <<>> /\ printed[n].variant = variant
          BY <1>3, <4>1, <2>n DEF PrintedInv
      <4>3. n \in 1..n
          BY <4>2, <2>n, EmptySeq DEF PrintedInv
      <4>4. printed'[n].variant = variant
          BY <2>5, <4>2, <4>3
      <4>5. \E k \in 1..n :
                /\ ~Unsaid(printed'[k].entry) /\ printed'[k].variant = variant
                /\ \A m \in (k + 1)..n : Unsaid(printed'[m].entry)
        <5>1. CASE Unsaid(printed'[n].entry)
          <6>1. PICK k \in 1..(n - 1) :
                    /\ ~Unsaid(printed'[k].entry) /\ printed'[k].variant = printed'[n].variant
                    /\ \A m \in (k + 1)..n : Unsaid(printed'[m].entry)
              BY <2>9, <4>3, <5>1
          <6>2. k \in 1..n
              OBVIOUS
          <6> QED BY <4>4, <6>1, <6>2
        <5>2. CASE ~Unsaid(printed'[n].entry)
          <6>1. (n + 1)..n = {}
              OBVIOUS
          <6> QED BY <4>3, <4>4, <5>2, <6>1
        <5> QED BY <5>1, <5>2
      <4>6. n + 1 - 1 = n /\ \A k \in 1..n : \A m \in (k + 1)..(n + 1) : m \in (k + 1)..n \/ m = n + 1
          OBVIOUS
      <4> QED BY <3>0, <3>2, <4>1, <4>5, <4>6
    <3> QED BY <3>1, <3>2
  <2>11. \A i \in 1..(n + 1) : i \in 1..n \/ i = n + 1
      OBVIOUS
  <2>12. VariantAccounted'
      BY <2>8, <2>9, <2>10, <2>11 DEF VariantAccounted, Truth
  <2> QED BY <2>7, <2>12
<1> QED BY <1>2, <1>3

LEMMA DumpNextInv == DumpInv /\ [DumpNext]_dumpVars => DumpInv'
<1> SUFFICES ASSUME DumpInv, [DumpNext]_dumpVars PROVE DumpInv'
    OBVIOUS
<1>1. ASSUME NEW l \in NmLines, ReadSymbol(l) PROVE DumpInv'
  <2>1. TableInv'
      BY <1>1, ReadSymbolInv DEF DumpInv
  <2> QED BY <1>1, <2>1 DEF DumpInv, ReadSymbol, PrintedInv, VariantAccounted
<1>2. ASSUME NEW e \in Entries, DumpFixup(e) PROVE DumpInv'
  <2>1. PrintedInv' /\ VariantAccounted'
      BY <1>2, DumpFixupInv DEF DumpInv
  <2> QED BY <1>2, <2>1 DEF DumpInv, DumpFixup, TableInv, Addr
<1>3. CASE UNCHANGED <<symbols, last_addr, variant, printed>>
    BY <1>3 DEF DumpInv, TableInv, Addr, PrintedInv, VariantAccounted
<1> QED BY <1>1, <1>2, <1>3 DEF DumpNext, ReadEnd, Finish, DumpFinished, dumpVars

(* The inductive invariant of the symbol table and of the dump. *)
THEOREM DumpInvHolds == DumpSpec => []DumpInv
BY DumpInitInv, DumpNextInv, PTL DEF DumpSpec

(* What dump_fixups() prints of an entry is true, but for an entry it has  *)
(* no words for: that is shown with what was said of the nearest one       *)
(* before it that there are words for.  In a section of any length.        *)
THEOREM VariantAccountedHolds == DumpSpec => []VariantAccounted
<1>1. DumpInv => VariantAccounted
    BY DEF DumpInv
<1> QED BY <1>1, DumpInvHolds, PTL

-----------------------------------------------------------------------------
(* The pass of find_addr(): after m symbols it remembers the first of the  *)
(* longest names at the highest address it has seen.                       *)
Pass(s, i) ==
    IF symbols[i].type = "w" THEN s
    ELSE [last_addr |-> symbols[i].addr, last_function |-> NextFunction(s, symbols[i])]

LEMMA SeenUnfold ==
    ASSUME NEW n \in Nat, n = Len(symbols)
    PROVE  /\ Seen[0] = [last_addr |-> 0, last_function |-> ""]
           /\ \A i \in 1..n : Seen[i] = Pass(Seen[i - 1], i)
<1> DEFINE start == [last_addr |-> 0, last_function |-> ""]
           Unfolds(m, f) == f = [i \in 0..m |-> IF i = 0 THEN start ELSE Pass(f[i - 1], i)]
           S == {m \in Nat : \E f : Unfolds(m, f)}
<1>1. 0 \in S
  <2>1. Unfolds(0, [i \in 0..0 |-> start])
    <3> HIDE DEF start
    <3> QED BY SMT
  <2> QED BY <2>1
<1>2. ASSUME NEW m \in Nat, m \in S PROVE m + 1 \in S
  <2>1. PICK f : Unfolds(m, f)
      BY <1>2
  <2> HIDE DEF start
  <2> DEFINE h == [i \in 0..(m + 1) |-> IF i = m + 1 THEN Pass(f[m], m + 1) ELSE f[i]]
  <2>2. ASSUME NEW i \in 0..(m + 1)
        PROVE  h[i] = IF i = 0 THEN start ELSE Pass(h[i - 1], i)
    <3>1. CASE i = m + 1
      <4>1. h[i] = Pass(f[m], m + 1) /\ h[i - 1] = f[m] /\ i # 0
          BY <3>1
      <4> QED BY <3>1, <4>1
    <3>2. CASE i \in 0..m
      <4>1. h[i] = f[i] /\ i # m + 1 /\ (i # 0 => h[i - 1] = f[i - 1])
          BY <3>2
      <4> QED BY <2>1, <3>2, <4>1
    <3> QED BY <3>1, <3>2
  <2> DEFINE G == [i \in 0..(m + 1) |-> IF i = 0 THEN start ELSE Pass(h[i - 1], i)]
  <2>3. /\ \A i \in 0..(m + 1) : G[i] = h[i]
        /\ G = [i \in 0..(m + 1) |-> G[i]] /\ h = [i \in 0..(m + 1) |-> h[i]]
      BY <2>2
  <2>4. h = G
    <3> HIDE DEF G, h
    <3> QED BY <2>3
  <2> HIDE DEF h
  <2>5. Unfolds(m + 1, h)
      BY <2>4, Zenon
  <2>6. m + 1 \in Nat /\ \E ff : Unfolds(m + 1, ff)
      BY <2>5
  <2> QED BY <2>6, Zenon
<1> HIDE DEF S
<1>3. Nat \subseteq S
    BY <1>1, <1>2, NatInd
<1>4. \E f : Unfolds(n, f)
    BY <1>3 DEF S
<1> DEFINE F == CHOOSE f : Unfolds(n, f)
<1>5. Unfolds(n, F)
    BY <1>4
<1>6. Seen = F
    BY DEF Seen, Pass
<1> HIDE DEF F, start
<1>7. F[0] = start /\ \A i \in 1..n : F[i] = Pass(F[i - 1], i)
    BY <1>5
<1> QED BY <1>6, <1>7 DEF start

Foremost(j, m) ==
    \A k \in 1..m :
        IsReal(k) => /\ Addr(k) <= Addr(j)
                     /\ Addr(k) = Addr(j) => LengthAt(k) <= LengthAt(j)
                     /\ Addr(k) = Addr(j) /\ k < j => LengthAt(k) < LengthAt(j)
Remembers(s, m) ==
    \/ /\ \A k \in 1..m : ~IsReal(k)
       /\ s = [last_addr |-> 0, last_function |-> ""]
    \/ \E j \in 1..m : /\ IsReal(j) /\ Foremost(j, m)
                       /\ s.last_addr = Addr(j) /\ s.last_function = symbols[j].name

LEMMA SymbolFacts ==
    ASSUME TableInv, NEW i \in 1..Len(symbols)
    PROVE  Addr(i) \in Nat /\ LengthAt(i) \in {1, 2}
<1>1. symbols[i] \in Symbols
    BY ElementOfSeq DEF TableInv
<1> QED BY <1>1 DEF Symbols, Names, NameLength, Addr, LengthAt

LEMMA PassRemembers ==
    ASSUME TableInv, NEW m \in Nat, m + 1 <= Len(symbols), NEW s, Remembers(s, m)
    PROVE  Remembers(Pass(s, m + 1), m + 1)
<1> DEFINE i == m + 1
           t == Pass(s, i)
<1>n. PICK n \in Nat : n = Len(symbols)
    BY LenProperties DEF TableInv
<1>1. \A k \in 1..n : Addr(k) \in Nat /\ LengthAt(k) \in {1, 2}
    BY <1>n, SymbolFacts
<1>2. i \in 1..n /\ \A k \in 1..i : k \in 1..n /\ (k \in 1..m \/ k = i)
    BY <1>n
<1>3. \A k \in 1..i : Addr(k) <= Addr(i)
    BY <1>n, <1>2 DEF TableInv
<1>i. /\ i \in 1..i /\ ~(i < i)
      /\ \A k \in 1..m : k \in 1..i /\ k \in 1..n /\ k # i /\ ~(i < k)
    BY <1>n
<1> HIDE DEF i
<1> SUFFICES Remembers(t, i)
    BY DEF i
<1>4. CASE ~IsReal(i)
  <2>1. t = s
      BY <1>4 DEF Pass, IsReal
  <2>2. CASE \A k \in 1..m : ~IsReal(k)
      BY <1>2, <1>i, <1>4, <2>1, <2>2 DEF Remembers
  <2>3. ASSUME NEW j \in 1..m, IsReal(j), Foremost(j, m),
               s.last_addr = Addr(j), s.last_function = symbols[j].name
        PROVE  Remembers(t, i)
    <3>1. j \in 1..i /\ Foremost(j, i)
        BY <1>2, <1>i, <1>4, <2>3 DEF Foremost
    <3> QED BY <2>1, <2>3, <3>1 DEF Remembers
  <2> QED BY <2>2, <2>3 DEF Remembers
<1>5. CASE IsReal(i)
  <2>1. t.last_addr = Addr(i) /\ t.last_function = NextFunction(s, symbols[i])
      BY <1>5 DEF Pass, IsReal, Addr
  <2>2. ASSUME Foremost(i, i), t.last_function = symbols[i].name PROVE Remembers(t, i)
      BY <1>i, <1>5, <2>1, <2>2 DEF Remembers
  <2>3. CASE /\ \A k \in 1..m : ~IsReal(k)
             /\ s = [last_addr |-> 0, last_function |-> ""]
    <3>1. NameLength(s.last_function) = 0
        BY <2>3 DEF NameLength
    <3>2. t.last_function = symbols[i].name
        BY <1>1, <1>2, <2>1, <3>1 DEF NextFunction, LengthAt
    <3>4. Addr(i) <= Addr(i) /\ LengthAt(i) <= LengthAt(i)
        BY <1>1, <1>2
    <3>3. Foremost(i, i)
        BY <1>2, <1>i, <2>3, <3>4 DEF Foremost
    <3> QED BY <2>2, <3>2, <3>3
  <2>4. ASSUME NEW j \in 1..m, IsReal(j), Foremost(j, m),
               s.last_addr = Addr(j), s.last_function = symbols[j].name
        PROVE  Remembers(t, i)
    <3>1. j \in 1..n /\ j \in 1..i
        BY <1>i
    <3>2. CASE Addr(i) = Addr(j) /\ LengthAt(i) <= LengthAt(j)
      <4>1. t.last_function = symbols[j].name
          BY <2>1, <2>4, <3>2 DEF NextFunction, Addr, LengthAt
      <4>2. Foremost(j, i)
          BY <1>1, <1>2, <1>i, <2>4, <3>1, <3>2 DEF Foremost
      <4> QED BY <2>1, <2>4, <3>1, <3>2, <4>1, <4>2 DEF Remembers
    <3>3. CASE ~(Addr(i) = Addr(j) /\ LengthAt(i) <= LengthAt(j))
      <4>1. t.last_function = symbols[i].name
          BY <2>1, <2>4, <3>3 DEF NextFunction, Addr, LengthAt
      <4>2. ASSUME NEW k \in 1..i, IsReal(k)
            PROVE  /\ Addr(k) <= Addr(i)
                   /\ Addr(k) = Addr(i) => LengthAt(k) <= LengthAt(i)
                   /\ Addr(k) = Addr(i) /\ k < i => LengthAt(k) < LengthAt(i)
        <5>1. CASE k = i
            BY <1>1, <1>2, <1>i, <5>1
        <5>2. CASE k \in 1..m
          <6>1. /\ Addr(k) <= Addr(j)
                /\ Addr(k) = Addr(j) => LengthAt(k) <= LengthAt(j)
              BY <2>4, <4>2, <5>2 DEF Foremost
          <6>2. Addr(j) <= Addr(i) /\ Addr(k) <= Addr(i)
              BY <1>3, <3>1
          <6>3. /\ Addr(k) \in Nat /\ Addr(j) \in Nat /\ Addr(i) \in Nat
                /\ LengthAt(k) \in Nat /\ LengthAt(j) \in Nat /\ LengthAt(i) \in Nat
              BY <1>1, <1>2, <3>1
          <6> QED BY <3>3, <6>1, <6>2, <6>3
        <5> QED BY <1>2, <5>1, <5>2
      <4>3. Foremost(i, i)
          BY <4>2 DEF Foremost
      <4> QED BY <2>2, <4>1, <4>3
    <3> QED BY <3>2, <3>3
  <2> QED BY <2>3, <2>4 DEF Remembers
<1> QED BY <1>4, <1>5

LEMMA SeenRemembers ==
    ASSUME TableInv, NEW m \in Nat, m <= Len(symbols)
    PROVE  Remembers(Seen[m], m)
<1>n. PICK n \in Nat : n = Len(symbols)
    BY LenProperties DEF TableInv
<1>1. /\ Seen[0] = [last_addr |-> 0, last_function |-> ""]
      /\ \A i \in 1..n : Seen[i] = Pass(Seen[i - 1], i)
    BY <1>n, SeenUnfold
<1> DEFINE S == {k \in Nat : k <= n => Remembers(Seen[k], k)}
<1>2. 0 \in S
  <2>1. \A k \in 1..0 : ~IsReal(k)
      OBVIOUS
  <2>2. Remembers(Seen[0], 0)
      BY <1>1, <2>1 DEF Remembers
  <2> QED BY <2>2
<1>3. ASSUME NEW k \in Nat, k \in S PROVE k + 1 \in S
  <2> SUFFICES ASSUME k + 1 <= n PROVE Remembers(Seen[k + 1], k + 1)
      OBVIOUS
  <2>1. Remembers(Seen[k], k)
      BY <1>3
  <2>2. Seen[k + 1] = Pass(Seen[k], k + 1)
    <3>1. PICK i \in 1..n : i = k + 1 /\ i - 1 = k
        OBVIOUS
    <3>2. Seen[i] = Pass(Seen[i - 1], i)
        BY <1>1
    <3> QED BY <3>1, <3>2
  <2>3. Remembers(Pass(Seen[k], k + 1), k + 1)
      BY <1>n, <2>1, PassRemembers
  <2> QED BY <2>2, <2>3
<1>4. Nat \subseteq S
  <2> HIDE DEF S
  <2> QED BY <1>2, <1>3, NatInd
<1> QED BY <1>4, <1>n

LEMMA EarliestIsFirst ==
    ASSUME NEW T \in SUBSET Nat, T # {}
    PROVE  Earliest(T) \in T /\ \A k \in T : Earliest(T) <= k
<1>1. \E i \in T : \A k \in T : i <= k
    BY NatMin
<1> QED BY <1>1 DEF Earliest

(* Where the pass stops it has seen the symbols up to the address, all of  *)
(* them, and none other.                                                   *)
LEMMA FindAddrStops ==
    ASSUME TableInv, NEW addr \in Nat
    PROVE  /\ UpTo(addr) = Real => FindAddr(addr) = <<"at the end", 0>>
           /\ UpTo(addr) # Real =>
                \E s : /\ FindAddr(addr) = <<s.last_function, addr - s.last_addr>>
                       /\ \/ UpTo(addr) = {} /\ s = [last_addr |-> 0, last_function |-> ""]
                          \/ \E j \in UpTo(addr) :
                                /\ s.last_addr = Addr(j) /\ s.last_function = symbols[j].name
                                /\ \A k \in UpTo(addr) :
                                    /\ Addr(k) <= Addr(j)
                                    /\ Addr(k) = Addr(j) => LengthAt(k) <= LengthAt(j)
                                    /\ Addr(k) = Addr(j) /\ k < j => LengthAt(k) < LengthAt(j)
<1>n. PICK n \in Nat : n = Len(symbols) /\ DOMAIN symbols = 1..n
    BY LenProperties DEF TableInv
<1> DEFINE above == {i \in DOMAIN symbols : symbols[i].type # "w" /\ symbols[i].addr > addr}
<1>1. \A i \in 1..n : Addr(i) \in Nat
    BY <1>n, SymbolFacts
<1>2. above = Real \ UpTo(addr) /\ UpTo(addr) \subseteq Real /\ above \in SUBSET (1..n)
    BY <1>n, <1>1 DEF Real, UpTo, Addr
<1>3. CASE UpTo(addr) = Real
  <2>1. above = {}
      BY <1>2, <1>3
  <2> QED BY <1>3, <2>1 DEF FindAddr
<1>4. CASE UpTo(addr) # Real
  <2>1. above # {}
      BY <1>2, <1>4
  <2> DEFINE e == Earliest(above)
             s == Seen[e - 1]
  <2>2. e \in above /\ \A k \in above : e <= k
      BY <1>2, <2>1, EarliestIsFirst
  <2>3. FindAddr(addr) = <<s.last_function, addr - s.last_addr>>
      BY <2>1 DEF FindAddr
  <2>4. e \in 1..n /\ Addr(e) > addr
      BY <1>n, <2>2 DEF Addr
  <2> HIDE DEF e
  <2>5. ASSUME NEW k \in 1..n PROVE k \in UpTo(addr) <=> k \in 1..(e - 1) /\ IsReal(k)
    <3>1. k \in UpTo(addr) <=> IsReal(k) /\ Addr(k) <= addr
        BY <1>n DEF UpTo, Real, IsReal, Addr
    <3>2. CASE k < e
      <4>1. k \notin above
          BY <1>2, <2>2, <2>4, <3>2
      <4>2. IsReal(k) => Addr(k) <= addr
          BY <1>n, <1>1, <4>1 DEF IsReal, Addr
      <4> QED BY <3>1, <3>2, <4>2, <2>4
    <3>3. CASE k >= e
      <4>1. Addr(e) <= Addr(k)
          BY <1>n, <2>4, <3>3 DEF TableInv
      <4>2. ~(Addr(k) <= addr)
          BY <1>1, <2>4, <4>1
      <4> QED BY <3>1, <3>3, <4>2, <2>4
    <3> QED BY <3>2, <3>3, <2>4
  <2>6. /\ e - 1 \in Nat /\ e - 1 <= n /\ 1..(e - 1) \subseteq 1..n
      BY <2>4
  <2>7. UpTo(addr) \subseteq 1..n
      BY <1>n DEF UpTo, Real
  <2>8. Remembers(s, e - 1)
      BY <1>n, <2>6, SeenRemembers
  <2> HIDE DEF s, above
  <2>9. CASE /\ \A k \in 1..(e - 1) : ~IsReal(k)
             /\ s = [last_addr |-> 0, last_function |-> ""]
    <3>1. UpTo(addr) = {}
        BY <2>5, <2>7, <2>9
    <3> QED BY <1>4, <2>3, <2>9, <3>1
  <2>10. ASSUME NEW j \in 1..(e - 1), IsReal(j), Foremost(j, e - 1),
                s.last_addr = Addr(j), s.last_function = symbols[j].name
         PROVE  \E i \in UpTo(addr) :
                    /\ s.last_addr = Addr(i) /\ s.last_function = symbols[i].name
                    /\ \A k \in UpTo(addr) :
                        /\ Addr(k) <= Addr(i)
                        /\ Addr(k) = Addr(i) => LengthAt(k) <= LengthAt(i)
                        /\ Addr(k) = Addr(i) /\ k < i => LengthAt(k) < LengthAt(i)
    <3>1. j \in UpTo(addr)
        BY <2>5, <2>6, <2>10
    <3>2. \A k \in UpTo(addr) : k \in 1..(e - 1) /\ IsReal(k)
        BY <2>5, <2>7
    <3> QED BY <2>10, <3>1, <3>2 DEF Foremost
  <2> QED BY <1>4, <2>3, <2>8, <2>9, <2>10 DEF Remembers
<1> QED BY <1>3, <1>4

(* What find_addr() finds, for a table of any size: the name of the first  *)
(* of the longest non-weak symbols nearest below the address.              *)
THEOREM FindAddrFindsNearest ==
    ASSUME TableInv, NEW addr \in Nat
    PROVE  LET below == UpTo(addr)
               nearest == {i \in below : \A k \in below : symbols[k].addr <= symbols[i].addr}
               longest == {i \in nearest : \A k \in nearest :
                               NameLength(symbols[k].name) <= NameLength(symbols[i].name)}
           IN  IF below = Real THEN FindAddr(addr) = <<"at the end", 0>>
               ELSE IF below = {} THEN FindAddr(addr) = <<"", addr>>
               ELSE \E i \in longest :
                       /\ \A k \in longest : i <= k
                       /\ FindAddr(addr) = <<symbols[i].name, addr - symbols[i].addr>>
<1> DEFINE below == UpTo(addr)
           nearest == {i \in below : \A k \in below : symbols[k].addr <= symbols[i].addr}
           longest == {i \in nearest : \A k \in nearest :
                           NameLength(symbols[k].name) <= NameLength(symbols[i].name)}
<1>n. PICK n \in Nat : n = Len(symbols) /\ DOMAIN symbols = 1..n
    BY LenProperties DEF TableInv
<1>0. \A i \in below : i \in 1..n /\ Addr(i) \in Nat /\ LengthAt(i) \in Nat
  <2>1. below \subseteq 1..n
      BY <1>n DEF UpTo, Real
  <2>2. \A i \in 1..n : Addr(i) \in Nat /\ LengthAt(i) \in {1, 2}
      BY <1>n, SymbolFacts
  <2> QED BY <2>1, <2>2
<1>1. below = Real => FindAddr(addr) = <<"at the end", 0>>
    BY FindAddrStops
<1>2. CASE below # Real
  <2>1. PICK s :
            /\ FindAddr(addr) = <<s.last_function, addr - s.last_addr>>
            /\ \/ below = {} /\ s = [last_addr |-> 0, last_function |-> ""]
               \/ \E j \in below :
                     /\ s.last_addr = Addr(j) /\ s.last_function = symbols[j].name
                     /\ \A k \in below :
                         /\ Addr(k) <= Addr(j)
                         /\ Addr(k) = Addr(j) => LengthAt(k) <= LengthAt(j)
                         /\ Addr(k) = Addr(j) /\ k < j => LengthAt(k) < LengthAt(j)
      BY <1>2, FindAddrStops
  <2>2. CASE below = {}
    <3> HIDE DEF below
    <3>0. s = [last_addr |-> 0, last_function |-> ""]
        BY <2>1, <2>2, Zenon
    <3>3. s.last_addr = 0
        BY <3>0
    <3>4. s.last_function = ""
        BY <3>0
    <3>5. addr - 0 = addr
        OBVIOUS
    <3>1. s.last_addr = 0 /\ s.last_function = "" /\ addr - 0 = addr
        BY <3>3, <3>4, <3>5
    <3>2. FindAddr(addr) = <<"", addr>>
        BY <2>1, <3>1, Zenon
    <3> QED BY <1>2, <2>2, <3>2 DEF below
  <2>3. CASE below # {}
    <3>1. PICK j \in below :
              /\ s.last_addr = Addr(j) /\ s.last_function = symbols[j].name
              /\ \A k \in below :
                  /\ Addr(k) <= Addr(j)
                  /\ Addr(k) = Addr(j) => LengthAt(k) <= LengthAt(j)
                  /\ Addr(k) = Addr(j) /\ k < j => LengthAt(k) < LengthAt(j)
        BY <2>1, <2>3
    <3> HIDE DEF below
    <3>2. j \in nearest
        BY <3>1 DEF Addr
    <3>3. \A k \in nearest : k \in below /\ Addr(k) = Addr(j)
      <4> SUFFICES ASSUME NEW k \in nearest PROVE k \in below /\ Addr(k) = Addr(j)
          OBVIOUS
      <4>1. k \in below /\ Addr(j) <= Addr(k) /\ Addr(k) <= Addr(j)
          BY <3>1 DEF Addr
      <4> QED BY <1>0, <3>1, <4>1
    <3>4. j \in longest
        BY <3>1, <3>2, <3>3 DEF LengthAt
    <3>5. ASSUME NEW k \in longest PROVE j <= k
      <4>1. k \in nearest /\ LengthAt(j) <= LengthAt(k)
          BY <3>2 DEF LengthAt
      <4>2. k \in below /\ Addr(k) = Addr(j)
          BY <3>3, <4>1
      <4>3. ~(k < j)
          BY <1>0, <3>1, <4>1, <4>2
      <4> QED BY <1>0, <3>1, <4>2, <4>3
    <3>6. FindAddr(addr) = <<symbols[j].name, addr - symbols[j].addr>>
        BY <2>1, <3>1 DEF Addr
    <3> HIDE DEF longest, nearest
    <3>7. \E i \in longest :
              /\ \A k \in longest : i <= k
              /\ FindAddr(addr) = <<symbols[i].name, addr - symbols[i].addr>>
        BY <3>4, <3>5, <3>6
    <3> QED BY <1>2, <2>3, <3>7 DEF longest, nearest, below
  <2> QED BY <2>2, <2>3
<1> QED BY <1>1, <1>2

(* find_addr() names the symbol an address belongs to. *)
THEOREM FindAddrIsReferenceHolds == DumpSpec => []FindAddrIsReference
<1>1. DumpInv => FindAddrIsReference
  <2> SUFFICES ASSUME DumpInv PROVE FindAddrIsReference
      OBVIOUS
  <2>1. TableInv /\ 0..MaxAddr \subseteq Nat
      BY DEF DumpInv
  <2> QED BY <2>1, FindAddrFindsNearest DEF FindAddrIsReference
<1> QED BY <1>1, DumpInvHolds, PTL

(* The lookup by address agrees with the lookup by name, for a table of    *)
(* any size: find_addr() finds every address of the range that             *)
(* find_symbol_and_size() gives a non-weak name at the start of the range. *)
LEMMA RangeIsFound ==
    ASSUME TableInv, NEW name \in Names, NEW found, found = FindSymbolAndSize(name),
           found # <<>>, \E i \in UpTo(found[1]) : symbols[i].name = name,
           NEW addr \in found[1]..(found[1] + found[2] - 1), UpTo(addr) # Real
    PROVE  FindAddr(addr)[2] = addr - found[1]
<1> DEFINE at == {i \in DOMAIN symbols : symbols[i].name = name}
           e == Earliest(at)
<1>n. PICK n \in Nat : n = Len(symbols) /\ DOMAIN symbols = 1..n
    BY LenProperties DEF TableInv
<1>1. at # {} /\ found = <<symbols[e].addr, SizeAt(e)>>
    BY DEF FindSymbolAndSize
<1>2. e \in at /\ \A k \in at : e <= k
  <2>1. at \in SUBSET Nat
      BY <1>n
  <2> HIDE DEF at
  <2> QED BY <1>1, <2>1, EarliestIsFirst
<1>3. \A i \in 1..n : Addr(i) \in Nat
    BY <1>n, SymbolFacts
<1>4. e \in 1..n /\ found[1] = Addr(e) /\ found[2] = SizeAt(e) /\ Addr(e) \in Nat
    BY <1>n, <1>1, <1>2, <1>3 DEF Addr
<1>5. PICK i \in UpTo(found[1]) : symbols[i].name = name
    OBVIOUS
<1>6. i \in 1..n /\ IsReal(i) /\ Addr(i) <= Addr(e) /\ i \in at
    BY <1>n, <1>4, <1>5 DEF UpTo, Real, IsReal, Addr
<1>7. e <= i
    BY <1>2, <1>6
<1> HIDE DEF e, at
(* The range is not empty: there is a next line, and it is above addr. *)
<1>8. /\ e + 1 \in 1..n /\ found[2] = Addr(e + 1) - Addr(e) /\ addr < Addr(e + 1)
      /\ addr \in Nat /\ Addr(e) <= addr
  <2>1. CASE e = n
    <3>1. found[2] = -1
        BY <1>4, <1>n, <2>1 DEF SizeAt
    <3> QED BY <1>4, <3>1
  <2>2. CASE e # n
    <3>1. e + 1 \in 1..n
        BY <1>4, <2>2
    <3>2. found[2] = Addr(e + 1) - Addr(e)
        BY <1>4, <1>n, <2>2 DEF SizeAt, Addr
    <3>3. Addr(e + 1) \in Nat
        BY <1>3, <3>1
    <3> QED BY <1>4, <3>1, <3>2, <3>3
  <2> QED BY <2>1, <2>2
<1>9. i = e
  <2>1. CASE i > e
    <3>1. e + 1 <= i
        BY <1>4, <1>6, <2>1
    <3>2. Addr(e + 1) <= Addr(i)
        BY <1>n, <1>6, <1>8, <3>1 DEF TableInv
    <3> QED BY <1>3, <1>4, <1>6, <1>8, <3>2
  <2> QED BY <1>4, <1>6, <1>7, <2>1
<1>10. e \in UpTo(addr)
    BY <1>n, <1>6, <1>8, <1>9 DEF UpTo, Real, IsReal, Addr
<1>11. ASSUME NEW j \in UpTo(addr) PROVE j \in 1..n /\ Addr(j) <= Addr(e)
  <2>1. j \in 1..n /\ Addr(j) <= addr
      BY <1>n DEF UpTo, Real, Addr
  <2>2. CASE j <= e
      BY <1>n, <1>4, <2>1, <2>2 DEF TableInv
  <2>3. CASE j > e
    <3>1. e + 1 <= j
        BY <1>4, <2>1, <2>3
    <3>2. Addr(e + 1) <= Addr(j)
        BY <1>n, <1>8, <2>1, <3>1 DEF TableInv
    <3>3. Addr(j) \in Nat /\ Addr(e + 1) \in Nat
        BY <1>3, <1>8, <2>1
    <3> QED BY <1>8, <2>1, <3>2, <3>3
  <2> QED BY <1>4, <2>1, <2>2, <2>3
<1>12. PICK s :
          /\ FindAddr(addr) = <<s.last_function, addr - s.last_addr>>
          /\ \E j \in UpTo(addr) :
                 /\ s.last_addr = Addr(j)
                 /\ \A k \in UpTo(addr) : Addr(k) <= Addr(j)
    BY <1>8, <1>10, FindAddrStops
<1>13. PICK j \in UpTo(addr) : s.last_addr = Addr(j) /\ \A k \in UpTo(addr) : Addr(k) <= Addr(j)
    BY <1>12
<1>14. Addr(j) = Addr(e)
    BY <1>3, <1>4, <1>10, <1>11, <1>13
<1> QED BY <1>4, <1>12, <1>13, <1>14

(* The two lookups agree on the range a symbol has. *)
THEOREM RangesAgreeHolds == DumpSpec => []RangesAgree
<1>1. DumpInv => RangesAgree
  <2> SUFFICES ASSUME DumpInv PROVE RangesAgree
      OBVIOUS
  <2>1. TableInv
      BY DEF DumpInv
  <2> QED BY <2>1, RangeIsFound DEF RangesAgree
<1> QED BY <1>1, DumpInvHolds, PTL
=============================================================================
