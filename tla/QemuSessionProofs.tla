------------------------- MODULE QemuSessionProofs --------------------------
(***************************************************************************)
(* What qemu_main() starts, for any command line, any contents of the two  *)
(* trees and any session: the inputs belong together, there are not two    *)
(* root file systems, and every drive letter names its content.            *)
(* Only the configuration changes what these invariants speak of (ConfInv);*)
(* no step of the session touches it.                                      *)
(*                                                                         *)
(* Then what the session itself is worth, for any list of callbacks and    *)
(* any guest: SessInv relates the steps still to be taken, the expect() in *)
(* progress, the prompt stack, the console and the log, and its parts give *)
(* the verdict its meaning.                                                *)
(***************************************************************************)
EXTENDS QemuSession, SequenceTheorems, WellFoundedInduction, TLAPS

(* Before the lookups nothing is found, after them each path is the one of *)
(* its lookup or was given.                                                *)
FoundInv ==
    /\ found \in [Lookups -> Trees \cup {Nowhere, "given", "open"}]
    /\ conf_phase = "env" => found = [l \in Lookups |-> "open"]
    /\ conf_phase # "env" =>
          /\ found["vmlinux"] \in {"given", GetVmlinux}
          /\ found["release"] \in {"given", GetExpectedRelease}
          /\ \A f \in {"modules", "selftests"} : found[f] \in {"given", GetTarball(f)}

(* What each phase may rely on; there is a prompt where the defaults were  *)
(* applied.                                                                *)
PhaseInv ==
    /\ conf_phase \in ConfEnds \cup {"env", "args", "parsed", "main", "cmd"}
    /\ conf_phase \in {"env", "args", "parsed"} => prompt = None
    /\ conf_phase = "parsed" => initrd = IF args.initrd THEN "given" ELSE None
    /\ conf_phase \in {"main", "cmd", "ready"} =>
          /\ prompt # None => ~DefaultsMissing
          /\ ~args.initrd => (initrd # None <=> prompt # None /\ args.cloud = None)
    /\ conf_phase \in {"cmd", "ready"} =>
          ~MainGuard /\ (root # -1 <=> args.cloud \notin {None, "other"})

(* The drives and the letters remembered for them are inverse. *)
Agree ==
    /\ disks \in Seq(Contents)
    /\ drive_of \in [Contents -> Int]
    /\ \A c \in Contents : drive_of[c] # -1 =>
          drive_of[c] + 1 \in 1..Len(disks) /\ disks[drive_of[c] + 1] = c
    /\ \A i \in 1..Len(disks) : drive_of[disks[i]] = i - 1

DrivesInv ==
    /\ Agree
    /\ root = IF args.cloud = "other" THEN -1 ELSE drive_of["cloud"]
    /\ conf_phase \in {"env", "args", "parsed"} =>
          disks = <<>> /\ \A c \in Contents : drive_of[c] = -1
    /\ conf_phase \notin {"ready", "raised", "cmd"} =>
          root = -1 /\ drive_of["cloud"] = -1 /\ drive_of["cloud-init"] = -1

ConfInv == FoundInv /\ PhaseInv /\ DrivesInv

-----------------------------------------------------------------------------
LEMMA InitConf == Init => ConfInv
<1> SUFFICES ASSUME Init PROVE ConfInv
    OBVIOUS
<1>1. /\ found = [l \in Lookups |-> "open"] /\ conf_phase = "env" /\ prompt = None
      /\ disks = <<>> /\ drive_of = [c \in Contents |-> -1] /\ root = -1
    BY DEF Init, ConfInit, LookupInit
<1>2. FoundInv
    BY <1>1 DEF FoundInv
<1>3. PhaseInv
    BY <1>1 DEF PhaseInv
<1>4. Agree
  <2>1. disks \in Seq(Contents) /\ Len(disks) = 0 /\ 1..0 = {}
      BY <1>1, EmptySeq
  <2>2. drive_of \in [Contents -> Int] /\ \A c \in Contents : drive_of[c] = -1
      BY <1>1
  <2> QED BY <2>1, <2>2 DEF Agree
<1>5. "cloud" \in Contents /\ "cloud-init" \in Contents
    BY DEF Contents
<1>6. DrivesInv
    BY <1>1, <1>4, <1>5 DEF DrivesInv
<1> QED BY <1>2, <1>3, <1>6 DEF ConfInv

(* The lookups keep what is looked into; given paths override. *)
LEMMA FoundStep == FoundInv /\ PhaseInv /\ Configure => FoundInv'
<1> SUFFICES ASSUME FoundInv, PhaseInv, Configure PROVE FoundInv'
    OBVIOUS
<1>1. CASE ConfigureFromEnv
  <2>1. /\ found' = [l \in Lookups |->
                       CASE l = "vmlinux" -> GetVmlinux
                         [] l = "release" -> GetExpectedRelease
                         [] OTHER -> GetTarball(l)]
        /\ env_set' = env_set /\ holds' = holds /\ conf_phase' = "args"
      BY <1>1 DEF ConfigureFromEnv, Lookup
  <2>2. /\ GetVmlinux' = GetVmlinux /\ GetExpectedRelease' = GetExpectedRelease
        /\ GetTarball("modules")' = GetTarball("modules")
        /\ GetTarball("selftests")' = GetTarball("selftests")
      BY <2>1 DEF GetVmlinux, GetExpectedRelease, GetTarball, FirstOf, Has
  <2>3. /\ GetVmlinux \in Trees \cup {Nowhere}
        /\ GetExpectedRelease \in Trees \cup {Nowhere}
        /\ \A f \in {"modules", "selftests"} : GetTarball(f) \in Trees \cup {Nowhere}
      BY DEF GetVmlinux, GetExpectedRelease, GetTarball, FirstOf, Trees
  <2>4. /\ found'["vmlinux"] = GetVmlinux /\ found'["release"] = GetExpectedRelease
        /\ found'["modules"] = GetTarball("modules")
        /\ found'["selftests"] = GetTarball("selftests")
        /\ found' \in [Lookups -> Trees \cup {Nowhere, "given", "open"}]
      BY <2>1, <2>3 DEF Lookups
  <2> QED BY <2>1, <2>2, <2>4 DEF FoundInv
<1>2. CASE ConfigureFromArgs
  <2>1. /\ found' = [l \in Lookups |-> IF l \in args.given THEN "given" ELSE found[l]]
        /\ env_set' = env_set /\ holds' = holds /\ conf_phase' = "parsed"
        /\ conf_phase = "args"
      BY <1>2 DEF ConfigureFromArgs
  <2>2. /\ GetVmlinux' = GetVmlinux /\ GetExpectedRelease' = GetExpectedRelease
        /\ GetTarball("modules")' = GetTarball("modules")
        /\ GetTarball("selftests")' = GetTarball("selftests")
      BY <2>1 DEF GetVmlinux, GetExpectedRelease, GetTarball, FirstOf, Has
  <2>3. /\ \A l \in Lookups : found'[l] \in {"given", found[l]}
        /\ found' \in [Lookups -> Trees \cup {Nowhere, "given", "open"}]
      BY <2>1 DEF FoundInv
  <2>4. {"vmlinux", "release", "modules", "selftests"} \subseteq Lookups
      BY DEF Lookups
  <2>5. /\ found["vmlinux"] \in {"given", GetVmlinux}
        /\ found["release"] \in {"given", GetExpectedRelease}
        /\ found["modules"] \in {"given", GetTarball("modules")}
        /\ found["selftests"] \in {"given", GetTarball("selftests")}
      BY <2>1 DEF FoundInv
  <2> QED BY <2>1, <2>2, <2>3, <2>4, <2>5 DEF FoundInv
<1>3. CASE \/ NoDefaults \/ DefaultsRaise \/ ApplyDefaults \/ MainRefuses
           \/ PrepareCloudImage \/ NoCloudImage \/ PrepareFails \/ Cmd
  <2>1. /\ found' = found /\ env_set' = env_set /\ holds' = holds
        /\ conf_phase # "env" /\ conf_phase' # "env"
      BY <1>3 DEF NoDefaults, DefaultsRaise, ApplyDefaults, MainRefuses,
           PrepareCloudImage, NoCloudImage, PrepareFails, Cmd, inputVars
  <2>2. /\ GetVmlinux' = GetVmlinux /\ GetExpectedRelease' = GetExpectedRelease
        /\ GetTarball("modules")' = GetTarball("modules")
        /\ GetTarball("selftests")' = GetTarball("selftests")
      BY <2>1 DEF GetVmlinux, GetExpectedRelease, GetTarball, FirstOf, Has
  <2>3. /\ found["vmlinux"] \in {"given", GetVmlinux}
        /\ found["release"] \in {"given", GetExpectedRelease}
        /\ found["modules"] \in {"given", GetTarball("modules")}
        /\ found["selftests"] \in {"given", GetTarball("selftests")}
        /\ found \in [Lookups -> Trees \cup {Nowhere, "given", "open"}]
      BY <2>1 DEF FoundInv
  <2> QED BY <2>1, <2>2, <2>3 DEF FoundInv
<1> QED BY <1>1, <1>2, <1>3 DEF Configure

(* What a phase established is not undone by the next. *)
LEMMA PhaseStep == PhaseInv /\ DrivesInv /\ Configure => PhaseInv'
<1> SUFFICES ASSUME PhaseInv, DrivesInv, Configure PROVE PhaseInv'
    OBVIOUS
<1>1. CASE ConfigureFromEnv \/ ConfigureFromArgs
    BY <1>1 DEF ConfigureFromEnv, ConfigureFromArgs, PhaseInv
<1>2. CASE MainRefuses \/ DefaultsRaise \/ PrepareFails
    BY <1>2 DEF MainRefuses, DefaultsRaise, PrepareFails, PhaseInv, ConfEnds
<1>3. CASE NoDefaults
  <2>1. /\ conf_phase = "parsed" /\ conf_phase' = "main" /\ DefaultsMissing
        /\ UNCHANGED <<found, args, prompt, initrd>>
      BY <1>3 DEF NoDefaults, inputVars
  <2>2. prompt' = None /\ (~args'.initrd => initrd' = None)
      BY <2>1 DEF PhaseInv
  <2> QED BY <2>1, <2>2 DEF PhaseInv
<1>4. CASE ApplyDefaults
  <2>1. /\ conf_phase' = "main" /\ args' = args /\ found' = found /\ ~DefaultsMissing
        /\ prompt' = PromptOf(args.cloud)
        /\ initrd' = IF initrd = None /\ args.cloud = None THEN "rootfs" ELSE initrd
        /\ initrd = IF args.initrd THEN "given" ELSE None
      BY <1>4 DEF ApplyDefaults, inputVars, DrivesInv, PhaseInv
  <2>2. prompt' # None
      BY <2>1 DEF PromptOf, None
  <2>3. ~args.initrd => (initrd' # None <=> args.cloud = None)
      BY <2>1 DEF None
  <2>4. ~DefaultsMissing'
      BY <2>1 DEF DefaultsMissing, Known
  <2> QED BY <2>1, <2>2, <2>3, <2>4 DEF PhaseInv
<1>5. CASE PrepareCloudImage
  <2>1. /\ conf_phase = "main" /\ conf_phase' = "cmd" /\ ~MainGuard
        /\ args.cloud # None /\ root' = IF args.cloud = "other" THEN root ELSE Len(disks)
        /\ UNCHANGED <<found, args, prompt, initrd>>
      BY <1>5 DEF PrepareCloudImage, inputVars
  <2>2. root' # -1 <=> args.cloud # "other"
      BY <2>1, LenProperties DEF DrivesInv, Agree
  <2> QED BY <2>1, <2>2 DEF PhaseInv, MainGuard, DefaultsMissing, Known
<1>6. CASE NoCloudImage
  <2>1. /\ conf_phase = "main" /\ conf_phase' = "cmd" /\ ~MainGuard
        /\ args.cloud = None /\ root' = -1
        /\ UNCHANGED <<found, args, prompt, initrd>>
      BY <1>6 DEF NoCloudImage, inputVars, DrivesInv
  <2> QED BY <2>1 DEF PhaseInv, MainGuard, DefaultsMissing, Known
<1>7. CASE Cmd
  <2>1. /\ conf_phase = "cmd" /\ conf_phase' = "ready"
        /\ UNCHANGED <<found, args, prompt, initrd, root>>
      BY <1>7 DEF Cmd, inputVars
  <2> QED BY <2>1 DEF PhaseInv, MainGuard, DefaultsMissing, Known, ConfEnds
<1> QED BY <1>1, <1>2, <1>3, <1>4, <1>5, <1>6, <1>7 DEF Configure

(* Drives added behind those there are get the next letters. *)
LEMMA AddDrivesAgree ==
    ASSUME NEW cs \in Seq(Contents), NEW m \in Nat, m = Len(cs), Agree,
           \A i, k \in 1..m : cs[i] = cs[k] => i = k,
           \A i \in 1..m : drive_of[cs[i]] = -1,
           AddDrives(disks, cs)
    PROVE  /\ Agree'
           /\ \A i \in 1..m : drive_of'[cs[i]] = Len(disks) + i - 1
           /\ \A c \in Contents : (\A i \in 1..m : cs[i] # c) => drive_of'[c] = drive_of[c]
<1>n. PICK n \in Nat : n = Len(disks)
    BY LenProperties DEF Agree
<1>1. /\ disks' \in Seq(Contents) /\ Len(disks') = n + m
      /\ \A i \in 1..(n + m) : disks'[i] = IF i <= n THEN disks[i] ELSE cs[i - n]
    BY <1>n, ConcatProperties DEF AddDrives, Agree
<1>2. DOMAIN cs = 1..m /\ \A i \in 1..m : cs[i] \in Contents
    BY LenProperties, ElementOfSeq
<1>3. drive_of' = [c \in Contents |->
          IF \E i \in 1..m : cs[i] = c THEN n + (CHOOSE i \in 1..m : cs[i] = c) - 1
                                       ELSE drive_of[c]]
    BY <1>2, <1>n DEF AddDrives
<1>4. ASSUME NEW i \in 1..m PROVE drive_of'[cs[i]] = n + i - 1
  <2>1. (CHOOSE k \in 1..m : cs[k] = cs[i]) = i
    <3>1. \A k \in 1..m : cs[k] = cs[i] <=> k = i
        OBVIOUS
    <3> QED BY <3>1
  <2> QED BY <1>2, <1>3, <2>1
<1>5. \A c \in Contents : (\A i \in 1..m : cs[i] # c) => drive_of'[c] = drive_of[c]
    BY <1>3
<1>6. drive_of' \in [Contents -> Int]
  <2>1. ASSUME NEW c \in Contents PROVE drive_of'[c] \in Int
    <3>1. CASE \E i \in 1..m : cs[i] = c
        BY <3>1, <1>4
    <3>2. CASE \A i \in 1..m : cs[i] # c
        BY <3>2, <1>5 DEF Agree
    <3> QED BY <3>1, <3>2
  <2> QED BY <2>1, <1>3
<1>7. ASSUME NEW c \in Contents, drive_of'[c] # -1
      PROVE drive_of'[c] + 1 \in 1..(n + m) /\ disks'[drive_of'[c] + 1] = c
  <2>1. CASE \E i \in 1..m : cs[i] = c
    <3>1. PICK i \in 1..m : cs[i] = c
        BY <2>1
    <3>2. drive_of'[c] = n + i - 1
        BY <3>1, <1>4
    <3>3. drive_of'[c] + 1 = n + i /\ n + i \in 1..(n + m) /\ ~(n + i <= n) /\ (n + i) - n = i
        BY <3>2
    <3> QED BY <3>1, <3>3, <1>1
  <2>2. CASE \A i \in 1..m : cs[i] # c
    <3>1. drive_of'[c] = drive_of[c] /\ drive_of[c] + 1 \in 1..n /\ disks[drive_of[c] + 1] = c
        BY <2>2, <1>5, <1>7, <1>n DEF Agree
    <3>2. drive_of[c] + 1 \in 1..(n + m) /\ drive_of[c] + 1 <= n
        BY <3>1
    <3> QED BY <3>1, <3>2, <1>1
  <2> QED BY <2>1, <2>2
<1>8. ASSUME NEW i \in 1..(n + m) PROVE drive_of'[disks'[i]] = i - 1
  <2>1. CASE i <= n
    <3>1. i \in 1..n /\ disks'[i] = disks[i] /\ drive_of[disks[i]] = i - 1
        BY <2>1, <1>1, <1>n DEF Agree
    <3>2. disks[i] \in Contents
        BY <3>1, <1>n, ElementOfSeq DEF Agree
    <3>3. \A k \in 1..m : cs[k] # disks[i]
        BY <3>1
    <3> QED BY <3>1, <3>2, <3>3, <1>5
  <2>2. CASE ~(i <= n)
    <3>1. i - n \in 1..m /\ disks'[i] = cs[i - n]
        BY <2>2, <1>1
    <3>2. drive_of'[cs[i - n]] = n + (i - n) - 1
        BY <3>1, <1>4
    <3> QED BY <3>1, <3>2
  <2> QED BY <2>1, <2>2
<1>9. Agree'
    BY <1>1, <1>6, <1>7, <1>8 DEF Agree
<1> QED BY <1>4, <1>5, <1>9, <1>n

LEMMA WhenIsShort ==
    ASSUME NEW b \in BOOLEAN, NEW x \in Contents
    PROVE  \E l \in {0, 1} : /\ When(b, x) \in Seq(Contents) /\ Len(When(b, x)) = l
                             /\ \A i \in 1..l : When(b, x)[i] = x
<1>1. CASE b
  <2>1. When(b, x) = <<x>>
      BY <1>1 DEF When
  <2> QED BY <2>1
<1>2. CASE ~b
  <2>1. When(b, x) = <<>>
      BY <1>2 DEF When
  <2> QED BY <2>1, EmptySeq
<1> QED BY <1>1, <1>2

(* The drives of apply_defaults(): the tarballs there are, then the test. *)
LEMMA DefaultDrives ==
    ASSUME NEW a \in BOOLEAN, NEW b \in BOOLEAN
    PROVE  \E m \in 1..3 : LET cs == When(a, "modules") \o When(b, "selftests") \o <<"test">> IN
           /\ cs \in Seq(Contents) /\ Len(cs) = m
           /\ \A i, k \in 1..m : cs[i] = cs[k] => i = k
           /\ \A i \in 1..m : cs[i] \notin {"cloud", "cloud-init"}
<1> DEFINE A == When(a, "modules")
           B == When(b, "selftests")
           T == <<"test">>
           cs == A \o B \o T
<1>c. "modules" \in Contents /\ "selftests" \in Contents /\ "test" \in Contents
    BY DEF Contents
<1>1. PICK la \in {0, 1} : A \in Seq(Contents) /\ Len(A) = la /\ \A i \in 1..la : A[i] = "modules"
    BY <1>c, WhenIsShort
<1>2. PICK lb \in {0, 1} : B \in Seq(Contents) /\ Len(B) = lb /\ \A i \in 1..lb : B[i] = "selftests"
    BY <1>c, WhenIsShort
<1>3. T \in Seq(Contents) /\ Len(T) = 1 /\ T[1] = "test"
    BY <1>c
<1> HIDE DEF A, B, T
<1>4. /\ A \o B \in Seq(Contents) /\ Len(A \o B) = la + lb
      /\ \A i \in 1..(la + lb) : (A \o B)[i] = IF i <= la THEN A[i] ELSE B[i - la]
    BY <1>1, <1>2, ConcatProperties
<1> DEFINE AB == A \o B
<1>5. /\ AB \in Seq(Contents) /\ Len(AB) = la + lb
      /\ \A i \in 1..(la + lb) : AB[i] = IF i <= la THEN "modules" ELSE "selftests"
  <2>1. ASSUME NEW i \in 1..(la + lb) PROVE AB[i] = IF i <= la THEN "modules" ELSE "selftests"
    <3>1. CASE i <= la
        BY <3>1, <1>1, <1>4
    <3>2. CASE ~(i <= la)
      <4>1. i - la \in 1..lb
          BY <3>2
      <4> QED BY <4>1, <3>2, <1>2, <1>4
    <3> QED BY <3>1, <3>2
  <2> QED BY <1>4, <2>1
<1> HIDE DEF AB
<1> DEFINE m == la + lb + 1
<1>6. /\ AB \o T \in Seq(Contents) /\ Len(AB \o T) = m
      /\ \A i \in 1..m : (AB \o T)[i] = IF i <= la + lb THEN AB[i] ELSE T[i - (la + lb)]
  <2>1. /\ AB \o T \in Seq(Contents) /\ Len(AB \o T) = Len(AB) + Len(T)
        /\ \A i \in 1..(Len(AB) + Len(T)) :
               (AB \o T)[i] = IF i <= Len(AB) THEN AB[i] ELSE T[i - Len(AB)]
      BY <1>3, <1>5, ConcatProperties
  <2> QED BY <2>1, <1>3, <1>5
<1>7. ASSUME NEW i \in 1..m
      PROVE (AB \o T)[i] = IF i <= la THEN "modules" ELSE IF i <= la + lb THEN "selftests" ELSE "test"
  <2>1. CASE i <= la + lb
    <3>1. i \in 1..(la + lb)
        BY <2>1
    <3> QED BY <3>1, <1>5, <1>6
  <2>2. CASE ~(i <= la + lb)
    <3>1. i - (la + lb) = 1 /\ ~(i <= la)
        BY <2>2
    <3> QED BY <3>1, <2>2, <1>3, <1>6
  <2> QED BY <2>1, <2>2
<1>8. cs = AB \o T
    BY DEF AB
<1>9. ASSUME NEW i \in 1..m, NEW k \in 1..m, cs[i] = cs[k] PROVE i = k
  <2>1. /\ cs[i] = IF i <= la THEN "modules" ELSE IF i <= la + lb THEN "selftests" ELSE "test"
        /\ cs[k] = IF k <= la THEN "modules" ELSE IF k <= la + lb THEN "selftests" ELSE "test"
      BY <1>7, <1>8
  <2>2. \/ i <= la /\ k <= la
        \/ ~(i <= la) /\ ~(k <= la) /\ i <= la + lb /\ k <= la + lb
        \/ ~(i <= la + lb) /\ ~(k <= la + lb)
      BY <2>1, <1>9
  <2> QED BY <2>2
<1>10. \A i \in 1..m : cs[i] \notin {"cloud", "cloud-init"}
    BY <1>7, <1>8
<1>11. m \in 1..3 /\ cs \in Seq(Contents) /\ Len(cs) = m
    BY <1>6, <1>8
<1> QED BY <1>9, <1>10, <1>11 DEF A, B, T

LEMMA DrivesStep == PhaseInv /\ DrivesInv /\ Configure => DrivesInv'
<1> SUFFICES ASSUME PhaseInv, DrivesInv, Configure PROVE DrivesInv'
    OBVIOUS
<1>c. {"cloud", "cloud-init"} \subseteq Contents
    BY DEF Contents
<1>1. CASE \/ ConfigureFromEnv \/ ConfigureFromArgs \/ NoDefaults \/ DefaultsRaise
           \/ MainRefuses \/ NoCloudImage \/ PrepareFails \/ Cmd
  <2>1. UNCHANGED <<disks, drive_of, root, args>>
      BY <1>1 DEF ConfigureFromEnv, ConfigureFromArgs, NoDefaults, DefaultsRaise,
           MainRefuses, NoCloudImage, PrepareFails, Cmd, inputVars
  <2>2. /\ conf_phase' \in {"env", "args", "parsed"} => conf_phase \in {"env", "args", "parsed"}
        /\ conf_phase' \notin {"ready", "raised", "cmd"} =>
              conf_phase \notin {"ready", "raised", "cmd"}
      BY <1>1 DEF ConfigureFromEnv, ConfigureFromArgs, NoDefaults, DefaultsRaise,
           MainRefuses, NoCloudImage, PrepareFails, Cmd
  <2>3. Agree'
      BY <2>1 DEF DrivesInv, Agree
  <2> QED BY <2>1, <2>2, <2>3 DEF DrivesInv
<1>2. CASE ApplyDefaults
  <2> DEFINE cs == When(Known("modules"), "modules")
                   \o When(Known("selftests"), "selftests") \o <<"test">>
  <2>1. /\ AddDrives(disks, cs) /\ conf_phase = "parsed" /\ conf_phase' = "main"
        /\ root' = root /\ args' = args
      BY <1>2 DEF ApplyDefaults, inputVars
  <2>2. Known("modules") \in BOOLEAN /\ Known("selftests") \in BOOLEAN
      BY DEF Known
  <2>3. PICK m \in 1..3 : /\ cs \in Seq(Contents) /\ Len(cs) = m
                          /\ \A i, k \in 1..m : cs[i] = cs[k] => i = k
                          /\ \A i \in 1..m : cs[i] \notin {"cloud", "cloud-init"}
      BY <2>2, DefaultDrives
  <2>4. Agree /\ root = -1 /\ \A c \in Contents : drive_of[c] = -1
      BY <2>1, <1>c DEF DrivesInv
  <2>5. \A i \in 1..m : cs[i] \in Contents
      BY <2>3, ElementOfSeq
  <2>6. \A i \in 1..m : drive_of[cs[i]] = -1
      BY <2>4, <2>5
  <2> HIDE DEF cs
  <2>7. /\ Agree'
        /\ \A c \in Contents : (\A i \in 1..m : cs[i] # c) => drive_of'[c] = drive_of[c]
      BY <2>1, <2>3, <2>4, <2>6, AddDrivesAgree
  <2>8. drive_of'["cloud"] = -1 /\ drive_of'["cloud-init"] = -1
      BY <2>3, <2>4, <2>7, <1>c
  <2> QED BY <2>1, <2>4, <2>7, <2>8 DEF DrivesInv
<1>3. CASE PrepareCloudImage
  <2> DEFINE cs == <<"cloud", "cloud-init">>
  <2>1. /\ AddDrives(disks, cs) /\ conf_phase = "main" /\ conf_phase' = "cmd"
        /\ root' = IF args.cloud = "other" THEN root ELSE Len(disks)
        /\ args' = args /\ root = -1
      BY <1>3 DEF PrepareCloudImage, inputVars, DrivesInv
  <2>2. /\ cs \in Seq(Contents) /\ Len(cs) = 2 /\ cs[1] = "cloud"
        /\ \A i, k \in 1..2 : cs[i] = cs[k] => i = k
        /\ \A i \in 1..2 : cs[i] \in {"cloud", "cloud-init"}
      BY <1>c
  <2>3. Agree /\ drive_of["cloud"] = -1 /\ drive_of["cloud-init"] = -1
      BY <2>1 DEF DrivesInv
  <2>4. \A i \in 1..2 : drive_of[cs[i]] = -1
      BY <2>2, <2>3
  <2> HIDE DEF cs
  <2>5. Agree' /\ \A i \in 1..2 : drive_of'[cs[i]] = Len(disks) + i - 1
      BY <2>1, <2>2, <2>3, <2>4, AddDrivesAgree
  <2>6. drive_of'["cloud"] = Len(disks)
    <3>1. 1 \in 1..2 /\ Len(disks) \in Nat
        BY <2>3, LenProperties DEF Agree
    <3> QED BY <3>1, <2>2, <2>5
  <2> QED BY <2>1, <2>5, <2>6 DEF DrivesInv
<1> QED BY <1>1, <1>2, <1>3 DEF Configure

LEMMA ConfUnchanged == ConfInv /\ UNCHANGED confVars => ConfInv'
<1> SUFFICES ASSUME ConfInv, UNCHANGED confVars PROVE ConfInv'
    OBVIOUS
<1>1. UNCHANGED <<env_set, holds, found, args, conf_phase, disks, drive_of, prompt, initrd, root>>
    BY DEF confVars
<1>2. FoundInv'
  <2>1. /\ GetVmlinux' = GetVmlinux /\ GetExpectedRelease' = GetExpectedRelease
        /\ GetTarball("modules")' = GetTarball("modules")
        /\ GetTarball("selftests")' = GetTarball("selftests")
      BY <1>1 DEF GetVmlinux, GetExpectedRelease, GetTarball, FirstOf, Has
  <2> QED BY <1>1, <2>1 DEF ConfInv, FoundInv
<1>3. PhaseInv'
    BY <1>1 DEF ConfInv, PhaseInv, DefaultsMissing, MainGuard, Known
<1>4. DrivesInv'
    BY <1>1 DEF ConfInv, DrivesInv, Agree
<1> QED BY <1>2, <1>3, <1>4 DEF ConfInv

(* Only Configuring changes the configuration. *)
LEMMA OnlyConfiguring == [Next]_vars => Configuring \/ UNCHANGED confVars
<1> SUFFICES ASSUME [Next]_vars PROVE Configuring \/ UNCHANGED confVars
    OBVIOUS
<1>1. CASE Send
    BY <1>1 DEF Send, Boot, Login, SendUser, BootPrompt, SendPassword, CheckRelease,
         SendCmd, SendLong, EnterTest, ClearAlarm, SetAlarm, Raise, Trigger, RunSelftests,
         GrepNotOk, IgnoreWarnings, Provoke, DetectWarnings, XmonEnter, XmonExit,
         Monitor, Shutdown, Silent
<1>2. CASE Spawn \/ SpawnRaises \/ InteractiveRaises \/ Proceed \/ CallbackFails \/ ExpectRaises \/ Filter
    BY <1>2 DEF Spawn, SpawnRaises, InteractiveRaises, Proceed, CallbackFails, ExpectRaises, Filter
<1>3. CASE RunInteractively \/ Guest \/ Alarm
    BY <1>3 DEF RunInteractively, Guest, Alarm
<1>4. CASE Finished \/ UNCHANGED vars
    BY <1>4 DEF Finished, vars
<1> QED BY <1>1, <1>2, <1>3, <1>4 DEF Next, Script

(* The inductive invariant of the configuration, through a whole session.  *)
THEOREM ConfInvHolds == Spec => []ConfInv
<1>1. ConfInv /\ [Next]_vars => ConfInv'
  <2>1. ConfInv /\ Configuring => ConfInv'
      BY FoundStep, PhaseStep, DrivesStep DEF ConfInv, Configuring
  <2> QED BY <2>1, ConfUnchanged, OnlyConfiguring
<1> QED BY <1>1, InitConf, PTL DEF Spec

(* Kernel and release come from different trees only where one of the two  *)
(* is missing in the build tree.                                           *)
THEOREM ReleaseIsOfKernelHolds == Spec => []ReleaseIsOfKernel
<1>1. ConfInv => ReleaseIsOfKernel
  <2> SUFFICES ASSUME FoundInv PROVE ReleaseIsOfKernel
      BY DEF ConfInv
  <2>1. CASE conf_phase = "env"
    <3>1. found["vmlinux"] = "open"
        BY <2>1 DEF FoundInv, Lookups
    <3> QED BY <3>1 DEF ReleaseIsOfKernel, Trees
  <2>2. CASE conf_phase # "env"
    <3>1. /\ found["vmlinux"] \in {"given", GetVmlinux}
          /\ found["release"] \in {"given", GetExpectedRelease}
        BY <2>2 DEF FoundInv
    <3> QED BY <3>1 DEF ReleaseIsOfKernel, GetVmlinux, GetExpectedRelease, FirstOf,
               Has, Trees, Nowhere
  <2> QED BY <2>1, <2>2
<1> QED BY <1>1, ConfInvHolds, PTL

(* A tarball in the current directory is the one that is used. *)
THEOREM TarballInCwdWinsHolds == Spec => []TarballInCwdWins
<1>1. ConfInv => TarballInCwdWins
  <2> SUFFICES ASSUME FoundInv, NEW f \in {"modules", "selftests"},
                      found[f] \notin {"open", "given"}
               PROVE  /\ found[f] = "cwd" <=> f \in holds["cwd"]
                      /\ found[f] = Nowhere <=> \A t \in Trees : ~Has(t, f)
      BY DEF ConfInv, TarballInCwdWins
  <2>1. conf_phase # "env"
      BY DEF FoundInv, Lookups
  <2>2. found[f] = GetTarball(f)
      BY <2>1 DEF FoundInv
  <2> QED BY <2>2 DEF GetTarball, FirstOf, Has, Trees, Nowhere
<1> QED BY <1>1, ConfInvHolds, PTL

(* A guest that is started without --initrd has not two root file systems, *)
(* and none only where the code finds no root= or gave up its defaults.    *)
THEOREM OneRootFileSystemHolds == Spec => []OneRootFileSystem
<1>1. ConfInv => OneRootFileSystem
  <2> SUFFICES ASSUME PhaseInv, conf_phase = "ready", ~args.initrd
               PROVE  /\ initrd = None \/ root = -1
                      /\ initrd = None /\ root = -1 <=>
                            args.cloud = "other" \/ (args.cloud = None /\ prompt = None)
      BY DEF ConfInv, OneRootFileSystem
  <2>1. /\ initrd # None <=> prompt # None /\ args.cloud = None
        /\ root # -1 <=> args.cloud \notin {None, "other"}
        /\ None # "other"
      BY DEF PhaseInv, None
  <2> QED BY <2>1
<1> QED BY <1>1, ConfInvHolds, PTL

(* Drive letters and the root= argument name the drive that holds the      *)
(* content.                                                                *)
THEOREM DriveLettersAgreeHolds == Spec => []DriveLettersAgree
<1>1. ConfInv => DriveLettersAgree
  <2> SUFFICES ASSUME DrivesInv PROVE DriveLettersAgree
      BY DEF ConfInv
  <2>1. DOMAIN disks = 1..Len(disks)
      BY LenProperties DEF DrivesInv, Agree
  <2> QED BY <2>1 DEF DrivesInv, Agree, DriveLettersAgree
<1> QED BY <1>1, ConfInvHolds, PTL

-----------------------------------------------------------------------------
(* Induction over the numbers, for what recursive functions compute: a set *)
(* of numbers that is not empty has a least one, and a set that holds 0    *)
(* and with every number the next holds all.                               *)
LEMMA NatMin == \A T \in SUBSET Nat : T # {} => \E x \in T : \A y \in T : x <= y
<1> SUFFICES ASSUME NEW T \in SUBSET Nat, T # {} PROVE \E x \in T : \A y \in T : x <= y
    OBVIOUS
<1> DEFINE R == OpToRel(<, Nat)
<1>1. IsWellFoundedOn(R, Nat)
    BY NatLessThanWellFounded
<1>2. \A x, y \in Nat : x < y => <<x, y>> \in R
    BY DEF OpToRel
<1> HIDE DEF R
<1>3. PICK x \in T : \A y \in T : ~(<<y, x>> \in R)
    BY <1>1, WFMin
<1>4. \A y \in T : x <= y
  <2> SUFFICES ASSUME NEW y \in T PROVE x <= y
      OBVIOUS
  <2>1. x \in Nat /\ y \in Nat
      OBVIOUS
  <2>2. ~(y < x)
      BY <1>2, <1>3, <2>1, Zenon
  <2> QED BY <2>1, <2>2
<1> QED BY <1>4

LEMMA NatInd ==
    ASSUME NEW S, 0 \in S, \A n \in Nat : n \in S => n + 1 \in S
    PROVE  Nat \subseteq S
<1> SUFFICES ASSUME Nat \ S # {} PROVE FALSE
    OBVIOUS
<1>1. PICK x \in Nat \ S : \A y \in Nat \ S : x <= y
    BY NatMin
<1>2. x # 0 /\ x - 1 \in Nat /\ x - 1 < x
    BY <1>1
<1>3. x - 1 \in S
    BY <1>1, <1>2
<1> QED BY <1>1, <1>2, <1>3

-----------------------------------------------------------------------------
(* The steps of a session and their order: what comes in threes stays in   *)
(* threes (an ignore window, a stay in xmon), and nothing follows the end. *)
StepNames ==
    {"boot", "login", "user", "prompt", "password", "release", "cmd", "long", "enter_test",
     "no_alarm", "set_alarm", "raise", "trigger", "run_selftests", "grep", "ignore",
     "provoke", "detect", "xmon", "xmon_exit", "monitor", "quit", "poweroff"}
Ends == {"quit", "poweroff"}
At(s, i) == IF i \in 1..Len(s) THEN s[i] ELSE "none"
Ordered(s, i) ==
    /\ At(s, i) = "ignore" <=> At(s, i + 1) = "provoke"
    /\ At(s, i) = "provoke" <=> At(s, i + 1) = "detect"
    /\ At(s, i) = "xmon" <=> At(s, i + 2) = "xmon_exit"
    /\ At(s, i) = "xmon" => At(s, i + 1) = "cmd"
    /\ At(s, i + 1) = "xmon_exit" => At(s, i) = "cmd"
    /\ At(s, i) \in Ends => At(s, i + 1) = "none"

(* A piece of a plan that is closed: nothing of it depends on what comes   *)
(* before or after.                                                        *)
Block(s) ==
    /\ s \in Seq(StepNames)
    /\ \A i \in Int : Ordered(s, i) /\ At(s, i) \notin Ends

(* What is left of a session: it may start inside of a window. *)
Plan(s) ==
    /\ s \in Seq(StepNames)
    /\ \A i \in Nat \ {0} : Ordered(s, i)
    /\ s # <<>> => s[Len(s)] \in Ends
Mentions(s, x) == \E i \in 1..Len(s) : s[i] = x

LEMMA AtConcat ==
    ASSUME NEW s \in Seq(StepNames), NEW t \in Seq(StepNames), NEW i \in Int
    PROVE  /\ At(s \o t, i) = IF i <= Len(s) THEN At(s, i) ELSE At(t, i - Len(s))
           /\ At(s, i) \in StepNames \cup {"none"}
           /\ i <= 0 => At(s, i) = "none"
           /\ i > Len(s) => At(s, i) = "none"
<1>1. /\ Len(s \o t) = Len(s) + Len(t) /\ Len(s) \in Nat /\ Len(t) \in Nat
      /\ \A k \in 1..(Len(s) + Len(t)) :
            (s \o t)[k] = IF k <= Len(s) THEN s[k] ELSE t[k - Len(s)]
    BY ConcatProperties, LenProperties
<1>2. \A k \in 1..Len(s) : s[k] \in StepNames
    BY ElementOfSeq
<1> QED BY <1>1, <1>2 DEF At

LEMMA BlockConcat ==
    ASSUME NEW a, NEW b, Block(a), Block(b)
    PROVE  Block(a \o b)
<1>1. a \in Seq(StepNames) /\ b \in Seq(StepNames) /\ Len(a) \in Nat
    BY LenProperties DEF Block
<1>2. a \o b \in Seq(StepNames)
    BY <1>1, ConcatProperties
<1>3. ASSUME NEW i \in Int
      PROVE  Ordered(a \o b, i) /\ At(a \o b, i) \notin Ends
  <2>1. /\ At(a \o b, i) = IF i <= Len(a) THEN At(a, i) ELSE At(b, i - Len(a))
        /\ At(a \o b, i + 1) = IF i + 1 <= Len(a) THEN At(a, i + 1) ELSE At(b, i + 1 - Len(a))
        /\ At(a \o b, i + 2) = IF i + 2 <= Len(a) THEN At(a, i + 2) ELSE At(b, i + 2 - Len(a))
      BY <1>1, AtConcat
  <2>2. /\ i > Len(a) => At(a, i) = "none"
        /\ i + 1 > Len(a) => At(a, i + 1) = "none"
        /\ i + 2 > Len(a) => At(a, i + 2) = "none"
        /\ i - Len(a) <= 0 => At(b, i - Len(a)) = "none"
        /\ i + 1 - Len(a) <= 0 => At(b, i + 1 - Len(a)) = "none"
        /\ i + 2 - Len(a) <= 0 => At(b, i + 2 - Len(a)) = "none"
      BY <1>1, AtConcat
  <2>3. Ordered(a, i) /\ At(a, i) \notin Ends
      BY DEF Block
  <2>4. Ordered(b, i - Len(a)) /\ At(b, i - Len(a)) \notin Ends
      BY <1>1 DEF Block
  <2>5. /\ i - Len(a) + 1 = i + 1 - Len(a) /\ i - Len(a) + 2 = i + 2 - Len(a)
      BY <1>1
  <2>6. At(b, i + 1 - Len(a)) \notin Ends
      BY <1>1 DEF Block
  <2> QED BY <1>1, <2>1, <2>2, <2>3, <2>4, <2>5, <2>6 DEF Ordered
<1> QED BY <1>2, <1>3 DEF Block

LEMMA BlockThenPlan ==
    ASSUME NEW a, NEW b, Block(a), Plan(b), b # <<>>,
           At(b, 1) \notin {"provoke", "detect", "xmon_exit"}, At(b, 2) # "xmon_exit"
    PROVE  Plan(a \o b)
<1>1. a \in Seq(StepNames) /\ b \in Seq(StepNames) /\ Len(a) \in Nat /\ Len(b) \in Nat \ {0}
    BY LenProperties, EmptySeq DEF Block, Plan
<1>2. /\ a \o b \in Seq(StepNames) /\ Len(a \o b) = Len(a) + Len(b)
      /\ \A k \in 1..(Len(a) + Len(b)) :
            (a \o b)[k] = IF k <= Len(a) THEN a[k] ELSE b[k - Len(a)]
    BY <1>1, ConcatProperties
<1>3. (a \o b)[Len(a \o b)] \in Ends
    BY <1>1, <1>2 DEF Plan
<1>4. ASSUME NEW i \in Nat \ {0}
      PROVE  Ordered(a \o b, i)
  <2>1. /\ At(a \o b, i) = IF i <= Len(a) THEN At(a, i) ELSE At(b, i - Len(a))
        /\ At(a \o b, i + 1) = IF i + 1 <= Len(a) THEN At(a, i + 1) ELSE At(b, i + 1 - Len(a))
        /\ At(a \o b, i + 2) = IF i + 2 <= Len(a) THEN At(a, i + 2) ELSE At(b, i + 2 - Len(a))
      BY <1>1, AtConcat
  <2>2. /\ i + 1 > Len(a) => At(a, i + 1) = "none"
        /\ i + 2 > Len(a) => At(a, i + 2) = "none"
      BY <1>1, AtConcat
  <2>3. Ordered(a, i) /\ At(a, i) \notin Ends
      BY DEF Block
  <2>4. i > Len(a) => Ordered(b, i - Len(a))
      BY <1>1 DEF Plan
  <2>5. /\ i - Len(a) + 1 = i + 1 - Len(a) /\ i - Len(a) + 2 = i + 2 - Len(a)
      BY <1>1
  <2>6. CASE i > Len(a)
      BY <1>1, <2>1, <2>4, <2>5, <2>6 DEF Ordered
  <2>7. CASE i = Len(a)
    <3>1. /\ At(a \o b, i) = At(a, i) /\ At(a \o b, i + 1) = At(b, 1)
          /\ At(a \o b, i + 2) = At(b, 2)
        BY <1>1, <2>1, <2>7
    <3> QED BY <2>2, <2>3, <2>7, <3>1 DEF Ordered
  <2>8. CASE i < Len(a)
    <3>1. /\ At(a \o b, i) = At(a, i) /\ At(a \o b, i + 1) = At(a, i + 1)
          /\ \/ At(a \o b, i + 2) = At(a, i + 2)
             \/ i + 2 > Len(a) /\ At(a \o b, i + 2) = At(b, 1)
        BY <1>1, <2>1, <2>8
    <3> QED BY <2>2, <2>3, <2>8, <3>1 DEF Ordered
  <2> QED BY <1>1, <2>6, <2>7, <2>8
<1> QED BY <1>2, <1>3, <1>4 DEF Plan

LEMMA PlanTail ==
    ASSUME NEW s, Plan(s), s # <<>>
    PROVE  /\ Plan(Tail(s)) /\ Head(s) = At(s, 1) /\ Head(s) \in StepNames
           /\ \A i \in Nat \ {0} : At(Tail(s), i) = At(s, i + 1)
           /\ Head(s) \notin Ends => Tail(s) # <<>>
           /\ Head(s) \in Ends => Tail(s) = <<>>
<1>1. s \in Seq(StepNames) /\ Len(s) \in Nat \ {0} /\ s[1] \in StepNames /\ Head(s) = s[1]
    BY LenProperties, EmptySeq, ElementOfSeq DEF Plan
<1>2. /\ Tail(s) \in Seq(StepNames) /\ Len(Tail(s)) = Len(s) - 1
      /\ \A i \in 1..Len(Tail(s)) : Tail(s)[i] = s[i + 1]
    BY <1>1, HeadTailProperties
<1>3. ASSUME NEW i \in Nat \ {0} PROVE At(Tail(s), i) = At(s, i + 1)
    BY <1>1, <1>2 DEF At
<1>4. \A i \in Nat \ {0} : Ordered(Tail(s), i)
  <2> SUFFICES ASSUME NEW i \in Nat \ {0} PROVE Ordered(Tail(s), i)
      OBVIOUS
  <2>1. /\ At(Tail(s), i) = At(s, i + 1) /\ At(Tail(s), i + 1) = At(s, i + 1 + 1)
        /\ At(Tail(s), i + 2) = At(s, i + 1 + 2)
    <3>1. i + 2 + 1 = i + 1 + 2
        OBVIOUS
    <3> QED BY <1>3, <3>1
  <2>2. Ordered(s, i + 1)
      BY DEF Plan
  <2> QED BY <2>1, <2>2 DEF Ordered
<1>5. Tail(s) # <<>> => Len(Tail(s)) \in Nat \ {0}
    BY <1>2, EmptySeq
<1>6. Tail(s) # <<>> => Tail(s)[Len(Tail(s))] \in Ends
    BY <1>1, <1>2, <1>5 DEF Plan
<1>7. Head(s) = At(s, 1)
    BY <1>1 DEF At
<1>8. Head(s) \notin Ends => Tail(s) # <<>>
  <2>1. Tail(s) = <<>> => Len(s) = 1
      BY <1>1, <1>2
  <2> QED BY <1>1, <2>1 DEF Plan
<1>9. Head(s) \in Ends => Tail(s) = <<>>
  <2>1. Ordered(s, 1)
      BY DEF Plan
  <2>2. Head(s) \in Ends => At(s, 2) = "none"
      BY <1>7, <2>1 DEF Ordered
  <2>3. Len(s) >= 2 => At(s, 2) \in StepNames
      BY <1>1, ElementOfSeq DEF At
  <2>4. "none" \notin StepNames
      BY DEF StepNames
  <2>5. Head(s) \in Ends => Len(s) = 1
    <3>1. PICK n \in Nat \ {0} : n = Len(s)
        BY <1>1
    <3>2. n = 1 \/ n >= 2
        OBVIOUS
    <3> QED BY <3>1, <3>2, <2>2, <2>3, <2>4
  <2>6. Len(s) = 1 => Tail(s) = <<>>
      BY <1>2, <1>5
  <2> QED BY <2>5, <2>6
<1> QED BY <1>1, <1>2, <1>3, <1>4, <1>6, <1>7, <1>8, <1>9 DEF Plan

LEMMA MentionsConcat ==
    ASSUME NEW s \in Seq(StepNames), NEW t \in Seq(StepNames), NEW x
    PROVE  Mentions(s \o t, x) <=> Mentions(s, x) \/ Mentions(t, x)
<1>1. /\ Len(s \o t) = Len(s) + Len(t) /\ Len(s) \in Nat /\ Len(t) \in Nat
      /\ \A k \in 1..(Len(s) + Len(t)) :
            (s \o t)[k] = IF k <= Len(s) THEN s[k] ELSE t[k - Len(s)]
    BY ConcatProperties, LenProperties
<1>2. Mentions(s, x) => Mentions(s \o t, x)
    BY <1>1 DEF Mentions
<1>3. ASSUME Mentions(t, x) PROVE Mentions(s \o t, x)
  <2>1. PICK i \in 1..Len(t) : t[i] = x
      BY <1>3 DEF Mentions
  <2>2. Len(s) + i \in 1..Len(s \o t) /\ (s \o t)[Len(s) + i] = x
      BY <1>1, <2>1
  <2> QED BY <2>2 DEF Mentions
<1>4. ASSUME Mentions(s \o t, x) PROVE Mentions(s, x) \/ Mentions(t, x)
    BY <1>1, <1>4 DEF Mentions
<1> QED BY <1>2, <1>3, <1>4

(* The callbacks' steps hold together. *)
LEMMA StepsBlock == ASSUME NEW c \in Callbacks PROVE Block(Steps(c))
<1>1. CASE c = "sh"
    BY <1>1 DEF Block, Steps, Ordered, At, Ends, StepNames
<1>2. CASE c = "cat_debugfs"
    BY <1>2 DEF Block, Steps, Ordered, At, Ends, StepNames
<1>3. CASE c = "check_config"
    BY <1>3 DEF Block, Steps, Ordered, At, Ends, StepNames
<1>4. CASE c = "set_timeout"
    BY <1>4 DEF Block, Steps, Ordered, At, Ends, StepNames
<1>5. CASE c = "kasan_kunit"
    BY <1>5 DEF Block, Steps, Ordered, At, Ends, StepNames
<1>6. CASE c = "lkdtm"
    BY <1>6 DEF Block, Steps, Ordered, At, Ends, StepNames
<1>7. CASE c = "selftests"
    BY <1>7 DEF Block, Steps, Ordered, At, Ends, StepNames
<1>8. CASE c = "selftests_nocheck"
    BY <1>8 DEF Block, Steps, Ordered, At, Ends, StepNames
<1>9. CASE c = "xmon"
    BY <1>9 DEF Block, Steps, Ordered, At, Ends, StepNames
<1> QED BY <1>1, <1>2, <1>3, <1>4, <1>5, <1>6, <1>7, <1>8, <1>9 DEF Callbacks

LEMMA CallbacksUnfold ==
    ASSUME NEW cs \in Seq(Callbacks), NEW n \in Nat, n = Len(cs)
    PROVE  \E f : /\ AllCallbacks(cs) = f[n]
                  /\ f = [i \in 0..n |-> IF i = 0 THEN <<>> ELSE f[i - 1] \o Steps(cs[i])]
<1> DEFINE Unfolds(m, f) ==
        f = [i \in 0..m |-> IF i = 0 THEN <<>> ELSE f[i - 1] \o Steps(cs[i])]
           S == {m \in Nat : \E f : Unfolds(m, f)}
<1>1. 0 \in S
  <2>1. Unfolds(0, [i \in 0..0 |-> <<>>])
      BY SMT
  <2> QED BY <2>1
<1>2. ASSUME NEW m \in Nat, m \in S PROVE m + 1 \in S
  <2>1. PICK f : Unfolds(m, f)
      BY <1>2
  <2> DEFINE h == [i \in 0..(m + 1) |-> IF i = m + 1 THEN f[m] \o Steps(cs[m + 1]) ELSE f[i]]
  <2>2. ASSUME NEW i \in 0..(m + 1)
        PROVE  h[i] = IF i = 0 THEN <<>> ELSE h[i - 1] \o Steps(cs[i])
    <3>1. CASE i = m + 1
        BY <3>1
    <3>2. CASE i \in 0..m
      <4>1. h[i] = f[i] /\ i # m + 1 /\ (i # 0 => h[i - 1] = f[i - 1])
          BY <3>2
      <4> QED BY <2>1, <3>2, <4>1
    <3> QED BY <3>1, <3>2
  <2> DEFINE G == [i \in 0..(m + 1) |-> IF i = 0 THEN <<>> ELSE h[i - 1] \o Steps(cs[i])]
  <2>3. /\ \A i \in 0..(m + 1) : G[i] = h[i]
        /\ G = [i \in 0..(m + 1) |-> G[i]] /\ h = [i \in 0..(m + 1) |-> h[i]]
      BY <2>2
  <2>4. h = G
    <3> HIDE DEF G, h
    <3> QED BY <2>3
  <2> HIDE DEF h
  <2>5. Unfolds(m + 1, h)
      BY <2>4, Zenon
  <2>6. m + 1 \in Nat /\ \E ff : Unfolds(m + 1, ff)
      BY <2>5
  <2> QED BY <2>6, Zenon
<1> HIDE DEF S
<1>3. Nat \subseteq S
    BY <1>1, <1>2, NatInd
<1>4. \E f : Unfolds(n, f)
    BY <1>3 DEF S
<1> DEFINE F == CHOOSE f : Unfolds(n, f)
<1>5. Unfolds(n, F)
    BY <1>4
<1>6. AllCallbacks(cs) = F[n]
    BY DEF AllCallbacks
<1> QED BY <1>5, <1>6

LEMMA CallbacksBlock ==
    ASSUME NEW cs \in Seq(Callbacks)
    PROVE  /\ Block(AllCallbacks(cs))
           /\ (\E k \in 1..Len(cs) : cs[k] = "selftests") => Mentions(AllCallbacks(cs), "grep")
<1>n. PICK n \in Nat : n = Len(cs)
    BY LenProperties
<1>1. PICK f : /\ AllCallbacks(cs) = f[n]
               /\ f = [i \in 0..n |-> IF i = 0 THEN <<>> ELSE f[i - 1] \o Steps(cs[i])]
    BY <1>n, CallbacksUnfold
<1>2. f[0] = <<>> /\ \A i \in 1..n : f[i] = f[i - 1] \o Steps(cs[i])
    BY <1>1
<1> DEFINE Good(i) == /\ Block(f[i])
                      /\ (\E k \in 1..i : cs[k] = "selftests") => Mentions(f[i], "grep")
           S == {i \in Nat : i <= n => Good(i)}
<1>3. 0 \in S
  <2>1. Block(<<>>)
      BY DEF Block, Ordered, At, Ends, StepNames
  <2> QED BY <1>2, <2>1
<1>4. ASSUME NEW i \in Nat, i \in S PROVE i + 1 \in S
  <2> SUFFICES ASSUME i + 1 <= n PROVE Good(i + 1)
      OBVIOUS
  <2>1. i + 1 \in 1..n /\ cs[i + 1] \in Callbacks /\ Good(i)
      BY <1>4, <1>n, ElementOfSeq
  <2>2. f[i + 1] = f[i] \o Steps(cs[i + 1])
    <3>1. (i + 1) - 1 = i
        OBVIOUS
    <3> QED BY <1>2, <2>1, <3>1
  <2>3. Block(f[i]) /\ Block(Steps(cs[i + 1]))
      BY <2>1, StepsBlock
  <2>4. Block(f[i + 1])
      BY <2>2, <2>3, BlockConcat
  <2>5. Mentions(f[i + 1], "grep") <=> Mentions(f[i], "grep") \/ Mentions(Steps(cs[i + 1]), "grep")
    <3>1. f[i] \in Seq(StepNames) /\ Steps(cs[i + 1]) \in Seq(StepNames)
        BY <2>3 DEF Block
    <3> QED BY <2>2, <3>1, MentionsConcat
  <2>6. cs[i + 1] = "selftests" => Mentions(Steps(cs[i + 1]), "grep")
    <3>1. Mentions(<<"no_alarm", "cmd", "run_selftests", "grep">>, "grep")
        BY DEF Mentions
    <3> QED BY <3>1 DEF Steps
  <2> QED BY <2>1, <2>4, <2>5, <2>6
<1> HIDE DEF S
<1>5. Nat \subseteq S
    BY <1>3, <1>4, NatInd
<1>6. Good(n)
    BY <1>5 DEF S
<1> QED BY <1>1, <1>6, <1>n

(* A session starts with the boot and looks at the release. *)
Starts(s) == s # <<>> /\ At(s, 1) = "boot" /\ Mentions(s, "release")

LEMMA StartsConcat ==
    ASSUME NEW a \in Seq(StepNames), NEW b \in Seq(StepNames), Starts(a)
    PROVE  Starts(a \o b)
<1>1. Len(a) \in Nat \ {0} /\ Len(b) \in Nat /\ Len(a \o b) = Len(a) + Len(b)
    BY EmptySeq, LenProperties, ConcatProperties DEF Starts
<1>2. At(a \o b, 1) = At(a, 1)
    BY <1>1, AtConcat
<1>3. Mentions(a \o b, "release")
    BY MentionsConcat DEF Starts
<1>4. a \o b # <<>>
    BY <1>1, EmptySeq
<1> QED BY <1>2, <1>3, <1>4 DEF Starts

LEMMA StartsBlock ==
    ASSUME NEW a, NEW b, Block(a), Block(b), Starts(a)
    PROVE  Block(a \o b) /\ Starts(a \o b)
    BY BlockConcat, StartsConcat DEF Block

LEMMA PiecesBlock ==
    /\ Block(<<>>) /\ Block(<<"cmd">>) /\ Block(<<"no_alarm", "cmd", "long">>)
    /\ Block(<<"enter_test", "raise">>) /\ Block(<<"enter_test", "cmd", "raise">>)
    /\ Block(<<"enter_test", "cmd", "cmd">>) /\ Block(<<"monitor">>)
    /\ Block(<<"boot", "release", "cmd">>) /\ Starts(<<"boot", "release", "cmd">>)
<1>1. Block(<<>>) /\ Block(<<"cmd">>) /\ Block(<<"monitor">>)
    BY DEF Block, Ordered, At, Ends, StepNames
<1>2. Block(<<"no_alarm", "cmd", "long">>)
    BY DEF Block, Ordered, At, Ends, StepNames
<1>3. Block(<<"enter_test", "raise">>)
    BY DEF Block, Ordered, At, Ends, StepNames
<1>4. Block(<<"enter_test", "cmd", "raise">>)
    BY DEF Block, Ordered, At, Ends, StepNames
<1>5. Block(<<"enter_test", "cmd", "cmd">>)
    BY DEF Block, Ordered, At, Ends, StepNames
<1>6. Block(<<"boot", "release", "cmd">>)
    BY DEF Block, Ordered, At, Ends, StepNames
<1>7. Starts(<<"boot", "release", "cmd">>)
    BY DEF Starts, At, Mentions
<1> QED BY <1>1, <1>2, <1>3, <1>4, <1>5, <1>6, <1>7

LEMMA EndsPlan ==
    /\ Plan(<<"poweroff">>) /\ Plan(<<"monitor", "quit">>)
    /\ At(<<"poweroff">>, 1) = "poweroff" /\ At(<<"poweroff">>, 2) = "none"
    /\ At(<<"monitor", "quit">>, 1) = "monitor" /\ At(<<"monitor", "quit">>, 2) = "quit"
<1>1. Plan(<<"poweroff">>)
    BY DEF Plan, Ordered, At, Ends, StepNames
<1>2. Plan(<<"monitor", "quit">>)
    BY DEF Plan, Ordered, At, Ends, StepNames
<1> QED BY <1>1, <1>2 DEF At

LEMMA WhenBlock == ASSUME NEW b PROVE Block(When(b, "cmd"))
    BY PiecesBlock DEF When

(* What qemu_main() is going to do. *)
LEMMA SessionPlanIsPlan ==
    ASSUME opts.callbacks \in Seq(Callbacks)
    PROVE  /\ Plan(SessionPlan) /\ Starts(SessionPlan)
           /\ (\E k \in 1..Len(opts.callbacks) : opts.callbacks[k] = "selftests")
                 => Mentions(SessionPlan, "grep")
<1> DEFINE A == <<"boot", "release", "cmd">>
           B == When(Known("modules"), "cmd")
           C == When(Known("selftests"), "cmd")
           D == When(opts.net_tests, "cmd")
           E == IF args.mounts > 0 THEN <<"no_alarm", "cmd", "long">> ELSE <<>>
           F == <<"cmd">>
           G == TestSteps
           H == AllCallbacks(opts.callbacks)
           Z == IF opts.monitor THEN <<"monitor", "quit">> ELSE <<"poweroff">>
           X == A \o B \o C \o D \o E \o F \o G
<1>1. Block(A) /\ Starts(A) /\ Block(B) /\ Block(C) /\ Block(D) /\ Block(E) /\ Block(F)
    BY PiecesBlock, WhenBlock
<1>2. Block(G)
    BY PiecesBlock DEF TestSteps
<1>3. Block(H) /\ ((\E k \in 1..Len(opts.callbacks) : opts.callbacks[k] = "selftests")
                      => Mentions(H, "grep"))
    BY CallbacksBlock
<1>4. /\ Plan(Z) /\ Z # <<>>
      /\ At(Z, 1) \notin {"provoke", "detect", "xmon_exit"} /\ At(Z, 2) # "xmon_exit"
    BY EndsPlan
<1>5. SessionPlan = (X \o H) \o Z
    BY DEF SessionPlan
<1>6. Block(X) /\ Starts(X)
  <2> HIDE DEF A, B, C, D, E, F, G
  <2>1. Block(A \o B) /\ Starts(A \o B)
      BY <1>1, StartsBlock
  <2>2. Block(A \o B \o C) /\ Starts(A \o B \o C)
      BY <1>1, <2>1, StartsBlock
  <2>3. Block(A \o B \o C \o D) /\ Starts(A \o B \o C \o D)
      BY <1>1, <2>2, StartsBlock
  <2>4. Block(A \o B \o C \o D \o E) /\ Starts(A \o B \o C \o D \o E)
      BY <1>1, <2>3, StartsBlock
  <2>5. Block(A \o B \o C \o D \o E \o F) /\ Starts(A \o B \o C \o D \o E \o F)
      BY <1>1, <2>4, StartsBlock
  <2> QED BY <1>2, <2>5, StartsBlock
<1> HIDE DEF X, H, Z
<1>7. Block(X \o H) /\ Starts(X \o H)
    BY <1>3, <1>6, StartsBlock
<1>8. Plan((X \o H) \o Z)
    BY <1>4, <1>7, BlockThenPlan
<1>9. X \in Seq(StepNames) /\ H \in Seq(StepNames) /\ X \o H \in Seq(StepNames) /\ Z \in Seq(StepNames)
    BY <1>3, <1>4, <1>6, <1>7 DEF Block, Plan
<1>10. Starts((X \o H) \o Z)
    BY <1>7, <1>9, StartsConcat
<1>11. Mentions(H, "grep") => Mentions((X \o H) \o Z, "grep")
    BY <1>9, MentionsConcat
<1> QED BY <1>3, <1>5, <1>8, <1>10, <1>11

(* What is known of the variables of the session, whatever it is at. *)
TypeInv ==
    /\ args \in ArgType
    /\ opts \in SessionType
    /\ prompt \in {None, PromptOf(args.cloud)}
    /\ bug_patterns \in BOOLEAN
    /\ buffer \in Seq(Items)
    /\ owed \in Seq(Items)
    /\ log \in Seq(Noise \cup Markers)

(* Nothing happens on the console before the guest is started, nor after   *)
(* the session ended; in between what is left to do is a plan.             *)
StartInv ==
    /\ child = "none" => /\ todo = <<>> /\ waiting = Idle /\ owed = <<>> /\ buffer = <<>>
                         /\ prompt_stack = <<>> /\ bug_patterns /\ ~alarm
    /\ result = "open" /\ child # "none" =>
          conf_phase = "ready" /\ ~opts.interactive /\ Plan(todo) /\ prompt = PromptOf(args.cloud)
    /\ BootedOk => conf_phase = "ready" /\ prompt = PromptOf(args.cloud)
    /\ result # "open" => child \notin {"alive", "eof"}

Open == result = "open" /\ todo # <<>>

(* What the wait for a step looks for. *)
Asks == IF Head(todo) \in Ends THEN "shutdown" ELSE Head(todo)
Quiet4 == {"provoke", "trigger", "run_selftests", "shutdown"}
Questions == {"boot", "login", "user", "release", "monitor", "grep"}
WaitInv ==
    result = "open" /\ waiting # Idle =>
        /\ todo # <<>>
        /\ waiting.who = Asks
        /\ waiting.eof <=> Head(todo) \in Ends
        /\ waiting.bugs <=> Asks \notin Quiet4
        /\ waiting.want \subseteq Shells \cup Answers
        /\ Head(todo) \notin Questions => waiting.want \subseteq Shells
        /\ Head(todo) = "release" => waiting.want = {"release"}
        /\ Head(todo) = "grep" =>
              "not ok" \in waiting.want /\ waiting.want \subseteq Shells \cup {"not ok"}

(* Bug patterns are off from the wait of a provoked warning to the step    *)
(* that ends its window; the log is in the window all that time.           *)
BugInv ==
    result = "open" /\ ~bug_patterns =>
        /\ todo # <<>>
        /\ \/ Head(todo) = "provoke" /\ waiting # Idle
           \/ Head(todo) = "detect" /\ waiting = Idle

Windowed(l) == \E s \in 1..Len(l) : l[s] = "ignore" /\ \A k \in s..Len(l) : l[k] # "detect"
WindowInv ==
    Open /\ ( \/ Head(todo) = "ignore" /\ waiting # Idle
              \/ Head(todo) = "provoke"
              \/ Head(todo) = "detect" /\ waiting = Idle) => Windowed(log)

(* xmon was entered and not left. *)
InXmon ==
    \/ At(todo, 1) = "xmon" /\ waiting # Idle
    \/ At(todo, 2) = "xmon_exit"
    \/ At(todo, 1) = "xmon_exit" /\ waiting = Idle
StackInv == Open => prompt_stack = IF InXmon THEN <<prompt, "xmon">> ELSE <<prompt>>

ShellInv ==
    Open /\ args.cloud = "ubuntu" /\ owed # <<>> =>
        (owed[Len(owed)] \in Shells => owed[Len(owed)] \in PromptMatches(Prompt))

(* One shell is waited for at a time, and none before a step asks for it.  *)
NoShell(s) == \A i \in 1..Len(s) : s[i] \notin Shells
Loose == Head(todo) = "prompt" \/ (Head(todo) = "boot" /\ args.cloud = None)
NoPrompt == {"boot", "login", "user", "monitor", "quit", "poweroff"}
SyncInv ==
    Open =>
        /\ \A i, k \in 1..Len(buffer) : buffer[i] \in Shells /\ buffer[k] \in Shells => i = k
        /\ \A i \in 1..Len(owed) : owed[i] \in Shells => i = Len(owed)
        /\ NoShell(buffer) \/ NoShell(owed)
        /\ ~Loose /\ (waiting = Idle \/ Head(todo) \in NoPrompt) => NoShell(buffer) /\ NoShell(owed)

(* A failed test is printed before the shell that answers the grep. *)
GrepInv ==
    Open /\ Head(todo) = "grep" /\ waiting # Idle /\ guest.tests_fail =>
        \/ NoShell(buffer) /\ Mentions(owed, "not ok")
        \/ \E i \in 1..Len(buffer) : buffer[i] = "not ok" /\ \A k \in 1..i : buffer[k] \notin Shells

ReleaseInv == Mentions(buffer, "release") \/ Mentions(owed, "release") => guest.release # "other"

(* What is not known to be right is still to be looked at. *)
Selftests == \E k \in 1..Len(opts.callbacks) : opts.callbacks[k] = "selftests"
TestsInv ==
    result = "open" /\ child # "none" =>
        /\ guest.release # "other" \/ Mentions(todo, "release")
        /\ Selftests => ~guest.tests_fail \/ Mentions(todo, "grep")

SkipInv == \A w \in skipped : ~w.bugs /\ w.who \in Quiet4

(* What the verdict stands for. *)
LogIsClean ==
    BootedOk => \A i \in DOMAIN Lines : Lines[i].hits > 0 => Scan!InWindow(Lines, i)

SessInv ==
    /\ TypeInv /\ StartInv /\ WaitInv /\ BugInv /\ WindowInv /\ StackInv /\ ShellInv
    /\ SyncInv /\ GrepInv /\ ReleaseInv /\ TestsInv /\ SkipInv /\ LogIsClean
    /\ VerdictHonoursTests

(* A step that sends or waits, whichever it is. *)
Says ==
    LET s == Head(todo) IN
    CASE s \in {"boot", "login", "prompt", "quit", "poweroff"} -> <<>>
      [] s = "user" -> <<"password">>
      [] s = "monitor" -> <<"(qemu)">>
      [] s = "release" -> When(ReleaseMatches, "release") \o <<"home">>
      [] s = "grep" -> When(guest.tests_fail, "not ok") \o <<Here>>
      [] s = "password" -> <<"home">>
      [] s = "enter_test" -> <<"away">>
      [] s = "xmon" -> <<"xmon">>
      [] s = "cmd" -> <<IF Prompt = "xmon" THEN "xmon" ELSE Here>>
      [] OTHER -> <<Here>>

Wanted(want) ==
    /\ want \subseteq Shells \cup Answers
    /\ Head(todo) \notin Questions => want \subseteq Shells
    /\ Head(todo) = "release" => want = {"release"}
    /\ Head(todo) = "grep" => "not ok" \in want /\ want \subseteq Shells \cup {"not ok"}

AskFrame ==
    /\ result = "open" /\ waiting = Idle /\ todo # <<>>
    /\ UNCHANGED <<confVars, child, buffer, skipped, opts, todo, guest, result>>
    /\ bug_patterns' = CASE Head(todo) = "provoke" -> FALSE
                         [] Head(todo) = "detect" -> TRUE
                         [] OTHER -> bug_patterns
    /\ log' = IF Head(todo) \in Markers THEN Append(log, Head(todo)) ELSE log
    /\ prompt_stack' = CASE Head(todo) = "xmon" -> Append(prompt_stack, "xmon")
                         [] Head(todo) = "xmon_exit" ->
                               SubSeq(prompt_stack, 1, Len(prompt_stack) - 1)
                         [] OTHER -> prompt_stack
    /\ owed' = owed \o Says

AskWait ==
    /\ waiting' # Idle
    /\ waiting'.who = Asks
    /\ waiting'.eof <=> Head(todo) \in Ends
    /\ waiting'.bugs <=> Asks \notin Quiet4
    /\ Wanted(waiting'.want)

Sending ==
    \/ Boot \/ Login \/ SendUser \/ BootPrompt \/ SendPassword \/ CheckRelease
    \/ SendCmd \/ SendLong \/ EnterTest \/ Trigger
    \/ RunSelftests \/ GrepNotOk \/ IgnoreWarnings \/ Provoke \/ DetectWarnings
    \/ XmonEnter \/ XmonExit \/ Monitor \/ Shutdown

LEMMA AppendOwed ==
    ASSUME TypeInv, NEW x \in Items
    PROVE  Append(owed, x) = owed \o <<x>>
    BY AppendIsConcat DEF TypeInv

LEMMA EmptyOwed == ASSUME TypeInv PROVE owed \o <<>> = owed
    BY ConcatEmptySeq DEF TypeInv

LEMMA WhenOwed ==
    ASSUME TypeInv, NEW b, NEW x \in Items, NEW y \in Items
    PROVE  owed \o When(b, x) \o <<y>> = owed \o (When(b, x) \o <<y>>)
<1>1. When(b, x) \in Seq(Items) /\ <<y>> \in Seq(Items)
    BY EmptySeq DEF When
<1> QED BY <1>1, ConcatAssociative DEF TypeInv

LEMMA HereIsShell == Here \in {"home", "away"}
    BY DEF Here

LEMMA SendsFrame == ASSUME TypeInv, Sending PROVE AskFrame
<1>1. Here \in Items /\ {"home", "away", "xmon", "password", "(qemu)", "release", "not ok"} \subseteq Items
    BY HereIsShell DEF Items, Shells, Answers
<1>2. CASE Boot \/ Login \/ BootPrompt \/ Shutdown
    BY <1>2, EmptyOwed DEF Boot, Login, BootPrompt, Shutdown, Ready, Silent, AskFrame, Says, Markers
<1>3. CASE SendUser \/ SendPassword \/ Monitor \/ EnterTest
    BY <1>3, <1>1, AppendOwed DEF SendUser, SendPassword, Monitor, EnterTest, ExpectPrompt,
       Ready, Silent, AskFrame, Says, Markers
<1>4. CASE CheckRelease
  <2>1. owed' = owed \o (When(ReleaseMatches, "release") \o <<"home">>)
      BY <1>4, <1>1, WhenOwed DEF CheckRelease
  <2> QED BY <1>4, <2>1 DEF CheckRelease, Ready, Silent, AskFrame, Says, Markers
<1>5. CASE GrepNotOk
    BY <1>5, <1>1, WhenOwed DEF GrepNotOk, Ready, Silent, AskFrame, Says, Markers
<1>6. CASE SendCmd
  <2>1. (IF Prompt = "xmon" THEN "xmon" ELSE Here) \in Items
      BY <1>1
  <2> QED BY <1>6, <2>1, AppendOwed DEF SendCmd, ExpectPrompt, Ready, Silent, AskFrame, Says, Markers
<1>7. CASE SendLong \/ Trigger \/ RunSelftests
    BY <1>7, <1>1, AppendOwed DEF SendLong, ExpectPrompt, Trigger, RunSelftests,
       Ready, Silent, AskFrame, Says, Markers
<1>8. CASE IgnoreWarnings \/ Provoke \/ DetectWarnings
    BY <1>8, <1>1, AppendOwed DEF IgnoreWarnings, ExpectPrompt, Provoke, DetectWarnings,
       Ready, Silent, AskFrame, Says, Markers
<1>9. CASE XmonEnter \/ XmonExit
    BY <1>9, <1>1, AppendOwed DEF XmonEnter, XmonExit, PushPrompt, PopPrompt,
       Ready, Silent, AskFrame, Says, Markers
<1> QED BY <1>2, <1>3, <1>4, <1>5, <1>6, <1>7, <1>8, <1>9 DEF Sending

(* The prompts on the stack are those of shells. *)
LEMMA PromptsAreShells ==
    ASSUME StartInv, StackInv, Open
    PROVE  /\ PromptMatches(Prompt) \subseteq Shells
           /\ InXmon => Prompt = "xmon" /\ prompt_stack = <<prompt, "xmon">>
           /\ ~InXmon => Prompt = prompt /\ prompt_stack = <<prompt>>
           /\ prompt = PromptOf(args.cloud) /\ prompt \in {"anywhere", "home"}
<1>1. child # "none"
    BY DEF StartInv, Open
<1>2. prompt = PromptOf(args.cloud) /\ prompt \in {"anywhere", "home"}
    BY <1>1 DEF StartInv, PromptOf, Open
<1>3. prompt_stack = IF InXmon THEN <<prompt, "xmon">> ELSE <<prompt>>
    BY DEF StackInv
<1>4. InXmon => Prompt = "xmon"
    BY <1>3 DEF Prompt
<1>5. ~InXmon => Prompt = prompt
    BY <1>3 DEF Prompt
<1>6. PromptMatches(Prompt) \subseteq Shells
    BY <1>2, <1>4, <1>5 DEF PromptMatches, Shells
<1> QED BY <1>2, <1>3, <1>4, <1>5, <1>6

LEMMA SendsWait ==
    ASSUME TypeInv, StartInv, BugInv, StackInv, Sending PROVE AskWait
<1>0. Open /\ waiting = Idle /\ (bug_patterns \/ Head(todo) = "detect")
  <2>1. result = "open" /\ todo # <<>> /\ waiting = Idle
      BY DEF Sending, Boot, Login, SendUser, BootPrompt, SendPassword, CheckRelease,
         SendCmd, SendLong, EnterTest, Trigger, RunSelftests, GrepNotOk, IgnoreWarnings,
         Provoke, DetectWarnings, XmonEnter, XmonExit, Monitor, Shutdown, Ready
  <2> QED BY <2>1 DEF BugInv, Open
<1>1. PromptMatches(Prompt) \subseteq Shells
    BY <1>0, PromptsAreShells
<1>2. {"freeing", "login", "password", "release", "not ok", "(qemu)"} \subseteq Answers /\ "xmon" \in Shells
    BY DEF Answers, Shells
<1> DEFINE Waits(who, want, bugs) ==
        waiting'.who = who /\ waiting'.want = want /\ waiting'.eof = FALSE /\ waiting'.bugs = bugs
<1>p. Head(todo) # "detect" => bug_patterns = TRUE
    BY <1>0, Zenon DEF TypeInv
<1>n. waiting'.who # "nobody" => waiting' # Idle
    BY DEF Idle
<1>3. CASE Boot \/ Login \/ SendUser \/ Monitor
  <2>1. Waits(Head(todo), waiting'.want, bug_patterns) /\ Head(todo) \in {"boot", "login", "user", "monitor"}
      BY <1>3 DEF Boot, Login, SendUser, Monitor, Ready, Expect
  <2>2. \/ waiting'.want = PromptMatches(Prompt) \cup {"login", "freeing"}
        \/ waiting'.want \in {{"login"}, {"password"}, {"(qemu)"}}
      BY <1>3 DEF Boot, Login, SendUser, Monitor, Expect
  <2>3. waiting'.want \subseteq Shells \cup Answers
      BY <1>1, <2>2 DEF Answers
  <2> QED BY <2>1, <2>3, <1>p, <1>n DEF AskWait, Wanted, Asks, Ends, Quiet4, Questions
<1>4. CASE BootPrompt \/ SendPassword \/ SendCmd \/ SendLong \/ EnterTest \/ IgnoreWarnings
  <2>1. /\ Waits(Head(todo), PromptMatches(Prompt), bug_patterns)
        /\ Head(todo) \in {"prompt", "password", "cmd", "long", "enter_test", "ignore"}
      BY <1>4 DEF BootPrompt, SendPassword, SendCmd, SendLong, EnterTest, IgnoreWarnings,
         ExpectPrompt, Ready, Expect
  <2> QED BY <2>1, <1>1, <1>p, <1>n DEF AskWait, Wanted, Asks, Ends, Quiet4, Questions
<1>5. CASE CheckRelease
  <2>1. Waits("release", {"release"}, bug_patterns) /\ Head(todo) = "release"
      BY <1>5 DEF CheckRelease, Ready, Expect
  <2> QED BY <2>1, <1>2, <1>p, <1>n DEF AskWait, Wanted, Asks, Ends, Quiet4, Questions
<1>6. CASE GrepNotOk
  <2>1. /\ Waits("grep", {"not ok"} \cup PromptMatches(Prompt), bug_patterns)
        /\ Head(todo) = "grep"
      BY <1>6 DEF GrepNotOk, Ready, Expect
  <2> QED BY <2>1, <1>1, <1>2, <1>p, <1>n DEF AskWait, Wanted, Asks, Ends, Quiet4, Questions
<1>7. CASE Trigger \/ RunSelftests \/ Provoke
  <2>1. /\ Waits(Head(todo), PromptMatches(Prompt), FALSE)
        /\ Head(todo) \in {"trigger", "run_selftests", "provoke"}
      BY <1>7 DEF Trigger, RunSelftests, Provoke, Ready, Expect
  <2> QED BY <2>1, <1>1, <1>n DEF AskWait, Wanted, Asks, Ends, Quiet4, Questions
<1>8. CASE DetectWarnings
  <2>1. Waits("detect", PromptMatches(Prompt), TRUE) /\ Head(todo) = "detect"
      BY <1>8 DEF DetectWarnings, Ready, Expect
  <2> QED BY <2>1, <1>1, <1>n DEF AskWait, Wanted, Asks, Ends, Quiet4, Questions
<1>9. CASE XmonEnter
  <2>1. Waits("xmon", {"xmon"}, bug_patterns) /\ Head(todo) = "xmon"
      BY <1>9 DEF XmonEnter, Ready, Expect
  <2> QED BY <2>1, <1>2, <1>p, <1>n DEF AskWait, Wanted, Asks, Ends, Quiet4, Questions
<1>10. CASE XmonExit
  <2>1. Head(todo) = "xmon_exit" /\ At(todo, 1) = "xmon_exit"
    <3>1. todo \in Seq(StepNames)
        BY <1>0, <1>10 DEF StartInv, Open, Plan, XmonExit
    <3>2. Len(todo) \in Nat \ {0} /\ Head(todo) = todo[1]
        BY <1>0, <3>1, EmptySeq DEF Open
    <3> QED BY <1>10, <3>1, <3>2 DEF XmonExit, Ready, At
  <2>2. prompt_stack = <<prompt, "xmon">> /\ prompt \in {"anywhere", "home"}
      BY <1>0, <2>1, PromptsAreShells DEF InXmon
  <2>3. PromptMatches(prompt_stack[Len(prompt_stack) - 1]) \subseteq Shells
      BY <2>2 DEF PromptMatches, Shells
  <2>4. Waits("xmon_exit", PromptMatches(prompt_stack[Len(prompt_stack) - 1]), bug_patterns)
      BY <1>10 DEF XmonExit, Expect
  <2> QED BY <2>1, <2>3, <2>4, <1>p, <1>n DEF AskWait, Wanted, Asks, Ends, Quiet4, Questions
<1>11. CASE Shutdown
  <2>1. /\ waiting'.who = "shutdown" /\ waiting'.want = {} /\ waiting'.eof = TRUE
        /\ waiting'.bugs = FALSE /\ Head(todo) \in Ends
      BY <1>11 DEF Shutdown, Ready, WaitForExit, Ends
  <2> QED BY <2>1, <1>n DEF AskWait, Wanted, Asks, Ends, Quiet4
<1> QED BY <1>3, <1>4, <1>5, <1>6, <1>7, <1>8, <1>9, <1>10, <1>11 DEF Sending

LEMMA HeadOfPlan ==
    ASSUME Plan(todo), todo # <<>>
    PROVE  /\ Head(todo) = At(todo, 1) /\ Head(todo) \in StepNames
           /\ At(todo, 2) = "xmon_exit" => Head(todo) = "cmd"
<1>1. Ordered(todo, 1)
    BY DEF Plan
<1> QED BY <1>1, PlanTail DEF Ordered

(* What a step makes the guest print: nothing, a shell or an answer, or an *)
(* answer and then a shell.                                                *)
Mute == {"boot", "login", "prompt", "quit", "poweroff"}
ShellIs(y) == y \in Shells =>
    (y = "xmon" <=> Head(todo) = "xmon" \/ (Head(todo) = "cmd" /\ Prompt = "xmon"))

LEMMA PairConcat == ASSUME NEW x, NEW y PROVE <<x>> \o <<y>> = <<x, y>>
<1> DEFINE S == {x, y}
           a == <<x>>
           b == <<y>>
           c == <<x, y>>
<1>1. /\ a \in Seq(S) /\ Len(a) = 1 /\ a[1] = x
      /\ b \in Seq(S) /\ Len(b) = 1 /\ b[1] = y
      /\ c \in Seq(S) /\ Len(c) = 2 /\ c[1] = x /\ c[2] = y
    OBVIOUS
<1> HIDE DEF S, a, b, c
<1>2. /\ a \o b \in Seq(S) /\ Len(a \o b) = 2 /\ (a \o b)[1] = x /\ (a \o b)[2] = y
  <2>1. /\ a \o b \in Seq(S) /\ Len(a \o b) = Len(a) + Len(b)
        /\ \A i \in 1..(Len(a) + Len(b)) : (a \o b)[i] = IF i <= Len(a) THEN a[i] ELSE b[i - Len(a)]
      BY <1>1, ConcatProperties
  <2>2. 1 \in 1..2 /\ 2 \in 1..2 /\ 1 <= 1 /\ ~(2 <= 1) /\ 2 - 1 = 1 /\ 1 + 1 = 2
      OBVIOUS
  <2> QED BY <1>1, <2>1, <2>2
<1>3. \A i \in 1..Len(a \o b) : (a \o b)[i] = c[i]
    BY <1>1, <1>2
<1>4. a \o b = c
    BY <1>1, <1>2, <1>3, SeqEqual
<1> QED BY <1>4 DEF a, b, c

LEMMA SaysForm ==
    ASSUME Head(todo) \in StepNames
    PROVE  \/ Says = <<>> /\ Head(todo) \in Mute
           \/ \E y \in Items :
                 /\ Says = <<y>> /\ y # "release" /\ Head(todo) \notin Mute
                 /\ Head(todo) \in {"user", "monitor"} => y \notin Shells
                 /\ Head(todo) = "grep" => ~guest.tests_fail
                 /\ ShellIs(y)
           \/ \E x \in Answers, y \in Items :
                 /\ Says = <<x, y>> /\ ShellIs(y) /\ y # "release"
                 /\ \/ x = "release" /\ Head(todo) = "release" /\ guest.release # "other"
                    \/ x = "not ok" /\ Head(todo) = "grep"
<1>1. /\ Here \in {"home", "away"} /\ {"home", "away"} \subseteq Shells
      /\ Shells \subseteq Items /\ Answers \subseteq Items
      /\ {"release", "not ok", "password", "(qemu)"} \subseteq Answers
      /\ {"password", "(qemu)"} \cap Shells = {} /\ "xmon" \in Shells /\ "release" \notin Shells
    BY HereIsShell DEF Items, Shells, Answers
<1>2. CASE Head(todo) \in Mute
    BY <1>2 DEF Says, Mute
<1>3. CASE Head(todo) = "release"
  <2>1. Says = When(ReleaseMatches, "release") \o <<"home">>
      BY <1>3 DEF Says
  <2>2. CASE ReleaseMatches
    <3>1. Says = <<"release", "home">>
        BY <2>1, <2>2, PairConcat DEF When
    <3>2. guest.release # "other"
        BY <2>2 DEF ReleaseMatches
    <3>3. ShellIs("home")
        BY <1>3 DEF ShellIs
    <3> QED BY <1>1, <1>3, <3>1, <3>2, <3>3
  <2>3. CASE ~ReleaseMatches
    <3>1. Says = <<"home">>
        BY <2>1, <2>3 DEF When
    <3>2. ShellIs("home")
        BY <1>3 DEF ShellIs
    <3> QED BY <1>1, <1>3, <3>1, <3>2 DEF Mute
  <2> QED BY <2>2, <2>3
<1>4. CASE Head(todo) = "grep"
  <2>1. Says = When(guest.tests_fail, "not ok") \o <<Here>>
      BY <1>4 DEF Says
  <2>2. ShellIs(Here)
      BY <1>1, <1>4 DEF ShellIs
  <2>3. CASE guest.tests_fail
    <3>1. Says = <<"not ok", Here>>
        BY <2>1, <2>3, PairConcat DEF When
    <3> QED BY <1>1, <1>4, <3>1, <2>2
  <2>4. CASE ~guest.tests_fail
    <3>1. Says = <<Here>>
        BY <2>1, <2>4 DEF When
    <3> QED BY <1>1, <1>4, <2>2, <2>4, <3>1 DEF Mute
  <2> QED BY <2>3, <2>4
<1>5. CASE Head(todo) \notin Mute \cup {"release", "grep"}
  <2>1. \E y \in Items : /\ Says = <<y>> /\ y # "release"
                         /\ Head(todo) \in {"user", "monitor"} => y \notin Shells
                         /\ ShellIs(y)
    <3>1. CASE Head(todo) = "user"
        BY <1>1, <3>1 DEF Says, ShellIs
    <3>2. CASE Head(todo) = "monitor"
        BY <1>1, <3>2 DEF Says, ShellIs
    <3>3. CASE Head(todo) = "password"
        BY <1>1, <3>3 DEF Says, ShellIs
    <3>4. CASE Head(todo) = "enter_test"
        BY <1>1, <3>4 DEF Says, ShellIs
    <3>5. CASE Head(todo) = "xmon"
        BY <1>1, <3>5 DEF Says, ShellIs
    <3>6. CASE Head(todo) = "cmd" /\ Prompt = "xmon"
      <4>1. Says = <<"xmon">>
          BY <3>6 DEF Says
      <4> QED BY <1>1, <3>6, <4>1 DEF ShellIs
    <3>7. CASE Head(todo) = "cmd" /\ Prompt # "xmon"
      <4>1. Says = <<Here>>
          BY <3>7 DEF Says
      <4> QED BY <1>1, <3>7, <4>1 DEF ShellIs
    <3>8. CASE Head(todo) \notin {"user", "monitor", "password", "enter_test", "xmon", "cmd"}
      <4>1. Says = <<Here>>
          BY <1>5, <3>8 DEF Says, Mute
      <4> QED BY <1>1, <3>8, <4>1 DEF ShellIs
    <3> QED BY <3>1, <3>2, <3>3, <3>4, <3>5, <3>6, <3>7, <3>8
  <2> QED BY <1>5, <2>1
<1> QED BY <1>2, <1>3, <1>4, <1>5

(* The console after it: what was owed, then that. *)
LEMMA OwedGrows ==
    ASSUME owed \in Seq(Items), Head(todo) \in StepNames, owed' = owed \o Says,
           NEW n \in Nat, n = Len(owed)
    PROVE  /\ owed' \in Seq(Items)
           /\ \E m \in 0..2 :
                /\ Len(owed') = n + m /\ (m = 0 <=> Head(todo) \in Mute)
                /\ \A i \in 1..n : owed'[i] = owed[i]
                /\ m = 2 => owed'[n + 1] \notin Shells
                /\ m > 0 => ShellIs(owed'[n + m])
                /\ Head(todo) \in {"user", "monitor"} => owed'[n + m] \notin Shells
                /\ Head(todo) = "grep" /\ guest.tests_fail => m = 2 /\ owed'[n + 1] = "not ok"
                /\ \A i \in 1..(n + m) : i > n /\ owed'[i] = "release" => guest.release # "other"
<1>0. Answers \cap Shells = {} /\ Answers \subseteq Items /\ "release" \notin Shells
    BY DEF Answers, Shells, Items
<1>1. CASE Says = <<>> /\ Head(todo) \in Mute
  <2>1. owed' = owed
      BY <1>1, ConcatEmptySeq
  <2>2. "user" \notin Mute /\ "monitor" \notin Mute /\ "grep" \notin Mute
      BY DEF Mute
  <2>3. 0 \in 0..2 /\ n + 0 = n /\ 0 # 2 /\ ~(0 > 0) /\ \A i \in 1..n : ~(i > n)
      OBVIOUS
  <2>4. Head(todo) \notin {"user", "monitor"} /\ Head(todo) # "grep"
      BY <1>1, <2>2
  <2> QED BY <1>1, <2>1, <2>3, <2>4
<1>2. ASSUME NEW y \in Items,
             Says = <<y>> /\ y # "release" /\ Head(todo) \notin Mute,
             Head(todo) \in {"user", "monitor"} => y \notin Shells,
             Head(todo) = "grep" => ~guest.tests_fail,
             ShellIs(y)
      PROVE  /\ owed' \in Seq(Items)
             /\ Len(owed') = n + 1 /\ owed'[n + 1] = y /\ \A i \in 1..n : owed'[i] = owed[i]
    BY <1>2, ConcatProperties
<1>3. ASSUME NEW x \in Answers, NEW y \in Items, Says = <<x, y>>
      PROVE  /\ owed' \in Seq(Items) /\ Len(owed') = n + 2
             /\ owed'[n + 1] = x /\ owed'[n + 2] = y /\ \A i \in 1..n : owed'[i] = owed[i]
    BY <1>0, <1>3, ConcatProperties
<1>4. ASSUME NEW y \in Items,
             Says = <<y>> /\ y # "release" /\ Head(todo) \notin Mute,
             Head(todo) \in {"user", "monitor"} => y \notin Shells,
             Head(todo) = "grep" => ~guest.tests_fail,
             ShellIs(y)
      PROVE  \E m \in 0..2 :
                /\ Len(owed') = n + m /\ (m = 0 <=> Head(todo) \in Mute)
                /\ \A i \in 1..n : owed'[i] = owed[i]
                /\ m = 2 => owed'[n + 1] \notin Shells
                /\ m > 0 => ShellIs(owed'[n + m])
                /\ Head(todo) \in {"user", "monitor"} => owed'[n + m] \notin Shells
                /\ Head(todo) = "grep" /\ guest.tests_fail => m = 2 /\ owed'[n + 1] = "not ok"
                /\ \A i \in 1..(n + m) : i > n /\ owed'[i] = "release" => guest.release # "other"
  <2>1. /\ Len(owed') = n + 1 /\ owed'[n + 1] = y /\ \A i \in 1..n : owed'[i] = owed[i]
      BY <1>2, <1>4
  <2>2. \A i \in 1..(n + 1) : i > n => i = n + 1
      OBVIOUS
  <2>3. 1 \in 0..2 /\ 1 # 2 /\ 1 # 0
      OBVIOUS
  <2> QED BY <1>4, <2>1, <2>2, <2>3
<1>5. ASSUME NEW x \in Answers, NEW y \in Items, Says = <<x, y>>, ShellIs(y), y # "release",
             \/ x = "release" /\ Head(todo) = "release" /\ guest.release # "other"
             \/ x = "not ok" /\ Head(todo) = "grep"
      PROVE  \E m \in 0..2 :
                /\ Len(owed') = n + m /\ (m = 0 <=> Head(todo) \in Mute)
                /\ \A i \in 1..n : owed'[i] = owed[i]
                /\ m = 2 => owed'[n + 1] \notin Shells
                /\ m > 0 => ShellIs(owed'[n + m])
                /\ Head(todo) \in {"user", "monitor"} => owed'[n + m] \notin Shells
                /\ Head(todo) = "grep" /\ guest.tests_fail => m = 2 /\ owed'[n + 1] = "not ok"
                /\ \A i \in 1..(n + m) : i > n /\ owed'[i] = "release" => guest.release # "other"
  <2>1. /\ Len(owed') = n + 2 /\ owed'[n + 1] = x /\ owed'[n + 2] = y
        /\ \A i \in 1..n : owed'[i] = owed[i]
      BY <1>3, <1>5
  <2>2. \A i \in 1..(n + 2) : i > n => i = n + 1 \/ i = n + 2
      OBVIOUS
  <2>3. 2 \in 0..2 /\ 2 # 0 /\ x \notin Shells
      BY <1>0
  <2>4. Head(todo) \in {"release", "grep"} /\ Head(todo) \notin Mute
      BY <1>5 DEF Mute
  <2>5. y # "release" /\ (x = "release" => guest.release # "other")
      BY <1>5
  <2> QED BY <1>5, <2>1, <2>2, <2>3, <2>4, <2>5
<1> QED BY <1>1, <1>2, <1>3, <1>4, <1>5, SaysForm

(* A line that ends no window leaves the log in the one it is in. *)
LEMMA WindowedAppend ==
    ASSUME NEW T, NEW l \in Seq(T), NEW x \in T, x # "detect", x = "ignore" \/ Windowed(l)
    PROVE  Windowed(Append(l, x))
<1>1. PICK n \in Nat : n = Len(l)
    BY LenProperties
<1>2. /\ Len(Append(l, x)) = n + 1 /\ Append(l, x)[n + 1] = x
      /\ \A i \in 1..n : Append(l, x)[i] = l[i]
    BY <1>1, AppendProperties
<1>3. CASE x = "ignore"
  <2>1. n + 1 \in 1..(n + 1) /\ \A k \in (n + 1)..(n + 1) : k = n + 1
      OBVIOUS
  <2> QED BY <1>2, <1>3, <2>1 DEF Windowed
<1>4. CASE Windowed(l)
  <2>1. PICK s \in 1..n : l[s] = "ignore" /\ \A k \in s..n : l[k] # "detect"
      BY <1>1, <1>4 DEF Windowed
  <2>2. s \in 1..(n + 1) /\ \A k \in s..(n + 1) : k = n + 1 \/ (k \in s..n /\ k \in 1..n)
      OBVIOUS
  <2>3. Append(l, x)[s] = "ignore" /\ \A k \in s..(n + 1) : Append(l, x)[k] # "detect"
      BY <1>2, <2>1, <2>2
  <2> QED BY <1>2, <2>2, <2>3 DEF Windowed
<1> QED BY <1>3, <1>4

(* Entering xmon and leaving it. *)
LEMMA PushAndPop ==
    ASSUME NEW p
    PROVE  /\ Append(<<p>>, "xmon") = <<p, "xmon">>
           /\ SubSeq(<<p, "xmon">>, 1, Len(<<p, "xmon">>) - 1) = <<p>>
<1> DEFINE S == {p, "xmon"}
           a == <<p>>
           c == <<p, "xmon">>
<1>1. a \in Seq(S) /\ Len(a) = 1 /\ a[1] = p /\ c \in Seq(S) /\ Len(c) = 2 /\ c[1] = p /\ c[2] = "xmon"
    OBVIOUS
<1>2. Append(a, "xmon") = a \o <<"xmon">>
    BY <1>1, AppendIsConcat
<1>3. Append(a, "xmon") = c
    BY <1>2, PairConcat
<1>4. SubSeq(c, 1, 1) = a
  <2> HIDE DEF S, a, c
  <2> DEFINE d == SubSeq(c, 1, 1)
  <2>1. \A i \in 1..1 : c[i] \in S
      BY <1>1, ElementOfSeq
  <2>2. d \in Seq(S) /\ Len(d) = (IF 1 <= 1 THEN 1 - 1 + 1 ELSE 0) /\ \A i \in 1..(1 - 1 + 1) : d[i] = c[1 + i - 1]
      BY <2>1, SubSeqProperties
  <2>3. d \in Seq(S) /\ Len(d) = 1 /\ \A i \in 1..Len(d) : d[i] = a[i]
      BY <1>1, <2>2
  <2> HIDE DEF d
  <2>4. d = a
      BY <1>1, <2>3, SeqEqual
  <2> QED BY <2>4 DEF d
<1> QED BY <1>1, <1>3, <1>4 

(* A step sends, and waits: of what was so, what matters stays so. *)
LEMMA SendsInv == ASSUME SessInv, Sending PROVE SessInv'
<1> USE DEF SessInv
<1>1. AskFrame /\ AskWait
    BY SendsFrame, SendsWait
<1>2. Open /\ child # "none" /\ Plan(todo) /\ waiting = Idle /\ waiting' # Idle
    BY <1>1 DEF AskFrame, AskWait, StartInv, Open
<1>3. /\ Head(todo) = At(todo, 1) /\ Head(todo) \in StepNames
      /\ At(todo, 2) = "xmon_exit" => Head(todo) = "cmd"
    BY <1>2, HeadOfPlan DEF Open
<1>4. /\ result' = result /\ todo' = todo /\ child' = child /\ buffer' = buffer
      /\ skipped' = skipped /\ opts' = opts /\ guest' = guest
      /\ args' = args /\ prompt' = prompt /\ conf_phase' = conf_phase
    BY <1>1 DEF AskFrame, confVars
<1>n. PICK n \in Nat : n = Len(owed)
    BY LenProperties DEF TypeInv
<1>5. PICK m \in 0..2 :
        /\ Len(owed') = n + m /\ (m = 0 <=> Head(todo) \in Mute)
        /\ \A i \in 1..n : owed'[i] = owed[i]
        /\ m = 2 => owed'[n + 1] \notin Shells
        /\ m > 0 => ShellIs(owed'[n + m])
        /\ Head(todo) \in {"user", "monitor"} => owed'[n + m] \notin Shells
        /\ Head(todo) = "grep" /\ guest.tests_fail => m = 2 /\ owed'[n + 1] = "not ok"
        /\ \A i \in 1..(n + m) : i > n /\ owed'[i] = "release" => guest.release # "other"
    BY <1>1, <1>3, <1>n, OwedGrows DEF TypeInv, AskFrame
<1>a. \A i \in 1..n : owed'[i] = owed[i]
    BY <1>5
<1>b. Head(todo) = "grep" /\ guest.tests_fail => m = 2 /\ owed'[n + 1] = "not ok"
    BY <1>5, Zenon
<1>6. TypeInv'
  <2>1. bug_patterns' \in BOOLEAN
      BY <1>1, Zenon DEF AskFrame, TypeInv
  <2>2. log' \in Seq(Noise \cup Markers)
      BY <1>1, AppendProperties DEF AskFrame, TypeInv
  <2>3. owed' \in Seq(Items)
      BY <1>1, <1>3, <1>n, OwedGrows DEF TypeInv, AskFrame
  <2> QED BY <1>4, <2>1, <2>2, <2>3 DEF TypeInv
<1>7. StartInv'
    BY <1>1, <1>2, <1>4 DEF StartInv, AskFrame
<1>8. WaitInv'
    BY <1>1, <1>2, <1>4 DEF AskWait, WaitInv, Wanted, Asks, Open
<1>9. BugInv'
  <2>1. bug_patterns \/ Head(todo) = "detect"
      BY <1>2 DEF BugInv, Open
  <2>2. bug_patterns' \/ Head(todo) = "provoke"
      BY <1>1, <2>1, Zenon DEF AskFrame
  <2> QED BY <1>2, <1>4, <2>2 DEF BugInv, Open
<1>10. WindowInv'
  <2> SUFFICES ASSUME Head(todo) \in {"ignore", "provoke"} PROVE Windowed(log')
      BY <1>2, <1>4 DEF WindowInv
  <2>1. CASE Head(todo) = "ignore"
    <3>1. log' = Append(log, "ignore") /\ "ignore" \in Noise \cup Markers
        BY <1>1, <2>1 DEF AskFrame, Markers
    <3> QED BY <3>1, WindowedAppend DEF TypeInv
  <2>2. CASE Head(todo) = "provoke"
      BY <1>1, <1>2, <2>2 DEF AskFrame, WindowInv, Markers
  <2> QED BY <2>1, <2>2
<1>11. prompt_stack = (IF InXmon THEN <<prompt, "xmon">> ELSE <<prompt>>) /\ Prompt = prompt_stack[Len(prompt_stack)]
    BY <1>2 DEF StackInv, Prompt
<1>12. StackInv'
  <2>1. InXmon <=> At(todo, 2) = "xmon_exit" \/ Head(todo) = "xmon_exit"
      BY <1>2, <1>3 DEF InXmon
  <2>2. InXmon' <=> Head(todo) = "xmon" \/ At(todo, 2) = "xmon_exit"
      BY <1>2, <1>3, <1>4 DEF InXmon
  <2>3. CASE Head(todo) = "xmon"
    <3>1. ~InXmon /\ InXmon'
        BY <1>3, <2>1, <2>2, <2>3
    <3>2. prompt_stack' = Append(<<prompt>>, "xmon")
        BY <1>1, <1>11, <2>3, <3>1 DEF AskFrame
    <3>3. Append(<<prompt>>, "xmon") = <<prompt, "xmon">>
        BY PushAndPop
    <3> QED BY <1>4, <3>1, <3>2, <3>3 DEF StackInv
  <2>4. CASE Head(todo) = "xmon_exit"
    <3>1. InXmon /\ ~InXmon'
        BY <1>3, <2>1, <2>2, <2>4
    <3>2. prompt_stack' = SubSeq(<<prompt, "xmon">>, 1, Len(<<prompt, "xmon">>) - 1)
        BY <1>1, <1>11, <2>4, <3>1 DEF AskFrame
    <3>3. SubSeq(<<prompt, "xmon">>, 1, Len(<<prompt, "xmon">>) - 1) = <<prompt>>
        BY PushAndPop
    <3> QED BY <1>4, <3>1, <3>2, <3>3 DEF StackInv
  <2>5. CASE Head(todo) \notin {"xmon", "xmon_exit"}
    <3>1. InXmon <=> InXmon'
        BY <2>1, <2>2, <2>5
    <3>2. prompt_stack' = prompt_stack
        BY <1>1, <2>5 DEF AskFrame
    <3> QED BY <1>4, <1>11, <3>1, <3>2 DEF StackInv
  <2> QED BY <2>3, <2>4, <2>5
<1>o. Open' /\ Head(todo') = Head(todo)
    BY <1>2, <1>4 DEF Open
<1>13. ShellInv'
  <2> SUFFICES ASSUME args.cloud = "ubuntu", owed' # <<>>, owed'[n + m] \in Shells
               PROVE  owed'[n + m] \in PromptMatches(Prompt)'
      BY <1>4, <1>5 DEF ShellInv
  <2>1. CASE m = 0
    <3>1. Head(todo) \in Mute /\ owed' = owed
      <4>1. Head(todo) \in Mute
          BY <1>5, <2>1
      <4>2. Says = <<>>
          BY <4>1 DEF Says, Mute
      <4> QED BY <1>1, <4>1, <4>2, ConcatEmptySeq DEF AskFrame, TypeInv
    <3>2. prompt_stack' = prompt_stack
        BY <1>1, <3>1 DEF AskFrame, Mute
    <3>3. Prompt' = Prompt
        BY <3>2 DEF Prompt
    <3> QED BY <1>2, <1>n, <2>1, <3>1, <3>3 DEF ShellInv, PromptMatches
  <2>2. CASE m > 0
    <3>1. owed'[n + m] = "xmon" <=> Head(todo) = "xmon" \/ (Head(todo) = "cmd" /\ Prompt = "xmon")
        BY <1>5, <2>2 DEF ShellIs
    <3>2. /\ InXmon => Prompt = "xmon"
          /\ ~InXmon => Prompt = prompt
          /\ prompt = "anywhere"
      <4>1. prompt = PromptOf(args.cloud)
          BY <1>2, PromptsAreShells
      <4> QED BY <1>2, <4>1, PromptsAreShells DEF PromptOf
    <3>3. /\ InXmon' => Prompt' = "xmon"
          /\ ~InXmon' => Prompt' = prompt
      <4>1. prompt_stack' = IF InXmon' THEN <<prompt, "xmon">> ELSE <<prompt>>
          BY <1>4, <1>12, <1>o DEF StackInv
      <4> QED BY <4>1 DEF Prompt
    <3>4. InXmon' <=> Head(todo) = "xmon" \/ At(todo, 2) = "xmon_exit"
        BY <1>2, <1>3, <1>4 DEF InXmon
    <3>5. InXmon <=> At(todo, 2) = "xmon_exit" \/ Head(todo) = "xmon_exit"
        BY <1>2, <1>3 DEF InXmon
    <3>6. InXmon' <=> owed'[n + m] = "xmon"
        BY <1>3, <3>1, <3>2, <3>4, <3>5
    <3> QED BY <3>2, <3>3, <3>6 DEF PromptMatches, Shells
  <2> QED BY <2>1, <2>2
<1>14. SyncInv'
  <2>1. /\ \A i, k \in 1..Len(buffer) : buffer[i] \in Shells /\ buffer[k] \in Shells => i = k
        /\ \A i \in 1..n : owed[i] \in Shells => i = n
        /\ NoShell(buffer) \/ NoShell(owed)
        /\ ~Loose => NoShell(buffer) /\ NoShell(owed)
      BY <1>2, <1>n DEF SyncInv
  <2>2. Loose' <=> Loose
      BY <1>4 DEF Loose
  <2>3. Loose => m = 0
      BY <1>5 DEF Loose, Mute
  <2>4. ASSUME NEW i \in 1..(n + m), owed'[i] \in Shells PROVE i = n + m
    <3>1. CASE m = 0
        BY <1>5, <2>1, <2>4, <3>1
    <3>2. CASE m # 0
      <4>1. \A k \in 1..n : owed'[k] \notin Shells
          BY <1>5, <1>n, <2>1, <2>3, <3>2 DEF NoShell
      <4>2. i > n
          BY <4>1, <2>4
      <4>3. m = 1 \/ m = 2
          BY <3>2
      <4>4. i = n + 1 \/ i = n + m
          BY <2>4, <4>2, <4>3
      <4>5. m = 2 => owed'[n + 1] \notin Shells
          BY <1>5
      <4> QED BY <2>4, <4>3, <4>4, <4>5
    <3> QED BY <3>1, <3>2
  <2>5. NoShell(buffer) \/ NoShell(owed')
    <3>1. CASE m = 0
        BY <1>5, <1>n, <2>1, <3>1 DEF NoShell
    <3>2. CASE m # 0
        BY <2>1, <2>3, <3>2
    <3> QED BY <3>1, <3>2
  <2>6. ASSUME ~Loose, Head(todo) \in NoPrompt PROVE NoShell(buffer) /\ NoShell(owed')
    <3>1. \A k \in 1..n : owed'[k] \notin Shells
        BY <1>5, <1>n, <2>1, <2>6 DEF NoShell
    <3>2. m = 0 \/ owed'[n + m] \notin Shells
        BY <1>5, <2>6 DEF NoPrompt, Mute
    <3>3. NoShell(owed')
      <4>1. ASSUME NEW k \in 1..(n + m), owed'[k] \in Shells PROVE FALSE
        <5>1. k = n + m
            BY <2>4, <4>1
        <5>2. m # 0
            BY <3>1, <4>1
        <5> QED BY <3>2, <4>1, <5>1, <5>2
      <4> QED BY <1>5, <4>1 DEF NoShell
    <3> QED BY <2>1, <2>6, <3>3
  <2> QED BY <1>2, <1>4, <1>5, <2>1, <2>2, <2>4, <2>5, <2>6, <1>o DEF SyncInv
<1>15. GrepInv'
  <2> SUFFICES ASSUME Head(todo) = "grep", guest.tests_fail
               PROVE  NoShell(buffer) /\ Mentions(owed', "not ok")
      BY <1>4, <1>o DEF GrepInv
  <2>0. Head(todo) = "grep" /\ guest.tests_fail
      OBVIOUS
  <2>1. NoShell(buffer)
      BY <1>2 DEF SyncInv, Loose
  <2>2. m = 2 /\ owed'[n + 1] = "not ok" /\ n + 1 \in 1..(n + 2)
    <3>1. m = 2 /\ owed'[n + 1] = "not ok"
        BY <1>b, <2>0, Zenon
    <3>2. n + 1 \in 1..(n + 2)
        OBVIOUS
    <3> QED BY <3>1, <3>2, Zenon
  <2> QED BY <1>5, <2>1, <2>2 DEF Mentions
<1>16. ReleaseInv'
  <2>1. ASSUME NEW i \in 1..(n + m), owed'[i] = "release" PROVE guest.release # "other"
    <3>1. CASE i > n
        BY <1>5, <2>1, <3>1
    <3>2. CASE ~(i > n)
      <4>1. i \in 1..n /\ owed[i] = "release"
        <5>1. i \in 1..n
            BY <3>2
        <5> QED BY <1>a, <2>1, <5>1
      <4>2. Mentions(owed, "release")
          BY <1>n, <4>1 DEF Mentions
      <4> QED BY <4>2 DEF ReleaseInv
    <3> QED BY <3>1, <3>2
  <2>2. Mentions(owed', "release") => guest.release # "other"
      BY <1>5, <2>1 DEF Mentions
  <2> QED BY <1>4, <2>2 DEF ReleaseInv
<1>17. TestsInv' /\ SkipInv'
    BY <1>4 DEF TestsInv, SkipInv, Selftests
<1>18. LogIsClean' /\ VerdictHonoursTests'
    BY <1>2, <1>4 DEF LogIsClean, VerdictHonoursTests, BootedOk, Open
<1> QED BY <1>6, <1>7, <1>8, <1>9, <1>10, <1>12, <1>13, <1>14, <1>15, <1>16, <1>17, <1>18

LEMMA MentionsTail ==
    ASSUME NEW s, Plan(s), s # <<>>, NEW x, Mentions(s, x), Head(s) # x
    PROVE  Mentions(Tail(s), x)
<1>1. s \in Seq(StepNames) /\ Len(s) \in Nat \ {0} /\ Head(s) = s[1]
    BY LenProperties, EmptySeq DEF Plan
<1>2. /\ Len(Tail(s)) = Len(s) - 1
      /\ \A i \in 1..Len(Tail(s)) : Tail(s)[i] = s[i + 1]
    BY <1>1, HeadTailProperties
<1>3. PICK i \in 1..Len(s) : s[i] = x
    BY DEF Mentions
<1>4. i - 1 \in 1..Len(Tail(s)) /\ (i - 1) + 1 = i
    BY <1>1, <1>2, <1>3
<1> QED BY <1>2, <1>3, <1>4 DEF Mentions

(* What the next step is, once the first is done. *)
LEMMA NextStep ==
    ASSUME Plan(todo), todo # <<>>
    PROVE  /\ Plan(Tail(todo)) /\ Ordered(todo, 1)
           /\ Head(todo) = At(todo, 1) /\ Head(todo) \in StepNames
           /\ At(Tail(todo), 1) = At(todo, 2) /\ At(Tail(todo), 2) = At(todo, 3)
           /\ Head(todo) \notin Ends => Tail(todo) # <<>> /\ Head(Tail(todo)) = At(todo, 2)
           /\ Head(todo) \in Ends => Tail(todo) = <<>>
<1>1. /\ At(Tail(todo), 1) = At(todo, 1 + 1) /\ At(Tail(todo), 2) = At(todo, 2 + 1)
      /\ 1 + 1 = 2 /\ 2 + 1 = 3
    BY PlanTail
<1>2. Tail(todo) # <<>> => Head(Tail(todo)) = At(Tail(todo), 1)
    BY PlanTail
<1>3. Ordered(todo, 1)
    BY DEF Plan
<1> QED BY <1>1, <1>2, <1>3, PlanTail

(* The steps that only set the alarm. *)
LEMMA AlarmStepsInv == ASSUME SessInv, ClearAlarm \/ SetAlarm PROVE SessInv'
<1> USE DEF SessInv
<1>1. /\ result = "open" /\ waiting = Idle /\ todo # <<>>
      /\ Head(todo) \in {"no_alarm", "set_alarm"} /\ todo' = Tail(todo)
      /\ UNCHANGED <<confVars, consoleVars, opts, guest, result>>
    BY DEF ClearAlarm, SetAlarm, Ready
<1>2. /\ args' = args /\ prompt' = prompt /\ conf_phase' = conf_phase /\ child' = child
      /\ prompt_stack' = prompt_stack /\ bug_patterns' = bug_patterns /\ waiting' = waiting
      /\ owed' = owed /\ buffer' = buffer /\ log' = log /\ skipped' = skipped
      /\ opts' = opts /\ guest' = guest /\ result' = result
    BY <1>1 DEF confVars, consoleVars
<1>3. Open /\ Plan(todo) /\ child # "none"
    BY <1>1 DEF Open, StartInv
<1>4. Head(todo) \notin Ends /\ Head(todo) \notin {"release", "grep", "detect", "ignore", "provoke", "xmon", "cmd"}
    BY <1>1 DEF Ends
<1>5. /\ Plan(todo') /\ todo' # <<>> /\ At(todo', 1) = At(todo, 2) /\ At(todo', 2) = At(todo, 3)
      /\ Head(todo') = At(todo, 2) /\ Head(todo) = At(todo, 1) /\ Ordered(todo, 1)
    BY <1>1, <1>3, <1>4, NextStep
<1>6. /\ At(todo, 2) \notin {"provoke", "detect", "xmon_exit"} /\ At(todo, 3) # "xmon_exit"
  <2>1. 1 + 1 = 2 /\ 1 + 2 = 3
      OBVIOUS
  <2> QED BY <1>4, <1>5, <2>1 DEF Ordered
<1>7. TypeInv' /\ StartInv'
    BY <1>2, <1>3, <1>5 DEF TypeInv, StartInv, BootedOk
<1>8. WaitInv' /\ GrepInv'
    BY <1>1, <1>2 DEF WaitInv, GrepInv
<1>9. BugInv'
    BY <1>1, <1>2, <1>4 DEF BugInv
<1>10. WindowInv'
    BY <1>1, <1>2, <1>5, <1>6 DEF WindowInv
<1>11. StackInv'
  <2>1. ~InXmon /\ ~InXmon'
      BY <1>1, <1>2, <1>4, <1>5, <1>6 DEF InXmon
  <2> QED BY <1>2, <1>3, <2>1 DEF StackInv
<1>12. ShellInv'
    BY <1>2, <1>3 DEF ShellInv, PromptMatches, Prompt
<1>13. SyncInv'
  <2>1. NoShell(buffer) /\ NoShell(owed)
      BY <1>1, <1>3 DEF SyncInv, Loose
  <2> QED BY <1>2, <2>1 DEF SyncInv, NoShell
<1>14. ReleaseInv' /\ SkipInv'
    BY <1>2 DEF ReleaseInv, SkipInv
<1>15. TestsInv'
  <2>1. Mentions(todo, "release") => Mentions(todo', "release")
      BY <1>1, <1>3, <1>4, MentionsTail
  <2>2. Mentions(todo, "grep") => Mentions(todo', "grep")
      BY <1>1, <1>3, <1>4, MentionsTail
  <2> QED BY <1>1, <1>2, <1>3, <2>1, <2>2 DEF TestsInv, Selftests
<1>16. LogIsClean' /\ VerdictHonoursTests'
    BY <1>1, <1>2 DEF LogIsClean, VerdictHonoursTests, BootedOk
<1> QED BY <1>7, <1>8, <1>9, <1>10, <1>11, <1>12, <1>13, <1>14, <1>15, <1>16

(* The guest and its kernel print, or the guest exits. *)
LEMMA GuestInv == ASSUME SessInv, Guest PROVE SessInv'
<1> USE DEF SessInv
<1>1. /\ waiting # Idle /\ child = "alive" /\ result = "open"
    BY DEF Guest, PrintNoise, PrintAnswer, Exits, StartInv
<1>2. Open /\ Plan(todo)
    BY <1>1 DEF WaitInv, Open, StartInv
<1>3. /\ args' = args /\ prompt' = prompt /\ conf_phase' = conf_phase
      /\ prompt_stack' = prompt_stack /\ bug_patterns' = bug_patterns /\ waiting' = waiting
      /\ skipped' = skipped /\ todo' = todo /\ opts' = opts /\ guest' = guest /\ result' = result
      /\ child' \in {"alive", "eof"}
    BY <1>1 DEF Guest, PrintNoise, PrintAnswer, Exits, confVars, sessionVars
<1>4. Open' /\ Head(todo') = Head(todo)
    BY <1>2, <1>3 DEF Open
<1>5. StartInv' /\ WaitInv' /\ BugInv'
  <2>1. StartInv'
      BY <1>1, <1>3 DEF StartInv
  <2>2. WaitInv'
      BY <1>3 DEF WaitInv, Asks
  <2>3. BugInv'
      BY <1>3 DEF BugInv
  <2> QED BY <2>1, <2>2, <2>3
<1>6. StackInv' /\ Prompt' = Prompt
    BY <1>2, <1>3 DEF StackInv, InXmon, Open, Prompt
<1>7. TestsInv' /\ SkipInv' /\ LogIsClean' /\ VerdictHonoursTests'
    BY <1>1, <1>3 DEF TestsInv, SkipInv, Selftests, LogIsClean, VerdictHonoursTests, BootedOk
<1>b. PICK b \in Nat : b = Len(buffer)
    BY LenProperties DEF TypeInv
<1>s. /\ \A i, k \in 1..b : buffer[i] \in Shells /\ buffer[k] \in Shells => i = k
      /\ \A i \in 1..Len(owed) : owed[i] \in Shells => i = Len(owed)
      /\ NoShell(buffer) \/ NoShell(owed)
      /\ ~Loose /\ Head(todo) \in NoPrompt => NoShell(buffer) /\ NoShell(owed)
    BY <1>2, <1>b DEF SyncInv
<1>l. Loose' <=> Loose
    BY <1>3 DEF Loose
<1>w. waiting' # Idle
    BY <1>1, <1>3
<1>8. CASE \E k \in Noise : PrintNoise(k)
  <2>1. PICK k \in Noise : buffer' = Append(buffer, k) /\ log' = Append(log, k) /\ owed' = owed
      BY <1>8 DEF PrintNoise
  <2>2. k \in Items /\ k \notin Shells /\ k \notin {"release", "detect", "not ok"} /\ k \in Noise \cup Markers
      BY DEF Noise, Bugs, Items, Shells
  <2>3. /\ buffer' \in Seq(Items) /\ Len(buffer') = b + 1 /\ buffer'[b + 1] = k
        /\ \A i \in 1..b : buffer'[i] = buffer[i]
    <3>1. buffer \in Seq(Items) /\ k \in Items
        BY <2>2 DEF TypeInv
    <3> QED BY <1>b, <2>1, <3>1, AppendProperties
  <2>4. log' \in Seq(Noise \cup Markers)
      BY <2>1, <2>2, AppendProperties DEF TypeInv
  <2>5. TypeInv'
      BY <1>3, <2>1, <2>3, <2>4 DEF TypeInv
  <2>6. WindowInv'
    <3>1. Windowed(log) => Windowed(log')
        BY <2>1, <2>2, WindowedAppend DEF TypeInv
    <3> QED BY <1>2, <1>3, <3>1 DEF WindowInv
  <2>7. ShellInv'
      BY <1>2, <1>3, <1>6, <2>1 DEF ShellInv, PromptMatches
  <2>8. \A i \in 1..(b + 1) : buffer'[i] \in Shells => i \in 1..b /\ buffer[i] \in Shells
    <3> TAKE i \in 1..(b + 1)
    <3>1. i \in 1..b \/ i = b + 1
        OBVIOUS
    <3> QED BY <2>2, <2>3, <3>1
  <2>9. NoShell(buffer) => NoShell(buffer')
      BY <1>b, <2>3, <2>8 DEF NoShell
  <2>10. SyncInv'
    <3>1. \A i, j \in 1..Len(buffer') : buffer'[i] \in Shells /\ buffer'[j] \in Shells => i = j
        BY <1>s, <2>3, <2>8
    <3> QED BY <1>4, <1>l, <1>s, <1>w, <2>1, <2>9, <3>1 DEF SyncInv
  <2>11. GrepInv'
    <3> SUFFICES ASSUME Head(todo) = "grep", guest.tests_fail
                 PROVE  \/ NoShell(buffer') /\ Mentions(owed', "not ok")
                        \/ \E i \in 1..Len(buffer') :
                              buffer'[i] = "not ok" /\ \A j \in 1..i : buffer'[j] \notin Shells
        BY <1>3 DEF GrepInv
    <3>1. CASE NoShell(buffer) /\ Mentions(owed, "not ok")
        BY <2>1, <2>9, <3>1
    <3>2. CASE \E i \in 1..b : buffer[i] = "not ok" /\ \A j \in 1..i : buffer[j] \notin Shells
      <4>1. PICK i \in 1..b : buffer[i] = "not ok" /\ \A j \in 1..i : buffer[j] \notin Shells
          BY <3>2
      <4>2. i \in 1..(b + 1) /\ \A j \in 1..i : j \in 1..b
          OBVIOUS
      <4> QED BY <2>3, <4>1, <4>2
    <3> QED BY <1>1, <1>2, <1>b, <3>1, <3>2 DEF GrepInv
  <2>12. ReleaseInv'
    <3>1. Mentions(buffer', "release") => Mentions(buffer, "release")
      <4> SUFFICES ASSUME NEW i \in 1..(b + 1), buffer'[i] = "release" PROVE Mentions(buffer, "release")
          BY <2>3 DEF Mentions
      <4>1. i \in 1..b \/ i = b + 1
          OBVIOUS
      <4>2. i # b + 1
          BY <2>2, <2>3
      <4>3. i \in 1..b /\ buffer[i] = "release"
          BY <2>3, <4>1, <4>2
      <4> QED BY <1>b, <4>3 DEF Mentions
    <3> QED BY <1>3, <2>1, <3>1 DEF ReleaseInv
  <2> QED BY <1>5, <1>6, <1>7, <2>5, <2>6, <2>7, <2>10, <2>11, <2>12
<1>9. CASE PrintAnswer
  <2>1. owed # <<>> /\ buffer' = Append(buffer, Head(owed)) /\ owed' = Tail(owed) /\ log' = log
      BY <1>9 DEF PrintAnswer
  <2>2. PICK o \in Nat \ {0} : o = Len(owed)
      BY <2>1, EmptySeq DEF TypeInv
  <2>3. /\ owed' \in Seq(Items) /\ Len(owed') = o - 1 /\ \A i \in 1..(o - 1) : owed'[i] = owed[i + 1]
        /\ Head(owed) = owed[1] /\ owed[1] \in Items
      BY <2>1, <2>2, HeadTailProperties, ElementOfSeq DEF TypeInv
  <2>4. /\ buffer' \in Seq(Items) /\ Len(buffer') = b + 1 /\ buffer'[b + 1] = owed[1]
        /\ \A i \in 1..b : buffer'[i] = buffer[i]
      BY <1>b, <2>1, <2>3, AppendProperties DEF TypeInv
  <2>5. TypeInv'
      BY <1>3, <2>1, <2>3, <2>4 DEF TypeInv
  <2>6. WindowInv'
      BY <1>2, <1>3, <2>1 DEF WindowInv
  <2>7. ShellInv'
    <3> SUFFICES ASSUME args.cloud = "ubuntu", owed' # <<>>, owed'[Len(owed')] \in Shells
                 PROVE  owed'[Len(owed')] \in PromptMatches(Prompt)
        BY <1>3, <1>6 DEF ShellInv, PromptMatches
    <3>1. o - 1 # 0
        BY <2>3, EmptySeq
    <3>2. o - 1 \in 1..(o - 1) /\ (o - 1) + 1 = o
        BY <3>1
    <3>3. owed'[Len(owed')] = owed[o]
        BY <2>3, <3>2
    <3> QED BY <1>2, <2>1, <2>2, <3>3 DEF ShellInv
  <2>8. \A i \in 1..(o - 1) : owed'[i] \in Shells => i = o - 1 /\ owed[1] \notin Shells
    <3> TAKE i \in 1..(o - 1)
    <3>1. i + 1 \in 1..o /\ 1 \in 1..o /\ o # 1
        OBVIOUS
    <3> QED BY <1>s, <2>2, <2>3, <3>1
  <2>9. owed[1] \in Shells => NoShell(buffer) /\ o = 1
    <3>1. 1 \in 1..o
        OBVIOUS
    <3> QED BY <1>s, <2>2, <3>1 DEF NoShell
  <2>10. NoShell(owed) => NoShell(owed') /\ owed[1] \notin Shells
    <3>1. 1 \in 1..o /\ \A i \in 1..(o - 1) : i + 1 \in 1..o
        OBVIOUS
    <3> QED BY <2>2, <2>3, <3>1 DEF NoShell
  <2>11. NoShell(buffer) /\ owed[1] \notin Shells => NoShell(buffer')
    <3>1. \A i \in 1..(b + 1) : i \in 1..b \/ i = b + 1
        OBVIOUS
    <3> QED BY <1>b, <2>4, <3>1 DEF NoShell
  <2>12. o = 1 => NoShell(owed')
      BY <2>3 DEF NoShell
  <2>13. SyncInv'
    <3>1. \A i, j \in 1..(b + 1) : buffer'[i] \in Shells /\ buffer'[j] \in Shells => i = j
      <4> TAKE i, j \in 1..(b + 1)
      <4>1. (i \in 1..b \/ i = b + 1) /\ (j \in 1..b \/ j = b + 1)
          OBVIOUS
      <4>2. CASE owed[1] \in Shells
        <5>1. \A k \in 1..b : buffer'[k] \notin Shells
            BY <1>b, <2>4, <2>9, <4>2 DEF NoShell
        <5> QED BY <4>1, <5>1
      <4>3. CASE owed[1] \notin Shells
          BY <1>s, <2>4, <4>1, <4>3
      <4> QED BY <4>2, <4>3
    <3>2. \A i \in 1..Len(owed') : owed'[i] \in Shells => i = Len(owed')
        BY <2>3, <2>8
    <3>3. NoShell(buffer') \/ NoShell(owed')
        BY <1>s, <2>9, <2>10, <2>11, <2>12
    <3>4. NoShell(buffer) /\ NoShell(owed) => NoShell(buffer') /\ NoShell(owed')
        BY <2>10, <2>11
    <3> QED BY <1>4, <1>l, <1>s, <1>w, <2>4, <3>1, <3>2, <3>3, <3>4 DEF SyncInv
  <2>14. GrepInv'
    <3> SUFFICES ASSUME Head(todo) = "grep", guest.tests_fail
                 PROVE  \/ NoShell(buffer') /\ Mentions(owed', "not ok")
                        \/ \E i \in 1..Len(buffer') :
                              buffer'[i] = "not ok" /\ \A j \in 1..i : buffer'[j] \notin Shells
        BY <1>3 DEF GrepInv
    <3>1. CASE NoShell(buffer) /\ Mentions(owed, "not ok")
      <4>1. PICK i \in 1..o : owed[i] = "not ok"
          BY <2>2, <3>1 DEF Mentions
      <4>2. "not ok" \notin Shells
          BY DEF Shells
      <4>3. owed[1] \notin Shells
        <5>1. o = 1 => i = 1
            OBVIOUS
        <5>2. owed[i] \notin Shells
            BY <4>1, <4>2
        <5> QED BY <2>9, <5>1, <5>2
      <4>4. NoShell(buffer')
          BY <2>11, <3>1, <4>3
      <4>5. CASE i = 1
        <5>1. b + 1 \in 1..(b + 1) /\ buffer'[b + 1] = "not ok"
          <6>1. owed[1] = "not ok"
              BY <4>1, <4>5
          <6>2. b + 1 \in 1..(b + 1)
              OBVIOUS
          <6> QED BY <2>4, <6>1, <6>2
        <5> QED BY <2>4, <4>4, <5>1 DEF NoShell
      <4>6. CASE i # 1
        <5>1. i - 1 \in 1..(o - 1) /\ (i - 1) + 1 = i
            BY <4>6
        <5>2. Mentions(owed', "not ok")
            BY <2>3, <4>1, <5>1 DEF Mentions
        <5> QED BY <4>4, <5>2
      <4> QED BY <4>5, <4>6
    <3>2. CASE \E i \in 1..b : buffer[i] = "not ok" /\ \A j \in 1..i : buffer[j] \notin Shells
      <4>1. PICK i \in 1..b : buffer[i] = "not ok" /\ \A j \in 1..i : buffer[j] \notin Shells
          BY <3>2
      <4>2. i \in 1..(b + 1) /\ \A j \in 1..i : j \in 1..b
          OBVIOUS
      <4> QED BY <2>4, <4>1, <4>2
    <3> QED BY <1>1, <1>2, <1>b, <3>1, <3>2 DEF GrepInv
  <2>15. ReleaseInv'
    <3>1. Mentions(buffer', "release") => Mentions(buffer, "release") \/ Mentions(owed, "release")
      <4> SUFFICES ASSUME NEW i \in 1..(b + 1), buffer'[i] = "release"
                   PROVE  Mentions(buffer, "release") \/ Mentions(owed, "release")
          BY <2>4 DEF Mentions
      <4>1. i \in 1..b \/ i = b + 1
          OBVIOUS
      <4>2. CASE i \in 1..b
          BY <1>b, <2>4, <4>2 DEF Mentions
      <4>3. CASE i = b + 1
        <5>1. 1 \in 1..o /\ owed[1] = "release"
            BY <2>4, <4>3
        <5> QED BY <2>2, <5>1 DEF Mentions
      <4> QED BY <4>1, <4>2, <4>3
    <3>2. Mentions(owed', "release") => Mentions(owed, "release")
      <4>1. \A i \in 1..(o - 1) : i + 1 \in 1..o
          OBVIOUS
      <4> QED BY <2>2, <2>3, <4>1 DEF Mentions
    <3> QED BY <1>3, <3>1, <3>2 DEF ReleaseInv
  <2> QED BY <1>5, <1>6, <1>7, <2>5, <2>6, <2>7, <2>13, <2>14, <2>15
<1>10. CASE Exits
  <2>1. owed' = owed /\ buffer' = buffer /\ log' = log
      BY <1>10 DEF Exits
  <2>2. TypeInv' /\ WindowInv' /\ ReleaseInv'
      BY <1>2, <1>3, <2>1 DEF TypeInv, WindowInv, ReleaseInv
  <2>3. ShellInv'
      BY <1>2, <1>3, <1>6, <2>1 DEF ShellInv, PromptMatches
  <2>4. SyncInv'
      BY <1>4, <1>b, <1>l, <1>s, <1>w, <2>1 DEF SyncInv
  <2>5. GrepInv'
      BY <1>1, <1>2, <1>3, <2>1 DEF GrepInv
  <2> QED BY <1>5, <1>6, <1>7, <2>2, <2>3, <2>4, <2>5
<1> QED BY <1>8, <1>9, <1>10 DEF Guest

LEMMA SessInit == Init => SessInv
<1> SUFFICES ASSUME Init PROVE SessInv
    OBVIOUS
<1>1. /\ args \in Args /\ opts \in Sessions(args) /\ prompt = None
      /\ child = "none" /\ prompt_stack = <<>> /\ bug_patterns = TRUE /\ waiting = Idle
      /\ owed = <<>> /\ buffer = <<>> /\ log = <<>> /\ skipped = {}
      /\ todo = <<>> /\ alarm = FALSE /\ result = "open"
    BY DEF Init, ConfInit, ConsoleInit
<1>2. TypeInv
    BY <1>1, ArgsAssumption, SessionsAssumption, EmptySeq DEF TypeInv
<1>3. StartInv
    BY <1>1 DEF StartInv, BootedOk
<1>4. WaitInv /\ BugInv /\ SkipInv /\ TestsInv /\ LogIsClean /\ VerdictHonoursTests
    BY <1>1 DEF WaitInv, BugInv, SkipInv, TestsInv, LogIsClean, VerdictHonoursTests, BootedOk
<1>5. ReleaseInv
  <2>1. Len(<<>>) = 0
      BY EmptySeq
  <2> QED BY <1>1, <2>1 DEF ReleaseInv, Mentions
<1>6. ~Open
    BY <1>1 DEF Open
<1>7. WindowInv /\ StackInv /\ ShellInv /\ SyncInv /\ GrepInv
    BY <1>6 DEF WindowInv, StackInv, ShellInv, SyncInv, GrepInv
<1> QED BY <1>2, <1>3, <1>4, <1>5, <1>7 DEF SessInv

(* Before the guest is started, or instead of starting it. *)
LEMMA BeforeInv ==
    ASSUME SessInv, Configuring \/ RunInteractively \/ InteractiveRaises
    PROVE  SessInv'
<1> USE DEF SessInv
<1>1. child = "none"
  <2>1. CASE Configuring
    <3>1. conf_phase # "ready" /\ result = "open"
        BY <2>1 DEF Configuring, Configure, ConfigureFromEnv, ConfigureFromArgs, NoDefaults,
           DefaultsRaise, ApplyDefaults, MainRefuses, PrepareCloudImage, NoCloudImage,
           PrepareFails, Cmd
    <3> QED BY <3>1 DEF StartInv
  <2>2. CASE RunInteractively \/ InteractiveRaises
      BY <2>2 DEF RunInteractively, InteractiveRaises
  <2> QED BY <2>1, <2>2
<1>2. /\ child' = child /\ prompt_stack' = prompt_stack /\ bug_patterns' = bug_patterns
      /\ waiting' = waiting /\ owed' = owed /\ buffer' = buffer /\ log' = log
      /\ skipped' = skipped /\ opts' = opts /\ todo' = todo /\ alarm' = alarm /\ guest' = guest
    BY DEF Configuring, RunInteractively, InteractiveRaises, consoleVars
<1>3. /\ todo = <<>> /\ waiting = Idle /\ owed = <<>> /\ buffer = <<>>
      /\ prompt_stack = <<>> /\ bug_patterns /\ ~alarm
    BY <1>1 DEF StartInv
<1>4. args' = args /\ prompt' \in {None, PromptOf(args.cloud)}
  <2>1. CASE Configuring
    <3>1. Configure
        BY <2>1 DEF Configuring
    <3>2. args' = args /\ prompt' \in {prompt, PromptOf(args.cloud)}
        BY <3>1 DEF Configure, ConfigureFromEnv, ConfigureFromArgs, NoDefaults,
           DefaultsRaise, ApplyDefaults, MainRefuses, PrepareCloudImage, NoCloudImage,
           PrepareFails, Cmd, inputVars
    <3> QED BY <3>2 DEF TypeInv
  <2>2. CASE RunInteractively \/ InteractiveRaises
      BY <2>2 DEF RunInteractively, InteractiveRaises, confVars, TypeInv
  <2> QED BY <2>1, <2>2
<1>5. ~BootedOk'
  <2>1. CASE Configuring
      BY <2>1 DEF Configuring, BootedOk
  <2>2. CASE RunInteractively
      BY <1>2, <2>2, Zenon DEF RunInteractively, BootedOk
  <2>3. CASE InteractiveRaises
      BY <2>3 DEF InteractiveRaises, BootedOk
  <2> QED BY <2>1, <2>2, <2>3
<1>6. TypeInv'
    BY <1>2, <1>4 DEF TypeInv
<1>7. StartInv'
    BY <1>1, <1>2, <1>3, <1>5 DEF StartInv
<1>8. WaitInv' /\ BugInv' /\ SkipInv' /\ TestsInv' /\ ReleaseInv'
    BY <1>1, <1>2, <1>3 DEF WaitInv, BugInv, SkipInv, TestsInv, ReleaseInv
<1>9. ~Open'
    BY <1>2, <1>3 DEF Open
<1>10. WindowInv' /\ StackInv' /\ ShellInv' /\ SyncInv' /\ GrepInv'
    BY <1>9 DEF WindowInv, StackInv, ShellInv, SyncInv, GrepInv
<1>11. LogIsClean' /\ VerdictHonoursTests'
    BY <1>5 DEF LogIsClean, VerdictHonoursTests
<1> QED BY <1>6, <1>7, <1>8, <1>10, <1>11

LEMMA SpawnInv == ASSUME SessInv, Spawn PROVE SessInv'
<1> USE DEF SessInv
<1>1. /\ conf_phase = "ready" /\ child = "none" /\ result = "open" /\ ~opts.interactive
      /\ child' = "alive" /\ prompt_stack' = Append(prompt_stack, prompt) /\ todo' = SessionPlan
      /\ owed' = IF args.cloud = None THEN <<"freeing", "home">> ELSE <<"freeing", "login">>
      /\ UNCHANGED <<confVars, bug_patterns, waiting, buffer, log, skipped, opts, guest, result>>
    BY DEF Spawn, PushPrompt
<1>2. /\ args' = args /\ prompt' = prompt /\ conf_phase' = conf_phase
    BY <1>1 DEF confVars
<1>3. /\ waiting = Idle /\ buffer = <<>> /\ prompt_stack = <<>> /\ bug_patterns
    BY <1>1 DEF StartInv
<1>4. prompt = PromptOf(args.cloud)
    BY DEF Spawn, TypeInv
<1>5. opts.callbacks \in Seq(Callbacks)
    BY DEF TypeInv, SessionType
<1>6. /\ Plan(todo') /\ Starts(todo')
      /\ Selftests => Mentions(todo', "grep")
    BY <1>1, <1>5, SessionPlanIsPlan DEF Selftests
<1>7. /\ todo' # <<>> /\ Head(todo') = "boot" /\ At(todo', 1) = "boot"
      /\ At(todo', 2) # "xmon_exit" /\ Mentions(todo', "release")
  <2>1. Ordered(todo', 1) /\ 1 + 1 = 2
      BY <1>6 DEF Plan
  <2>2. todo' # <<>> /\ At(todo', 1) = "boot" /\ Mentions(todo', "release")
      BY <1>6 DEF Starts
  <2>3. Head(todo') = At(todo', 1)
      BY <1>6, <2>2, PlanTail
  <2> QED BY <2>1, <2>2, <2>3 DEF Ordered
<1>8. /\ owed' \in Seq(Items) /\ Len(owed') = 2 /\ owed'[1] = "freeing"
      /\ owed'[2] = IF args.cloud = None THEN "home" ELSE "login"
  <2>1. "freeing" \in Items /\ "home" \in Items /\ "login" \in Items
      BY DEF Items, Answers, Shells
  <2> QED BY <1>1, <2>1
<1>9. \A i \in 1..2 : i = 1 \/ i = 2
    OBVIOUS
<1>10. TypeInv'
    BY <1>1, <1>2, <1>3, <1>8 DEF TypeInv
<1>11. StartInv'
    BY <1>1, <1>2, <1>4, <1>6 DEF StartInv, BootedOk
<1>12. WaitInv' /\ BugInv' /\ GrepInv' /\ WindowInv'
    BY <1>1, <1>3, <1>7 DEF WaitInv, BugInv, GrepInv, WindowInv
<1>13. StackInv'
  <2>1. ~InXmon'
      BY <1>1, <1>3, <1>7 DEF InXmon
  <2>2. Append(<<>>, prompt) = <<prompt>>
      OBVIOUS
  <2> QED BY <1>1, <1>2, <1>3, <2>1, <2>2 DEF StackInv
<1>14. ShellInv'
  <2>1. args.cloud = "ubuntu" => owed'[Len(owed')] = "login"
      BY <1>8 DEF None
  <2>2. "login" \notin Shells
      BY DEF Shells
  <2> QED BY <1>2, <2>1, <2>2 DEF ShellInv
<1>15. SyncInv'
  <2>1. "freeing" \notin Shells /\ "login" \notin Shells
      BY DEF Shells
  <2>2. Len(buffer') = 0 /\ NoShell(buffer')
      BY <1>1, <1>3, EmptySeq DEF NoShell
  <2>3. Loose' \/ NoShell(owed')
    <3>1. CASE args.cloud = None
        BY <1>2, <1>7, <3>1 DEF Loose
    <3>2. CASE args.cloud # None
        BY <1>8, <1>9, <2>1, <3>2 DEF NoShell
    <3> QED BY <3>1, <3>2
  <2>4. \A i \in 1..Len(owed') : owed'[i] \in Shells => i = Len(owed')
      BY <1>8, <1>9, <2>1
  <2>5. \A i, k \in 1..Len(buffer') : buffer'[i] \in Shells /\ buffer'[k] \in Shells => i = k
      BY <2>2
  <2> QED BY <2>2, <2>3, <2>4, <2>5 DEF SyncInv
<1>16. ReleaseInv'
  <2>1. ~Mentions(owed', "release")
      BY <1>8, <1>9 DEF Mentions
  <2>2. ~Mentions(buffer', "release")
      BY <1>1, <1>3, EmptySeq DEF Mentions
  <2> QED BY <2>1, <2>2 DEF ReleaseInv
<1>17. TestsInv' /\ SkipInv'
    BY <1>1, <1>6, <1>7 DEF TestsInv, SkipInv, Selftests
<1>18. LogIsClean' /\ VerdictHonoursTests'
    BY <1>1 DEF LogIsClean, VerdictHonoursTests, BootedOk
<1> QED BY <1>10, <1>11, <1>12, <1>13, <1>14, <1>15, <1>16, <1>17, <1>18

(* A guest that is started in vain. *)
LEMMA SpawnRaisesInv == ASSUME SessInv, SpawnRaises PROVE SessInv'
<1> USE DEF SessInv
<1>1. /\ child = "none" /\ child' = "gone" /\ result' = "raised"
      /\ UNCHANGED <<confVars, bug_patterns, waiting, owed, buffer, log, skipped, opts, todo, guest>>
    BY DEF SpawnRaises
<1>2. args' = args /\ prompt' = prompt /\ conf_phase' = conf_phase
    BY <1>1 DEF confVars
<1>3. TypeInv' /\ SkipInv' /\ ReleaseInv'
    BY <1>1, <1>2 DEF TypeInv, SkipInv, ReleaseInv
<1>4. ~BootedOk' /\ ~Open'
    BY <1>1 DEF BootedOk, Open
<1>5. StartInv' /\ WaitInv' /\ BugInv' /\ TestsInv'
    BY <1>1, <1>4 DEF StartInv, WaitInv, BugInv, TestsInv
<1>6. WindowInv' /\ StackInv' /\ ShellInv' /\ SyncInv' /\ GrepInv'
    BY <1>4 DEF WindowInv, StackInv, ShellInv, SyncInv, GrepInv
<1>7. LogIsClean' /\ VerdictHonoursTests'
    BY <1>4 DEF LogIsClean, VerdictHonoursTests
<1> QED BY <1>3, <1>5, <1>6, <1>7

(* What an expect() reads past, and what it leaves. *)
LEMMA MatchSkips ==
    ASSUME SessInv, result = "open", NEW n \in DOMAIN buffer, Matched(n)
    PROVE  /\ waiting # Idle /\ Open /\ child # "none" /\ SkipInv'
           /\ n \in 1..Len(buffer) /\ buffer[n] \in waiting.want
           /\ \A i \in 1..(n - 1) : buffer[i] \notin waiting.want
<1> USE DEF SessInv
<1>1. buffer[n] \in waiting.want /\ FirstIs(n) /\ skipped' = skipped \cup Skips(n)
    BY DEF Matched
<1>2. waiting # Idle
    BY <1>1 DEF Idle
<1>3. Open /\ child # "none" /\ waiting.who = Asks /\ waiting.want \subseteq Shells \cup Answers
      /\ (waiting.bugs <=> Asks \notin Quiet4)
    BY <1>2 DEF WaitInv, Open, StartInv
<1>4. n \in 1..Len(buffer)
    BY LenProperties DEF TypeInv
<1>5. \A i \in 1..(n - 1) : ~Relevant(i)
    BY <1>1 DEF FirstIs
<1>6. SkipInv'
  <2> SUFFICES ASSUME NEW i \in 1..n, buffer[i] \in Bugs PROVE ~waiting.bugs /\ waiting.who \in Quiet4
      BY <1>1 DEF SkipInv, Skips
  <2>1. buffer[n] \notin Bugs
      BY <1>1, <1>3 DEF Shells, Answers, Bugs
  <2>2. i # n
      BY <2>1
  <2>3. i \in 1..(n - 1)
      BY <1>4, <2>2
  <2>4. ~waiting.bugs
      BY <1>5, <2>3 DEF Relevant
  <2> QED BY <1>3, <2>4
<1>7. \A i \in 1..(n - 1) : buffer[i] \notin waiting.want
    BY <1>5 DEF Relevant
<1> QED BY <1>1, <1>2, <1>3, <1>4, <1>6, <1>7

LEMMA MatchRest ==
    ASSUME TypeInv, NEW n \in 1..Len(buffer), NEW b \in Nat, b = Len(buffer),
           buffer' = SubSeq(buffer, n + 1, Len(buffer))
    PROVE  /\ buffer' \in Seq(Items) /\ Len(buffer') = b - n
           /\ \A i \in 1..(b - n) : buffer'[i] = buffer[n + i]
<1>1. /\ n + 1 \in Int /\ b \in Int /\ \A i \in (n + 1)..b : buffer[i] \in Items
  <2>1. \A i \in (n + 1)..b : i \in 1..b
      OBVIOUS
  <2> QED BY <2>1, ElementOfSeq DEF TypeInv
<1>2. /\ buffer' \in Seq(Items)
      /\ Len(buffer') = IF n + 1 <= b THEN b - (n + 1) + 1 ELSE 0
      /\ \A i \in 1..(b - (n + 1) + 1) : buffer'[i] = buffer[n + 1 + i - 1]
    BY <1>1, SubSeqProperties
<1>3. b - (n + 1) + 1 = b - n /\ \A i \in 1..(b - n) : n + 1 + i - 1 = n + i
    OBVIOUS
<1> QED BY <1>2, <1>3

(* The session ends without a verdict. *)
LEMMA EndingInv ==
    ASSUME SessInv, Raise \/ CallbackFails \/ ExpectRaises \/ Alarm
    PROVE  SessInv'
<1> USE DEF SessInv
<1>1. result = "open" /\ child # "none"
  <2>1. CASE Raise
      BY <2>1 DEF Raise, Ready, StartInv
  <2>2. CASE CallbackFails
      BY <2>2, MatchSkips DEF CallbackFails
  <2>3. CASE ExpectRaises
    <3>1. CASE \E n \in DOMAIN buffer : BugSeen(n)
        BY <2>3, <3>1 DEF ExpectRaises, StartInv
    <3>2. CASE TimedOut \/ SawEof
        BY <2>3, <3>2 DEF ExpectRaises, TimedOut, SawEof, StartInv
    <3> QED BY <2>3, <3>1, <3>2 DEF ExpectRaises
  <2>4. CASE Alarm
      BY <2>4 DEF Alarm, StartInv
  <2> QED BY <2>1, <2>2, <2>3, <2>4
<1>2. /\ result' \in {"raised", "FALSE", "exit"} /\ child' = "gone" /\ todo' = todo
      /\ UNCHANGED <<confVars, opts, guest, log, owed, bug_patterns>>
    BY DEF Raise, CallbackFails, ExpectRaises, Alarm, BugSeen, TimedOut, SawEof
<1>3. args' = args /\ prompt' = prompt /\ conf_phase' = conf_phase
    BY <1>2 DEF confVars
<1>4. /\ buffer' \in Seq(Items) /\ SkipInv'
      /\ Mentions(buffer', "release") => Mentions(buffer, "release")
  <2>1. CASE CallbackFails
    <3>1. PICK n \in DOMAIN buffer : Matched(n)
        BY <2>1 DEF CallbackFails
    <3>b. PICK b \in Nat : b = Len(buffer)
        BY LenProperties DEF TypeInv
    <3>2. SkipInv' /\ n \in 1..b
        BY <1>1, <3>1, <3>b, MatchSkips
    <3>3. /\ buffer' \in Seq(Items) /\ Len(buffer') = b - n
          /\ \A i \in 1..(b - n) : buffer'[i] = buffer[n + i]
        BY <3>1, <3>2, <3>b, MatchRest DEF Matched
    <3>4. Mentions(buffer', "release") => Mentions(buffer, "release")
      <4>1. \A i \in 1..(b - n) : n + i \in 1..b
          BY <3>2
      <4> QED BY <3>b, <3>3, <4>1 DEF Mentions
    <3> QED BY <3>2, <3>3, <3>4
  <2>2. CASE Raise \/ ExpectRaises \/ Alarm
    <3>1. skipped' = skipped /\ buffer' \in {buffer, <<>>}
        BY <2>2 DEF Raise, ExpectRaises, Alarm, BugSeen, TimedOut, SawEof
    <3>2. ~Mentions(<<>>, "release")
        BY EmptySeq DEF Mentions
    <3> QED BY <3>1, <3>2, EmptySeq DEF TypeInv, SkipInv
  <2> QED BY <2>1, <2>2
<1>5. TypeInv'
    BY <1>2, <1>3, <1>4 DEF TypeInv
<1>6. StartInv'
    BY <1>1, <1>2, <1>3 DEF StartInv
<1>7. WaitInv' /\ BugInv' /\ TestsInv'
    BY <1>2 DEF WaitInv, BugInv, TestsInv
<1>8. ~Open'
    BY <1>2 DEF Open
<1>9. WindowInv' /\ StackInv' /\ ShellInv' /\ SyncInv' /\ GrepInv'
    BY <1>8 DEF WindowInv, StackInv, ShellInv, SyncInv, GrepInv
<1>10. ReleaseInv'
    BY <1>2, <1>4 DEF ReleaseInv
<1>11. LogIsClean' /\ VerdictHonoursTests'
    BY <1>2 DEF LogIsClean, VerdictHonoursTests, BootedOk
<1> QED BY <1>4, <1>5, <1>6, <1>7, <1>9, <1>10, <1>11

LEMMA VerdictOfLog ==
    ASSUME Verdict = "TRUE"
    PROVE  \A i \in DOMAIN Lines : Lines[i].hits > 0 => Scan!InWindow(Lines, i)
<1>1. \A i \in DOMAIN Lines : ~Scan!Reportable(Lines, i)
    BY DEF Verdict
<1>2. \A i \in DOMAIN Lines : Lines[i].suppressed = FALSE
    BY DEF Lines, LineOf, NoFilter
<1> QED BY <1>1, <1>2 DEF Scan!Reportable, Scan!InWindow

(* The guest is gone: the verdict. *)
LEMMA FilterInv == ASSUME SessInv, Filter PROVE SessInv'
<1> USE DEF SessInv
<1>1. /\ result = "open" /\ waiting.eof /\ child = "eof" /\ child' = "gone"
      /\ result' = Verdict /\ todo' = Tail(todo) /\ buffer' = <<>> /\ waiting' = Idle
      /\ skipped' = skipped \cup Skips(Len(buffer))
      /\ UNCHANGED <<confVars, opts, guest, prompt_stack, bug_patterns, owed, log>>
    BY DEF Filter, ExitSeen
<1>2. waiting # Idle
    BY <1>1 DEF Idle
<1>3. Open /\ Plan(todo) /\ Head(todo) \in Ends /\ waiting.who = "shutdown" /\ ~waiting.bugs
  <2>1. Open /\ Plan(todo)
      BY <1>1, <1>2 DEF WaitInv, Open, StartInv
  <2>2. /\ waiting.who = Asks /\ (waiting.eof <=> Head(todo) \in Ends)
        /\ (waiting.bugs <=> Asks \notin Quiet4)
      BY <1>1, <1>2 DEF WaitInv
  <2>3. Head(todo) \in Ends
      BY <1>1, <2>2
  <2>4. Asks = "shutdown" /\ "shutdown" \in Quiet4
      BY <2>3 DEF Asks, Quiet4
  <2> QED BY <2>1, <2>2, <2>3, <2>4
<1>4. todo' = <<>> /\ Plan(todo')
    BY <1>1, <1>3, NextStep DEF Open
<1>5. args' = args /\ prompt' = prompt /\ conf_phase' = conf_phase
    BY <1>1 DEF confVars
<1>6. Verdict \in {"TRUE", "FALSE"}
    BY DEF Verdict
<1>7. TypeInv'
    BY <1>1, <1>5, EmptySeq DEF TypeInv
<1>8. StartInv'
    BY <1>1, <1>4, <1>5 DEF StartInv
<1>9. WaitInv' /\ BugInv' /\ TestsInv'
    BY <1>1, <1>6 DEF WaitInv, BugInv, TestsInv
<1>10. ~Open'
    BY <1>4 DEF Open
<1>11. WindowInv' /\ StackInv' /\ ShellInv' /\ SyncInv' /\ GrepInv'
    BY <1>10 DEF WindowInv, StackInv, ShellInv, SyncInv, GrepInv
<1>12. ReleaseInv'
  <2>1. ~Mentions(buffer', "release")
      BY <1>1, EmptySeq DEF Mentions
  <2> QED BY <1>1, <2>1 DEF ReleaseInv
<1>13. SkipInv'
  <2>1. \A w \in Skips(Len(buffer)) : w = waiting
      BY DEF Skips
  <2> QED BY <1>1, <1>3, <2>1 DEF SkipInv, Quiet4
<1>14. LogIsClean'
  <2>1. Lines' = Lines
      BY <1>1 DEF Lines
  <2>2. result' = "TRUE" => \A i \in DOMAIN Lines : Lines[i].hits > 0 => Scan!InWindow(Lines, i)
      BY <1>1, VerdictOfLog
  <2> QED BY <2>1, <2>2 DEF LogIsClean, BootedOk, Scan!InWindow
<1>15. VerdictHonoursTests'
  <2>1. ~Mentions(todo, "release") /\ ~Mentions(todo, "grep")
    <3>1. ~Mentions(<<>>, "release") /\ ~Mentions(<<>>, "grep")
        BY EmptySeq DEF Mentions
    <3>2. Head(todo) # "release" /\ Head(todo) # "grep"
        BY <1>3 DEF Ends
    <3>3. Tail(todo) = <<>>
        BY <1>1, <1>4
    <3> QED BY <1>3, <3>1, <3>2, <3>3, MentionsTail DEF Open
  <2>2. guest.release # "other" /\ (Selftests => ~guest.tests_fail)
      BY <1>1, <2>1 DEF TestsInv
  <2>3. DOMAIN opts.callbacks = 1..Len(opts.callbacks)
      BY LenProperties DEF TypeInv, SessionType
  <2>4. "selftests" \in {opts.callbacks[i] : i \in DOMAIN opts.callbacks} => Selftests
      BY <2>3 DEF Selftests
  <2> QED BY <1>1, <1>4, <2>2, <2>4 DEF VerdictHonoursTests
<1> QED BY <1>7, <1>8, <1>9, <1>11, <1>12, <1>13, <1>14, <1>15

LEMMA AfterIs ==
    ASSUME NEW item
    PROVE  \/ After(item) = <<>> /\ Head(todo) # "release"
              /\ (Head(todo) = "boot" => args.cloud = None /\ item \in PromptMatches(Prompt))
           \/ After(item) = <<"prompt">> /\ Head(todo) \in {"release", "boot"}
              /\ (Head(todo) = "boot" => args.cloud = None)
           \/ /\ After(item) \in {<<"user", "password">>, <<"login", "user", "password">>}
              /\ Head(todo) = "boot" /\ args.cloud # None
<1>1. CASE Head(todo) = "boot" /\ LoginConfigured
    BY <1>1 DEF After, AfterBoot, LoginConfigured
<1>2. CASE Head(todo) = "boot" /\ ~LoginConfigured
    BY <1>2 DEF After, AfterBoot, LoginConfigured
<1>3. CASE Head(todo) = "release"
    BY <1>3 DEF After
<1>4. CASE Head(todo) \notin {"boot", "release"}
    BY <1>4 DEF After
<1> QED BY <1>1, <1>2, <1>3, <1>4

LEMMA AfterBlocks ==
    /\ Block(<<"prompt">>) /\ Block(<<"user", "password">>) /\ Block(<<"login", "user", "password">>)
    /\ At(<<"prompt">>, 1) = "prompt" /\ Len(<<"prompt">>) = 1
    /\ At(<<"user", "password">>, 1) = "user" /\ Len(<<"user", "password">>) = 2
    /\ At(<<"login", "user", "password">>, 1) = "login" /\ Len(<<"login", "user", "password">>) = 3
<1>1. Block(<<"prompt">>)
    BY DEF Block, Ordered, At, Ends, StepNames
<1>2. Block(<<"user", "password">>)
    BY DEF Block, Ordered, At, Ends, StepNames
<1>3. Block(<<"login", "user", "password">>)
    BY DEF Block, Ordered, At, Ends, StepNames
<1> QED BY <1>1, <1>2, <1>3 DEF At

(* What is left to do after a match. *)
LEMMA TodoAfter ==
    ASSUME Plan(todo), todo # <<>>, Head(todo) \notin Ends, NEW item,
           todo' = After(item) \o Tail(todo)
    PROVE  /\ Plan(todo') /\ todo' # <<>>
           /\ \A x : Mentions(Tail(todo), x) => Mentions(todo', x)
           /\ \/ After(item) = <<>> /\ todo' = Tail(todo)
              \/ After(item) # <<>> /\ Head(todo') \in {"prompt", "user", "login"}
           /\ After(item) = <<"prompt">> => Head(todo') = "prompt"
<1>1. /\ Plan(Tail(todo)) /\ Tail(todo) # <<>> /\ Ordered(todo, 1)
      /\ Head(todo) = At(todo, 1)
      /\ At(Tail(todo), 1) = At(todo, 2) /\ At(Tail(todo), 2) = At(todo, 3)
    BY NextStep
<1>2. Tail(todo) \in Seq(StepNames)
    BY <1>1 DEF Plan
<1>3. CASE After(item) = <<>>
  <2>1. todo' = Tail(todo)
      BY <1>2, <1>3, ConcatEmptySeq
  <2> QED BY <1>1, <1>3, <2>1
<1>4. CASE /\ After(item) \in {<<"prompt">>, <<"user", "password">>, <<"login", "user", "password">>}
           /\ Head(todo) \in {"release", "boot"}
  <2> DEFINE a == After(item)
             b == Tail(todo)
  <2>1. /\ Block(a) /\ Len(a) \in Nat \ {0} /\ At(a, 1) \in {"prompt", "user", "login"}
        /\ a = <<"prompt">> => At(a, 1) = "prompt"
    <3>1. CASE a = <<"prompt">>
        BY AfterBlocks, <3>1
    <3>2. CASE a = <<"user", "password">>
      <4>1. a # <<"prompt">>
          BY AfterBlocks, <3>2
      <4> QED BY AfterBlocks, <3>2, <4>1
    <3>3. CASE a = <<"login", "user", "password">>
      <4>1. a # <<"prompt">>
          BY AfterBlocks, <3>3
      <4> QED BY AfterBlocks, <3>3, <4>1
    <3> QED BY <1>4, <3>1, <3>2, <3>3
  <2>2. At(b, 1) \notin {"provoke", "detect", "xmon_exit"} /\ At(b, 2) # "xmon_exit"
    <3>1. 1 + 1 = 2 /\ 1 + 2 = 3
        OBVIOUS
    <3> QED BY <1>1, <1>4, <3>1 DEF Ordered
  <2> HIDE DEF a, b
  <2>3. a \in Seq(StepNames) /\ b \in Seq(StepNames) /\ Plan(b) /\ b # <<>>
      BY <1>1, <1>2, <2>1 DEF Block, b
  <2>4. Plan(a \o b)
      BY <2>1, <2>2, <2>3, BlockThenPlan
  <2>5. \A x : Mentions(b, x) => Mentions(a \o b, x)
      BY <2>3, MentionsConcat
  <2>6. At(a \o b, 1) = At(a, 1)
      BY <2>1, <2>3, AtConcat
  <2>7. a \o b # <<>> /\ a # <<>>
    <3>1. Len(a \o b) = Len(a) + Len(b) /\ Len(b) \in Nat
        BY <2>3, ConcatProperties, LenProperties
    <3> QED BY <2>1, <3>1, EmptySeq
  <2>8. Head(a \o b) = At(a \o b, 1)
      BY <2>4, <2>7, PlanTail
  <2> QED BY <2>1, <2>4, <2>5, <2>6, <2>7, <2>8 DEF a, b
<1> QED BY <1>3, <1>4, AfterIs

(* An expect() matched: on to the next step. *)
LEMMA ProceedInv == ASSUME SessInv, Proceed PROVE SessInv'
<1> USE DEF SessInv
<1>0. PICK n \in DOMAIN buffer :
        Matched(n) /\ ~CheckFails(buffer[n]) /\ todo' = After(buffer[n]) \o Tail(todo)
    BY DEF Proceed
<1>1. /\ result = "open" /\ waiting' = Idle
      /\ UNCHANGED <<confVars, child, prompt_stack, bug_patterns, owed, log, opts, alarm, guest, result>>
    BY DEF Proceed
<1>2. args' = args /\ prompt' = prompt /\ conf_phase' = conf_phase
    BY <1>1 DEF confVars
<1>b. PICK b \in Nat : b = Len(buffer)
    BY LenProperties DEF TypeInv
<1>3. /\ waiting # Idle /\ Open /\ child # "none" /\ SkipInv'
      /\ n \in 1..b /\ buffer[n] \in waiting.want
      /\ \A i \in 1..(n - 1) : buffer[i] \notin waiting.want
    BY <1>0, <1>1, <1>b, MatchSkips
<1>4. /\ buffer' \in Seq(Items) /\ Len(buffer') = b - n
      /\ \A i \in 1..(b - n) : buffer'[i] = buffer[n + i]
    BY <1>0, <1>3, <1>b, MatchRest DEF Matched
<1>w. /\ Head(todo) \notin Questions => waiting.want \subseteq Shells
      /\ Head(todo) = "release" => waiting.want = {"release"}
      /\ Head(todo) = "grep" =>
            "not ok" \in waiting.want /\ waiting.want \subseteq Shells \cup {"not ok"}
    BY <1>1, <1>3 DEF WaitInv
<1>s. /\ \A i, k \in 1..b : buffer[i] \in Shells /\ buffer[k] \in Shells => i = k
      /\ \A i \in 1..Len(owed) : owed[i] \in Shells => i = Len(owed)
      /\ NoShell(buffer) \/ NoShell(owed)
      /\ ~Loose /\ Head(todo) \in NoPrompt => NoShell(buffer) /\ NoShell(owed)
    BY <1>3, <1>b DEF SyncInv
<1>5. Plan(todo) /\ Head(todo) \notin Ends
  <2>1. Plan(todo)
      BY <1>1, <1>3 DEF StartInv
  <2>2. ASSUME Head(todo) \in Ends PROVE FALSE
    <3>1. Head(todo) \notin Questions /\ Head(todo) \in NoPrompt /\ ~Loose
        BY <2>2 DEF Ends, Questions, NoPrompt, Loose
    <3>2. buffer[n] \in Shells /\ NoShell(buffer)
        BY <1>3, <1>s, <1>w, <3>1
    <3> QED BY <1>3, <1>b, <3>2 DEF NoShell
  <2> QED BY <2>1, <2>2
<1>6. /\ Plan(todo') /\ todo' # <<>>
      /\ \A x : Mentions(Tail(todo), x) => Mentions(todo', x)
      /\ \/ After(buffer[n]) = <<>> /\ todo' = Tail(todo)
         \/ After(buffer[n]) # <<>> /\ Head(todo') \in {"prompt", "user", "login"}
      /\ After(buffer[n]) = <<"prompt">> => Head(todo') = "prompt"
    BY <1>0, <1>3, <1>5, TodoAfter DEF Open
<1>7. After(buffer[n]) # <<>> => Head(todo) \in {"release", "boot"}
    BY AfterIs
<1>8. /\ Head(todo) = At(todo, 1) /\ Ordered(todo, 1) /\ Tail(todo) # <<>>
      /\ Head(Tail(todo)) = At(todo, 2)
      /\ At(Tail(todo), 1) = At(todo, 2) /\ At(Tail(todo), 2) = At(todo, 3)
    BY <1>3, <1>5, NextStep DEF Open
<1>9. /\ Head(todo) = "ignore" <=> At(todo, 2) = "provoke"
      /\ Head(todo) = "provoke" <=> At(todo, 2) = "detect"
      /\ Head(todo) = "xmon" <=> At(todo, 3) = "xmon_exit"
      /\ At(todo, 2) = "xmon_exit" => Head(todo) = "cmd"
  <2>1. 1 + 1 = 2 /\ 1 + 2 = 3
      OBVIOUS
  <2> QED BY <1>8, <2>1 DEF Ordered
<1>10. TypeInv'
    BY <1>1, <1>2, <1>4 DEF TypeInv
<1>11. StartInv'
    BY <1>1, <1>2, <1>3, <1>6 DEF StartInv
<1>12. WaitInv' /\ GrepInv'
    BY <1>1 DEF WaitInv, GrepInv
<1>13. BugInv'
  <2> SUFFICES ASSUME ~bug_patterns PROVE Head(todo') = "detect"
      BY <1>1, <1>6 DEF BugInv
  <2>1. Head(todo) = "provoke"
      BY <1>1, <1>3 DEF BugInv
  <2> QED BY <1>6, <1>7, <1>8, <1>9, <2>1
<1>14. WindowInv'
  <2> SUFFICES ASSUME Head(todo') \in {"provoke", "detect"} PROVE Windowed(log)
      BY <1>1 DEF WindowInv
  <2>1. Head(todo) = "ignore" \/ Head(todo) = "provoke"
      BY <1>6, <1>8, <1>9
  <2> QED BY <1>3, <2>1 DEF WindowInv
<1>15. StackInv'
  <2>1. InXmon <=> Head(todo) = "xmon" \/ At(todo, 2) = "xmon_exit"
      BY <1>3, <1>8 DEF InXmon
  <2>2. InXmon' <=> At(todo', 2) = "xmon_exit" \/ At(todo', 1) = "xmon_exit"
      BY <1>1 DEF InXmon
  <2>3. InXmon' <=> InXmon
    <3>1. CASE todo' = Tail(todo)
        BY <1>8, <1>9, <2>1, <2>2, <3>1
    <3>2. CASE After(buffer[n]) # <<>> /\ Head(todo') \in {"prompt", "user", "login"}
      <4>1. /\ Head(todo') = At(todo', 1)
            /\ At(todo', 2) = "xmon_exit" => Head(todo') = "cmd"
        <5>1. Head(todo') = At(todo', 1) /\ Ordered(todo', 1) /\ 1 + 1 = 2
            BY <1>6, PlanTail DEF Plan
        <5> QED BY <5>1 DEF Ordered
      <4> QED BY <1>7, <1>9, <2>1, <2>2, <3>2, <4>1
    <3> QED BY <1>6, <3>1, <3>2
  <2> QED BY <1>1, <1>2, <1>3, <2>3 DEF StackInv
<1>16. ShellInv'
    BY <1>1, <1>2, <1>3 DEF ShellInv, PromptMatches, Prompt
<1>i. \A i \in 1..(b - n) : n + i \in 1..b /\ n + i # n
    BY <1>3
<1>17. SyncInv'
  <2>1. NoShell(buffer) => NoShell(buffer')
      BY <1>4, <1>b, <1>i DEF NoShell
  <2>2. \A i, k \in 1..(b - n) : buffer'[i] \in Shells /\ buffer'[k] \in Shells => i = k
    <3> TAKE i, k \in 1..(b - n)
    <3>1. n + i = n + k => i = k
        BY <1>3
    <3> QED BY <1>4, <1>i, <1>s, <3>1
  <2>3. CASE buffer[n] \in Shells
    <3>1. NoShell(owed)
        BY <1>3, <1>b, <1>s, <2>3 DEF NoShell
    <3>2. NoShell(buffer')
        BY <1>3, <1>4, <1>i, <1>s, <2>3 DEF NoShell
    <3> QED BY <1>1, <1>4, <1>s, <2>2, <3>1, <3>2 DEF SyncInv
  <2>4. CASE NoShell(buffer) /\ NoShell(owed)
      BY <1>1, <1>4, <1>s, <2>1, <2>2, <2>4 DEF SyncInv
  <2>5. CASE buffer[n] \notin Shells /\ ~(NoShell(buffer) /\ NoShell(owed))
    <3>1. Head(todo) \in Questions
        BY <1>3, <1>w, <2>5
    <3>2. Head(todo) \in {"release", "grep", "boot"} /\ (Head(todo) = "boot" => args.cloud = None)
        BY <1>s, <2>5, <3>1 DEF Questions, NoPrompt, Loose
    <3>3. Head(todo) # "grep"
        BY <1>0, <1>3, <1>w, <2>5 DEF CheckFails
    <3>4. Head(todo) = "boot" => buffer[n] \notin PromptMatches(Prompt)
        BY <1>3, <2>5, PromptsAreShells
    <3>5. After(buffer[n]) = <<"prompt">>
        BY <3>2, <3>3, <3>4, AfterIs
    <3>6. Loose'
        BY <1>6, <3>5 DEF Loose
    <3>7. NoShell(buffer') \/ NoShell(owed)
        BY <1>s, <2>1
    <3> QED BY <1>1, <1>4, <1>s, <2>2, <3>6, <3>7 DEF SyncInv
  <2> QED BY <2>3, <2>4, <2>5
<1>18. ReleaseInv'
  <2>1. Mentions(buffer', "release") => Mentions(buffer, "release")
      BY <1>4, <1>b, <1>i DEF Mentions
  <2> QED BY <1>1, <2>1 DEF ReleaseInv
<1>19. TestsInv'
  <2>1. guest.release # "other" \/ Mentions(todo', "release")
    <3>1. CASE guest.release # "other"
        BY <3>1
    <3>2. CASE Mentions(todo, "release") /\ Head(todo) # "release"
        BY <1>3, <1>5, <1>6, <3>2, MentionsTail DEF Open
    <3>3. CASE Head(todo) = "release"
      <4>1. buffer[n] = "release"
          BY <1>3, <1>w, <3>3
      <4>2. Mentions(buffer, "release")
          BY <1>3, <1>b, <4>1 DEF Mentions
      <4> QED BY <4>2 DEF ReleaseInv
    <3> QED BY <1>1, <1>3, <3>1, <3>2, <3>3 DEF TestsInv
  <2>2. Selftests => ~guest.tests_fail \/ Mentions(todo', "grep")
    <3>1. CASE ~guest.tests_fail
        BY <3>1
    <3>2. CASE Mentions(todo, "grep") /\ Head(todo) # "grep"
        BY <1>3, <1>5, <1>6, <3>2, MentionsTail DEF Open
    <3>3. CASE Head(todo) = "grep" /\ guest.tests_fail
      <4>1. buffer[n] \in Shells
          BY <1>0, <1>3, <1>w, <3>3 DEF CheckFails
      <4>2. ~NoShell(buffer)
          BY <1>3, <1>b, <4>1 DEF NoShell
      <4>3. PICK i \in 1..b : buffer[i] = "not ok" /\ \A k \in 1..i : buffer[k] \notin Shells
          BY <1>3, <1>b, <3>3, <4>2 DEF GrepInv
      <4>4. i \in 1..(n - 1)
        <5>1. ~(n \in 1..i)
            BY <4>1, <4>3
        <5> QED BY <1>3, <5>1
      <4> QED BY <1>3, <1>w, <3>3, <4>3, <4>4
    <3> QED BY <1>1, <1>3, <3>1, <3>2, <3>3 DEF TestsInv
  <2> QED BY <1>1, <2>1, <2>2 DEF TestsInv, Selftests
<1>20. LogIsClean' /\ VerdictHonoursTests'
    BY <1>1 DEF LogIsClean, VerdictHonoursTests, BootedOk
<1> QED BY <1>3, <1>10, <1>11, <1>12, <1>13, <1>14, <1>15, <1>16, <1>17, <1>18, <1>19, <1>20

LEMMA SessUnchanged == ASSUME SessInv, UNCHANGED vars PROVE SessInv'
<1>1. UNCHANGED <<confVars, consoleVars, sessionVars>>
    BY DEF vars
<1>2. /\ args' = args /\ prompt' = prompt /\ conf_phase' = conf_phase /\ child' = child
      /\ prompt_stack' = prompt_stack /\ bug_patterns' = bug_patterns /\ waiting' = waiting
      /\ owed' = owed /\ buffer' = buffer /\ log' = log /\ skipped' = skipped
      /\ opts' = opts /\ guest' = guest /\ result' = result /\ todo' = todo /\ alarm' = alarm
    BY <1>1 DEF confVars, consoleVars, sessionVars
<1>3. TypeInv' /\ StartInv' /\ SkipInv' /\ ReleaseInv'
    BY <1>2 DEF SessInv, TypeInv, StartInv, SkipInv, ReleaseInv, BootedOk
<1>4. WaitInv' /\ BugInv'
    BY <1>2 DEF SessInv, WaitInv, BugInv, Asks
<1>5. WindowInv' /\ StackInv'
    BY <1>2 DEF SessInv, WindowInv, StackInv, Open, InXmon
<1>6. ShellInv' /\ GrepInv'
    BY <1>2 DEF SessInv, ShellInv, GrepInv, Open, Prompt, PromptMatches
<1>7. SyncInv'
    BY <1>2 DEF SessInv, SyncInv, Open, Loose
<1>8. TestsInv' /\ VerdictHonoursTests'
    BY <1>2 DEF SessInv, TestsInv, VerdictHonoursTests, Selftests, BootedOk
<1>9. LogIsClean'
  <2>1. Lines' = Lines
      BY <1>2 DEF Lines
  <2> QED BY <1>2, <2>1 DEF SessInv, LogIsClean, BootedOk, Scan!InWindow
<1> QED BY <1>3, <1>4, <1>5, <1>6, <1>7, <1>8, <1>9 DEF SessInv

LEMMA SessStep == ASSUME SessInv, [Next]_vars PROVE SessInv'
<1>1. CASE Send
  <2>1. Sending \/ ClearAlarm \/ SetAlarm \/ Raise
      BY <1>1 DEF Send, Sending
  <2> QED BY <2>1, SendsInv, AlarmStepsInv, EndingInv
<1>2. CASE Configuring \/ RunInteractively \/ InteractiveRaises
    BY <1>2, BeforeInv
<1>3. CASE Spawn \/ SpawnRaises
    BY <1>3, SpawnInv, SpawnRaisesInv
<1>4. CASE Proceed
    BY <1>4, ProceedInv
<1>5. CASE CallbackFails \/ ExpectRaises \/ Alarm
    BY <1>5, EndingInv
<1>6. CASE Filter
    BY <1>6, FilterInv
<1>7. CASE Guest
    BY <1>7, GuestInv
<1>8. CASE Finished \/ UNCHANGED vars
    BY <1>8, SessUnchanged DEF Finished
<1> QED BY <1>1, <1>2, <1>3, <1>4, <1>5, <1>6, <1>7, <1>8 DEF Next, Script

(* The conjunction is an invariant of qemu_main(), for any command line,   *)
(* any list of callbacks and any guest: it relates what is left to do, the *)
(* expect() in progress, the prompt stack, the console and the log.        *)
THEOREM SessInvHolds == Spec => []SessInv
<1>1. SessInv /\ [Next]_vars => SessInv'
    BY SessStep
<1> QED BY <1>1, SessInit, PTL DEF Spec

(* No guest is talked to with an input missing: whatever the script set    *)
(* itself, defaults that were given up end the session at its start.       *)
THEOREM MissingInputNeverTestedHolds == Spec => []MissingInputNeverTested
<1>1. SessInv /\ ConfInv => MissingInputNeverTested
  <2> SUFFICES ASSUME SessInv, ConfInv, child \in {"alive", "eof"} \/ BootedOk
               PROVE  /\ Known("release") /\ ~args.empty
                      /\ Known("vmlinux") /\ args.root_disks /\ args.mounts_ok
                      /\ prompt # None
      BY DEF MissingInputNeverTested
  <2>1. conf_phase = "ready" /\ prompt = PromptOf(args.cloud)
      BY DEF SessInv, StartInv
  <2>2. prompt # None
      BY <2>1 DEF PromptOf, None
  <2>3. ~DefaultsMissing /\ ~MainGuard
      BY <2>1, <2>2 DEF ConfInv, PhaseInv
  <2> QED BY <2>2, <2>3 DEF DefaultsMissing, MainGuard
<1> QED BY <1>1, SessInvHolds, ConfInvHolds, PTL

(* A session that reports success read past a bug pattern only where it    *)
(* was told to, and each line the filter matches lies in an ignore window. *)
THEOREM SuccessIsCleanHolds == Spec => []SuccessIsClean
<1>1. SessInv => SuccessIsClean
    BY DEF SessInv, SkipInv, LogIsClean, SuccessIsClean, Quiet4
<1> QED BY <1>1, SessInvHolds, PTL

(* A session that reports success took every step of its plan, in a kernel *)
(* of the release it was asked for, and no selftest it looks at failed.    *)
THEOREM VerdictHonoursTestsHolds == Spec => []VerdictHonoursTests
<1>1. SessInv => VerdictHonoursTests
    BY DEF SessInv
<1> QED BY <1>1, SessInvHolds, PTL

LEMMA WindowOfLog ==
    ASSUME TypeInv, Windowed(log)
    PROVE  log # <<>> /\ Scan!InWindow(Lines, Len(Lines))
<1>1. PICK n \in Nat : n = Len(log) /\ DOMAIN log = 1..n
    BY LenProperties DEF TypeInv
<1>2. PICK s \in 1..n : log[s] = "ignore" /\ \A k \in s..n : log[k] # "detect"
    BY <1>1 DEF Windowed
<1>3. log # <<>>
    BY <1>1, <1>2, EmptySeq
<1>4. Lines = [i \in 1..n |-> LineOf(log[i])]
    BY <1>1 DEF Lines
<1>5. Len(Lines) = n
  <2> DEFINE S == {LineOf(log[i]) : i \in 1..n}
  <2>1. Lines \in [1..n -> S]
      BY <1>4
  <2> HIDE DEF S
  <2>2. Lines \in Seq(S)
      BY <2>1, SeqDef
  <2>3. DOMAIN Lines = 1..Len(Lines) /\ Len(Lines) \in Nat
      BY <2>2, LenProperties
  <2>4. DOMAIN Lines = 1..n
      BY <1>4
  <2>5. PICK m \in Nat : m = Len(Lines) /\ 1..m = 1..n
      BY <2>3, <2>4
  <2> QED BY <2>5
<1>6. Lines[s].start
    BY <1>2, <1>4 DEF LineOf, NoFilter
<1>7. \A k \in s..n : ~Lines[k].stop
  <2> TAKE k \in s..n
  <2>1. k \in 1..n /\ log[k] # "detect"
      BY <1>2
  <2> QED BY <1>4, <2>1 DEF LineOf, NoFilter
<1> QED BY <1>2, <1>3, <1>5, <1>6, <1>7 DEF Scan!InWindow

(* Bug patterns are off only while the log is in an ignore window.         *)
THEOREM PatternsOffOnlyInWindowHolds == Spec => []PatternsOffOnlyInWindow
<1>1. SessInv => PatternsOffOnlyInWindow
  <2> SUFFICES ASSUME SessInv, result = "open", ~bug_patterns PROVE Windowed(log)
      BY WindowOfLog DEF SessInv, PatternsOffOnlyInWindow
  <2> QED BY DEF SessInv, BugInv, WindowInv, Open
<1> QED BY <1>1, SessInvHolds, PTL

(* The prompt stack follows the shell the guest is in: an awaited prompt   *)
(* of an image that prompts in every directory can be matched.             *)
THEOREM PromptFollowsShellHolds == Spec => []PromptFollowsShell
<1>1. SessInv => PromptFollowsShell
  <2> SUFFICES ASSUME SessInv, result = "open", owed # <<>>, waiting # Idle, args.cloud = "ubuntu"
               PROVE  owed[Len(owed)] \in Shells => owed[Len(owed)] \in PromptMatches(Prompt)
      BY DEF PromptFollowsShell
  <2>1. Open
      BY DEF SessInv, WaitInv, Open
  <2> QED BY <2>1 DEF SessInv, ShellInv
<1> QED BY <1>1, SessInvHolds, PTL
=============================================================================
