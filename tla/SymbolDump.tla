----------------------------- MODULE SymbolDump -----------------------------
(***************************************************************************)
(* lib/dump.py and scripts/misc/dump-ftr-fixups.py: the symbol table of a  *)
(* kernel as nm -n prints it, the lookups in it by name and by address,    *)
(* and the dump of the feature fixup entries that uses them.               *)
(***************************************************************************)
EXTENDS Integers, Sequences

CONSTANTS MaxAddr, MaxRows    \* bounds for TLC; MaxRows of symbols and entries together

ASSUME DumpBoundsAssumption == {MaxAddr, MaxRows} \subseteq Nat

Names == {"f", "g", "long"}
NameLength(n) == CASE n = "" -> 0 [] n = "long" -> 2 [] OTHER -> 1
Undefined == -1    \* a line without an address
NmLines == [addr : {Undefined} \cup 0..MaxAddr, name : Names, type : {"T", "w"}]

(* A fixup entry: its code is kept where the feature bits in mask have the *)
(* given value, and patched elsewhere; its range may lie in no section.    *)
Bits == {1, 2}
Entries == [mask : SUBSET Bits, value : SUBSET Bits, in_section : BOOLEAN]

VARIABLES
    symbols,      \* (addr, name, type) of the lines read
    last_addr,
    read_all,
    variant,      \* the local variable of dump_fixups(), "unbound" at first
    printed,      \* the entries printed, with their variant
    dump_outcome

dumpVars == <<symbols, last_addr, read_all, variant, printed, dump_outcome>>

DumpInit ==
    /\ symbols = <<>>
    /\ last_addr = 0
    /\ read_all = FALSE
    /\ variant = "unbound"
    /\ printed = <<>>
    /\ dump_outcome = "open"

(* read_symbols(): a line without an address takes the one of the line     *)
(* before.  nm -n prints those first and the others by address.            *)
ReadSymbol(l) ==
    /\ ~read_all
    /\ Len(symbols) < MaxRows
    /\ IF l.addr = Undefined THEN last_addr = 0 ELSE l.addr >= last_addr
    /\ LET addr == IF l.addr = Undefined THEN last_addr ELSE l.addr
       IN  /\ symbols' = Append(symbols, [l EXCEPT !.addr = addr])
           /\ last_addr' = addr
    /\ UNCHANGED <<read_all, variant, printed, dump_outcome>>

ReadEnd ==
    /\ ~read_all
    /\ symbols # <<>>
    /\ read_all' = TRUE
    /\ UNCHANGED <<symbols, last_addr, variant, printed, dump_outcome>>

-----------------------------------------------------------------------------
Earliest(at) == CHOOSE i \in at : \A k \in at : i <= k

(* find_symbol_and_size(): the size reaches to the next line, whatever that *)
(* line is; <<>> stands for (None, None).                                  *)
SizeAtDefect(i) ==
    IF i + 2 > Len(symbols) THEN -1 ELSE symbols[i + 2].addr - symbols[i].addr
SizeAt(i) ==
    IF i = Len(symbols) THEN -1 ELSE symbols[i + 1].addr - symbols[i].addr

FindSymbolAndSize(name) ==
    LET at == {i \in DOMAIN symbols : symbols[i].name = name}
    IN  IF at = {} THEN <<>>
        ELSE <<symbols[Earliest(at)].addr, SizeAt(Earliest(at))>>

(* find_addr(): one pass that stops at the first symbol above addr.        *)
NextFunctionDefect(s, sym) == sym.name
NextFunction(s, sym) ==
    IF sym.addr = s.last_addr /\ NameLength(sym.name) <= NameLength(s.last_function)
    THEN s.last_function ELSE sym.name

(* What the pass has seen after the first i symbols. *)
Seen ==
    LET f[i \in 0..Len(symbols)] ==
            IF i = 0 THEN [last_addr |-> 0, last_function |-> ""]
            ELSE IF symbols[i].type = "w" THEN f[i - 1]
            ELSE [last_addr |-> symbols[i].addr,
                  last_function |-> NextFunction(f[i - 1], symbols[i])]
    IN  f

FindAddr(addr) ==
    LET above == {i \in DOMAIN symbols : symbols[i].type # "w" /\ symbols[i].addr > addr}
    IN  IF above = {} THEN <<"at the end", 0>>
        ELSE LET s == Seen[Earliest(above) - 1]
             IN  <<s.last_function, addr - s.last_addr>>

-----------------------------------------------------------------------------
(* dump_fixups() assigns no variant to an entry whose value is neither the *)
(* mask nor 0: it prints that of the entry before, and is unbound if there *)
(* is none.                                                                *)
VariantOfDefect(e, was) ==
    CASE e.mask = {} /\ e.value = {} -> "never"
      [] e.mask = {} /\ e.value # {} -> "always"
      [] e.value = {} -> "if clear"
      [] OTHER -> "if set"
VariantOf(e, was) ==
    CASE e.mask = {} /\ e.value = {} -> "never"
      [] e.mask = {} /\ e.value # {} -> "always"
      [] e.mask # {} /\ e.mask = e.value -> "if set"
      [] e.mask # {} /\ e.value = {} -> "if clear"
      [] OTHER -> was

(* The header lines are printed before objdump_range() looks for the range *)
(* in the sections; seek(None) raises.                                     *)
DumpFixup(e) ==
    /\ read_all /\ dump_outcome = "open"
    /\ Len(symbols) + Len(printed) < MaxRows
    /\ variant' = VariantOf(e, variant)
    /\ IF variant' = "unbound"
       THEN dump_outcome' = "raised" /\ UNCHANGED printed
       ELSE /\ printed' = Append(printed, [entry |-> e, variant |-> variant'])
            /\ dump_outcome' = IF e.in_section THEN "open" ELSE "raised"
    /\ UNCHANGED <<symbols, last_addr, read_all>>

Finish ==
    /\ read_all /\ dump_outcome = "open"
    /\ dump_outcome' = "done"
    /\ UNCHANGED <<symbols, last_addr, read_all, variant, printed>>

DumpFinished == dump_outcome # "open" /\ UNCHANGED dumpVars

DumpNext ==
    \/ \E l \in NmLines : ReadSymbol(l)
    \/ ReadEnd
    \/ \E e \in Entries : DumpFixup(e)
    \/ Finish \/ DumpFinished

DumpSpec == DumpInit /\ [][DumpNext]_dumpVars

-----------------------------------------------------------------------------
(* The symbols that are not weak, and those at or below an address. *)
Real == {i \in DOMAIN symbols : symbols[i].type # "w"}
UpTo(addr) == {i \in Real : symbols[i].addr <= addr}

(* An address is found at the greatest non-weak symbol not above it, under *)
(* the first of its longest names, unless no non-weak symbol is above it.  *)
FindAddrIsReference ==
    read_all => \A addr \in 0..MaxAddr :
        LET below == UpTo(addr)
            nearest == {i \in below : \A k \in below : symbols[k].addr <= symbols[i].addr}
            longest == {i \in nearest : \A k \in nearest :
                            NameLength(symbols[k].name) <= NameLength(symbols[i].name)}
        IN  IF below = Real THEN FindAddr(addr) = <<"at the end", 0>>
            ELSE IF below = {} THEN FindAddr(addr) = <<"", addr>>
            ELSE \E i \in longest :
                    /\ \A k \in longest : i <= k
                    /\ FindAddr(addr) = <<symbols[i].name, addr - symbols[i].addr>>

(* The two lookups agree: every address in the range that a non-weak name  *)
(* is said to have is found at that name's address, by an alias of the     *)
(* same address or by the name itself.                                     *)
RangesAgree ==
    read_all => \A name \in Names :
        LET found == FindSymbolAndSize(name) IN
        (found # <<>> /\ \E i \in UpTo(found[1]) : symbols[i].name = name)
            => \A addr \in found[1]..(found[1] + found[2] - 1) :
                  UpTo(addr) # Real => FindAddr(addr)[2] = addr - found[1]

(* The feature bits with which the code of an entry is kept, and those     *)
(* with which a variant says it is.                                        *)
Kept(e) == {bits \in SUBSET Bits : e.mask \cap bits = e.value}
Says(said, e) ==
    CASE said = "never" -> SUBSET Bits
      [] said = "always" -> {}
      [] said = "if set" -> {bits \in SUBSET Bits : e.mask \subseteq bits}
      [] said = "if clear" -> {bits \in SUBSET Bits : e.mask \cap bits = {}}

(* What is printed of an entry is true, except of one that dump_fixups()   *)
(* has no words for: its code is kept with some bits set and others clear, *)
(* or never, its value having bits that are not in the mask.  That is      *)
(* shown with what was said of the nearest entry before it that there are  *)
(* words for, which is false unless it is patched always as that one is.   *)
Unsaid(e) == e.mask # {} /\ e.value \notin {{}, e.mask}
VariantAccounted ==
    \A n \in DOMAIN printed :
        LET e == printed[n].entry
            said == printed[n].variant
        IN  /\ Says(said, e) = Kept(e) <=>
                    ~Unsaid(e) \/ (said = "always" /\ ~(e.value \subseteq e.mask))
            /\ Unsaid(e) => \E k \in 1..(n - 1) :
                    /\ ~Unsaid(printed[k].entry) /\ printed[k].variant = said
                    /\ \A i \in (k + 1)..n : Unsaid(printed[i].entry)
=============================================================================
