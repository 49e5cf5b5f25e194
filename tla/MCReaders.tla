----------------------------- MODULE MCReaders ------------------------------
(***************************************************************************)
(* LogFilter and SymbolDump for TLC: the two programs that read a text     *)
(* line by line.  They share nothing, and each runs alone, the other one   *)
(* not having begun.                                                       *)
(***************************************************************************)
EXTENDS LogFilter, SymbolDump

ReadersInit == Init /\ DumpInit

Filtering == symbols = <<>> /\ dump_outcome = "open" /\ Next /\ UNCHANGED dumpVars
Dumping == log = <<>> /\ ~eof /\ DumpNext /\ UNCHANGED vars

ReadersSpec == ReadersInit /\ [][Filtering \/ Dumping]_<<vars, dumpVars>>
=============================================================================
