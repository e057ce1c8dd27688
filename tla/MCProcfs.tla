------------------------------ MODULE MCProcfs ------------------------------
(* Two threads, two entry objects and two names: enough for two threads   *)
(* to register the same name, for a listing to overlap a registration and  *)
(* for a freed entry to be reused under a new name.                        *)
EXTENDS Procfs, TLC

CONSTANTS t1, t2, e1, e2, n1, n2

MCThreads == {t1, t2}
MCEntries == {e1, e2}
MCNames   == {n1, n2}

MCSymmetry == Permutations(MCThreads) \cup Permutations(MCEntries)
              \cup Permutations(MCNames)
=============================================================================
