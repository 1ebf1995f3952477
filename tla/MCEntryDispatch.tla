--------------------------- MODULE MCEntryDispatch ---------------------------
(***************************************************************************)
(* Functions with every number of entries up to the bound and every number *)
(* passed, the ones below and above all entries included.                  *)
(***************************************************************************)
EXTENDS EntryDispatch

MCArguments == 0..MaxEntries + 2
=============================================================================
