---------------------------- MODULE MCSymbolStore ----------------------------
(***************************************************************************)
(* SymbolStore for TLC.  Two builds of one library and a broken one share  *)
(* the temporary file; the name of the fourth library has a space in it.   *)
(* Between them they have records of every kind.                           *)
(***************************************************************************)
EXTENDS SymbolStore, TLC

CONSTANTS build1, build2, broken, spaced

MCName     == [l \in Libs |-> IF l = spaced THEN "my lib" ELSE "lib"]
MCId       == [l \in Libs |-> CASE l = build1 -> "id1"
                                [] l = build2 -> "id2"
                                [] l = broken -> "id3"
                                [] l = spaced -> "id4"]
MCRecords  == [l \in Libs |->
                  IF l = build1 THEN <<"module", "func", "cfi">>
                                ELSE <<"module", "public">>]

\* Threads in symbol() are interchangeable; calls are numbered as they begin.
SymbolizersSymmetry == Permutations(Symbolizers)
==============================================================================
