--------------------------- MODULE MCPlayControl ---------------------------
(* Small instances of PlayControl: two stored files, the first longer than *)
(* what one read moves, with names of different lengths, and a third that  *)
(* a console may name although it is not there.                            *)
EXTENDS PlayControl, TLC

CONSTANTS f1, f2, gone

MCFile    == {f1, f2, gone}
MCStored  == {f1, f2}
MCSize    == f1 :> 12 @@ f2 :> 4 @@ gone :> 0
MCOdd     == f1 :> 10 @@ f2 :> 4 @@ gone :> 0
MCNameLen == f1 :> 1 @@ f2 :> 2 @@ gone :> 1
=============================================================================
