----------------------------- MODULE CommandLink -----------------------------
(***************************************************************************)
(* What a console's line promises, whatever happens to the bytes on it:    *)
(* the commands carried out are ones that were sent, each of them whole,   *)
(* in the order in which they were sent.  Commands may be lost.  On a line *)
(* that Repeats, the last command may be carried out again.                *)
(***************************************************************************)
EXTENDS Integers, Sequences

CONSTANTS Repeats  \* TRUE or FALSE

VARIABLES sent,   \* commands sent so far, numbered from 1
          ran     \* those carried out, in order

Latest(s) == IF s = <<>> THEN 0 ELSE s[Len(s)]

Init == sent = 0 /\ ran = <<>>

Send == sent' = sent + 1 /\ UNCHANGED ran

Execute == \E k \in 1 .. sent : /\ Latest(ran) < k
                                /\ ran' = Append(ran, k)
                                /\ UNCHANGED sent

Again == /\ Repeats /\ ran # <<>>
         /\ ran' = Append(ran, Latest(ran))
         /\ UNCHANGED sent

Next == Send \/ Execute \/ Again
Spec == Init /\ [][Next]_<<sent, ran>>
=============================================================================
