---------------------------- MODULE MCEthConfig ----------------------------
(* Small instances of EthConfig: every file of up to MaxLines lines, and   *)
(* the file of the documentation, whose address line has another keyword.  *)
EXTENDS EthConfig, SequencesExt

CONSTANT MaxLines  \* bound: lines of a file

OldLine(k) == [kind |-> k, value |-> Old]

MCFiles  == BoundedSeq({OldLine(k) : k \in Kind}, MaxLines)
DocFiles == {<<OldLine("other"), OldLine("iface eth0 static"),
               OldLine("other"), OldLine("netmask")>>}
=============================================================================
