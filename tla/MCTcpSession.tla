---------------------------- MODULE MCTcpSession ----------------------------
(* TcpSession on a few connections and descriptors. *)
EXTENDS TcpSession, TLC

(* Connections are interchangeable; used with safety properties only. *)
ConnSymmetry == Permutations(Conn)
=============================================================================
