----------------------------- MODULE OneSession -----------------------------
(***************************************************************************)
(* What the console server promises ("keep just one connect instance",     *)
(* tcp_logic.c): connections are served one at a time, each at most once.  *)
(***************************************************************************)
CONSTANT Conn

VARIABLES
  open,   \* the connections that are being served
  seen    \* the connections that were ever served

Init == open = {} /\ seen = {}

Begin(c) ==
  /\ open = {} /\ c \notin seen
  /\ open' = {c}
  /\ seen' = seen \cup {c}

End ==
  /\ open # {}
  /\ open' = {}
  /\ UNCHANGED seen

Next == End \/ \E c \in Conn : Begin(c)

Spec == Init /\ [][Next]_<<open, seen>>
=============================================================================
