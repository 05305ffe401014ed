--------------------------- MODULE InOrderDelivery ---------------------------
(***************************************************************************)
(* What a reordering buffer promises to whoever takes packets out of it.   *)
(* The sender numbers its packets 1, 2, ...; they may come in any order    *)
(* and any number of times; they go out once each, in the sender's order.  *)
(* A packet that is missing may be given up on, and stays given up.        *)
(***************************************************************************)
EXTENDS Naturals

CONSTANT Numbers     \* the numbers the sender gives, from 1 on

VARIABLES
  buffered,   \* numbers of the packets that have come and not gone out
  expected    \* every packet below has gone out or has been given up; 0: none has come

vars == <<buffered, expected>>

Init == buffered = {} /\ expected = 0

\* The first packet says where the numbers start.
Start(n) ==
  /\ expected = 0
  /\ buffered' = {n} /\ expected' = n

Accept(n) ==
  /\ expected > 0 /\ n >= expected /\ n \notin buffered
  /\ buffered' = buffered \cup {n}
  /\ UNCHANGED expected

\* The lowest number goes out; what is missing below it is given up on.
Release(n) ==
  /\ n \in buffered /\ \A k \in buffered : n <= k
  /\ n >= expected
  /\ buffered' = buffered \ {n} /\ expected' = n + 1

\* The stream ends; what is buffered is thrown away.
Stop == buffered' = {} /\ UNCHANGED expected

Next == (\E n \in Numbers : Start(n) \/ Accept(n) \/ Release(n)) \/ Stop

Spec == Init /\ [][Next]_vars
=============================================================================
