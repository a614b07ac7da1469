----------------------------- MODULE MCProgress -----------------------------
(***************************************************************************)
(* Small instances of Progress for TLC: which thread posts which operation *)
(* is chosen so that each run contends for a context, a queue slot and a   *)
(* lock.                                                                   *)
(***************************************************************************)
EXTENDS Progress, TLC

CONSTANTS p1, p2, o1, o2, o3, o4, o5

BothQueues == {"tx", "rx"}
OneSlot == [q \in Queues |-> 1]

\* A send, a receive and a write that asks for delivery-complete.
MessageKinds ==
  [o \in Ops |-> CASE o = o1 -> "send" [] o = o2 -> "recv" [] OTHER -> "delivery"]

\* A receive that may be cancelled, an injected send, an injected write, a
\* remote-write event and a write that may fail.
MixedKinds ==
  [o \in Ops |-> CASE o = o1 -> "recv" [] o = o2 -> "inject" [] o = o3 -> "signal"
                  [] o = o4 -> "data" [] OTHER -> "write"]

ByMain == [o \in Ops |-> p1]
ByTwo == [o \in Ops |-> IF o \in {o1, o2} THEN p1 ELSE p2]
=============================================================================
