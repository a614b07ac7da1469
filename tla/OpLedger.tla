------------------------------ MODULE OpLedger ------------------------------
(***************************************************************************)
(* What libfatbat promises about the operations of one rank, whatever      *)
(* threads, locks, queues and contexts it uses to keep the promise:        *)
(*                                                                         *)
(*   - an operation is begun at most once;                                 *)
(*   - its completion is counted at most once, after it was begun, in the  *)
(*     counter of its class (a cancelled receive is never counted);        *)
(*   - its callback runs at most once, after the completion was counted    *)
(*     (or after the cancellation);                                        *)
(*   - the public counters are exact: they are the numbers of operations   *)
(*     begun and counted.                                                  *)
(***************************************************************************)
EXTENDS Naturals

CONSTANTS
  Ops,          \* the operations of the rank, remote-write events included
  Classes,      \* the counter pairs of the controller, and classes that have none
  Class,        \* [Ops -> Classes]
  Unposted,     \* the classes whose begin is not counted
  Uncounted,    \* the classes whose completion is not counted
  Cancellable   \* the operations that may end as cancelled

VARIABLES
  begun,        \* operations handed to the library (or announced by a peer)
  counted,      \* operations whose completion was counted
  called,       \* [Ops -> Nat]: how often the callback of the operation ran
  posted,       \* [Classes -> Nat]: xxx_posted_
  complete      \* [Classes -> Nat]: xxx_complete_

vars == <<begun, counted, called, posted, complete>>

Init ==
  /\ begun = {}
  /\ counted = {}
  /\ called = [o \in Ops |-> 0]
  /\ posted = [k \in Classes |-> 0]
  /\ complete = [k \in Classes |-> 0]

\* One more in the counter of class k, unless the class has no such counter.
Bump(counter, k, exempt) ==
  IF k \in exempt THEN counter ELSE [counter EXCEPT ![k] = @ + 1]

Begin(o) ==
  /\ o \notin begun
  /\ begun' = begun \cup {o}
  /\ posted' = Bump(posted, Class[o], Unposted)
  /\ UNCHANGED <<counted, called, complete>>

Count(o) ==
  /\ o \in begun \ counted
  /\ called[o] = 0
  /\ counted' = counted \cup {o}
  /\ complete' = Bump(complete, Class[o], Uncounted)
  /\ UNCHANGED <<begun, called, posted>>

Call(o) ==
  /\ o \in counted
  /\ called[o] = 0
  /\ called' = [called EXCEPT ![o] = 1]
  /\ UNCHANGED <<begun, counted, posted, complete>>

Cancel(o) ==
  /\ o \in Cancellable
  /\ o \in begun \ counted
  /\ called[o] = 0
  /\ called' = [called EXCEPT ![o] = 1]
  /\ UNCHANGED <<begun, counted, posted, complete>>

Next == \E o \in Ops : Begin(o) \/ Count(o) \/ Call(o) \/ Cancel(o)

Spec == Init /\ [][Next]_vars
=============================================================================
