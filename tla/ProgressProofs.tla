--------------------------- MODULE ProgressProofs ---------------------------
(***************************************************************************)
(* Theorems about Progress for any threads, operations, contexts, queue    *)
(* depths and batch sizes.  None of them needs a set to be finite, a queue *)
(* to have room or a provider feature to be present.                       *)
(***************************************************************************)
EXTENDS Progress, TLAPS

(***************************************************************************)
(* What the stage of a reference says of its operation and its context.    *)
(***************************************************************************)
Shape(i) ==
  /\ i.ctx # Null <=> Kind[i.op] \in WithContext
  /\ i.st \in {"echo", "injected", "returning"} => Kind[i.op] \in {"inject", "signal"}
  /\ i.st = "post" => Kind[i.op] # "data"
  /\ i.st = "push" => i.ctx # Null
  /\ i.st = "cancelled" => i.op \in Cancellable
  /\ i.st = "returning" => i.op \in counted
  /\ i.st = "call" => i.op \in counted \cup Cancellable

\* The holder of i still has to run the callback of its operation.
Owes(i) ==
  \/ Kind[i.op] \in WithContext /\ i.st # "push"
  \/ Kind[i.op] = "data"
  \/ i.st \in {"post", "injected", "returning"}

\* One reference at most owes the callback of an operation, and only of an
\* operation that was begun and whose callback did not run.
Owed ==
  /\ \A i, j \in flight : Owes(i) /\ Owes(j) /\ i.op = j.op => i = j
  /\ \A i \in flight : i.op \notin todo
  /\ \A i \in flight : Owes(i) => called[i.op] = 0
  /\ \A o \in todo : called[o] = 0

Shaped == \A i \in flight : Shape(i)

RefInv == Shaped /\ OneOwner /\ OwnCallback /\ Owed /\ CalledOnce

IInv == TypeOK /\ RefInv

\* Locks: who is inside the locked region of a queue holds its lock, and
\* nobody else holds one, save a thread that died there.
Inside == {"read", "cancel", "unlock"}

LockInv ==
  \A t \in Threads :
    /\ pc[t] = "read" => queue[t] \notin Bypass
    /\ pc[t] \in {"cancel", "unlock"} => queue[t] = "rx"
    /\ pc[t] \in Inside /\ queue[t] \notin Bypass => lock[queue[t]] = t
    /\ \A q \in Queues : lock[q] = t =>
         q \notin Bypass /\ (pc[t] = "dead" \/ (pc[t] \in Inside /\ queue[t] = q))
-----------------------------------------------------------------------------
(* Moving references from one stage to another.                            *)

\* Reference i once the members of B have moved to stage s of holder t.
Image(B, s, t, i) == IF i \in B THEN Ref(i.op, i.ctx, s, t) ELSE i

Moved(B, s, t) == {Image(B, s, t, i) : i \in flight}

\* Moving a reference changes its stage and its holder and nothing else.
LEMMA ImageFields ==
  ASSUME NEW B, NEW s \in Stages, NEW t \in Threads \cup {Null}, NEW i \in Reference
  PROVE  /\ Image(B, s, t, i) \in Reference
         /\ Image(B, s, t, i).op = i.op
         /\ Image(B, s, t, i).ctx = i.ctx
         /\ Image(B, s, t, i).st = IF i \in B THEN s ELSE i.st
  BY DEF Image, Reference, Ref

\* References that move stay references.
LEMMA MovedTyped ==
  ASSUME flight \subseteq Reference, NEW B,
         NEW s \in Stages, NEW t \in Threads \cup {Null}
  PROVE  Moved(B, s, t) \subseteq Reference
  BY ImageFields DEF Moved

\* Move takes one reference to its new stage (every hand-over of a context
\* between poster, provider and poller).
LEMMA MoveIsMoved ==
  ASSUME NEW i \in flight, NEW s, NEW t, Move(i, s, t)
  PROVE  flight' = Moved({i}, s, t)
  BY DEF Move, Moved, Image

\* fi_cq_read takes a batch of references to its new stage.
LEMMA BatchIsMoved ==
  ASSUME NEW B \in SUBSET flight, NEW s, NEW t,
         flight' = (flight \ B) \cup {Ref(i.op, i.ctx, s, t) : i \in B}
  PROVE  flight' = Moved(B, s, t)
  BY DEF Moved, Image
-----------------------------------------------------------------------------
(* Types.                                                                  *)

\* The state of the threads alone.
ThreadsOK ==
  /\ delivery \in BOOLEAN
  /\ lock \in [Queues -> Threads \cup {Null}]
  /\ stop \in BOOLEAN
  /\ pc \in [Threads -> Steps]
  /\ queue \in [Threads -> Queues]
  /\ processed \in [Threads -> Nat]
  /\ retry \in [Threads -> BOOLEAN]
  /\ target \in [Posters -> Nat]

\* The references, the contexts and the ledger.
DataOK ==
  /\ todo \subseteq Ops
  /\ flight \subseteq Reference
  /\ live \subseteq Contexts
  /\ pool \subseteq Contexts
  /\ callback \in [Contexts -> Ops \cup {Null}]
  /\ posted \in [Classes -> Nat]
  /\ complete \in [Classes -> Nat]
  /\ counted \subseteq Ops
  /\ called \in [Ops -> Nat]

\* Every operation has its pair of counters, or none.
LEMMA ClassTyped == Class \in [Ops -> Classes]
  BY ProgressAssumption DEF Class, Classes, Kinds, WithContext

\* The type invariant is that of the threads and that of their data.
LEMMA TypeParts == TypeOK <=> ThreadsOK /\ DataOK
  BY DEF TypeOK, ThreadsOK, DataOK

\* No step of a thread leaves the steps, the queues and the locks there are.
LEMMA ThreadsTyped ==
  ASSUME TypeOK, [Next]_vars PROVE ThreadsOK'
<1> USE DEF TypeOK, ThreadsOK, vars, pollVars, ctxVars, ledgerVars
<1>1. CASE UNCHANGED vars
  BY <1>1
<1>2. ASSUME NEW t \in Threads, Post(t) PROVE ThreadsOK'
  <2>1. CASE Accepted(t)
    BY <2>1 DEF Accepted, Goto, Die, StartPoll, Steps, PollSteps, Queues
  <2>2. CASE AcceptedInject(t)
    BY <2>2 DEF AcceptedInject, Goto, Die, StartPoll, Steps, PollSteps, Queues
  <2>3. CASE Again(t)
    BY <2>3 DEF Again, Goto, Die, StartPoll, Steps, PollSteps, Queues
  <2>4. CASE DeliveryRejected(t)
    BY <2>4 DEF DeliveryRejected, Goto, Die, StartPoll, Steps, PollSteps, Queues
  <2>5. CASE PostFailed(t)
    BY <2>5 DEF PostFailed, Goto, Die, StartPoll, Steps, PollSteps, Queues
  <2>6. CASE InjectCounted(t)
    BY <2>6 DEF InjectCounted, Goto, Die, StartPoll, Steps, PollSteps, Queues
  <2>7. CASE InjectCalled(t)
    BY <2>7 DEF InjectCalled, Goto, Die, StartPoll, Steps, PollSteps, Queues
  <2> QED BY <1>2, <2>1, <2>2, <2>3, <2>4, <2>5, <2>6, <2>7 DEF Post
<1>3. ASSUME NEW t \in Threads, Poll(t) PROVE ThreadsOK'
  <2>1. CASE TakeLock(t)
    BY <2>1 DEF TakeLock, Goto, Die, StartPoll, PollReceives, EndPoll, Unlock, Steps, PollSteps, Queues
  <2>2. CASE SendsBusy(t)
    BY <2>2 DEF SendsBusy, Goto, Die, StartPoll, PollReceives, EndPoll, Unlock, Steps, PollSteps, Queues
  <2>3. CASE Read(t)
    BY <2>3 DEF Read, Goto, Die, StartPoll, PollReceives, EndPoll, Unlock, Steps, PollSteps, Queues
  <2>4. CASE ReadError(t)
    BY <2>4 DEF ReadError, Goto, Die, StartPoll, PollReceives, EndPoll, Unlock, Steps, PollSteps, Queues
  <2>5. CASE ReadCancelled(t)
    BY <2>5 DEF ReadCancelled, Goto, Die, StartPoll, PollReceives, EndPoll, Unlock, Steps, PollSteps, Queues
  <2>6. CASE CancelCalled(t)
    BY <2>6 DEF CancelCalled, Goto, Die, StartPoll, PollReceives, EndPoll, Unlock, Steps, PollSteps, Queues
  <2>7. CASE CancelRecycled(t)
    BY <2>7 DEF CancelRecycled, Goto, Die, StartPoll, PollReceives, EndPoll, Unlock, Steps, PollSteps, Queues
  <2>8. CASE Count(t)
    BY <2>8 DEF Count, Goto, Die, StartPoll, PollReceives, EndPoll, Unlock, Steps, PollSteps, Queues
  <2>9. CASE Called(t)
    BY <2>9 DEF Called, Goto, Die, StartPoll, PollReceives, EndPoll, Unlock, Steps, PollSteps, Queues
  <2>10. CASE CalledWithoutContext(t)
    BY <2>10 DEF CalledWithoutContext, Goto, Die, StartPoll, PollReceives, EndPoll, Unlock, Steps, PollSteps, Queues
  <2>11. CASE Recycled(t)
    BY <2>11 DEF Recycled, Goto, Die, StartPoll, PollReceives, EndPoll, Unlock, Steps, PollSteps, Queues
  <2>12. CASE BatchDone(t)
    <3>1. CASE queue[t] = "tx" /\ PollReceives(t, Full(t))
      BY <2>12, <3>1 DEF BatchDone, PollReceives, Full, Goto, Steps, PollSteps, Queues
    <3>2. CASE queue[t] = "rx" /\ StartPoll(t)
      BY <2>12, <3>2 DEF BatchDone, StartPoll, Goto, Steps, PollSteps, Queues
    <3>3. CASE queue[t] = "rx" /\ EndPoll(t)
      BY <2>12, <3>3 DEF BatchDone, EndPoll, Goto, Steps, PollSteps, Queues
    <3> QED BY <2>12, <3>1, <3>2, <3>3 DEF BatchDone
  <2> QED BY <1>3, <2>1, <2>2, <2>3, <2>4, <2>5, <2>6, <2>7, <2>8, <2>9, <2>10, <2>11, <2>12 DEF Poll
<1>4. ASSUME NEW t \in Threads, Loop(t) PROVE ThreadsOK'
  <2>1. CASE PollerPolls(t)
    BY <2>1 DEF PollerPolls, Goto, StartPoll, Steps, PollSteps, Queues
  <2>2. CASE PollerExits(t)
    BY <2>2 DEF PollerExits, Goto, Steps
  <2> QED BY <1>4, <2>1, <2>2 DEF Loop
<1>5. ASSUME NEW t \in Posters, Wait(t) PROVE ThreadsOK'
  <2>1. t \in Threads
    BY DEF Threads
  <2>2. CASE MsgsAwaited(t)
    BY <2>1, <2>2 DEF MsgsAwaited, Goto, Steps, Classes
  <2>3. CASE WritesAwaited(t)
    BY <2>1, <2>3 DEF WritesAwaited, Goto, Steps
  <2>4. CASE ReadsAwaited(t)
    BY <2>1, <2>4 DEF ReadsAwaited, Goto, Steps
  <2> QED BY <1>5, <2>2, <2>3, <2>4 DEF Wait
<1>6. ASSUME NEW t \in Posters, NEW o \in Ops, Begin(t, o) PROVE ThreadsOK'
  BY <1>6 DEF Begin, BeginWithContext, BeginInject, Goto, Steps, Threads
<1>7. CASE Net
  BY <1>7 DEF Net, NetCompletes, NetEchoes
<1>8. ASSUME NEW o \in Ops, RemoteWrite(o) PROVE ThreadsOK'
  BY <1>8 DEF RemoteWrite
<1>9. CASE StopPollers
  BY <1>9 DEF StopPollers
<1>10. CASE Finished
  BY <1>10 DEF Finished
<1> QED
  BY <1>1, <1>2, <1>3, <1>4, <1>5, <1>6, <1>7, <1>8, <1>9, <1>10 DEF Next
-----------------------------------------------------------------------------
(* The data, one kind of step at a time.                                   *)

DataInv == DataOK /\ RefInv

dataVars == <<todo, flight, ctxVars, ledgerVars>>

\* A step that leaves references, contexts and counters alone keeps their
\* invariant.
LEMMA SameKeeps ==
  ASSUME DataInv, UNCHANGED dataVars PROVE DataInv'
  BY DEF DataInv, DataOK, RefInv, Shaped, Shape, OneOwner, OwnCallback, Owed, Owes,
         CalledOnce, dataVars, ctxVars, ledgerVars

\* Reference i may go to stage s without touching its context.
Fits(i, s) ==
  /\ i.st # "push"
  /\ \/ s \in {"net", "cq", "failed", "batch"}
     \/ s = "cancelled" /\ i.op \in Cancellable
     \/ s = "returning" /\ i.st = "injected" /\ i.op \in counted'
     \/ s = "call" /\ i.op \in counted' \cup Cancellable

\* Members of B go on to stage s; completions may be counted.
Shift(B, s, t) ==
  /\ flight' = Moved(B, s, t)
  /\ \A i \in B : Fits(i, s)
  /\ counted \subseteq counted' /\ counted' \subseteq Ops
  /\ complete' \in [Classes -> Nat]
  /\ UNCHANGED <<todo, ctxVars, posted, called>>

\* References that move without their context keep the invariant: posting,
\* completing, reading a batch, counting.
LEMMA ShiftKeeps ==
  ASSUME DataInv, NEW B \in SUBSET flight, NEW s \in Stages,
         NEW t \in Threads \cup {Null}, Shift(B, s, t)
  PROVE  DataInv'
<1> DEFINE J(i) == Image(B, s, t, i)
<1>1. \A i \in flight : /\ J(i) \in flight' /\ J(i).op = i.op /\ J(i).ctx = i.ctx
                         /\ J(i).st = IF i \in B THEN s ELSE i.st
  BY ImageFields DEF DataInv, DataOK, Shift, Moved
<1>2. ASSUME NEW j \in flight' PROVE \E i \in flight : j = J(i)
  BY DEF Shift, Moved
<1>3. \A i \in B : Fits(i, s)
  BY DEF Shift
<1>4. /\ todo' = todo /\ live' = live /\ pool' = pool /\ callback' = callback
      /\ posted' = posted /\ called' = called /\ counted \subseteq counted'
  BY DEF Shift, ctxVars
<1> HIDE DEF J
<1>5. DataOK'
  BY MovedTyped DEF DataInv, DataOK, Shift, ctxVars
<1>6. Shaped'
  <2>1. SUFFICES ASSUME NEW j \in flight' PROVE Shape(j)'
    BY DEF Shaped
  <2>2. PICK i \in flight : j = J(i)
    BY <1>2
  <2>3. Shape(i)
    BY DEF DataInv, RefInv, Shaped
  <2>4. j.op = i.op /\ j.ctx = i.ctx /\ j.st = IF i \in B THEN s ELSE i.st
    BY <1>1, <2>2
  <2> QED
    BY <1>3, <1>4, <2>3, <2>4 DEF Shape, Fits
<1>7. OneOwner'
  <2>1. \A i, j \in flight' : i.ctx # Null /\ i.ctx = j.ctx => i = j
    BY <1>1, <1>2 DEF DataInv, RefInv, OneOwner
  <2>2. \A i \in flight' : i.ctx # Null => i.ctx \notin pool
    BY <1>1, <1>2 DEF DataInv, RefInv, OneOwner
  <2>3. {i.ctx : i \in {j \in flight' : j.ctx # Null}} = {i.ctx : i \in {j \in flight : j.ctx # Null}}
    BY <1>1, <1>2
  <2> QED
    BY <1>4, <2>1, <2>2, <2>3 DEF DataInv, RefInv, OneOwner
<1>8. OwnCallback'
  <2>1. SUFFICES ASSUME NEW j \in flight', j.ctx # Null
                 PROVE  callback[j.ctx] = IF j.st = "push" THEN Null ELSE j.op
    BY <1>4 DEF OwnCallback
  <2>2. PICK i \in flight : j = J(i)
    BY <1>2
  <2>3. j.op = i.op /\ j.ctx = i.ctx /\ j.st = IF i \in B THEN s ELSE i.st
    BY <1>1, <2>2
  <2>4. i.st = "push" <=> j.st = "push"
    BY <1>3, <2>3 DEF Fits
  <2> QED
    BY <2>1, <2>3, <2>4 DEF DataInv, RefInv, OwnCallback
<1>9. Owed'
  <2>1. ASSUME NEW i \in flight, Owes(J(i)) PROVE Owes(i)
    BY <1>1, <1>3, <2>1 DEF Owes, Fits
  <2> QED
    BY <1>1, <1>2, <1>4, <2>1 DEF DataInv, RefInv, Owed
<1>10. CalledOnce'
  BY <1>4 DEF DataInv, RefInv, CalledOnce
<1> QED
  BY <1>5, <1>6, <1>7, <1>8, <1>9, <1>10 DEF DataInv, RefInv

\* A handler ran the callback of reference i and emptied its context.
Handled(i, t) ==
  /\ i.st = "call" /\ i.ctx # Null
  /\ called' = IF callback[i.ctx] = Null THEN called
               ELSE [called EXCEPT ![callback[i.ctx]] = @ + 1]
  /\ ClearCallback(i.ctx)
  /\ Move(i, "push", t)
  /\ UNCHANGED <<todo, live, pool, posted, complete, counted>>

\* Running a handler keeps the invariant: the callback is its own, runs for
\* the first time and is cleared (invoke_cb, recycle).
LEMMA HandledKeeps ==
  ASSUME DataInv, NEW i \in flight, NEW t \in Threads, Handled(i, t)
  PROVE  DataInv'
<1> DEFINE p == Ref(i.op, i.ctx, "push", t)
<1>1. /\ i \in Reference /\ i.op \in Ops /\ i.ctx \in Contexts /\ i.ctx # Null /\ i.st = "call"
  BY DEF DataInv, DataOK, Handled, Reference
<1>2. /\ p \in Reference /\ p.op = i.op /\ p.ctx = i.ctx /\ p.st = "push"
  BY <1>1 DEF Reference, Ref, Stages
<1>3. flight' = (flight \ {i}) \cup {p}
  BY DEF Handled, Move
<1> HIDE DEF p
<1>4. i.op # Null /\ Kind[i.op] \in WithContext /\ Owes(i)
  BY <1>1, ProgressAssumption DEF DataInv, RefInv, Shaped, Shape, Owes
<1>5. callback[i.ctx] = i.op
  BY <1>1 DEF DataInv, RefInv, OwnCallback
<1>6. called' = [called EXCEPT ![i.op] = 1]
  <2>1. called[i.op] = 0
    BY <1>4 DEF DataInv, RefInv, Owed
  <2>2. called' = [called EXCEPT ![callback[i.ctx]] = @ + 1]
    BY <1>4, <1>5 DEF Handled
  <2>3. called[i.op] + 1 = 1
    BY <2>1
  <2> QED
    BY <1>5, <2>2, <2>3
<1>7. callback' = [callback EXCEPT ![i.ctx] = Null]
  BY DEF Handled, ClearCallback
<1>8. UNCHANGED <<todo, live, pool, posted, complete, counted>>
  BY DEF Handled
<1>9. \A j \in flight : j # i => j.ctx # i.ctx
  BY <1>1 DEF DataInv, RefInv, OneOwner
<1>10. ~Owes(p)
  BY <1>2, <1>4 DEF Owes, WithContext
<1>11. \A j \in flight : Owes(j) /\ j # i => j.op # i.op
  BY <1>4 DEF DataInv, RefInv, Owed
<1>12. DataOK'
  BY <1>1, <1>2, <1>3, <1>6, <1>7, <1>8 DEF DataInv, DataOK
<1>13. Shaped'
  BY <1>1, <1>2, <1>3, <1>4, <1>8 DEF DataInv, RefInv, Shaped, Shape
<1>14. OneOwner'
  <2>1. \A j, k \in flight' : j.ctx # Null /\ j.ctx = k.ctx => j = k
    BY <1>2, <1>3, <1>9 DEF DataInv, RefInv, OneOwner
  <2>2. \A j \in flight' : j.ctx # Null => j.ctx \notin pool
    BY <1>2, <1>3 DEF DataInv, RefInv, OneOwner
  <2>3. {j.ctx : j \in {k \in flight' : k.ctx # Null}} = {j.ctx : j \in {k \in flight : k.ctx # Null}}
    BY <1>2, <1>3
  <2> QED
    BY <1>8, <2>1, <2>2, <2>3 DEF DataInv, RefInv, OneOwner
<1>15. OwnCallback'
  <2>1. SUFFICES ASSUME NEW j \in flight', j.ctx # Null
                 PROVE  callback'[j.ctx] = IF j.st = "push" THEN Null ELSE j.op
    BY DEF OwnCallback
  <2>2. CASE j = p
    BY <1>1, <1>2, <1>7, <2>2 DEF DataInv, DataOK
  <2>3. CASE j # p
    BY <1>1, <1>3, <1>7, <1>9, <2>1, <2>3 DEF DataInv, DataOK, RefInv, OwnCallback, Reference
  <2> QED BY <2>2, <2>3
<1>16. Owed'
  BY <1>1, <1>2, <1>3, <1>6, <1>8, <1>10, <1>11 DEF DataInv, DataOK, RefInv, Owed, Reference
<1>17. CalledOnce'
  <2>1. i.op \in counted \cup Cancellable
    BY <1>1 DEF DataInv, RefInv, Shaped, Shape
  <2> QED
    BY <1>1, <1>6, <1>8, <2>1 DEF DataInv, DataOK, RefInv, CalledOnce
<1> QED
  BY <1>12, <1>13, <1>14, <1>15, <1>16, <1>17 DEF DataInv, RefInv

\* Giving a context back keeps the invariant, whether the free list takes it
\* or it is deleted (recycle_to_pool).
LEMMA RecycleKeeps ==
  ASSUME DataInv, NEW t, Recycle(t), UNCHANGED <<todo, callback, ledgerVars>>
  PROVE  DataInv'
<1>1. PICK i \in flight :
        /\ i.st = "push" /\ flight' = flight \ {i}
        /\ \/ pool' = pool \cup {i.ctx} /\ live' = live
           \/ pool' = pool /\ live' = live \ {i.ctx}
  BY DEF Recycle, Held, Drop
<1>2. UNCHANGED <<todo, callback, posted, complete, counted, called>>
  BY DEF ledgerVars
<1>3. i.ctx # Null /\ i.ctx \in Contexts
  BY <1>1 DEF DataInv, DataOK, RefInv, Shaped, Shape, Reference
<1>4. \A j \in flight : j # i => j.ctx # i.ctx
  BY <1>3 DEF DataInv, RefInv, OneOwner
<1>5. DataOK'
  BY <1>1, <1>2, <1>3 DEF DataInv, DataOK
<1>6. OneOwner'
  <2>1. \A j, k \in flight' : j.ctx # Null /\ j.ctx = k.ctx => j = k
    BY <1>1 DEF DataInv, RefInv, OneOwner
  <2>2. \A j \in flight' : j.ctx # Null => j.ctx \notin pool'
    BY <1>1, <1>4 DEF DataInv, RefInv, OneOwner
  <2>3. {j.ctx : j \in {k \in flight' : k.ctx # Null}}
          = {j.ctx : j \in {k \in flight : k.ctx # Null}} \ {i.ctx}
    BY <1>1, <1>4
  <2>4. i.ctx \in {j.ctx : j \in {k \in flight : k.ctx # Null}} /\ i.ctx \notin pool
    BY <1>3 DEF DataInv, RefInv, OneOwner
  <2>5. live = pool \cup {j.ctx : j \in {k \in flight : k.ctx # Null}}
    BY DEF DataInv, RefInv, OneOwner
  <2>6. live' = pool' \cup {j.ctx : j \in {k \in flight' : k.ctx # Null}}
    BY <1>1, <2>3, <2>4, <2>5
  <2> QED
    BY <2>1, <2>2, <2>6 DEF OneOwner
<1>7. Shaped' /\ OwnCallback' /\ Owed' /\ CalledOnce'
  BY <1>1, <1>2 DEF DataInv, RefInv, Shaped, Shape, OwnCallback, Owed, Owes, CalledOnce
<1> QED
  BY <1>5, <1>6, <1>7 DEF DataInv, RefInv

\* A reference without a context ends, its callback having run if it was owed.
LEMMA EndKeeps ==
  ASSUME DataInv, NEW i \in flight, i.ctx = Null, Drop(i),
         \/ called' = called
         \/ /\ called' = [called EXCEPT ![i.op] = @ + 1]
            /\ Owes(i) /\ i.op \in counted,
         UNCHANGED <<todo, ctxVars, posted, complete, counted>>
  PROVE  DataInv'
<1>1. flight' = flight \ {i}
  BY DEF Drop
<1>2. UNCHANGED <<todo, live, pool, callback, posted, complete, counted>>
  BY DEF ctxVars
<1>3. i.op \in Ops
  BY DEF DataInv, DataOK, Reference
<1>4. \/ called' = called
      \/ /\ called' = [called EXCEPT ![i.op] = 1] /\ i.op \in counted
         /\ \A j \in flight : Owes(j) /\ j # i => j.op # i.op
  BY <1>3 DEF DataInv, DataOK, RefInv, Owed
<1>5. DataOK'
  BY <1>1, <1>2, <1>3, <1>4 DEF DataInv, DataOK
<1>6. Shaped' /\ OwnCallback'
  BY <1>1, <1>2 DEF DataInv, RefInv, Shaped, Shape, OwnCallback
<1>7. OneOwner'
  <2>1. {j.ctx : j \in {k \in flight' : k.ctx # Null}} = {j.ctx : j \in {k \in flight : k.ctx # Null}}
    BY <1>1
  <2> QED
    BY <1>1, <1>2, <2>1 DEF DataInv, RefInv, OneOwner
<1>8. Owed'
  BY <1>1, <1>2, <1>3, <1>4 DEF DataInv, DataOK, RefInv, Owed, Owes, Reference
<1>9. CalledOnce'
  BY <1>2, <1>3, <1>4 DEF DataInv, DataOK, RefInv, CalledOnce
<1> QED
  BY <1>5, <1>6, <1>7, <1>8, <1>9 DEF DataInv, RefInv

\* A poster takes a context, pooled or new, for operation o.
LEMMA BeginWithContextKeeps ==
  ASSUME DataInv, NEW t \in Posters, NEW o \in Ops, BeginWithContext(t, o)
  PROVE  DataInv'
<1>1. PICK c \in Acquirable :
        /\ pool' = pool \ {c}
        /\ live' = live \cup {c}
        /\ callback' = [callback EXCEPT ![c] = o]
        /\ flight' = flight \cup {Ref(o, c, "post", t)}
  BY DEF BeginWithContext
<1> DEFINE p == Ref(o, c, "post", t)
<1>2. /\ o \in todo /\ Kind[o] \in WithContext /\ todo' = todo \ {o}
      /\ posted' = [posted EXCEPT ![Class[o]] = @ + 1]
      /\ UNCHANGED <<complete, counted, called>>
  BY DEF BeginWithContext
<1>3. c \in Contexts /\ c # Null
  BY ProgressAssumption DEF Acquirable, DataInv, DataOK
<1>4. p \in Reference /\ p.op = o /\ p.ctx = c /\ p.st = "post"
  BY <1>3 DEF Reference, Ref, Stages, Threads
<1>5. flight' = flight \cup {p}
  BY <1>1
<1> HIDE DEF p
<1>6. \A i \in flight : i.ctx # c
  BY <1>3 DEF Acquirable, DataInv, RefInv, OneOwner
<1>7. \A i \in flight : i.op # o
  BY <1>2 DEF DataInv, RefInv, Owed
<1>8. DataOK'
  <2>1. posted' \in [Classes -> Nat]
    BY <1>2, ClassTyped DEF DataInv, DataOK
  <2> QED
    BY <1>1, <1>2, <1>3, <1>4, <1>5, <2>1 DEF DataInv, DataOK
<1>9. Shaped'
  BY <1>2, <1>3, <1>4, <1>5 DEF DataInv, RefInv, Shaped, Shape, WithContext
<1>10. OneOwner'
  <2>1. \A i, j \in flight' : i.ctx # Null /\ i.ctx = j.ctx => i = j
    BY <1>4, <1>5, <1>6 DEF DataInv, RefInv, OneOwner
  <2>2. \A i \in flight' : i.ctx # Null => i.ctx \notin pool'
    BY <1>1, <1>4, <1>5 DEF DataInv, RefInv, OneOwner
  <2>3. {i.ctx : i \in {j \in flight' : j.ctx # Null}}
          = {i.ctx : i \in {j \in flight : j.ctx # Null}} \cup {c}
    BY <1>3, <1>4, <1>5
  <2>4. live = pool \cup {i.ctx : i \in {j \in flight : j.ctx # Null}}
    BY DEF DataInv, RefInv, OneOwner
  <2>5. live' = pool' \cup {i.ctx : i \in {j \in flight' : j.ctx # Null}}
    BY <1>1, <2>3, <2>4
  <2> QED
    BY <2>1, <2>2, <2>5 DEF OneOwner
<1>11. OwnCallback'
  BY <1>1, <1>3, <1>4, <1>5, <1>6 DEF DataInv, DataOK, RefInv, OwnCallback, Reference
<1>12. Owed'
  BY <1>2, <1>4, <1>5, <1>7 DEF DataInv, RefInv, Owed, Owes
<1>13. CalledOnce'
  BY <1>2 DEF DataInv, RefInv, CalledOnce
<1> QED
  BY <1>8, <1>9, <1>10, <1>11, <1>12, <1>13 DEF DataInv, RefInv

\* Operation o begins as reference p, which has no context.
LEMMA BegunKeeps ==
  ASSUME DataInv, NEW o \in todo, NEW s \in Stages, NEW t \in Threads \cup {Null},
         flight' = flight \cup {Ref(o, Null, s, t)}, todo' = todo \ {o},
         Kind[o] \notin WithContext, s = IF Kind[o] = "data" THEN "cq" ELSE "post",
         posted' \in [Classes -> Nat],
         UNCHANGED <<ctxVars, complete, counted, called>>
  PROVE  DataInv'
<1> DEFINE p == Ref(o, Null, s, t)
<1>1. o \in Ops
  BY DEF DataInv, DataOK
<1>2. p \in Reference /\ p.op = o /\ p.ctx = Null /\ p.st = s
  BY <1>1 DEF Reference, Ref
<1>3. flight' = flight \cup {p}
  OBVIOUS
<1> HIDE DEF p
<1>4. UNCHANGED <<live, pool, callback, complete, counted, called>>
  BY DEF ctxVars
<1>5. \A i \in flight : i.op # o
  BY DEF DataInv, RefInv, Owed
<1>6. DataOK'
  BY <1>2, <1>3, <1>4 DEF DataInv, DataOK
<1>7. Shaped'
  BY <1>2, <1>3, <1>4 DEF DataInv, RefInv, Shaped, Shape
<1>8. OneOwner'
  <2>1. {i.ctx : i \in {j \in flight' : j.ctx # Null}} = {i.ctx : i \in {j \in flight : j.ctx # Null}}
    BY <1>2, <1>3
  <2> QED
    BY <1>2, <1>3, <1>4, <2>1 DEF DataInv, RefInv, OneOwner
<1>9. OwnCallback' /\ CalledOnce'
  BY <1>2, <1>3, <1>4 DEF DataInv, RefInv, OwnCallback, CalledOnce
<1>10. Owed'
  BY <1>2, <1>3, <1>4, <1>5 DEF DataInv, RefInv, Owed, Owes
<1> QED
  BY <1>6, <1>7, <1>8, <1>9, <1>10 DEF DataInv, RefInv

\* An inject leaves its poster with the duty to call back, and the provider
\* with an echo that owes nothing.
LEMMA AcceptedInjectKeeps ==
  ASSUME DataInv, NEW t \in Threads, AcceptedInject(t)
  PROVE  DataInv'
<1>1. PICK i \in flight :
        /\ i.st = "post" /\ Kind[i.op] \notin WithContext
        /\ flight' = (flight \ {i}) \cup
             {Ref(i.op, Null, "injected", t), Ref(i.op, Null, "echo", Null)}
  BY DEF AcceptedInject, Held
<1> DEFINE p == Ref(i.op, Null, "injected", t)
           e == Ref(i.op, Null, "echo", Null)
<1>2. i.op \in Ops /\ i.ctx = Null /\ Owes(i)
  BY <1>1 DEF DataInv, DataOK, Reference, RefInv, Shaped, Shape, Owes
<1>3. /\ p \in Reference /\ p.op = i.op /\ p.ctx = Null /\ p.st = "injected"
      /\ e \in Reference /\ e.op = i.op /\ e.ctx = Null /\ e.st = "echo"
  BY <1>2 DEF Reference, Ref, Stages
<1>4. flight' = (flight \ {i}) \cup {p, e}
  BY <1>1
<1> HIDE DEF p, e
<1>5. UNCHANGED <<todo, live, pool, callback, posted, complete, counted, called>>
  BY DEF AcceptedInject, ctxVars, ledgerVars
<1>6. Kind[i.op] \in {"inject", "signal"}
  BY <1>1, <1>2, ProgressAssumption DEF DataInv, RefInv, Shaped, Shape, Kinds
<1>7. ~Owes(e)
  BY <1>3, <1>6 DEF Owes, WithContext
<1>8. \A j \in flight : Owes(j) /\ j # i => j.op # i.op
  BY <1>2 DEF DataInv, RefInv, Owed
<1>9. DataOK'
  BY <1>3, <1>4, <1>5 DEF DataInv, DataOK
<1>10. Shaped'
  BY <1>1, <1>3, <1>4, <1>5, <1>6 DEF DataInv, RefInv, Shaped, Shape
<1>11. OneOwner'
  <2>1. {j.ctx : j \in {k \in flight' : k.ctx # Null}} = {j.ctx : j \in {k \in flight : k.ctx # Null}}
    BY <1>2, <1>3, <1>4
  <2> QED
    BY <1>3, <1>4, <1>5, <2>1 DEF DataInv, RefInv, OneOwner
<1>12. OwnCallback' /\ CalledOnce'
  BY <1>3, <1>4, <1>5 DEF DataInv, RefInv, OwnCallback, CalledOnce
<1>13. Owed'
  <2>1. \A j \in flight' : Owes(j) => j = p \/ (j \in flight /\ j.op # i.op)
    BY <1>4, <1>7, <1>8
  <2> QED
    BY <1>2, <1>3, <1>4, <1>5, <2>1 DEF DataInv, RefInv, Owed
<1> QED
  BY <1>9, <1>10, <1>11, <1>12, <1>13 DEF DataInv, RefInv
-----------------------------------------------------------------------------
(* Every step of the program is one of the kinds above.                    *)

\* The same as ShiftKeeps for one reference, in the form the actions have it.
LEMMA OneMoveKeeps ==
  ASSUME DataInv, NEW i \in flight, NEW s \in Stages, NEW t \in Threads \cup {Null},
         Move(i, s, t), Fits(i, s),
         counted \subseteq counted', counted' \subseteq Ops,
         complete' \in [Classes -> Nat],
         UNCHANGED <<todo, ctxVars, posted, called>>
  PROVE  DataInv'
<1>1. Shift({i}, s, t)
  BY MoveIsMoved DEF Shift
<1> QED
  BY <1>1, ShiftKeeps

\* Every step of a posting call keeps the invariant.
LEMMA PostKeeps ==
  ASSUME DataInv, NEW t \in Threads, Post(t) PROVE DataInv'
<1> USE DEF dataVars, ctxVars, ledgerVars
<1>1. CASE Accepted(t)
  <2>1. PICK i \in flight : i.st = "post" /\ Move(i, "net", Null)
    BY <1>1 DEF Accepted, Held
  <2>2. UNCHANGED <<todo, ctxVars, ledgerVars>>
    BY <1>1 DEF Accepted
  <2>3. Fits(i, "net")
    BY <2>1 DEF Fits
  <2> QED
    BY <2>1, <2>2, <2>3, OneMoveKeeps DEF DataInv, DataOK, Stages
<1>2. CASE AcceptedInject(t)
  BY <1>2, AcceptedInjectKeeps
<1>3. CASE Again(t)
  BY <1>3, SameKeeps DEF Again
<1>4. CASE DeliveryRejected(t)
  BY <1>4, SameKeeps DEF DeliveryRejected
<1>5. CASE PostFailed(t)
  BY <1>5, SameKeeps DEF PostFailed
<1>6. CASE InjectCounted(t)
  <2>1. PICK i \in flight :
          /\ i.st = "injected"
          /\ complete' = Bump(complete, Class[i.op], {"none"})
          /\ counted' = counted \cup {i.op}
          /\ Move(i, "returning", t)
    BY <1>6 DEF InjectCounted, Held
  <2>2. UNCHANGED <<todo, ctxVars, posted, called>>
    BY <1>6 DEF InjectCounted
  <2>3. i.op \in Ops
    BY DEF DataInv, DataOK, Reference
  <2>4. complete' \in [Classes -> Nat]
    BY <2>1, <2>3, ClassTyped DEF Bump, DataInv, DataOK
  <2>5. Fits(i, "returning")
    BY <2>1 DEF Fits
  <2>6. counted \subseteq counted' /\ counted' \subseteq Ops
    BY <2>1, <2>3 DEF DataInv, DataOK
  <2> QED
    BY <2>1, <2>2, <2>4, <2>5, <2>6, OneMoveKeeps DEF Stages
<1>7. CASE InjectCalled(t)
  <2>1. PICK i \in flight :
          /\ i.st = "returning"
          /\ called' = [called EXCEPT ![i.op] = @ + 1]
          /\ Drop(i)
    BY <1>7 DEF InjectCalled, Held
  <2>2. UNCHANGED <<todo, ctxVars, posted, complete, counted>>
    BY <1>7 DEF InjectCalled
  <2>3. i.ctx = Null /\ Owes(i) /\ i.op \in counted
    BY <2>1 DEF DataInv, RefInv, Shaped, Shape, Owes, WithContext
  <2> QED
    BY <2>1, <2>2, <2>3, EndKeeps
<1> QED
  BY <1>1, <1>2, <1>3, <1>4, <1>5, <1>6, <1>7 DEF Post

\* Counting an entry of a batch, and moving it to its handler.
LEMMA CountKeeps ==
  ASSUME DataInv, NEW t \in Threads, Count(t) PROVE DataInv'
<1>1. PICK i \in flight : i.st = "batch" /\ Move(i, "call", t) /\ CountCompletion(i)
  BY DEF Count, Held
<1>2. UNCHANGED <<todo, ctxVars, posted, called>>
  BY DEF Count
<1>3. i.op \in Ops
  BY DEF DataInv, DataOK, Reference
<1>4. counted' = counted \cup {i.op}
  BY <1>1 DEF CountCompletion
<1>5. complete' \in [Classes -> Nat]
  <2> DEFINE k == IF Kind[i.op] = "signal" THEN "write" ELSE Class[i.op]
  <2>1. k \in Classes
    BY <1>3, ClassTyped DEF Classes
  <2>2. complete' = [complete EXCEPT ![k] = @ + 1]
    BY <1>1 DEF CountCompletion
  <2> HIDE DEF k
  <2> QED
    BY <2>1, <2>2 DEF DataInv, DataOK
<1>6. Fits(i, "call")
  BY <1>1, <1>4 DEF Fits
<1>7. counted \subseteq counted' /\ counted' \subseteq Ops
  BY <1>3, <1>4 DEF DataInv, DataOK
<1> QED
  BY <1>1, <1>2, <1>5, <1>6, <1>7, OneMoveKeeps DEF Stages

\* Every step of poll_for_work_completions keeps the invariant.
LEMMA PollKeeps ==
  ASSUME DataInv, NEW t \in Threads, Poll(t) PROVE DataInv'
<1>1. CASE TakeLock(t) \/ SendsBusy(t) \/ ReadError(t) \/ BatchDone(t)
  BY <1>1, SameKeeps
  DEF TakeLock, SendsBusy, ReadError, BatchDone, dataVars, ctxVars, ledgerVars
<1>2. CASE Read(t)
  <2>1. PICK B \in Batches(queue[t]) :
          flight' = (flight \ B) \cup {Ref(i.op, i.ctx, "batch", t) : i \in B}
    BY <1>2 DEF Read
  <2>2. B \in SUBSET flight /\ \A i \in B : i.st = "cq"
    BY DEF Batches, Entries
  <2>3. UNCHANGED <<todo, ctxVars, ledgerVars>>
    BY <1>2 DEF Read
  <2>4. flight' = Moved(B, "batch", t)
    BY <2>1, <2>2, BatchIsMoved
  <2>5. \A i \in B : Fits(i, "batch")
    BY <2>2 DEF Fits
  <2>6. Shift(B, "batch", t)
    BY <2>3, <2>4, <2>5 DEF Shift, ledgerVars, DataInv, DataOK
  <2> QED
    BY <2>2, <2>6, ShiftKeeps DEF Stages
<1>3. CASE ReadCancelled(t)
  <2>1. PICK i \in flight : i.st = "cancelled" /\ Move(i, "call", t)
    BY <1>3 DEF ReadCancelled, Entries
  <2>2. UNCHANGED <<todo, ctxVars, ledgerVars>>
    BY <1>3 DEF ReadCancelled
  <2>3. Fits(i, "call")
    BY <2>1 DEF Fits, DataInv, RefInv, Shaped, Shape
  <2> QED
    BY <2>1, <2>2, <2>3, OneMoveKeeps DEF DataInv, DataOK, Stages, ledgerVars
<1>4. CASE CancelCalled(t) \/ Called(t)
  <2>1. PICK i \in flight : Handled(i, t)
    BY <1>4 DEF CancelCalled, Called, Invoke, Held, Handled
  <2> QED
    BY <2>1, HandledKeeps
<1>5. CASE CancelRecycled(t) \/ Recycled(t)
  BY <1>5, RecycleKeeps DEF CancelRecycled, Recycled
<1>6. CASE Count(t)
  BY <1>6, CountKeeps
<1>7. CASE CalledWithoutContext(t)
  <2>1. PICK i \in flight :
          /\ i.st = "call" /\ i.ctx = Null /\ Drop(i)
          /\ called' = IF Kind[i.op] = "data" THEN [called EXCEPT ![i.op] = @ + 1] ELSE called
    BY <1>7 DEF CalledWithoutContext, Held
  <2>2. UNCHANGED <<todo, ctxVars, posted, complete, counted>>
    BY <1>7 DEF CalledWithoutContext
  <2>3. Kind[i.op] = "data" => Owes(i) /\ i.op \in counted
    BY <2>1, ProgressAssumption DEF Owes, DataInv, RefInv, Shaped, Shape
  <2> QED
    BY <2>1, <2>2, <2>3, EndKeeps
<1> QED
  BY <1>1, <1>2, <1>3, <1>4, <1>5, <1>6, <1>7 DEF Poll

\* What the provider does to the references it holds.
LEMMA NetKeeps ==
  ASSUME DataInv, Net PROVE DataInv'
<1>1. ASSUME NEW i \in flight, NetCompletes(i) PROVE DataInv'
  <2>1. PICK s \in {"cq", "cancelled", "failed"} :
          Move(i, s, Null) /\ (s = "cancelled" => i.op \in Cancellable)
    BY <1>1 DEF NetCompletes
  <2>2. i.st = "net" /\ UNCHANGED <<todo, ctxVars, ledgerVars>>
    BY <1>1 DEF NetCompletes
  <2>3. Fits(i, s)
    BY <2>1, <2>2 DEF Fits
  <2> QED
    BY <2>1, <2>2, <2>3, OneMoveKeeps DEF DataInv, DataOK, Stages, ledgerVars
<1>2. ASSUME NEW i \in flight, NetEchoes(i) PROVE DataInv'
  <2>1. i.st = "echo" /\ UNCHANGED <<todo, ctxVars, ledgerVars>>
    BY <1>2 DEF NetEchoes
  <2>2. CASE Move(i, "cq", Null)
    <3>1. Fits(i, "cq")
      BY <2>1 DEF Fits
    <3> QED
      BY <2>1, <2>2, <3>1, OneMoveKeeps DEF DataInv, DataOK, Stages, ledgerVars
  <2>3. CASE Drop(i)
    <3>1. i.ctx = Null
      BY <2>1 DEF DataInv, RefInv, Shaped, Shape, WithContext
    <3> QED
      BY <2>1, <2>3, <3>1, EndKeeps DEF ledgerVars
  <2> QED
    BY <1>2, <2>2, <2>3 DEF NetEchoes
<1> QED
  BY <1>1, <1>2 DEF Net

\* Beginning an operation keeps the invariant, with a context or without.
LEMMA BeginKeeps ==
  ASSUME DataInv, NEW t \in Posters, NEW o \in Ops, Begin(t, o) PROVE DataInv'
<1>1. CASE BeginWithContext(t, o)
  BY <1>1, BeginWithContextKeeps
<1>2. CASE BeginInject(t, o)
  <2>1. /\ o \in todo /\ Kind[o] \in {"inject", "signal"}
        /\ flight' = flight \cup {Ref(o, Null, "post", t)}
        /\ todo' = todo \ {o}
        /\ UNCHANGED <<ctxVars, complete, counted, called>>
    BY <1>2 DEF BeginInject
  <2>2. posted' \in [Classes -> Nat]
    BY <1>2, ClassTyped DEF BeginInject, Bump, DataInv, DataOK
  <2> QED
    BY <2>1, <2>2, BegunKeeps DEF WithContext, Stages, Threads
<1> QED
  BY <1>1, <1>2 DEF Begin

\* The arrival of a peer's writedata event keeps the invariant.
LEMMA RemoteWriteKeeps ==
  ASSUME DataInv, NEW o \in Ops, RemoteWrite(o) PROVE DataInv'
<1>1. posted' \in [Classes -> Nat]
  BY DEF RemoteWrite, ledgerVars, DataInv, DataOK
<1> QED
  BY <1>1, BegunKeeps DEF RemoteWrite, ledgerVars, WithContext, Stages
-----------------------------------------------------------------------------
(* Theorems.                                                               *)

\* The invariant holds when the controller has just been made.
LEMMA IInvInit == Init => IInv
<1> SUFFICES ASSUME Init PROVE IInv
  OBVIOUS
<1>1. ThreadsOK
  BY DEF Init, ThreadsOK, Threads, Steps, PollSteps, Queues
<1>2. DataOK
  BY DEF Init, DataOK
<1>3. RefInv
  BY DEF Init, RefInv, Shaped, OneOwner, OwnCallback, Owed, CalledOnce
<1> QED
  BY <1>1, <1>2, <1>3, TypeParts DEF IInv

\* Every step of every thread, of the provider and of a peer keeps the
\* invariant.
LEMMA IInvStep == IInv /\ [Next]_vars => IInv'
<1> SUFFICES ASSUME IInv, [Next]_vars PROVE IInv'
  OBVIOUS
<1>1. TypeOK /\ DataInv
  BY TypeParts DEF IInv, DataInv
<1>2. ThreadsOK'
  BY <1>1, ThreadsTyped
<1>3. DataInv'
  <2>1. CASE UNCHANGED vars
    BY <1>1, <2>1, SameKeeps DEF vars, dataVars
  <2>2. ASSUME NEW t \in Threads, Post(t) \/ Poll(t) \/ Loop(t) PROVE DataInv'
    <3>1. CASE Loop(t)
      BY <1>1, <3>1, SameKeeps
      DEF Loop, PollerPolls, PollerExits, dataVars, ctxVars, ledgerVars
    <3> QED
      BY <1>1, <2>2, <3>1, PostKeeps, PollKeeps
  <2>3. ASSUME NEW t \in Posters, Wait(t) PROVE DataInv'
    BY <1>1, <2>3, SameKeeps
    DEF Wait, MsgsAwaited, WritesAwaited, ReadsAwaited, dataVars, ctxVars, ledgerVars
  <2>4. ASSUME NEW t \in Posters, NEW o \in Ops, Begin(t, o) PROVE DataInv'
    BY <1>1, <2>4, BeginKeeps
  <2>5. CASE Net
    BY <1>1, <2>5, NetKeeps
  <2>6. ASSUME NEW o \in Ops, RemoteWrite(o) PROVE DataInv'
    BY <1>1, <2>6, RemoteWriteKeeps
  <2>7. CASE StopPollers \/ Finished
    BY <1>1, <2>7, SameKeeps DEF StopPollers, Finished, vars, dataVars, ctxVars, ledgerVars
  <2> QED
    BY <2>1, <2>2, <2>3, <2>4, <2>5, <2>6, <2>7 DEF Next
<1>4. TypeOK'
  BY <1>2, <1>3 DEF DataInv, TypeOK, ThreadsOK, DataOK
<1> QED
  BY <1>3, <1>4 DEF IInv, DataInv

\* The inductive invariant holds in every reachable state, for any number of
\* threads, operations and contexts.
THEOREM Invariance == Spec => []IInv
  BY IInvInit, IInvStep, PTL DEF Spec

\* Every variable keeps its type: no null context enters the pool, no counter
\* of an unknown class is bumped.
THEOREM TypeCorrect == Spec => []TypeOK
<1>1. IInv => TypeOK
  BY DEF IInv
<1> QED
  BY <1>1, Invariance, PTL

\* No operation context is ever shared, leaked or pooled while in use, for
\* any number of posting and polling threads (acquire / recycle).
THEOREM ContextsHaveOneOwner == Spec => []OneOwner
<1>1. IInv => OneOwner
  BY DEF IInv, RefInv
<1> QED
  BY <1>1, Invariance, PTL

\* A completion handler never runs the callback of another operation than
\* the one its context was acquired for.
THEOREM CallbacksAreOwn == Spec => []OwnCallback
<1>1. IInv => OwnCallback
  BY DEF IInv, RefInv
<1> QED
  BY <1>1, Invariance, PTL

\* No callback runs twice, and none before its completion was counted or its
\* receive cancelled.
THEOREM CallbacksRunOnce == Spec => []CalledOnce
<1>1. IInv => CalledOnce
  BY DEF IInv, RefInv
<1> QED
  BY <1>1, Invariance, PTL
-----------------------------------------------------------------------------
(* Locks.                                                                  *)

\* No lock is held at the start.
LEMMA LockInvInit == Init => LockInv
  BY ProgressAssumption DEF Init, LockInv, Threads, Inside, Queues

\* A step of thread t outside every locked region.
LEMMA OutsideKeeps ==
  ASSUME ThreadsOK, LockInv, NEW t \in Threads, NEW x,
         pc[t] \notin Inside, pc[t] # "dead", x \notin Inside,
         Goto(t, x), lock' = lock,
         queue' = queue \/ \E q \in Queues : queue' = [queue EXCEPT ![t] = q]
  PROVE  LockInv'
<1>1. SUFFICES ASSUME NEW u \in Threads
      PROVE /\ pc'[u] = "read" => queue'[u] \notin Bypass
            /\ pc'[u] \in {"cancel", "unlock"} => queue'[u] = "rx"
            /\ pc'[u] \in Inside /\ queue'[u] \notin Bypass => lock[queue'[u]] = u
            /\ \A q \in Queues : lock[q] = u =>
                 q \notin Bypass /\ (pc'[u] = "dead" \/ (pc'[u] \in Inside /\ queue'[u] = q))
  BY DEF LockInv
<1>2. CASE u = t
  BY <1>2 DEF Goto, ThreadsOK, LockInv, Inside
<1>3. CASE u # t
  BY <1>3 DEF Goto, ThreadsOK, LockInv
<1> QED BY <1>2, <1>3

\* A thread that dies in handle_error never lets go of what it holds.
LEMMA DeadKeeps ==
  ASSUME LockInv, Die, lock' = lock PROVE LockInv'
  BY DEF Die, LockInv, Inside

\* A step of thread t that leaves the locked region of its queue.
LEMMA LeaveKeeps ==
  ASSUME ThreadsOK, LockInv, NEW t \in Threads, NEW x, x \notin Inside,
         Goto(t, x), Unlock(queue[t]), queue' = queue,
         pc[t] \in Inside \/ queue[t] \in Bypass, pc[t] # "dead"
  PROVE  LockInv'
<1>1. SUFFICES ASSUME NEW u \in Threads
      PROVE /\ pc'[u] = "read" => queue[u] \notin Bypass
            /\ pc'[u] \in {"cancel", "unlock"} => queue[u] = "rx"
            /\ pc'[u] \in Inside /\ queue[u] \notin Bypass => lock'[queue[u]] = u
            /\ \A q \in Queues : lock'[q] = u =>
                 q \notin Bypass /\ (pc'[u] = "dead" \/ (pc'[u] \in Inside /\ queue[u] = q))
  BY DEF LockInv
<1>2. u # Null /\ queue[t] \in Queues /\ queue[u] \in Queues
  BY ProgressAssumption DEF Threads, ThreadsOK
<1>3. \A q \in Queues : lock'[q] = IF q = queue[t] /\ q \notin Bypass THEN Null ELSE lock[q]
  BY <1>2 DEF Unlock, ThreadsOK
<1>4. CASE u = t
  <2>1. pc'[t] = x
    BY DEF Goto, ThreadsOK
  <2>2. \A q \in Queues : lock'[q] # t
    <3>1. \A q \in Queues : lock[q] = t => queue[t] = q /\ q \notin Bypass
      BY DEF LockInv
    <3> QED
      BY <1>2, <1>3, <1>4, <3>1
  <2> QED BY <1>4, <2>1, <2>2 DEF Inside
<1>5. CASE u # t
  <2>1. pc'[u] = pc[u]
    BY <1>5 DEF Goto, ThreadsOK
  <2>2. lock[queue[t]] = u => queue[t] \in Bypass
    BY <1>2, <1>5 DEF LockInv
  <2> QED BY <1>2, <1>3, <1>5, <2>1, <2>2 DEF LockInv
<1> QED BY <1>4, <1>5

\* A posting call takes no lock of its own.
LEMMA LockPost ==
  ASSUME ThreadsOK, LockInv, NEW t \in Threads, Post(t) PROVE LockInv'
<1> USE DEF Inside, Queues
<1>1. CASE Accepted(t)
  BY <1>1, OutsideKeeps DEF Accepted, pollVars
<1>2. CASE AcceptedInject(t)
  BY <1>2, OutsideKeeps DEF AcceptedInject, pollVars
<1>3. CASE Again(t)
  BY <1>3, OutsideKeeps DEF Again, StartPoll
<1>4. CASE DeliveryRejected(t)
  BY <1>4 DEF DeliveryRejected, pollVars, LockInv
<1>5. CASE PostFailed(t)
  BY <1>5, DeadKeeps DEF PostFailed
<1>6. CASE InjectCounted(t)
  BY <1>6, OutsideKeeps DEF InjectCounted, pollVars
<1>7. CASE InjectCalled(t)
  BY <1>7, OutsideKeeps DEF InjectCalled, pollVars
<1> QED
  BY <1>1, <1>2, <1>3, <1>4, <1>5, <1>6, <1>7 DEF Post

\* Inside poll_for_work_completions a lock is taken and let go as its block
\* says (try_tx_lock, get_rx_lock).
LEMMA LockPoll ==
  ASSUME ThreadsOK, LockInv, NEW t \in Threads, Poll(t) PROVE LockInv'
<1>1. CASE TakeLock(t)
  <2>1. SUFFICES ASSUME NEW u \in Threads
        PROVE /\ pc'[u] = "read" => queue[u] \notin Bypass
              /\ pc'[u] \in {"cancel", "unlock"} => queue[u] = "rx"
              /\ pc'[u] \in Inside /\ queue[u] \notin Bypass => lock'[queue[u]] = u
              /\ \A q \in Queues : lock'[q] = u =>
                   q \notin Bypass /\ (pc'[u] = "dead" \/ (pc'[u] \in Inside /\ queue[u] = q))
    BY <1>1 DEF LockInv, TakeLock, pollVars
  <2>2. /\ u # Null /\ queue[t] \in Queues /\ queue[u] \in Queues
        /\ lock[queue[t]] = Null /\ queue[t] \notin Bypass /\ pc[t] = "lock"
    BY <1>1, ProgressAssumption DEF Threads, ThreadsOK, TakeLock
  <2>3. \A q \in Queues : lock'[q] = IF q = queue[t] THEN t ELSE lock[q]
    BY <1>1 DEF TakeLock, ThreadsOK
  <2>4. CASE u = t
    <3>1. pc'[t] = "read"
      BY <1>1 DEF TakeLock, Goto, ThreadsOK
    <3>2. \A q \in Queues : lock[q] # t
      BY <2>2 DEF LockInv, Inside
    <3> QED BY <2>2, <2>3, <2>4, <3>1, <3>2 DEF Inside
  <2>5. CASE u # t
    <3>1. pc'[u] = pc[u]
      BY <1>1, <2>5 DEF TakeLock, Goto, ThreadsOK
    <3> QED BY <2>2, <2>3, <2>5, <3>1 DEF LockInv
  <2> QED BY <2>4, <2>5
<1>2. CASE SendsBusy(t)
  BY <1>2, OutsideKeeps DEF SendsBusy, PollReceives, Inside, Queues
<1>3. CASE Read(t)
  <2>1. pc[t] \in Inside \/ queue[t] \in Bypass
    BY <1>3 DEF Read, MayRead, Inside
  <2> QED
    BY <1>3, <2>1, LeaveKeeps DEF Read, MayRead, pollVars, Inside
<1>4. CASE ReadError(t)
  BY <1>4, DeadKeeps DEF ReadError
<1>5. CASE ReadCancelled(t)
  BY <1>5 DEF ReadCancelled, MayRead, Goto, ThreadsOK, LockInv, Inside, pollVars
<1>6. CASE CancelCalled(t)
  BY <1>6 DEF CancelCalled, Goto, ThreadsOK, LockInv, Inside, pollVars
<1>7. CASE CancelRecycled(t)
  <2>1. queue[t] = "rx" /\ pc[t] = "unlock"
    BY <1>7 DEF CancelRecycled, LockInv
  <2> QED
    BY <1>7, <2>1, LeaveKeeps DEF CancelRecycled, pollVars, Inside
<1>8. CASE Count(t)
  BY <1>8, OutsideKeeps DEF Count, pollVars, Inside
<1>9. CASE Called(t)
  BY <1>9, OutsideKeeps DEF Called, pollVars, Inside
<1>10. CASE CalledWithoutContext(t)
  BY <1>10, OutsideKeeps DEF CalledWithoutContext, pollVars, Inside
<1>11. CASE Recycled(t)
  BY <1>11, OutsideKeeps DEF Recycled, Inside
<1>12. CASE BatchDone(t)
  <2>1. pc[t] = "work" /\ lock' = lock
    BY <1>12 DEF BatchDone
  <2>2. CASE PollReceives(t, Full(t))
    BY <2>1, <2>2, OutsideKeeps DEF PollReceives, Inside, Queues
  <2>3. CASE StartPoll(t)
    BY <2>1, <2>3, OutsideKeeps DEF StartPoll, Inside, Queues
  <2>4. CASE EndPoll(t)
    BY <2>1, <2>4, OutsideKeeps DEF EndPoll, Inside, Queues
  <2> QED
    BY <1>12, <2>2, <2>3, <2>4 DEF BatchDone
<1> QED
  BY <1>1, <1>2, <1>3, <1>4, <1>5, <1>6, <1>7, <1>8, <1>9, <1>10, <1>11, <1>12 DEF Poll

\* Every step keeps the invariant of the locks.
LEMMA LockStep ==
  ASSUME TypeOK, LockInv, [Next]_vars PROVE LockInv'
<1>1. ThreadsOK
  BY TypeParts
<1>2. CASE UNCHANGED vars
  BY <1>2 DEF vars, pollVars, LockInv
<1>3. ASSUME NEW t \in Threads, Loop(t) PROVE LockInv'
  BY <1>1, <1>3, OutsideKeeps
  DEF Loop, PollerPolls, PollerExits, StartPoll, pollVars, Inside, Queues
<1>4. ASSUME NEW t \in Posters, Wait(t) PROVE LockInv'
  BY <1>1, <1>4, OutsideKeeps
  DEF Wait, MsgsAwaited, WritesAwaited, ReadsAwaited, pollVars, Inside, Threads
<1>5. ASSUME NEW t \in Posters, NEW o \in Ops, Begin(t, o) PROVE LockInv'
  BY <1>1, <1>5, OutsideKeeps
  DEF Begin, BeginWithContext, BeginInject, pollVars, Inside, Threads
<1>6. CASE Net \/ StopPollers \/ Finished
  BY <1>6 DEF Net, NetCompletes, NetEchoes, StopPollers, Finished, vars, pollVars, LockInv
<1>7. ASSUME NEW o \in Ops, RemoteWrite(o) PROVE LockInv'
  BY <1>7 DEF RemoteWrite, pollVars, LockInv
<1> QED
  BY <1>1, <1>2, <1>3, <1>4, <1>5, <1>6, <1>7, LockPost, LockPoll DEF Next

\* The pollers exclude each other on every locked queue, and no completion
\* handler of a batch runs with a queue's lock held.
THEOREM LocksAreKept == Spec => []LockDiscipline
<1>1. TypeOK /\ LockInv => LockDiscipline
  BY DEF LockInv, LockDiscipline, Inside
<1>2. TypeOK /\ LockInv /\ [Next]_vars => LockInv'
  BY LockStep
<1> QED
  BY <1>1, <1>2, LockInvInit, TypeCorrect, PTL DEF Spec
=============================================================================
