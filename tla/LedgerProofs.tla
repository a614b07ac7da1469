---------------------------- MODULE LedgerProofs ----------------------------
(***************************************************************************)
(* Theorems about the ledger of Progress: the threads keep what OpLedger   *)
(* promises, the public counters are exact, and nothing is left when the   *)
(* poll threads have been joined.  They are about runs without a report of *)
(* an injected write: it is counted in writes_complete_ though the         *)
(* inject_write posted nothing.                                            *)
(***************************************************************************)
EXTENDS ProgressProofs, FiniteSetTheorems

\* No injected write is reported: the provider reports none, or there is none.
NoReports == InjectReports => \A o \in Ops : Kind[o] # "signal"

\* Stages of a completion that was not counted yet.
Early == {"post", "injected", "net", "cq", "cancelled", "failed", "batch"}

\* Stages of a completion the provider reports or has to report.
Reported == {"net", "cq", "cancelled", "failed", "batch", "call", "push"}

\* Only operations with a context and remote-write events are reported.
Quiet == \A i \in flight : i.st \in Reported => Kind[i.op] \in WithContext \cup {"data"}

\* An operation is not counted before its reference is.
NotYet ==
  /\ \A i \in flight : i.st \in Early => i.op \notin counted
  /\ \A o \in todo : o \notin counted

\* No operation is forgotten: until its callback has run, somebody owes it.
Someone == \A o \in Ops \ todo : called[o] = 1 \/ \E i \in flight : Owes(i) /\ i.op = o

LInv == Quiet /\ NotYet /\ Someone

\* The set counted by posted - complete is finite, whatever Ops is.
CountInv ==
  \A k \in {"send", "recv", "read", "write"} :
    /\ IsFiniteSet(Pending(k))
    /\ posted[k] = complete[k] + Cardinality(Pending(k))

\* What a thread holds says where it is, unless it died.
PlaceOf(i) ==
  /\ i.st = "post" => i.by \in Posters /\ pc[i.by] \in {"post", "dead"} \cup PollSteps
  /\ i.st = "injected" => i.by \in Threads /\ pc[i.by] \in {"inject", "dead"}
  /\ i.st = "returning" => i.by \in Threads /\ pc[i.by] \in {"inject_call", "dead"}
  /\ i.st = "batch" => i.by \in Threads /\ pc[i.by] \in {"work", "call", "push", "dead"}
  /\ i.st = "call" => i.by \in Threads /\ pc[i.by] \in {"cancel", "call", "dead"}
  /\ i.st = "push" => i.by \in Threads /\ pc[i.by] \in {"unlock", "push", "dead"}

\* A thread has one operation in hand, beside the entries of its batch.
InHand == {"post", "injected", "returning", "call", "push"}

PlaceInv ==
  /\ \A i \in flight : PlaceOf(i)
  /\ \A i, j \in flight : i.st \in InHand /\ i.st = j.st /\ i.by = j.by => i = j

\* A poster that waits has begun what its program holds, and what it waited
\* for was counted.
Past == {"wait_writes", "wait_reads", "done"}

Settled ==
  \A t \in Posters : pc[t] \in Past =>
    \A o \in Ops : PostedBy[o] = t /\ Kind[o] # "data" =>
      /\ o \notin todo
      /\ Class[o] \in {"send", "recv"} => o \in counted
      /\ pc[t] = "done" /\ Class[o] = "read" => o \in counted

WritesReached ==
  \A t \in Posters : pc[t] \in {"wait_reads", "done"} => complete["write"] >= target[t]

\* The last poster to read its write target reads that of all writes: targets
\* may be too low for a poster alone, never for all of them together.
LastTarget ==
  Posters # {} /\ (\A t \in Posters : pc[t] \in Past) =>
    \E t \in Posters : target[t] = posted["write"]

\* The guard stops its threads when every poster is done.
StopInv ==
  stop => \/ \A t \in Posters : pc[t] = "done"
          \/ Pollers # {} /\ \A t \in Threads : pc[t] = "dead"

WaitInv == Settled /\ WritesReached /\ LastTarget /\ StopInv

-----------------------------------------------------------------------------
(* References and the ledger, one kind of step at a time.                  *)

\* Members of B go on to stage s, from one stage that is not counted to
\* another, or one of them because it has just been counted.
Advance(B, s) ==
  /\ s \notin {"push", "post", "injected", "echo"}
  /\ \A i \in B : /\ i.st \notin {"push", "echo"}
                  /\ s \in Reported => Kind[i.op] \in WithContext \cup {"data"}
                  /\ s = "returning" => i.st = "injected"
  /\ \/ s \in Early /\ (\A i \in B : i.st \in Early) /\ counted' = counted
     \/ s = "call" /\ counted' = counted
     \/ s \notin Early /\ \E i \in B : B = {i} /\ i.st \in Early /\ counted' = counted \cup {i.op}

\* References that go on keep the ledger's invariant: posting, completing,
\* reading a batch, counting.
LEMMA AdvanceKeeps ==
  ASSUME DataInv, LInv, NEW B \in SUBSET flight, NEW s \in Stages,
         NEW t \in Threads \cup {Null}, flight' = Moved(B, s, t), Advance(B, s),
         todo' = todo, called' = called
  PROVE  LInv'
<1> DEFINE J(i) == Image(B, s, t, i)
<1>1. \A i \in flight : /\ J(i) \in flight' /\ J(i).op = i.op
                        /\ J(i).st = IF i \in B THEN s ELSE i.st
  BY ImageFields DEF DataInv, DataOK, Moved
<1>2. \A j \in flight' : \E i \in flight : j = J(i)
  BY DEF Moved
<1> HIDE DEF J
<1>3. Quiet'
  <2>1. SUFFICES ASSUME NEW j \in flight', j.st \in Reported
                 PROVE  Kind[j.op] \in WithContext \cup {"data"}
    BY DEF Quiet
  <2>2. PICK i \in flight : j = J(i)
    BY <1>2
  <2> QED
    BY <1>1, <2>1, <2>2 DEF LInv, Quiet, Advance
<1>4. \A i \in flight : i.st \in Early => Owes(i)
  BY DEF LInv, Quiet, Early, Reported, Owes
<1>5. NotYet'
  <2>1. \A o \in todo : o \notin counted'
    BY DEF LInv, NotYet, Advance, DataInv, RefInv, Owed
  <2>2. ASSUME NEW j \in flight', j.st \in Early PROVE j.op \notin counted'
    <3>1. PICK i \in flight : j = J(i)
      BY <1>2
    <3>2. j.op = i.op /\ j.st = IF i \in B THEN s ELSE i.st
      BY <1>1, <3>1
    <3>3. i.st \in Early
      BY <2>2, <3>2 DEF Advance, Early
    <3>4. i.op \notin counted
      BY <3>3 DEF LInv, NotYet
    <3>5. CASE counted' = counted
      BY <3>2, <3>4, <3>5
    <3>6. CASE s \notin Early /\ \E k \in B : B = {k} /\ k.st \in Early /\ counted' = counted \cup {k.op}
      <4>1. PICK k \in B : B = {k} /\ k.st \in Early /\ counted' = counted \cup {k.op}
        BY <3>6
      <4>2. i # k
        BY <2>2, <3>2, <3>6
      <4>3. i.op # k.op
        BY <1>4, <3>3, <4>1, <4>2 DEF DataInv, RefInv, Owed
      <4> QED
        BY <3>2, <3>4, <4>1, <4>3
    <3> QED
      BY <3>5, <3>6 DEF Advance
  <2> QED
    BY <2>1, <2>2 DEF NotYet
<1>6. Someone'
  <2>1. ASSUME NEW i \in flight, Owes(i) PROVE Owes(J(i))
    <3>1. J(i).op = i.op /\ J(i).st = IF i \in B THEN s ELSE i.st
      BY <1>1
    <3>2. Kind[i.op] \notin WithContext \cup {"data"} => i.st \in {"post", "injected", "returning"}
      BY <2>1 DEF Owes
    <3>3. CASE i \notin B
      BY <2>1, <3>1, <3>3 DEF Owes
    <3>4. CASE i \in B
      BY <3>1, <3>2, <3>4 DEF Advance, Owes, Stages, Reported
    <3> QED
      BY <3>3, <3>4
  <2> QED
    BY <1>1, <2>1 DEF LInv, Someone
<1> QED
  BY <1>3, <1>5, <1>6 DEF LInv

\* The same for one reference, in the form the actions have it.
LEMMA OneAdvanceKeeps ==
  ASSUME DataInv, LInv, NEW i \in flight, NEW s \in Stages,
         NEW t \in Threads \cup {Null}, Move(i, s, t), Advance({i}, s),
         todo' = todo, called' = called
  PROVE  LInv'
<1>1. flight' = Moved({i}, s, t)
  BY MoveIsMoved
<1> QED
  BY <1>1, AdvanceKeeps

\* Reference i ends, having no callback to run or having run it.
LEMMA EndLedger ==
  ASSUME DataInv, LInv, NEW i \in flight, Drop(i), Owes(i) => called'[i.op] = 1,
         \A o \in Ops : called[o] = 1 => called'[o] = 1,
         todo' = todo, counted' = counted
  PROVE  LInv'
<1>1. flight' = flight \ {i} /\ i.op \in Ops
  BY DEF Drop, DataInv, DataOK, Reference
<1>2. Quiet' /\ NotYet'
  BY <1>1 DEF LInv, Quiet, NotYet
<1>3. Someone'
  <2>1. SUFFICES ASSUME NEW o \in Ops \ todo, called'[o] # 1
                 PROVE  \E j \in flight' : Owes(j) /\ j.op = o
    BY DEF Someone
  <2>2. PICK j \in flight : Owes(j) /\ j.op = o
    BY <2>1 DEF LInv, Someone
  <2> QED
    BY <1>1, <2>1, <2>2
<1> QED
  BY <1>2, <1>3 DEF LInv

\* The handler of reference i runs the callback of its operation, once.
LEMMA HandledCalls ==
  ASSUME DataInv, NEW i \in flight, NEW t \in Threads, Handled(i, t)
  PROVE  /\ i.op \in Ops /\ called[i.op] = 0
         /\ called' = [called EXCEPT ![i.op] = 1]
<1>1. i.op \in Ops /\ i.ctx # Null /\ i.st = "call"
  BY DEF Handled, DataInv, DataOK, Reference
<1>2. Owes(i) /\ callback[i.ctx] = i.op /\ i.op # Null
  BY <1>1, ProgressAssumption DEF DataInv, RefInv, Shaped, Shape, OwnCallback, Owes
<1>3. called[i.op] = 0
  BY <1>2 DEF DataInv, RefInv, Owed
<1>4. called' = [called EXCEPT ![i.op] = called[i.op] + 1]
  BY <1>2 DEF Handled
<1> QED
  BY <1>1, <1>3, <1>4

\* Running a handler keeps the ledger's invariant.
LEMMA HandledLedger ==
  ASSUME DataInv, LInv, NEW i \in flight, NEW t \in Threads, Handled(i, t)
  PROVE  LInv'
<1> DEFINE p == Ref(i.op, i.ctx, "push", t)
<1>1. p.op = i.op /\ p.st = "push"
  BY DEF Ref
<1>2. flight' = (flight \ {i}) \cup {p}
  BY DEF Handled, Move
<1> HIDE DEF p
<1>3. todo' = todo /\ counted' = counted /\ i.st = "call"
  BY DEF Handled
<1>4. i.op \in Ops /\ called' = [called EXCEPT ![i.op] = 1] /\ called \in [Ops -> Nat]
  BY HandledCalls DEF DataInv, DataOK
<1>5. Quiet'
  BY <1>1, <1>2, <1>3 DEF LInv, Quiet, Reported
<1>6. NotYet'
  BY <1>1, <1>2, <1>3 DEF LInv, NotYet, Early
<1>7. Someone'
  <2>1. SUFFICES ASSUME NEW o \in Ops \ todo, called'[o] # 1
                 PROVE  \E j \in flight' : Owes(j) /\ j.op = o
    BY <1>3 DEF Someone
  <2>2. o # i.op /\ called[o] # 1
    BY <1>4, <2>1
  <2>3. PICK j \in flight : Owes(j) /\ j.op = o
    BY <2>2 DEF LInv, Someone
  <2> QED
    BY <1>2, <2>2, <2>3
<1> QED
  BY <1>5, <1>6, <1>7 DEF LInv

\* Operation o begins as reference p: with a context, as an inject, or as a
\* remote-write event.
LEMMA BegunLedger ==
  ASSUME DataInv, LInv, NEW o \in todo, NEW p,
         p.op = o, p.st = IF Kind[o] = "data" THEN "cq" ELSE "post",
         flight' = flight \cup {p}, todo' = todo \ {o},
         counted' = counted, called' = called
  PROVE  LInv'
<1>1. Owes(p)
  BY DEF Owes
<1>2. Quiet'
  BY DEF LInv, Quiet, Reported
<1>3. NotYet'
  BY DEF LInv, NotYet
<1>4. Someone'
  BY <1>1 DEF LInv, Someone
<1> QED
  BY <1>2, <1>3, <1>4 DEF LInv

\* The poster of an accepted inject owes its callback in place of the call.
LEMMA AcceptedInjectLedger ==
  ASSUME DataInv, LInv, NEW t \in Threads, AcceptedInject(t)
  PROVE  LInv'
<1>1. PICK i \in flight :
        /\ i.st = "post"
        /\ flight' = (flight \ {i}) \cup
             {Ref(i.op, Null, "injected", t), Ref(i.op, Null, "echo", Null)}
  BY DEF AcceptedInject, Held
<1> DEFINE p == Ref(i.op, Null, "injected", t)
           e == Ref(i.op, Null, "echo", Null)
<1>2. p.op = i.op /\ p.st = "injected" /\ e.op = i.op /\ e.st = "echo"
  BY DEF Ref
<1>3. flight' = (flight \ {i}) \cup {p, e}
  BY <1>1
<1> HIDE DEF p, e
<1>4. todo' = todo /\ counted' = counted /\ called' = called
  BY DEF AcceptedInject, ledgerVars
<1>5. Quiet'
  BY <1>2, <1>3 DEF LInv, Quiet, Reported
<1>6. NotYet'
  BY <1>1, <1>2, <1>3, <1>4 DEF LInv, NotYet, Early
<1>7. Someone'
  <2>1. SUFFICES ASSUME NEW o \in Ops \ todo, called[o] # 1
                 PROVE  \E j \in flight' : Owes(j) /\ j.op = o
    BY <1>4 DEF Someone
  <2>2. PICK j \in flight : Owes(j) /\ j.op = o
    BY <2>1 DEF LInv, Someone
  <2>3. Owes(p)
    BY <1>2 DEF Owes
  <2> QED
    BY <1>2, <1>3, <2>2, <2>3
<1> QED
  BY <1>5, <1>6, <1>7 DEF LInv

\* A step that leaves references and counters alone keeps it.
LEMMA SameLedger ==
  ASSUME LInv, UNCHANGED dataVars PROVE LInv'
  BY DEF LInv, Quiet, NotYet, Someone, Owes, dataVars, ledgerVars
-----------------------------------------------------------------------------
(* Every step of the program is a step of the ledger, or none.             *)

\* The counters an operation of each kind belongs to.
LEMMA ClassOf ==
  ASSUME NEW o \in Ops
  PROVE  /\ Kind[o] \in WithContext => Class[o] \in {"send", "recv", "read", "write"}
         /\ Kind[o] = "inject" => Class[o] = "send"
         /\ Kind[o] = "signal" => Class[o] = "none"
         /\ Kind[o] = "data" => Class[o] = "data"
<1>1. Class[o] = CASE Kind[o] \in {"send", "inject"}    -> "send"
                   [] Kind[o] \in {"write", "delivery"} -> "write"
                   [] Kind[o] = "signal"                -> "none"
                   [] OTHER                             -> Kind[o]
  BY DEF Class
<1>2. Kind[o] \in Kinds
  BY ProgressAssumption
<1> QED
  BY <1>1, <1>2 DEF Kinds, WithContext

LedgerStep == Ledger!Next \/ UNCHANGED Ledger!vars

\* Beginning o is Begin(o) of the ledger.
LEMMA BeginIsBegin ==
  ASSUME DataInv, NEW o \in todo, todo' = todo \ {o},
         posted' = Bump(posted, Class[o], {"data", "none"}),
         UNCHANGED <<complete, counted, called>>
  PROVE  LedgerStep
<1>1. o \in Ops /\ todo \subseteq Ops
  BY DEF DataInv, DataOK
<1>2. Ledger!Begin(o)
  BY <1>1 DEF Ledger!Begin, Ledger!Bump, Bump
<1> QED
  BY <1>1, <1>2 DEF LedgerStep, Ledger!Next

\* Counting the operation of a reference that is not counted yet is Count of
\* the ledger.
LEMMA CountIsCount ==
  ASSUME DataInv, LInv, NEW i \in flight, i.st \in {"injected", "batch"},
         counted' = counted \cup {i.op},
         complete' = Bump(complete, Class[i.op], {"none"}),
         UNCHANGED <<todo, posted, called>>
  PROVE  LedgerStep
<1>1. i.op \in Ops /\ i.op \notin todo
  BY DEF DataInv, DataOK, RefInv, Owed, Reference
<1>2. Owes(i) /\ i.op \notin counted
  BY DEF LInv, Quiet, NotYet, Early, Reported, Owes
<1>3. called[i.op] = 0
  BY <1>2 DEF DataInv, RefInv, Owed
<1>4. Ledger!Count(i.op)
  BY <1>1, <1>2, <1>3 DEF Ledger!Count, Ledger!Bump, Bump
<1> QED
  BY <1>1, <1>4 DEF LedgerStep, Ledger!Next

\* Running a callback once, counted or cancelled, is Call or Cancel.
LEMMA CallIsCall ==
  ASSUME DataInv, NEW o \in Ops \ todo, o \in counted \cup Cancellable,
         called[o] = 0, called' = [called EXCEPT ![o] = 1],
         UNCHANGED <<todo, posted, complete, counted>>
  PROVE  LedgerStep
<1>1. CASE o \in counted
  <2>1. Ledger!Call(o)
    BY <1>1 DEF Ledger!Call
  <2> QED
    BY <2>1 DEF LedgerStep, Ledger!Next
<1>2. CASE o \notin counted
  <2>1. Ledger!Cancel(o)
    BY <1>2 DEF Ledger!Cancel
  <2> QED
    BY <2>1 DEF LedgerStep, Ledger!Next
<1> QED
  BY <1>1, <1>2

\* A step that counts nothing and calls nothing back is none of the ledger's.
LEMMA NoLedgerStep ==
  ASSUME UNCHANGED <<todo, ledgerVars>> PROVE LedgerStep
  BY DEF LedgerStep, Ledger!vars, ledgerVars

\* The posting calls and their FI_EAGAIN loop.
LEMMA PostLedger ==
  ASSUME DataInv, LInv, NEW t \in Threads, Post(t) PROVE LInv' /\ LedgerStep
<1> USE DEF dataVars, ctxVars, ledgerVars
<1>1. CASE Accepted(t)
  <2>1. PICK i \in flight : i.st = "post" /\ Kind[i.op] \in WithContext /\ Move(i, "net", Null)
    BY <1>1 DEF Accepted, Held
  <2>2. UNCHANGED <<todo, ctxVars, ledgerVars>>
    BY <1>1 DEF Accepted
  <2>3. Advance({i}, "net")
    BY <2>1, <2>2 DEF Advance, Early
  <2> QED
    BY <2>1, <2>2, <2>3, OneAdvanceKeeps, NoLedgerStep DEF Stages
<1>2. CASE AcceptedInject(t)
  BY <1>2, AcceptedInjectLedger, NoLedgerStep DEF AcceptedInject
<1>3. CASE Again(t) \/ DeliveryRejected(t) \/ PostFailed(t)
  BY <1>3, SameLedger, NoLedgerStep DEF Again, DeliveryRejected, PostFailed
<1>4. CASE InjectCounted(t)
  <2>1. PICK i \in flight :
          /\ i.st = "injected"
          /\ complete' = Bump(complete, Class[i.op], {"none"})
          /\ counted' = counted \cup {i.op}
          /\ Move(i, "returning", t)
    BY <1>4 DEF InjectCounted, Held
  <2>2. UNCHANGED <<todo, ctxVars, posted, called>>
    BY <1>4 DEF InjectCounted
  <2>3. Advance({i}, "returning")
    BY <2>1 DEF Advance, Early, Reported
  <2> QED
    BY <2>1, <2>2, <2>3, OneAdvanceKeeps, CountIsCount DEF Stages
<1>5. CASE InjectCalled(t)
  <2>1. PICK i \in flight :
          /\ i.st = "returning"
          /\ called' = [called EXCEPT ![i.op] = @ + 1]
          /\ Drop(i)
    BY <1>5 DEF InjectCalled, Held
  <2>2. UNCHANGED <<todo, ctxVars, posted, complete, counted>>
    BY <1>5 DEF InjectCalled
  <2>3. Owes(i) /\ i.op \in counted /\ i.op \in Ops \ todo
    BY <2>1 DEF DataInv, DataOK, Reference, RefInv, Shaped, Shape, Owes, Owed
  <2>4. called[i.op] = 0 /\ called \in [Ops -> Nat]
    BY <2>3 DEF DataInv, DataOK, RefInv, Owed
  <2>5. called' = [called EXCEPT ![i.op] = 1]
    BY <2>1, <2>4
  <2> QED
    BY <2>1, <2>2, <2>3, <2>4, <2>5, EndLedger, CallIsCall
<1> QED
  BY <1>1, <1>2, <1>3, <1>4, <1>5 DEF Post

\* Reading, counting and handling the completions of a poll.
LEMMA PollLedger ==
  ASSUME DataInv, LInv, NEW t \in Threads, Poll(t) PROVE LInv' /\ LedgerStep
<1>1. CASE TakeLock(t) \/ SendsBusy(t) \/ ReadError(t) \/ BatchDone(t)
  BY <1>1, SameLedger, NoLedgerStep
  DEF TakeLock, SendsBusy, ReadError, BatchDone, dataVars, ctxVars, ledgerVars
<1>2. CASE Read(t)
  <2>1. PICK B \in Batches(queue[t]) :
          flight' = (flight \ B) \cup {Ref(i.op, i.ctx, "batch", t) : i \in B}
    BY <1>2 DEF Read
  <2>2. B \in SUBSET flight /\ \A i \in B : i.st = "cq"
    BY DEF Batches, Entries
  <2>3. UNCHANGED <<todo, ctxVars, ledgerVars>>
    BY <1>2 DEF Read
  <2>4. flight' = Moved(B, "batch", t)
    BY <2>1, <2>2, BatchIsMoved
  <2>5. Advance(B, "batch")
    BY <2>2, <2>3 DEF Advance, Early, Reported, LInv, Quiet, ledgerVars
  <2>6. todo' = todo /\ called' = called
    BY <2>3 DEF ledgerVars
  <2>7. LInv'
    BY <2>2, <2>4, <2>5, <2>6, AdvanceKeeps DEF Stages
  <2> QED
    BY <2>3, <2>7, NoLedgerStep
<1>3. CASE ReadCancelled(t)
  <2>1. PICK i \in flight : i.st = "cancelled" /\ Move(i, "call", t)
    BY <1>3 DEF ReadCancelled, Entries
  <2>2. UNCHANGED <<todo, ctxVars, ledgerVars>>
    BY <1>3 DEF ReadCancelled
  <2>3. Advance({i}, "call")
    BY <2>1, <2>2 DEF Advance, Early, Reported, LInv, Quiet, ledgerVars
  <2> QED
    BY <2>1, <2>2, <2>3, OneAdvanceKeeps, NoLedgerStep DEF Stages, ledgerVars
<1>4. CASE CancelCalled(t) \/ Called(t)
  <2>1. PICK i \in flight : Handled(i, t)
    BY <1>4 DEF CancelCalled, Called, Invoke, Held, Handled
  <2>2. i.op \in Ops /\ called[i.op] = 0 /\ called' = [called EXCEPT ![i.op] = 1]
    BY <2>1, HandledCalls
  <2>3. i.op \notin todo /\ i.op \in counted \cup Cancellable
    BY <2>1 DEF Handled, DataInv, RefInv, Owed, Shaped, Shape
  <2>4. LedgerStep
    BY <2>1, <2>2, <2>3, CallIsCall DEF Handled
  <2> QED
    BY <2>1, <2>4, HandledLedger
<1>5. CASE CancelRecycled(t) \/ Recycled(t)
  <2>1. PICK i \in flight : i.st = "push" /\ Drop(i)
    BY <1>5 DEF CancelRecycled, Recycled, Recycle, Held
  <2>2. UNCHANGED <<todo, ledgerVars>>
    BY <1>5 DEF CancelRecycled, Recycled
  <2>3. i.ctx # Null /\ Kind[i.op] \in WithContext
    BY <2>1 DEF DataInv, RefInv, Shaped, Shape
  <2>4. ~Owes(i)
    BY <2>1, <2>3 DEF Owes, WithContext
  <2> QED
    BY <2>1, <2>2, <2>4, EndLedger, NoLedgerStep DEF ledgerVars
<1>6. CASE Count(t)
  <2>1. PICK i \in flight : i.st = "batch" /\ Move(i, "call", t) /\ CountCompletion(i)
    BY <1>6 DEF Count, Held
  <2>2. UNCHANGED <<todo, ctxVars, posted, called>>
    BY <1>6 DEF Count
  <2>3. Kind[i.op] \in WithContext \cup {"data"} /\ i.op \in Ops
    BY <2>1 DEF LInv, Quiet, Reported, DataInv, DataOK, Reference
  <2>4. Kind[i.op] # "signal" /\ Class[i.op] # "none"
    BY <2>3, ClassOf DEF WithContext
  <2>5. /\ counted' = counted \cup {i.op}
        /\ complete' = Bump(complete, Class[i.op], {"none"})
    BY <2>1, <2>4 DEF CountCompletion, Bump
  <2>6. Advance({i}, "call")
    BY <2>1, <2>3, <2>5 DEF Advance, Early
  <2> QED
    BY <2>1, <2>2, <2>5, <2>6, OneAdvanceKeeps, CountIsCount DEF Stages
<1>7. CASE CalledWithoutContext(t)
  <2>1. PICK i \in flight :
          /\ i.st = "call" /\ i.ctx = Null /\ Drop(i)
          /\ called' = IF Kind[i.op] = "data" THEN [called EXCEPT ![i.op] = @ + 1] ELSE called
    BY <1>7 DEF CalledWithoutContext, Held
  <2>2. UNCHANGED <<todo, ctxVars, posted, complete, counted>>
    BY <1>7 DEF CalledWithoutContext
  <2>3. Kind[i.op] = "data"
    BY <2>1 DEF LInv, Quiet, Reported, DataInv, RefInv, Shaped, Shape
  <2>4. Owes(i) /\ i.op \in counted /\ i.op \in Ops \ todo
    BY <2>1, <2>3, ProgressAssumption
    DEF DataInv, DataOK, Reference, RefInv, Shaped, Shape, Owes, Owed
  <2>5. called[i.op] = 0 /\ called \in [Ops -> Nat]
    BY <2>4 DEF DataInv, DataOK, RefInv, Owed
  <2>6. called' = [called EXCEPT ![i.op] = 1]
    BY <2>1, <2>3, <2>5
  <2> QED
    BY <2>1, <2>2, <2>4, <2>5, <2>6, EndLedger, CallIsCall
<1> QED
  BY <1>1, <1>2, <1>3, <1>4, <1>5, <1>6, <1>7 DEF Poll

\* The provider, when no injected write is reported.
LEMMA NetLedger ==
  ASSUME NoReports, DataInv, LInv, Net PROVE LInv' /\ LedgerStep
<1>1. ASSUME NEW i \in flight, NetCompletes(i) PROVE LInv' /\ LedgerStep
  <2>1. PICK s \in {"cq", "cancelled", "failed"} : Move(i, s, Null)
    BY <1>1 DEF NetCompletes
  <2>2. i.st = "net" /\ UNCHANGED <<todo, ctxVars, ledgerVars>>
    BY <1>1 DEF NetCompletes
  <2>3. Advance({i}, s)
    BY <2>1, <2>2 DEF Advance, Early, Reported, LInv, Quiet, ledgerVars
  <2> QED
    BY <2>1, <2>2, <2>3, OneAdvanceKeeps, NoLedgerStep DEF Stages, ledgerVars
<1>2. ASSUME NEW i \in flight, NetEchoes(i) PROVE LInv' /\ LedgerStep
  <2>1. i.st = "echo" /\ Drop(i) /\ UNCHANGED <<todo, ctxVars, ledgerVars>>
    BY <1>2 DEF NetEchoes, NoReports, DataInv, DataOK, Reference
  <2>2. ~Owes(i)
    BY <2>1 DEF Owes, DataInv, RefInv, Shaped, Shape, WithContext
  <2> QED
    BY <2>1, <2>2, EndLedger, NoLedgerStep DEF ledgerVars
<1> QED
  BY <1>1, <1>2 DEF Net

\* Operations begun by a poster's program.
LEMMA BeginLedger ==
  ASSUME DataInv, LInv, NEW t \in Posters, NEW o \in Ops, Begin(t, o)
  PROVE  LInv' /\ LedgerStep
<1>1. CASE BeginWithContext(t, o)
  <2>1. PICK c \in Acquirable : flight' = flight \cup {Ref(o, c, "post", t)}
    BY <1>1 DEF BeginWithContext
  <2>2. /\ o \in todo /\ Kind[o] \in WithContext /\ todo' = todo \ {o}
        /\ posted' = [posted EXCEPT ![Class[o]] = @ + 1]
        /\ UNCHANGED <<complete, counted, called>>
    BY <1>1 DEF BeginWithContext
  <2>3. posted' = Bump(posted, Class[o], {"data", "none"})
    BY <2>2, ClassOf DEF Bump
  <2>4. /\ Ref(o, c, "post", t).op = o
        /\ Ref(o, c, "post", t).st = IF Kind[o] = "data" THEN "cq" ELSE "post"
    BY <2>2 DEF Ref, WithContext
  <2> QED
    BY <2>1, <2>2, <2>3, <2>4, BeginIsBegin, BegunLedger
<1>2. CASE BeginInject(t, o)
  <2>1. /\ o \in todo /\ Kind[o] \in {"inject", "signal"} /\ todo' = todo \ {o}
        /\ flight' = flight \cup {Ref(o, Null, "post", t)}
        /\ posted' = Bump(posted, Class[o], {"none"})
        /\ UNCHANGED <<complete, counted, called>>
    BY <1>2 DEF BeginInject
  <2>2. posted' = Bump(posted, Class[o], {"data", "none"})
    BY <2>1, ClassOf DEF Bump
  <2>3. /\ Ref(o, Null, "post", t).op = o
        /\ Ref(o, Null, "post", t).st = IF Kind[o] = "data" THEN "cq" ELSE "post"
    BY <2>1 DEF Ref
  <2> QED
    BY <2>1, <2>2, <2>3, BeginIsBegin, BegunLedger
<1> QED
  BY <1>1, <1>2 DEF Begin

\* A peer's write that carries data begins an operation nobody posted.
LEMMA RemoteWriteLedger ==
  ASSUME DataInv, LInv, NEW o \in Ops, RemoteWrite(o)
  PROVE  LInv' /\ LedgerStep
<1>1. /\ o \in todo /\ Kind[o] = "data" /\ todo' = todo \ {o}
      /\ flight' = flight \cup {Ref(o, Null, "cq", Null)}
      /\ UNCHANGED <<posted, complete, counted, called>>
  BY DEF RemoteWrite, ledgerVars
<1>2. posted' = Bump(posted, Class[o], {"data", "none"})
  BY <1>1, ClassOf DEF Bump
<1>3. /\ Ref(o, Null, "cq", Null).op = o
      /\ Ref(o, Null, "cq", Null).st = IF Kind[o] = "data" THEN "cq" ELSE "post"
  BY <1>1 DEF Ref
<1> QED
  BY <1>1, <1>2, <1>3, BeginIsBegin, BegunLedger

\* Every step of the program keeps the ledger and its invariant.
LEMMA LInvStep ==
  ASSUME NoReports, DataInv, LInv, [Next]_vars PROVE LInv' /\ LedgerStep
<1>1. CASE UNCHANGED vars
  BY <1>1, SameLedger, NoLedgerStep DEF vars, dataVars
<1>2. ASSUME NEW t \in Threads, Post(t) \/ Poll(t) \/ Loop(t) PROVE LInv' /\ LedgerStep
  <2>1. CASE Loop(t)
    BY <2>1, SameLedger, NoLedgerStep
    DEF Loop, PollerPolls, PollerExits, dataVars, ctxVars, ledgerVars
  <2> QED
    BY <1>2, <2>1, PostLedger, PollLedger
<1>3. ASSUME NEW t \in Posters, Wait(t) PROVE LInv' /\ LedgerStep
  BY <1>3, SameLedger, NoLedgerStep
  DEF Wait, MsgsAwaited, WritesAwaited, ReadsAwaited, dataVars, ctxVars, ledgerVars
<1>4. ASSUME NEW t \in Posters, NEW o \in Ops, Begin(t, o) PROVE LInv' /\ LedgerStep
  BY <1>4, BeginLedger
<1>5. CASE Net
  BY <1>5, NetLedger
<1>6. ASSUME NEW o \in Ops, RemoteWrite(o) PROVE LInv' /\ LedgerStep
  BY <1>6, RemoteWriteLedger
<1>7. CASE StopPollers \/ Finished
  BY <1>7, SameLedger, NoLedgerStep DEF StopPollers, Finished, vars, dataVars, ctxVars, ledgerVars
<1> QED
  BY <1>1, <1>2, <1>3, <1>4, <1>5, <1>6, <1>7 DEF Next
-----------------------------------------------------------------------------
(* The public counters.                                                    *)

\* A step of the ledger keeps posted - complete the number of operations still
\* to be counted.
LEMMA CountInvStep ==
  ASSUME DataInv, DataInv', LInv, CountInv, LedgerStep PROVE CountInv'
<1> SUFFICES ASSUME NEW k \in {"send", "recv", "read", "write"}
             PROVE  /\ IsFiniteSet(Pending(k)')
                    /\ posted'[k] = complete'[k] + Cardinality(Pending(k)')
  BY DEF CountInv
<1>1. /\ IsFiniteSet(Pending(k)) /\ Cardinality(Pending(k)) \in Nat
      /\ posted[k] = complete[k] + Cardinality(Pending(k))
  BY FS_CardinalityType DEF CountInv
<1>2. /\ k \in Classes /\ posted \in [Classes -> Nat] /\ complete \in [Classes -> Nat]
      /\ posted[k] \in Nat /\ complete[k] \in Nat
      /\ todo \subseteq Ops /\ todo' \subseteq Ops
  BY DEF Classes, DataInv, DataOK
<1>3. ASSUME Pending(k)' = Pending(k), posted'[k] = posted[k], complete'[k] = complete[k]
      PROVE  IsFiniteSet(Pending(k)') /\ posted'[k] = complete'[k] + Cardinality(Pending(k)')
  BY <1>1, <1>3
<1>4. ASSUME NEW o \in Ops, Ledger!Begin(o)
      PROVE  IsFiniteSet(Pending(k)') /\ posted'[k] = complete'[k] + Cardinality(Pending(k)')
  <2>1. /\ o \in todo /\ todo' = todo \ {o}
        /\ posted' = Bump(posted, Class[o], {"data", "none"})
        /\ counted' = counted /\ complete' = complete
    BY <1>2, <1>4 DEF Ledger!Begin, Ledger!Bump, Bump
  <2>2. o \notin counted
    BY <2>1 DEF LInv, NotYet
  <2>3. CASE Class[o] = k
    <3>1. Pending(k)' = Pending(k) \cup {o} /\ o \notin Pending(k)
      BY <2>1, <2>2, <2>3 DEF Pending
    <3>2. posted'[k] = posted[k] + 1
      BY <1>2, <2>1, <2>3 DEF Bump
    <3>3. IsFiniteSet(Pending(k)') /\ Cardinality(Pending(k)') = Cardinality(Pending(k)) + 1
      BY <1>1, <3>1, FS_AddElement
    <3> QED
      BY <1>1, <1>2, <2>1, <3>2, <3>3
  <2>4. CASE Class[o] # k
    <3>1. Pending(k)' = Pending(k)
      BY <2>1, <2>4 DEF Pending
    <3>2. posted'[k] = posted[k]
      BY <1>2, <2>1, <2>4 DEF Bump
    <3> QED
      BY <1>3, <2>1, <3>1, <3>2
  <2> QED
    BY <2>3, <2>4
<1>5. ASSUME NEW o \in Ops, Ledger!Count(o)
      PROVE  IsFiniteSet(Pending(k)') /\ posted'[k] = complete'[k] + Cardinality(Pending(k)')
  <2>1. /\ o \in Ops \ todo /\ o \notin counted /\ Ops \ todo' = Ops \ todo
        /\ counted' = counted \cup {o} /\ posted' = posted
        /\ complete' = Bump(complete, Class[o], {"none"})
    BY <1>5 DEF Ledger!Count, Ledger!Bump, Bump
  <2>2. CASE Class[o] = k
    <3>1. Pending(k)' = Pending(k) \ {o} /\ o \in Pending(k)
      BY <2>1, <2>2 DEF Pending
    <3>2. complete'[k] = complete[k] + 1
      BY <1>2, <2>1, <2>2 DEF Bump
    <3>3. IsFiniteSet(Pending(k)') /\ Cardinality(Pending(k)') = Cardinality(Pending(k)) - 1
      BY <1>1, <3>1, FS_RemoveElement
    <3> QED
      BY <1>1, <1>2, <2>1, <3>2, <3>3
  <2>3. CASE Class[o] # k
    <3>1. Pending(k)' = Pending(k)
      BY <2>1, <2>3 DEF Pending
    <3>2. complete'[k] = complete[k]
      BY <1>2, <2>1, <2>3 DEF Bump
    <3> QED
      BY <1>3, <2>1, <3>1, <3>2
  <2> QED
    BY <2>2, <2>3
<1>6. ASSUME UNCHANGED <<Ops \ todo, counted, posted, complete>>
      PROVE  IsFiniteSet(Pending(k)') /\ posted'[k] = complete'[k] + Cardinality(Pending(k)')
  <2>1. Pending(k)' = Pending(k)
    BY <1>6 DEF Pending
  <2> QED
    BY <1>3, <1>6, <2>1
<1> QED
  BY <1>4, <1>5, <1>6
  DEF LedgerStep, Ledger!Next, Ledger!Call, Ledger!Cancel, Ledger!vars

\* The ledger of a controller that has just been made is empty.
LEMMA LedgerInit == Init => LInv /\ CountInv /\ Ledger!Init
<1> SUFFICES ASSUME Init PROVE LInv /\ CountInv /\ Ledger!Init
  OBVIOUS
<1>1. LInv
  BY DEF Init, LInv, Quiet, NotYet, Someone
<1>2. CountInv
  <2>1. \A k : Pending(k) = {}
    BY DEF Init, Pending
  <2>2. \A k \in {"send", "recv", "read", "write"} : posted[k] = 0 /\ complete[k] = 0
    BY DEF Init, Classes
  <2> QED
    BY <2>1, <2>2, FS_EmptySet DEF CountInv
<1>3. Ledger!Init
  BY DEF Init, Ledger!Init
<1> QED
  BY <1>1, <1>2, <1>3

LedgerInv == IInv /\ LInv /\ CountInv

\* Every step keeps the invariant of the references and that of the ledger.
LEMMA LedgerInvStep ==
  ASSUME NoReports, LedgerInv, [Next]_vars PROVE LedgerInv' /\ LedgerStep
<1>1. IInv' /\ DataInv /\ DataInv'
  BY IInvStep, TypeParts DEF LedgerInv, IInv, DataInv, TypeOK, DataOK
<1>2. LInv' /\ LedgerStep
  BY <1>1, LInvStep DEF LedgerInv
<1>3. CountInv'
  BY <1>1, <1>2, CountInvStep DEF LedgerInv
<1> QED
  BY <1>1, <1>2, <1>3 DEF LedgerInv

\* The invariant holds in every reachable state.
LEMMA LedgerInvariance == ASSUME NoReports PROVE Spec => []LedgerInv
<1>1. Init => LedgerInv
  BY IInvInit, LedgerInit DEF LedgerInv
<1>2. LedgerInv /\ [Next]_vars => LedgerInv'
  BY LedgerInvStep
<1> QED
  BY <1>1, <1>2, PTL DEF Spec

\* posted - complete is always the number of operations still to be counted,
\* for any threads, operations and queue depths: no interleaving of posting
\* calls, polls and cancellations loses or repeats an increment of the public
\* counters.
THEOREM CountersAreExact == ASSUME NoReports PROVE Spec => []Balanced
<1>1. LedgerInv => Balanced
  BY DEF LedgerInv, CountInv, Balanced
<1> QED
  BY <1>1, LedgerInvariance, PTL

\* The threads of a rank implement the ledger: every step begins, counts,
\* calls back or cancels one operation in the order OpLedger allows, or does
\* nothing the ledger tells apart.
THEOREM LedgerIsKept == ASSUME NoReports PROVE Spec => KeepsLedger
<1>1. Init => Ledger!Init
  BY LedgerInit
<1>2. LedgerInv /\ [Next]_vars => [Ledger!Next]_(Ledger!vars)
  BY LedgerInvStep DEF LedgerStep
<1> QED
  BY <1>1, <1>2, LedgerInvariance, PTL DEF Spec, KeepsLedger, Ledger!Spec
-----------------------------------------------------------------------------
(* Where the holder of a reference is.                                     *)

\* Thread t goes on; A are the references it made or moved.
Goes(t, A) ==
  /\ \A u \in Threads : u # t => pc'[u] = pc[u]
  /\ flight' \subseteq flight \cup A
  /\ \A i \in flight' : i \notin A /\ i.by = t => PlaceOf(i)'
  /\ \A i \in A : PlaceOf(i)'
  /\ \A i \in A, j \in flight' : i.st \in InHand /\ i.st = j.st /\ i.by = j.by => i = j

\* References stay with threads that are where they must be.
LEMMA PlaceGo ==
  ASSUME PlaceInv, NEW t, NEW A, Goes(t, A) PROVE PlaceInv'
<1> USE DEF Goes
<1>1. ASSUME NEW i \in flight' PROVE PlaceOf(i)'
  <2>1. CASE i \in A \/ i.by = t
    BY <2>1
  <2>2. CASE i \notin A /\ i.by # t
    <3>1. PlaceOf(i)
      BY <2>2 DEF PlaceInv
    <3> QED
      BY <2>2, <3>1 DEF PlaceOf, Threads
  <2> QED
    BY <2>1, <2>2
<1> QED
  BY <1>1 DEF PlaceInv

\* A step of thread t that moves no reference.
LEMMA PlaceSame ==
  ASSUME PlaceInv, NEW t, flight' = flight,
         \A u \in Threads : u # t => pc'[u] = pc[u],
         \A i \in flight : i.by = t /\ PlaceOf(i) => PlaceOf(i)'
  PROVE  PlaceInv'
<1>1. Goes(t, {})
  BY DEF PlaceInv, Goes
<1> QED
  BY <1>1, PlaceGo

\* A death stops every thread where it is.
LEMMA PlaceDie ==
  ASSUME PlaceInv, Die, flight' = flight PROVE PlaceInv'
<1>1. \A u \in Threads : pc'[u] = "dead"
  BY DEF Die
<1>2. \A i \in flight : PlaceOf(i) => PlaceOf(i)'
  BY <1>1 DEF PlaceOf, Threads
<1> QED
  BY <1>2 DEF PlaceInv

\* Posting keeps a thread and what it posts together.
LEMMA PlacePost ==
  ASSUME TypeOK, PlaceInv, NEW t \in Threads, Post(t) PROVE PlaceInv'
<1>0. pc \in [Threads -> Steps]
  BY DEF TypeOK
<1>1. CASE Accepted(t)
  <2>1. PICK i \in flight : i.by = t /\ i.st = "post" /\ Move(i, "net", Null)
    BY <1>1 DEF Accepted, Held
  <2>2. pc[t] = "post" /\ pc' = [pc EXCEPT ![t] = "ready"]
    BY <1>1 DEF Accepted, Goto
  <2> DEFINE p == Ref(i.op, i.ctx, "net", Null)
  <2>3. flight' = (flight \ {i}) \cup {p} /\ p.st = "net"
    BY <2>1 DEF Move, Ref
  <2> HIDE DEF p
  <2>4. \A j \in flight' : j \notin {p} /\ j.by = t => PlaceOf(j)'
    BY <1>0, <2>1, <2>2, <2>3 DEF PlaceInv, PlaceOf, InHand
  <2>5. PlaceOf(p)' /\ p.st \notin InHand
    BY <2>3 DEF PlaceOf, InHand
  <2>8. Goes(t, {p})
    BY <1>0, <2>2, <2>3, <2>4, <2>5 DEF Goes
  <2> QED
    BY <2>8, PlaceGo
<1>2. CASE AcceptedInject(t)
  <2>1. PICK i \in flight :
          /\ i.by = t /\ i.st = "post"
          /\ flight' = (flight \ {i}) \cup
               {Ref(i.op, Null, "injected", t), Ref(i.op, Null, "echo", Null)}
    BY <1>2 DEF AcceptedInject, Held
  <2>2. pc[t] = "post" /\ pc' = [pc EXCEPT ![t] = "inject"]
    BY <1>2 DEF AcceptedInject, Goto
  <2> DEFINE p == Ref(i.op, Null, "injected", t)
             e == Ref(i.op, Null, "echo", Null)
  <2>3. /\ flight' = (flight \ {i}) \cup {p, e}
        /\ p.st = "injected" /\ p.by = t /\ e.st = "echo"
    BY <2>1 DEF Ref
  <2> HIDE DEF p, e
  <2>4. \A j \in flight' : j \notin {p, e} /\ j.by = t => PlaceOf(j)'
    BY <1>0, <2>1, <2>2, <2>3 DEF PlaceInv, PlaceOf, InHand
  <2>5. PlaceOf(p)' /\ PlaceOf(e)'
    BY <1>0, <2>2, <2>3 DEF PlaceOf
  <2>6. \A j \in flight' : p.st = j.st /\ p.by = j.by => p = j
    BY <1>0, <2>2, <2>3 DEF PlaceInv, PlaceOf
  <2>7. e.st \notin InHand
    BY <2>3 DEF InHand
  <2>8. Goes(t, {p, e})
    BY <1>0, <2>2, <2>3, <2>4, <2>5, <2>6, <2>7 DEF Goes
  <2> QED
    BY <2>8, PlaceGo
<1>3. CASE Again(t)
  <2>1. pc[t] = "post" /\ pc' = [pc EXCEPT ![t] = "lock"] /\ flight' = flight
    BY <1>3 DEF Again, StartPoll, Goto
  <2>2. \A i \in flight : i.by = t /\ PlaceOf(i) => PlaceOf(i)'
    BY <1>0, <2>1 DEF PlaceOf, PollSteps
  <2> QED
    BY <1>0, <2>1, <2>2, PlaceSame
<1>4. CASE DeliveryRejected(t)
  BY <1>4 DEF DeliveryRejected, PlaceInv, PlaceOf
<1>5. CASE PostFailed(t)
  BY <1>5, PlaceDie DEF PostFailed
<1>6. CASE InjectCounted(t)
  <2>1. PICK i \in flight : i.by = t /\ i.st = "injected" /\ Move(i, "returning", t)
    BY <1>6 DEF InjectCounted, Held
  <2>2. pc[t] = "inject" /\ pc' = [pc EXCEPT ![t] = "inject_call"]
    BY <1>6 DEF InjectCounted, Goto
  <2> DEFINE p == Ref(i.op, i.ctx, "returning", t)
  <2>3. flight' = (flight \ {i}) \cup {p} /\ p.st = "returning" /\ p.by = t
    BY <2>1 DEF Move, Ref
  <2> HIDE DEF p
  <2>4. \A j \in flight' : j \notin {p} /\ j.by = t => PlaceOf(j)'
    BY <1>0, <2>1, <2>2, <2>3 DEF PlaceInv, PlaceOf, InHand, PollSteps
  <2>5. PlaceOf(p)'
    BY <1>0, <2>2, <2>3 DEF PlaceOf
  <2>6. \A j \in flight' : p.st = j.st /\ p.by = j.by => p = j
    BY <1>0, <2>2, <2>3 DEF PlaceInv, PlaceOf
  <2>8. Goes(t, {p})
    BY <1>0, <2>2, <2>3, <2>4, <2>5, <2>6 DEF Goes
  <2> QED
    BY <2>8, PlaceGo
<1>7. CASE InjectCalled(t)
  <2>1. PICK i \in flight : i.by = t /\ i.st = "returning" /\ Drop(i)
    BY <1>7 DEF InjectCalled, Held
  <2>2. pc[t] = "inject_call" /\ pc' = [pc EXCEPT ![t] = "ready"]
    BY <1>7 DEF InjectCalled, Goto
  <2>3. flight' = flight \ {i}
    BY <2>1 DEF Drop
  <2>4. \A j \in flight' : j.by = t => PlaceOf(j)'
    BY <1>0, <2>1, <2>2, <2>3 DEF PlaceInv, PlaceOf, InHand, PollSteps
  <2>8. Goes(t, {})
    BY <1>0, <2>2, <2>3, <2>4 DEF Goes
  <2> QED
    BY <2>8, PlaceGo
<1> QED
  BY <1>1, <1>2, <1>3, <1>4, <1>5, <1>6, <1>7 DEF Post

\* Thread t moves the one reference it has in hand, or takes one, and goes on
\* to where the new stage belongs.
LEMMA PlaceMove ==
  ASSUME TypeOK, PlaceInv, NEW t \in Threads, NEW i \in flight,
         NEW from, NEW to, NEW s, Move(i, s, t),
         pc[t] = from, pc' = [pc EXCEPT ![t] = to],
         \/ from \in {"lock", "read"} /\ to = "cancel" /\ s = "call"
         \/ from = "work" /\ to = "call" /\ s = "call"
         \/ from = "cancel" /\ to = "unlock" /\ s = "push" /\ i.st = "call" /\ i.by = t
         \/ from = "call" /\ to = "push" /\ s = "push" /\ i.st = "call" /\ i.by = t
  PROVE  PlaceInv'
<1>0. pc \in [Threads -> Steps]
  BY DEF TypeOK
<1> DEFINE p == Ref(i.op, i.ctx, s, t)
<1>1. flight' = (flight \ {i}) \cup {p} /\ p.st = s /\ p.by = t
  BY DEF Move, Ref
<1> HIDE DEF p
<1>2. \A j \in flight : j.by = t => PlaceOf(j)
  BY DEF PlaceInv
<1>3. \A j \in flight : j.by = t /\ j # i /\ i.st = "call" /\ i.by = t => j.st # "call"
  BY DEF PlaceInv, InHand
<1>4. \A j \in flight' : j \notin {p} /\ j.by = t => PlaceOf(j)'
  BY <1>0, <1>1, <1>2, <1>3 DEF PlaceOf, PollSteps
<1>5. PlaceOf(p)'
  BY <1>0, <1>1 DEF PlaceOf
<1>6. \A j \in flight' : p.st = j.st /\ p.by = j.by => p = j
  BY <1>0, <1>1, <1>2 DEF PlaceOf
<1>8. Goes(t, {p})
  BY <1>0, <1>1, <1>4, <1>5, <1>6 DEF Goes
<1> QED
  BY <1>8, PlaceGo

\* Thread t lets go of the one reference it has in hand.
LEMMA PlaceDrop ==
  ASSUME TypeOK, PlaceInv, NEW t \in Threads, NEW i \in flight, Drop(i), i.by = t,
         pc' = [pc EXCEPT ![t] = "work"],
         \/ pc[t] = "call" /\ i.st = "call"
         \/ pc[t] \in {"unlock", "push"} /\ i.st = "push"
  PROVE  PlaceInv'
<1>0. pc \in [Threads -> Steps]
  BY DEF TypeOK
<1>1. flight' = flight \ {i}
  BY DEF Drop
<1>2. \A j \in flight : j.by = t => PlaceOf(j)
  BY DEF PlaceInv
<1>3. \A j \in flight' : j.by = t => j.st # i.st
  BY <1>1 DEF PlaceInv, InHand
<1>4. \A j \in flight' : j.by = t => PlaceOf(j)'
  BY <1>0, <1>1, <1>2, <1>3 DEF PlaceOf, PollSteps
<1>8. Goes(t, {})
  BY <1>0, <1>1, <1>4 DEF Goes
<1> QED
  BY <1>8, PlaceGo
\* Reading a batch leaves its thread with the entries, at work.
LEMMA PlaceRead ==
  ASSUME TypeOK, PlaceInv, NEW t \in Threads, Read(t) PROVE PlaceInv'
<1>0. pc \in [Threads -> Steps]
  BY DEF TypeOK
<1>1. PICK B \in Batches(queue[t]) :
        flight' = (flight \ B) \cup {Ref(i.op, i.ctx, "batch", t) : i \in B}
  BY DEF Read
<1>2. pc[t] \in {"lock", "read"} /\ pc' = [pc EXCEPT ![t] = "work"]
  BY DEF Read, MayRead, Goto
<1> DEFINE A == {Ref(i.op, i.ctx, "batch", t) : i \in B}
<1>3. \A p \in A : p.st = "batch" /\ p.by = t
  BY DEF Ref
<1>4. flight' = (flight \ B) \cup A
  BY <1>1
<1> HIDE DEF A
<1>5. \A j \in flight' : j \notin A /\ j.by = t => PlaceOf(j)'
  <2>1. ASSUME NEW j \in flight, j.by = t PROVE PlaceOf(j)'
    <3>1. PlaceOf(j)
      BY DEF PlaceInv
    <3> QED
      BY <1>0, <1>2, <2>1, <3>1 DEF PlaceOf, PollSteps
  <2> QED
    BY <1>4, <2>1
<1>6. \A j \in A : PlaceOf(j)' /\ j.st \notin InHand
  BY <1>0, <1>2, <1>3 DEF PlaceOf, InHand
<1>7. Goes(t, A)
  BY <1>0, <1>2, <1>4, <1>5, <1>6 DEF Goes
<1> QED
  BY <1>7, PlaceGo

\* Steps of a poll that move no reference.
LEMMA PlaceTurns ==
  ASSUME TypeOK, PlaceInv, NEW t \in Threads,
         TakeLock(t) \/ SendsBusy(t) \/ BatchDone(t) \/ PollerPolls(t) \/ PollerExits(t)
  PROVE  PlaceInv'
<1>0. pc \in [Threads -> Steps]
  BY DEF TypeOK
<1>1. CASE TakeLock(t) \/ SendsBusy(t)
  <2>1. /\ pc[t] = "lock" /\ flight' = flight
        /\ pc' = [pc EXCEPT ![t] = "read"] \/ pc' = [pc EXCEPT ![t] = "lock"]
    BY <1>1 DEF TakeLock, SendsBusy, PollReceives, Goto
  <2>2. \A i \in flight : i.by = t /\ PlaceOf(i) => PlaceOf(i)'
    BY <1>0, <2>1 DEF PlaceOf, PollSteps
  <2>3. \A u \in Threads : u # t => pc'[u] = pc[u]
    BY <1>0, <2>1
  <2> QED
    BY <2>1, <2>2, <2>3, PlaceSame
<1>2. CASE BatchDone(t)
  <2>1. pc[t] = "work" /\ flight' = flight /\ \A i \in flight : i.by = t => i.st # "batch"
    BY <1>2 DEF BatchDone, Held
  <2>2. PICK s \in {"lock", "asleep", "post"} :
          pc' = [pc EXCEPT ![t] = s] /\ (s = "asleep" => t \in Pollers)
    BY <1>2 DEF BatchDone, PollReceives, StartPoll, EndPoll, Goto
  <2>3. \A i \in flight : i.by = t /\ PlaceOf(i) => PlaceOf(i)'
    BY <1>0, <2>1, <2>2, ProgressAssumption DEF PlaceOf, PollSteps
  <2>4. \A u \in Threads : u # t => pc'[u] = pc[u]
    BY <1>0, <2>2
  <2> QED
    BY <2>1, <2>3, <2>4, PlaceSame
<1>3. CASE PollerPolls(t) \/ PollerExits(t)
  <2>1. pc[t] = "asleep" /\ flight' = flight
    BY <1>3 DEF PollerPolls, PollerExits
  <2>2. PICK s \in {"lock", "exited"} : pc' = [pc EXCEPT ![t] = s]
    BY <1>3 DEF PollerPolls, PollerExits, StartPoll, Goto
  <2>3. \A i \in flight : i.by = t /\ PlaceOf(i) => PlaceOf(i)'
    BY <1>0, <2>1, <2>2 DEF PlaceOf, PollSteps
  <2>4. \A u \in Threads : u # t => pc'[u] = pc[u]
    BY <1>0, <2>2
  <2> QED
    BY <2>1, <2>3, <2>4, PlaceSame
<1> QED
  BY <1>1, <1>2, <1>3

\* A poll keeps every completion with the thread that handles it.
LEMMA PlacePoll ==
  ASSUME TypeOK, PlaceInv, NEW t \in Threads, Poll(t) PROVE PlaceInv'
<1>1. CASE TakeLock(t) \/ SendsBusy(t) \/ BatchDone(t)
  BY <1>1, PlaceTurns
<1>2. CASE Read(t)
  BY <1>2, PlaceRead
<1>3. CASE ReadError(t)
  BY <1>3, PlaceDie DEF ReadError
<1>4. CASE ReadCancelled(t)
  <2>1. PICK i \in flight : Move(i, "call", t)
    BY <1>4 DEF ReadCancelled, Entries
  <2>2. pc[t] \in {"lock", "read"} /\ pc' = [pc EXCEPT ![t] = "cancel"]
    BY <1>4 DEF ReadCancelled, MayRead, Goto
  <2> QED
    BY <2>1, <2>2, PlaceMove
<1>5. CASE CancelCalled(t)
  <2>1. PICK i \in flight : i.by = t /\ i.st = "call" /\ Move(i, "push", t)
    BY <1>5 DEF CancelCalled, Invoke, Held
  <2>2. pc[t] = "cancel" /\ pc' = [pc EXCEPT ![t] = "unlock"]
    BY <1>5 DEF CancelCalled, Goto
  <2> QED
    BY <2>1, <2>2, PlaceMove
<1>6. CASE CancelRecycled(t) \/ Recycled(t)
  <2>1. PICK i \in flight : i.by = t /\ i.st = "push" /\ Drop(i)
    BY <1>6 DEF CancelRecycled, Recycled, Recycle, Held
  <2>2. pc[t] \in {"unlock", "push"} /\ pc' = [pc EXCEPT ![t] = "work"]
    BY <1>6 DEF CancelRecycled, Recycled, Goto
  <2> QED
    BY <2>1, <2>2, PlaceDrop
<1>7. CASE Count(t)
  <2>1. PICK i \in flight : Move(i, "call", t)
    BY <1>7 DEF Count, Held
  <2>2. pc[t] = "work" /\ pc' = [pc EXCEPT ![t] = "call"]
    BY <1>7 DEF Count, Goto
  <2> QED
    BY <2>1, <2>2, PlaceMove
<1>8. CASE Called(t)
  <2>1. PICK i \in flight : i.by = t /\ i.st = "call" /\ Move(i, "push", t)
    BY <1>8 DEF Called, Invoke, Held
  <2>2. pc[t] = "call" /\ pc' = [pc EXCEPT ![t] = "push"]
    BY <1>8 DEF Called, Goto
  <2> QED
    BY <2>1, <2>2, PlaceMove
<1>9. CASE CalledWithoutContext(t)
  <2>1. PICK i \in flight : i.by = t /\ i.st = "call" /\ Drop(i)
    BY <1>9 DEF CalledWithoutContext, Held
  <2>2. pc[t] = "call" /\ pc' = [pc EXCEPT ![t] = "work"]
    BY <1>9 DEF CalledWithoutContext, Goto
  <2> QED
    BY <2>1, <2>2, PlaceDrop
<1> QED
  BY <1>1, <1>2, <1>3, <1>4, <1>5, <1>6, <1>7, <1>8, <1>9 DEF Poll

\* What no thread does gives no thread a reference.
LEMMA PlaceAlone ==
  ASSUME PlaceInv, pc' = pc, NEW p, flight' \subseteq flight \cup {p},
         p.st \in {"cq", "cancelled", "failed"}
  PROVE  PlaceInv'
<1>1. PlaceOf(p)' /\ p.st \notin InHand
  BY DEF PlaceOf, InHand
<1>2. \A i \in flight' : i \notin {p} /\ i.by = Null => PlaceOf(i)'
  BY DEF PlaceInv, PlaceOf
<1>3. Goes(Null, {p})
  BY <1>1, <1>2 DEF Goes
<1> QED
  BY <1>3, PlaceGo

\* The provider takes no reference from a thread and gives it none.
LEMMA PlaceNet ==
  ASSUME PlaceInv, Net PROVE PlaceInv'
<1>1. ASSUME NEW i \in flight, NetCompletes(i) PROVE PlaceInv'
  <2>1. PICK s \in {"cq", "cancelled", "failed"} : Move(i, s, Null)
    BY <1>1 DEF NetCompletes
  <2>2. Ref(i.op, i.ctx, s, Null).st = s
    BY DEF Ref
  <2>3. pc' = pc /\ flight' \subseteq flight \cup {Ref(i.op, i.ctx, s, Null)}
    BY <1>1, <2>1 DEF NetCompletes, Move
  <2> QED
    BY <2>2, <2>3, PlaceAlone
<1>2. ASSUME NEW i \in flight, NetEchoes(i) PROVE PlaceInv'
  <2>1. Ref(i.op, i.ctx, "cq", Null).st = "cq"
    BY DEF Ref
  <2>2. pc' = pc /\ flight' \subseteq flight \cup {Ref(i.op, i.ctx, "cq", Null)}
    BY <1>2 DEF NetEchoes, Move, Drop
  <2> QED
    BY <2>1, <2>2, PlaceAlone
<1> QED
  BY <1>1, <1>2 DEF Net

\* A poster that begins an operation has nothing else in hand.
LEMMA PlaceBegin ==
  ASSUME TypeOK, PlaceInv, NEW t \in Posters, NEW o \in Ops, Begin(t, o)
  PROVE  PlaceInv'
<1>0. pc \in [Threads -> Steps] /\ t \in Threads
  BY DEF TypeOK, Threads
<1>1. pc[t] = "ready" /\ pc' = [pc EXCEPT ![t] = "post"]
  BY DEF Begin, BeginWithContext, BeginInject, Goto
<1>2. PICK c : flight' = flight \cup {Ref(o, c, "post", t)}
  BY DEF Begin, BeginWithContext, BeginInject
<1> DEFINE p == Ref(o, c, "post", t)
<1>3. flight' = flight \cup {p} /\ p.st = "post" /\ p.by = t
  BY <1>2 DEF Ref
<1> HIDE DEF p
<1>4. \A j \in flight : j.by = t => PlaceOf(j)
  BY DEF PlaceInv
<1>5. \A j \in flight' : j \notin {p} /\ j.by = t => PlaceOf(j)'
  BY <1>0, <1>1, <1>3, <1>4 DEF PlaceOf, PollSteps
<1>6. PlaceOf(p)'
  BY <1>0, <1>1, <1>3 DEF PlaceOf
<1>7. \A j \in flight' : p.st = j.st /\ p.by = j.by => p = j
  BY <1>0, <1>1, <1>3, <1>4 DEF PlaceOf, PollSteps
<1>8. Goes(t, {p})
  BY <1>0, <1>1, <1>3, <1>5, <1>6, <1>7 DEF Goes
<1> QED
  BY <1>8, PlaceGo

\* A poster that waits has nothing in hand.
LEMMA PlaceWait ==
  ASSUME TypeOK, PlaceInv, NEW t \in Posters, Wait(t) PROVE PlaceInv'
<1>0. pc \in [Threads -> Steps] /\ t \in Threads
  BY DEF TypeOK, Threads
<1>1. pc[t] \in {"ready", "wait_writes", "wait_reads"} /\ flight' = flight
  BY DEF Wait, MsgsAwaited, WritesAwaited, ReadsAwaited
<1>2. PICK s : pc' = [pc EXCEPT ![t] = s]
  BY DEF Wait, MsgsAwaited, WritesAwaited, ReadsAwaited, Goto
<1>3. \A i \in flight : i.by = t /\ PlaceOf(i) => PlaceOf(i)'
  BY <1>0, <1>1, <1>2 DEF PlaceOf, PollSteps
<1>4. \A u \in Threads : u # t => pc'[u] = pc[u]
  BY <1>0, <1>2
<1> QED
  BY <1>1, <1>3, <1>4, PlaceSame

\* Every step keeps what the threads hold where they are.
LEMMA PlaceStep ==
  ASSUME TypeOK, PlaceInv, [Next]_vars PROVE PlaceInv'
<1>1. CASE UNCHANGED <<flight, pc>>
  BY <1>1 DEF PlaceInv, PlaceOf
<1>2. ASSUME NEW t \in Threads, Post(t) \/ Poll(t) \/ Loop(t) PROVE PlaceInv'
  BY <1>2, PlacePost, PlacePoll, PlaceTurns DEF Loop
<1>3. ASSUME NEW t \in Posters, Wait(t) PROVE PlaceInv'
  BY <1>3, PlaceWait
<1>4. ASSUME NEW t \in Posters, NEW o \in Ops, Begin(t, o) PROVE PlaceInv'
  BY <1>4, PlaceBegin
<1>5. CASE Net
  BY <1>5, PlaceNet
<1>6. ASSUME NEW o \in Ops, RemoteWrite(o) PROVE PlaceInv'
  <2>1. pc' = pc /\ flight' \subseteq flight \cup {Ref(o, Null, "cq", Null)}
    BY <1>6 DEF RemoteWrite
  <2>2. Ref(o, Null, "cq", Null).st = "cq"
    BY DEF Ref
  <2> QED
    BY <2>1, <2>2, PlaceAlone
<1> QED
  BY <1>1, <1>2, <1>3, <1>4, <1>5, <1>6 DEF Next, StopPollers, Finished, vars
-----------------------------------------------------------------------------
(* What a poster that waits knows.                                         *)

\* A thread that neither waits nor died goes on, or takes all down with it.
Turns ==
  \/ pc' = pc
  \/ \E t \in Threads :
       /\ pc[t] \notin Past \cup {"dead"}
       /\ Die \/ \E s \in Steps \ Past : pc' = [pc EXCEPT ![t] = s]

\* Only its own wait brings a poster past its operations.
LEMMA TurnStep ==
  ASSUME TypeOK, [Next]_vars
  PROVE  (Turns /\ target' = target) \/ \E t \in Posters : Wait(t)
<1>0. pc \in [Threads -> Steps]
  BY DEF TypeOK
<1>1. CASE UNCHANGED <<pc, target>>
  BY <1>1 DEF Turns
<1>2. ASSUME NEW t \in Threads, Post(t) PROVE Turns /\ target' = target
  <2>1. CASE DeliveryRejected(t)
    BY <2>1 DEF DeliveryRejected, Turns
  <2>2. CASE PostFailed(t)
    BY <2>2 DEF PostFailed, Turns, Past
  <2>3. CASE Accepted(t) \/ AcceptedInject(t) \/ Again(t) \/ InjectCounted(t) \/ InjectCalled(t)
    <3>1. pc[t] \in {"post", "inject", "inject_call"} /\ target' = target
      BY <2>3 DEF Accepted, AcceptedInject, Again, InjectCounted, InjectCalled
    <3>2. PICK s \in {"ready", "inject", "lock", "inject_call"} : pc' = [pc EXCEPT ![t] = s]
      BY <2>3 DEF Accepted, AcceptedInject, Again, InjectCounted, InjectCalled, StartPoll, Goto
    <3>3. s \in Steps \ Past /\ pc[t] \notin Past \cup {"dead"}
      BY <3>1, <3>2 DEF Steps, PollSteps, Past
    <3> QED
      BY <3>1, <3>2, <3>3 DEF Turns
  <2> QED
    BY <1>2, <2>1, <2>2, <2>3 DEF Post
<1>3. ASSUME NEW t \in Threads, Poll(t) PROVE Turns /\ target' = target
  <2>1. pc[t] \in PollSteps /\ target' = target
    BY <1>3 DEF Poll, TakeLock, SendsBusy, Read, ReadError, ReadCancelled, CancelCalled,
                CancelRecycled, Count, Called, CalledWithoutContext, Recycled, BatchDone,
                MayRead, PollSteps
  <2>2. pc[t] \notin Past \cup {"dead"}
    BY <2>1 DEF PollSteps, Past
  <2>3. CASE ReadError(t)
    BY <2>1, <2>2, <2>3 DEF ReadError, Turns
  <2>4. CASE ~ReadError(t)
    <3>1. PICK s \in PollSteps \cup {"asleep", "post"} : pc' = [pc EXCEPT ![t] = s]
      BY <1>3, <2>4
      DEF Poll, TakeLock, SendsBusy, Read, ReadError, ReadCancelled, CancelCalled,
          CancelRecycled, Count, Called, CalledWithoutContext, Recycled, BatchDone,
          StartPoll, PollReceives, EndPoll, Goto, PollSteps
    <3>2. s \in Steps \ Past
      BY <3>1 DEF Steps, PollSteps, Past
    <3> QED
      BY <2>1, <2>2, <3>1, <3>2 DEF Turns
  <2> QED
    BY <2>3, <2>4
<1>4. ASSUME NEW t \in Threads, Loop(t) PROVE Turns /\ target' = target
  <2>1. pc[t] = "asleep" /\ target' = target
    BY <1>4 DEF Loop, PollerPolls, PollerExits
  <2>2. PICK s \in {"lock", "exited"} : pc' = [pc EXCEPT ![t] = s]
    BY <1>4 DEF Loop, PollerPolls, PollerExits, StartPoll, Goto
  <2>3. s \in Steps \ Past /\ pc[t] \notin Past \cup {"dead"}
    BY <2>1, <2>2 DEF Steps, PollSteps, Past
  <2> QED
    BY <2>1, <2>2, <2>3 DEF Turns
<1>5. ASSUME NEW t \in Posters, NEW o \in Ops, Begin(t, o) PROVE Turns /\ target' = target
  <2>1. pc[t] = "ready" /\ pc' = [pc EXCEPT ![t] = "post"] /\ target' = target /\ t \in Threads
    BY <1>5 DEF Begin, BeginWithContext, BeginInject, Goto, Threads
  <2>2. "post" \in Steps \ Past /\ pc[t] \notin Past \cup {"dead"}
    BY <2>1 DEF Steps, PollSteps, Past
  <2> QED
    BY <2>1, <2>2 DEF Turns
<1>6. CASE Net \/ StopPollers \/ Finished \/ \E o \in Ops : RemoteWrite(o)
  BY <1>1, <1>6 DEF Net, NetCompletes, NetEchoes, StopPollers, Finished, RemoteWrite, vars
<1> QED
  BY <1>1, <1>2, <1>3, <1>4, <1>5, <1>6 DEF Next, vars

\* Only a thread that has operations to begin raises a posted counter.
LEMMA PostedStep ==
  ASSUME [Next]_vars
  PROVE  posted' = posted \/ \E t \in Posters : pc[t] = "ready" /\ pc' = [pc EXCEPT ![t] = "post"]
<1>1. ASSUME NEW t \in Posters, NEW o \in Ops, Begin(t, o)
      PROVE  pc[t] = "ready" /\ pc' = [pc EXCEPT ![t] = "post"]
  BY <1>1 DEF Begin, BeginWithContext, BeginInject, Goto
<1>2. ASSUME NEW t \in Threads, Post(t) PROVE posted' = posted
  BY <1>2 DEF Post, Accepted, AcceptedInject, Again, DeliveryRejected, PostFailed,
              InjectCounted, InjectCalled, ledgerVars
<1>3. ASSUME NEW t \in Threads, Poll(t) PROVE posted' = posted
  BY <1>3 DEF Poll, TakeLock, SendsBusy, Read, ReadError, ReadCancelled, CancelCalled,
              CancelRecycled, Count, Called, CalledWithoutContext, Recycled, BatchDone,
              ledgerVars
<1>4. CASE (\E t \in Threads : Loop(t)) \/ (\E t \in Posters : Wait(t)) \/ Net
           \/ (\E o \in Ops : RemoteWrite(o)) \/ StopPollers \/ Finished
  BY <1>4 DEF Loop, PollerPolls, PollerExits, Wait, MsgsAwaited, WritesAwaited, ReadsAwaited,
              Net, NetCompletes, NetEchoes, RemoteWrite, StopPollers, Finished, vars, ledgerVars
<1>5. CASE UNCHANGED vars
  BY <1>5 DEF vars, ledgerVars
<1> QED
  BY <1>1, <1>2, <1>3, <1>4, <1>5 DEF Next

\* Only the poller_guard raises the stop flag, when every poster is done.
LEMMA StopStep ==
  ASSUME [Next]_vars
  PROVE  stop' = stop \/ (pc' = pc /\ \A t \in Posters : pc[t] = "done")
<1>1. ASSUME NEW t \in Threads, Post(t) PROVE stop' = stop
  BY <1>1 DEF Post, Accepted, AcceptedInject, Again, DeliveryRejected, PostFailed,
              InjectCounted, InjectCalled
<1>2. ASSUME NEW t \in Threads, Poll(t) PROVE stop' = stop
  BY <1>2 DEF Poll, TakeLock, SendsBusy, Read, ReadError, ReadCancelled, CancelCalled,
              CancelRecycled, Count, Called, CalledWithoutContext, Recycled, BatchDone
<1>3. CASE (\E t \in Threads : Loop(t)) \/ (\E t \in Posters : Wait(t)) \/ Net
           \/ (\E o \in Ops : RemoteWrite(o)) \/ StopPollers \/ Finished
  BY <1>3 DEF Loop, PollerPolls, PollerExits, Wait, MsgsAwaited, WritesAwaited, ReadsAwaited,
              Net, NetCompletes, NetEchoes, RemoteWrite, StopPollers, Finished, vars
<1>4. ASSUME NEW t \in Posters, NEW o \in Ops, Begin(t, o) PROVE stop' = stop
  BY <1>4 DEF Begin, BeginWithContext, BeginInject
<1>5. CASE UNCHANGED vars
  BY <1>5 DEF vars
<1> QED
  BY <1>1, <1>2, <1>3, <1>4, <1>5 DEF Next

\* Operations only begin and are only counted, never the reverse.
LEMMA LedgerGrows ==
  ASSUME DataInv, DataInv', LedgerStep
  PROVE  /\ todo' \subseteq todo /\ counted \subseteq counted'
         /\ \A k \in Classes : complete'[k] >= complete[k]
<1>1. /\ complete \in [Classes -> Nat] /\ complete' \in [Classes -> Nat]
      /\ todo \subseteq Ops /\ todo' \subseteq Ops
  BY DEF DataInv, DataOK
<1>2. ASSUME NEW o \in Ops, Ledger!Begin(o) PROVE /\ todo' \subseteq todo /\ counted' = counted
                                                  /\ complete' = complete
  BY <1>1, <1>2 DEF Ledger!Begin
<1>3. ASSUME NEW o \in Ops, Ledger!Count(o)
      PROVE  /\ todo' \subseteq todo /\ counted \subseteq counted'
             /\ \A k \in Classes : complete'[k] >= complete[k]
  <2>1. /\ Ops \ todo' = Ops \ todo /\ counted' = counted \cup {o}
        /\ complete' = Bump(complete, Class[o], {"none"})
    BY <1>3 DEF Ledger!Count, Ledger!Bump, Bump
  <2> QED
    BY <1>1, <2>1 DEF Bump
<1>4. ASSUME UNCHANGED <<Ops \ todo, counted, complete>>
      PROVE  todo' \subseteq todo /\ counted' = counted /\ complete' = complete
  BY <1>1, <1>4
<1>5. CASE \E o \in Ops : Ledger!Begin(o)
  BY <1>1, <1>2, <1>5
<1>6. CASE \E o \in Ops : Ledger!Count(o)
  BY <1>3, <1>6
<1>7. CASE UNCHANGED <<Ops \ todo, counted, complete>>
  BY <1>1, <1>4, <1>7
<1> QED
  BY <1>5, <1>6, <1>7 DEF LedgerStep, Ledger!Next, Ledger!Call, Ledger!Cancel, Ledger!vars

\* When a wait sees its counters level, what was posted was counted.
LEMMA LevelIsCounted ==
  ASSUME DataInv, CountInv, NEW k \in {"send", "recv", "read", "write"},
         complete[k] >= posted[k], NEW o \in Ops \ todo, Class[o] = k
  PROVE  o \in counted
<1>1. IsFiniteSet(Pending(k)) /\ posted[k] = complete[k] + Cardinality(Pending(k))
  BY DEF CountInv
<1>2. posted[k] \in Nat /\ complete[k] \in Nat /\ Cardinality(Pending(k)) \in Nat
  BY <1>1, FS_CardinalityType DEF DataInv, DataOK, Classes
<1>3. Cardinality(Pending(k)) = 0
  BY <1>1, <1>2
<1>4. Pending(k) = {}
  BY <1>1, <1>3, FS_EmptySet
<1> QED
  BY <1>4 DEF Pending

\* A step that is no wait keeps what the waits established.
LEMMA WaitInvTurn ==
  ASSUME TypeOK, DataInv, DataInv', WaitInv, Turns, target' = target, LedgerStep,
         posted' = posted \/ \E t \in Posters : pc[t] = "ready" /\ pc' = [pc EXCEPT ![t] = "post"],
         stop' = stop \/ (pc' = pc /\ \A t \in Posters : pc[t] = "done")
  PROVE  WaitInv'
<1>1. /\ todo' \subseteq todo /\ counted \subseteq counted'
      /\ complete'["write"] >= complete["write"]
  BY LedgerGrows DEF Classes
<1>2. /\ pc \in [Threads -> Steps] /\ Posters \subseteq Threads
      /\ complete["write"] \in Nat /\ complete'["write"] \in Nat /\ target \in [Posters -> Nat]
  BY DEF TypeOK, Threads, DataInv, DataOK, Classes
<1>3. ASSUME NEW t \in Posters, pc'[t] \in Past PROVE pc[t] = pc'[t]
  BY <1>2, <1>3 DEF Turns, Die, Past
<1>4. Settled'
  <2>1. SUFFICES ASSUME NEW t \in Posters, pc'[t] \in Past, NEW o \in Ops,
                        PostedBy[o] = t, Kind[o] # "data"
                 PROVE  /\ o \notin todo'
                        /\ Class[o] \in {"send", "recv"} => o \in counted'
                        /\ pc'[t] = "done" /\ Class[o] = "read" => o \in counted'
    BY DEF Settled
  <2>2. pc[t] = pc'[t]
    BY <1>3, <2>1
  <2> QED
    BY <1>1, <2>1, <2>2 DEF WaitInv, Settled
<1>5. WritesReached'
  BY <1>1, <1>2, <1>3 DEF WaitInv, WritesReached, Past
<1>6. LastTarget'
  <2>1. SUFFICES ASSUME Posters # {}, \A t \in Posters : pc'[t] \in Past
                 PROVE  \E t \in Posters : target[t] = posted'["write"]
    BY DEF LastTarget
  <2>2. \A t \in Posters : pc[t] \in Past
    BY <1>3, <2>1
  <2>3. posted' = posted
    BY <2>2 DEF Past
  <2> QED
    BY <2>1, <2>2, <2>3 DEF WaitInv, LastTarget
<1>7. StopInv'
  <2>1. CASE pc' = pc /\ \A t \in Posters : pc[t] = "done"
    BY <2>1 DEF StopInv
  <2>2. CASE stop' = stop
    <3>1. SUFFICES ASSUME stop
                   PROVE  \/ \A t \in Posters : pc'[t] = "done"
                          \/ Pollers # {} /\ \A t \in Threads : pc'[t] = "dead"
      BY <2>2 DEF StopInv
    <3>2. CASE \A t \in Posters : pc[t] = "done"
      <4>1. CASE pc' = pc
        BY <3>2, <4>1
      <4>2. ASSUME NEW t \in Threads, pc[t] \notin Past \cup {"dead"}, Die
            PROVE  Pollers # {} /\ \A u \in Threads : pc'[u] = "dead"
        BY <3>2, <4>2 DEF Die, Past, Threads
      <4>3. ASSUME NEW t \in Threads, pc[t] \notin Past \cup {"dead"},
                   NEW s, pc' = [pc EXCEPT ![t] = s]
            PROVE  \A u \in Posters : pc'[u] = "done"
        BY <1>2, <3>2, <4>3 DEF Past
      <4> QED
        BY <4>1, <4>2, <4>3 DEF Turns
    <3>3. CASE Pollers # {} /\ \A t \in Threads : pc[t] = "dead"
      BY <3>3 DEF Turns
    <3> QED
      BY <3>1, <3>2, <3>3 DEF WaitInv, StopInv
  <2> QED
    BY <2>1, <2>2
<1> QED
  BY <1>4, <1>5, <1>6, <1>7 DEF WaitInv

\* What a poster does when its wait is over.
LEMMA WaitInvWait ==
  ASSUME TypeOK, DataInv, CountInv, WaitInv, NEW t \in Posters, Wait(t)
  PROVE  WaitInv'
<1>1. /\ pc \in [Threads -> Steps] /\ t \in Threads /\ Posters \subseteq Threads
      /\ posted["write"] \in Nat /\ target \in [Posters -> Nat]
  BY DEF TypeOK, Threads, Classes
<1>2. UNCHANGED <<todo, counted, posted, complete, stop>>
  BY DEF Wait, MsgsAwaited, WritesAwaited, ReadsAwaited, ledgerVars
<1>3. stop => Pollers # {} /\ \A u \in Threads : pc[u] = "dead"
  BY DEF WaitInv, StopInv, Wait, MsgsAwaited, WritesAwaited, ReadsAwaited
<1>4. pc[t] \in {"ready", "wait_writes", "wait_reads"}
  BY DEF Wait, MsgsAwaited, WritesAwaited, ReadsAwaited
<1>5. StopInv'
  BY <1>1, <1>2, <1>3, <1>4 DEF StopInv
<1>6. CASE MsgsAwaited(t)
  <2>1. /\ pc' = [pc EXCEPT ![t] = "wait_writes"]
        /\ target' = [target EXCEPT ![t] = posted["write"]]
        /\ \A o \in todo : PostedBy[o] = t => Kind[o] = "data"
        /\ complete["send"] >= posted["send"] /\ complete["recv"] >= posted["recv"]
    BY <1>6 DEF MsgsAwaited, Goto, MsgsComplete
  <2>2. ASSUME NEW o \in Ops, PostedBy[o] = t, Kind[o] # "data"
        PROVE  o \notin todo /\ (Class[o] \in {"send", "recv"} => o \in counted)
    BY <2>1, <2>2, LevelIsCounted
  <2>3. Settled'
    BY <1>1, <1>2, <2>1, <2>2 DEF WaitInv, Settled
  <2>4. WritesReached'
    BY <1>1, <1>2, <2>1 DEF WaitInv, WritesReached
  <2>5. LastTarget'
    BY <1>1, <1>2, <2>1 DEF LastTarget
  <2> QED
    BY <1>5, <2>3, <2>4, <2>5 DEF WaitInv
<1>7. CASE WritesAwaited(t)
  <2>1. /\ pc[t] = "wait_writes" /\ complete["write"] >= target[t] /\ target' = target
        /\ pc' = [pc EXCEPT ![t] = "wait_reads"]
    BY <1>7 DEF WritesAwaited, Goto
  <2>2. Settled'
    BY <1>1, <1>2, <2>1 DEF WaitInv, Settled, Past
  <2>3. WritesReached' /\ LastTarget'
    BY <1>1, <1>2, <2>1 DEF WaitInv, WritesReached, LastTarget, Past
  <2> QED
    BY <1>5, <2>2, <2>3 DEF WaitInv
<1>8. CASE ReadsAwaited(t)
  <2>1. /\ pc[t] = "wait_reads" /\ complete["read"] >= posted["read"] /\ target' = target
        /\ pc' = [pc EXCEPT ![t] = "done"]
    BY <1>8 DEF ReadsAwaited, Goto
  <2>2. ASSUME NEW o \in Ops, PostedBy[o] = t, Kind[o] # "data"
        PROVE  /\ o \notin todo
               /\ Class[o] \in {"send", "recv"} => o \in counted
               /\ Class[o] = "read" => o \in counted
    BY <2>1, <2>2, LevelIsCounted DEF WaitInv, Settled, Past
  <2>3. Settled'
    BY <1>1, <1>2, <2>1, <2>2 DEF WaitInv, Settled, Past
  <2>4. WritesReached' /\ LastTarget'
    BY <1>1, <1>2, <2>1 DEF WaitInv, WritesReached, LastTarget, Past
  <2> QED
    BY <1>5, <2>3, <2>4 DEF WaitInv
<1> QED
  BY <1>6, <1>7, <1>8 DEF Wait

JoinInv == LedgerInv /\ PlaceInv /\ WaitInv

\* The whole invariant holds when the controller has just been made.
LEMMA JoinInvInit == Init => JoinInv
<1> SUFFICES ASSUME Init PROVE JoinInv
  OBVIOUS
<1>1. LedgerInv
  BY IInvInit, LedgerInit DEF LedgerInv
<1>2. PlaceInv
  BY DEF Init, PlaceInv
<1>3. \A t \in Posters : pc[t] = "ready"
  BY DEF Init, Threads
<1>4. WaitInv
  BY <1>3 DEF Init, WaitInv, Settled, WritesReached, LastTarget, StopInv, Past
<1> QED
  BY <1>1, <1>2, <1>4 DEF JoinInv

\* Every step keeps the whole invariant.
LEMMA JoinInvStep ==
  ASSUME NoReports, JoinInv, [Next]_vars PROVE JoinInv'
<1>1. LedgerInv' /\ LedgerStep
  BY LedgerInvStep DEF JoinInv
<1>2. TypeOK /\ DataInv /\ DataInv' /\ CountInv /\ WaitInv
  BY <1>1, TypeParts DEF JoinInv, LedgerInv, IInv, DataInv, TypeOK, DataOK
<1>3. PlaceInv'
  BY <1>2, PlaceStep DEF JoinInv
<1>4. WaitInv'
  <2>1. CASE Turns /\ target' = target
    BY <1>1, <1>2, <2>1, PostedStep, StopStep, WaitInvTurn
  <2>2. CASE \E t \in Posters : Wait(t)
    BY <1>2, <2>2, WaitInvWait
  <2> QED
    BY <1>2, <2>1, <2>2, TurnStep
<1> QED
  BY <1>1, <1>3, <1>4 DEF JoinInv

\* Once the poll threads have been joined the invariant leaves nothing to do.
LEMMA JoinedIsOver == ASSUME JoinInv, Joined PROVE NothingLeftAfterJoin
<1>1. /\ pc \in [Threads -> Steps] /\ Threads = Posters \cup Pollers
      /\ \A t \in Pollers : pc[t] = "exited"
      /\ DataInv /\ LInv /\ CountInv /\ PlaceInv /\ WaitInv
  BY TypeParts DEF JoinInv, LedgerInv, IInv, DataInv, TypeOK, DataOK, Threads, Joined
<1>2. \A t \in Posters : pc[t] = "done"
  BY <1>1 DEF Joined, WaitInv, StopInv
<1>3. \A i \in flight : i.st \notin InHand \cup {"batch"}
  BY <1>1, <1>2, ProgressAssumption DEF PlaceInv, PlaceOf, InHand, PollSteps
<1>4. ASSUME NEW o \in Ops, Kind[o] # "data" PROVE called[o] = 1
  <2>1. PostedBy[o] \in Posters
    BY ProgressAssumption
  <2>2. o \notin todo
    BY <1>1, <1>2, <1>4, <2>1 DEF WaitInv, Settled, Past
  <2>3. Kind[o] \in WithContext \cup {"inject"} => o \in counted
    <3>1. Class[o] \in {"send", "recv", "read"} => o \in counted
      BY <1>1, <1>2, <1>4, <2>1 DEF WaitInv, Settled, Past
    <3>2. CASE Class[o] = "write"
      <4>1. \E t \in Posters : target[t] = posted["write"]
        BY <1>1, <1>2, <2>1 DEF WaitInv, LastTarget, Past
      <4>2. complete["write"] >= posted["write"]
        BY <1>1, <1>2, <4>1 DEF WaitInv, WritesReached
      <4> QED
        BY <1>1, <2>2, <3>2, <4>2, LevelIsCounted
    <3> QED
      BY <3>1, <3>2, ClassOf
  <2>4. SUFFICES ASSUME NEW i \in flight, Owes(i), i.op = o PROVE FALSE
    BY <1>1, <2>2 DEF LInv, Someone
  <2>5. Kind[o] \in WithContext
    BY <1>3, <1>4, <2>4 DEF Owes, InHand
  <2>6. o \in counted /\ i.st \notin Early
    BY <1>1, <2>3, <2>4, <2>5 DEF LInv, NotYet
  <2>7. i.st \in Stages /\ Shape(i)
    BY <1>1 DEF DataInv, DataOK, Reference, RefInv, Shaped
  <2> QED
    BY <1>3, <2>4, <2>5, <2>6, <2>7 DEF Stages, Early, InHand, Shape, WithContext
<1>5. live = pool
  <2>1. ASSUME NEW i \in flight, i.ctx # Null PROVE FALSE
    <3>1. Kind[i.op] \in WithContext /\ i.op \in Ops
      BY <1>1, <2>1 DEF DataInv, DataOK, Reference, RefInv, Shaped, Shape
    <3>2. Owes(i)
      BY <1>3, <3>1 DEF Owes, InHand
    <3>3. called[i.op] = 0
      BY <1>1, <3>2 DEF DataInv, RefInv, Owed
    <3> QED
      BY <1>4, <3>1, <3>3 DEF WithContext
  <2> QED
    BY <1>1, <2>1 DEF DataInv, RefInv, OneOwner
<1> QED
  BY <1>4, <1>5 DEF NothingLeftAfterJoin

\* When the destructor of the poller_guard has joined its threads, every
\* operation the posters began was counted and called back and every context
\* is back on the free list, for any number of threads and any interleaving of
\* their posts, polls and waits.
THEOREM JoinLeavesNothing == ASSUME NoReports PROVE Spec => []NothingLeftAfterJoin
<1>1. JoinInv /\ [Next]_vars => JoinInv'
  BY JoinInvStep
<1>2. JoinInv => NothingLeftAfterJoin
  BY JoinedIsOver DEF NothingLeftAfterJoin
<1> QED
  BY <1>1, <1>2, JoinInvInit, PTL DEF Spec
=============================================================================
