------------------------------ MODULE Progress ------------------------------
(***************************************************************************)
(* The progress engine of one rank: threads post operations through the    *)
(* communicator, the provider completes them in any order, and any thread  *)
(* that polls the controller reads the completion queues in batches,       *)
(* bumps the public counters, runs the callback held by the operation      *)
(* context and gives the context back to the shared pool.                  *)
(*                                                                         *)
(* A live reference to an operation (and to its context, when it has one)  *)
(* is a record of flight: who holds it (a thread, or Null for the          *)
(* provider) and how far it got.  Everything that moves a context between  *)
(* the posting call, the provider, a poller's local entry array and the    *)
(* pool is a change of one record.                                         *)
(***************************************************************************)
EXTENDS Naturals, FiniteSets

CONSTANTS
  Posters,          \* threads that post operations, wait for them and return
  Pollers,          \* the threads of the poller_guard
  Contexts,         \* addresses of operation contexts
  Ops,              \* every operation of the run, remote-write events included
  Kind,             \* [Ops -> Kinds]
  PostedBy,         \* [Ops -> Posters]: whose program holds the operation
  Depth,            \* [Queues -> Nat]: room before the provider says FI_EAGAIN
  MaxPoll,          \* max_completions_per_poll_
  Bypass,           \* the queues polled without a lock (bypass_tx/rx_lock)
  DeliverySupported,\* the provider accepts FI_DELIVERY_COMPLETE
  InjectReports,    \* the provider reports injected writes, with no context
  Cancellable,      \* receives the provider may report as FI_ECANCELED
  Faulty,           \* operations that may fail when posted or completed
  Null

Queues == {"tx", "rx"}

\* "delivery" is write_data_delivery, "inject" a send of at most the inject
\* size, "signal" an injected write, "data" the event a peer's writedata causes.
WithContext == {"send", "recv", "read", "write", "delivery"}
Kinds == WithContext \cup {"inject", "signal", "data"}

Classes == {"send", "recv", "read", "write", "data", "none"}

ASSUME ProgressAssumption ==
  /\ Posters \cap Pollers = {}
  /\ Null \notin Posters \cup Pollers \cup Contexts \cup Ops
  /\ Kind \in [Ops -> Kinds]
  /\ PostedBy \in [Ops -> Posters]
  /\ Depth \in [Queues -> Nat]
  /\ MaxPoll \in Nat
  /\ Bypass \subseteq Queues
  /\ DeliverySupported \in BOOLEAN
  /\ InjectReports \in BOOLEAN
  /\ Cancellable \subseteq {o \in Ops : Kind[o] = "recv"}
  /\ Faulty \subseteq Ops

Threads == Posters \cup Pollers

\* The pair of public counters an operation belongs to; inject_write has none.
Class == [o \in Ops |->
  CASE Kind[o] \in {"send", "inject"}    -> "send"
    [] Kind[o] \in {"write", "delivery"} -> "write"
    [] Kind[o] = "signal"                -> "none"
    [] OTHER                             -> Kind[o]]

QueueOf(o) == IF Kind[o] \in {"recv", "data"} THEN "rx" ELSE "tx"

VARIABLES
  todo,       \* operations not begun (data: not yet announced by the peer)
  flight,     \* the live references, see Reference
  live,       \* contexts that are allocated
  pool,       \* contexts on the free list
  callback,   \* m_callback of each context, as the operation it belongs to
  posted,     \* sends_posted_, recvs_posted_, ... by class
  complete,   \* sends_complete_, ..., remote_cq_data_received_ by class
  delivery,   \* communicator::delivery_complete_supported
  lock,       \* send_mutex_ and recv_mutex_: the holder, or Null
  stop,       \* poller_guard::stop
  pc,         \* where each thread is
  queue,      \* which queue a polling thread works on
  processed,  \* completions handled in its current batch
  retry,      \* the retry flag of its poll_for_work_completions
  target,     \* the write count each poster waits for
  counted,    \* history: operations whose completion was counted
  called      \* history: how often the callback of an operation ran

pollVars == <<queue, processed, retry>>
ledgerVars == <<posted, complete, counted, called>>
ctxVars == <<live, pool, callback>>
vars == <<todo, flight, ctxVars, ledgerVars, delivery, lock, stop, pc, pollVars, target>>

\* post: about to be handed to the provider       injected, returning: an
\* inject call the poster has still to count, to call back
\* net, echo: with the provider                   cq: in a completion queue
\* cancelled, failed: in its error queue          batch: in a poller's entries
\* call: counted, handler to run                  push: handled, to be recycled
Stages == {"post", "injected", "returning", "net", "echo", "cq", "cancelled", "failed",
           "batch", "call", "push"}

Reference == [op : Ops, ctx : Contexts \cup {Null}, st : Stages, by : Threads \cup {Null}]

Ref(o, c, s, t) == [op |-> o, ctx |-> c, st |-> s, by |-> t]

PollSteps == {"lock", "read", "cancel", "unlock", "work", "call", "push"}
Steps == PollSteps \cup {"ready", "post", "inject", "inject_call", "wait_writes",
                         "wait_reads", "done", "asleep", "exited", "dead"}

TypeOK ==
  /\ todo \subseteq Ops
  /\ flight \subseteq Reference
  /\ live \subseteq Contexts
  /\ pool \subseteq Contexts
  /\ callback \in [Contexts -> Ops \cup {Null}]
  /\ posted \in [Classes -> Nat]
  /\ complete \in [Classes -> Nat]
  /\ delivery \in BOOLEAN
  /\ lock \in [Queues -> Threads \cup {Null}]
  /\ stop \in BOOLEAN
  /\ pc \in [Threads -> Steps]
  /\ queue \in [Threads -> Queues]
  /\ processed \in [Threads -> Nat]
  /\ retry \in [Threads -> BOOLEAN]
  /\ target \in [Posters -> Nat]
  /\ counted \subseteq Ops
  /\ called \in [Ops -> Nat]

Init ==
  /\ todo = Ops
  /\ flight = {}
  /\ live = {}
  /\ pool = {}
  /\ callback = [c \in Contexts |-> Null]
  /\ posted = [k \in Classes |-> 0]
  /\ complete = [k \in Classes |-> 0]
  /\ delivery = TRUE
  /\ lock = [q \in Queues |-> Null]
  /\ stop = FALSE
  /\ pc = [t \in Threads |-> IF t \in Posters THEN "ready" ELSE "asleep"]
  /\ queue = [t \in Threads |-> "tx"]
  /\ processed = [t \in Threads |-> 0]
  /\ retry = [t \in Threads |-> FALSE]
  /\ target = [t \in Posters |-> 0]
  /\ counted = {}
  /\ called = [o \in Ops |-> 0]

-----------------------------------------------------------------------------
(* Helpers.                                                                *)

Goto(t, step) == pc' = [pc EXCEPT ![t] = step]

Die == pc' = [t \in Threads |-> "dead"]

Held(t, s) == {i \in flight : i.by = t /\ i.st = s}

Move(i, s, t) == flight' = (flight \ {i}) \cup {Ref(i.op, i.ctx, s, t)}

\* Faulty variant: the reference outlives its use.
DropForgotten(i) == flight' = flight

Drop(i) == flight' = flight \ {i}

Bump(counter, k, exempt) ==
  IF k \in exempt THEN counter ELSE [counter EXCEPT ![k] = @ + 1]

\* What the provider holds of one queue: accepted, or completed and not read.
Outstanding(q) ==
  {i \in flight : /\ i.st \in {"net", "cq", "cancelled", "failed"}
                  /\ QueueOf(i.op) = q /\ Kind[i.op] # "data"}

Entries(q, s) == {i \in flight : i.st = s /\ QueueOf(i.op) = q}

\* Faulty variant: the result of a failed pop is used as it is.
AcquirableUnchecked == IF pool # {} THEN pool ELSE {Null}

\* The context acquire_from_pool returns: a pooled one, else a new one.
Acquirable == IF pool # {} THEN pool ELSE Contexts \ live

\* A call of poll_for_work_completions begins with the send queue.
StartPoll(t) ==
  /\ Goto(t, "lock")
  /\ queue' = [queue EXCEPT ![t] = "tx"]
  /\ processed' = [processed EXCEPT ![t] = 0]
  /\ retry' = [retry EXCEPT ![t] = FALSE]

\* It continues with the receive queue, r telling whether the sends filled a batch.
PollReceives(t, r) ==
  /\ Goto(t, "lock")
  /\ queue' = [queue EXCEPT ![t] = "rx"]
  /\ processed' = [processed EXCEPT ![t] = 0]
  /\ retry' = [retry EXCEPT ![t] = r]

\* It returns to the poll thread's loop or to the FI_EAGAIN loop of the poster.
EndPoll(t) ==
  /\ Goto(t, IF t \in Pollers THEN "asleep" ELSE "post")
  /\ queue' = [queue EXCEPT ![t] = "tx"]
  /\ processed' = [processed EXCEPT ![t] = 0]
  /\ retry' = [retry EXCEPT ![t] = FALSE]

\* Faulty variant: the lock object outlives the block it guards.
UnlockForgotten(q) == lock' = lock

Unlock(q) == lock' = IF q \in Bypass THEN lock ELSE [lock EXCEPT ![q] = Null]
-----------------------------------------------------------------------------
(* Posting.  The counter and the context are the caller's own business     *)
(* before the fi_* call, so taking both is one step.                       *)

BeginWithContext(t, o) ==
  /\ pc[t] = "ready"
  /\ o \in todo /\ PostedBy[o] = t /\ Kind[o] \in WithContext
  /\ \E c \in Acquirable :
       /\ pool' = pool \ {c}
       /\ live' = live \cup {c}
       /\ callback' = [callback EXCEPT ![c] = o]
       /\ flight' = flight \cup {Ref(o, c, "post", t)}
  /\ todo' = todo \ {o}
  /\ posted' = [posted EXCEPT ![Class[o]] = @ + 1]
  /\ Goto(t, "post")
  /\ UNCHANGED <<complete, counted, called, delivery, lock, stop, pollVars, target>>

BeginInject(t, o) ==
  /\ pc[t] = "ready"
  /\ o \in todo /\ PostedBy[o] = t /\ Kind[o] \in {"inject", "signal"}
  /\ flight' = flight \cup {Ref(o, Null, "post", t)}
  /\ todo' = todo \ {o}
  /\ posted' = Bump(posted, Class[o], {"none"})
  /\ Goto(t, "post")
  /\ UNCHANGED <<ctxVars, complete, counted, called, delivery, lock, stop, pollVars, target>>

HasRoom(q) == Cardinality(Outstanding(q)) < Depth[q]

\* fi_writemsg with FI_DELIVERY_COMPLETE is about to be tried on reference i.
WantsDelivery(i) == Kind[i.op] = "delivery" /\ delivery

\* The provider takes the operation and the posting call returns.
Accepted(t) ==
  /\ pc[t] = "post"
  /\ \E i \in Held(t, "post") :
       /\ Kind[i.op] \in WithContext
       /\ WantsDelivery(i) => DeliverySupported
       /\ HasRoom(QueueOf(i.op))
       /\ Move(i, "net", Null)
  /\ Goto(t, "ready")
  /\ UNCHANGED <<todo, ctxVars, ledgerVars, delivery, lock, stop, pollVars, target>>

\* An inject copies the buffer; no completion is owed, save an "echo" the
\* provider may report with a null context.
AcceptedInject(t) ==
  /\ pc[t] = "post"
  /\ \E i \in Held(t, "post") :
       /\ Kind[i.op] \notin WithContext
       /\ HasRoom("tx")
       /\ flight' = (flight \ {i}) \cup
            {Ref(i.op, Null, "injected", t), Ref(i.op, Null, "echo", Null)}
  /\ Goto(t, "inject")
  /\ UNCHANGED <<todo, ctxVars, ledgerVars, delivery, lock, stop, pollVars, target>>

\* -FI_EAGAIN: poll for completions, then try again.
Again(t) ==
  /\ pc[t] = "post"
  /\ \E i \in Held(t, "post") :
       /\ WantsDelivery(i) => DeliverySupported
       /\ ~HasRoom(QueueOf(i.op))
  /\ StartPoll(t)
  /\ UNCHANGED <<todo, flight, ctxVars, ledgerVars, delivery, lock, stop, target>>

\* The provider rejects FI_DELIVERY_COMPLETE: remember it and fall back.
DeliveryRejected(t) ==
  /\ pc[t] = "post"
  /\ ~DeliverySupported
  /\ \E i \in Held(t, "post") : WantsDelivery(i)
  /\ delivery' = FALSE
  /\ UNCHANGED <<todo, flight, ctxVars, ledgerVars, lock, stop, pc, pollVars, target>>

\* -FI_ENOENT terminates, and so does constructing the fabric_error to throw.
PostFailed(t) ==
  /\ pc[t] = "post"
  /\ \E i \in Held(t, "post") : i.op \in Faulty
  /\ Die
  /\ UNCHANGED <<todo, flight, ctxVars, ledgerVars, delivery, lock, stop, pollVars, target>>

\* After an inject the poster counts the send itself ...
InjectCounted(t) ==
  /\ pc[t] = "inject"
  /\ \E i \in Held(t, "injected") :
       /\ complete' = Bump(complete, Class[i.op], {"none"})
       /\ counted' = counted \cup {i.op}
       /\ Move(i, "returning", t)
  /\ Goto(t, "inject_call")
  /\ UNCHANGED <<todo, ctxVars, posted, called, delivery, lock, stop, pollVars, target>>

\* ... and runs the callback before it returns.
InjectCalled(t) ==
  /\ pc[t] = "inject_call"
  /\ \E i \in Held(t, "returning") :
       /\ called' = [called EXCEPT ![i.op] = @ + 1]
       /\ Drop(i)
  /\ Goto(t, "ready")
  /\ UNCHANGED <<todo, ctxVars, posted, complete, counted, delivery, lock, stop, pollVars, target>>
-----------------------------------------------------------------------------
(* The provider and the peers (external).                                  *)

NetCompletes(i) ==
  /\ i.st = "net"
  /\ \/ Move(i, "cq", Null)
     \/ i.op \in Cancellable /\ Move(i, "cancelled", Null)
     \/ i.op \in Faulty /\ Move(i, "failed", Null)
  /\ UNCHANGED <<todo, ctxVars, ledgerVars, delivery, lock, stop, pc, pollVars, target>>

NetEchoes(i) ==
  /\ i.st = "echo"
  /\ IF InjectReports /\ Kind[i.op] = "signal" THEN Move(i, "cq", Null) ELSE Drop(i)
  /\ UNCHANGED <<todo, ctxVars, ledgerVars, delivery, lock, stop, pc, pollVars, target>>

RemoteWrite(o) ==
  /\ o \in todo /\ Kind[o] = "data"
  /\ todo' = todo \ {o}
  /\ flight' = flight \cup {Ref(o, Null, "cq", Null)}
  /\ UNCHANGED <<ctxVars, ledgerVars, delivery, lock, stop, pc, pollVars, target>>
-----------------------------------------------------------------------------
(* Polling one queue.  Sends: try the lock, skip the queue when it is      *)
(* taken.  Receives: wait for the lock.                                    *)

TakeLock(t) ==
  /\ pc[t] = "lock"
  /\ queue[t] \notin Bypass
  /\ lock[queue[t]] = Null
  /\ lock' = [lock EXCEPT ![queue[t]] = t]
  /\ Goto(t, "read")
  /\ UNCHANGED <<todo, flight, ctxVars, ledgerVars, delivery, stop, pollVars, target>>

\* poll_send_queue returns -1, which is no full batch.
SendsBusy(t) ==
  /\ pc[t] = "lock"
  /\ queue[t] = "tx" /\ "tx" \notin Bypass
  /\ lock["tx"] # Null
  /\ PollReceives(t, FALSE)
  /\ UNCHANGED <<todo, flight, ctxVars, ledgerVars, delivery, lock, stop, target>>

MayRead(t) == pc[t] = IF queue[t] \in Bypass THEN "lock" ELSE "read"

\* What fi_cq_read may return: some completions if there are any, at most MaxPoll.
Batches(q) ==
  {B \in SUBSET Entries(q, "cq") :
     /\ Cardinality(B) <= MaxPoll
     /\ B = {} => \/ MaxPoll = 0
                  \/ Entries(q, "cq") \cup Entries(q, "cancelled") \cup Entries(q, "failed") = {}}

Read(t) ==
  /\ MayRead(t)
  /\ \E B \in Batches(queue[t]) :
       flight' = (flight \ B) \cup {Ref(i.op, i.ctx, "batch", t) : i \in B}
  /\ Unlock(queue[t])
  /\ Goto(t, "work")
  /\ UNCHANGED <<todo, ctxVars, ledgerVars, delivery, stop, pollVars, target>>

\* An error entry that is no cancellation ends in handle_error: std::terminate.
ReadError(t) ==
  /\ MayRead(t)
  /\ Entries(queue[t], "failed") # {}
  /\ Die
  /\ UNCHANGED <<todo, flight, ctxVars, ledgerVars, delivery, lock, stop, pollVars, target>>

\* A cancelled receive is handled at once, the lock still held.
ReadCancelled(t) ==
  /\ MayRead(t)
  /\ queue[t] = "rx"
  /\ \E i \in Entries("rx", "cancelled") : Move(i, "call", t)
  /\ Goto(t, "cancel")
  /\ UNCHANGED <<todo, ctxVars, ledgerVars, delivery, lock, stop, pollVars, target>>

\* Faulty variant: recycle() does not reset m_callback.
CallbackKept(c) == callback' = callback

ClearCallback(c) == callback' = [callback EXCEPT ![c] = Null]

\* The handler runs the callback its context holds, then clears it.
Invoke(t) ==
  \E i \in Held(t, "call") :
    /\ i.ctx # Null
    /\ called' = IF callback[i.ctx] = Null THEN called
                 ELSE [called EXCEPT ![callback[i.ctx]] = @ + 1]
    /\ ClearCallback(i.ctx)
    /\ Move(i, "push", t)

\* The free list takes the context back, or the push fails and it is deleted.
Recycle(t) ==
  \E i \in Held(t, "push") :
    /\ Drop(i)
    /\ \/ pool' = pool \cup {i.ctx} /\ live' = live
       \/ pool' = pool /\ live' = live \ {i.ctx}

CancelCalled(t) ==
  /\ pc[t] = "cancel"
  /\ Invoke(t)
  /\ Goto(t, "unlock")
  /\ UNCHANGED <<todo, live, pool, posted, complete, counted, delivery, lock, stop, pollVars, target>>

CancelRecycled(t) ==
  /\ pc[t] = "unlock"
  /\ Recycle(t)
  /\ Unlock("rx")
  /\ Goto(t, "work")
  /\ UNCHANGED <<todo, callback, ledgerVars, delivery, stop, pollVars, target>>

\* Faulty variants: no increment; a write taken for a send.
CountForgotten(i) == UNCHANGED <<complete, counted>>
CountAsSend(i) ==
  /\ complete' = [complete EXCEPT ![IF QueueOf(i.op) = "tx" THEN "send" ELSE Class[i.op]] = @ + 1]
  /\ counted' = counted \cup {i.op}

\* The flags of the entry select the counter; a reported inject is a write.
CountCompletion(i) ==
  /\ complete' = [complete EXCEPT ![IF Kind[i.op] = "signal" THEN "write" ELSE Class[i.op]] = @ + 1]
  /\ counted' = counted \cup {i.op}

\* One entry of the batch: its counter first ...
Count(t) ==
  /\ pc[t] = "work"
  /\ \E i \in Held(t, "batch") : Move(i, "call", t) /\ CountCompletion(i)
  /\ Goto(t, "call")
  /\ UNCHANGED <<todo, ctxVars, posted, called, delivery, lock, stop, pollVars, target>>

\* ... then the handler of its context, ...
Called(t) ==
  /\ pc[t] = "call"
  /\ Invoke(t)
  /\ Goto(t, "push")
  /\ UNCHANGED <<todo, live, pool, posted, complete, counted, delivery, lock, stop, pollVars, target>>

\* ... or the remote-data callback, or nothing for an injected write.
CalledWithoutContext(t) ==
  /\ pc[t] = "call"
  /\ \E i \in Held(t, "call") :
       /\ i.ctx = Null
       /\ called' = IF Kind[i.op] = "data" THEN [called EXCEPT ![i.op] = @ + 1] ELSE called
       /\ Drop(i)
  /\ Goto(t, "work")
  /\ UNCHANGED <<todo, ctxVars, posted, complete, counted, delivery, lock, stop, pollVars, target>>

Recycled(t) ==
  /\ pc[t] = "push"
  /\ Recycle(t)
  /\ processed' = [processed EXCEPT ![t] = @ + 1]
  /\ Goto(t, "work")
  /\ UNCHANGED <<todo, callback, ledgerVars, delivery, lock, stop, queue, retry, target>>

\* Faulty variant: a batch that was not filled is retried too.
FullOrLess(t) == processed[t] <= MaxPoll

Full(t) == processed[t] = MaxPoll

\* A poll that filled a batch on either queue goes round again.
BatchDone(t) ==
  /\ pc[t] = "work"
  /\ Held(t, "batch") = {}
  /\ \/ queue[t] = "tx" /\ PollReceives(t, Full(t))
     \/ queue[t] = "rx" /\ (retry[t] \/ Full(t)) /\ StartPoll(t)
     \/ queue[t] = "rx" /\ ~(retry[t] \/ Full(t)) /\ EndPoll(t)
  /\ UNCHANGED <<todo, flight, ctxVars, ledgerVars, delivery, lock, stop, target>>
-----------------------------------------------------------------------------
(* The loops around: poll threads, the waits of a poster, the guard.       *)

PollerPolls(t) ==
  /\ t \in Pollers /\ pc[t] = "asleep" /\ ~stop
  /\ StartPoll(t)
  /\ UNCHANGED <<todo, flight, ctxVars, ledgerVars, delivery, lock, stop, target>>

PollerExits(t) ==
  /\ t \in Pollers /\ pc[t] = "asleep" /\ stop
  /\ Goto(t, "exited")
  /\ UNCHANGED <<todo, flight, ctxVars, ledgerVars, delivery, lock, stop, pollVars, target>>

\* Faulty variant: only the sends are waited for.
SendsComplete == complete["send"] >= posted["send"]

MsgsComplete == complete["send"] >= posted["send"] /\ complete["recv"] >= posted["recv"]

\* wait_for_msg_completions, then the write target is read ...
MsgsAwaited(t) ==
  /\ pc[t] = "ready" /\ \A o \in todo : PostedBy[o] = t => Kind[o] = "data"
  /\ MsgsComplete
  /\ target' = [target EXCEPT ![t] = posted["write"]]
  /\ Goto(t, "wait_writes")
  /\ UNCHANGED <<todo, flight, ctxVars, ledgerVars, delivery, lock, stop, pollVars>>

\* ... for wait_for_write_completions.
WritesAwaited(t) ==
  /\ pc[t] = "wait_writes"
  /\ complete["write"] >= target[t]
  /\ Goto(t, "wait_reads")
  /\ UNCHANGED <<todo, flight, ctxVars, ledgerVars, delivery, lock, stop, pollVars, target>>

ReadsAwaited(t) ==
  /\ pc[t] = "wait_reads"
  /\ complete["read"] >= posted["read"]
  /\ Goto(t, "done")
  /\ UNCHANGED <<todo, flight, ctxVars, ledgerVars, delivery, lock, stop, pollVars, target>>

\* ~poller_guard: set the stop flag; the join is over when all have exited.
StopPollers ==
  /\ ~stop /\ \A t \in Posters : pc[t] = "done"
  /\ stop' = TRUE
  /\ UNCHANGED <<todo, flight, ctxVars, ledgerVars, delivery, lock, pc, pollVars, target>>

Joined == stop /\ \A t \in Pollers : pc[t] = "exited"

Over == Joined \/ \A t \in Threads : pc[t] = "dead"

Finished == Over /\ UNCHANGED vars
-----------------------------------------------------------------------------

Post(t) ==
  \/ Accepted(t) \/ AcceptedInject(t) \/ Again(t) \/ DeliveryRejected(t) \/ PostFailed(t)
  \/ InjectCounted(t) \/ InjectCalled(t)

Poll(t) ==
  \/ TakeLock(t) \/ SendsBusy(t) \/ Read(t) \/ ReadError(t)
  \/ ReadCancelled(t) \/ CancelCalled(t) \/ CancelRecycled(t)
  \/ Count(t) \/ Called(t) \/ CalledWithoutContext(t) \/ Recycled(t) \/ BatchDone(t)

Loop(t) ==
  \/ PollerPolls(t) \/ PollerExits(t)

Wait(t) == MsgsAwaited(t) \/ WritesAwaited(t) \/ ReadsAwaited(t)

Begin(t, o) == BeginWithContext(t, o) \/ BeginInject(t, o)

Net == \E i \in flight : NetCompletes(i) \/ NetEchoes(i)

Next ==
  \/ \E t \in Threads : Post(t) \/ Poll(t) \/ Loop(t)
  \/ \E t \in Posters : Wait(t) \/ \E o \in Ops : Begin(t, o)
  \/ Net
  \/ \E o \in Ops : RemoteWrite(o)
  \/ StopPollers
  \/ Finished

Spec == Init /\ [][Next]_vars

(***************************************************************************)
(* The operating system runs every thread, the provider completes what it  *)
(* accepted.  Nothing is assumed of peers that write unasked, and no       *)
(* mutex is assumed to be fair.                                            *)
(***************************************************************************)
Fairness ==
  /\ \A t \in Threads : WF_vars(Post(t) \/ Poll(t) \/ Loop(t))
  /\ \A t \in Posters : WF_vars(Wait(t) \/ \E o \in Ops : Begin(t, o))
  /\ \A o \in Ops : WF_vars(\E i \in flight : i.op = o /\ (NetCompletes(i) \/ NetEchoes(i)))
  /\ WF_vars(StopPollers)

FairSpec == Spec /\ Fairness
-----------------------------------------------------------------------------
(* Safety.                                                                 *)

\* Every allocated operation context is on the free list or referred to by
\* exactly one of: the posting call, the provider, one poller (acquire_from_pool,
\* recycle, the completion handlers).  None is lost and none is shared.
OneOwner ==
  /\ \A i, j \in flight : i.ctx # Null /\ i.ctx = j.ctx => i = j
  /\ \A i \in flight : i.ctx # Null => i.ctx \notin pool
  /\ live = pool \cup {i.ctx : i \in {j \in flight : j.ctx # Null}}

\* The callback a context carries is the one of the operation it was posted
\* for, until the handler runs it; then it is empty until the next acquire.
OwnCallback ==
  \A i \in flight : i.ctx # Null =>
    callback[i.ctx] = IF i.st = "push" THEN Null ELSE i.op

\* No callback runs twice, or before the completion it reports was counted.
CalledOnce ==
  \A o \in Ops : /\ called[o] <= 1
                 /\ called[o] = 1 => o \in counted \/ o \in Cancellable

Pending(k) ==
  {o \in Ops \ todo : Class[o] = k /\ o \notin counted}

\* posted - complete is the number of operations still to be counted, the
\* equation every wait and every throttle of the clients relies on.
Balanced ==
  \A k \in {"send", "recv", "read", "write"} :
    posted[k] = complete[k] + Cardinality(Pending(k))

\* The clients' callbacks run outside the locked region of a poll, and only
\* the holder of a queue's lock reads it.
LockDiscipline ==
  \A t \in Threads :
    /\ pc[t] \in {"work", "call", "push", "asleep", "ready"} => \A q \in Queues : lock[q] # t
    /\ pc[t] \in {"read", "cancel", "unlock"} /\ queue[t] \notin Bypass => lock[queue[t]] = t

\* When the poller_guard is gone, every operation the posters began has been
\* counted and called back, and every context is back on the free list.
NothingLeftAfterJoin ==
  Joined => /\ \A o \in Ops : Kind[o] # "data" => called[o] = 1
            /\ live = pool
-----------------------------------------------------------------------------
(* Refinement and liveness.                                                *)

Ledger == INSTANCE OpLedger WITH
  begun <- Ops \ todo,
  Unposted <- {"data", "none"},
  Uncounted <- {"none"}

\* Whatever the threads do, the rank keeps the ledger.
KeepsLedger == Ledger!Spec

\* Thread t waits for the mutex of the receive queue, which is free again and
\* again.
Starves(t) ==
  /\ <>[](pc[t] = "lock" /\ queue[t] = "rx")
  /\ []<>(lock["rx"] = Null)

\* The whole run comes to its end, no operation, poll or wait hangs: unless
\* pollers keep a poster from the receive mutex for ever, which is blocking
\* where that of the send queue is tried (controller_base.hpp:1542-1546, 1730).
EverythingFinishes == <>Joined \/ \E t \in Posters : Starves(t)

\* An operation the provider took is called back, though pollers skip a busy
\* send queue and no mutex is fair.
AcceptedIsServed ==
  \A o \in Ops : (\E i \in flight : i.op = o /\ i.st = "net") ~> called[o] = 1
=============================================================================
