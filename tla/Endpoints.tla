------------------------------ MODULE Endpoints ------------------------------
(***************************************************************************)
(* The life of one rank's controller: initialize for the five endpoint     *)
(* types, the endpoints that threads get for themselves, the memory that   *)
(* is registered on top of them, and the destructors that close it all     *)
(* while threads exit.  The main thread follows the main functions of the  *)
(* tests: controller, PMI, initialize, heap, communicator, poll threads,   *)
(* work, and the same backwards.                                           *)
(*                                                                         *)
(* A libfabric object is a handle <<kind, name>>.  The handles "ep", "rq"  *)
(* and "tq" with one name make an endpoint_wrapper, so that the wrapper is *)
(* represented by its name: "rx", "tx" and "sx" (the scalable endpoint),   *)
(* the thread for thread-local endpoints, the context for scalable ones.   *)
(* What a poll does with what it reads is in Progress.                     *)
(***************************************************************************)
EXTENDS Naturals, Sequences, SequencesExt

CONSTANTS
  Pollers,     \* the poll threads
  Contexts,    \* the transmit contexts of the provider, a sequence: tx_ctx_cnt
  Asked,       \* the numbers of threads initialize may be asked to serve
  Types,       \* the endpoint types to consider
  Segments,    \* memory_segment objects
  Regions,     \* registrations with the provider
  DummyQueue,  \* the build binds a transmit queue to every receive endpoint
  None

AllTypes == {"single", "multiple", "threadlocalTx", "scalableTx", "scalableTxRx"}
Shared == {"single", "multiple"}
Scalable == {"scalableTx", "scalableTxRx"}

Main == "main"
Users == Pollers \cup {Main}
ContextNames == Range(Contexts)
Names == {"rx", "tx", "sx"} \cup Users \cup ContextNames

Wrappers == [rx : {None, "rx"}, tx : {None, "tx", "sx"}]
NoWrappers == [rx |-> None, tx |-> None]

ASSUME EndpointsAssumption ==
  /\ Types \subseteq AllTypes
  /\ Contexts \in Seq(ContextNames) /\ IsInjective(Contexts)
  /\ Asked \subseteq Nat \ {0}
  /\ DummyQueue \in BOOLEAN
  /\ None \notin Names \cup Regions \cup Wrappers
  /\ Main \notin Pollers
  /\ {"rx", "tx", "sx"} \cap (Users \cup ContextNames) = {}
  /\ Users \cap ContextNames = {}

Kinds == {"send", "recv"}

VARIABLES
  type,     \* endpoint_type_
  mrbind,   \* the provider binds memory to endpoints (FI_MR_ENDPOINT)
  threads,  \* the threads initialize is asked to serve; the tests ask for 2
  plan,     \* what this rank posts
  pc,       \* where each thread is
  died,     \* "no", or what terminated the process
  eps,      \* eps_: the wrappers ep_rx_ and ep_tx_, None before initialize
  pool,     \* tx_endpoints_
  mine,     \* tl_tx_ or tl_stx_ of each thread
  comm,     \* m_tx_endpoint, m_rx_endpoint: the communicator's copies
  open,     \* the handles that are open
  enabled,  \* the endpoints that are enabled
  region,   \* the region_ of each memory_segment
  ops,      \* how far the operation of each kind has come
  buffer    \* the region that operation uses

config == <<type, mrbind, threads, plan>>
opVars == <<ops, buffer>>
vars == <<config, pc, died, eps, pool, mine, comm, open, enabled, region, opVars>>

MainSteps == {"pmi", "fabric", "av", "rx", "txqueue", "tx", "enable", "boot",
  "communicator", "guard", "work", "wait", "stop", "join", "heap",
  "closePools", "closeEndpoints", "closeAv", "closeDomain", "exit", "returned"}
PollSteps == {"unborn", "check", "tx", "rx", "gone"}

Handles == [kind : {"ep", "rq", "tq"}, name : Names]
             \cup [kind : {"mr"}, name : Regions]
             \cup [kind : {"fabric", "domain", "av"}, name : {None}]

\* memory_registration_mode_flags: FI_MR_ENDPOINT is asked for or not.
BindsMemory == BOOLEAN

TypeOK ==
  /\ type \in Types /\ mrbind \in BOOLEAN /\ threads \in Asked /\ plan \subseteq Kinds
  /\ pc \in [Users -> MainSteps \cup PollSteps]
  /\ pc[Main] \in MainSteps /\ \A t \in Pollers : pc[t] \in PollSteps
  /\ died \in {"no", "refused", "null", "noContext", "busy", "deadPool"}
  /\ eps \in Wrappers \cup {None}
  /\ pool \in Seq(Users \cup ContextNames)
  /\ mine \in [Users -> Users \cup ContextNames \cup {None}]
  /\ comm \in [tx : (Names \ {"sx"}) \cup {None}, rx : {None, "rx"}]
  /\ open \subseteq Handles
  /\ enabled \subseteq Names
  /\ region \in [Segments -> Regions \cup {None}]
  /\ ops \in [Kinds -> {"idle", "posted", "complete", "counted"}]
  /\ buffer \in [Kinds -> Regions \cup {None}]

Init ==
  /\ type \in Types /\ mrbind \in BindsMemory /\ threads \in Asked /\ plan \in SUBSET Kinds
  /\ pc = [t \in Users |-> IF t = Main THEN "pmi" ELSE "unborn"]
  /\ died = "no"
  /\ eps = None
  /\ pool = <<>>
  /\ mine = [t \in Users |-> None]
  /\ comm = NoWrappers
  /\ open = {} /\ enabled = {}
  /\ region = [s \in Segments |-> None]
  /\ ops = [k \in Kinds |-> "idle"]
  /\ buffer = [k \in Kinds |-> None]

Running == died = "no"
At(t, step) == Running /\ pc[t] = step
Goto(t, step) == pc' = [pc EXCEPT ![t] = step]

\* fabric_error terminates the process from its constructor; an exception that
\* leaves main or a thread, and a null pointer, end it as well.
Die(cause) ==
  /\ died' = cause
  /\ UNCHANGED <<config, pc, eps, pool, mine, comm, open, enabled, region, opVars>>
-----------------------------------------------------------------------------
(* Handles and what they rest on.                                          *)

H(kind, name) == [kind |-> kind, name |-> name]
Fabric == H("fabric", None)
Domain == H("domain", None)
Av == H("av", None)

\* The handles in a wrapper.  A receive endpoint has a transmit queue when it
\* sends as well, or when the provider cannot enable it without one.
Parts(n) ==
  CASE n = "rx" -> {H("ep", n), H("rq", n)}
                     \cup (IF type = "single" \/ DummyQueue THEN {H("tq", n)} ELSE {})
    [] n = "sx" -> {H("ep", n)}
    [] OTHER -> {H("ep", n), H("tq", n)}

\* What an object was made from or bound to, and may not be closed before it.
RestsOn(h) ==
  CASE h.kind = "fabric" -> {}
    [] h.kind = "domain" -> {Fabric}
    [] h.kind = "ep" -> {Domain, Av} \cup (Parts(h.name) \ {h})
                          \cup (IF h.name \in ContextNames THEN {H("ep", "sx")} ELSE {})
    [] h.kind = "mr" -> {Domain} \cup (IF mrbind THEN {H("ep", "rx")} ELSE {})
    [] OTHER -> {Domain}

\* fi_close answers FI_EBUSY while an open object rests on h.
Busy(h, opened) == \E u \in opened : h \in RestsOn(u)

\* endpoint_wrapper::cleanup: the endpoint, then its queues.
CleanupFails(n, opened) ==
  \/ Busy(H("ep", n), opened)
  \/ \E q \in Parts(n) \ {H("ep", n)} : Busy(q, opened \ {H("ep", n)})
-----------------------------------------------------------------------------
(* initialize, called by the main thread.                                  *)

\* pmi-boot-libfabric returns before initialize when the job has a wrong size.
StartUp ==
  /\ At(Main, "pmi")
  /\ Goto(Main, "fabric") \/ Goto(Main, "closePools")
  /\ UNCHANGED <<config, died, eps, pool, mine, comm, open, enabled, region, opVars>>

\* eps_ is made, and open_fabric negotiates with the provider.
OpenFabric ==
  /\ At(Main, "fabric")
  /\ eps' = NoWrappers
  /\ open' = open \cup {Fabric, Domain}
  /\ Goto(Main, "av")
  /\ UNCHANGED <<config, died, pool, mine, comm, enabled, region, opVars>>

CreateAv ==
  /\ At(Main, "av")
  /\ open' = open \cup {Av}
  /\ Goto(Main, "rx")
  /\ UNCHANGED <<config, died, eps, pool, mine, comm, enabled, region, opVars>>

\* create_rx_endpoint, which scalable receive contexts would replace.
CreateRx ==
  /\ At(Main, "rx")
  /\ IF type = "scalableTxRx" THEN UNCHANGED <<eps, open>>
     ELSE /\ eps' = [eps EXCEPT !.rx = "rx"]
          /\ open' = open \cup {H("ep", "rx"), H("rq", "rx")}
  /\ Goto(Main, "txqueue")
  /\ UNCHANGED <<config, died, pool, mine, comm, enabled, region, opVars>>

\* bind_tx_queue_to_rx_endpoint: to send with ("single"), or as a dummy.
BindTxQueue ==
  /\ At(Main, "txqueue")
  /\ open' = IF eps.rx = None THEN open ELSE open \cup Parts("rx")
  /\ Goto(Main, "tx")
  /\ UNCHANGED <<config, died, eps, pool, mine, comm, enabled, region, opVars>>

CreateTx ==
  /\ At(Main, "tx") /\ type = "multiple"
  /\ open' = open \cup Parts("tx")
  /\ enabled' = enabled \cup {"tx"}
  /\ eps' = [eps EXCEPT !.tx = "tx"]
  /\ Goto(Main, "enable")
  /\ UNCHANGED <<config, died, pool, mine, comm, region, opVars>>

\* Nothing to do: the receive endpoint sends, or each thread makes its own.
NoTx ==
  /\ At(Main, "tx") /\ type \in {"single", "threadlocalTx"}
  /\ Goto(Main, "enable")
  /\ UNCHANGED <<config, died, eps, pool, mine, comm, open, enabled, region, opVars>>

\* As many contexts as threads were asked for and the provider has.
Allocated == SubSeq(Contexts, 1, IF threads < Len(Contexts) THEN threads ELSE Len(Contexts))

CreateContexts ==
  /\ At(Main, "tx") /\ type \in Scalable
  /\ open' = open \cup {H("ep", "sx")} \cup UNION {Parts(c) : c \in Range(Allocated)}
  /\ enabled' = enabled \cup Range(Allocated)
  /\ pool' = pool \o Allocated
  /\ eps' = [eps EXCEPT !.tx = "sx"]
  /\ Goto(Main, "enable")
  /\ UNCHANGED <<config, died, mine, comm, region, opVars>>

\* The receive endpoint is enabled for its address, for every type.
EnableRx ==
  /\ At(Main, "enable")
  /\ IF eps.rx = None THEN Die("null")
     ELSE /\ enabled' = enabled \cup {"rx"}
          /\ Goto(Main, "boot")
          /\ UNCHANGED <<config, died, eps, pool, mine, comm, open, region, opVars>>

\* boot_PMI publishes this rank's address and inserts those of all ranks into the
\* address vector, in one step: its peers are not in this module.  The tests return
\* here from a job of one rank, and the boot test ends.
Boot ==
  /\ At(Main, "boot")
  /\ Goto(Main, "communicator") \/ Goto(Main, "closePools")
  /\ UNCHANGED <<config, died, eps, pool, mine, comm, open, enabled, region, opVars>>
-----------------------------------------------------------------------------
(* The endpoint of a thread: get_tx_endpoint, get_rx_endpoint.             *)

\* The constructor of the communicator and every poll ask for an endpoint.
Asking(t) == At(t, IF t = Main THEN "communicator" ELSE "tx")

HasNone(t) == type \notin Shared /\ mine[t] = None

TxOf(t) ==
  CASE type = "single" -> eps.rx
    [] type = "multiple" -> eps.tx
    [] OTHER -> mine[t]

\* Faulty variant: only the thread knows its endpoint.
Forget(n) == pool

\* The wrapper of a new thread-local endpoint is also kept in the pool, for the
\* destructor to find it.
Remember(n) == Append(pool, n)

CreateOwn(t) ==
  /\ Asking(t) /\ HasNone(t) /\ type = "threadlocalTx"
  /\ open' = open \cup Parts(t)
  /\ enabled' = enabled \cup {t}
  /\ pool' = Remember(t)
  /\ mine' = [mine EXCEPT ![t] = t]
  /\ UNCHANGED <<config, pc, died, eps, comm, region, opVars>>

\* Faulty variant: the temporary keeps its pool_, and its destructor pushes.
TakenAndPushed == Append(Tail(pool), Head(pool))

\* The pool once its head was moved into tl_stx_: stack_endpoint::operator=
\* takes the temporary's pool_ away, whose destructor then pushes nothing.
Taken == Tail(pool)

PopOwn(t) ==
  /\ Asking(t) /\ HasNone(t) /\ type \in Scalable
  /\ IF pool = <<>> THEN Die("noContext")
     ELSE /\ pool' = Taken
          /\ mine' = [mine EXCEPT ![t] = Head(pool)]
          /\ UNCHANGED <<config, pc, died, eps, comm, open, enabled, region, opVars>>

\* Faulty variant: pool_ is not tested for null.
AlwaysGivesBack(t) == TRUE

\* The thread-local destructors of a thread that exits, ~stack_endpoint: a
\* context goes back; pool_ of a thread-local endpoint is null.
GivesBack(t) == type \in Scalable /\ mine[t] # None

CopyEndpoints ==
  /\ At(Main, "communicator") /\ ~HasNone(Main)
  /\ comm' = [tx |-> TxOf(Main), rx |-> eps.rx]
  /\ Goto(Main, "guard")
  /\ UNCHANGED <<config, died, eps, pool, mine, open, enabled, region, opVars>>

\* poller_guard
SpawnPollers ==
  /\ At(Main, "guard")
  /\ pc' = [t \in Users |-> IF t = Main THEN "work" ELSE "check"]
  /\ UNCHANGED <<config, died, eps, pool, mine, comm, open, enabled, region, opVars>>
-----------------------------------------------------------------------------
(* Memory segments.                                                        *)

\* The registering constructor, called by the heap.
Register(s, r) ==
  /\ At(Main, "work") /\ region[s] = None /\ H("mr", r) \notin open
  /\ open' = open \cup {H("mr", r)}
  /\ region' = [region EXCEPT ![s] = r]
  /\ UNCHANGED <<config, pc, died, eps, pool, mine, comm, enabled, opVars>>

\* Faulty variant: both segments have the region.
Copied(s, d) == [region EXCEPT ![d] = region[s]]

\* The move constructor leaves the moved-from segment without a region.
Moved(s, d) == [region EXCEPT ![d] = region[s], ![s] = None]

Move(s, d) ==
  /\ At(Main, "work") /\ region[s] # None /\ region[d] = None
  /\ region' = Moved(s, d)
  /\ UNCHANGED <<config, pc, died, eps, pool, mine, comm, open, enabled, opVars>>

\* ~memory_segment: a failure to close the region is only logged.
Release(s) ==
  /\ At(Main, "heap") /\ region[s] # None
  /\ open' \in {open \ {H("mr", region[s])}, open}
  /\ region' = [region EXCEPT ![s] = None]
  /\ UNCHANGED <<config, pc, died, eps, pool, mine, comm, enabled, opVars>>
-----------------------------------------------------------------------------
(* The work of the main thread, and polling.                               *)

EndpointFor(k) == IF k = "send" THEN comm.tx ELSE comm.rx

Post(k, s) ==
  /\ At(Main, "work") /\ k \in plan /\ ops[k] = "idle" /\ region[s] # None
  /\ ops' = [ops EXCEPT ![k] = "posted"]
  /\ buffer' = [buffer EXCEPT ![k] = region[s]]
  /\ UNCHANGED <<config, pc, died, eps, pool, mine, comm, open, enabled, region>>

\* The provider completes an operation into the queue of its endpoint.
NetCompletes(k) ==
  /\ Running /\ ops[k] = "posted"
  /\ ops' = [ops EXCEPT ![k] = "complete"]
  /\ UNCHANGED <<config, pc, died, eps, pool, mine, comm, open, enabled, region, buffer>>

\* Faulty variant: both queues are polled on the endpoint that sends.
PolledOnTx(t, k) ==
  IF ops[k] = "complete" /\ EndpointFor(k) = TxOf(t) THEN "counted" ELSE ops[k]

\* What becomes of the operation k when t polls the queue that may have it.
Polled(t, k) ==
  IF ops[k] = "complete" /\ EndpointFor(k) = (IF k = "send" THEN TxOf(t) ELSE eps.rx)
  THEN "counted" ELSE ops[k]

\* A post that meets FI_EAGAIN polls both queues.
MainPolls ==
  /\ At(Main, "work") /\ \E k \in plan : ops[k] = "idle"
  /\ ops' = [k \in Kinds |-> Polled(Main, k)]
  /\ UNCHANGED <<config, pc, died, eps, pool, mine, comm, open, enabled, region, buffer>>

AllPosted ==
  /\ At(Main, "work") /\ \A k \in plan : ops[k] # "idle"
  /\ Goto(Main, "wait")
  /\ UNCHANGED <<config, died, eps, pool, mine, comm, open, enabled, region, opVars>>

AllCounted == \A k \in plan : ops[k] = "counted"

Awaited ==
  /\ At(Main, "wait") /\ AllCounted
  /\ Goto(Main, "stop")
  /\ UNCHANGED <<config, died, eps, pool, mine, comm, open, enabled, region, opVars>>

\* ~poller_guard sets the flag, then joins.
StopPollers ==
  /\ At(Main, "stop")
  /\ Goto(Main, "join")
  /\ UNCHANGED <<config, died, eps, pool, mine, comm, open, enabled, region, opVars>>

Stopped == pc[Main] = "join"

\* Faulty variant: the guard does not join.
NotJoined == TRUE

Joined == \A t \in Pollers : pc[t] = "gone"

JoinPollers ==
  /\ At(Main, "join") /\ Joined
  /\ Goto(Main, "heap")
  /\ UNCHANGED <<config, died, eps, pool, mine, comm, open, enabled, region, opVars>>

Poll(t) ==
  /\ At(t, "check") /\ ~Stopped
  /\ Goto(t, "tx")
  /\ UNCHANGED <<config, died, eps, pool, mine, comm, open, enabled, region, opVars>>

PollSends(t) ==
  /\ At(t, "tx") /\ ~HasNone(t)
  /\ ops' = [ops EXCEPT !["send"] = Polled(t, "send")]
  /\ Goto(t, "rx")
  /\ UNCHANGED <<config, died, eps, pool, mine, comm, open, enabled, region, buffer>>

PollReceives(t) ==
  /\ At(t, "rx")
  /\ ops' = [ops EXCEPT !["recv"] = Polled(t, "recv")]
  /\ Goto(t, "check")
  /\ UNCHANGED <<config, died, eps, pool, mine, comm, open, enabled, region, buffer>>

Exit(t) ==
  /\ At(t, "check") /\ Stopped
  /\ pool' = IF GivesBack(t) THEN Append(pool, mine[t]) ELSE pool
  /\ mine' = [mine EXCEPT ![t] = None]
  /\ Goto(t, "gone")
  /\ UNCHANGED <<config, died, eps, comm, open, enabled, region, opVars>>
-----------------------------------------------------------------------------
(* ~controller_base, after the heap has gone.                              *)

HeapGone ==
  /\ At(Main, "heap") /\ \A s \in Segments : region[s] = None
  /\ Goto(Main, "closePools")
  /\ UNCHANGED <<config, died, eps, pool, mine, comm, open, enabled, region, opVars>>

\* consume_all on both pools; rx_endpoints_ is never filled.
ClosePools ==
  /\ At(Main, "closePools")
  /\ IF \E n \in Range(pool) : CleanupFails(n, open) THEN Die("busy")
     ELSE /\ open' = open \ UNION {Parts(n) : n \in Range(pool)}
          /\ enabled' = enabled \ Range(pool)
          /\ pool' = <<>>
          /\ Goto(Main, "closeEndpoints")
          /\ UNCHANGED <<config, died, eps, mine, comm, region, opVars>>

\* ep_tx_, then ep_rx_, through eps_ whether or not initialize made it.
CloseEndpoints ==
  LET tx == IF eps.tx = None THEN {} ELSE Parts(eps.tx)
      rx == IF eps.rx = None THEN {} ELSE Parts(eps.rx)
  IN /\ At(Main, "closeEndpoints")
     /\ CASE eps = None -> Die("null")
          [] eps # None /\ \/ eps.tx # None /\ CleanupFails(eps.tx, open)
                           \/ eps.rx # None /\ CleanupFails(eps.rx, open \ tx) -> Die("busy")
          [] OTHER ->
               /\ open' = open \ (tx \cup rx)
               /\ enabled' = enabled \ {eps.tx, eps.rx}
               /\ eps' = None
               /\ Goto(Main, "closeAv")
               /\ UNCHANGED <<config, died, pool, mine, comm, region, opVars>>

\* fidclose of one more handle.  Its fabric_error terminates, so that the catch
\* around the domain's never runs.
Close(h, from, to) ==
  /\ At(Main, from)
  /\ IF Busy(h, open) THEN Die("busy")
     ELSE /\ open' = open \ {h}
          /\ Goto(Main, to)
          /\ UNCHANGED <<config, died, eps, pool, mine, comm, enabled, region, opVars>>

CloseAv == Close(Av, "closeAv", "closeDomain")
CloseDomain == Close(Domain, "closeDomain", "exit")

\* The fabric is closed, the controller gone, and main's thread-local
\* destructors run: a context would be pushed into a pool that is no more.
Return ==
  /\ At(Main, "exit")
  /\ IF GivesBack(Main) THEN Die("deadPool")
     ELSE /\ open' = open \ {Fabric}
          /\ Goto(Main, "returned")
          /\ UNCHANGED <<config, died, eps, pool, mine, comm, enabled, region, opVars>>
-----------------------------------------------------------------------------
\* The steps that call the provider for something it may refuse.
CallsProvider(t) ==
  \/ t = Main /\ pc[t] \in {"fabric", "av", "boot", "work"}
  \/ t = Main /\ pc[t] \in {"rx", "txqueue", "enable"} /\ type # "scalableTxRx"
  \/ t = Main /\ pc[t] = "tx" /\ type \in {"multiple"} \cup Scalable
  \/ Asking(t) /\ HasNone(t) /\ type = "threadlocalTx"

Refused(t) == Running /\ CallsProvider(t) /\ Die("refused")

Initialize == StartUp \/ OpenFabric \/ CreateAv \/ CreateRx \/ BindTxQueue
                \/ CreateTx \/ NoTx \/ CreateContexts \/ EnableRx \/ Boot

Work ==
  \/ CopyEndpoints \/ SpawnPollers
  \/ \E s \in Segments, r \in Regions : Register(s, r)
  \/ \E k \in Kinds, s \in Segments : Post(k, s)
  \/ AllPosted \/ Awaited \/ StopPollers \/ JoinPollers

Destroy == (\E s \in Segments : Release(s)) \/ HeapGone
             \/ ClosePools \/ CloseEndpoints \/ CloseAv \/ CloseDomain \/ Return

Own(t) == CreateOwn(t) \/ PopOwn(t)

Poller(t) == Poll(t) \/ PollSends(t) \/ PollReceives(t) \/ Exit(t)

Over ==
  /\ died # "no" \/ pc[Main] = "returned"
  /\ UNCHANGED vars

Next ==
  \/ Initialize \/ Work \/ Destroy \/ MainPolls
  \/ \E s, d \in Segments : Move(s, d)
  \/ \E t \in Users : Own(t) \/ Refused(t)
  \/ \E t \in Pollers : Poller(t)
  \/ \E k \in Kinds : NetCompletes(k)
  \/ Over

Spec == Init /\ [][Next]_vars

Fairness ==
  /\ WF_vars(Initialize \/ Work \/ Destroy \/ Own(Main))
  /\ \A t \in Pollers : WF_vars(Own(t) \/ Poller(t))
  /\ \A k \in Kinds : WF_vars(NetCompletes(k))

FairSpec == Spec /\ Fairness
-----------------------------------------------------------------------------
(* Properties.                                                             *)

\* Endpoints that threads have for themselves (and poll without a lock, as
\* bypass_tx_lock has it for thread-local ones) are never shared, and none is
\* lost: each is in the pool, where the destructor finds it, or the context of one
\* thread, out of the pool until that thread exits.
EndpointsOwned ==
  /\ IsInjective(pool)
  /\ \A t, u \in Users : mine[t] # None /\ t # u => mine[t] # mine[u]
  /\ \A t \in Users : mine[t] # None =>
       (mine[t] \in Range(pool) <=> type = "threadlocalTx") \/ pc[Main] \in
          {"closeEndpoints", "closeAv", "closeDomain", "exit", "returned"}
  /\ \A h \in open : h.kind = "ep" /\ Running =>
       \/ h.name \in Range(pool) \cup Range(mine)
       \/ h.name \in {eps.rx, eps.tx}

\* Each open region is deregistered by exactly one memory_segment, however
\* often the heap moves segments; a segment never holds a closed one.
RegionsOwned ==
  /\ \A s, d \in Segments : region[s] # None /\ s # d => region[s] # region[d]
  /\ \A s \in Segments : region[s] # None => H("mr", region[s]) \in open
  /\ pc[Main] \in {"work", "wait", "stop", "join"} => \A r \in Regions :
       H("mr", r) \in open => \E s \in Segments : region[s] = r

\* Nobody polls a queue that is closed or belongs to an endpoint that is not
\* enabled, and what the provider still works on keeps its endpoint and memory:
\* the waits and the join come before the destructors.
NothingUsedAfterClose ==
  /\ \A t \in Pollers : pc[t] \in {"tx", "rx"} /\ ~HasNone(t) =>
       /\ eps # None
       /\ {H("tq", TxOf(t)), H("rq", eps.rx)} \subseteq open
       /\ {TxOf(t), eps.rx} \subseteq enabled
  /\ \A k \in Kinds : ops[k] = "posted" =>
       /\ EndpointFor(k) \in enabled
       /\ H("mr", buffer[k]) \in open

\* A process that gets through the calls to the provider only dies of a region
\* it could not deregister, of the controller's destructor without initialize,
\* or of scalable endpoints: every type with scalable contexts on the receive
\* side, a thread more than contexts, and main's own context, which is still out
\* when the destructor closes the scalable endpoint.
DiesOnlyOf ==
  /\ died = "null" => eps = None \/ type = "scalableTxRx"
  /\ died = "noContext" =>
       type = "scalableTx" /\ \A c \in Range(Allocated) : \E t \in Users : mine[t] = c
  /\ died = "busy" => \/ type = "scalableTx" /\ mine[Main] # None
                      \/ \E r \in Regions : H("mr", r) \in open
  /\ died # "deadPool"

\* With shared endpoints the program ends: any poll thread serves what main
\* posted.  (With an endpoint for each thread only main reads the queue of the
\* communicator's endpoint, and it does so only while it posts.)
SharedEnds == type \in Shared => <>(pc[Main] = "returned" \/ ~Running)
=============================================================================
