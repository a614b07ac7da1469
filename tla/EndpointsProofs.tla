-------------------------- MODULE EndpointsProofs --------------------------
(***************************************************************************)
(* Proofs about Endpoints, for any number of poll threads, contexts,       *)
(* segments and regions, every endpoint type and either build: the type    *)
(* invariant, who owns endpoints and regions, that nothing is used after   *)
(* it was closed, and what the process may die of.                         *)
(***************************************************************************)
EXTENDS Endpoints, TLAPS

(***************************************************************************)
(* The inductive invariant.                                                *)
(***************************************************************************)

\* The stretches of the main thread: initialize, the time in which the endpoints
\* may be asked for, the time in which poll threads exist, and the destructor
\* behind the pools and behind the endpoints.
Boots == {"pmi", "fabric", "av", "rx", "txqueue", "tx", "enable", "boot"}
Serving == {"communicator", "guard", "work", "wait", "stop", "join", "heap"}
Polling == {"work", "wait", "stop", "join"}
Closed == {"closeEndpoints", "closeAv", "closeDomain", "exit", "returned"}
Gone == {"closeAv", "closeDomain", "exit", "returned"}

\* Poll threads live between their guard's constructor and its join, and a thread
\* has no endpoint before it runs or after it has exited.
Threads ==
  /\ \A t \in Pollers :
       /\ pc[Main] \in Boots \cup {"communicator", "guard"} => pc[t] = "unborn"
       /\ pc[Main] \in {"work", "wait", "stop"} => pc[t] \in {"check", "tx", "rx"}
       /\ pc[Main] = "join" => pc[t] # "unborn"
       /\ pc[Main] = "heap" => pc[t] = "gone"
       /\ pc[Main] \in {"closePools"} \cup Closed => pc[t] \in {"unborn", "gone"}
       /\ pc[t] \in {"unborn", "gone"} => mine[t] = None
  /\ pc[Main] \in Boots => mine[Main] = None

RxName == IF type = "scalableTxRx" THEN None ELSE "rx"
TxName == IF type = "multiple" THEN "tx" ELSE IF type \in Scalable THEN "sx" ELSE None

\* What eps_ holds, by how far initialize has come.
Wrapped ==
  /\ pc[Main] \in {"pmi", "fabric"} => eps = None
  /\ pc[Main] \in {"av", "rx"} => eps = NoWrappers
  /\ pc[Main] \in {"txqueue", "tx"} => eps = [rx |-> RxName, tx |-> None]
  /\ pc[Main] \in {"enable", "boot"} \cup Serving => eps = [rx |-> RxName, tx |-> TxName]
  /\ pc[Main] \in {"closePools", "closeEndpoints"} =>
       eps = None \/ eps = [rx |-> RxName, tx |-> TxName]
  /\ pc[Main] \in {"boot"} \cup Serving \cup Gone => type # "scalableTxRx"
  /\ pc[Main] \in {"closePools", "closeEndpoints"} /\ eps # None => type # "scalableTxRx"
  /\ pc[Main] \in Gone => eps = None

\* The wrappers that must be whole: open with all their parts, and enabled.
Whole(n) == Parts(n) \subseteq open /\ n \in enabled

Up ==
  /\ pc[Main] \in {"tx", "enable", "boot"} \cup Serving /\ type # "scalableTxRx" =>
       Parts("rx") \subseteq open
  /\ pc[Main] \in {"boot"} \cup Serving => "rx" \in enabled
  /\ pc[Main] \in {"enable", "boot"} \cup Serving /\ type = "multiple" => Whole("tx")
  /\ \A n \in Range(pool) : Whole(n)
  /\ \A t \in Users : mine[t] # None /\ (pc[Main] \notin Closed \/ type \in Scalable) =>
       Whole(mine[t])

\* Who has the endpoints that are made for threads.
Pools ==
  /\ IsInjective(pool)
  /\ pc[Main] \in (Boots \ {"enable", "boot"}) \cup Closed => pool = <<>>
  /\ type \in Shared => pool = <<>>
  /\ type \in Shared \cup {"scalableTxRx"} => \A t \in Users : mine[t] = None
  /\ type = "threadlocalTx" =>
       /\ Range(pool) \subseteq Users
       /\ \A t \in Users : mine[t] \in {None, t}
       /\ \A t \in Users : mine[t] = t /\ pc[Main] \notin Closed => t \in Range(pool)
       /\ \A t \in Users : t \in Range(pool) => mine[t] = t \/ pc[t] = "gone"
  /\ type \in Scalable =>
       /\ pc[Main] \in Gone => \A t \in Users : mine[t] = None
       /\ Range(pool) \subseteq ContextNames
       /\ \A t \in Users : mine[t] \in ContextNames \cup {None}
       /\ \A t \in Users : mine[t] \notin Range(pool)
       /\ \A t, u \in Users : mine[t] # None /\ t # u => mine[t] # mine[u]
       /\ pc[Main] \in {"enable", "boot"} \cup Serving => \A c \in Range(Allocated) :
            c \in Range(pool) \/ \E t \in Users : mine[t] = c

\* Who closes the wrapper n.
Owned(n) ==
  \/ n \in Range(pool)
  \/ type \in Scalable /\ \E t \in Users : mine[t] = n
  \/ eps # None /\ n \in {eps.rx, eps.tx}

\* Every open handle belongs to a wrapper that somebody closes, and behind its
\* closing the address vector is closed.
Accounted ==
  /\ \A h \in open : h.kind \in {"ep", "rq", "tq"} => h \in Parts(h.name) /\ Owned(h.name)
  /\ pc[Main] \in {"closeDomain", "exit", "returned"} => Av \notin open

\* main uses the wrappers it copied, and what it posted is waited for before
\* anything closes.
Copies ==
  /\ pc[Main] \in {"guard"} \cup Polling =>
       ~HasNone(Main) /\ comm = [tx |-> TxOf(Main), rx |-> eps.rx]
  /\ \A k \in Kinds :
       /\ ops[k] # "idle" => k \in plan
       /\ ops[k] \in {"posted", "complete"} =>
            pc[Main] \in {"work", "wait"} /\ H("mr", buffer[k]) \in open

\* No memory is registered before the work.
NoRegionYet ==
  pc[Main] \in Boots \cup {"communicator", "guard"} =>
    /\ \A s \in Segments : region[s] = None
    /\ \A h \in open : h.kind # "mr"

IInv ==
  TypeOK /\ Threads /\ Wrapped /\ Up /\ Pools /\ Accounted /\ Copies
    /\ NoRegionYet /\ RegionsOwned /\ DiesOnlyOf
-----------------------------------------------------------------------------
(* Facts about the helpers.                                                *)

\* The names are kept apart.
LEMMA NamesApart ==
  /\ None \notin Names /\ None \notin Regions /\ None \notin Wrappers
  /\ Main \in Users /\ Main \notin Pollers /\ Pollers \subseteq Users
  /\ Users \subseteq Names /\ ContextNames \subseteq Names
  /\ \A n \in Users \cup ContextNames : n \notin {"rx", "tx", "sx", None}
  /\ \A n \in Users : n \notin ContextNames
BY EndpointsAssumption DEF Names, Users

\* A handle is its kind and its name.
LEMMA HandleFields ==
  ASSUME NEW k, NEW n
  PROVE /\ H(k, n).kind = k /\ H(k, n).name = n
        /\ \A j, m : H(k, n) = H(j, m) <=> k = j /\ n = m
BY DEF H

\* The parts of a wrapper have its name, and one of them is its endpoint.
LEMMA PartsOfWrapper ==
  ASSUME NEW n
  PROVE /\ H("ep", n) \in Parts(n)
        /\ \A h \in Parts(n) : h.kind \in {"ep", "rq", "tq"} /\ h.name = n
        /\ n \in Names => Parts(n) \subseteq Handles
        /\ n \notin {"rx", "sx"} => Parts(n) = {H("ep", n), H("tq", n)}
BY DEF Parts, H, Handles

\* What the receive endpoint consists of.
LEMMA PartsOfRx ==
  /\ {H("ep", "rx"), H("rq", "rx")} \subseteq Parts("rx")
  /\ Parts("rx") \subseteq {H("ep", "rx"), H("rq", "rx"), H("tq", "rx")}
  /\ type = "single" => H("tq", "rx") \in Parts("rx")
  /\ Parts("sx") = {H("ep", "sx")}
BY DEF Parts

\* Every open handle has a kind of its own.
LEMMA KindsOfHandles ==
  ASSUME NEW h \in Handles
  PROVE /\ h.kind \in {"ep", "rq", "tq", "mr", "fabric", "domain", "av"}
        /\ h = H(h.kind, h.name)
        /\ h.kind \in {"ep", "rq", "tq"} => h.name \in Names
        /\ h.kind = "mr" => h.name \in Regions
        /\ h.kind \in {"fabric", "domain", "av"} => h = H(h.kind, None)
BY DEF Handles, H

\* Nothing rests on an endpoint but contexts on the scalable one and memory on
\* the receive endpoint, and on a queue only its endpoint.
LEMMA CleanupFailsOnlyOf ==
  ASSUME NEW n, NEW opened \in SUBSET Handles, CleanupFails(n, opened)
  PROVE \/ n = "sx" /\ \E h \in opened : h.kind = "ep" /\ h.name \in ContextNames
        \/ n = "rx" /\ \E h \in opened : h.kind = "mr"
<1>1. ASSUME NEW u \in opened, H("ep", n) \in RestsOn(u)
      PROVE \/ n = "sx" /\ u.kind = "ep" /\ u.name \in ContextNames
            \/ n = "rx" /\ u.kind = "mr"
  <2>1. /\ u.kind \in {"ep", "rq", "tq", "mr", "fabric", "domain", "av"}
        /\ u = H(u.kind, u.name)
    BY KindsOfHandles
  <2>2. H("ep", n) \notin {Fabric, Domain, Av}
    BY HandleFields DEF Fabric, Domain, Av
  <2>3. u.kind \in {"ep", "mr"}
    BY <1>1, <2>1, <2>2 DEF RestsOn
  <2>4. CASE u.kind = "ep"
    <3>1. H("ep", n) \notin Parts(u.name) \ {u}
      BY <2>1, <2>4, PartsOfWrapper, HandleFields
    <3>2. u.name \in ContextNames /\ H("ep", n) = H("ep", "sx")
      BY <1>1, <2>2, <2>4, <3>1 DEF RestsOn
    <3>. QED  BY <2>4, <3>2, HandleFields
  <2>5. CASE u.kind = "mr"
    BY <1>1, <2>2, <2>5, HandleFields DEF RestsOn
  <2>. QED  BY <2>3, <2>4, <2>5
<1>2. ASSUME NEW q \in Parts(n) \ {H("ep", n)}, NEW u \in opened \ {H("ep", n)},
             q \in RestsOn(u)
      PROVE FALSE
  <2>1. /\ u.kind \in {"ep", "rq", "tq", "mr", "fabric", "domain", "av"}
        /\ u = H(u.kind, u.name)
    BY KindsOfHandles
  <2>2. q.kind \in {"rq", "tq"} /\ q.name = n
    BY PartsOfWrapper DEF Parts, H
  <2>3. q \notin {Fabric, Domain, Av, H("ep", "rx"), H("ep", "sx")}
    BY <2>2 DEF Fabric, Domain, Av, H
  <2>4. u.kind = "ep" /\ q \in Parts(u.name)
    BY <1>2, <2>1, <2>3 DEF RestsOn
  <2>5. u.name = n
    BY <2>2, <2>4, PartsOfWrapper
  <2>. QED  BY <2>1, <2>4, <2>5
<1>. QED  BY <1>1, <1>2 DEF CleanupFails, Busy

\* Only the poll threads' and main's own endpoints, the pool and the region of a
\* segment decide what an open handle is for; the rest follows the type.
LEMMA TypeIsKept ==
  ASSUME UNCHANGED config
  PROVE /\ \A n : Parts(n)' = Parts(n)
        /\ Allocated' = Allocated /\ RxName' = RxName /\ TxName' = TxName
        /\ type' = type /\ mrbind' = mrbind /\ threads' = threads /\ plan' = plan
BY DEF config, Parts, Allocated, RxName, TxName

\* One thread moves.
LEMMA OneMoves ==
  ASSUME TypeOK, NEW t \in Users, NEW s \in MainSteps \cup PollSteps, Goto(t, s)
  PROVE /\ pc' \in [Users -> MainSteps \cup PollSteps] /\ pc'[t] = s
        /\ \A u \in Users : u # t => pc'[u] = pc[u]
BY DEF TypeOK, Goto

\* What eps_ holds once initialize runs is never None.
LEMMA WrappersExist ==
  /\ NoWrappers \in Wrappers /\ [rx |-> RxName, tx |-> None] \in Wrappers
  /\ [rx |-> RxName, tx |-> TxName] \in Wrappers
  /\ NoWrappers # None /\ [rx |-> RxName, tx |-> None] # None
  /\ [rx |-> RxName, tx |-> TxName] # None
BY NamesApart DEF NoWrappers, Wrappers, RxName, TxName

\* The main thread moves.
LEMMA MainMoves ==
  ASSUME TypeOK, NEW s \in MainSteps, Goto(Main, s)
  PROVE /\ pc' \in [Users -> MainSteps \cup PollSteps] /\ pc'[Main] = s
        /\ \A t \in Pollers : pc'[t] = pc[t]
BY OneMoves, NamesApart

\* A poll thread moves.
LEMMA PollerMoves ==
  ASSUME TypeOK, NEW t \in Pollers, NEW s \in PollSteps, Goto(t, s)
  PROVE /\ pc' \in [Users -> MainSteps \cup PollSteps] /\ pc'[t] = s
        /\ pc'[Main] = pc[Main]
        /\ \A u \in Pollers : u # t => pc'[u] = pc[u]
BY OneMoves, NamesApart

\* The elements of a sequence are where it has places.
LEMMA RangeOfPool ==
  ASSUME NEW S, NEW q \in Seq(S)
  PROVE Range(q) = {q[i] : i \in 1..Len(q)} /\ Range(q) \subseteq S
BY DEF Range

LEMMA EmptyPool == Range(<<>>) = {} /\ IsInjective(<<>>)
BY DEF Range, IsInjective

\* What a push adds.
LEMMA Pushed ==
  ASSUME NEW S, NEW q \in Seq(S), NEW n \in S
  PROVE /\ Append(q, n) \in Seq(S)
        /\ Range(Append(q, n)) = Range(q) \cup {n}
        /\ IsInjective(q) /\ n \notin Range(q) => IsInjective(Append(q, n))
<1>1. Len(q) \in Nat /\ DOMAIN q = 1..Len(q)
  OBVIOUS
<1>2. /\ Append(q, n) \in Seq(S) /\ DOMAIN Append(q, n) = 1..(Len(q) + 1)
      /\ \A i \in 1..Len(q) : Append(q, n)[i] = q[i]
      /\ Append(q, n)[Len(q) + 1] = n
  OBVIOUS
<1>3. \A i : i \in 1..(Len(q) + 1) <=> i \in 1..Len(q) \/ i = Len(q) + 1
  BY <1>1
<1>. QED  BY <1>1, <1>2, <1>3 DEF Range, IsInjective

\* What a pop takes.
LEMMA Popped ==
  ASSUME NEW S, NEW q \in Seq(S), q # <<>>
  PROVE /\ Tail(q) \in Seq(S) /\ Head(q) \in Range(q)
        /\ Range(q) = Range(Tail(q)) \cup {Head(q)}
        /\ IsInjective(q) => IsInjective(Tail(q)) /\ Head(q) \notin Range(Tail(q))
<1>1. Len(q) \in Nat \ {0} /\ DOMAIN q = 1..Len(q) /\ Head(q) = q[1]
  OBVIOUS
<1>2. /\ Tail(q) \in Seq(S) /\ DOMAIN Tail(q) = 1..(Len(q) - 1)
      /\ \A i \in 1..(Len(q) - 1) : Tail(q)[i] = q[i + 1]
  OBVIOUS
<1>3. \A i \in 1..(Len(q) - 1) : i + 1 \in 1..Len(q) /\ i + 1 # 1
  BY <1>1
<1>4. \A i \in 1..Len(q) : i = 1 \/ (i - 1 \in 1..(Len(q) - 1) /\ (i - 1) + 1 = i)
  BY <1>1
<1>5. Range(q) = Range(Tail(q)) \cup {Head(q)}
  <2>1. Range(q) = {q[i] : i \in 1..Len(q)}
        /\ Range(Tail(q)) = {q[i + 1] : i \in 1..(Len(q) - 1)}
    BY <1>1, <1>2 DEF Range
  <2>2. \A x \in Range(q) : x = Head(q) \/ x \in Range(Tail(q))
    <3>. SUFFICES ASSUME NEW i \in 1..Len(q)
                  PROVE q[i] = Head(q) \/ q[i] \in Range(Tail(q))
      BY <2>1
    <3>. QED  BY <1>1, <1>4, <2>1
  <2>3. \A x \in Range(Tail(q)) : x \in Range(q)
    BY <1>3, <2>1
  <2>. QED  BY <1>1, <2>1, <2>2, <2>3
<1>6. ASSUME IsInjective(q) PROVE IsInjective(Tail(q)) /\ Head(q) \notin Range(Tail(q))
  <2>1. \A i, j \in 1..(Len(q) - 1) : i + 1 = j + 1 => i = j
    BY <1>1
  <2>2. IsInjective(Tail(q))
    BY <1>1, <1>2, <1>3, <1>6, <2>1 DEF IsInjective
  <2>3. \A i \in 1..(Len(q) - 1) : Tail(q)[i] # Head(q)
    BY <1>1, <1>2, <1>3, <1>6 DEF IsInjective
  <2>. QED  BY <1>2, <2>2, <2>3 DEF Range
<1>. QED  BY <1>1, <1>2, <1>5, <1>6 DEF Range

\* The contexts that initialize allocates are contexts, each taken once.
LEMMA AllocatedContexts ==
  ASSUME TypeOK
  PROVE /\ Allocated \in Seq(ContextNames) /\ IsInjective(Allocated)
        /\ Range(Allocated) \subseteq ContextNames
<1>. DEFINE n == IF threads < Len(Contexts) THEN threads ELSE Len(Contexts)
<1>1. Contexts \in Seq(ContextNames) /\ IsInjective(Contexts) /\ Len(Contexts) \in Nat
      /\ DOMAIN Contexts = 1..Len(Contexts)
  BY EndpointsAssumption
<1>2. threads \in Nat /\ n \in 0..Len(Contexts)
  BY <1>1, EndpointsAssumption DEF TypeOK
<1>3. /\ Allocated \in Seq(ContextNames) /\ Len(Allocated) = n /\ DOMAIN Allocated = 1..n
      /\ \A i \in 1..n : Allocated[i] = Contexts[i]
  <2>. HIDE DEF n
  <2>1. Allocated = SubSeq(Contexts, 1, n)  BY DEF Allocated, n
  <2>. QED  BY <1>1, <1>2, <2>1
<1>4. IsInjective(Allocated)
  BY <1>1, <1>2, <1>3 DEF IsInjective
<1>. QED  BY <1>3, <1>4, RangeOfPool

\* Nothing but the cause changes when the process dies, which is why a death is
\* as good as what it was caused by.
LEMMA DeathKeeps ==
  ASSUME IInv, NEW cause \in {"refused", "null", "noContext", "busy"}, Running, Die(cause),
         cause = "null" => eps = None \/ type = "scalableTxRx",
         cause = "noContext" =>
           type = "scalableTx" /\ \A c \in Range(Allocated) : \E t \in Users : mine[t] = c,
         cause = "busy" => \/ type = "scalableTx" /\ mine[Main] # None
                           \/ \E r \in Regions : H("mr", r) \in open
  PROVE IInv'
<1>. USE DEF Die
<1>0. UNCHANGED config /\ UNCHANGED opVars
  OBVIOUS
<1>. USE <1>0, TypeIsKept DEF IInv
<1>1. TypeOK'
  BY DEF TypeOK, opVars
<1>2. Threads' /\ Wrapped' /\ Copies' /\ NoRegionYet' /\ RegionsOwned'
  BY DEF Threads, Wrapped, Copies, NoRegionYet, RegionsOwned, opVars, HasNone, TxOf
<1>3. Up' /\ Pools' /\ Accounted'
  BY DEF Up, Whole, Pools, Accounted, Owned
<1>4. DiesOnlyOf'
  BY DEF DiesOnlyOf
<1>. QED  BY <1>1, <1>2, <1>3, <1>4
-----------------------------------------------------------------------------
(* The initial states, and the steps that open endpoints.                  *)

\* The invariant holds at the start.
LEMMA InitHolds == Init => IInv
<1>. SUFFICES ASSUME Init PROVE IInv
  OBVIOUS
<1>1. TypeOK
  BY NamesApart DEF Init, TypeOK, MainSteps, PollSteps, BindsMemory, NoWrappers
<1>2. Threads /\ Wrapped /\ Copies /\ NoRegionYet /\ RegionsOwned /\ DiesOnlyOf
  BY NamesApart DEF Init, Threads, Wrapped, Copies, NoRegionYet, RegionsOwned, DiesOnlyOf,
    Boots, Serving, Polling, Closed, Gone
<1>3. Up /\ Pools /\ Accounted
  BY EmptyPool, NamesApart DEF Init, Up, Pools, Accounted, Boots, Serving, Closed, Gone
<1>. QED  BY <1>1, <1>2, <1>3 DEF IInv

\* main goes on, without a change to anything else.
LEMMA MainAdvances ==
  ASSUME IInv, Running,
         UNCHANGED <<config, died, eps, pool, mine, comm, open, enabled, region, opVars>>,
         NEW s \in MainSteps, Goto(Main, s),
         \/ pc[Main] = "pmi" /\ s \in {"fabric", "closePools"}
         \/ pc[Main] = "tx" /\ s = "enable" /\ type \in {"single", "threadlocalTx"}
         \/ pc[Main] = "boot" /\ s \in {"communicator", "closePools"}
         \/ pc[Main] = "work" /\ s = "wait"
         \/ pc[Main] = "wait" /\ s = "stop" /\ AllCounted
         \/ pc[Main] = "stop" /\ s = "join"
         \/ pc[Main] = "join" /\ s = "heap" /\ Joined
         \/ pc[Main] = "heap" /\ s = "closePools"
  PROVE IInv'
<1>1. /\ pc' \in [Users -> MainSteps \cup PollSteps] /\ pc'[Main] = s
      /\ \A t \in Pollers : pc'[t] = pc[t]
  BY MainMoves DEF IInv
<1>2. UNCHANGED config /\ UNCHANGED opVars
  OBVIOUS
<1>. USE <1>1, <1>2, TypeIsKept, NamesApart DEF IInv
<1>3. TypeOK'
  BY DEF TypeOK, opVars
<1>4. Threads'
  BY DEF TypeOK, Threads, Joined, PollSteps, Boots, Polling, Closed
<1>5. Wrapped'
  BY DEF Wrapped, Boots, Serving, Gone, TxName, RxName, Scalable
<1>6. Up'
  BY DEF Up, Whole, Boots, Serving, Closed, Scalable
<1>7. Pools'
  <2>1. pool = <<>> \/ pc[Main] \notin Boots \ {"enable", "boot"}
    BY DEF Pools
  <2>2. s \in {"enable", "boot"} \cup Serving => pc[Main] \in {"enable", "boot"} \cup Serving
          \/ type \notin Scalable
    BY DEF Serving, Scalable
  <2>3. s \notin Closed \cup Gone /\ pc[Main] \notin Closed \cup Gone /\ pc[Main] # "gone"
    BY DEF Closed, Gone
  <2>4. s \in Boots \ {"enable", "boot"} => pc[Main] \in Boots \ {"enable", "boot"}
    BY DEF Boots
  <2>5. \A t \in Users : pc[t] = "gone" => pc'[t] = "gone"
    BY <2>3 DEF Users
  <2>. QED  BY <2>1, <2>2, <2>3, <2>4, <2>5 DEF Pools
<1>8. Accounted'
  BY DEF Accounted, Owned
<1>9. Copies'
  BY DEF TypeOK, Copies, Polling, HasNone, TxOf, opVars, AllCounted
<1>10. NoRegionYet'
  BY DEF NoRegionYet, Boots
<1>11. RegionsOwned' /\ DiesOnlyOf'
  BY DEF RegionsOwned, DiesOnlyOf
<1>. QED  BY <1>3, <1>4, <1>5, <1>6, <1>7, <1>8, <1>9, <1>10, <1>11

\* The steps of main that only go on.
LEMMA AdvancesKeep ==
  ASSUME IInv,
         StartUp \/ NoTx \/ Boot \/ AllPosted \/ Awaited \/ StopPollers \/ JoinPollers \/ HeapGone
  PROVE IInv'
<1>. USE MainAdvances DEF At, MainSteps
<1>1. CASE StartUp  BY <1>1 DEF StartUp
<1>2. CASE NoTx  BY <1>2 DEF NoTx
<1>3. CASE Boot  BY <1>3 DEF Boot
<1>4. CASE AllPosted  BY <1>4 DEF AllPosted
<1>5. CASE Awaited  BY <1>5 DEF Awaited
<1>6. CASE StopPollers  BY <1>6 DEF StopPollers
<1>7. CASE JoinPollers  BY <1>7 DEF JoinPollers
<1>8. CASE HeapGone  BY <1>8 DEF HeapGone
<1>. QED  BY <1>1, <1>2, <1>3, <1>4, <1>5, <1>6, <1>7, <1>8

\* While endpoints are opened there are no regions, operations, copies and owners.
LEMMA OpeningKeeps ==
  ASSUME IInv, Running, pc[Main] \in Boots, NEW s \in Boots, Goto(Main, s),
         UNCHANGED <<config, died, mine, comm, region, opVars>>,
         open \subseteq open', open' \subseteq Handles, \A h \in open' : h.kind # "mr"
  PROVE /\ Threads' /\ Copies' /\ NoRegionYet' /\ RegionsOwned' /\ DiesOnlyOf'
        /\ pc' \in [Users -> MainSteps \cup PollSteps] /\ pc'[Main] = s
        /\ \A t \in Pollers : pc'[t] = pc[t] /\ pc[t] = "unborn"
        /\ \A t \in Users : mine[t] = None /\ mine'[t] = None
<1>1. s \in MainSteps
  BY DEF Boots, MainSteps
<1>2. /\ pc' \in [Users -> MainSteps \cup PollSteps] /\ pc'[Main] = s
      /\ \A t \in Pollers : pc'[t] = pc[t]
  BY <1>1, MainMoves DEF IInv
<1>3. UNCHANGED config /\ UNCHANGED opVars
  OBVIOUS
<1>. USE <1>2, <1>3, TypeIsKept, NamesApart DEF IInv
<1>4. s \in Boots /\ s \notin {"communicator", "guard", "work", "wait", "stop", "join"}
  BY DEF Boots
<1>5. \A t \in Pollers : pc[t] = "unborn"
  BY DEF Threads
<1>6. \A t \in Users : mine[t] = None
  BY <1>5 DEF Threads, Users
<1>7. Threads'
  BY <1>5, <1>6 DEF Threads, Boots, Closed
<1>8. Copies'
  BY <1>4 DEF Copies, Boots, Polling, opVars
<1>9. NoRegionYet'
  BY DEF NoRegionYet
<1>10. RegionsOwned'
  BY <1>4 DEF RegionsOwned, Polling, NoRegionYet
<1>11. DiesOnlyOf'
  BY DEF DiesOnlyOf, Running
<1>. QED  BY <1>5, <1>6, <1>7, <1>8, <1>9, <1>10, <1>11

LEMMA OpenFabricKeeps ==
  ASSUME IInv, OpenFabric
  PROVE IInv'
<1>1. /\ pc[Main] = "fabric" /\ Running /\ Goto(Main, "av")
      /\ eps' = NoWrappers /\ open' = open \cup {Fabric, Domain}
      /\ UNCHANGED <<config, died, pool, mine, comm, enabled, region, opVars>>
      /\ UNCHANGED config
  BY DEF OpenFabric, At
<1>2. {Fabric, Domain} \subseteq Handles /\ \A h \in {Fabric, Domain} : h.kind \in {"fabric", "domain"}
  BY DEF Fabric, Domain, H, Handles
<1>3. open' \subseteq Handles /\ \A h \in open' : h.kind # "mr"
  BY <1>1, <1>2 DEF IInv, TypeOK, NoRegionYet, Boots
<1>4. /\ Threads' /\ Copies' /\ NoRegionYet' /\ RegionsOwned' /\ DiesOnlyOf'
      /\ pc' \in [Users -> MainSteps \cup PollSteps] /\ pc'[Main] = "av"
      /\ \A t \in Pollers : pc'[t] = pc[t] /\ pc[t] = "unborn"
      /\ \A t \in Users : mine[t] = None /\ mine'[t] = None
  BY <1>1, <1>3, OpeningKeeps DEF Boots
<1>. USE <1>1, <1>3, <1>4, TypeIsKept, NamesApart DEF IInv
<1>5. TypeOK'
  BY DEF TypeOK, MainSteps, PollSteps, NoWrappers, Wrappers, opVars
<1>6. Wrapped'
  BY DEF Wrapped, Boots, Serving, Gone
<1>7. Up' /\ Pools'
  BY EmptyPool DEF Up, Pools, Boots, Serving, Closed, Gone
<1>8. Accounted'
  BY <1>2 DEF Accounted, Owned, Wrapped
<1>. QED  BY <1>4, <1>5, <1>6, <1>7, <1>8

LEMMA CreateAvKeeps ==
  ASSUME IInv, CreateAv
  PROVE IInv'
<1>1. /\ pc[Main] = "av" /\ Running /\ Goto(Main, "rx")
      /\ open' = open \cup {Av}
      /\ UNCHANGED <<config, died, eps, pool, mine, comm, enabled, region, opVars>>
      /\ UNCHANGED config
  BY DEF CreateAv, At
<1>2. Av \in Handles /\ Av.kind = "av"
  BY DEF Av, H, Handles
<1>3. open' \subseteq Handles /\ \A h \in open' : h.kind # "mr"
  BY <1>1, <1>2 DEF IInv, TypeOK, NoRegionYet, Boots
<1>4. /\ Threads' /\ Copies' /\ NoRegionYet' /\ RegionsOwned' /\ DiesOnlyOf'
      /\ pc' \in [Users -> MainSteps \cup PollSteps] /\ pc'[Main] = "rx"
      /\ \A t \in Pollers : pc'[t] = pc[t] /\ pc[t] = "unborn"
      /\ \A t \in Users : mine[t] = None /\ mine'[t] = None
  BY <1>1, <1>3, OpeningKeeps DEF Boots
<1>. USE <1>1, <1>3, <1>4, TypeIsKept, NamesApart DEF IInv
<1>5. TypeOK'
  BY DEF TypeOK, MainSteps, PollSteps, opVars
<1>6. Wrapped'
  BY DEF Wrapped, Boots, Serving, Gone
<1>7. Up' /\ Pools'
  BY EmptyPool DEF Up, Pools, Boots, Serving, Closed, Gone
<1>8. Accounted'
  BY <1>2 DEF Accounted, Owned
<1>. QED  BY <1>4, <1>5, <1>6, <1>7, <1>8

LEMMA CreateRxKeeps ==
  ASSUME IInv, CreateRx
  PROVE IInv'
<1>1. /\ pc[Main] = "rx" /\ Running /\ Goto(Main, "txqueue")
      /\ \/ type = "scalableTxRx" /\ UNCHANGED <<eps, open>>
         \/ /\ type # "scalableTxRx"
            /\ eps' = [eps EXCEPT !.rx = "rx"]
            /\ open' = open \cup {H("ep", "rx"), H("rq", "rx")}
      /\ UNCHANGED <<config, died, pool, mine, comm, enabled, region, opVars>>
      /\ UNCHANGED config
  BY DEF CreateRx, At
<1>2. eps = NoWrappers
  BY <1>1 DEF IInv, Wrapped
<1>3. eps' = [rx |-> RxName, tx |-> None]
  BY <1>1, <1>2 DEF NoWrappers, RxName
<1>4. open \subseteq open' /\ open' \subseteq open \cup Parts("rx")
  BY <1>1, PartsOfRx
<1>5. open' \subseteq Handles /\ \A h \in open' : h.kind # "mr"
  BY <1>1, <1>4, PartsOfWrapper DEF IInv, TypeOK, NoRegionYet, Boots, Names
<1>6. /\ Threads' /\ Copies' /\ NoRegionYet' /\ RegionsOwned' /\ DiesOnlyOf'
      /\ pc' \in [Users -> MainSteps \cup PollSteps] /\ pc'[Main] = "txqueue"
      /\ \A t \in Pollers : pc'[t] = pc[t] /\ pc[t] = "unborn"
      /\ \A t \in Users : mine[t] = None /\ mine'[t] = None
  BY <1>1, <1>4, <1>5, OpeningKeeps DEF Boots
<1>. USE <1>1, <1>5, <1>6, TypeIsKept, NamesApart DEF IInv
<1>7. TypeOK'
  BY <1>3 DEF TypeOK, MainSteps, PollSteps, RxName, Wrappers, opVars
<1>8. Wrapped'
  BY <1>3 DEF Wrapped, Boots, Serving, Gone
<1>9. Up' /\ Pools'
  BY EmptyPool DEF Up, Pools, Boots, Serving, Closed, Gone
<1>10. Accounted'
  <2>1. \A n : Owned(n) => Owned(n)'
    BY <1>2, <1>3, WrappersExist DEF Owned, NoWrappers
  <2>2. type # "scalableTxRx" => Owned("rx")'
    BY <1>3, WrappersExist DEF Owned, RxName
  <2>. QED  BY <1>4, <2>1, <2>2, PartsOfWrapper, PartsOfRx DEF Accounted
<1>. QED  BY <1>6, <1>7, <1>8, <1>9, <1>10

LEMMA BindTxQueueKeeps ==
  ASSUME IInv, BindTxQueue
  PROVE IInv'
<1>1. /\ pc[Main] = "txqueue" /\ Running /\ Goto(Main, "tx")
      /\ open' = IF eps.rx = None THEN open ELSE open \cup Parts("rx")
      /\ UNCHANGED <<config, died, eps, pool, mine, comm, enabled, region, opVars>>
      /\ UNCHANGED config
  BY DEF BindTxQueue, At
<1>2. eps = [rx |-> RxName, tx |-> None]
  BY <1>1 DEF IInv, Wrapped
<1>3. type # "scalableTxRx" => eps.rx = "rx" /\ open' = open \cup Parts("rx")
  BY <1>1, <1>2, NamesApart DEF RxName, Names
<1>4. type = "scalableTxRx" => open' = open
  BY <1>1, <1>2 DEF RxName
<1>5. open' \subseteq Handles /\ \A h \in open' : h.kind # "mr"
  BY <1>1, <1>3, <1>4, PartsOfWrapper DEF IInv, TypeOK, NoRegionYet, Boots, Names
<1>6. /\ Threads' /\ Copies' /\ NoRegionYet' /\ RegionsOwned' /\ DiesOnlyOf'
      /\ pc' \in [Users -> MainSteps \cup PollSteps] /\ pc'[Main] = "tx"
      /\ \A t \in Pollers : pc'[t] = pc[t] /\ pc[t] = "unborn"
      /\ \A t \in Users : mine[t] = None /\ mine'[t] = None
  BY <1>1, <1>3, <1>4, <1>5, OpeningKeeps DEF Boots
<1>. USE <1>1, <1>5, <1>6, TypeIsKept, NamesApart DEF IInv
<1>7. TypeOK'
  BY DEF TypeOK, MainSteps, PollSteps, opVars
<1>8. Wrapped'
  BY DEF Wrapped, Boots, Serving, Gone
<1>9. Up' /\ Pools'
  BY <1>3, EmptyPool DEF Up, Pools, Boots, Serving, Closed, Gone
<1>10. Accounted'
  <2>1. \A n : Owned(n) => Owned(n)'
    BY DEF Owned
  <2>2. type # "scalableTxRx" => Owned("rx")'
    BY <1>2, <1>3, WrappersExist DEF Owned
  <2>. QED  BY <1>3, <1>4, <2>1, <2>2, PartsOfWrapper DEF Accounted
<1>. QED  BY <1>6, <1>7, <1>8, <1>9, <1>10

\* The wrapper of the transmit endpoint is whole when it is in eps_.
LEMMA CreateTxKeeps ==
  ASSUME IInv, CreateTx
  PROVE IInv'
<1>1. /\ pc[Main] = "tx" /\ type = "multiple" /\ Running /\ Goto(Main, "enable")
      /\ open' = open \cup Parts("tx") /\ enabled' = enabled \cup {"tx"}
      /\ eps' = [eps EXCEPT !.tx = "tx"]
      /\ UNCHANGED <<config, died, pool, mine, comm, region, opVars>>
      /\ UNCHANGED config
  BY DEF CreateTx, At
<1>2. eps = [rx |-> RxName, tx |-> None]
  BY <1>1 DEF IInv, Wrapped
<1>3. eps' = [rx |-> RxName, tx |-> TxName] /\ RxName = "rx" /\ TxName = "tx"
  BY <1>1, <1>2 DEF RxName, TxName
<1>4. open' \subseteq Handles /\ \A h \in open' : h.kind # "mr"
  BY <1>1, PartsOfWrapper DEF IInv, TypeOK, NoRegionYet, Boots, Names
<1>5. /\ Threads' /\ Copies' /\ NoRegionYet' /\ RegionsOwned' /\ DiesOnlyOf'
      /\ pc' \in [Users -> MainSteps \cup PollSteps] /\ pc'[Main] = "enable"
      /\ \A t \in Pollers : pc'[t] = pc[t] /\ pc[t] = "unborn"
      /\ \A t \in Users : mine[t] = None /\ mine'[t] = None
  BY <1>1, <1>4, OpeningKeeps DEF Boots
<1>. USE <1>1, <1>4, <1>5, TypeIsKept, NamesApart DEF IInv
<1>6. TypeOK'
  BY <1>3, WrappersExist DEF TypeOK, MainSteps, PollSteps, opVars, Names
<1>7. Wrapped'
  BY <1>3 DEF Wrapped, Boots, Serving, Gone
<1>8. Up' /\ Pools'
  BY EmptyPool DEF Up, Whole, Pools, Boots, Serving, Closed, Gone, Scalable, Shared
<1>9. Accounted'
  <2>1. \A n \in Names : Owned(n) => Owned(n)'
    BY <1>2, <1>3, WrappersExist DEF Owned, Scalable
  <2>2. Owned("tx")'
    BY <1>3, WrappersExist DEF Owned
  <2>3. \A h \in open : h.kind \in {"ep", "rq", "tq"} => h.name \in Names
    BY KindsOfHandles DEF TypeOK
  <2>. QED  BY <2>1, <2>2, <2>3, PartsOfWrapper DEF Accounted
<1>. QED  BY <1>5, <1>6, <1>7, <1>8, <1>9

\* The contexts are whole when they are in the pool.
LEMMA CreateContextsKeeps ==
  ASSUME IInv, CreateContexts
  PROVE IInv'
<1>1. /\ pc[Main] = "tx" /\ type \in Scalable /\ Running /\ Goto(Main, "enable")
      /\ open' = open \cup {H("ep", "sx")} \cup UNION {Parts(c) : c \in Range(Allocated)}
      /\ enabled' = enabled \cup Range(Allocated)
      /\ pool' = pool \o Allocated
      /\ eps' = [eps EXCEPT !.tx = "sx"]
      /\ UNCHANGED <<config, died, mine, comm, region, opVars>>
      /\ UNCHANGED config
  BY DEF CreateContexts, At
<1>2. eps = [rx |-> RxName, tx |-> None]
  BY <1>1 DEF IInv, Wrapped
<1>3. eps' = [rx |-> RxName, tx |-> TxName] /\ TxName = "sx"
  BY <1>1, <1>2 DEF TxName, Scalable
<1>4. /\ Allocated \in Seq(ContextNames) /\ IsInjective(Allocated)
      /\ Range(Allocated) \subseteq ContextNames
  BY AllocatedContexts DEF IInv
<1>5. pool' = Allocated
  <2>1. pool = <<>>
    BY <1>1 DEF IInv, Pools, Boots
  <2>. QED  BY <1>1, <1>4, <2>1
<1>6. \A h \in open' \ open : h.kind \in {"ep", "rq", "tq"} /\ h \in Parts(h.name)
        /\ (h.name = "sx" \/ h.name \in Range(Allocated))
  BY <1>1, PartsOfWrapper, PartsOfRx
<1>7. open' \subseteq Handles /\ \A h \in open' : h.kind # "mr"
  BY <1>1, <1>4, <1>6, PartsOfWrapper, NamesApart
    DEF IInv, TypeOK, NoRegionYet, Boots, Names
<1>8. /\ Threads' /\ Copies' /\ NoRegionYet' /\ RegionsOwned' /\ DiesOnlyOf'
      /\ pc' \in [Users -> MainSteps \cup PollSteps] /\ pc'[Main] = "enable"
      /\ \A t \in Pollers : pc'[t] = pc[t] /\ pc[t] = "unborn"
      /\ \A t \in Users : mine[t] = None /\ mine'[t] = None
  BY <1>1, <1>7, OpeningKeeps DEF Boots
<1>. USE <1>1, <1>7, <1>8, TypeIsKept, NamesApart DEF IInv
<1>9. TypeOK'
  <2>1. Allocated \in Seq(Users \cup ContextNames)
    BY <1>4
  <2>2. enabled' \subseteq Names
    BY <1>4 DEF TypeOK
  <2>3. pool' \in Seq(Users \cup ContextNames) /\ eps' \in Wrappers \cup {None}
    BY <1>3, <1>5, <2>1, WrappersExist
  <2>. QED  BY <2>2, <2>3 DEF TypeOK, opVars, MainSteps, PollSteps
<1>10. Wrapped'
  BY <1>3 DEF Wrapped, Boots, Serving, Gone
<1>11. Up'
  <2>1. \A n \in Range(pool') : Parts(n) \subseteq open' /\ n \in enabled'
    BY <1>5
  <2>. QED  BY <2>1 DEF Up, Whole, Boots, Serving, Closed, Scalable
<1>12. Pools'
  <2>1. pc'[Main] \notin (Boots \ {"enable", "boot"}) \cup Closed \cup Gone
    BY DEF Closed, Gone, Boots
  <2>2. type \notin Shared \cup {"threadlocalTx"}
    BY DEF Shared, Scalable
  <2>3. None \notin Range(Allocated)
    BY <1>4
  <2>. QED  BY <1>4, <1>5, <2>1, <2>2, <2>3 DEF Pools
<1>13. Accounted'
  <2>1. \A n : Owned(n) => Owned(n)'
    BY <1>2, <1>3, <1>5, WrappersExist DEF Owned, Pools, Boots, Range
  <2>2. Owned("sx")' /\ \A n \in Range(Allocated) : Owned(n)'
    BY <1>3, <1>5, WrappersExist DEF Owned
  <2>. QED  BY <1>6, <2>1, <2>2 DEF Accounted
<1>. QED  BY <1>8, <1>9, <1>10, <1>11, <1>12, <1>13

LEMMA EnableRxKeeps ==
  ASSUME IInv, EnableRx
  PROVE IInv'
<1>1. pc[Main] = "enable" /\ Running /\ eps = [rx |-> RxName, tx |-> TxName]
  BY DEF EnableRx, At, IInv, Wrapped
<1>2. CASE eps.rx = None
  <2>1. type = "scalableTxRx"
    BY <1>1, <1>2, NamesApart DEF RxName, Names
  <2>. QED  BY <1>1, <1>2, <2>1, DeathKeeps DEF EnableRx
<1>3. CASE eps.rx # None
  <2>1. /\ enabled' = enabled \cup {"rx"} /\ Goto(Main, "boot")
        /\ UNCHANGED <<config, died, eps, pool, mine, comm, open, region, opVars>>
        /\ UNCHANGED config
    BY <1>3 DEF EnableRx
  <2>2. type # "scalableTxRx"
    BY <1>1, <1>3 DEF RxName
  <2>3. open' \subseteq Handles /\ \A h \in open' : h.kind # "mr"
    BY <1>1, <2>1 DEF IInv, TypeOK, NoRegionYet, Boots
  <2>4. /\ Threads' /\ Copies' /\ NoRegionYet' /\ RegionsOwned' /\ DiesOnlyOf'
        /\ pc' \in [Users -> MainSteps \cup PollSteps] /\ pc'[Main] = "boot"
        /\ \A t \in Pollers : pc'[t] = pc[t] /\ pc[t] = "unborn"
        /\ \A t \in Users : mine[t] = None /\ mine'[t] = None
    BY <1>1, <2>1, <2>3, OpeningKeeps DEF Boots
  <2>. USE <1>1, <2>1, <2>4, TypeIsKept, NamesApart DEF IInv
  <2>5. TypeOK'
    <3>1. enabled' \subseteq Names
      BY DEF TypeOK, Names
    <3>. QED  BY <3>1 DEF TypeOK, opVars, MainSteps, PollSteps
  <2>6. Wrapped'
    BY <2>2 DEF Wrapped, Boots, Serving, Gone
  <2>7. Up'
    BY <2>2 DEF Up, Whole, Boots, Serving, Closed
  <2>8. Pools'
    <3>1. pc'[Main] \notin (Boots \ {"enable", "boot"}) \cup Closed \cup Gone
      BY DEF Boots, Closed, Gone
    <3>2. pc[Main] \notin Closed /\ \A t \in Users : pc[t] # "gone"
      BY DEF Closed, Users
    <3>. QED  BY <3>1, <3>2 DEF Pools
  <2>9. Accounted'
    BY DEF Accounted, Owned
  <2>. QED  BY <2>4, <2>5, <2>6, <2>7, <2>8, <2>9
<1>. QED  BY <1>2, <1>3
-----------------------------------------------------------------------------
(* The steps of a thread's own endpoint.                                   *)

\* A thread that asks has not exited, and the endpoints are up.
LEMMA WhoAsks ==
  ASSUME IInv, NEW t \in Users, Asking(t)
  PROVE /\ Running /\ pc[Main] \in {"communicator", "work", "wait", "stop", "join"}
        /\ pc[t] \notin {"unborn", "gone"} /\ type # "scalableTxRx"
        /\ eps = [rx |-> "rx", tx |-> TxName]
        /\ t \in Pollers => pc[Main] # "communicator"
<1>1. CASE t = Main
  BY <1>1, NamesApart DEF Asking, At, IInv, Wrapped, Serving, RxName
<1>2. CASE t \in Pollers
  <2>1. pc[t] = "tx" /\ Running
    BY <1>2, NamesApart DEF Asking, At
  <2>2. pc[Main] \in MainSteps
    BY DEF IInv, TypeOK
  <2>3. pc[Main] \in {"work", "wait", "stop", "join"}
    BY <1>2, <2>1, <2>2 DEF IInv, Threads, MainSteps, Boots, Closed
  <2>. QED  BY <2>1, <2>3 DEF IInv, Wrapped, Serving, RxName
<1>. QED  BY <1>1, <1>2 DEF Users

\* What does not depend on the pool and on the endpoint of one thread.
LEMMA OwningKeeps ==
  ASSUME IInv, NEW t \in Users, Asking(t), HasNone(t), NEW n \in Users \cup ContextNames,
         mine' = [mine EXCEPT ![t] = n], pool' \in Seq(Users \cup ContextNames),
         open \subseteq open', open' \subseteq open \cup Parts(n),
         enabled \subseteq enabled', enabled' \subseteq enabled \cup {n},
         UNCHANGED <<config, pc, died, eps, comm, region, opVars>>
  PROVE /\ TypeOK' /\ Threads' /\ Wrapped' /\ Copies' /\ NoRegionYet'
        /\ RegionsOwned' /\ DiesOnlyOf'
        /\ mine' \in [Users -> Users \cup ContextNames \cup {None}] /\ mine'[t] = n
        /\ \A u \in Users : u # t => mine'[u] = mine[u]
        /\ mine[t] = None
<1>1. /\ Running /\ pc[Main] \in {"communicator", "work", "wait", "stop", "join"}
      /\ pc[t] \notin {"unborn", "gone"} /\ type # "scalableTxRx"
      /\ t \in Pollers => pc[Main] # "communicator"
  BY WhoAsks
<1>2. UNCHANGED config /\ UNCHANGED opVars
  OBVIOUS
<1>3. /\ mine' \in [Users -> Users \cup ContextNames \cup {None}] /\ mine'[t] = n
      /\ \A u \in Users : u # t => mine'[u] = mine[u]
  BY DEF IInv, TypeOK
<1>4. mine[t] = None /\ type \notin Shared
  BY DEF HasNone
<1>. USE <1>1, <1>2, <1>3, <1>4, TypeIsKept, NamesApart DEF IInv
<1>5. n \in Names /\ \A h \in Parts(n) : h \in Handles /\ h.kind # "mr"
  BY PartsOfWrapper
<1>6. TypeOK'
  BY <1>5 DEF TypeOK, opVars
<1>7. Threads' /\ Wrapped'
  BY DEF Threads, Wrapped, Boots, Users
<1>8. Copies'
  <2>1. pc[Main] # "communicator" => t # Main
    BY DEF Asking, At
  <2>2. pc[Main] # "communicator" => mine'[Main] = mine[Main]
    BY <2>1
  <2>3. \A u \in Users : mine'[u] = mine[u] => TxOf(u)' = TxOf(u) /\ HasNone(u)' = HasNone(u)
    BY DEF TxOf, HasNone
  <2>. QED  BY <2>2, <2>3 DEF Copies, Polling, opVars
<1>9. NoRegionYet'
  BY <1>5 DEF NoRegionYet
<1>10. RegionsOwned'
  <2>1. \A r : H("mr", r) \in open' <=> H("mr", r) \in open
    BY <1>5, HandleFields
  <2>. QED  BY <2>1 DEF RegionsOwned
<1>11. DiesOnlyOf'
  BY DEF DiesOnlyOf, Running
<1>. QED  BY <1>6, <1>7, <1>8, <1>9, <1>10, <1>11

\* A thread-local endpoint is new, whole, and in the pool.
LEMMA CreateOwnKeeps ==
  ASSUME IInv, NEW t \in Users, CreateOwn(t)
  PROVE IInv'
<1>1. /\ Asking(t) /\ HasNone(t) /\ type = "threadlocalTx"
      /\ open' = open \cup Parts(t) /\ enabled' = enabled \cup {t}
      /\ pool' = Append(pool, t) /\ mine' = [mine EXCEPT ![t] = t]
      /\ UNCHANGED <<config, pc, died, eps, comm, region, opVars>>
      /\ UNCHANGED config
  BY DEF CreateOwn, Remember
<1>2. /\ pool' \in Seq(Users \cup ContextNames)
      /\ Range(pool') = Range(pool) \cup {t}
      /\ IsInjective(pool) /\ t \notin Range(pool) => IsInjective(pool')
  BY <1>1, Pushed DEF IInv, TypeOK
<1>3. /\ TypeOK' /\ Threads' /\ Wrapped' /\ Copies' /\ NoRegionYet'
      /\ RegionsOwned' /\ DiesOnlyOf'
      /\ mine' \in [Users -> Users \cup ContextNames \cup {None}] /\ mine'[t] = t
      /\ \A u \in Users : u # t => mine'[u] = mine[u]
      /\ mine[t] = None
  BY <1>1, <1>2, OwningKeeps
<1>4. /\ Running /\ pc[Main] \in {"communicator", "work", "wait", "stop", "join"}
      /\ pc[t] \notin {"unborn", "gone"} /\ eps = [rx |-> "rx", tx |-> TxName]
  BY <1>1, WhoAsks
<1>. USE <1>1, <1>3, <1>4, TypeIsKept, NamesApart DEF IInv
<1>5. t \notin Range(pool)
  BY DEF Pools
<1>6. Up'
  BY <1>2 DEF Up, Whole, Boots, Serving, Closed
<1>7. Pools'
  <2>1. pc[Main] \notin Boots \cup Closed \cup Gone /\ type \notin Shared \cup Scalable
    BY DEF Boots, Closed, Gone, Shared, Scalable
  <2>. QED  BY <1>2, <1>5, <2>1 DEF Pools
<1>8. Accounted'
  <2>1. \A n : Owned(n) => Owned(n)'
    BY <1>2 DEF Owned, Scalable
  <2>2. Owned(t)'
    BY <1>2 DEF Owned
  <2>. QED  BY <2>1, <2>2, PartsOfWrapper DEF Accounted
<1>. QED  BY <1>3, <1>6, <1>7, <1>8

\* A context is out of the pool before a thread uses it, and the pool runs dry only
\* when every allocated context is out.
LEMMA PopOwnKeeps ==
  ASSUME IInv, NEW t \in Users, PopOwn(t)
  PROVE IInv'
<1>1. Asking(t) /\ HasNone(t) /\ type \in Scalable
  BY DEF PopOwn
<1>2. /\ Running /\ pc[Main] \in {"communicator", "work", "wait", "stop", "join"}
      /\ pc[t] \notin {"unborn", "gone"} /\ type = "scalableTx"
      /\ eps = [rx |-> "rx", tx |-> TxName]
  BY <1>1, WhoAsks DEF Scalable
<1>3. CASE pool = <<>>
  <2>1. \A c \in Range(Allocated) : \E u \in Users : mine[u] = c
    BY <1>1, <1>2, <1>3, EmptyPool DEF IInv, Pools, Serving
  <2>. QED  BY <1>2, <1>3, <2>1, DeathKeeps DEF PopOwn
<1>4. CASE pool # <<>>
  <2>. DEFINE n == Head(pool)
  <2>1. /\ pool' = Tail(pool) /\ mine' = [mine EXCEPT ![t] = n]
        /\ UNCHANGED <<config, pc, died, eps, comm, open, enabled, region, opVars>>
        /\ UNCHANGED config
    BY <1>4 DEF PopOwn, Taken
  <2>2. /\ pool' \in Seq(Users \cup ContextNames) /\ n \in Range(pool)
        /\ Range(pool) = Range(pool') \cup {n}
        /\ IsInjective(pool) => IsInjective(pool') /\ n \notin Range(pool')
    BY <1>4, <2>1, Popped DEF IInv, TypeOK
  <2>. HIDE DEF n
  <2>3. n \in ContextNames /\ IsInjective(pool)
    BY <1>1, <2>2 DEF IInv, Pools
  <2>4. /\ TypeOK' /\ Threads' /\ Wrapped' /\ Copies' /\ NoRegionYet'
        /\ RegionsOwned' /\ DiesOnlyOf'
        /\ mine' \in [Users -> Users \cup ContextNames \cup {None}] /\ mine'[t] = n
        /\ \A u \in Users : u # t => mine'[u] = mine[u]
        /\ mine[t] = None
    BY <1>1, <2>1, <2>2, <2>3, OwningKeeps
  <2>. USE <1>1, <1>2, <2>1, <2>2, <2>3, <2>4, TypeIsKept, NamesApart DEF IInv
  <2>5. Up'
    BY DEF Up, Whole
  <2>6. Pools'
    <3>1. pc[Main] \notin Boots \cup Closed \cup Gone
            /\ type \notin Shared \cup {"threadlocalTx", "scalableTxRx"}
      BY DEF Boots, Closed, Gone, Shared
    <3>2. \A u \in Users : mine'[u] \notin Range(pool')
      BY DEF Pools
    <3>3. \A u, v \in Users : mine'[u] # None /\ u # v => mine'[u] # mine'[v]
      BY DEF Pools
    <3>4. \A c \in Range(Allocated) : c \in Range(pool') \/ \E u \in Users : mine'[u] = c
      <4>1. Range(Allocated) \subseteq ContextNames
        BY AllocatedContexts
      <4>2. \A c \in Range(Allocated) : c \in Range(pool) \/ \E u \in Users : mine[u] = c
        BY DEF Pools, Serving
      <4>3. \A u \in Users, c \in ContextNames : mine[u] = c => mine'[u] = c
        OBVIOUS
      <4>. QED  BY <4>1, <4>2, <4>3
    <3>5. Range(pool') \subseteq ContextNames
            /\ \A u \in Users : mine'[u] \in ContextNames \cup {None}
      BY DEF Pools
    <3>. QED  BY <3>1, <3>2, <3>3, <3>4, <3>5 DEF Pools
  <2>7. Accounted'
    <3>1. \A m \in Names : Owned(m) => Owned(m)'
      BY DEF Owned
    <3>2. \A h \in open : h.kind \in {"ep", "rq", "tq"} => h.name \in Names
      BY KindsOfHandles DEF TypeOK
    <3>. QED  BY <3>1, <3>2 DEF Accounted
  <2>. QED  BY <2>4, <2>5, <2>6, <2>7
<1>. QED  BY <1>3, <1>4

\* The communicator copies wrappers that are whole.
LEMMA CopyEndpointsKeeps ==
  ASSUME IInv, CopyEndpoints
  PROVE IInv'
<1>1. /\ Running /\ pc[Main] = "communicator" /\ ~HasNone(Main) /\ Goto(Main, "guard")
      /\ comm' = [tx |-> TxOf(Main), rx |-> eps.rx]
      /\ UNCHANGED <<config, died, eps, pool, mine, open, enabled, region, opVars>>
      /\ UNCHANGED config /\ UNCHANGED opVars
  BY DEF CopyEndpoints, At
<1>2. /\ pc' \in [Users -> MainSteps \cup PollSteps] /\ pc'[Main] = "guard"
      /\ \A t \in Pollers : pc'[t] = pc[t]
  BY <1>1, MainMoves DEF IInv, MainSteps
<1>. USE <1>1, <1>2, TypeIsKept, NamesApart DEF IInv
<1>3. eps = [rx |-> "rx", tx |-> TxName] /\ type # "scalableTxRx"
  BY DEF Wrapped, Serving, RxName
<1>4. TxOf(Main) \in Names \ {"sx"}
  <2>1. CASE type = "single"
    BY <1>3, <2>1 DEF TxOf, Names
  <2>2. CASE type = "multiple"
    BY <1>3, <2>2 DEF TxOf, TxName, Names
  <2>3. CASE type \notin Shared
    <3>1. TxOf(Main) = mine[Main] /\ mine[Main] # None
      BY <2>3 DEF TxOf, HasNone, Shared
    <3>. QED  BY <3>1 DEF TypeOK
  <2>. QED  BY <2>1, <2>2, <2>3 DEF Shared
<1>5. TypeOK'
  BY <1>3, <1>4 DEF TypeOK, MainSteps, PollSteps, opVars
<1>6. Threads'
  BY DEF Threads, Boots, Closed
<1>7. Wrapped' /\ NoRegionYet'
  BY <1>3 DEF Wrapped, NoRegionYet, Boots, Serving, Gone
<1>8. Up'
  BY DEF Up, Whole, Boots, Serving, Closed
<1>9. Pools'
  <2>1. pc'[Main] \notin Boots \cup Closed \cup Gone /\ pc[Main] \notin Closed
          /\ \A t \in Users : pc[t] # "gone"
    BY DEF Boots, Closed, Gone, Users, Threads
  <2>. QED  BY <2>1 DEF Pools, Serving
<1>10. Accounted'
  BY DEF Accounted, Owned
<1>11. Copies'
  BY DEF Copies, HasNone, TxOf, opVars
<1>12. RegionsOwned' /\ DiesOnlyOf'
  BY DEF RegionsOwned, DiesOnlyOf, NoRegionYet
<1>. QED  BY <1>5, <1>6, <1>7, <1>8, <1>9, <1>10, <1>11, <1>12

\* The guard starts threads that have nothing yet.
LEMMA SpawnPollersKeeps ==
  ASSUME IInv, SpawnPollers
  PROVE IInv'
<1>1. /\ Running /\ pc[Main] = "guard"
      /\ pc' = [t \in Users |-> IF t = Main THEN "work" ELSE "check"]
      /\ UNCHANGED <<config, died, eps, pool, mine, comm, open, enabled, region, opVars>>
      /\ UNCHANGED config /\ UNCHANGED opVars
  BY DEF SpawnPollers, At
<1>2. pc'[Main] = "work" /\ \A t \in Pollers : pc'[t] = "check" /\ pc[t] = "unborn"
  BY <1>1, NamesApart DEF IInv, Threads
<1>. USE <1>1, <1>2, TypeIsKept, NamesApart DEF IInv
<1>3. TypeOK'
  BY DEF TypeOK, MainSteps, PollSteps, opVars
<1>4. Threads'
  BY DEF Threads, Boots, Closed
<1>5. Wrapped' /\ NoRegionYet'
  BY DEF Wrapped, NoRegionYet, Boots, Serving, Gone
<1>6. Up'
  BY DEF Up, Whole, Boots, Serving, Closed
<1>7. Pools'
  <2>1. pc'[Main] \notin Boots \cup Closed \cup Gone /\ pc[Main] \notin Closed
          /\ \A t \in Users : pc[t] # "gone"
    BY DEF Boots, Closed, Gone, Users, Threads
  <2>. QED  BY <2>1 DEF Pools, Serving
<1>8. Accounted'
  BY DEF Accounted, Owned
<1>9. Copies'
  BY DEF Copies, Polling, HasNone, TxOf, opVars
<1>10. RegionsOwned' /\ DiesOnlyOf'
  BY HandleFields DEF RegionsOwned, DiesOnlyOf, NoRegionYet, Running
<1>. QED  BY <1>3, <1>4, <1>5, <1>6, <1>7, <1>8, <1>9, <1>10
-----------------------------------------------------------------------------
(* Memory, work and polling.                                               *)

\* A segment registers, is moved or released: only handles of regions change.
LEMMA SegmentsKeep ==
  ASSUME IInv, Running, pc[Main] \in {"work", "heap"},
         region' \in [Segments -> Regions \cup {None}], open' \subseteq Handles,
         \A h \in Handles : h.kind # "mr" => (h \in open' <=> h \in open),
         pc[Main] = "work" => open \subseteq open',
         UNCHANGED <<config, pc, died, eps, pool, mine, comm, enabled, opVars>>
  PROVE TypeOK' /\ Threads' /\ Wrapped' /\ Up' /\ Pools' /\ Accounted' /\ Copies'
          /\ NoRegionYet' /\ DiesOnlyOf'
<1>1. UNCHANGED config /\ UNCHANGED opVars
  OBVIOUS
<1>. USE <1>1, TypeIsKept, NamesApart DEF IInv
<1>2. TypeOK'
  BY DEF TypeOK, opVars
<1>3. Threads' /\ Wrapped' /\ Pools' /\ DiesOnlyOf' /\ NoRegionYet'
  BY DEF Threads, Wrapped, Pools, DiesOnlyOf, Running, NoRegionYet, Boots
<1>4. \A n \in Names : Whole(n) => Whole(n)'
  BY PartsOfWrapper DEF Whole
<1>5. Up'
  <2>1. Range(pool) \subseteq Names /\ \A t \in Users : mine[t] \in Names \cup {None}
    BY RangeOfPool DEF TypeOK
  <2>2. Parts("rx") \subseteq open => Parts("rx") \subseteq open'
    BY PartsOfWrapper DEF Names
  <2>3. {"rx", "tx"} \subseteq Names
    BY DEF Names
  <2>. QED  BY <1>4, <2>1, <2>2, <2>3 DEF Up
<1>6. Accounted'
  <2>1. \A n : Owned(n)' = Owned(n)
    BY DEF Owned
  <2>2. \A h \in open' : h.kind \in {"ep", "rq", "tq"} => h \in open
    BY KindsOfHandles
  <2>. QED  BY <2>1, <2>2 DEF Accounted
<1>7. Copies'
  BY DEF Copies, Polling, HasNone, TxOf, opVars
<1>. QED  BY <1>2, <1>3, <1>5, <1>6, <1>7

LEMMA RegisterKeeps ==
  ASSUME IInv, NEW s \in Segments, NEW r \in Regions, Register(s, r)
  PROVE IInv'
<1>1. /\ Running /\ pc[Main] = "work" /\ region[s] = None /\ H("mr", r) \notin open
      /\ open' = open \cup {H("mr", r)} /\ region' = [region EXCEPT ![s] = r]
      /\ UNCHANGED <<config, pc, died, eps, pool, mine, comm, enabled, opVars>>
  BY DEF Register, At
<1>2. /\ region' \in [Segments -> Regions \cup {None}] /\ region'[s] = r
      /\ \A d \in Segments : d # s => region'[d] = region[d]
  BY <1>1 DEF IInv, TypeOK
<1>3. /\ open' \subseteq Handles
      /\ \A h \in Handles : h.kind # "mr" => (h \in open' <=> h \in open)
  BY <1>1, HandleFields DEF IInv, TypeOK, Handles, H
<1>4. RegionsOwned'
  BY <1>1, <1>2, HandleFields, NamesApart DEF IInv, RegionsOwned
<1>. QED  BY <1>1, <1>2, <1>3, <1>4, SegmentsKeep DEF IInv

LEMMA MoveKeeps ==
  ASSUME IInv, NEW s \in Segments, NEW d \in Segments, Move(s, d)
  PROVE IInv'
<1>1. /\ Running /\ pc[Main] = "work" /\ region[s] # None /\ region[d] = None
      /\ region' = [region EXCEPT ![d] = region[s], ![s] = None]
      /\ UNCHANGED <<config, pc, died, eps, pool, mine, comm, open, enabled, opVars>>
  BY DEF Move, Moved, At
<1>2. /\ region' \in [Segments -> Regions \cup {None}]
      /\ region'[s] = None /\ region'[d] = region[s] /\ s # d
      /\ \A e \in Segments : e \notin {s, d} => region'[e] = region[e]
  BY <1>1 DEF IInv, TypeOK
<1>3. RegionsOwned'
  <2>1. \A e, f \in Segments : region'[e] # None /\ e # f => region'[e] # region'[f]
    BY <1>1, <1>2 DEF IInv, RegionsOwned
  <2>2. \A e \in Segments : region'[e] # None => H("mr", region'[e]) \in open'
    BY <1>1, <1>2 DEF IInv, RegionsOwned
  <2>3. \A r \in Regions, e \in Segments : region[e] = r => \E f \in Segments : region'[f] = r
    BY <1>1, <1>2, NamesApart
  <2>. QED  BY <1>1, <2>1, <2>2, <2>3 DEF IInv, RegionsOwned
<1>. QED  BY <1>1, <1>2, <1>3, SegmentsKeep DEF IInv, TypeOK

LEMMA ReleaseKeeps ==
  ASSUME IInv, NEW s \in Segments, Release(s)
  PROVE IInv'
<1>1. /\ Running /\ pc[Main] = "heap" /\ region[s] # None
      /\ open' = open \ {H("mr", region[s])} \/ open' = open
      /\ region' = [region EXCEPT ![s] = None]
      /\ UNCHANGED <<config, pc, died, eps, pool, mine, comm, enabled, opVars>>
  BY DEF Release, At
<1>2. /\ region' \in [Segments -> Regions \cup {None}] /\ region'[s] = None
      /\ \A d \in Segments : d # s => region'[d] = region[d]
  BY <1>1 DEF IInv, TypeOK
<1>3. /\ open' \subseteq Handles
      /\ \A h \in Handles : h.kind # "mr" => (h \in open' <=> h \in open)
  BY <1>1, HandleFields DEF IInv, TypeOK
<1>4. RegionsOwned'
  <2>1. \A d, e \in Segments : region'[d] # None /\ d # e => region'[d] # region'[e]
    BY <1>1, <1>2 DEF IInv, RegionsOwned
  <2>2. \A d \in Segments : region'[d] # None => H("mr", region'[d]) \in open'
    <3>1. \A d \in Segments : d # s /\ region[d] # None => H("mr", region[d]) # H("mr", region[s])
      BY <1>1, HandleFields DEF IInv, RegionsOwned
    <3>. QED  BY <1>1, <1>2, <3>1 DEF IInv, RegionsOwned
  <2>. QED  BY <1>1, <2>1, <2>2 DEF RegionsOwned
<1>. QED  BY <1>1, <1>2, <1>3, <1>4, SegmentsKeep DEF IInv

\* An operation goes on.
LEMMA OperationsKeep ==
  ASSUME IInv, Running,
         UNCHANGED <<config, died, eps, pool, mine, comm, open, enabled, region>>,
         pc' \in [Users -> MainSteps \cup PollSteps], pc'[Main] = pc[Main],
         \A t \in Pollers : \/ pc'[t] = pc[t]
                            \/ pc[t] \in {"check", "tx", "rx"} /\ pc'[t] \in {"check", "tx", "rx"},
         ops' \in [Kinds -> {"idle", "posted", "complete", "counted"}],
         buffer' \in [Kinds -> Regions \cup {None}],
         \A k \in Kinds :
           /\ ops'[k] # "idle" => k \in plan
           /\ ops'[k] \in {"posted", "complete"} =>
                pc[Main] \in {"work", "wait"} /\ H("mr", buffer'[k]) \in open
  PROVE IInv'
<1>1. UNCHANGED config
  OBVIOUS
<1>. USE <1>1, TypeIsKept, NamesApart DEF IInv
<1>2. \A t \in Users : /\ pc[t] = "gone" <=> pc'[t] = "gone"
                       /\ pc[t] = "unborn" <=> pc'[t] = "unborn"
  BY DEF Users
<1>3. TypeOK'
  BY DEF TypeOK, PollSteps
<1>4. Threads'
  BY <1>2 DEF Threads, Users
<1>5. Wrapped' /\ Up' /\ NoRegionYet' /\ RegionsOwned' /\ DiesOnlyOf'
  BY DEF Wrapped, Up, Whole, NoRegionYet, RegionsOwned, DiesOnlyOf
<1>6. Pools' /\ Accounted'
  BY <1>2 DEF Pools, Accounted, Owned
<1>7. Copies'
  BY DEF Copies, HasNone, TxOf
<1>. QED  BY <1>3, <1>4, <1>5, <1>6, <1>7

\* A poll counts an operation or leaves it.
LEMMA PolledIsCounted ==
  ASSUME NEW t, NEW k
  PROVE Polled(t, k) = ops[k] \/ (ops[k] = "complete" /\ Polled(t, k) = "counted")
BY DEF Polled

LEMMA PostKeeps ==
  ASSUME IInv, NEW k \in Kinds, NEW s \in Segments, Post(k, s)
  PROVE IInv'
<1>1. /\ Running /\ pc[Main] = "work" /\ k \in plan /\ ops[k] = "idle" /\ region[s] # None
      /\ ops' = [ops EXCEPT ![k] = "posted"] /\ buffer' = [buffer EXCEPT ![k] = region[s]]
      /\ UNCHANGED <<config, pc, died, eps, pool, mine, comm, open, enabled, region>>
  BY DEF Post, At
<1>2. H("mr", region[s]) \in open
  BY <1>1 DEF IInv, RegionsOwned
<1>3. /\ ops' \in [Kinds -> {"idle", "posted", "complete", "counted"}]
      /\ buffer' \in [Kinds -> Regions \cup {None}]
      /\ ops'[k] = "posted" /\ buffer'[k] = region[s]
      /\ \A j \in Kinds : j # k => ops'[j] = ops[j] /\ buffer'[j] = buffer[j]
  BY <1>1 DEF IInv, TypeOK
<1>. QED  BY <1>1, <1>2, <1>3, OperationsKeep DEF IInv, TypeOK, Copies

LEMMA NetCompletesKeeps ==
  ASSUME IInv, NEW k \in Kinds, NetCompletes(k)
  PROVE IInv'
<1>1. /\ Running /\ ops[k] = "posted" /\ ops' = [ops EXCEPT ![k] = "complete"]
      /\ UNCHANGED <<config, pc, died, eps, pool, mine, comm, open, enabled, region, buffer>>
  BY DEF NetCompletes
<1>2. /\ ops' \in [Kinds -> {"idle", "posted", "complete", "counted"}]
      /\ ops'[k] = "complete" /\ \A j \in Kinds : j # k => ops'[j] = ops[j]
  BY <1>1 DEF IInv, TypeOK
<1>. QED  BY <1>1, <1>2, OperationsKeep DEF IInv, TypeOK, Copies

LEMMA MainPollsKeeps ==
  ASSUME IInv, MainPolls
  PROVE IInv'
<1>1. /\ Running /\ ops' = [k \in Kinds |-> Polled(Main, k)]
      /\ UNCHANGED <<config, pc, died, eps, pool, mine, comm, open, enabled, region, buffer>>
  BY DEF MainPolls, At
<1>2. /\ ops' \in [Kinds -> {"idle", "posted", "complete", "counted"}]
      /\ \A k \in Kinds : ops'[k] = ops[k] \/ (ops[k] = "complete" /\ ops'[k] = "counted")
  BY <1>1, PolledIsCounted DEF IInv, TypeOK
<1>. QED  BY <1>1, <1>2, OperationsKeep DEF IInv, TypeOK, Copies

LEMMA PollersKeep ==
  ASSUME IInv, NEW t \in Pollers, Poll(t) \/ PollSends(t) \/ PollReceives(t)
  PROVE IInv'
<1>1. PICK s \in {"check", "tx", "rx"} :
        /\ Running /\ pc[t] \in {"check", "tx", "rx"} /\ Goto(t, s)
        /\ UNCHANGED <<config, died, eps, pool, mine, comm, open, enabled, region, buffer>>
  BY DEF Poll, PollSends, PollReceives, At, opVars
<1>2. /\ ops' \in [Kinds -> {"idle", "posted", "complete", "counted"}]
      /\ \A k \in Kinds : ops'[k] = ops[k] \/ (ops[k] = "complete" /\ ops'[k] = "counted")
  <2>1. CASE Poll(t)
    BY <2>1 DEF Poll, IInv, TypeOK, opVars
  <2>2. CASE PollSends(t)
    BY <2>2, PolledIsCounted DEF PollSends, IInv, TypeOK, Kinds
  <2>3. CASE PollReceives(t)
    BY <2>3, PolledIsCounted DEF PollReceives, IInv, TypeOK, Kinds
  <2>. QED  BY <2>1, <2>2, <2>3
<1>3. /\ pc' \in [Users -> MainSteps \cup PollSteps] /\ pc'[t] = s /\ pc'[Main] = pc[Main]
      /\ \A u \in Pollers : u # t => pc'[u] = pc[u]
  BY <1>1, PollerMoves DEF IInv, PollSteps
<1>. QED  BY <1>1, <1>2, <1>3, OperationsKeep DEF IInv, TypeOK, Copies

\* A context goes back when its thread exits; a thread-local endpoint is in the pool.
LEMMA ExitKeeps ==
  ASSUME IInv, NEW t \in Pollers, Exit(t)
  PROVE IInv'
<1>1. /\ Running /\ pc[t] = "check" /\ pc[Main] = "join" /\ Goto(t, "gone")
      /\ pool' = IF GivesBack(t) THEN Append(pool, mine[t]) ELSE pool
      /\ mine' = [mine EXCEPT ![t] = None]
      /\ UNCHANGED <<config, died, eps, comm, open, enabled, region, opVars>>
      /\ UNCHANGED config /\ UNCHANGED opVars
  BY DEF Exit, Stopped, At
<1>2. t \in Users /\ t # Main /\ Main \in Users
  BY NamesApart
<1>3. /\ pc' \in [Users -> MainSteps \cup PollSteps] /\ pc'[t] = "gone" /\ pc'[Main] = "join"
      /\ \A u \in Users : u # t => pc'[u] = pc[u]
  BY <1>1, <1>2, OneMoves DEF IInv, PollSteps
<1>4. /\ mine' \in [Users -> Users \cup ContextNames \cup {None}] /\ mine'[t] = None
      /\ \A u \in Users : u # t => mine'[u] = mine[u]
  BY <1>1, <1>2 DEF IInv, TypeOK
<1>5. GivesBack(t) =>
        /\ type \in Scalable /\ mine[t] \in ContextNames /\ mine[t] # None
        /\ mine[t] \notin Range(pool)
  BY <1>2 DEF GivesBack, IInv, Pools
<1>6. pool' \in Seq(Users \cup ContextNames) /\ IsInjective(pool')
      /\ Range(pool') = IF GivesBack(t) THEN Range(pool) \cup {mine[t]} ELSE Range(pool)
  <2>1. pool \in Seq(Users \cup ContextNames) /\ IsInjective(pool)
    BY DEF IInv, TypeOK, Pools
  <2>2. CASE GivesBack(t)
    <3>1. pool' = Append(pool, mine[t]) /\ mine[t] \in Users \cup ContextNames
      BY <1>1, <1>5, <2>2
    <3>. QED  BY <1>5, <2>1, <2>2, <3>1, Pushed
  <2>3. CASE ~GivesBack(t)
    BY <1>1, <2>1, <2>3
  <2>. QED  BY <2>2, <2>3
<1>. USE <1>1, <1>2, <1>3, <1>4, TypeIsKept, NamesApart DEF IInv
<1>7. TypeOK'
  BY <1>6 DEF TypeOK, PollSteps, opVars
<1>8. Threads'
  BY DEF Threads, Boots, Closed
<1>9. Wrapped' /\ NoRegionYet' /\ RegionsOwned'
  BY DEF Wrapped, NoRegionYet, RegionsOwned
<1>10. DiesOnlyOf'
  BY DEF DiesOnlyOf, Running
<1>11. Up'
  <2>1. \A n \in Range(pool') : Whole(n)
    BY <1>5, <1>6 DEF Up
  <2>. QED  BY <2>1 DEF Up, Whole
<1>12. Pools'
  <2>1. pc[Main] \notin Boots \cup Closed \cup Gone
    BY DEF Boots, Closed, Gone
  <2>2. type \notin Scalable => pool' = pool
    BY <1>5
  <2>3. type \in Scalable => \A u \in Users : mine'[u] \notin Range(pool')
    BY <1>5, <1>6 DEF Pools
  <2>4. type \in Scalable => \A c \in Range(Allocated) :
          c \in Range(pool') \/ \E u \in Users : mine'[u] = c
    <3>. SUFFICES ASSUME type \in Scalable, NEW c \in Range(Allocated)
                  PROVE c \in Range(pool') \/ \E u \in Users : mine'[u] = c
      OBVIOUS
    <3>1. c # None /\ (c \in Range(pool) \/ \E u \in Users : mine[u] = c)
      BY AllocatedContexts DEF Pools, Serving
    <3>2. mine[t] = c => GivesBack(t)
      BY <3>1 DEF GivesBack
    <3>. QED  BY <1>6, <3>1, <3>2
  <2>5. type \in Scalable => Range(pool') \subseteq ContextNames
    BY <1>5, <1>6 DEF Pools
  <2>6. type \in Scalable => \A u, v \in Users : mine'[u] # None /\ u # v => mine'[u] # mine'[v]
    BY DEF Pools
  <2>7. type \in Shared => pool' = <<>>
    BY <2>2 DEF Pools, Shared, Scalable
  <2>8. type = "threadlocalTx" =>
          /\ Range(pool') \subseteq Users
          /\ \A u \in Users : mine'[u] \in {None, u}
          /\ \A u \in Users : mine'[u] = u => u \in Range(pool')
          /\ \A u \in Users : u \in Range(pool') => mine'[u] = u \/ pc'[u] = "gone"
    BY <2>1, <2>2 DEF Pools, Scalable
  <2>9. \A u \in Users : mine'[u] = None \/ mine'[u] = mine[u]
    OBVIOUS
  <2>. QED  BY <1>6, <2>1, <2>3, <2>4, <2>5, <2>6, <2>7, <2>8, <2>9 DEF Pools
<1>13. Accounted'
  <2>1. \A n \in Names : Owned(n) => Owned(n)'
    BY <1>6 DEF Owned, GivesBack
  <2>2. \A h \in open : h.kind \in {"ep", "rq", "tq"} => h.name \in Names
    BY KindsOfHandles DEF TypeOK
  <2>. QED  BY <2>1, <2>2 DEF Accounted
<1>14. Copies'
  <2>1. mine'[Main] = mine[Main]
    OBVIOUS
  <2>. QED  BY <2>1 DEF Copies, HasNone, TxOf, opVars
<1>. QED  BY <1>7, <1>8, <1>9, <1>10, <1>11, <1>12, <1>13, <1>14
-----------------------------------------------------------------------------
(* The destructors.                                                        *)

\* While they close there are no poll threads, posted operations and work.
LEMMA ClosingKeeps ==
  ASSUME IInv, Running, pc[Main] \in {"closePools"} \cup Closed,
         NEW s \in Closed, Goto(Main, s), open' \subseteq open, enabled' \subseteq enabled,
         \A h \in open : h.kind = "mr" => h \in open',
         UNCHANGED <<config, died, mine, comm, region, opVars>>
  PROVE /\ Threads' /\ Copies' /\ NoRegionYet' /\ RegionsOwned' /\ DiesOnlyOf'
        /\ pc' \in [Users -> MainSteps \cup PollSteps] /\ pc'[Main] = s
        /\ \A t \in Pollers : pc'[t] = pc[t] /\ mine[t] = None
<1>1. s \in MainSteps
  BY DEF Closed, MainSteps
<1>2. /\ pc' \in [Users -> MainSteps \cup PollSteps] /\ pc'[Main] = s
      /\ \A t \in Pollers : pc'[t] = pc[t]
  BY <1>1, MainMoves DEF IInv
<1>3. UNCHANGED config /\ UNCHANGED opVars
  OBVIOUS
<1>. USE <1>2, <1>3, TypeIsKept, NamesApart DEF IInv
<1>4. s \notin Boots \cup Serving /\ pc[Main] \notin Boots \cup Serving
  BY DEF Boots, Serving, Closed
<1>5. Threads' /\ \A t \in Pollers : mine[t] = None
  BY <1>4 DEF Threads, Serving, Closed
<1>6. Copies'
  BY <1>4 DEF Copies, Polling, Serving, opVars
<1>7. NoRegionYet'
  BY <1>4 DEF NoRegionYet, Serving
<1>8. RegionsOwned'
  BY <1>4, HandleFields DEF RegionsOwned, Serving
<1>9. DiesOnlyOf'
  BY DEF DiesOnlyOf, Running
<1>. QED  BY <1>2, <1>5, <1>6, <1>7, <1>8, <1>9

\* Nothing rests on the endpoints of threads, so that the pool always closes.
LEMMA ClosePoolsKeeps ==
  ASSUME IInv, ClosePools
  PROVE IInv'
<1>1. Running /\ pc[Main] = "closePools"
  BY DEF ClosePools, At
<1>2. open \subseteq Handles /\ Range(pool) \subseteq Users \cup ContextNames
  BY RangeOfPool DEF IInv, TypeOK
<1>3. ~ \E n \in Range(pool) : CleanupFails(n, open)
  BY <1>2, CleanupFailsOnlyOf, NamesApart
<1>4. /\ open' = open \ UNION {Parts(n) : n \in Range(pool)}
      /\ enabled' = enabled \ Range(pool) /\ pool' = <<>> /\ Goto(Main, "closeEndpoints")
      /\ UNCHANGED <<config, died, eps, mine, comm, region, opVars>>
      /\ UNCHANGED config /\ UNCHANGED opVars
  BY <1>3 DEF ClosePools
<1>5. \A h \in open : h \in open' <=> \A n \in Range(pool) : h \notin Parts(n)
  BY <1>4
<1>6. /\ Threads' /\ Copies' /\ NoRegionYet' /\ RegionsOwned' /\ DiesOnlyOf'
      /\ pc' \in [Users -> MainSteps \cup PollSteps] /\ pc'[Main] = "closeEndpoints"
      /\ \A t \in Pollers : pc'[t] = pc[t] /\ mine[t] = None
  BY <1>1, <1>4, <1>5, PartsOfWrapper, ClosingKeeps DEF Closed
<1>. USE <1>1, <1>4, <1>6, TypeIsKept, NamesApart DEF IInv
<1>7. TypeOK'
  BY <1>2 DEF TypeOK, MainSteps, PollSteps, opVars
<1>8. Wrapped'
  BY DEF Wrapped, Boots, Serving, Gone
<1>9. Up'
  <2>1. ASSUME NEW t \in Users, mine[t] # None, type \in Scalable
        PROVE Whole(mine[t])'
    <3>1. Whole(mine[t]) /\ mine[t] \notin Range(pool)
      BY <2>1 DEF Up, Pools
    <3>2. \A h \in Parts(mine[t]), n \in Range(pool) : h \notin Parts(n)
      BY <3>1, PartsOfWrapper
    <3>. QED  BY <1>5, <3>1, <3>2 DEF Whole
  <2>. QED  BY <2>1, EmptyPool DEF Up, Boots, Serving, Closed
<1>10. Pools'
  BY EmptyPool DEF Pools, Boots, Serving, Closed, Gone
<1>11. Accounted'
  <2>1. ASSUME NEW h \in open', h.kind \in {"ep", "rq", "tq"}
        PROVE h \in Parts(h.name) /\ Owned(h.name)'
    <3>1. h \in Parts(h.name) /\ Owned(h.name) /\ h.name \notin Range(pool)
      BY <1>5, <2>1 DEF Accounted
    <3>. QED  BY <3>1 DEF Owned
  <2>. QED  BY <2>1 DEF Accounted
<1>. QED  BY <1>6, <1>7, <1>8, <1>9, <1>10, <1>11

\* The scalable endpoint closes when main has no context; then no endpoint is left.
LEMMA CloseEndpointsKeeps ==
  ASSUME IInv, CloseEndpoints
  PROVE IInv'
<1>. DEFINE tx == IF eps.tx = None THEN {} ELSE Parts(eps.tx)
            rx == IF eps.rx = None THEN {} ELSE Parts(eps.rx)
            fails == \/ eps.tx # None /\ CleanupFails(eps.tx, open)
                     \/ eps.rx # None /\ CleanupFails(eps.rx, open \ tx)
<1>1. Running /\ pc[Main] = "closeEndpoints"
  BY DEF CloseEndpoints, At
<1>2. \/ eps = None /\ Die("null")
      \/ eps # None /\ fails /\ Die("busy")
      \/ /\ eps # None /\ ~fails
         /\ open' = open \ (tx \cup rx) /\ enabled' = enabled \ {eps.tx, eps.rx}
         /\ eps' = None /\ Goto(Main, "closeAv")
         /\ UNCHANGED <<config, died, pool, mine, comm, region, opVars>>
  BY DEF CloseEndpoints
<1>3. eps # None => eps = [rx |-> "rx", tx |-> TxName] /\ type # "scalableTxRx"
  BY <1>1 DEF IInv, Wrapped, RxName
<1>4. eps # None => /\ eps.rx = "rx" /\ eps.tx = TxName /\ eps.rx # None
                    /\ tx = (IF TxName = None THEN {} ELSE Parts(TxName)) /\ rx = Parts("rx")
  BY <1>3, NamesApart DEF Names
<1>5. open \subseteq Handles /\ pool = <<>> /\ \A t \in Pollers : mine[t] = None
  BY <1>1, NamesApart DEF IInv, TypeOK, Pools, Threads, Closed
<1>6. \A h \in open : h.kind \in {"ep", "rq", "tq"} =>
        /\ h \in Parts(h.name) /\ h.name # None
        /\ h.name \in {"rx", TxName} \/ (type = "scalableTx" /\ h.name = mine[Main])
  <2>. SUFFICES ASSUME NEW h \in open, h.kind \in {"ep", "rq", "tq"}
                PROVE /\ h \in Parts(h.name) /\ h.name # None
                      /\ \/ h.name \in {"rx", TxName}
                         \/ type = "scalableTx" /\ h.name = mine[Main]
    OBVIOUS
  <2>1. h \in Parts(h.name) /\ Owned(h.name) /\ h.name # None
    BY <1>5, KindsOfHandles, NamesApart DEF IInv, Accounted
  <2>2. CASE eps # None /\ h.name \in {eps.rx, eps.tx}
    BY <1>4, <2>1, <2>2
  <2>3. CASE type \in Scalable /\ \E t \in Users : mine[t] = h.name
    <3>1. type = "scalableTx"
      BY <2>1, <2>3 DEF IInv, Pools, Scalable
    <3>. QED  BY <1>5, <2>1, <2>3, <3>1 DEF Users
  <2>. QED  BY <1>5, <2>1, <2>2, <2>3, EmptyPool DEF Owned
<1>7. CASE eps = None /\ Die("null")
  BY <1>1, <1>7, DeathKeeps
<1>8. CASE eps # None /\ fails /\ Die("busy")
  <2>1. CASE eps.tx # None /\ CleanupFails(eps.tx, open)
    <3>1. \/ TxName = "sx" /\ \E h \in open : h.kind = "ep" /\ h.name \in ContextNames
          \/ \E h \in open : h.kind = "mr"
      BY <1>4, <1>5, <1>8, <2>1, CleanupFailsOnlyOf
    <3>2. CASE \E h \in open : h.kind = "mr"
      <4>1. \E r \in Regions : H("mr", r) \in open
        BY <1>5, <3>2, KindsOfHandles
      <4>. QED  BY <1>1, <1>8, <4>1, DeathKeeps
    <3>3. CASE TxName = "sx" /\ \E h \in open : h.kind = "ep" /\ h.name \in ContextNames
      <4>1. type = "scalableTx" /\ mine[Main] # None
        BY <1>6, <3>3, NamesApart DEF TxName
      <4>. QED  BY <1>1, <1>8, <4>1, DeathKeeps
    <3>. QED  BY <3>1, <3>2, <3>3
  <2>2. CASE eps.rx # None /\ CleanupFails(eps.rx, open \ tx)
    <3>1. \E h \in open \ tx : h.kind = "mr"
      <4>1. open \ tx \subseteq Handles  BY <1>5
      <4>. HIDE DEF tx
      <4>. QED  BY <1>4, <1>8, <2>2, <4>1, CleanupFailsOnlyOf
    <3>2. \E r \in Regions : H("mr", r) \in open
      BY <1>5, <3>1, KindsOfHandles
    <3>. QED  BY <1>1, <1>8, <3>2, DeathKeeps
  <2>. QED  BY <1>8, <2>1, <2>2
<1>9. CASE /\ eps # None /\ ~fails
           /\ open' = open \ (tx \cup rx) /\ enabled' = enabled \ {eps.tx, eps.rx}
           /\ eps' = None /\ Goto(Main, "closeAv")
           /\ UNCHANGED <<config, died, pool, mine, comm, region, opVars>>
  <2>. USE <1>9
  <2>1. UNCHANGED config /\ UNCHANGED opVars
    OBVIOUS
  <2>2. type \in Scalable => mine[Main] = None
    <3>. SUFFICES ASSUME type \in Scalable, mine[Main] # None PROVE FALSE
      OBVIOUS
    <3>1. type = "scalableTx" /\ TxName = "sx"
      BY <1>3 DEF Scalable, TxName
    <3>2. mine[Main] \in ContextNames /\ H("ep", mine[Main]) \in open
      BY NamesApart, PartsOfWrapper DEF IInv, Pools, Up, Whole
    <3>3. H("ep", "sx") \in RestsOn(H("ep", mine[Main]))
      BY <3>2, HandleFields DEF RestsOn
    <3>4. CleanupFails("sx", open)
      BY <3>2, <3>3 DEF CleanupFails, Busy
    <3>. QED  BY <1>4, <3>1, <3>4, NamesApart DEF Names
  <2>3. \A h \in open : h.kind \in {"ep", "rq", "tq"} => h \in tx \cup rx
    <3>1. \A h \in open : h.kind \in {"ep", "rq", "tq"} =>
            h \in Parts(h.name) /\ h.name # None /\ h.name \in {"rx", TxName}
      BY <1>6, <2>2 DEF Scalable
    <3>. QED  BY <1>4, <3>1
  <2>4. \A h \in open : h.kind = "mr" => h \in open'
    BY <1>4, PartsOfWrapper
  <2>5. /\ Threads' /\ Copies' /\ NoRegionYet' /\ RegionsOwned' /\ DiesOnlyOf'
        /\ pc' \in [Users -> MainSteps \cup PollSteps] /\ pc'[Main] = "closeAv"
        /\ \A t \in Pollers : pc'[t] = pc[t] /\ mine[t] = None
    <3>1. open' \subseteq open /\ enabled' \subseteq enabled
      OBVIOUS
    <3>. QED  BY <1>1, <2>4, <3>1, ClosingKeeps DEF Closed
  <2>6. open' \subseteq open /\ enabled' \subseteq enabled
        /\ \A h \in open' : h.kind \notin {"ep", "rq", "tq"}
    BY <2>3
  <2>. HIDE <1>9
  <2>7. eps' = None /\ UNCHANGED <<config, died, pool, mine, comm, region, opVars>>
    BY <1>9
  <2>. USE <1>1, <2>1, <2>5, <2>6, <2>7, TypeIsKept, NamesApart DEF IInv
  <2>8. TypeOK'
    BY DEF TypeOK, MainSteps, PollSteps, opVars
  <2>9. Wrapped'
    BY <1>3, <1>9 DEF Wrapped, Boots, Serving, Gone
  <2>10. Up'
    BY <1>5, <2>2, EmptyPool DEF Up, Boots, Serving, Closed, Users
  <2>11. Pools'
    BY <1>5, <2>2, EmptyPool DEF Pools, Boots, Serving, Closed, Gone, Users
  <2>12. Accounted'
    BY DEF Accounted
  <2>. QED  BY <2>5, <2>8, <2>9, <2>10, <2>11, <2>12
<1>. QED  BY <1>2, <1>7, <1>8, <1>9

\* Behind the endpoints only memory can be in the way.
LEMMA CloseKeeps ==
  ASSUME IInv, Running, NEW h \in {Av, Domain, Fabric}, NEW s \in Gone,
         pc[Main] \in Gone, Goto(Main, s), open' = open \ {h},
         pc[Main] = "closeAv" => h = Av,
         UNCHANGED <<config, died, eps, pool, mine, comm, enabled, region, opVars>>,
         s = "closeAv" => pc[Main] = "closeAv"
  PROVE IInv'
<1>1. UNCHANGED config /\ UNCHANGED opVars /\ pc[Main] \in Closed /\ s \in Closed
  BY DEF Gone, Closed
<1>2. \A u \in open : u.kind = "mr" => u \in open'
  BY HandleFields DEF Av, Domain, Fabric
<1>3. /\ Threads' /\ Copies' /\ NoRegionYet' /\ RegionsOwned' /\ DiesOnlyOf'
      /\ pc' \in [Users -> MainSteps \cup PollSteps] /\ pc'[Main] = s
      /\ \A t \in Pollers : pc'[t] = pc[t] /\ mine[t] = None
  BY <1>1, <1>2, ClosingKeeps
<1>4. pool = <<>> /\ (type \in Scalable => mine[Main] = None)
  BY <1>1, NamesApart DEF IInv, Pools
<1>. USE <1>1, <1>3, <1>4, TypeIsKept, NamesApart DEF IInv
<1>5. TypeOK'
  BY DEF TypeOK, Gone, MainSteps, PollSteps, opVars
<1>6. Wrapped'
  BY DEF Wrapped, Boots, Serving, Gone
<1>7. Up'
  BY EmptyPool DEF Up, Boots, Serving, Gone, Users
<1>8. Pools'
  BY EmptyPool DEF Pools, Boots, Serving, Closed, Gone, Users
<1>9. Accounted'
  BY DEF Accounted, Owned, Gone
<1>. QED  BY <1>3, <1>5, <1>6, <1>7, <1>8, <1>9

\* When the address vector or the domain is busy, it is with memory.
LEMMA BusyWithMemory ==
  ASSUME IInv, pc[Main] \in Gone, NEW h \in {Av, Domain}, Busy(h, open),
         h = Domain => Av \notin open
  PROVE \E r \in Regions : H("mr", r) \in open
<1>1. open \subseteq Handles
  BY DEF IInv, TypeOK
<1>2. \A u \in open : u.kind \notin {"ep", "rq", "tq"}
  <2>1. pool = <<>> /\ eps = None /\ (type \in Scalable => \A t \in Users : mine[t] = None)
    BY DEF IInv, Pools, Wrapped, Gone, Closed
  <2>2. \A n \in Names : ~Owned(n)
    BY <2>1, EmptyPool, NamesApart DEF Owned
  <2>. QED  BY <1>1, <2>2, KindsOfHandles DEF IInv, Accounted
<1>3. PICK u \in open : h \in RestsOn(u)
  BY DEF Busy
<1>4. u.kind \in {"mr", "fabric", "domain", "av"}
  BY <1>1, <1>2, KindsOfHandles
<1>5. Av # Domain /\ Domain # Fabric /\ Av # Fabric
  BY HandleFields DEF Av, Domain, Fabric
<1>6. u.kind # "fabric" /\ u.kind # "domain"
  BY <1>3, <1>5 DEF RestsOn
<1>7. u.kind # "av"
  <2>. SUFFICES ASSUME u.kind = "av" PROVE FALSE
    OBVIOUS
  <2>1. RestsOn(u) = {Domain}  BY DEF RestsOn
  <2>2. u = Av  BY <1>1, KindsOfHandles DEF Av
  <2>. QED  BY <1>3, <1>5, <2>1, <2>2
<1>. QED  BY <1>1, <1>4, <1>6, <1>7, KindsOfHandles

LEMMA CloseAvKeeps ==
  ASSUME IInv, CloseAv
  PROVE IInv'
<1>1. Running /\ pc[Main] = "closeAv"
  BY DEF CloseAv, Close, At
<1>2. CASE Busy(Av, open)
  <2>1. Die("busy")
    BY <1>2 DEF CloseAv, Close
  <2>2. \E r \in Regions : H("mr", r) \in open
    BY <1>1, <1>2, BusyWithMemory, HandleFields DEF Gone, Av, Domain
  <2>. QED  BY <1>1, <2>1, <2>2, DeathKeeps
<1>3. CASE ~Busy(Av, open)
  BY <1>1, <1>3, CloseKeeps DEF CloseAv, Close, Gone
<1>. QED  BY <1>2, <1>3

LEMMA CloseDomainKeeps ==
  ASSUME IInv, CloseDomain
  PROVE IInv'
<1>1. Running /\ pc[Main] = "closeDomain"
  BY DEF CloseDomain, Close, At
<1>2. CASE Busy(Domain, open)
  <2>1. Die("busy")
    BY <1>2 DEF CloseDomain, Close
  <2>2. \E r \in Regions : H("mr", r) \in open
    BY <1>1, <1>2, BusyWithMemory DEF Gone, IInv, Accounted
  <2>. QED  BY <1>1, <2>1, <2>2, DeathKeeps
<1>3. CASE ~Busy(Domain, open)
  BY <1>1, <1>3, CloseKeeps DEF CloseDomain, Close, Gone
<1>. QED  BY <1>2, <1>3

\* main has no context left to push into a pool that is no more.
LEMMA ReturnKeeps ==
  ASSUME IInv, Return
  PROVE IInv'
<1>1. Running /\ pc[Main] = "exit"
  BY DEF Return, At
<1>2. ~GivesBack(Main)
  BY <1>1, NamesApart DEF GivesBack, IInv, Pools, Gone
<1>. QED  BY <1>1, <1>2, CloseKeeps DEF Return, Gone
-----------------------------------------------------------------------------
(* The theorems.                                                           *)

\* A provider may refuse anything.
LEMMA RefusedKeeps ==
  ASSUME IInv, NEW t \in Users, Refused(t)
  PROVE IInv'
BY DeathKeeps DEF Refused

\* Every step keeps the invariant.
LEMMA StepHolds == IInv /\ [Next]_vars => IInv'
<1>. SUFFICES ASSUME IInv, [Next]_vars PROVE IInv'
  OBVIOUS
<1>1. CASE Initialize
  BY <1>1, AdvancesKeep, OpenFabricKeeps, CreateAvKeeps, CreateRxKeeps, BindTxQueueKeeps,
    CreateTxKeeps, CreateContextsKeeps, EnableRxKeeps DEF Initialize
<1>2. CASE Work
  BY <1>2, CopyEndpointsKeeps, SpawnPollersKeeps, RegisterKeeps, PostKeeps, AdvancesKeep
    DEF Work
<1>3. CASE Destroy
  BY <1>3, ReleaseKeeps, AdvancesKeep, ClosePoolsKeeps, CloseEndpointsKeeps, CloseAvKeeps,
    CloseDomainKeeps, ReturnKeeps DEF Destroy
<1>4. CASE MainPolls
  BY <1>4, MainPollsKeeps
<1>5. CASE \E s, d \in Segments : Move(s, d)
  BY <1>5, MoveKeeps
<1>6. CASE \E t \in Users : Own(t) \/ Refused(t)
  BY <1>6, CreateOwnKeeps, PopOwnKeeps, RefusedKeeps DEF Own
<1>7. CASE \E t \in Pollers : Poller(t)
  BY <1>7, PollersKeep, ExitKeeps DEF Poller
<1>8. CASE \E k \in Kinds : NetCompletes(k)
  BY <1>8, NetCompletesKeeps
<1>9. CASE UNCHANGED vars
  <2>1. UNCHANGED config /\ UNCHANGED opVars
    BY <1>9 DEF vars
  <2>. USE <1>9, <2>1, TypeIsKept DEF vars, IInv
  <2>2. TypeOK' /\ Threads' /\ Wrapped' /\ NoRegionYet' /\ RegionsOwned' /\ DiesOnlyOf'
    BY DEF TypeOK, Threads, Wrapped, NoRegionYet, RegionsOwned, DiesOnlyOf, opVars
  <2>3. Up' /\ Pools' /\ Accounted'
    BY DEF Up, Whole, Pools, Accounted, Owned
  <2>4. Copies'
    BY DEF Copies, HasNone, TxOf, opVars
  <2>. QED  BY <2>2, <2>3, <2>4
<1>. QED  BY <1>1, <1>2, <1>3, <1>4, <1>5, <1>6, <1>7, <1>8, <1>9 DEF Next, Over

\* The invariant holds in every state.
LEMMA Invariance == Spec => []IInv
BY InitHolds, StepHolds, PTL DEF Spec

\* Every variable of a rank's life keeps its type, for any endpoint type, provider
\* and number of threads: in particular the communicator never copies a wrapper that
\* initialize did not make, and no thread polls a context of another name.
THEOREM EndpointsTypeCorrect == Spec => []TypeOK
<1>1. IInv => TypeOK
  BY DEF IInv
<1>. QED  BY <1>1, Invariance, PTL

\* Endpoints of threads are never shared or lost: each is in the pool of
\* endpoint_context_pool or with one thread, whoever asks for one and exits when.
THEOREM EndpointsHaveOneOwner == Spec => []EndpointsOwned
<1>1. IInv => EndpointsOwned
  <2>. SUFFICES ASSUME IInv PROVE EndpointsOwned
    OBVIOUS
  <2>. USE NamesApart DEF IInv
  <2>1. type \in Shared \cup {"threadlocalTx"} \cup Scalable /\ DOMAIN mine = Users
    BY EndpointsAssumption DEF TypeOK, AllTypes, Shared, Scalable
  <2>2. \A t, u \in Users : mine[t] # None /\ t # u => mine[t] # mine[u]
    BY <2>1 DEF Pools
  <2>3. ASSUME NEW t \in Users, mine[t] # None
        PROVE (mine[t] \in Range(pool) <=> type = "threadlocalTx") \/ pc[Main] \in Closed
    BY <2>1, <2>3 DEF Pools, Scalable
  <2>4. ASSUME NEW h \in open, h.kind = "ep"
        PROVE h.name \in Range(pool) \cup Range(mine) \/ h.name \in {eps.rx, eps.tx}
    <3>1. Owned(h.name)
      BY <2>4 DEF Accounted
    <3>2. \A t \in Users : mine[t] \in Range(mine)
      BY <2>1 DEF Range
    <3>. QED  BY <3>1, <3>2 DEF Owned
  <2>5. IsInjective(pool)
    BY DEF Pools
  <2>. QED  BY <2>2, <2>3, <2>4, <2>5 DEF EndpointsOwned, Closed
<1>. QED  BY <1>1, Invariance, PTL

\* However often memory_segment objects are moved, each region is deregistered once,
\* and none is lost before the heap goes.
THEOREM RegionsHaveOneOwner == Spec => []RegionsOwned
<1>1. IInv => RegionsOwned
  BY DEF IInv
<1>. QED  BY <1>1, Invariance, PTL

\* No queue is polled after it was closed or before it was enabled, and what the
\* provider works on keeps its endpoint and its memory.
THEOREM UseBeforeClose == Spec => []NothingUsedAfterClose
<1>1. IInv => NothingUsedAfterClose
  <2>. SUFFICES ASSUME IInv PROVE NothingUsedAfterClose
    OBVIOUS
  <2>. USE NamesApart DEF IInv
  <2>1. ASSUME NEW t \in Users, pc[Main] \in {"guard"} \cup Polling, ~HasNone(t)
        PROVE /\ eps # None /\ {H("tq", TxOf(t)), H("rq", eps.rx)} \subseteq open
              /\ {TxOf(t), eps.rx} \subseteq enabled
    <3>1. /\ eps = [rx |-> "rx", tx |-> TxName] /\ type # "scalableTxRx" /\ eps # None
          /\ Parts("rx") \subseteq open /\ "rx" \in enabled
      BY <2>1, WrappersExist DEF Wrapped, Up, Serving, Polling, RxName
    <3>2. CASE type = "single"
      BY <3>1, <3>2, PartsOfRx DEF TxOf
    <3>3. CASE type = "multiple"
      <4>1. Whole("tx") /\ TxOf(t) = "tx"
        BY <2>1, <3>1, <3>3 DEF Up, Serving, Polling, TxOf, TxName
      <4>2. H("tq", "tx") \in Parts("tx")
        BY PartsOfWrapper
      <4>. QED  BY <3>1, <4>1, <4>2, PartsOfRx DEF Whole
    <3>4. CASE type \notin Shared
      <4>1. TxOf(t) = mine[t] /\ mine[t] # None
        BY <2>1, <3>4 DEF TxOf, HasNone, Shared
      <4>2. Whole(mine[t]) /\ mine[t] \in Users \cup ContextNames
        BY <2>1, <4>1 DEF Up, Polling, Closed, TypeOK
      <4>3. H("tq", mine[t]) \in Parts(mine[t])
        BY <4>2, PartsOfWrapper
      <4>. QED  BY <3>1, <4>1, <4>2, <4>3, PartsOfRx DEF Whole
    <3>. QED  BY <3>2, <3>3, <3>4 DEF Shared
  <2>2. ASSUME NEW t \in Pollers, pc[t] \in {"tx", "rx"}
        PROVE pc[Main] \in Polling
    BY <2>2 DEF Threads, TypeOK, MainSteps, Boots, Closed, Polling
  <2>3. ASSUME NEW k \in Kinds, ops[k] = "posted"
        PROVE EndpointFor(k) \in enabled /\ H("mr", buffer[k]) \in open
    <3>1. pc[Main] \in Polling /\ H("mr", buffer[k]) \in open
      BY <2>3 DEF Copies, Polling
    <3>2. ~HasNone(Main) /\ comm = [tx |-> TxOf(Main), rx |-> eps.rx]
      BY <3>1 DEF Copies
    <3>3. comm.tx \in enabled /\ comm.rx \in enabled
      BY <2>1, <3>1, <3>2
    <3>. QED  BY <3>1, <3>3 DEF EndpointFor
  <2>. QED  BY <2>1, <2>2, <2>3 DEF NothingUsedAfterClose
<1>. QED  BY <1>1, Invariance, PTL

\* Getting through the calls to the provider, a process only dies of a region that
\* stays registered, of a destructor without initialize, or of scalable endpoints.
THEOREM DeathsHaveCauses == Spec => []DiesOnlyOf
<1>1. IInv => DiesOnlyOf
  BY DEF IInv
<1>. QED  BY <1>1, Invariance, PTL
=============================================================================
