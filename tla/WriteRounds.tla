---------------------------- MODULE WriteRounds ----------------------------
(***************************************************************************)
(* The rounds of the two RMA write tests.  In each round every rank        *)
(* poisons its target buffers, writes its data into a buffer of each peer, *)
(* waits until it sees the data of all peers, checks it and meets the      *)
(* others at a fence.  The "writedata" test also has each write announced  *)
(* at its target by an event, and counts the events in a callback that     *)
(* lives for one round.                                                    *)
(*                                                                         *)
(* The poll threads of Progress appear here by what they do to this        *)
(* protocol: they count acknowledgements and run the callback.             *)
(***************************************************************************)
EXTENDS Naturals, FiniteSets

CONSTANTS
  N,            \* ranks of the job
  Rounds,       \* iterations of the test
  Protocols,    \* the tests to consider: "write", "writedata"
  Deliveries    \* what delivery_complete_supported may turn out to be

ASSUME WriteRoundsAssumption ==
  /\ N \in Nat \ {0, 1}
  /\ Rounds \in Nat \ {0}
  /\ Protocols \subseteq {"write", "writedata"}
  /\ Deliveries \subseteq BOOLEAN

Ranks == 0..(N - 1)

\* Faulty variant: a rank is a peer of its own.
Everyone(r) == Ranks

Peers(r) == Ranks \ {r}

\* A write is known by its ends and its round.
Write == {w \in [from : Ranks, to : Ranks, round : 1..Rounds] : w.from # w.to}

VARIABLES
  protocol,   \* which test runs
  delivery,   \* communicator::delivery_complete_supported
  it,         \* [Ranks -> 1..Rounds]: it + 1 of the code
  pc,         \* where the main thread of each rank is
  left,       \* peers its current loop has still to come to
  buffer,     \* buffer[r][p]: the round whose data r has from p, 0 for poison
  posted, placed, acked, told,  \* the writes posted, arrived, completed, announced
  scope,      \* remote_cq_data_callback_: the round it was installed for, 0 for none
  hearing,    \* callbacks that run: the write, the round captured, the step
  ok, processed, seen,  \* remote_cq_data_ok, remote_cq_data_processed, seen_senders
  arrived,    \* how many fences each rank has come to
  missed      \* history: writes wiped out, or announced to no or a wrong callback

mainVars == <<it, pc, left, arrived>>
netVars == <<posted, placed, acked, told>>
eventVars == <<scope, hearing, ok, processed, seen>>
vars == <<protocol, delivery, mainVars, buffer, netVars, eventVars, missed>>

Steps == {"install", "clear", "post", "writes", "events", "fence1", "visible", "verify",
          "fence2", "uninstall", "done", "failed"}

Hearing == [write : Write, scope : 1..Rounds, step : {"check", "count"}]

TypeOK ==
  /\ protocol \in Protocols /\ delivery \in Deliveries
  /\ it \in [Ranks -> 1..Rounds]
  /\ pc \in [Ranks -> Steps]
  /\ left \in [Ranks -> SUBSET Ranks]
  /\ buffer \in [Ranks -> [Ranks -> 0..Rounds]]
  /\ posted \subseteq Write
  /\ placed \subseteq posted /\ acked \subseteq posted /\ told \subseteq posted
  /\ scope \in [Ranks -> 0..Rounds]
  /\ hearing \subseteq Hearing
  /\ ok \in [Ranks -> BOOLEAN]
  /\ processed \in [Ranks -> Nat]
  /\ seen \in [Ranks -> SUBSET Ranks]
  /\ arrived \in [Ranks -> 0..(2 * Rounds)]
  /\ missed \subseteq posted

\* A round begins by installing the callback, in the test that has one.
Start == IF protocol = "writedata" THEN "install" ELSE "clear"

Init ==
  /\ protocol \in Protocols
  /\ delivery \in Deliveries
  /\ it = [r \in Ranks |-> 1]
  /\ pc = [r \in Ranks |-> Start]
  /\ left = [r \in Ranks |-> Peers(r)]
  /\ buffer = [r \in Ranks |-> [p \in Ranks |-> 0]]
  /\ posted = {} /\ placed = {} /\ acked = {} /\ told = {}
  /\ scope = [r \in Ranks |-> 0]
  /\ hearing = {}
  /\ ok = [r \in Ranks |-> TRUE]
  /\ processed = [r \in Ranks |-> 0]
  /\ seen = [r \in Ranks |-> {}]
  /\ arrived = [r \in Ranks |-> 0]
  /\ missed = {}

Goto(r, step) == pc' = [pc EXCEPT ![r] = step]
-----------------------------------------------------------------------------
(* The main thread of rank r.                                              *)

\* New seen_senders, remote_cq_data_ok and _processed, and the callback on them.
Install(r) ==
  /\ pc[r] = "install"
  /\ scope' = [scope EXCEPT ![r] = it[r]]
  /\ ok' = [ok EXCEPT ![r] = TRUE]
  /\ processed' = [processed EXCEPT ![r] = 0]
  /\ seen' = [seen EXCEPT ![r] = {}]
  /\ Goto(r, "clear")
  /\ UNCHANGED <<protocol, delivery, it, left, arrived, buffer, netVars, hearing, missed>>

\* The loops go through the peers in the order of their ranks; when one is
\* over the next has them all before it again.
Turn(r, p) == p \in left[r] /\ \A q \in left[r] : p <= q

Advance(r, p, here, next) ==
  /\ left' = [left EXCEPT ![r] = IF @ = {p} THEN Peers(r) ELSE @ \ {p}]
  /\ Goto(r, IF left[r] = {p} THEN next ELSE here)

\* std::fill with poison: what has already arrived of this round is lost.
Clear(r) ==
  /\ pc[r] = "clear"
  /\ \E p \in Peers(r) :
       /\ Turn(r, p)
       /\ buffer' = [buffer EXCEPT ![r][p] = 0]
       /\ missed' = missed \cup {w \in placed : w.to = r /\ w.from = p /\ w.round = it[r]}
       /\ Advance(r, p, "clear", "post")
  /\ UNCHANGED <<protocol, delivery, it, arrived, netVars, eventVars>>

\* write, or write_data_delivery with make_imm_data(rank, it + 1).
PostWrite(r) ==
  /\ pc[r] = "post"
  /\ \E p \in Peers(r) :
       /\ Turn(r, p)
       /\ posted' = posted \cup {[from |-> r, to |-> p, round |-> it[r]]}
       /\ Advance(r, p, "post", "writes")
  /\ UNCHANGED <<protocol, delivery, it, arrived, buffer, placed, acked, told, eventVars, missed>>

\* Faulty variant: the target is read before the posts.
EarlierAcked(r) == {w \in posted : w.from = r /\ w.round < it[r]} \subseteq acked

\* writes_complete_ has come to writes_posted_.
AllAcked(r) == {w \in posted : w.from = r} \subseteq acked

WritesAwaited(r) ==
  /\ pc[r] = "writes"
  /\ AllAcked(r)
  /\ Goto(r, IF protocol = "writedata" THEN "events" ELSE "visible")
  /\ UNCHANGED <<protocol, delivery, it, left, arrived, buffer, netVars, eventVars, missed>>

Fail(r) == Goto(r, "failed") /\ UNCHANGED arrived

Arrive(r, fence) ==
  /\ Goto(r, fence)
  /\ arrived' = [arrived EXCEPT ![r] = @ + 1]

\* Faulty variant: an event from every rank, this one included.
FromEveryone(r) == Cardinality(Ranks)

ExpectedEvents(r) == Cardinality(Peers(r))

EventsAwaited(r) ==
  /\ pc[r] = "events"
  /\ processed[r] >= ExpectedEvents(r)
  /\ IF ok[r] THEN Arrive(r, "fence1") ELSE Fail(r)
  /\ UNCHANGED <<protocol, delivery, it, left, buffer, netVars, eventVars, missed>>

\* Faulty variant: the fence does not wait.
FenceOpenAlways(r) == TRUE

FenceOpen(r) == \A p \in Ranks : arrived[p] >= arrived[r]

\* Past the fence the set of senders must be complete.
SendersChecked(r) ==
  /\ pc[r] = "fence1"
  /\ FenceOpen(r)
  /\ Goto(r, IF Cardinality(seen[r]) # Cardinality(Peers(r)) THEN "failed"
             ELSE IF delivery THEN "verify" ELSE "visible")
  /\ UNCHANGED <<protocol, delivery, it, left, arrived, buffer, netVars, eventVars, missed>>

\* The data does not depend on the round, only on who sent it.
Good(r, p) == buffer[r][p] # 0

Visible(r) ==
  /\ pc[r] = "visible"
  /\ \A p \in Peers(r) : Good(r, p)
  /\ Goto(r, "verify")
  /\ UNCHANGED <<protocol, delivery, it, left, arrived, buffer, netVars, eventVars, missed>>

\* Ten seconds are longer than any delivery: the wait only times out for data
\* that has been here, or that a failed peer will not send.
Hopeless(r, p) ==
  /\ ~Good(r, p)
  /\ \/ [from |-> p, to |-> r, round |-> it[r]] \in placed
     \/ pc[p] = "failed"

TimedOut(r) ==
  /\ pc[r] = "visible"
  /\ \E p \in Peers(r) : Hopeless(r, p)
  /\ Goto(r, "failed")
  /\ UNCHANGED <<protocol, delivery, it, left, arrived, buffer, netVars, eventVars, missed>>

\* verify_buffer throws on the first wrong byte.
Verified(r) ==
  /\ pc[r] = "verify"
  /\ IF \A p \in Peers(r) : Good(r, p) THEN Arrive(r, "fence2") ELSE Fail(r)
  /\ UNCHANGED <<protocol, delivery, it, left, buffer, netVars, eventVars, missed>>

NextRound(r) ==
  /\ it' = [it EXCEPT ![r] = IF @ < Rounds THEN @ + 1 ELSE @]
  /\ Goto(r, IF it[r] < Rounds THEN Start ELSE "done")

RoundOver(r) ==
  /\ pc[r] = "fence2"
  /\ FenceOpen(r)
  /\ IF protocol = "writedata" THEN Goto(r, "uninstall") /\ it' = it ELSE NextRound(r)
  /\ UNCHANGED <<protocol, delivery, left, arrived, buffer, netVars, eventVars, missed>>

\* ~remote_cq_data_callback_scope, and the end of the locals it refers to.
Uninstall(r) ==
  /\ pc[r] = "uninstall"
  /\ scope' = [scope EXCEPT ![r] = 0]
  /\ NextRound(r)
  /\ UNCHANGED <<protocol, delivery, left, arrived, buffer, netVars, hearing, ok, processed,
                 seen, missed>>
-----------------------------------------------------------------------------
(* The provider and the poll threads.                                      *)

\* The data of a write reaches its buffer, ...
Place(w) ==
  /\ w \in posted \ placed
  /\ placed' = placed \cup {w}
  /\ buffer' = [buffer EXCEPT ![w.to][w.from] = w.round]
  /\ UNCHANGED <<protocol, delivery, mainVars, posted, acked, told, eventVars, missed>>

\* ... its completion is counted at its source, after that only if
\* FI_DELIVERY_COMPLETE was asked for and given, ...
Ack(w) ==
  /\ w \in posted \ acked
  /\ protocol = "writedata" /\ delivery => w \in placed
  /\ acked' = acked \cup {w}
  /\ UNCHANGED <<protocol, delivery, mainVars, buffer, posted, placed, told, eventVars, missed>>

Alive(r) == pc[r] \notin {"done", "failed"}

\* ... and a poll thread of the target takes its event to the callback of the
\* moment.  Taking it while the main thread replaces it may crash the rank.
Hear(w) ==
  /\ protocol = "writedata" /\ w \in posted \ told /\ Alive(w.to)
  /\ told' = told \cup {w}
  /\ hearing' = IF scope[w.to] = 0 THEN hearing
                ELSE hearing \cup {[write |-> w, scope |-> scope[w.to], step |-> "check"]}
  /\ missed' = IF scope[w.to] = w.round THEN missed ELSE missed \cup {w}
  /\ \/ pc' = pc
     \/ pc[w.to] \in {"install", "uninstall"} /\ Goto(w.to, "failed")
  /\ UNCHANGED <<protocol, delivery, it, left, arrived, buffer, posted, placed, acked,
                 scope, ok, processed, seen>>

\* What the callback captured has gone: it writes into nothing, into what has
\* taken its place, or crashes.
Dangling(h) == scope[h.write.to] # h.scope

\* The callback compares the round, and notes the sender while all is well.
Checked(h) ==
  LET r == h.write.to
      good == ok[r] /\ h.write.round = h.scope
  IN /\ h.step = "check" /\ Alive(r)
     /\ hearing' = (hearing \ {h}) \cup {[h EXCEPT !.step = "count"]}
     /\ \/ /\ ok' = [ok EXCEPT ![r] = good]
           /\ seen' = IF good THEN [seen EXCEPT ![r] = @ \cup {h.write.from}] ELSE seen
           /\ pc' = pc
        \/ Dangling(h) /\ UNCHANGED <<ok, seen, pc>>
        \/ Dangling(h) /\ UNCHANGED <<ok, seen>> /\ Goto(r, "failed")
     /\ UNCHANGED <<protocol, delivery, it, left, arrived, buffer, netVars, scope,
                    processed, missed>>

\* Its last act is to count the event.
Counted(h) ==
  LET r == h.write.to
  IN /\ h.step = "count" /\ Alive(r)
     /\ hearing' = hearing \ {h}
     /\ \/ processed' = [processed EXCEPT ![r] = @ + 1] /\ pc' = pc
        \/ Dangling(h) /\ UNCHANGED <<processed, pc>>
        \/ Dangling(h) /\ UNCHANGED processed /\ Goto(r, "failed")
     /\ UNCHANGED <<protocol, delivery, it, left, arrived, buffer, netVars, scope, ok,
                    seen, missed>>
-----------------------------------------------------------------------------

Main(r) ==
  \/ Install(r) \/ Clear(r) \/ PostWrite(r) \/ WritesAwaited(r) \/ EventsAwaited(r)
  \/ SendersChecked(r) \/ Visible(r) \/ TimedOut(r) \/ Verified(r) \/ RoundOver(r)
  \/ Uninstall(r)

Deliver(w) == Place(w) \/ Ack(w) \/ Hear(w)

Callback(h) == Checked(h) \/ Counted(h)

Next ==
  \/ \E r \in Ranks : Main(r)
  \/ \E w \in Write : Deliver(w)
  \/ \E h \in hearing : Callback(h)

Spec == Init /\ [][Next]_vars

\* Every main thread runs; the provider delivers what it accepted, completes
\* and announces it; the poll threads run their callbacks.
Fairness ==
  /\ \A r \in Ranks : WF_vars(Main(r))
  /\ \A w \in Write : WF_vars(Place(w)) /\ WF_vars(Ack(w)) /\ WF_vars(Hear(w))
  /\ \A h \in Hearing : WF_vars(h \in hearing /\ Callback(h))

FairSpec == Spec /\ Fairness
-----------------------------------------------------------------------------
(* Properties.                                                             *)

\* What a rank verifies is the data of this round: the fence keeps the next
\* round's writes out, the poison the last one's (the loops of both
\* tests; every round has the same bytes, so the tests could not tell).
NoStaleData ==
  \A r \in Ranks : pc[r] = "verify" =>
    \A p \in Peers(r) : buffer[r][p] \in {0, it[r]}

\* A rank fails (by a timeout, a wrong event, a missing sender or wrong data)
\* only if some write came before its target was ready for it: no other order
\* of completions, events and fences makes a check of the tests fail.
OnlyMissedFails == (\E r \in Ranks : pc[r] = "failed") => missed # {}

Finished == \A r \in Ranks : pc[r] = "done"

\* Unless a write came too early, all ranks get through all rounds: no wait for
\* completions, events, data or a fence lasts for ever.
EndsUnlessMissed == <>(Finished \/ missed # {})

\* The wait for the peers' data always finds it (rdma-write-test's busy-wait).
NoRankGivesUp == \A r \in Ranks : pc[r] # "failed"

\* What a running callback captured is still there: the destructor of
\* remote_cq_data_callback_scope clears the callback, but waits for none.
CapturedStateLives ==
  \A h \in hearing : Alive(h.write.to) => scope[h.write.to] = h.scope
=============================================================================
