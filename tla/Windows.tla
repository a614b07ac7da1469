------------------------------- MODULE Windows -------------------------------
(***************************************************************************)
(* The benchmarks: rdma-write (and rdma-writedata, which differs only in   *)
(* the operation it posts), rdma-read and send-recv.  Each measures one    *)
(* window of operations per message size, 2^shift bytes, after a warm-up   *)
(* window, with fences around them; a throttle bounds what a rank has in   *)
(* flight, the public counters tell when a window is over, and in the      *)
(* write benchmarks each rank then signals all others through a semaphore, *)
(* a slot in their memory, before it goes on to the next size.             *)
(*                                                                         *)
(* The poll threads of Progress appear by their effect on the counters.    *)
(* Injected signals complete silently here: a provider that reports them   *)
(* with a null context raises writes_complete_ for what no counter posted. *)
(***************************************************************************)
EXTENDS Naturals

CONSTANTS
  N,            \* ranks of the job
  Benches,      \* the benchmarks to consider: "write", "read", "sendrecv"
  MinShift,     \* the first message size
  MaxShift,     \* the last one
  Iterations,   \* iterations of a measured window; a warm-up has one
  MaxInflight,  \* max_inflight_writes, _reads, _msgs: 128 in the code
  Wrap,         \* where the counters wrap: 2^32 in the code
  AutoProgress  \* LIBFABRIC_AUTO_PROGRESS is set

Warmup == 1

\* The operations of one kind a rank may post before its counters wrap.
Total == (MaxShift - MinShift + 1) * (Warmup + Iterations) * (N - 1)

ASSUME WindowsAssumption ==
  /\ N \in Nat \ {0, 1}
  /\ Benches \subseteq {"write", "read", "sendrecv"}
  /\ "sendrecv" \in Benches => N = 2
  /\ MinShift \in Nat /\ MaxShift \in Nat /\ MinShift <= MaxShift
  /\ Iterations \in Nat \ {0}
  /\ MaxInflight \in Nat \ {0}
  /\ Wrap \in Nat /\ Total < Wrap
  /\ AutoProgress \in BOOLEAN

Ranks == 0..(N - 1)
Peers(r) == Ranks \ {r}
Shifts == MinShift..MaxShift

\* The counter pairs, named by what they count.
Ops == {"write", "read", "send", "recv"}

VARIABLES
  bench,        \* which benchmark runs
  shift,        \* bitshift: the size each rank is at
  pc,           \* where the main thread of each rank is
  togo,         \* operations its posting loop has still to post
  posted, complete,  \* writes_posted_, writes_complete_, ... of each rank
  target,       \* writes_target, sends_target, ...: what the rank waits for
  before,       \* writes_complete_before, ...: read before the measured window
  flying,       \* flying[r][k][b]: operations k of size b the provider has from r
  unread,       \* unread[r][b]: messages sent to r with tag b and not received
  arrived,      \* how many fences each rank has come to
  slot,         \* slot[r][p]: what p last wrote into the semaphore of r
  signals       \* signals on their way

ctrVars == <<posted, complete>>
netVars == <<flying, unread>>
semVars == <<slot, signals>>
vars == <<bench, shift, pc, togo, ctrVars, target, before, netVars, arrived, semVars>>

Steps == {"fence1", "warmup", "fence2", "measure", "fence3",
          "signal", "signalled", "semaphore", "fence4", "done", "failed"}

Signal == [from : Ranks, to : Ranks, shift : Shifts]

TypeOK ==
  /\ bench \in Benches
  /\ shift \in [Ranks -> Shifts]
  /\ pc \in [Ranks -> Steps]
  /\ togo \in [Ranks -> Nat]
  /\ posted \in [Ranks -> [Ops -> 0..(Wrap - 1)]]
  /\ complete \in [Ranks -> [Ops -> 0..(Wrap - 1)]]
  /\ target \in [Ranks -> [Ops -> 0..(Wrap - 1)]]
  /\ before \in [Ranks -> [Ops -> 0..(Wrap - 1)]]
  /\ flying \in [Ranks -> [Ops -> [Shifts -> Nat]]]
  /\ unread \in [Ranks -> [Shifts -> Nat]]
  /\ arrived \in [Ranks -> Nat]
  /\ slot \in [Ranks -> [Ranks -> {0} \cup Shifts]]
  /\ signals \subseteq Signal

Zero == [k \in Ops |-> 0]

Init ==
  /\ bench \in Benches
  /\ shift = [r \in Ranks |-> MinShift]
  /\ pc = [r \in Ranks |-> "fence1"]
  /\ togo = [r \in Ranks |-> 0]
  /\ posted = [r \in Ranks |-> Zero]
  /\ complete = [r \in Ranks |-> Zero]
  /\ target = [r \in Ranks |-> Zero]
  /\ before = [r \in Ranks |-> Zero]
  /\ flying = [r \in Ranks |-> [k \in Ops |-> [b \in Shifts |-> 0]]]
  /\ unread = [r \in Ranks |-> [b \in Shifts |-> 0]]
  /\ arrived = [r \in Ranks |-> 1]
  /\ slot = [r \in Ranks |-> [p \in Ranks |-> 0]]
  /\ signals = {}

Goto(r, step) == pc' = [pc EXCEPT ![r] = step]
-----------------------------------------------------------------------------
(* Counters and fences.                                                    *)

\* The operations the benchmark posts, and how many of each in n iterations.
Posts == IF bench = "sendrecv" THEN {"send", "recv"} ELSE {bench}

Expected(n) == IF bench = "sendrecv" THEN n ELSE n * (N - 1)

\* What is outstanding, by the unsigned subtraction of the counters.
Inflight(r, k) == (posted[r][k] + Wrap - complete[r][k]) % Wrap

\* Faulty variant: one more than the limit.
AtMostLimit(r) == \A k \in Posts : Inflight(r, k) <= MaxInflight

BelowLimit(r) == \A k \in Posts : Inflight(r, k) < MaxInflight

\* Faulty variant: one counter of the two is enough.
SomeReached(r) == \E k \in Posts : complete[r][k] >= target[r][k]

TargetReached(r) == \A k \in Posts : complete[r][k] >= target[r][k]

Arrive(r, fence) ==
  /\ Goto(r, fence)
  /\ arrived' = [arrived EXCEPT ![r] = @ + 1]

\* Faulty variant: the fence does not wait.
FenceOpenAlways(r) == TRUE

FenceOpen(r) == \A p \in Ranks : arrived[p] >= arrived[r]
-----------------------------------------------------------------------------
(* The main thread of rank r: one window after the other.                  *)

\* Past a fence: note the counters, and begin n iterations.
StartWindow(r, n) ==
  /\ togo' = [togo EXCEPT ![r] = IF bench = "sendrecv" THEN 2 * n ELSE n * (N - 1)]
  /\ target' = [target EXCEPT ![r] = [k \in Ops |->
       IF k \in Posts THEN (posted[r][k] + Expected(n)) % Wrap ELSE @[k]]]

WarmupStarts(r) ==
  /\ pc[r] = "fence1" /\ FenceOpen(r)
  /\ StartWindow(r, Warmup)
  /\ Goto(r, "warmup")
  /\ UNCHANGED <<bench, shift, ctrVars, before, netVars, arrived, semVars>>

\* Faulty variant: what the warm-up completed counts too.
BeforeWarmup(r) == [k \in Ops |-> (complete[r][k] + Wrap - Expected(Warmup)) % Wrap]

CompleteBefore(r) == complete[r]

MeasureStarts(r) ==
  /\ pc[r] = "fence2" /\ FenceOpen(r)
  /\ StartWindow(r, Iterations)
  /\ before' = [before EXCEPT ![r] = CompleteBefore(r)]
  /\ Goto(r, "measure")
  /\ UNCHANGED <<bench, shift, ctrVars, netVars, arrived, semVars>>

\* An iteration of send-recv posts a receive, then a send.
NextOp(r) == IF bench # "sendrecv" THEN bench ELSE IF togo[r] % 2 = 0 THEN "recv" ELSE "send"

\* Throttle, then write, write_data, read or recv; send follows its recv at once.
PostOne(r) ==
  /\ pc[r] \in {"warmup", "measure"} /\ togo[r] > 0
  /\ NextOp(r) = "send" \/ BelowLimit(r)
  /\ togo' = [togo EXCEPT ![r] = @ - 1]
  /\ posted' = [posted EXCEPT ![r][NextOp(r)] = (@ + 1) % Wrap]
  /\ flying' = [flying EXCEPT ![r][NextOp(r)][shift[r]] = @ + 1]
  /\ unread' = IF NextOp(r) = "send" THEN [unread EXCEPT ![1 - r][shift[r]] = @ + 1] ELSE unread
  /\ UNCHANGED <<bench, shift, pc, complete, target, before, arrived, semVars>>

\* Wait for the target, then come to the next fence.
Awaited(r) ==
  /\ pc[r] \in {"warmup", "measure"} /\ togo[r] = 0
  /\ TargetReached(r)
  /\ Arrive(r, IF pc[r] = "warmup" THEN "fence2" ELSE "fence3")
  /\ UNCHANGED <<bench, shift, togo, ctrVars, target, before, netVars, semVars>>

\* Faulty variant: one size more than asked for.
OneWindowMore(r) ==
  /\ shift' = [shift EXCEPT ![r] = IF @ <= MaxShift THEN @ + 1 ELSE @]
  /\ Arrive(r, IF shift[r] <= MaxShift THEN "fence1" ELSE "fence4")

NextWindow(r) ==
  /\ shift' = [shift EXCEPT ![r] = IF @ < MaxShift THEN @ + 1 ELSE @]
  /\ Arrive(r, IF shift[r] < MaxShift THEN "fence1" ELSE "fence4")

Done(r, k) == (complete[r][k] + Wrap - before[r][k]) % Wrap

Checked(r) ==
  /\ pc[r] = "fence3" /\ FenceOpen(r)
  /\ IF \E k \in Posts : Done(r, k) # Expected(Iterations)
     THEN Goto(r, "failed") /\ UNCHANGED <<shift, arrived>>
     ELSE IF bench = "write" THEN Goto(r, "signal") /\ UNCHANGED <<shift, arrived>>
     ELSE NextWindow(r)
  /\ UNCHANGED <<bench, togo, ctrVars, target, before, netVars, semVars>>

\* signal_completion for all peers; a loop of posts nobody can tell from one.
SignalPeers(r) ==
  /\ pc[r] = "signal"
  /\ signals' = signals \cup {[from |-> r, to |-> p, shift |-> shift[r]] : p \in Peers(r)}
  /\ target' = [target EXCEPT ![r]["write"] = posted[r]["write"]]
  /\ Goto(r, "signalled")
  /\ UNCHANGED <<bench, shift, togo, ctrVars, before, netVars, arrived, slot>>

\* wait_for_write_completions, which does not cover the injected signals.
SignalsAwaited(r) ==
  /\ pc[r] = "signalled" /\ TargetReached(r)
  /\ Goto(r, "semaphore")
  /\ UNCHANGED <<bench, shift, togo, ctrVars, target, before, netVars, arrived, semVars>>

\* Faulty variant: a signal of any size will do.
AnySignal(r) == \A p \in Peers(r) : slot[r][p] # 0

AllSignals(r) == \A p \in Peers(r) : slot[r][p] = shift[r]

\* After the last window the semaphore's buffer is freed and the pollers joined.
SemaphorePassed(r) ==
  /\ pc[r] = "semaphore" /\ AllSignals(r)
  /\ NextWindow(r)
  /\ UNCHANGED <<bench, togo, ctrVars, target, before, netVars, semVars>>

Finalized(r) ==
  /\ pc[r] = "fence4" /\ FenceOpen(r)
  /\ Goto(r, "done")
  /\ UNCHANGED <<bench, shift, togo, ctrVars, target, before, netVars, arrived, semVars>>
-----------------------------------------------------------------------------
(* The provider and the poll threads.                                      *)

Polling(r) == pc[r] \notin {"fence4", "done", "failed"}

\* Faulty variant: a completion lost between the queue and the counter.
Uncounted(r, k) == complete' = complete

CountCompletion(r, k) == complete' = [complete EXCEPT ![r][k] = (@ + 1) % Wrap]

\* An operation completes and a poll thread counts it; a receive needs a message.
Completes(r, k, b) ==
  /\ Polling(r)
  /\ flying[r][k][b] > 0
  /\ k = "recv" => unread[r][b] > 0
  /\ flying' = [flying EXCEPT ![r][k][b] = @ - 1]
  /\ unread' = IF k = "recv" THEN [unread EXCEPT ![r][b] = @ - 1] ELSE unread
  /\ CountCompletion(r, k)
  /\ UNCHANGED <<bench, shift, pc, togo, posted, target, before, arrived, semVars>>

\* Injected writes have no order among each other: any of them may land next.
Lands(g) ==
  /\ g \in signals
  /\ signals' = signals \ {g}
  /\ slot' = [slot EXCEPT ![g.to][g.from] = g.shift]
  /\ UNCHANGED <<bench, shift, pc, togo, ctrVars, target, before, netVars, arrived>>
-----------------------------------------------------------------------------

Main(r) ==
  \/ WarmupStarts(r) \/ MeasureStarts(r) \/ PostOne(r) \/ Awaited(r) \/ Checked(r)
  \/ SignalPeers(r) \/ SignalsAwaited(r) \/ SemaphorePassed(r) \/ Finalized(r)

Next ==
  \/ \E r \in Ranks : Main(r)
  \/ \E r \in Ranks, k \in Ops, b \in Shifts : Completes(r, k, b)
  \/ \E g \in signals : Lands(g)

Spec == Init /\ [][Next]_vars

\* A send completes for certain only once its message has been received (a
\* small one is injected, which counts at once).
Due(r, k, b) ==
  k = "send" => flying[r][k][b] > 0 /\ flying[r][k][b] > unread[1 - r][b]

\* With manual progress, the default, nothing moves unless both ends poll.
Progressing(g) == AutoProgress \/ (Polling(g.from) /\ Polling(g.to))

Fairness ==
  /\ \A r \in Ranks : WF_vars(Main(r))
  /\ \A r \in Ranks, k \in Ops, b \in Shifts : WF_vars(Due(r, k, b) /\ Completes(r, k, b))
  /\ \A g \in Signal : WF_vars(Progressing(g) /\ Lands(g))

FairSpec == Spec /\ Fairness
-----------------------------------------------------------------------------
(* Properties.                                                             *)

\* What a rank has in flight of one kind never exceeds the limit of the
\* throttles (throttle_writes_inflight and its like).
ThrottleHolds ==
  \A r \in Ranks, k \in Ops, b \in Shifts : flying[r][k][b] <= MaxInflight

Quiet(r) == \A k \in Ops, b \in Shifts : flying[r][k][b] = 0

\* Between its windows a rank has nothing with the provider: the measured
\* time covers the whole window, the counters read there are settled, and
\* the buffers that send-recv-benchmark frees are not in use.
SettledBetweenWindows ==
  \A r \in Ranks : pc[r] \notin {"warmup", "measure"} => Quiet(r)

\* The counters count exactly the window: no rank throws "counter mismatch".
NoMismatch == \A r \in Ranks : pc[r] # "failed"

\* A rank waits for its peers' signals by equality.  None ever finds the signal
\* of a later size in a slot, which it would wait on for ever.
NoSignalAhead ==
  \A r \in Ranks : pc[r] = "semaphore" => \A p \in Peers(r) : slot[r][p] <= shift[r]

\* When a rank leaves a window the signals of that window have all landed: none
\* comes later, to overwrite the next one or into the freed semaphore
\* (the wait "for all remote peers to set our local semaphore buffer").  With a
\* MinShift of 0 the first signal equals the zeroes the slots begin with.
NoLateSignal ==
  \A g \in signals :
    /\ shift[g.to] = g.shift
    /\ pc[g.to] \in {"fence3", "signal", "signalled", "semaphore", "failed"}

Finished == \A r \in Ranks : pc[r] = "done"

\* A rank has left its polling scope with a signal of its own still to be sent.
Stranded == \E g \in signals : ~Polling(g.from)

\* In the end every rank has got through all windows: no throttle, wait, fence
\* or semaphore holds it for ever, unless a peer that no longer polls keeps the
\* signal it waits for (rdma-write-benchmark.cxx:284-302).
EndsUnlessStranded == <>[](Finished \/ Stranded)

\* Every signal arrives: signal_completion is to "write a 'signal value' into the
\* remote rank's slot in their local buffer to signal completion"
\* (test_utils.hpp:187).
SignalsArrive == \A g \in Signal : g \in signals ~> g \notin signals
=============================================================================
