------------------------------ MODULE Transfers ------------------------------
(***************************************************************************)
(* The read test and the send/receive test of all ranks, from the fence    *)
(* behind their set-up to the end of main: what is posted, matched, copied *)
(* and verified, and when the memory behind it is freed.  The set-up is in *)
(* Exchange, what a poll thread does in Progress.                          *)
(***************************************************************************)
EXTENDS Naturals, FiniteSets

CONSTANTS
  N,         \* ranks of the job
  Rounds,    \* iterations of the read test (5), sizes of the other (20)
  Pollers,   \* how many poll threads a rank has
  Programs,  \* the programs to consider
  None

\* "readGpu" is the read test with --gpu.
AllPrograms == {"read", "readGpu", "sendRecv"}

Ranks == 0..(N - 1)
Peers(r) == Ranks \ {r}
Times == 0..(Rounds - 1)

ASSUME TransfersAssumption ==
  /\ N \in Nat \ {0, 1} /\ Rounds \in Nat \ {0} /\ Pollers \in Nat \ {0}
  /\ Programs \subseteq AllPrograms
  /\ None \notin Nat

\* The operations of a rank.
Op == [kind : {"read", "send", "recv"}, peer : Ranks, round : Times]
Operation(k, q, n) == [kind |-> k, peer |-> q, round |-> n]

VARIABLES
  program,   \* which program runs
  injects,   \* messages of fewer rounds than this are small enough to be injected
  pc,        \* where the main thread of each rank is
  round,     \* its iteration
  at,        \* the rank its loop is at
  arrived,   \* it has come to the fence at the end
  stage,     \* of each operation
  running,   \* the operations whose callbacks poll threads are running
  wire,      \* messages that have not met a receive
  copied,    \* q: what rank r has read from rank q
  received,  \* k: what the receive buffer of round k holds
  refused    \* what verify_buffer threw at

loopVars == <<round, at, arrived>>
dataVars == <<wire, copied, received>>
vars == <<program, injects, pc, loopVars, stage, running, dataVars, refused>>

Steps == {"post", "send", "wait", "check", "fence", "free", "join", "done", "died"}
Stages == {"none", "posted", "complete", "counted", "done"}
Message == [from : Ranks, to : Ranks, round : Times]

TypeOK ==
  /\ program \in Programs /\ injects \in 0..Rounds
  /\ pc \in [Ranks -> Steps]
  /\ round \in [Ranks -> Times]
  /\ at \in [Ranks -> 0..N]
  /\ arrived \in [Ranks -> BOOLEAN]
  /\ stage \in [Ranks -> [Op -> Stages]]
  /\ running \in [Ranks -> SUBSET Op]
  /\ wire \subseteq Message
  /\ copied \in [Ranks -> [Ranks -> Ranks \cup {None}]]
  /\ received \in [Ranks -> [Times -> Times \cup {None}]]
  /\ refused \subseteq [by : Ranks, op : Op, seen : Ranks \cup Times \cup {None}]

\* The loops over the ranks pass over the own.
From(r, q) == IF q = r THEN q + 1 ELSE q

\* A read buffer holds anything at first, a receive buffer the invalid pattern.
Init ==
  /\ program \in Programs
  /\ injects \in IF program = "sendRecv" THEN 0..Rounds ELSE {0}
  /\ pc = [r \in Ranks |-> "post"]
  /\ round = [r \in Ranks |-> 0]
  /\ at = [r \in Ranks |-> From(r, 0)]
  /\ arrived = [r \in Ranks |-> FALSE]
  /\ stage = [r \in Ranks |-> [o \in Op |-> "none"]]
  /\ running = [r \in Ranks |-> {}]
  /\ wire = {}
  /\ copied = [r \in Ranks |-> [q \in Ranks |-> None]]
  /\ received = [r \in Ranks |-> [k \in Times |-> None]]
  /\ refused = {}

Goto(r, step) == pc' = [pc EXCEPT ![r] = step]
Advance(r) == at' = [at EXCEPT ![r] = From(r, @ + 1)]
SetStage(r, o, s) == stage' = [stage EXCEPT ![r][o] = s]

\* The memory of a rank is given back to the heap: in the read test before the
\* poll threads are joined, in the other after.
Freed(r) == pc[r] \in IF program = "sendRecv" THEN {"done"} ELSE {"join", "done"}

\* Rank r has poll threads.
Polls(r) == pc[r] \notin IF program = "sendRecv" THEN {"free", "done", "died"} ELSE {"done", "died"}
-----------------------------------------------------------------------------
(* The main thread.                                                        *)

\* The callback of a read is bound to the rank it reads from: see Expected.
PostRead(r) ==
  /\ pc[r] = "post" /\ program # "sendRecv" /\ at[r] < N
  /\ SetStage(r, Operation("read", at[r], round[r]), "posted")
  /\ Advance(r)
  /\ UNCHANGED <<program, injects, pc, round, arrived, running, dataVars, refused>>

PostRecv(r) ==
  /\ pc[r] = "post" /\ program = "sendRecv" /\ at[r] < N
  /\ SetStage(r, Operation("recv", at[r], round[r]), "posted")
  /\ Goto(r, "send")
  /\ UNCHANGED <<program, injects, loopVars, running, dataVars, refused>>

\* The callback of an injected send, which finds the own pattern, has run when
\* send returns.
PostSend(r) ==
  /\ pc[r] = "send"
  /\ wire' = wire \cup {[from |-> r, to |-> at[r], round |-> round[r]]}
  /\ SetStage(r, Operation("send", at[r], round[r]), IF round[r] < injects THEN "done" ELSE "posted")
  /\ Advance(r)
  /\ Goto(r, "post")
  /\ UNCHANGED <<program, injects, round, arrived, running, copied, received, refused>>

\* Faulty variant: one iteration too many.
IsPastLast(k) == k = Rounds

IsLast(k) == k + 1 = Rounds

\* The next iteration, or what follows the last.
NextRound(r, step) ==
  \/ /\ ~IsLast(round[r])
     /\ round' = [round EXCEPT ![r] = @ + 1]
     /\ at' = [at EXCEPT ![r] = From(r, 0)]
     /\ Goto(r, "post")
     /\ UNCHANGED arrived
  \/ /\ IsLast(round[r])
     /\ arrived' = [arrived EXCEPT ![r] = step = "fence"]
     /\ Goto(r, step)
     /\ UNCHANGED <<round, at>>

\* The send/receive test posts all sizes before it waits.
AllPosted(r) ==
  /\ pc[r] = "post" /\ at[r] = N
  /\ \/ program = "sendRecv" /\ NextRound(r, "wait")
     \/ program # "sendRecv" /\ Goto(r, "wait") /\ UNCHANGED loopVars
  /\ UNCHANGED <<program, injects, stage, running, dataVars, refused>>


\* As many completions are counted as operations were posted, of each kind.
AllCounted(r) == \A o \in Op : stage[r][o] \notin {"posted", "complete"}

Waited(r) ==
  /\ pc[r] = "wait" /\ AllCounted(r)
  /\ \/ program = "sendRecv" /\ Goto(r, "join") /\ UNCHANGED loopVars
     \/ program = "readGpu" /\ Goto(r, "check") /\ UNCHANGED loopVars
     \/ program = "read" /\ NextRound(r, "fence")
  /\ UNCHANGED <<program, injects, stage, running, dataVars, refused>>

\* verify_buffer throws, and nothing catches it.
Refuse(r, o, seen) ==
  /\ refused' = refused \cup {[by |-> r, op |-> o, seen |-> seen]}
  /\ Goto(r, "died")

\* With --gpu the main thread copies the buffers to the host and verifies them.
Check(r) ==
  /\ pc[r] = "check"
  /\ \/ /\ \A q \in Peers(r) : copied[r][q] = q
        /\ NextRound(r, "fence")
        /\ UNCHANGED refused
     \/ \E q \in Peers(r) :
          /\ copied[r][q] # q
          /\ Refuse(r, Operation("read", q, round[r]), copied[r][q])
          /\ UNCHANGED loopVars
  /\ UNCHANGED <<program, injects, stage, running, dataVars>>

\* Faulty variant: a rank does not wait for the others.
FenceForgotten(r) == pc[r] = "fence"

\* The fence lets a rank pass once every rank has come to it.
FenceOpen(r) == \A q \in Ranks : arrived[q]

Fence(r) ==
  /\ pc[r] = "fence" /\ FenceOpen(r)
  /\ Goto(r, "free")
  /\ UNCHANGED <<program, injects, loopVars, stage, running, dataVars, refused>>

Free(r) ==
  /\ pc[r] = "free"
  /\ Goto(r, IF program = "sendRecv" THEN "done" ELSE "join")
  /\ UNCHANGED <<program, injects, loopVars, stage, running, dataVars, refused>>

\* Faulty variant: the poll threads are told to stop, and left alone.
Stopped(r) == pc[r] = "join"

\* The poll threads have left their loops.
Joined(r) == running[r] = {}

Join(r) ==
  /\ pc[r] = "join" /\ Joined(r)
  /\ Goto(r, IF program = "sendRecv" THEN "free" ELSE "done")
  /\ UNCHANGED <<program, injects, loopVars, stage, running, dataVars, refused>>
-----------------------------------------------------------------------------
(* The provider (external).                                                *)

\* A read copies what the memory of the peer holds now.
Serve(r, o) ==
  /\ o.kind = "read" /\ stage[r][o] = "posted"
  /\ Polls(r) /\ Polls(o.peer)
  /\ copied' = [copied EXCEPT ![r][o.peer] = IF Freed(o.peer) THEN None ELSE o.peer]
  /\ SetStage(r, o, "complete")
  /\ UNCHANGED <<program, injects, pc, loopVars, running, wire, received, refused>>

\* Faulty variant: all messages have the same tag.
OneTag(k) == 0

\* The tag of a message or a receive is its round.
Tag(k) == k

\* A message meets any receive of its tag: the source is not compared.
Deliver(m, o) ==
  /\ o.kind = "recv" /\ stage[m.to][o] = "posted"
  /\ Tag(o.round) = Tag(m.round)
  /\ Polls(m.to)
  /\ wire' = wire \ {m}
  /\ received' = [received EXCEPT ![m.to][o.round] = m.round]
  /\ SetStage(m.to, o, "complete")
  /\ UNCHANGED <<program, injects, pc, loopVars, running, copied, refused>>

\* A send may complete before its message meets a receive, or only then.
Sent(r, o) ==
  /\ o.kind = "send" /\ stage[r][o] = "posted" /\ Polls(r)
  /\ SetStage(r, o, "complete")
  /\ UNCHANGED <<program, injects, pc, loopVars, running, dataVars, refused>>

OnWire(r, o) == [from |-> r, to |-> o.peer, round |-> o.round] \in wire
-----------------------------------------------------------------------------
(* The poll threads.                                                       *)

\* A thread reads a completion and counts it before it calls the callback.
Count(r, o) ==
  /\ Polls(r) /\ stage[r][o] = "complete"
  /\ Cardinality(running[r]) < Pollers
  /\ SetStage(r, o, "counted")
  /\ running' = [running EXCEPT ![r] = @ \cup {o}]
  /\ UNCHANGED <<program, injects, pc, loopVars, dataVars, refused>>

\* Faulty variant: a read callback that is not bound gets the rank 0 which
\* invoke_cb passes.
ExpectedUnbound(o) == IF o.kind = "read" THEN 0 ELSE o.round

\* The read callback expects the rank read binds it to, whatever invoke_cb
\* passes, the receive callback the tag it has captured.
Expected(o) == IF o.kind = "read" THEN o.peer ELSE o.round

\* These operations verify in their callbacks.
Verified(o) == o.kind = "recv" \/ (o.kind = "read" /\ program = "read")

\* What the callback may find in its buffer.
Contents(r, o) ==
  {IF o.kind = "read" THEN copied[r][o.peer] ELSE received[r][o.round]}
    \cup IF Freed(r) THEN {None} ELSE {}

Call(r, o) ==
  /\ o \in running[r] /\ pc[r] # "died"
  /\ \/ /\ \/ ~Verified(o)
           \/ Verified(o) /\ Expected(o) \in Contents(r, o)
        /\ SetStage(r, o, "done")
        /\ running' = [running EXCEPT ![r] = @ \ {o}]
        /\ UNCHANGED <<pc, refused>>
     \/ /\ Verified(o)
        /\ \E seen \in Contents(r, o) \ {Expected(o)} : Refuse(r, o, seen)
        /\ UNCHANGED <<stage, running>>
  /\ UNCHANGED <<program, injects, loopVars, dataVars>>
-----------------------------------------------------------------------------
Main(r) ==
  \/ PostRead(r) \/ PostRecv(r) \/ PostSend(r) \/ AllPosted(r)
  \/ Waited(r) \/ Check(r) \/ Fence(r) \/ Free(r) \/ Join(r)

Poll(r) == \E o \in Op : Count(r, o) \/ Call(r, o)

Provider ==
  \/ \E r \in Ranks, o \in Op : Serve(r, o) \/ Sent(r, o)
  \/ \E m \in wire, o \in Op : Deliver(m, o)

\* The provider must read and deliver, and must complete a send once its
\* message has met a receive.
MustComplete ==
  \/ \E r \in Ranks, o \in Op : Serve(r, o) \/ (~OnWire(r, o) /\ Sent(r, o))
  \/ \E m \in wire, o \in Op : Deliver(m, o)

Next == Provider \/ \E r \in Ranks : Main(r) \/ Poll(r)

Spec ==
  /\ Init /\ [][Next]_vars
  /\ WF_vars(MustComplete)
  /\ \A r \in Ranks : WF_vars(Main(r)) /\ WF_vars(Poll(r))
-----------------------------------------------------------------------------
(* verify_buffer never refuses what came over the network.  What it does   *)
(* refuse is what the callback of a read finds in a buffer its own rank    *)
(* has freed, which takes a poll thread that is late until all ranks have  *)
(* come to the fence at the end.  The receive buffers, which all peers and *)
(* messages share by tag, never hold another message, and the check of the *)
(* main thread never fails (rdma-read-test.cxx:200-219, 240, 251-259;      *)
(* send-recv-test.cxx:117-123).                                            *)
OnlyFreedIsRefused ==
  \A f \in refused :
    /\ program = "read" /\ f.op.kind = "read" /\ f.seen = None
    /\ \A q \in Ranks : arrived[q]

(* The memory a read is under way to is not freed before the read has      *)
(* completed, though its owner waits only for its own reads: the fence at  *)
(* the end keeps the owner back (rdma-read-test.cxx:226, 251-259).         *)
RemoteMemoryLives ==
  \A r \in Ranks, o \in Op :
    o.kind = "read" /\ stage[r][o] = "posted" => ~Freed(o.peer)

(* The send/receive test frees its buffers after the last callback that    *)
(* looks into them, though the loop before it waits for counters that are  *)
(* raised before the callbacks run (send-recv-test.cxx:136-161).           *)
CallbacksBeforeFree ==
  \A r \in Ranks :
    program = "sendRecv" /\ Freed(r) =>
      running[r] = {} /\ \A o \in Op : stage[r][o] \in {"none", "done"}

==============================================================================
