------------------------------- MODULE Exchange -------------------------------
(***************************************************************************)
(* How the ranks of a job come to know each other: boot_PMI, which carries *)
(* each rank's fabric address to all others, then the exchange of RMA keys *)
(* by tagged messages, in the constructor of semaphore_info and in         *)
(* exchange_rma_keys, and the first use of what was exchanged, a signal    *)
(* written into each peer's memory.                                        *)
(*                                                                         *)
(* Each message operation of a rank is a member of Op and has a stage; the *)
(* counters of Progress are the numbers of operations at the stages.       *)
(***************************************************************************)
EXTENDS Base64, FiniteSets

CONSTANTS
  N,          \* ranks of the job
  Pollers,    \* how many poll threads a rank has
  Programs,   \* the programs to consider
  Address,    \* the bytes fi_getname returns at each rank
  Offsets,    \* where the heap may place a buffer in its registered segment
  SemTag,     \* the tag of rank 0 in semaphore_info: 2000 in the code
  TagSpace,   \* the tags that make_tag64 tells apart: 2^24 in the code
  None

Ranks == 0..(N - 1)
Peers(r) == Ranks \ {r}

\* "test": rdma-read-test, rdma-write-test, rdma-writedata-test;
\* "bench": rdma-read-benchmark; "signals": the two write benchmarks.
AllPrograms == {"test", "bench", "signals"}

Buffers == [owner : Ranks, use : {"key", "sem"}, peer : Ranks]

ASSUME ExchangeAssumption ==
  /\ N \in Nat \ {0, 1}
  /\ Programs \subseteq AllPrograms
  /\ Address \in [Ranks -> Seq(Byte)]
  /\ \A r, q \in Ranks : Address[r] = Address[q] => r = q
  /\ Offsets \subseteq Nat
  /\ SemTag \in Nat /\ N <= SemTag
  /\ TagSpace \in Nat /\ SemTag + N <= TagSpace
  /\ Pollers \in Nat \ {0}
  /\ None \notin Seq(Byte) \cup Buffers \cup Ranks

\* The operations of a rank: to or from its peers, for RMA keys or the semaphore.
Op == [kind : {"send", "recv"}, use : {"key", "sem"}, peer : Ranks]
Uses == {"key", "sem"}

VARIABLES
  program,   \* which program runs
  inject,    \* a message of a key is small enough to be injected
  relative,  \* use_relative_remote_addr(): FI_MR_VIRT_ADDR was not negotiated
  offset,    \* where the heap put the semaphore of each rank
  pc,        \* where the main thread of each rank is
  idx,       \* r: the rank its loop is at
  arrived,   \* how many fences it has come to
  kv,        \* the key/value store of PMI
  av,        \* the address vector of each rank
  wire,      \* messages that have not met a receive
  stage,     \* of each operation
  got,       \* what the buffer of each receive holds
  running,   \* the operations whose callbacks poll threads are running
  semKeys,   \* remote_key_infos of each rank
  slots,     \* whose signals the semaphore of each rank holds
  lost       \* the signals that did not go into their slot

config == <<program, inject, relative, offset>>
msgVars == <<wire, stage, got, running>>
sigVars == <<slots, lost>>
vars == <<config, pc, idx, arrived, kv, av, msgVars, semKeys, sigVars>>

Steps == {"publish", "bootFence", "boot", "testFence", "semaphore", "semSend", "semWait",
          "keys", "keySend", "keyWait", "keyFence", "signal", "slots", "join",
          "done", "died"}

Stages == {"none", "posted", "complete", "counted", "done"}

\* A message holds the key of a buffer its sender exposes.
Message == [from : Ranks, to : Ranks, tag : Nat, key : Buffers]

TypeOK ==
  /\ program \in Programs /\ offset \in [Ranks -> Offsets]
  /\ inject \in BOOLEAN /\ relative \in BOOLEAN
  /\ pc \in [Ranks -> Steps]
  /\ idx \in [Ranks -> 0..N]
  /\ arrived \in [Ranks -> Nat]
  /\ kv \in [Ranks -> Seq(0..Pad) \cup {None}]
  /\ av \in [Ranks -> [Ranks -> Seq(Byte) \cup {None}]]
  /\ wire \subseteq Message
  /\ stage \in [Ranks -> [Op -> Stages]]
  /\ got \in [Ranks -> [Uses -> [Ranks -> Buffers \cup {None}]]]
  /\ running \in [Ranks -> SUBSET Op]
  /\ semKeys \in [Ranks -> [Ranks -> Buffers \cup {None}]]
  /\ slots \in [Ranks -> SUBSET Ranks]
  /\ lost \subseteq [from : Ranks, to : Ranks, key : Buffers \cup {None}]

Init ==
  /\ program \in Programs /\ offset \in [Ranks -> Offsets]
  /\ inject \in BOOLEAN /\ relative \in BOOLEAN
  /\ pc = [r \in Ranks |-> "publish"]
  /\ idx = [r \in Ranks |-> 0]
  /\ arrived = [r \in Ranks |-> 0]
  /\ kv = [r \in Ranks |-> None]
  /\ av = [r \in Ranks |-> [q \in Ranks |-> None]]
  /\ wire = {}
  /\ stage = [r \in Ranks |-> [o \in Op |-> "none"]]
  /\ got = [r \in Ranks |-> [u \in Uses |-> [q \in Ranks |-> None]]]
  /\ running = [r \in Ranks |-> {}]
  /\ semKeys = [r \in Ranks |-> [q \in Ranks |-> None]]
  /\ slots = [r \in Ranks |-> {}]
  /\ lost = {}

Goto(r, step) == pc' = [pc EXCEPT ![r] = step]

\* The loops over the ranks.
Advance(r) == idx' = [idx EXCEPT ![r] = @ + 1]
-----------------------------------------------------------------------------
(* boot_PMI.                                                               *)

\* The fence of PMI is open to a rank when all have come to it.
FenceOpen(r) == \A q \in Ranks : arrived[q] >= arrived[r]

Arrive(r, fence) ==
  /\ Goto(r, fence)
  /\ arrived' = [arrived EXCEPT ![r] = @ + 1]

Publish(r) ==
  /\ pc[r] = "publish"
  /\ kv' = [kv EXCEPT ![r] = Encode(Address[r])]
  /\ Arrive(r, "bootFence")
  /\ UNCHANGED <<config, idx, av, msgVars, semKeys, sigVars>>

BootFence(r) ==
  /\ pc[r] = "bootFence" /\ FenceOpen(r)
  /\ Goto(r, "boot")
  /\ UNCHANGED <<config, idx, arrived, kv, av, msgVars, semKeys, sigVars>>

\* The locality of rank q at rank r: its own is here(), the others are fetched.
\* A rank that has published nothing yet has no value to decode.
LocalityData(r, q) ==
  IF q = r THEN Address[r]
  ELSE IF kv[q] = None THEN <<>> ELSE Decode(kv[q])

\* What follows boot_PMI: only the tests have a fence of their own there.
\* Faulty variant: nobody has one.
NeverFenced(r) == /\ Goto(r, IF program = "signals" THEN "semaphore" ELSE "keys")
                  /\ UNCHANGED arrived

Booted(r) ==
  \/ program = "test" /\ Arrive(r, "testFence")
  \/ program = "bench" /\ Goto(r, "keys") /\ UNCHANGED arrived
  \/ program = "signals" /\ Goto(r, "semaphore") /\ UNCHANGED arrived

\* set_fi_address(q), then insert_address, which the provider gives index q.
InsertAddress(r) ==
  /\ pc[r] = "boot" /\ idx[r] < N
  /\ av' = [av EXCEPT ![r][idx[r]] = LocalityData(r, idx[r])]
  /\ Advance(r)
  /\ UNCHANGED <<config, pc, arrived, kv, msgVars, semKeys, sigVars>>

\* fi_av_insert fails, inserts nothing, or gives another index, as a provider
\* with an address map may: each constructs a fabric_error.
InsertRefused(r) ==
  /\ pc[r] = "boot" /\ idx[r] < N
  /\ Goto(r, "died")
  /\ UNCHANGED <<config, idx, arrived, kv, av, msgVars, semKeys, sigVars>>

BootDone(r) ==
  /\ pc[r] = "boot" /\ idx[r] = N
  /\ Booted(r)
  /\ idx' = [idx EXCEPT ![r] = 0]
  /\ UNCHANGED <<config, kv, av, msgVars, semKeys, sigVars>>

TestFence(r) ==
  /\ pc[r] = "testFence" /\ FenceOpen(r)
  /\ Goto(r, "keys")
  /\ UNCHANGED <<config, idx, arrived, kv, av, msgVars, semKeys, sigVars>>
-----------------------------------------------------------------------------
(* Messages: send and recv of the communicator, and the poll threads.      *)

\* make_tag64 with context 0 keeps the low 24 bits of a tag.
Tag64(tag) == tag % TagSpace

\* A message for u from rank q has this tag.
\* Faulty variant: the two exchanges use the same tags.
OneTag(u, q) == Tag64(q)

Tag(u, q) == Tag64(IF u = "sem" THEN SemTag + q ELSE q)

Operation(k, u, q) == [kind |-> k, use |-> u, peer |-> q]

\* rma_key_info: the one semaphore of a rank, or its buffer made for q.
KeyFor(u, r, q) == [owner |-> r, use |-> u, peer |-> IF u = "sem" THEN r ELSE q]

\* Where the loop of an exchange is in the main thread.
RecvAt(u) == IF u = "sem" THEN "semaphore" ELSE "keys"
SendAt(u) == IF u = "sem" THEN "semSend" ELSE "keySend"
WaitAt(u) == IF u = "sem" THEN "semWait" ELSE "keyWait"

\* The rank whose address is at index q of the address vector.
Target(r, q) == CHOOSE p \in Ranks : Address[p] = av[r][q]

SetStage(r, o, s) == stage' = [stage EXCEPT ![r][o] = s]

PostRecv(r, u) ==
  /\ pc[r] = RecvAt(u) /\ idx[r] \in Peers(r)
  /\ SetStage(r, Operation("recv", u, idx[r]), "posted")
  /\ Goto(r, SendAt(u))
  /\ UNCHANGED <<config, idx, arrived, kv, av, wire, got, running, semKeys, sigVars>>

\* An injected send is complete, and its callback has run, when send returns.
PostSend(r, u) ==
  /\ pc[r] = SendAt(u)
  /\ wire' = wire \cup {[from |-> r, to |-> Target(r, idx[r]), tag |-> Tag(u, r),
                         key |-> KeyFor(u, r, idx[r])]}
  /\ SetStage(r, Operation("send", u, idx[r]), IF inject THEN "done" ELSE "posted")
  /\ Advance(r)
  /\ Goto(r, RecvAt(u))
  /\ UNCHANGED <<config, arrived, kv, av, got, running, semKeys, sigVars>>

\* The loops pass over the own rank; the semaphore's own key is kept.
SkipSelf(r, u) ==
  /\ pc[r] = RecvAt(u) /\ idx[r] = r
  /\ semKeys' = IF u = "sem" THEN [semKeys EXCEPT ![r][r] = KeyFor(u, r, r)] ELSE semKeys
  /\ Advance(r)
  /\ UNCHANGED <<config, pc, arrived, kv, av, msgVars, sigVars>>

AllPosted(r, u) ==
  /\ pc[r] = RecvAt(u) /\ idx[r] = N
  /\ Goto(r, WaitAt(u))
  /\ UNCHANGED <<config, idx, arrived, kv, av, msgVars, semKeys, sigVars>>

\* wait_for_msg_completions: as many are counted as were posted, of each kind.
AllCounted(r) == \A o \in Op : stage[r][o] \notin {"posted", "complete"}

SemaphoreMade(r) ==
  /\ pc[r] = "semWait" /\ AllCounted(r)
  /\ Goto(r, "keys")
  /\ idx' = [idx EXCEPT ![r] = 0]
  /\ UNCHANGED <<config, arrived, kv, av, msgVars, semKeys, sigVars>>

KeysExchanged(r) ==
  /\ pc[r] = "keyWait" /\ AllCounted(r)
  /\ Arrive(r, "keyFence")
  /\ idx' = [idx EXCEPT ![r] = 0]
  /\ UNCHANGED <<config, kv, av, msgVars, semKeys, sigVars>>

\* Faulty variant: a receive is posted with the tag of its own rank.
MatchesOwn(m, u, q) == m.tag = Tag(u, m.to)

\* The provider.  FI_DIRECTED_RECV is not among the capabilities asked for: a
\* receive names its source, but the tag alone must match.
Matches(m, u, q) == m.tag = Tag(u, q)

Deliver(m) ==
  /\ m \in wire
  /\ \E u \in Uses, q \in Ranks :
       /\ stage[m.to][Operation("recv", u, q)] = "posted" /\ Matches(m, u, q)
       /\ SetStage(m.to, Operation("recv", u, q), "complete")
       /\ got' = [got EXCEPT ![m.to][u][q] = m.key]
  /\ wire' = wire \ {m}
  /\ UNCHANGED <<config, pc, idx, arrived, kv, av, running, semKeys, sigVars>>

Sent(r, o) ==
  /\ o.kind = "send" /\ stage[r][o] = "posted"
  /\ SetStage(r, o, "complete")
  /\ UNCHANGED <<config, pc, idx, arrived, kv, av, wire, got, running, semKeys, sigVars>>

\* A poll thread reads a completion and counts it, ...
Count(r, o) ==
  /\ pc[r] # "done" /\ Cardinality(running[r]) < Pollers /\ stage[r][o] = "complete"
  /\ SetStage(r, o, "counted")
  /\ running' = [running EXCEPT ![r] = @ \cup {o}]
  /\ UNCHANGED <<config, pc, idx, arrived, kv, av, wire, got, semKeys, sigVars>>

\* ... and then runs its callback: that of a semaphore's receive stores the key.
\* Faulty variant: the callback of the receive does not store it.
KeepsNothing(r, o) == semKeys

Stored(r, o) ==
  IF o.kind = "recv" /\ o.use = "sem"
  THEN [semKeys EXCEPT ![r][o.peer] = got[r]["sem"][o.peer]]
  ELSE semKeys

Call(r, o) ==
  /\ o \in running[r]
  /\ SetStage(r, o, "done")
  /\ semKeys' = Stored(r, o)
  /\ running' = [running EXCEPT ![r] = @ \ {o}]
  /\ UNCHANGED <<config, pc, idx, arrived, kv, av, wire, got, sigVars>>
-----------------------------------------------------------------------------
(* The first use of the keys.                                              *)

KeyFence(r) ==
  /\ pc[r] = "keyFence" /\ FenceOpen(r)
  /\ Goto(r, IF program = "signals" THEN "signal" ELSE "join")
  /\ UNCHANGED <<config, idx, arrived, kv, av, msgVars, semKeys, sigVars>>

SegmentStart == 4096   \* where the segment of each semaphore starts
SlotSize == 8          \* sizeof(std::uint64_t)

SlotAddress(p, r) == SegmentStart + offset[p] + SlotSize * r

\* remote_rma_addr_value: what rank r passes to the provider for its slot.
\* Faulty variant: the slot of the rank that is written to.
TargetsOwnSlot(b, r) ==
  IF relative THEN SlotSize * b.owner ELSE SegmentStart + offset[b.owner] + SlotSize * b.owner

RemoteAddress(b, r) ==
  IF relative THEN SlotSize * r ELSE SegmentStart + offset[b.owner] + SlotSize * r

\* The provider counts relative addresses from the start of the registration.
Reached(a) == IF relative THEN SegmentStart + a ELSE a

\* A key that never came is zeroes.  It does not name the slot, though with keys
\* the program chooses, which begin at 0, it may name another segment of the
\* peer: then the signal lands there.
Hits(r, p) ==
  LET b == semKeys[r][p]
  IN  /\ b # None /\ b.use = "sem" /\ b.owner = Target(r, p)
      /\ Reached(RemoteAddress(b, r)) = SlotAddress(p, r)

\* signal_completion, rank after rank.
Signal(r) ==
  /\ pc[r] = "signal" /\ idx[r] \in Peers(r)
  /\ IF Hits(r, idx[r])
     THEN slots' = [slots EXCEPT ![idx[r]] = @ \cup {r}] /\ UNCHANGED lost
     ELSE /\ lost' = lost \cup {[from |-> r, to |-> idx[r], key |-> semKeys[r][idx[r]]]}
          /\ UNCHANGED slots
  /\ Advance(r)
  /\ UNCHANGED <<config, pc, arrived, kv, av, msgVars, semKeys>>

SignalSelf(r) ==
  /\ pc[r] = "signal" /\ idx[r] = r
  /\ Advance(r)
  /\ UNCHANGED <<config, pc, arrived, kv, av, msgVars, semKeys, sigVars>>

AllSignalled(r) ==
  /\ pc[r] = "signal" /\ idx[r] = N
  /\ Goto(r, "slots")
  /\ UNCHANGED <<config, idx, arrived, kv, av, msgVars, semKeys, sigVars>>

\* The wait for the signals of all peers.
SlotsSeen(r) ==
  /\ pc[r] = "slots" /\ Peers(r) \subseteq slots[r]
  /\ Goto(r, "join")
  /\ UNCHANGED <<config, idx, arrived, kv, av, msgVars, semKeys, sigVars>>

\* ~poller_guard: a poll thread leaves between two polls.
Join(r) ==
  /\ pc[r] = "join" /\ running[r] = {}
  /\ Goto(r, "done")
  /\ UNCHANGED <<config, idx, arrived, kv, av, msgVars, semKeys, sigVars>>
-----------------------------------------------------------------------------
Main(r) ==
  \/ Publish(r) \/ BootFence(r) \/ InsertAddress(r) \/ BootDone(r) \/ TestFence(r)
  \/ \E u \in Uses : PostRecv(r, u) \/ PostSend(r, u) \/ SkipSelf(r, u) \/ AllPosted(r, u)
  \/ SemaphoreMade(r) \/ KeysExchanged(r) \/ KeyFence(r)
  \/ Signal(r) \/ SignalSelf(r) \/ AllSignalled(r) \/ SlotsSeen(r) \/ Join(r)

Poll(r) == \E o \in Op : Count(r, o) \/ Call(r, o)

Provider == (\E m \in wire : Deliver(m)) \/ (\E r \in Ranks, o \in Op : Sent(r, o))

Next ==
  \/ \E r \in Ranks : Main(r) \/ InsertRefused(r) \/ Poll(r)
  \/ Provider

\* The operating system runs every thread, the provider moves every message.
Spec == /\ Init /\ [][Next]_vars
        /\ \A r \in Ranks : WF_vars(Main(r)) /\ WF_vars(Poll(r))
        /\ WF_vars(Provider)
-----------------------------------------------------------------------------
(* Properties.                                                             *)

BeforeBooted == {"publish", "bootFence", "boot", "died"}

\* What rank r has at index q of its address vector when boot_PMI returns is the
\* address of rank q, through the key/value store, its fence and the encoding.
AddressBook == \A r \in Ranks : pc[r] \notin BeforeBooted => av[r] = Address

\* In the tests, which have a fence behind boot_PMI, no message is sent to a rank
\* that has not yet inserted its sender's address.
SenderKnown ==
  program = "test" => \A m \in wire : av[m.to][m.from] = Address[m.from]

\* After exchange_rma_keys a rank has from each peer the key of the buffer that
\* peer made for it, however the provider matches messages and whatever of the
\* semaphore's exchange is still under way.
RightKeys ==
  \A r \in Ranks :
    pc[r] \in {"keyFence", "signal", "slots", "join", "done"} =>
      \A p \in Peers(r) : got[r]["key"][p] = KeyFor("key", p, r)

SemaphoreSteps == {"keys", "keySend", "keyWait", "keyFence", "signal", "slots", "join", "done"}

\* When the constructor of semaphore_info returns, the key of each peer is in
\* place, or a poll thread is between counting that receive and its callback.
KeysComeOrAreComing ==
  \A r \in Ranks : program = "signals" /\ pc[r] \in SemaphoreSteps =>
    \A p \in Peers(r) :
      \/ semKeys[r][p] = KeyFor("sem", p, p)
      \/ Operation("recv", "sem", p) \in running[r]

\* A signal goes into its slot unless it was sent with a key whose callback was
\* late, or the provider takes relative addresses and the heap has not placed the
\* semaphore at the start of its segment.
LostOnlyLate ==
  \A l \in lost : l.key = None \/ (relative /\ offset[l.to] # 0)

\* Every rank comes to its end, unless one died in insert_address or a signal
\* was lost.
EndsUnlessLost ==
  <>(\/ \A r \in Ranks : pc[r] = "done"
     \/ \E r \in Ranks : pc[r] = "died"
     \/ lost # {})

\* Every signal is written with the key of the rank it is for: "write a 'signal
\* value' into the remote rank's slot in their local buffer".
SignalsCarryKeys == \A l \in lost : l.key # None
=============================================================================
