---------------------------- MODULE ExchangeProofs ----------------------------
(***************************************************************************)
(* The exchange of addresses and keys is right for any number of ranks and *)
(* poll threads, any addresses and any placement of the semaphores.        *)
(*                                                                         *)
(* The inductive invariant says how far each rank is (Published, Indexed,  *)
(* Loops), what that implies for the others (Filled, Fenced), and what is  *)
(* in a message, a buffer, a callback's reach and the semaphore (Mail,     *)
(* Boxes, Callbacks, SemaphoreKeys).                                       *)
(***************************************************************************)
EXTENDS Exchange, Base64Proofs

\* Before a rank has come to the loop of an exchange.
Before(u) == IF u = "sem" THEN {"publish", "bootFence", "boot", "testFence"}
             ELSE {"publish", "bootFence", "boot", "testFence", "semaphore", "semSend", "semWait"}

AfterKeys == {"keyFence", "signal", "slots", "join", "done"}

\* A rank's program counter tells how many fences it came to.
Published ==
  \A r \in Ranks :
    /\ pc[r] = "publish" => arrived[r] = 0
    /\ pc[r] # "publish" => arrived[r] >= 1 /\ kv[r] = Encode(Address[r])
    /\ pc[r] \in {"bootFence", "boot", "died"} => arrived[r] = 1
    /\ pc[r] = "testFence" => program = "test" /\ arrived[r] = 2
    /\ pc[r] = "boot" => \A q \in Ranks : pc[q] # "publish"

\* The address vector is filled from index 0 on.
Filled ==
  \A r \in Ranks :
    pc[r] = "boot" => \A q \in Ranks : q < idx[r] => av[r][q] = Address[q]

\* In a test, whoever sends keys knows that all have filled theirs.
Fenced ==
  \A r \in Ranks :
    /\ pc[r] \in {"semaphore", "semSend", "semWait"} => program = "signals"
    /\ program = "test" /\ pc[r] \in SemaphoreSteps =>
         \A q \in Ranks : pc[q] \notin BeforeBooted

\* What a message says of its sender is true.
Mail ==
  \A m \in wire :
    /\ m.from # m.to
    /\ \E u \in Uses : m.tag = Tag(u, m.from) /\ m.key = KeyFor(u, m.from, m.to)
    /\ program = "test" => pc[m.from] \in SemaphoreSteps

\* The receive of rank r from rank q, for u.
Receive(u, q) == Operation("recv", u, q)

Boxes ==
  \A r \in Ranks, u \in Uses, q \in Ranks :
    stage[r][Receive(u, q)] \in {"complete", "counted", "done"} =>
      got[r][u][q] = KeyFor(u, q, r)

\* How far the loops of rank r have come, seen from its receive from rank q, for u.
LoopOf(r, u, q) ==
  /\ pc[r] \in Before(u) => stage[r][Receive(u, q)] = "none"
  /\ pc[r] = RecvAt(u) => (q < idx[r] <=> stage[r][Receive(u, q)] # "none")
  /\ pc[r] = SendAt(u) => (q <= idx[r] <=> stage[r][Receive(u, q)] # "none")
  /\ pc[r] = WaitAt(u) => stage[r][Receive(u, q)] # "none"
  /\ pc[r] \in AfterKeys /\ u = "key" => stage[r][Receive(u, q)] \in {"counted", "done"}
  /\ pc[r] \in SemaphoreSteps /\ u = "sem" /\ program = "signals" =>
       stage[r][Receive(u, q)] \in {"counted", "done"}

LoopsOf(r) == \A u \in Uses, q \in Peers(r) : LoopOf(r, u, q)

Loops == \A r \in Ranks : LoopsOf(r)

\* Where idx is meant to be.
Indexed ==
  \A r \in Ranks :
    /\ pc[r] \in {"publish", "bootFence", "testFence"} => idx[r] = 0
    /\ pc[r] \in {"semSend", "keySend"} => idx[r] \in Peers(r)

\* Poll threads run the callbacks of what was counted; keys are stored by them.
Callbacks ==
  \A r \in Ranks, u \in Uses, q \in Ranks :
    Receive(u, q) \in running[r] <=> stage[r][Receive(u, q)] = "counted"

SemaphoreKeys ==
  \A r \in Ranks : \A q \in Peers(r) :
    /\ semKeys[r][q] \in {None, KeyFor("sem", q, q)}
    /\ stage[r][Receive("sem", q)] = "done" => semKeys[r][q] = KeyFor("sem", q, q)

IInv == /\ TypeOK /\ Published /\ Filled /\ AddressBook /\ Fenced /\ Mail /\ Boxes
        /\ Loops /\ Indexed /\ Callbacks /\ SemaphoreKeys /\ LostOnlyLate
-----------------------------------------------------------------------------
(* Operators of the model.                                                 *)

LEMMA RanksAreNats == Ranks \subseteq Nat /\ N \in Nat
BY ExchangeAssumption DEF Ranks

LEMMA Operations ==
  ASSUME NEW k \in {"send", "recv"}, NEW u \in Uses, NEW q \in Ranks
  PROVE  Operation(k, u, q) \in Op
BY DEF Operation, Op, Uses

\* An operation is told from another by what it is for.
LEMMA OperationsDiffer ==
  ASSUME NEW u \in Uses, NEW q \in Ranks
  PROVE  /\ \A v \in Uses, p \in Ranks : Receive(u, q) = Receive(v, p) => u = v /\ q = p
         /\ \A v \in Uses, p \in Ranks : Receive(u, q) # Operation("send", v, p)
         /\ \A o \in Op : o.kind = "send" => o # Receive(u, q)
         /\ Receive(u, q).kind = "recv" /\ Receive(u, q).use = u /\ Receive(u, q).peer = q
         /\ Receive(u, q) \in Op
BY DEF Receive, Operation, Op, Uses

LEMMA KeysAreBuffers ==
  ASSUME NEW u \in Uses, NEW r \in Ranks, NEW q \in Ranks
  PROVE  KeyFor(u, r, q) \in Buffers /\ KeyFor(u, r, q) # None
BY ExchangeAssumption DEF KeyFor, Buffers, Uses

LEMMA SmallTag ==
  ASSUME NEW t \in Nat, t < TagSpace
  PROVE  Tag64(t) = t
<1>1. TagSpace \in Nat
  BY ExchangeAssumption
<1>2. t % TagSpace = t
  BY <1>1
<1>. QED
  BY <1>2 DEF Tag64

\* The two exchanges and their ranks never share a tag.
LEMMA TagsDiffer ==
  ASSUME NEW u \in Uses, NEW q \in Ranks, NEW v \in Uses, NEW p \in Ranks, Tag(u, q) = Tag(v, p)
  PROVE  u = v /\ q = p
<1>1. /\ Tag("key", q) = q /\ Tag("sem", q) = SemTag + q
      /\ Tag("key", p) = p /\ Tag("sem", p) = SemTag + p
  <2>1. /\ q \in Nat /\ q < TagSpace /\ SemTag + q \in Nat /\ SemTag + q < TagSpace
        /\ p \in Nat /\ p < TagSpace /\ SemTag + p \in Nat /\ SemTag + p < TagSpace
    BY ExchangeAssumption DEF Ranks
  <2>. QED
    BY <2>1, SmallTag DEF Tag
<1>2. q < SemTag /\ p < SemTag /\ q \in Nat /\ p \in Nat /\ SemTag \in Nat
  BY ExchangeAssumption DEF Ranks
<1>. QED
  BY <1>1, <1>2 DEF Uses

LEMMA TagIsNat ==
  ASSUME NEW u \in Uses, NEW q \in Ranks
  PROVE  Tag(u, q) \in Nat
BY ExchangeAssumption DEF Tag, Tag64, Ranks

\* The index of a peer in the address vector names that peer.
LEMMA TargetIsPeer ==
  ASSUME AddressBook, NEW r \in Ranks, NEW q \in Ranks, pc[r] \notin BeforeBooted
  PROVE  Target(r, q) = q
BY ExchangeAssumption DEF AddressBook, Target

\* What a rank fetches behind the fence is what its peer published.
LEMMA Fetched ==
  ASSUME Published, NEW r \in Ranks, NEW q \in Ranks, pc[r] = "boot"
  PROVE  LocalityData(r, q) = Address[q]
<1>1. kv[q] = Encode(Address[q])
  BY DEF Published
<1>2. Address[q] \in Seq(Byte)
  BY ExchangeAssumption
<1>3. Encode(Address[q]) \in Seq(Byte)
  <2>1. Encode(Address[q]) \in Seq(Sign)
    BY <1>2, EncodeSigns
  <2>2. Sign \subseteq Byte
    BY DEF Sign, Pad, Byte
  <2>. QED
    BY <2>1, <2>2
<1>4. kv[q] # None
  BY <1>1, <1>3, ExchangeAssumption
<1>. QED
  BY <1>1, <1>2, <1>4, RoundTrip DEF LocalityData

\* One operation of one rank changes its stage.
LEMMA StageSet ==
  ASSUME TypeOK, NEW r \in Ranks, NEW o \in Op, NEW s \in Stages, SetStage(r, o, s)
  PROVE  /\ stage' \in [Ranks -> [Op -> Stages]]
         /\ stage'[r][o] = s
         /\ \A q \in Ranks, x \in Op : q # r \/ x # o => stage'[q][x] = stage[q][x]
BY DEF TypeOK, SetStage
-----------------------------------------------------------------------------
(* Types.                                                                  *)

LEMMA TypeInit ==
  ASSUME Init
  PROVE  TypeOK
BY ExchangeAssumption DEF Init, TypeOK, Steps, Stages, Ranks

\* Actions that move a main thread and nothing but its counters.
Waits(r) ==
  \/ BootFence(r) \/ InsertRefused(r) \/ BootDone(r) \/ TestFence(r)
  \/ (\E u \in Uses : AllPosted(r, u)) \/ SemaphoreMade(r) \/ KeysExchanged(r) \/ KeyFence(r)
  \/ SignalSelf(r) \/ AllSignalled(r) \/ SlotsSeen(r) \/ Join(r)

\* Every step is one of these.
LEMMA StepCases ==
  ASSUME Next
  PROVE  \/ \E r \in Ranks : Waits(r) \/ Publish(r) \/ InsertAddress(r) \/ Signal(r)
         \/ \E r \in Ranks, u \in Uses : PostRecv(r, u) \/ PostSend(r, u) \/ SkipSelf(r, u)
         \/ \E r \in Ranks, o \in Op : Count(r, o) \/ Call(r, o) \/ Sent(r, o)
         \/ \E m \in wire : Deliver(m)
BY DEF Next, Main, Poll, Provider, Waits

LEMMA WaitsType ==
  ASSUME TypeOK, NEW r \in Ranks, Waits(r)
  PROVE  TypeOK'
<1>. USE RanksAreNats DEF Goto, TypeOK, config, msgVars, sigVars
<1>1. CASE BootFence(r)
  BY <1>1 DEF BootFence, Steps
<1>2. CASE InsertRefused(r)
  BY <1>2 DEF InsertRefused, Steps
<1>3. CASE BootDone(r)
  <2>1. /\ pc' \in [Ranks -> Steps] /\ arrived' \in [Ranks -> Nat]
    BY <1>3 DEF BootDone, Booted, Arrive, Steps
  <2>2. idx' \in [Ranks -> 0..N] /\ UNCHANGED <<config, kv, av, msgVars, semKeys, sigVars>>
    BY <1>3 DEF BootDone
  <2>. QED
    BY <2>1, <2>2
<1>4. CASE TestFence(r)
  BY <1>4 DEF TestFence, Steps
<1>5. CASE \E u \in Uses : AllPosted(r, u)
  BY <1>5 DEF AllPosted, WaitAt, Steps
<1>6. CASE SemaphoreMade(r)
  BY <1>6 DEF SemaphoreMade, Steps
<1>7. CASE KeysExchanged(r)
  BY <1>7 DEF KeysExchanged, Arrive, Steps
<1>8. CASE KeyFence(r)
  BY <1>8 DEF KeyFence, Steps
<1>9. CASE SignalSelf(r)
  <2>1. idx[r] + 1 \in 0..N
    BY <1>9, ExchangeAssumption DEF SignalSelf, Ranks
  <2>. QED
    BY <1>9, <2>1 DEF SignalSelf, Advance
<1>10. CASE AllSignalled(r)
  BY <1>10 DEF AllSignalled, Steps
<1>11. CASE SlotsSeen(r)
  BY <1>11 DEF SlotsSeen, Steps
<1>12. CASE Join(r)
  BY <1>12 DEF Join, Steps
<1>. QED
  BY <1>1, <1>2, <1>3, <1>4, <1>5, <1>6, <1>7, <1>8, <1>9, <1>10, <1>11, <1>12 DEF Waits

LEMMA BootType ==
  ASSUME TypeOK, Published, NEW r \in Ranks, Publish(r) \/ InsertAddress(r)
  PROVE  TypeOK'
<1>1. CASE Publish(r)
  <2>1. Encode(Address[r]) \in Seq(0..Pad)
    BY EncodeSigns, ExchangeAssumption DEF Sign
  <2>. QED
    BY <1>1, <2>1 DEF Publish, Arrive, Goto, TypeOK, Steps, config, msgVars, sigVars
<1>2. CASE InsertAddress(r)
  <2>1. idx[r] \in Ranks /\ idx[r] + 1 \in 0..N
    BY <1>2, ExchangeAssumption DEF InsertAddress, TypeOK, Ranks
  <2>2. LocalityData(r, idx[r]) \in Seq(Byte)
    BY <1>2, <2>1, Fetched, ExchangeAssumption DEF InsertAddress
  <2>3. av' \in [Ranks -> [Ranks -> Seq(Byte) \cup {None}]]
    BY <1>2, <2>1, <2>2 DEF InsertAddress, TypeOK
  <2>4. idx' \in [Ranks -> 0..N]
    BY <1>2, <2>1 DEF InsertAddress, Advance, TypeOK
  <2>. QED
    BY <1>2, <2>3, <2>4 DEF InsertAddress, TypeOK, config, msgVars, sigVars
<1>. QED
  BY <1>1, <1>2

LEMMA SignalType ==
  ASSUME TypeOK, NEW r \in Ranks, Signal(r)
  PROVE  TypeOK'
<1>1. idx[r] \in Ranks /\ idx[r] + 1 \in 0..N
  BY ExchangeAssumption DEF Signal, Peers, Ranks
<1>2. idx' \in [Ranks -> 0..N]
  <2>1. idx' = [idx EXCEPT ![r] = @ + 1]
    BY DEF Signal, Advance
  <2>. QED
    BY <1>1, <2>1 DEF TypeOK
<1>3. slots' \in [Ranks -> SUBSET Ranks]
  <2>1. CASE Hits(r, idx[r])
    <3>1. slots' = [slots EXCEPT ![idx[r]] = @ \cup {r}]
      BY <2>1 DEF Signal
    <3>2. slots[idx[r]] \cup {r} \in SUBSET Ranks
      BY <1>1 DEF TypeOK
    <3>. QED
      BY <1>1, <3>1, <3>2 DEF TypeOK
  <2>2. CASE ~Hits(r, idx[r])
    BY <2>2 DEF Signal, TypeOK
  <2>. QED
    BY <2>1, <2>2
<1>4. lost' \subseteq [from : Ranks, to : Ranks, key : Buffers \cup {None}]
  BY <1>1 DEF Signal, TypeOK
<1>. QED
  BY <1>2, <1>3, <1>4 DEF Signal, TypeOK, config, msgVars

LEMMA PostType ==
  ASSUME TypeOK, AddressBook, Indexed, NEW r \in Ranks, NEW u \in Uses,
         PostRecv(r, u) \/ PostSend(r, u) \/ SkipSelf(r, u)
  PROVE  TypeOK'
<1>1. CASE PostRecv(r, u)
  <2>1. stage' \in [Ranks -> [Op -> Stages]]
    BY <1>1, StageSet, Operations DEF PostRecv, Peers, Stages
  <2>. QED
    BY <1>1, <2>1 DEF PostRecv, Goto, SendAt, Steps, TypeOK, config, sigVars
<1>2. CASE PostSend(r, u)
  <2>1. idx[r] \in Ranks /\ idx[r] + 1 \in 0..N /\ pc[r] \notin BeforeBooted
    BY <1>2, ExchangeAssumption DEF PostSend, SendAt, Indexed, Peers, Ranks, BeforeBooted
  <2>2. stage' \in [Ranks -> [Op -> Stages]]
    BY <1>2, <2>1, StageSet, Operations DEF PostSend, Stages
  <2>3. wire' \subseteq Message
    <3>1. [from |-> r, to |-> Target(r, idx[r]), tag |-> Tag(u, r), key |-> KeyFor(u, r, idx[r])]
            \in Message
      BY <2>1, TargetIsPeer, TagIsNat, KeysAreBuffers DEF Message
    <3>. QED
      BY <1>2, <3>1 DEF PostSend, TypeOK
  <2>4. idx' \in [Ranks -> 0..N] /\ pc' \in [Ranks -> Steps]
    BY <1>2, <2>1 DEF PostSend, Advance, Goto, RecvAt, Steps, TypeOK
  <2>. QED
    BY <1>2, <2>2, <2>3, <2>4 DEF PostSend, TypeOK, config, sigVars
<1>3. CASE SkipSelf(r, u)
  <2>1. idx' \in [Ranks -> 0..N]
    BY <1>3, ExchangeAssumption DEF SkipSelf, Advance, TypeOK, Ranks
  <2>2. semKeys' \in [Ranks -> [Ranks -> Buffers \cup {None}]]
    BY <1>3, KeysAreBuffers DEF SkipSelf, TypeOK
  <2>. QED
    BY <1>3, <2>1, <2>2 DEF SkipSelf, TypeOK, config, msgVars, sigVars
<1>. QED
  BY <1>1, <1>2, <1>3

LEMMA CompletionType ==
  ASSUME TypeOK, NEW r \in Ranks, NEW o \in Op, Count(r, o) \/ Call(r, o) \/ Sent(r, o)
  PROVE  TypeOK'
<1>1. CASE Count(r, o)
  <2>1. stage' \in [Ranks -> [Op -> Stages]]
    BY <1>1, StageSet DEF Count, Stages
  <2>. QED
    BY <1>1, <2>1 DEF Count, TypeOK, config, sigVars
<1>2. CASE Call(r, o)
  <2>1. stage' \in [Ranks -> [Op -> Stages]]
    BY <1>2, StageSet DEF Call, Stages
  <2>2. o.peer \in Ranks
    BY DEF Op
  <2>3. semKeys' \in [Ranks -> [Ranks -> Buffers \cup {None}]]
    BY <1>2, <2>2 DEF Call, Stored, Uses, TypeOK
  <2>. QED
    BY <1>2, <2>1, <2>3 DEF Call, TypeOK, config, sigVars
<1>3. CASE Sent(r, o)
  <2>1. stage' \in [Ranks -> [Op -> Stages]]
    BY <1>3, StageSet DEF Sent, Stages
  <2>. QED
    BY <1>3, <2>1 DEF Sent, TypeOK, config, sigVars
<1>. QED
  BY <1>1, <1>2, <1>3

LEMMA DeliverType ==
  ASSUME TypeOK, NEW m \in wire, Deliver(m)
  PROVE  TypeOK'
<1>1. m.to \in Ranks /\ m.key \in Buffers
  BY DEF TypeOK, Message
<1>2. PICK u \in Uses, q \in Ranks :
        /\ SetStage(m.to, Operation("recv", u, q), "complete")
        /\ got' = [got EXCEPT ![m.to][u][q] = m.key]
  BY DEF Deliver
<1>3. stage' \in [Ranks -> [Op -> Stages]]
  BY <1>1, <1>2, StageSet, Operations DEF Stages
<1>4. got' \in [Ranks -> [Uses -> [Ranks -> Buffers \cup {None}]]]
  BY <1>1, <1>2 DEF TypeOK
<1>5. wire' \subseteq Message
  BY DEF Deliver, TypeOK
<1>. QED
  BY <1>3, <1>4, <1>5 DEF Deliver, TypeOK, config, sigVars

LEMMA TypeStep ==
  ASSUME IInv, [Next]_vars
  PROVE  TypeOK'
<1>1. CASE UNCHANGED vars
  BY <1>1 DEF IInv, TypeOK, vars, config, msgVars, sigVars
<1>2. CASE Next
  BY <1>2, StepCases, WaitsType, BootType, SignalType, PostType, CompletionType, DeliverType DEF IInv
<1>. QED
  BY <1>1, <1>2
-----------------------------------------------------------------------------
(* boot_PMI.                                                               *)

SemaphoreMaking == {"semaphore", "semSend", "semWait"}
Exchanging == SemaphoreMaking \cup SemaphoreSteps

Boots(r) == \/ Publish(r) \/ BootFence(r) \/ InsertAddress(r) \/ InsertRefused(r)
            \/ BootDone(r) \/ TestFence(r)

\* What all steps do that are none of boot_PMI.
Onward ==
  /\ UNCHANGED <<program, kv, av>>
  /\ \A q \in Ranks :
       /\ pc'[q] # pc[q] => pc[q] \in Exchanging /\ pc'[q] \in Exchanging
       /\ pc[q] \in SemaphoreSteps => pc'[q] \in SemaphoreSteps
       /\ pc'[q] \in SemaphoreSteps => pc[q] \in SemaphoreSteps \cup {"semWait"}
       /\ arrived'[q] # arrived[q] \/ idx'[q] # idx[q] => pc[q] \in Exchanging
       /\ arrived'[q] \in Nat /\ arrived'[q] >= arrived[q]
       /\ pc'[q] \in {"semSend", "keySend"} =>
            (pc[q] = pc'[q] /\ idx'[q] = idx[q]) \/ idx'[q] \in Peers(q)

LEMMA OnwardOrBoot ==
  ASSUME TypeOK, Next
  PROVE  Onward \/ \E r \in Ranks : Boots(r)
<1>. USE DEF Onward, Exchanging, SemaphoreMaking, SemaphoreSteps, Goto, Advance, TypeOK, config, Peers
<1>1. ASSUME NEW r \in Ranks, Waits(r), ~Boots(r)
      PROVE  Onward
  <2>1. CASE \E u \in Uses : AllPosted(r, u)
    BY <2>1 DEF AllPosted, RecvAt, WaitAt
  <2>2. CASE SemaphoreMade(r)
    BY <2>2 DEF SemaphoreMade
  <2>3. CASE KeysExchanged(r)
    BY <2>3 DEF KeysExchanged, Arrive
  <2>4. CASE KeyFence(r)
    BY <2>4 DEF KeyFence
  <2>5. CASE SignalSelf(r)
    BY <2>5 DEF SignalSelf
  <2>6. CASE AllSignalled(r)
    BY <2>6 DEF AllSignalled
  <2>7. CASE SlotsSeen(r)
    BY <2>7 DEF SlotsSeen
  <2>8. CASE Join(r)
    BY <2>8 DEF Join
  <2>. QED
    BY <1>1, <2>1, <2>2, <2>3, <2>4, <2>5, <2>6, <2>7, <2>8 DEF Waits, Boots
<1>2. ASSUME NEW r \in Ranks, Signal(r)
      PROVE  Onward
  BY <1>2 DEF Signal
<1>3. ASSUME NEW r \in Ranks, NEW u \in Uses, PostRecv(r, u)
      PROVE  Onward
  BY <1>3 DEF PostRecv, RecvAt, SendAt
<1>4. ASSUME NEW r \in Ranks, NEW u \in Uses, PostSend(r, u)
      PROVE  Onward
  BY <1>4 DEF PostSend, RecvAt, SendAt
<1>5. ASSUME NEW r \in Ranks, NEW u \in Uses, SkipSelf(r, u)
      PROVE  Onward
  BY <1>5 DEF SkipSelf, RecvAt
<1>6. ASSUME NEW r \in Ranks, NEW o \in Op, Count(r, o) \/ Call(r, o) \/ Sent(r, o)
      PROVE  Onward
  BY <1>6 DEF Count, Call, Sent
<1>7. ASSUME NEW m \in wire, Deliver(m)
      PROVE  Onward
  BY <1>7 DEF Deliver
<1>. QED
  BY <1>1, <1>2, <1>3, <1>4, <1>5, <1>6, <1>7, StepCases DEF Boots

LEMMA PublishedStep ==
  ASSUME TypeOK, Published, Next
  PROVE  Published'
<1>1. CASE Onward
  <2>1. ASSUME NEW q \in Ranks, pc[q] \notin Exchanging
        PROVE  pc'[q] = pc[q] /\ arrived'[q] = arrived[q]
    BY <1>1, <2>1 DEF Onward
  <2>2. ASSUME NEW q \in Ranks, pc[q] \in Exchanging
        PROVE  pc'[q] \in Exchanging /\ arrived'[q] \in Nat /\ arrived'[q] >= arrived[q]
    BY <1>1, <2>2 DEF Onward
  <2>3. \A q \in Ranks : arrived[q] \in Nat
    BY DEF TypeOK
  <2>4. {"publish", "bootFence", "boot", "died", "testFence"} \cap Exchanging = {}
    BY DEF Exchanging, SemaphoreMaking, SemaphoreSteps
  <2>5. UNCHANGED <<program, kv>>
    BY <1>1 DEF Onward
  <2>. QED
    BY <2>1, <2>2, <2>3, <2>4, <2>5 DEF Published
<1>2. ASSUME NEW r \in Ranks, Boots(r)
      PROVE  Published'
  <2>. USE DEF Published, Goto, Arrive, TypeOK, config
  <2>1. CASE Publish(r)
    BY <2>1 DEF Publish
  <2>2. CASE BootFence(r)
    BY <2>2 DEF BootFence, FenceOpen
  <2>3. CASE InsertAddress(r)
    BY <2>3 DEF InsertAddress
  <2>4. CASE InsertRefused(r)
    BY <2>4 DEF InsertRefused
  <2>5. CASE BootDone(r)
    BY <2>5 DEF BootDone, Booted
  <2>6. CASE TestFence(r)
    BY <2>6 DEF TestFence
  <2>. QED
    BY <1>2, <2>1, <2>2, <2>3, <2>4, <2>5, <2>6 DEF Boots
<1>. QED
  BY <1>1, <1>2, OnwardOrBoot

LEMMA FilledStep ==
  ASSUME TypeOK, Published, Filled, AddressBook, Indexed, Next
  PROVE  Filled' /\ AddressBook'
<1>1. CASE Onward
  BY <1>1 DEF Onward, Exchanging, SemaphoreMaking, SemaphoreSteps, BeforeBooted, Filled, AddressBook, TypeOK
<1>2. ASSUME NEW r \in Ranks, Boots(r)
      PROVE  Filled' /\ AddressBook'
  <2>. USE DEF Filled, AddressBook, BeforeBooted, Goto, Arrive, TypeOK, config
  <2>1. CASE Publish(r)
    BY <2>1 DEF Publish
  <2>2. CASE BootFence(r)
    BY <2>2, RanksAreNats DEF BootFence, Indexed
  <2>3. CASE InsertAddress(r)
    <3>1. idx[r] \in Ranks /\ idx' = [idx EXCEPT ![r] = idx[r] + 1] /\ UNCHANGED pc
      BY <2>3, RanksAreNats DEF InsertAddress, Advance, Ranks
    <3>2. av' = [av EXCEPT ![r] = [av[r] EXCEPT ![idx[r]] = Address[idx[r]]]]
      BY <2>3, <3>1, Fetched DEF InsertAddress
    <3>3. ASSUME NEW q \in Ranks, q < idx[r] + 1
          PROVE  q < idx[r] \/ q = idx[r]
      BY <3>1, <3>3, RanksAreNats
    <3>. QED
      BY <2>3, <3>1, <3>2, <3>3 DEF InsertAddress
  <2>4. CASE InsertRefused(r)
    BY <2>4 DEF InsertRefused
  <2>5. CASE BootDone(r)
    <3>1. av[r] = Address
      <4>1. \A q \in Ranks : av[r][q] = Address[q]
        BY <2>5, RanksAreNats DEF BootDone, Ranks
      <4>2. Address \in [Ranks -> Seq(Byte)]
        BY ExchangeAssumption
      <4>. QED
        BY <4>1, <4>2
    <3>2. /\ UNCHANGED av
          /\ \A q \in Ranks \ {r} : pc'[q] = pc[q] /\ idx'[q] = idx[q]
          /\ pc'[r] # "boot"
      BY <2>5 DEF BootDone, Booted
    <3>. QED
      BY <3>1, <3>2
  <2>6. CASE TestFence(r)
    BY <2>6 DEF TestFence
  <2>. QED
    BY <1>2, <2>1, <2>2, <2>3, <2>4, <2>5, <2>6 DEF Boots
<1>. QED
  BY <1>1, <1>2, OnwardOrBoot

LEMMA FencedStep ==
  ASSUME TypeOK, Published, Fenced, Next
  PROVE  Fenced'
<1>. USE DEF Fenced, BeforeBooted, SemaphoreSteps
<1>1. CASE Onward
  BY <1>1 DEF Onward, Exchanging, SemaphoreMaking
<1>2. ASSUME NEW r \in Ranks, Boots(r)
      PROVE  Fenced'
  <2>. USE DEF Goto, Arrive, TypeOK, config
  <2>1. CASE Publish(r)
    BY <2>1 DEF Publish
  <2>2. CASE BootFence(r)
    BY <2>2 DEF BootFence
  <2>3. CASE InsertAddress(r)
    BY <2>3 DEF InsertAddress
  <2>4. CASE InsertRefused(r)
    BY <2>4 DEF InsertRefused
  <2>5. CASE BootDone(r)
    BY <2>5 DEF BootDone, Booted
  <2>6. CASE TestFence(r)
    <3>1. \A q \in Ranks : arrived[q] >= 2
      BY <2>6 DEF TestFence, FenceOpen, Published
    <3>2. \A q \in Ranks : pc[q] \notin {"publish", "bootFence", "boot", "died"}
      BY <3>1 DEF Published
    <3>. QED
      BY <2>6, <3>2 DEF TestFence, Published
  <2>. QED
    BY <1>2, <2>1, <2>2, <2>3, <2>4, <2>5, <2>6 DEF Boots
<1>. QED
  BY <1>1, <1>2, OnwardOrBoot

LEMMA IndexedStep ==
  ASSUME TypeOK, Indexed, Next
  PROVE  Indexed'
<1>1. CASE Onward
  BY <1>1 DEF Onward, Exchanging, SemaphoreMaking, SemaphoreSteps, Indexed
<1>2. ASSUME NEW r \in Ranks, Boots(r)
      PROVE  Indexed'
  <2>. USE DEF Indexed, Goto, Arrive, TypeOK, config
  <2>1. CASE Publish(r)
    BY <2>1 DEF Publish
  <2>2. CASE BootFence(r)
    BY <2>2 DEF BootFence
  <2>3. CASE InsertAddress(r)
    BY <2>3 DEF InsertAddress, Advance
  <2>4. CASE InsertRefused(r)
    BY <2>4 DEF InsertRefused
  <2>5. CASE BootDone(r)
    BY <2>5 DEF BootDone, Booted
  <2>6. CASE TestFence(r)
    BY <2>6 DEF TestFence
  <2>. QED
    BY <1>2, <2>1, <2>2, <2>3, <2>4, <2>5, <2>6 DEF Boots
<1>. QED
  BY <1>1, <1>2, OnwardOrBoot
-----------------------------------------------------------------------------
(* Messages and keys.                                                      *)

\* The stage of a receive is changed by its rank's posts, its message and its
\* completion only.
SameReceives(r) == \A u \in Uses, q \in Ranks : stage'[r][Receive(u, q)] = stage[r][Receive(u, q)]

LEMMA PostRecvStage ==
  ASSUME TypeOK, NEW r \in Ranks, NEW u \in Uses, PostRecv(r, u)
  PROVE  /\ idx[r] \in Peers(r)
         /\ stage'[r][Receive(u, idx[r])] = "posted"
         /\ \A v \in Uses, q \in Ranks :
              v # u \/ q # idx[r] => stage'[r][Receive(v, q)] = stage[r][Receive(v, q)]
         /\ \A p \in Ranks \ {r} : SameReceives(p)
<1>1. idx[r] \in Peers(r) /\ SetStage(r, Receive(u, idx[r]), "posted")
  BY DEF PostRecv, Receive
<1>2. idx[r] \in Ranks
  BY <1>1 DEF Peers
<1>. QED
  BY <1>1, <1>2, StageSet, OperationsDiffer DEF SameReceives, Stages

LEMMA PostSendStage ==
  ASSUME TypeOK, Indexed, NEW r \in Ranks, NEW u \in Uses, PostSend(r, u)
  PROVE  /\ idx[r] \in Peers(r) /\ pc[r] \notin BeforeBooted
         /\ \A p \in Ranks : SameReceives(p)
<1>1. idx[r] \in Peers(r) /\ idx[r] \in Ranks /\ pc[r] \notin BeforeBooted
  BY DEF PostSend, SendAt, Indexed, Peers, BeforeBooted
<1>2. PICK s \in Stages : SetStage(r, Operation("send", u, idx[r]), s)
  BY DEF PostSend, Stages
<1>. QED
  BY <1>1, <1>2, StageSet, Operations, OperationsDiffer DEF SameReceives

LEMMA CompletionStage ==
  ASSUME TypeOK, NEW r \in Ranks, NEW o \in Op, NEW s \in Stages, SetStage(r, o, s)
  PROVE  /\ \A p \in Ranks \ {r} : SameReceives(p)
         /\ o.kind = "send" => SameReceives(r)
         /\ o.kind = "recv" => /\ o = Receive(o.use, o.peer) /\ o.use \in Uses /\ o.peer \in Ranks
                               /\ stage'[r][Receive(o.use, o.peer)] = s
                               /\ \A u \in Uses, q \in Ranks :
                                    u # o.use \/ q # o.peer =>
                                      stage'[r][Receive(u, q)] = stage[r][Receive(u, q)]
<1>1. \A p \in Ranks \ {r} : SameReceives(p)
  BY StageSet, OperationsDiffer DEF SameReceives
<1>2. o.kind = "send" => SameReceives(r)
  BY StageSet, OperationsDiffer DEF SameReceives
<1>3. ASSUME o.kind = "recv"
      PROVE  o = Receive(o.use, o.peer) /\ o.use \in Uses /\ o.peer \in Ranks
  BY <1>3 DEF Op, Uses, Receive, Operation
<1>. QED
  BY <1>1, <1>2, <1>3, StageSet, OperationsDiffer

\* A message meets the receive its rank posted for it.
LEMMA DeliverStage ==
  ASSUME TypeOK, Mail, NEW m \in wire, Deliver(m)
  PROVE  /\ m.to \in Ranks
         /\ \E u \in Uses, q \in Peers(m.to) :
              /\ stage[m.to][Receive(u, q)] = "posted"
              /\ stage'[m.to][Receive(u, q)] = "complete"
              /\ got' = [got EXCEPT ![m.to][u][q] = KeyFor(u, q, m.to)]
              /\ \A v \in Uses, p \in Ranks :
                   v # u \/ p # q => stage'[m.to][Receive(v, p)] = stage[m.to][Receive(v, p)]
         /\ \A p \in Ranks \ {m.to} : SameReceives(p)
<1>1. m.to \in Ranks /\ m.from \in Ranks /\ m.from # m.to
  BY DEF TypeOK, Message, Mail
<1>2. PICK u \in Uses, q \in Ranks :
        /\ stage[m.to][Receive(u, q)] = "posted" /\ m.tag = Tag(u, q)
        /\ SetStage(m.to, Receive(u, q), "complete")
        /\ got' = [got EXCEPT ![m.to][u][q] = m.key]
  BY DEF Deliver, Matches, Receive
<1>3. PICK v \in Uses : m.tag = Tag(v, m.from) /\ m.key = KeyFor(v, m.from, m.to)
  BY DEF Mail
<1>4. u = v /\ q = m.from
  <2>1. Tag(u, q) = Tag(v, m.from)
    BY <1>2, <1>3
  <2>. QED
    BY <2>1, <1>1, TagsDiffer
<1>5. q \in Peers(m.to) /\ m.key = KeyFor(u, q, m.to)
  BY <1>1, <1>3, <1>4 DEF Peers
<1>6. /\ stage'[m.to][Receive(u, q)] = "complete"
      /\ \A w \in Uses, p \in Ranks :
           w # u \/ p # q => stage'[m.to][Receive(w, p)] = stage[m.to][Receive(w, p)]
      /\ \A p \in Ranks \ {m.to} : SameReceives(p)
  BY <1>1, <1>2, StageSet, OperationsDiffer DEF SameReceives, Stages
<1>. QED
  BY <1>1, <1>2, <1>5, <1>6

\* Whoever makes or exchanges keys goes on from there.
LEMMA GoesOn ==
  ASSUME TypeOK, Next
  PROVE  /\ UNCHANGED program
         /\ \A q \in Ranks : pc[q] \in SemaphoreSteps => pc'[q] \in SemaphoreSteps
<1>1. CASE Onward
  BY <1>1 DEF Onward
<1>2. ASSUME NEW r \in Ranks, Boots(r)
      PROVE  /\ UNCHANGED program
             /\ \A q \in Ranks : pc[q] \in SemaphoreSteps => pc'[q] \in SemaphoreSteps
  <2>1. UNCHANGED program
    BY <1>2 DEF Boots, Publish, BootFence, InsertAddress, InsertRefused, BootDone, TestFence, config
  <2>2. /\ pc[r] \notin SemaphoreSteps
        /\ \A q \in Ranks \ {r} : pc'[q] = pc[q]
    BY <1>2 DEF Boots, Publish, BootFence, InsertAddress, InsertRefused, BootDone, TestFence,
       Booted, Arrive, Goto, SemaphoreSteps, TypeOK
  <2>. QED
    BY <2>1, <2>2
<1>. QED
  BY <1>1, <1>2, OnwardOrBoot

LEMMA MailStep ==
  ASSUME TypeOK, AddressBook, Indexed, Fenced, Mail, Next
  PROVE  Mail'
<1>1. CASE wire' \subseteq wire
  BY <1>1, GoesOn DEF Mail, TypeOK, Message, Tag, Tag64, KeyFor
<1>2. ASSUME NEW r \in Ranks, NEW u \in Uses, PostSend(r, u)
      PROVE  Mail'
  <2>. DEFINE new == [from |-> r, to |-> idx[r], tag |-> Tag(u, r), key |-> KeyFor(u, r, idx[r])]
  <2>1. idx[r] \in Ranks /\ idx[r] # r /\ Target(r, idx[r]) = idx[r]
    BY <1>2, PostSendStage, TargetIsPeer DEF Peers
  <2>2. wire' = wire \cup {new}
    BY <1>2, <2>1 DEF PostSend
  <2>3. program = "test" => pc[r] \in SemaphoreSteps
    BY <1>2 DEF PostSend, SendAt, Fenced, SemaphoreSteps
  <2>4. ASSUME NEW m \in wire
        PROVE  /\ m.from # m.to
               /\ \E v \in Uses : m.tag = Tag(v, m.from) /\ m.key = KeyFor(v, m.from, m.to)
               /\ program' = "test" => pc'[m.from] \in SemaphoreSteps
    BY GoesOn DEF Mail, TypeOK, Message
  <2>5. /\ new.from # new.to
        /\ \E v \in Uses : new.tag = Tag(v, new.from) /\ new.key = KeyFor(v, new.from, new.to)
        /\ program' = "test" => pc'[new.from] \in SemaphoreSteps
    BY <2>1, <2>3, GoesOn
  <2>. QED
    BY <2>2, <2>4, <2>5 DEF Mail
<1>3. wire' \subseteq wire \/ \E r \in Ranks, u \in Uses : PostSend(r, u)
  BY StepCases DEF Waits, Publish, InsertAddress, Signal, PostRecv, SkipSelf, Count, Call, Sent, Deliver,
     msgVars, BootFence, InsertRefused, BootDone, TestFence, AllPosted, SemaphoreMade,
     KeysExchanged, KeyFence, SignalSelf, AllSignalled, SlotsSeen, Join
<1>. QED
  BY <1>1, <1>2, <1>3

\* Steps that touch no message, buffer or key.
LEMMA StillSteps ==
  ASSUME NEW r \in Ranks, Waits(r) \/ Publish(r) \/ InsertAddress(r) \/ Signal(r)
  PROVE  UNCHANGED <<stage, got, running, semKeys>>
BY DEF Waits, Publish, InsertAddress, Signal, msgVars,
   BootFence, InsertRefused, BootDone, TestFence, AllPosted, SemaphoreMade,
   KeysExchanged, KeyFence, SignalSelf, AllSignalled, SlotsSeen, Join

LEMMA CallbacksStep ==
  ASSUME TypeOK, Indexed, Loops, Mail, Callbacks, Next
  PROVE  Callbacks'
<1>1. ASSUME UNCHANGED <<stage, running>>
      PROVE  Callbacks'
  BY <1>1 DEF Callbacks, Receive, Operation
<1>2. ASSUME NEW r \in Ranks, NEW u \in Uses, PostRecv(r, u)
      PROVE  Callbacks'
  <2>1. idx[r] \in Peers(r) /\ idx[r] \in Ranks /\ idx[r] \in Nat
    BY <1>2, PostRecvStage, RanksAreNats DEF Peers
  <2>2. stage[r][Receive(u, idx[r])] = "none"
    <3>1. pc[r] = RecvAt(u) /\ ~(idx[r] < idx[r])
      BY <1>2, <2>1 DEF PostRecv
    <3>. QED
      BY <2>1, <3>1 DEF Loops, LoopsOf, LoopOf
  <2>3. UNCHANGED running
    BY <1>2 DEF PostRecv
  <2>4. stage'[r][Receive(u, idx[r])] = "posted"
    BY <1>2, PostRecvStage
  <2>. QED
    BY <1>2, <2>1, <2>2, <2>3, <2>4, PostRecvStage DEF Callbacks, SameReceives
<1>3. ASSUME NEW r \in Ranks, NEW u \in Uses, PostSend(r, u)
      PROVE  Callbacks'
  BY <1>3, PostSendStage DEF PostSend, Callbacks, SameReceives
<1>4. ASSUME NEW r \in Ranks, NEW u \in Uses, SkipSelf(r, u)
      PROVE  Callbacks'
  BY <1>4, <1>1 DEF SkipSelf, msgVars
<1>5. ASSUME NEW r \in Ranks, NEW o \in Op, Count(r, o)
      PROVE  Callbacks'
  <2>1. SetStage(r, o, "counted") /\ running' = [running EXCEPT ![r] = @ \cup {o}]
    BY <1>5 DEF Count
  <2>2. o.kind \in {"send", "recv"}
    BY DEF Op
  <2>3. /\ \A p \in Ranks \ {r} : running'[p] = running[p]
        /\ \A x \in Op : x \in running'[r] <=> x \in running[r] \/ x = o
    BY <2>1 DEF TypeOK
  <2>4. CASE o.kind = "send"
    <3>1. \A p \in Ranks : SameReceives(p)
      BY <2>1, <2>4, CompletionStage DEF Stages
    <3>. QED
      BY <2>3, <2>4, <3>1, OperationsDiffer DEF Callbacks, SameReceives
  <2>5. CASE o.kind = "recv"
    <3>1. /\ \A p \in Ranks \ {r} : SameReceives(p)
          /\ o = Receive(o.use, o.peer) /\ o.use \in Uses /\ o.peer \in Ranks
          /\ stage'[r][o] = "counted"
          /\ \A u \in Uses, q \in Ranks :
               u # o.use \/ q # o.peer => stage'[r][Receive(u, q)] = stage[r][Receive(u, q)]
      BY <2>1, <2>5, CompletionStage DEF Stages
    <3>. QED
      BY <2>3, <3>1, OperationsDiffer DEF Callbacks, SameReceives
  <2>. QED
    BY <2>2, <2>4, <2>5
<1>6. ASSUME NEW r \in Ranks, NEW o \in Op, Call(r, o)
      PROVE  Callbacks'
  <2>1. SetStage(r, o, "done") /\ running' = [running EXCEPT ![r] = @ \ {o}]
    BY <1>6 DEF Call
  <2>2. o.kind \in {"send", "recv"}
    BY DEF Op
  <2>3. /\ \A p \in Ranks \ {r} : running'[p] = running[p]
        /\ \A x \in Op : x \in running'[r] <=> x \in running[r] /\ x # o
    BY <2>1 DEF TypeOK
  <2>4. CASE o.kind = "send"
    <3>1. \A p \in Ranks : SameReceives(p)
      BY <2>1, <2>4, CompletionStage DEF Stages
    <3>. QED
      BY <2>3, <2>4, <3>1, OperationsDiffer DEF Callbacks, SameReceives
  <2>5. CASE o.kind = "recv"
    <3>1. /\ \A p \in Ranks \ {r} : SameReceives(p)
          /\ o = Receive(o.use, o.peer) /\ o.use \in Uses /\ o.peer \in Ranks
          /\ stage'[r][o] = "done"
          /\ \A u \in Uses, q \in Ranks :
               u # o.use \/ q # o.peer => stage'[r][Receive(u, q)] = stage[r][Receive(u, q)]
      BY <2>1, <2>5, CompletionStage DEF Stages
    <3>. QED
      BY <2>3, <3>1, OperationsDiffer DEF Callbacks, SameReceives
  <2>. QED
    BY <2>2, <2>4, <2>5
<1>7. ASSUME NEW r \in Ranks, NEW o \in Op, Sent(r, o)
      PROVE  Callbacks'
  <2>1. SetStage(r, o, "complete") /\ o.kind = "send" /\ UNCHANGED running
    BY <1>7 DEF Sent
  <2>. QED
    BY <2>1, CompletionStage DEF Callbacks, SameReceives, Stages
<1>8. ASSUME NEW m \in wire, Deliver(m)
      PROVE  Callbacks'
  <2>1. PICK u \in Uses, q \in Peers(m.to) :
          /\ stage[m.to][Receive(u, q)] = "posted" /\ stage'[m.to][Receive(u, q)] = "complete"
          /\ \A v \in Uses, p \in Ranks :
               v # u \/ p # q => stage'[m.to][Receive(v, p)] = stage[m.to][Receive(v, p)]
    BY <1>8, DeliverStage
  <2>2. m.to \in Ranks /\ q \in Ranks /\ \A p \in Ranks \ {m.to} : SameReceives(p)
    BY <1>8, DeliverStage DEF Peers
  <2>3. UNCHANGED running
    BY <1>8 DEF Deliver
  <2>. QED
    BY <2>1, <2>2, <2>3 DEF Callbacks, SameReceives
<1>. QED
  BY <1>1, <1>2, <1>3, <1>4, <1>5, <1>6, <1>7, <1>8, StillSteps, StepCases

LEMMA BoxesStep ==
  ASSUME TypeOK, Indexed, Mail, Callbacks, Boxes, Next
  PROVE  Boxes'
<1>. USE DEF Boxes
<1>1. ASSUME UNCHANGED <<stage, got>>
      PROVE  Boxes'
  BY <1>1 DEF Receive, Operation, KeyFor
<1>2. ASSUME NEW r \in Ranks, NEW u \in Uses, PostRecv(r, u)
      PROVE  Boxes'
  <2>1. UNCHANGED got
    BY <1>2 DEF PostRecv
  <2>. QED
    BY <1>2, <2>1, PostRecvStage DEF SameReceives
<1>3. ASSUME NEW r \in Ranks, NEW u \in Uses, PostSend(r, u)
      PROVE  Boxes'
  BY <1>3, PostSendStage DEF PostSend, SameReceives
<1>4. ASSUME NEW r \in Ranks, NEW u \in Uses, SkipSelf(r, u)
      PROVE  Boxes'
  BY <1>4, <1>1 DEF SkipSelf, msgVars
<1>5. ASSUME NEW r \in Ranks, NEW o \in Op, Count(r, o)
      PROVE  Boxes'
  <2>1. SetStage(r, o, "counted") /\ stage[r][o] = "complete" /\ UNCHANGED got
    BY <1>5 DEF Count
  <2>2. o.kind \in {"send", "recv"}
    BY DEF Op
  <2>. QED
    BY <2>1, <2>2, CompletionStage DEF SameReceives, Stages
<1>6. ASSUME NEW r \in Ranks, NEW o \in Op, Call(r, o)
      PROVE  Boxes'
  <2>1. SetStage(r, o, "done") /\ o \in running[r] /\ UNCHANGED got
    BY <1>6 DEF Call
  <2>2. o.kind \in {"send", "recv"}
    BY DEF Op
  <2>3. o.kind = "recv" => stage[r][o] = "counted"
    BY <2>1, CompletionStage DEF Callbacks, Stages
  <2>. QED
    BY <2>1, <2>2, <2>3, CompletionStage DEF SameReceives, Stages
<1>7. ASSUME NEW r \in Ranks, NEW o \in Op, Sent(r, o)
      PROVE  Boxes'
  <2>1. SetStage(r, o, "complete") /\ o.kind = "send" /\ UNCHANGED got
    BY <1>7 DEF Sent
  <2>. QED
    BY <2>1, CompletionStage DEF SameReceives, Stages
<1>8. ASSUME NEW m \in wire, Deliver(m)
      PROVE  Boxes'
  <2>1. PICK u \in Uses, q \in Peers(m.to) :
          /\ got' = [got EXCEPT ![m.to][u][q] = KeyFor(u, q, m.to)]
          /\ \A v \in Uses, p \in Ranks :
               v # u \/ p # q => stage'[m.to][Receive(v, p)] = stage[m.to][Receive(v, p)]
    BY <1>8, DeliverStage
  <2>2. m.to \in Ranks /\ q \in Ranks /\ \A p \in Ranks \ {m.to} : SameReceives(p)
    BY <1>8, DeliverStage DEF Peers
  <2>3. /\ \A p \in Ranks \ {m.to} : got'[p] = got[p]
        /\ \A v \in Uses, p \in Ranks :
             got'[m.to][v][p] = IF v = u /\ p = q THEN KeyFor(u, q, m.to) ELSE got[m.to][v][p]
    BY <2>1, <2>2 DEF TypeOK
  <2>. QED
    BY <2>1, <2>2, <2>3 DEF SameReceives
<1>. QED
  BY <1>1, <1>2, <1>3, <1>4, <1>5, <1>6, <1>7, <1>8, StillSteps, StepCases

\* No wait is left behind by what the provider and the poll threads do.
LEMMA LoopsHold ==
  ASSUME Loops, UNCHANGED <<program, pc, idx>>,
         \A r \in Ranks, u \in Uses, q \in Ranks :
           LET s == stage[r][Receive(u, q)]
               t == stage'[r][Receive(u, q)]
           IN  (s = "none" <=> t = "none") /\ (s \in {"counted", "done"} => t \in {"counted", "done"})
  PROVE  Loops'
<1>1. SUFFICES ASSUME NEW r \in Ranks, NEW u \in Uses, NEW q \in Peers(r)
               PROVE  LoopOf(r, u, q)'
  BY DEF Loops, LoopsOf
<1>2. LoopOf(r, u, q) /\ q \in Ranks
  BY DEF Loops, LoopsOf, Peers
<1>3. LET s == stage[r][Receive(u, q)]
          t == stage'[r][Receive(u, q)]
      IN  (s = "none" <=> t = "none") /\ (s \in {"counted", "done"} => t \in {"counted", "done"})
  BY <1>2
<1>. QED
  BY <1>2, <1>3 DEF LoopOf

\* Only the rank that moves is to be looked at.
LEMMA LoopsOfOne ==
  ASSUME Loops, TypeOK, NEW r \in Ranks, UNCHANGED program, LoopsOf(r)',
         \A p \in Ranks \ {r} : pc'[p] = pc[p] /\ idx'[p] = idx[p] /\ SameReceives(p)
  PROVE  Loops'
<1>1. SUFFICES ASSUME NEW p \in Ranks \ {r}, NEW u \in Uses, NEW q \in Peers(p)
               PROVE  LoopOf(p, u, q)'
  BY DEF Loops, LoopsOf
<1>2. LoopOf(p, u, q) /\ q \in Ranks
  BY DEF Loops, LoopsOf, Peers
<1>3. pc'[p] = pc[p] /\ idx'[p] = idx[p] /\ stage'[p][Receive(u, q)] = stage[p][Receive(u, q)]
  BY <1>2 DEF SameReceives
<1>. QED
  BY <1>2, <1>3 DEF LoopOf

\* As long as nothing is posted the stages of a rank's receives stay.
LEMMA StageStays ==
  ASSUME UNCHANGED stage
  PROVE  \A r \in Ranks : SameReceives(r)
BY DEF SameReceives, Receive, Operation

LEMMA LoopsCompletion ==
  ASSUME TypeOK, Loops, Callbacks, NEW r \in Ranks, NEW o \in Op,
         Count(r, o) \/ Call(r, o) \/ Sent(r, o)
  PROVE  Loops'
<1>1. UNCHANGED <<program, pc, idx>> /\ o.kind \in {"send", "recv"}
  BY DEF Count, Call, Sent, config, Op
<1>2. CASE o.kind = "send"
  <2>1. \A p \in Ranks : SameReceives(p)
    BY <1>2, CompletionStage DEF Count, Call, Sent, Stages
  <2>. QED
    BY <1>1, <2>1, LoopsHold DEF SameReceives
<1>3. CASE o.kind = "recv"
  <2>1. o = Receive(o.use, o.peer) /\ o.use \in Uses /\ o.peer \in Ranks
    BY <1>3 DEF Op, Uses, Receive, Operation
  <2>2. PICK s \in {"counted", "done"} : SetStage(r, o, s)
    BY <1>3 DEF Count, Call, Sent
  <2>3. stage[r][o] \in {"complete", "counted"}
    BY <1>3, <2>1 DEF Count, Call, Sent, Callbacks
  <2>4. /\ \A p \in Ranks \ {r} : SameReceives(p)
        /\ stage'[r][o] = s
        /\ \A u \in Uses, q \in Ranks :
             u # o.use \/ q # o.peer => stage'[r][Receive(u, q)] = stage[r][Receive(u, q)]
    BY <1>3, <2>1, <2>2, CompletionStage DEF Stages
  <2>5. ASSUME NEW p \in Ranks, NEW u \in Uses, NEW q \in Ranks
        PROVE  LET old == stage[p][Receive(u, q)]
                   new == stage'[p][Receive(u, q)]
               IN  (old = "none" <=> new = "none") /\ (old \in {"counted", "done"} => new \in {"counted", "done"})
    <3>1. CASE p # r \/ u # o.use \/ q # o.peer
      BY <3>1, <2>4 DEF SameReceives
    <3>2. CASE p = r /\ u = o.use /\ q = o.peer
      BY <3>2, <2>1, <2>2, <2>3, <2>4
    <3>. QED
      BY <3>1, <3>2
  <2>. QED
    BY <1>1, <2>5, LoopsHold
<1>. QED
  BY <1>1, <1>2, <1>3

LEMMA LoopsDeliver ==
  ASSUME TypeOK, Mail, Loops, NEW m \in wire, Deliver(m)
  PROVE  Loops'
<1>1. UNCHANGED <<program, pc, idx>>
  BY DEF Deliver, config
<1>2. PICK u \in Uses, q \in Peers(m.to) :
        /\ stage[m.to][Receive(u, q)] = "posted" /\ stage'[m.to][Receive(u, q)] = "complete"
        /\ \A v \in Uses, p \in Ranks :
             v # u \/ p # q => stage'[m.to][Receive(v, p)] = stage[m.to][Receive(v, p)]
  BY DeliverStage
<1>3. m.to \in Ranks /\ \A p \in Ranks \ {m.to} : SameReceives(p)
  BY DeliverStage
<1>4. ASSUME NEW r \in Ranks, NEW v \in Uses, NEW p \in Ranks
      PROVE  LET old == stage[r][Receive(v, p)]
                 new == stage'[r][Receive(v, p)]
             IN  (old = "none" <=> new = "none") /\ (old \in {"counted", "done"} => new \in {"counted", "done"})
  <2>1. CASE r # m.to \/ v # u \/ p # q
    BY <2>1, <1>2, <1>3 DEF SameReceives
  <2>2. CASE r = m.to /\ v = u /\ p = q
    BY <2>2, <1>2
  <2>. QED
    BY <2>1, <2>2
<1>. QED
  BY <1>1, <1>4, LoopsHold

LEMMA LoopsMain ==
  ASSUME TypeOK, Published, Indexed, Loops, Fenced, NEW r \in Ranks,
         \/ Waits(r) \/ Publish(r) \/ InsertAddress(r) \/ Signal(r)
         \/ \E u \in Uses : PostRecv(r, u) \/ PostSend(r, u) \/ SkipSelf(r, u)
  PROVE  Loops'
<1>1. UNCHANGED program /\ \A p \in Ranks \ {r} : pc'[p] = pc[p] /\ idx'[p] = idx[p]
  <2>1. CASE BootFence(r)
    BY <2>1 DEF BootFence, Goto, TypeOK, config
  <2>2. CASE InsertRefused(r)
    BY <2>2 DEF InsertRefused, Goto, TypeOK, config
  <2>3. CASE BootDone(r)
    BY <2>3 DEF BootDone, Booted, Arrive, Goto, TypeOK, config
  <2>4. CASE TestFence(r)
    BY <2>4 DEF TestFence, Goto, TypeOK, config
  <2>5. CASE \E u \in Uses : AllPosted(r, u)
    BY <2>5 DEF AllPosted, WaitAt, Goto, TypeOK, config
  <2>6. CASE SemaphoreMade(r)
    BY <2>6 DEF SemaphoreMade, Goto, TypeOK, config
  <2>7. CASE KeysExchanged(r)
    BY <2>7 DEF KeysExchanged, Arrive, Goto, TypeOK, config
  <2>8. CASE KeyFence(r)
    BY <2>8 DEF KeyFence, Goto, TypeOK, config
  <2>9. CASE SignalSelf(r)
    BY <2>9 DEF SignalSelf, Advance, Goto, TypeOK, config
  <2>10. CASE AllSignalled(r)
    BY <2>10 DEF AllSignalled, Goto, TypeOK, config
  <2>11. CASE SlotsSeen(r)
    BY <2>11 DEF SlotsSeen, Goto, TypeOK, config
  <2>12. CASE Join(r)
    BY <2>12 DEF Join, Goto, TypeOK, config
  <2>13. CASE Publish(r)
    BY <2>13 DEF Publish, Arrive, Goto, TypeOK, config
  <2>14. CASE InsertAddress(r)
    BY <2>14 DEF InsertAddress, Advance, Goto, TypeOK, config
  <2>15. CASE Signal(r)
    BY <2>15 DEF Signal, Advance, Goto, TypeOK, config
  <2>16. ASSUME NEW u \in Uses, PostRecv(r, u) \/ PostSend(r, u) \/ SkipSelf(r, u)
        PROVE  UNCHANGED program /\ \A p \in Ranks \ {r} : pc'[p] = pc[p] /\ idx'[p] = idx[p]
    BY <2>16 DEF PostRecv, PostSend, SkipSelf, Advance, Goto, TypeOK, config
  <2>. QED
    BY <2>1, <2>2, <2>3, <2>4, <2>5, <2>6, <2>7, <2>8, <2>9, <2>10, <2>11, <2>12, <2>13, <2>14, <2>15, <2>16 DEF Waits
<1>2. SUFFICES LoopsOf(r)' /\ \A p \in Ranks \ {r} : SameReceives(p)
  BY <1>1, LoopsOfOne
<1>3. ASSUME Waits(r) \/ Publish(r) \/ InsertAddress(r) \/ Signal(r)
      PROVE  /\ \A p \in Ranks : SameReceives(p)
             /\ \A u \in Uses, q \in Peers(r) : stage'[r][Receive(u, q)] = stage[r][Receive(u, q)]
  <2>1. \A p \in Ranks : SameReceives(p)
    BY <1>3, StillSteps, StageStays
  <2>. QED
    BY <2>1 DEF SameReceives, Peers
<1>4. /\ LoopsOf(r) /\ N \in Nat /\ idx[r] \in Nat /\ r \in Nat
      /\ Peers(r) \subseteq Nat /\ \A q \in Peers(r) : q < N /\ ~(q < 0)
  BY RanksAreNats DEF Loops, TypeOK, Peers, Ranks
<1>. USE DEF LoopsOf, LoopOf, RecvAt, SendAt, WaitAt, Before, AfterKeys, SemaphoreSteps, Uses
<1>5. CASE BootFence(r)
  BY <1>3, <1>4, <1>5 DEF BootFence, Waits, Goto, TypeOK, config, Indexed
<1>6. CASE InsertRefused(r)
  BY <1>3, <1>4, <1>6 DEF InsertRefused, Waits, Goto, TypeOK, config, Indexed
<1>7. CASE BootDone(r)
  BY <1>3, <1>4, <1>7 DEF BootDone, Booted, Arrive, Waits, Goto, TypeOK, config, Indexed
<1>8. CASE TestFence(r)
  <2>1. idx[r] = 0 /\ pc[r] = "testFence" /\ program = "test"
    BY <1>8 DEF TestFence, Indexed, Published
  <2>2. pc'[r] = "keys" /\ UNCHANGED <<program, idx>>
    BY <1>8 DEF TestFence, Goto, TypeOK, config
  <2>. QED
    BY <1>3, <1>4, <1>8, <2>1, <2>2 DEF Waits
<1>9. CASE \E u \in Uses : AllPosted(r, u)
  <2>1. PICK v \in Uses : AllPosted(r, v)
    BY <1>9
  <2>2. pc[r] = RecvAt(v) /\ pc'[r] = WaitAt(v) /\ idx[r] = N /\ UNCHANGED program
    BY <2>1 DEF AllPosted, Goto, TypeOK, config
  <2>3. \A q \in Peers(r) : stage[r][Receive(v, q)] # "none"
    BY <1>4, <2>2
  <2>4. \A u \in Uses : u # v => (v = "key" /\ u = "sem") \/ (v = "sem" /\ u = "key")
    OBVIOUS
  <2>. QED
    BY <1>3, <1>4, <1>9, <2>2, <2>3, <2>4 DEF Waits
<1>10. CASE SemaphoreMade(r)
  <2>1. \A u \in Uses, q \in Peers(r) : stage[r][Receive(u, q)] \in Stages \ {"posted", "complete"}
    BY <1>10, OperationsDiffer DEF SemaphoreMade, AllCounted, TypeOK, Peers
  <2>2. pc[r] = "semWait" /\ pc'[r] = "keys" /\ idx'[r] = 0 /\ UNCHANGED program
    BY <1>10 DEF SemaphoreMade, Goto, TypeOK, config
  <2>3. \A q \in Peers(r) : stage[r][Receive("key", q)] = "none"
    BY <1>4, <2>2
  <2>4. \A q \in Peers(r) : stage[r][Receive("sem", q)] \in {"counted", "done"}
    BY <1>4, <2>1, <2>2 DEF Stages
  <2>. QED
    BY <1>3, <1>4, <1>10, <2>2, <2>3, <2>4 DEF Waits
<1>11. CASE KeysExchanged(r)
  <2>1. \A u \in Uses, q \in Peers(r) : stage[r][Receive(u, q)] \in Stages \ {"posted", "complete"}
    BY <1>11, OperationsDiffer DEF KeysExchanged, AllCounted, TypeOK, Peers
  <2>. QED
    BY <1>3, <1>4, <1>11, <2>1 DEF KeysExchanged, Arrive, Waits, Goto, TypeOK, config, Stages, Indexed
<1>12. CASE KeyFence(r)
  BY <1>3, <1>4, <1>12 DEF KeyFence, Waits, Goto, TypeOK, config, Indexed
<1>13. CASE SignalSelf(r)
  BY <1>3, <1>4, <1>13 DEF SignalSelf, Advance, Waits, Goto, TypeOK, config, Indexed
<1>14. CASE AllSignalled(r)
  BY <1>3, <1>4, <1>14 DEF AllSignalled, Waits, Goto, TypeOK, config, Indexed
<1>15. CASE SlotsSeen(r)
  BY <1>3, <1>4, <1>15 DEF SlotsSeen, Waits, Goto, TypeOK, config, Indexed
<1>16. CASE Join(r)
  BY <1>3, <1>4, <1>16 DEF Join, Waits, Goto, TypeOK, config, Indexed
<1>17. CASE Publish(r)
  BY <1>3, <1>4, <1>17 DEF Publish, Arrive, Waits, Goto, TypeOK, config, Indexed
<1>18. CASE InsertAddress(r)
  BY <1>3, <1>4, <1>18 DEF InsertAddress, Advance, Waits, Goto, TypeOK, config, Indexed
<1>19. CASE Signal(r)
  BY <1>3, <1>4, <1>19 DEF Signal, Advance, Waits, Goto, TypeOK, config, Indexed
<1>20. ASSUME NEW u \in Uses, PostRecv(r, u)
      PROVE  LoopsOf(r)' /\ \A p \in Ranks \ {r} : SameReceives(p)
  <2>1. /\ idx[r] \in Peers(r) /\ stage'[r][Receive(u, idx[r])] = "posted"
        /\ \A v \in Uses, q \in Ranks :
             v # u \/ q # idx[r] => stage'[r][Receive(v, q)] = stage[r][Receive(v, q)]
        /\ \A p \in Ranks \ {r} : SameReceives(p)
    BY <1>20, PostRecvStage
  <2>2. Peers(r) \subseteq Nat /\ Peers(r) \subseteq Ranks
    BY RanksAreNats DEF Peers
  <2>3. pc[r] = RecvAt(u) /\ pc'[r] = SendAt(u) /\ idx'[r] = idx[r] /\ program' = program
    BY <1>20 DEF PostRecv, Goto, TypeOK, config
  <2>. QED
    BY <1>4, <2>1, <2>2, <2>3
<1>21. ASSUME NEW u \in Uses, PostSend(r, u)
      PROVE  LoopsOf(r)' /\ \A p \in Ranks \ {r} : SameReceives(p)
  <2>1. \A p \in Ranks : SameReceives(p)
    BY <1>21, PostSendStage
  <2>2. Peers(r) \subseteq Nat /\ Peers(r) \subseteq Ranks
    BY RanksAreNats DEF Peers
  <2>3. pc[r] = SendAt(u) /\ pc'[r] = RecvAt(u) /\ idx'[r] = idx[r] + 1 /\ program' = program
    BY <1>21 DEF PostSend, Goto, Advance, TypeOK, config
  <2>4. \A v \in Uses, q \in Peers(r) : stage'[r][Receive(v, q)] = stage[r][Receive(v, q)]
    BY <2>1, <2>2 DEF SameReceives
  <2>5. \A q \in Peers(r) : q <= idx[r] <=> q < idx'[r]
    BY <1>4, <2>2, <2>3
  <2>. QED
    BY <1>4, <2>1, <2>3, <2>4, <2>5
<1>22. ASSUME NEW u \in Uses, SkipSelf(r, u)
      PROVE  LoopsOf(r)' /\ \A p \in Ranks \ {r} : SameReceives(p)
  <2>1. \A p \in Ranks : SameReceives(p)
    BY <1>22, StageStays DEF SkipSelf, msgVars
  <2>2. Peers(r) \subseteq Nat /\ Peers(r) \subseteq Ranks /\ r \notin Peers(r)
    BY RanksAreNats DEF Peers
  <2>3. pc[r] = RecvAt(u) /\ pc'[r] = pc[r] /\ idx[r] = r /\ idx'[r] = idx[r] + 1 /\ program' = program
    BY <1>22 DEF SkipSelf, Advance, TypeOK, config
  <2>. QED
    BY <1>4, <2>1, <2>2, <2>3 DEF SameReceives
<1>. QED
  BY <1>3, <1>5, <1>6, <1>7, <1>8, <1>9, <1>10, <1>11, <1>12, <1>13, <1>14, <1>15, <1>16, <1>17, <1>18, <1>19, <1>20, <1>21, <1>22 DEF Waits

LEMMA LoopsStep ==
  ASSUME TypeOK, Published, Indexed, Loops, Fenced, Mail, Callbacks, Next
  PROVE  Loops'
BY StepCases, LoopsMain, LoopsCompletion, LoopsDeliver

\* The key of a semaphore is the same for all that ask for it.
LEMMA SemaphoreKey ==
  ASSUME NEW r \in Ranks, NEW q \in Ranks
  PROVE  KeyFor("sem", q, r) = KeyFor("sem", q, q)
BY DEF KeyFor

\* A callback stores what its receive has got, and what was stored stays.
LEMMA SemaphoreKeysStep ==
  ASSUME TypeOK, Indexed, Loops, Mail, Boxes, Callbacks, SemaphoreKeys, Next
  PROVE  SemaphoreKeys'
<1>. USE DEF SemaphoreKeys
<1>. DEFINE Held(r, q) == /\ semKeys'[r][q] = semKeys[r][q]
                          /\ stage'[r][Receive("sem", q)] = "done" =>
                               stage[r][Receive("sem", q)] = "done"
<1>1. ASSUME \A r \in Ranks : \A q \in Peers(r) : Held(r, q)
      PROVE  SemaphoreKeys'
  <2>1. SUFFICES ASSUME NEW r \in Ranks, NEW q \in Peers(r)
                 PROVE  /\ semKeys'[r][q] \in {None, KeyFor("sem", q, q)}
                        /\ stage'[r][Receive("sem", q)] = "done" => semKeys'[r][q] = KeyFor("sem", q, q)
    OBVIOUS
  <2>2. Held(r, q)
    BY <1>1
  <2>. QED
    BY <2>2
<1>2. ASSUME UNCHANGED semKeys, \A r \in Ranks : SameReceives(r)
      PROVE  SemaphoreKeys'
  BY <1>1, <1>2 DEF SameReceives, Uses, Peers
<1>3. ASSUME NEW r \in Ranks, NEW u \in Uses, PostRecv(r, u)
      PROVE  SemaphoreKeys'
  <2>1. UNCHANGED semKeys
    BY <1>3 DEF PostRecv
  <2>2. ASSUME NEW p \in Ranks, NEW q \in Peers(p)
        PROVE  stage'[p][Receive("sem", q)] \in {stage[p][Receive("sem", q)], "posted"}
    <3>1. q \in Ranks /\ "sem" \in Uses
      BY DEF Peers, Uses
    <3>2. CASE p = r /\ u = "sem" /\ q = idx[r]
      BY <1>3, <3>2, PostRecvStage
    <3>3. CASE p # r \/ u # "sem" \/ q # idx[r]
      BY <1>3, <3>1, <3>3, PostRecvStage DEF SameReceives
    <3>. QED
      BY <3>2, <3>3
  <2>. QED
    BY <1>1, <2>1, <2>2
<1>4. ASSUME NEW r \in Ranks, NEW u \in Uses, PostSend(r, u)
      PROVE  SemaphoreKeys'
  BY <1>2, <1>4, PostSendStage DEF PostSend
<1>5. ASSUME NEW r \in Ranks, NEW u \in Uses, SkipSelf(r, u)
      PROVE  SemaphoreKeys'
  <2>1. \A p \in Ranks : SameReceives(p)
    BY <1>5, StageStays DEF SkipSelf, msgVars
  <2>2. \A p \in Ranks : \A q \in Peers(p) : semKeys'[p][q] = semKeys[p][q]
    BY <1>5 DEF SkipSelf, TypeOK, Peers
  <2>. QED
    BY <1>1, <2>1, <2>2 DEF SameReceives, Uses, Peers
<1>6. ASSUME NEW r \in Ranks, NEW o \in Op, Count(r, o) \/ Sent(r, o)
      PROVE  SemaphoreKeys'
  <2>1. UNCHANGED semKeys /\ \E s \in {"counted", "complete"} : SetStage(r, o, s)
    BY <1>6 DEF Count, Sent
  <2>2. \A p \in Ranks, x \in Op : stage'[p][x] = "done" => stage[p][x] = "done"
    BY <2>1, StageSet DEF Stages
  <2>3. \A q \in Ranks : Receive("sem", q) \in Op
    BY OperationsDiffer DEF Uses
  <2>. QED
    BY <1>1, <2>1, <2>2, <2>3 DEF Peers
<1>7. ASSUME NEW r \in Ranks, NEW o \in Op, Call(r, o)
      PROVE  SemaphoreKeys'
  <2>1. /\ SetStage(r, o, "done") /\ o \in running[r] /\ semKeys' = Stored(r, o)
        /\ o.kind \in {"send", "recv"}
    BY <1>7 DEF Call, Op
  <2>2. CASE o.kind = "send"
    BY <1>2, <2>1, <2>2, CompletionStage DEF Stored, Stages
  <2>3. CASE o.kind = "recv"
    <3>1. /\ o = Receive(o.use, o.peer) /\ o.use \in Uses /\ o.peer \in Ranks
          /\ \A p \in Ranks \ {r} : SameReceives(p)
          /\ \A v \in Uses, p \in Ranks :
               v # o.use \/ p # o.peer => stage'[r][Receive(v, p)] = stage[r][Receive(v, p)]
      BY <2>1, <2>3, CompletionStage DEF Stages
    <3>2. stage[r][o] = "counted"
      BY <2>1, <3>1 DEF Callbacks
    <3>3. ASSUME o.use = "key"
          PROVE  SemaphoreKeys'
      BY <1>1, <2>1, <3>1, <3>3 DEF Stored, SameReceives, Uses, Peers
    <3>4. ASSUME o.use = "sem"
          PROVE  SemaphoreKeys'
      <4>1. got[r]["sem"][o.peer] = KeyFor("sem", o.peer, o.peer)
        BY <3>1, <3>2, <3>4, SemaphoreKey DEF Boxes
      <4>2. /\ semKeys'[r][o.peer] = KeyFor("sem", o.peer, o.peer)
            /\ \A p \in Ranks, q \in Ranks :
                 p # r \/ q # o.peer => semKeys'[p][q] = semKeys[p][q]
        BY <2>1, <2>3, <3>1, <3>4, <4>1 DEF Stored, TypeOK
      <4>3. \A p \in Ranks, q \in Ranks :
              p # r \/ q # o.peer =>
                stage'[p][Receive("sem", q)] = stage[p][Receive("sem", q)]
        BY <3>1, <3>4 DEF SameReceives
      <4>4. SUFFICES ASSUME NEW p \in Ranks, NEW q \in Peers(p)
                     PROVE  /\ semKeys'[p][q] \in {None, KeyFor("sem", q, q)}
                            /\ stage'[p][Receive("sem", q)] = "done" =>
                                 semKeys'[p][q] = KeyFor("sem", q, q)
        OBVIOUS
      <4>5. q \in Ranks
        BY DEF Peers
      <4>6. CASE p = r /\ q = o.peer
        BY <4>2, <4>6
      <4>7. CASE p # r \/ q # o.peer
        BY <4>2, <4>3, <4>5, <4>7
      <4>. QED
        BY <4>6, <4>7
    <3>. QED
      BY <3>1, <3>3, <3>4 DEF Uses
  <2>. QED
    BY <2>1, <2>2, <2>3
<1>8. ASSUME NEW m \in wire, Deliver(m)
      PROVE  SemaphoreKeys'
  <2>1. UNCHANGED semKeys
    BY <1>8 DEF Deliver
  <2>2. PICK u \in Uses, q \in Peers(m.to) :
          /\ stage'[m.to][Receive(u, q)] = "complete"
          /\ \A v \in Uses, p \in Ranks :
               v # u \/ p # q => stage'[m.to][Receive(v, p)] = stage[m.to][Receive(v, p)]
    BY <1>8, DeliverStage
  <2>3. m.to \in Ranks /\ \A p \in Ranks \ {m.to} : SameReceives(p)
    BY <1>8, DeliverStage
  <2>4. \A p \in Ranks : \A x \in Peers(p) :
          stage'[p][Receive("sem", x)] = "done" => stage[p][Receive("sem", x)] = "done"
    BY <2>2, <2>3 DEF SameReceives, Uses, Peers
  <2>. QED
    BY <1>1, <2>1, <2>4
<1>. QED
  BY <1>2, <1>3, <1>4, <1>5, <1>6, <1>7, <1>8, StillSteps, StageStays, StepCases

\* A rank that signals has the addresses of its peers, and of each either the key
\* of its semaphore or none.
LEMMA LostStep ==
  ASSUME TypeOK, AddressBook, SemaphoreKeys, LostOnlyLate, Next
  PROVE  LostOnlyLate'
<1>1. ASSUME UNCHANGED <<lost, config>>
      PROVE  LostOnlyLate'
  BY <1>1 DEF LostOnlyLate, config
<1>2. ASSUME NEW r \in Ranks, Signal(r)
      PROVE  LostOnlyLate'
  <2>. DEFINE q == idx[r]
              new == [from |-> r, to |-> q, key |-> semKeys[r][q]]
  <2>1. q \in Peers(r) /\ q \in Ranks /\ pc[r] \notin BeforeBooted /\ UNCHANGED config
    BY <1>2 DEF Signal, Peers, BeforeBooted
  <2>2. CASE Hits(r, q)
    BY <1>1, <1>2, <2>1, <2>2 DEF Signal
  <2>3. CASE ~Hits(r, q)
    <3>1. lost' = lost \cup {new}
      BY <1>2, <2>3 DEF Signal
    <3>2. ASSUME semKeys[r][q] # None, ~(relative /\ offset[q] # 0)
          PROVE  FALSE
      <4>1. semKeys[r][q] = KeyFor("sem", q, q)
        BY <2>1, <3>2 DEF SemaphoreKeys
      <4>2. semKeys[r][q].use = "sem" /\ semKeys[r][q].owner = q
        BY <4>1 DEF KeyFor
      <4>3. Target(r, q) = q
        BY <2>1, TargetIsPeer
      <4>4. offset[q] \in Nat /\ r \in Nat /\ relative \in BOOLEAN
        BY <2>1, ExchangeAssumption, RanksAreNats DEF TypeOK
      <4>5. Reached(RemoteAddress(semKeys[r][q], r)) = SlotAddress(q, r)
        <5>1. CASE relative
          <6>1. offset[q] = 0
            BY <3>2, <5>1
          <6>. QED
            BY <4>4, <5>1, <6>1 DEF Reached, RemoteAddress, SlotAddress, SlotSize, SegmentStart
        <5>2. CASE ~relative
          BY <4>2, <5>2 DEF Reached, RemoteAddress, SlotAddress
        <5>. QED
          BY <5>1, <5>2
      <4>. QED
        BY <2>3, <3>2, <4>2, <4>3, <4>5 DEF Hits
    <3>3. new.key = None \/ (relative' /\ offset'[new.to] # 0)
      BY <2>1, <3>2 DEF config
    <3>4. \A l \in lost : l.key = None \/ (relative' /\ offset'[l.to] # 0)
      BY <2>1 DEF LostOnlyLate, config
    <3>. QED
      BY <3>1, <3>3, <3>4 DEF LostOnlyLate
  <2>. QED
    BY <2>2, <2>3
<1>3. UNCHANGED <<lost, config>> \/ \E r \in Ranks : Signal(r)
  BY StepCases DEF Waits, Publish, InsertAddress, PostRecv, PostSend, SkipSelf, Count, Call, Sent,
     Deliver, sigVars, BootFence, InsertRefused, BootDone, TestFence, AllPosted, SemaphoreMade,
     KeysExchanged, KeyFence, SignalSelf, AllSignalled, SlotsSeen, Join
<1>. QED
  BY <1>1, <1>2, <1>3
-----------------------------------------------------------------------------
(* The theorems.                                                           *)

LEMMA InvInit ==
  ASSUME Init
  PROVE  IInv
<1>1. TypeOK
  BY TypeInit
<1>2. Published /\ Filled /\ AddressBook /\ Fenced /\ Mail /\ Indexed /\ LostOnlyLate
  BY DEF Init, Published, Filled, AddressBook, Fenced, Mail, Indexed, LostOnlyLate, BeforeBooted,
     SemaphoreSteps
<1>3. \A r \in Ranks, u \in Uses, q \in Ranks : stage[r][Receive(u, q)] = "none"
  BY OperationsDiffer DEF Init
<1>4. Boxes /\ Callbacks /\ SemaphoreKeys
  BY <1>3 DEF Init, Boxes, Callbacks, SemaphoreKeys, Uses, Peers
<1>5. Loops
  BY <1>3 DEF Init, Loops, LoopsOf, LoopOf, RecvAt, SendAt, WaitAt, AfterKeys, SemaphoreSteps, Peers
<1>. QED
  BY <1>1, <1>2, <1>4, <1>5 DEF IInv

LEMMA InvStep ==
  ASSUME IInv, [Next]_vars
  PROVE  IInv'
<1>1. CASE UNCHANGED vars
  <2>1. TypeOK' /\ Published' /\ Filled' /\ AddressBook' /\ Fenced' /\ Mail'
    BY <1>1, TypeStep DEF IInv, vars, config, msgVars, sigVars, Published, Filled, AddressBook, Fenced, Mail
  <2>2. Boxes' /\ Indexed' /\ Callbacks' /\ SemaphoreKeys' /\ LostOnlyLate'
    BY <1>1 DEF IInv, vars, config, msgVars, sigVars, Boxes, Indexed, Callbacks, SemaphoreKeys, LostOnlyLate
  <2>3. Loops'
    BY <1>1, LoopsHold DEF IInv, vars, config, msgVars
  <2>. QED
    BY <2>1, <2>2, <2>3 DEF IInv
<1>2. CASE Next
  BY <1>2, TypeStep, PublishedStep, FilledStep, FencedStep, MailStep, BoxesStep, LoopsStep, IndexedStep,
     CallbacksStep, SemaphoreKeysStep, LostStep DEF IInv
<1>. QED
  BY <1>1, <1>2

\* The invariant holds of every execution.
THEOREM Invariance == Spec => []IInv
BY InvInit, InvStep, PTL DEF Spec

\* TypeOK: whatever a rank fetches and decodes is an address, and whatever its
\* buffers, its semaphore and the messages hold are keys.
THEOREM ExchangeTypeCorrect == Spec => []TypeOK
<1>1. IInv => TypeOK
  BY DEF IInv
<1>. QED
  BY <1>1, Invariance, PTL

\* AddressBook: behind boot_PMI the address vector of every rank holds the address
\* of each rank at its index, whatever bytes the addresses are.
THEOREM AddressesArrive == Spec => []AddressBook
<1>1. IInv => AddressBook
  BY DEF IInv
<1>. QED
  BY <1>1, Invariance, PTL

\* SenderKnown: the fence of the tests keeps every message from a rank that has
\* not inserted its sender.
THEOREM SendersAreKnown == Spec => []SenderKnown
<1>1. IInv => SenderKnown
  <2>1. SUFFICES ASSUME IInv, program = "test", NEW m \in wire
                 PROVE  av[m.to][m.from] = Address[m.from]
    BY DEF SenderKnown
  <2>2. m.from \in Ranks /\ m.to \in Ranks /\ pc[m.from] \in SemaphoreSteps
    BY <2>1 DEF IInv, TypeOK, Message, Mail
  <2>3. pc[m.to] \notin BeforeBooted
    BY <2>1, <2>2 DEF IInv, Fenced
  <2>. QED
    BY <2>1, <2>2, <2>3 DEF IInv, AddressBook
<1>. QED
  BY <1>1, Invariance, PTL

\* RightKeys: matching by tag gives each receive of exchange_rma_keys the key its
\* peer made for this rank, whatever of the semaphore's exchange is on its way.
THEOREM KeysAreRight == Spec => []RightKeys
<1>1. IInv => RightKeys
  <2>1. SUFFICES ASSUME IInv, NEW r \in Ranks, pc[r] \in AfterKeys, NEW p \in Peers(r)
                 PROVE  got[r]["key"][p] = KeyFor("key", p, r)
    BY DEF RightKeys, AfterKeys
  <2>2. p \in Ranks /\ "key" \in Uses
    BY DEF Peers, Uses
  <2>3. stage[r][Receive("key", p)] \in {"counted", "done"}
    BY <2>1, <2>2 DEF IInv, Loops, LoopsOf, LoopOf
  <2>. QED
    BY <2>1, <2>2, <2>3 DEF IInv, Boxes
<1>. QED
  BY <1>1, Invariance, PTL

\* KeysComeOrAreComing: the constructor of semaphore_info does not return before
\* the key of every peer is stored or a poll thread is about to store it.
THEOREM SemaphoreKeysCome == Spec => []KeysComeOrAreComing
<1>1. IInv => KeysComeOrAreComing
  <2>1. SUFFICES ASSUME IInv, NEW r \in Ranks, program = "signals", pc[r] \in SemaphoreSteps,
                        NEW p \in Peers(r)
                 PROVE  \/ semKeys[r][p] = KeyFor("sem", p, p)
                        \/ Receive("sem", p) \in running[r]
    BY DEF KeysComeOrAreComing, Receive
  <2>2. p \in Ranks /\ "sem" \in Uses
    BY DEF Peers, Uses
  <2>3. stage[r][Receive("sem", p)] \in {"counted", "done"}
    BY <2>1, <2>2 DEF IInv, Loops, LoopsOf, LoopOf
  <2>. QED
    BY <2>1, <2>2, <2>3 DEF IInv, Callbacks, SemaphoreKeys
<1>. QED
  BY <1>1, Invariance, PTL

\* LostOnlyLate: a signal misses its slot for two reasons only, a key that has not
\* been stored yet and a relative address of a semaphore that does not start its
\* segment.
THEOREM SignalsHit == Spec => []LostOnlyLate
<1>1. IInv => LostOnlyLate
  BY DEF IInv
<1>. QED
  BY <1>1, Invariance, PTL
=============================================================================
