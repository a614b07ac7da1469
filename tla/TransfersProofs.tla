-------------------------- MODULE TransfersProofs --------------------------
(***************************************************************************)
(* Proofs about Transfers, for any number of ranks, rounds and poll        *)
(* threads: the type invariant, what verify_buffer may refuse, and that no *)
(* memory is freed under a read or under a callback of the messages.       *)
(***************************************************************************)
EXTENDS Transfers, TLAPS

(***************************************************************************)
(* The inductive invariant.                                                *)
(***************************************************************************)

\* Where the main thread can be.
Loops ==
  \A r \in Ranks :
    /\ pc[r] = "send" => at[r] < N /\ program = "sendRecv"
    /\ pc[r] = "check" => program = "readGpu"
    /\ arrived[r] => program # "sendRecv" /\ pc[r] \notin {"post", "send", "wait", "check"}

\* A program that reads sends no messages, and the other way round.
Kinds ==
  \A r \in Ranks, o \in Op :
    stage[r][o] # "none" => (o.kind = "read" <=> program # "sendRecv")

\* A rank has read from all it has passed in this iteration.
Passed ==
  \A r \in Ranks : \A q \in Peers(r) :
    /\ program # "sendRecv"
    /\ (pc[r] = "post" /\ q < at[r]) \/ pc[r] \in {"wait", "check"}
    => stage[r][Operation("read", q, round[r])] # "none"

\* An operation that was begun belongs to a round before, or to what the loop
\* has passed of this.
Fresh ==
  \A r \in Ranks, o \in Op : stage[r][o] # "none" =>
    \/ o.round < round[r]
    \/ o.round = round[r] /\ o.peer < at[r]
    \/ o.round = round[r] /\ o.peer = at[r] /\ pc[r] = "send" /\ o.kind = "recv"

\* Behind its wait nothing of a rank is under way, wherever it gets to.
Counted ==
  \A r \in Ranks :
    arrived[r] \/ pc[r] \in {"check", "fence", "free", "join", "done"} => AllCounted(r)

\* Behind the fence all have arrived.
Fenced ==
  \A r \in Ranks :
    program # "sendRecv" /\ pc[r] \in {"free", "join", "done"} => \A q \in Ranks : arrived[q]

\* The callbacks that run are those of the operations counted and not done.
Callbacks ==
  /\ \A r \in Ranks, o \in Op : stage[r][o] = "counted" <=> o \in running[r]
  /\ \A r \in Ranks : program = "sendRecv" /\ pc[r] \in {"free", "done"} => running[r] = {}

\* What has completed has brought the right data.
Data ==
  \A r \in Ranks, o \in Op : stage[r][o] \in {"complete", "counted", "done"} =>
    /\ o.kind = "read" => copied[r][o.peer] = o.peer
    /\ o.kind = "recv" => received[r][o.round] = o.round

IInv ==
  TypeOK /\ Loops /\ Kinds /\ Passed /\ Fresh /\ Counted /\ Fenced /\ Callbacks /\ Data
    /\ OnlyFreedIsRefused
-----------------------------------------------------------------------------
(* Facts about the helpers.                                                *)

\* An operation has the fields it is made of.
LEMMA OperationFields ==
  ASSUME NEW k \in {"read", "send", "recv"}, NEW q \in Ranks, NEW n \in Times
  PROVE /\ Operation(k, q, n) \in Op
        /\ Operation(k, q, n).kind = k
        /\ Operation(k, q, n).peer = q
        /\ Operation(k, q, n).round = n
BY DEF Operation, Op

\* The next rank of a loop is one of the job, or their number.
LEMMA FromIsNext ==
  ASSUME NEW r \in Ranks, NEW q \in 0..N, q < N
  PROVE /\ From(r, q + 1) \in 0..N /\ q < From(r, q + 1)
        /\ \A p \in Peers(r) : p < From(r, q + 1) => p <= q
BY TransfersAssumption DEF From, Ranks, Peers

\* A loop begins behind no rank but the own.
LEMMA FromIsFirst ==
  ASSUME NEW r \in Ranks
  PROVE /\ From(r, 0) \in 0..N
        /\ \A p \in Peers(r) : ~(p < From(r, 0))
BY TransfersAssumption DEF From, Ranks, Peers

\* One operation of one rank changes its stage.
LEMMA StageMoves ==
  ASSUME TypeOK, NEW r \in Ranks, NEW o \in Op, NEW s \in Stages, SetStage(r, o, s)
  PROVE /\ stage' \in [Ranks -> [Op -> Stages]]
        /\ stage'[r][o] = s
        /\ \A q \in Ranks, p \in Op : q # r \/ p # o => stage'[q][p] = stage[q][p]
<1>. DEFINE row == [stage[r] EXCEPT ![o] = s]
<1>1. stage \in [Ranks -> [Op -> Stages]]  BY DEF TypeOK
<1>2. stage[r] \in [Op -> Stages]  BY <1>1
<1>3. /\ row \in [Op -> Stages] /\ row[o] = s
      /\ \A p \in Op : p # o => row[p] = stage[r][p]
  BY <1>2
<1>4. stage' = [stage EXCEPT ![r] = row]  BY DEF SetStage
<1>5. stage'[r] = row /\ \A q \in Ranks : q # r => stage'[q] = stage[q]  BY <1>1, <1>4
<1>. HIDE DEF row
<1>. QED  BY <1>1, <1>3, <1>4, <1>5

\* One main thread moves.
LEMMA MainMoves ==
  ASSUME TypeOK, NEW r \in Ranks, NEW s \in Steps, Goto(r, s)
  PROVE /\ pc' \in [Ranks -> Steps] /\ pc'[r] = s
        /\ \A q \in Ranks : q # r => pc'[q] = pc[q]
BY DEF TypeOK, Goto

\* A posted read keeps its target in the memory of a rank that has not freed it.
LEMMA PostedReadsAreSafe ==
  ASSUME IInv
  PROVE RemoteMemoryLives
<1>. SUFFICES ASSUME NEW r \in Ranks, NEW o \in Op,
                     o.kind = "read", stage[r][o] = "posted", Freed(o.peer)
              PROVE FALSE
  BY DEF RemoteMemoryLives
<1>1. program # "sendRecv"  BY DEF IInv, Kinds
<1>2. pc[o.peer] \in {"join", "done"} /\ o.peer \in Ranks  BY <1>1 DEF Freed, Op
<1>3. arrived[r]  BY <1>1, <1>2 DEF IInv, Fenced
<1>. QED  BY <1>3 DEF IInv, Counted, AllCounted

\* In the send/receive test no callback runs when the memory is freed.
LEMMA QuietWhenFreed ==
  ASSUME IInv
  PROVE CallbacksBeforeFree
<1>. SUFFICES ASSUME NEW r \in Ranks, program = "sendRecv", Freed(r)
              PROVE running[r] = {} /\ \A o \in Op : stage[r][o] \in {"none", "done"}
  BY DEF CallbacksBeforeFree
<1>1. pc[r] = "done"  BY DEF Freed
<1>2. running[r] = {}  BY <1>1 DEF IInv, Callbacks
<1>3. AllCounted(r)  BY <1>1 DEF IInv, Counted
<1>4. ASSUME NEW o \in Op PROVE stage[r][o] \in {"none", "done"}
  <2>1. stage[r][o] \in Stages  BY DEF IInv, TypeOK
  <2>2. stage[r][o] # "counted"  BY <1>2 DEF IInv, Callbacks
  <2>. QED  BY <1>3, <2>1, <2>2 DEF AllCounted, Stages
<1>. QED  BY <1>2, <1>4
-----------------------------------------------------------------------------
(* The initial states and the steps.                                       *)

\* The invariant holds at the start.
LEMMA InitHolds == Init => IInv
<1>. SUFFICES ASSUME Init PROVE IInv
  OBVIOUS
<1>1. Rounds \in Nat \ {0} /\ 0 \in Times
  BY TransfersAssumption DEF Times
<1>2. \A r \in Ranks : From(r, 0) \in 0..N
  BY FromIsFirst
<1>3. injects \in 0..Rounds
  BY <1>1 DEF Init
<1>4. TypeOK
  BY <1>1, <1>2, <1>3 DEF Init, TypeOK, Steps, Stages
<1>5. Loops /\ Kinds /\ Fresh /\ Counted /\ Fenced /\ OnlyFreedIsRefused
  BY DEF Init, Loops, Kinds, Fresh, Counted, Fenced, OnlyFreedIsRefused
<1>6. Passed
  <2>. SUFFICES ASSUME NEW r \in Ranks, NEW q \in Peers(r) PROVE ~(q < at[r])
    BY DEF Init, Passed
  <2>. QED  BY FromIsFirst DEF Init
<1>7. Callbacks /\ Data
  BY DEF Init, Callbacks, Data
<1>. QED  BY <1>4, <1>5, <1>6, <1>7 DEF IInv

\* A completion, a count or a callback moves one operation on and no thread.
LEMMA OperationMoves ==
  ASSUME IInv, NEW r \in Ranks, NEW o \in Op, NEW s \in {"complete", "counted", "done"},
         SetStage(r, o, s), UNCHANGED <<program, injects, pc, loopVars>>,
         \/ stage[r][o] \in {"posted", "complete"}
         \/ stage[r][o] = "counted" /\ s = "done"
  PROVE Loops' /\ Kinds' /\ Passed' /\ Fresh' /\ Counted' /\ Fenced'
<1>1. /\ stage'[r][o] = s
      /\ \A q \in Ranks, p \in Op : q # r \/ p # o => stage'[q][p] = stage[q][p]
  BY StageMoves DEF IInv, Stages
<1>2. Loops' /\ Fenced'
  BY DEF IInv, Loops, Fenced, loopVars
<1>3. Kinds' /\ Fresh'
  BY <1>1 DEF IInv, Kinds, Fresh, loopVars
<1>4. Passed'
  <2>1. \A q \in Ranks, p \in Op : stage[q][p] # "none" => stage'[q][p] # "none"
    BY <1>1
  <2>2. \A q \in Ranks : \A p \in Peers(q) : Operation("read", p, round[q]) \in Op
    BY OperationFields DEF IInv, TypeOK, Peers
  <2>. QED  BY <2>1, <2>2 DEF IInv, Passed, loopVars
<1>5. Counted'
  <2>1. \A q \in Ranks : AllCounted(q) => AllCounted(q)'
    BY <1>1 DEF AllCounted
  <2>. QED  BY <2>1 DEF IInv, Counted, loopVars
<1>. QED  BY <1>2, <1>3, <1>4, <1>5

\* A read that is served brings the data of its peer, whose memory is there.
LEMMA ServeKeeps ==
  ASSUME IInv, NEW r \in Ranks, NEW o \in Op, Serve(r, o)
  PROVE IInv'
<1>1. o.peer \in Ranks /\ o.kind = "read" /\ stage[r][o] = "posted"
  BY DEF Serve, Op
<1>2. ~Freed(o.peer)
  BY <1>1, PostedReadsAreSafe DEF RemoteMemoryLives
<1>3. copied' = [copied EXCEPT ![r][o.peer] = o.peer]
  BY <1>2 DEF Serve
<1>4. /\ stage' \in [Ranks -> [Op -> Stages]] /\ stage'[r][o] = "complete"
      /\ \A q \in Ranks, p \in Op : q # r \/ p # o => stage'[q][p] = stage[q][p]
  BY StageMoves DEF IInv, Serve, Stages
<1>5. Loops' /\ Kinds' /\ Passed' /\ Fresh' /\ Counted' /\ Fenced'
  BY <1>1, OperationMoves DEF Serve
<1>6. /\ copied' \in [Ranks -> [Ranks -> Ranks \cup {None}]]
      /\ copied'[r][o.peer] = o.peer
      /\ \A q \in Ranks, p \in Ranks : q # r \/ p # o.peer => copied'[q][p] = copied[q][p]
  BY <1>1, <1>3 DEF IInv, TypeOK
<1>7. TypeOK'
  BY <1>4, <1>6 DEF IInv, TypeOK, Serve, loopVars
<1>8. Callbacks'
  BY <1>1, <1>4 DEF IInv, Callbacks, Serve
<1>9. Data'
  <2>. SUFFICES ASSUME NEW q \in Ranks, NEW p \in Op,
                       stage'[q][p] \in {"complete", "counted", "done"}
                PROVE /\ p.kind = "read" => copied'[q][p.peer] = p.peer
                      /\ p.kind = "recv" => received'[q][p.round] = p.round
    BY DEF Data
  <2>1. p.peer \in Ranks  BY DEF Op
  <2>2. CASE q = r /\ p = o  BY <1>1, <1>6, <2>2
  <2>3. CASE q # r \/ p # o
    <3>1. /\ p.kind = "read" => copied[q][p.peer] = p.peer
          /\ p.kind = "recv" => received[q][p.round] = p.round
      BY <1>4, <2>3 DEF IInv, Data
    <3>2. received' = received  BY DEF Serve
    <3>. QED  BY <1>6, <2>1, <3>1, <3>2
  <2>. QED  BY <2>2, <2>3
<1>10. OnlyFreedIsRefused'
  BY DEF IInv, OnlyFreedIsRefused, Serve, loopVars
<1>. QED  BY <1>5, <1>7, <1>8, <1>9, <1>10 DEF IInv

\* A message brings the data of its round, since it met a receive of that tag.
LEMMA DeliverKeeps ==
  ASSUME IInv, NEW m \in wire, NEW o \in Op, Deliver(m, o)
  PROVE IInv'
<1>. DEFINE r == m.to
<1>1. r \in Ranks /\ m.round \in Times /\ o.round \in Times
  BY DEF IInv, TypeOK, Message, Op
<1>2. o.kind = "recv" /\ stage[r][o] = "posted" /\ o.round = m.round
  BY DEF Deliver, Tag
<1>3. SetStage(r, o, "complete")
  BY DEF Deliver
<1>4. received' = [received EXCEPT ![r][o.round] = o.round]
  BY <1>2 DEF Deliver
<1>5. /\ UNCHANGED <<program, injects, pc, loopVars, running, copied, refused>>
      /\ wire' \subseteq wire
  BY DEF Deliver
<1>. HIDE DEF r
<1>6. /\ stage' \in [Ranks -> [Op -> Stages]] /\ stage'[r][o] = "complete"
      /\ \A q \in Ranks, p \in Op : q # r \/ p # o => stage'[q][p] = stage[q][p]
  BY <1>1, <1>3, StageMoves DEF IInv, Stages
<1>7. Loops' /\ Kinds' /\ Passed' /\ Fresh' /\ Counted' /\ Fenced'
  BY <1>1, <1>2, <1>3, <1>5, OperationMoves
<1>8. /\ received' \in [Ranks -> [Times -> Times \cup {None}]]
      /\ received'[r][o.round] = o.round
      /\ \A q \in Ranks, k \in Times : q # r \/ k # o.round => received'[q][k] = received[q][k]
  BY <1>1, <1>4 DEF IInv, TypeOK
<1>9. TypeOK'
  BY <1>5, <1>6, <1>8 DEF IInv, TypeOK, loopVars
<1>10. Callbacks'
  BY <1>2, <1>5, <1>6 DEF IInv, Callbacks
<1>11. Data'
  <2>. SUFFICES ASSUME NEW q \in Ranks, NEW p \in Op,
                       stage'[q][p] \in {"complete", "counted", "done"}
                PROVE /\ p.kind = "read" => copied'[q][p.peer] = p.peer
                      /\ p.kind = "recv" => received'[q][p.round] = p.round
    BY DEF Data
  <2>1. p.round \in Times  BY DEF Op
  <2>2. CASE q = r /\ p = o  BY <1>2, <1>8, <2>2
  <2>3. CASE q # r \/ p # o
    <3>1. /\ p.kind = "read" => copied[q][p.peer] = p.peer
          /\ p.kind = "recv" => received[q][p.round] = p.round
      BY <1>6, <2>3 DEF IInv, Data
    <3>. QED  BY <1>5, <1>8, <2>1, <3>1
  <2>. QED  BY <2>2, <2>3
<1>12. OnlyFreedIsRefused'
  BY <1>5 DEF IInv, OnlyFreedIsRefused, loopVars
<1>. QED  BY <1>7, <1>9, <1>10, <1>11, <1>12 DEF IInv

\* A send that completes disturbs nothing.
LEMMA SentKeeps ==
  ASSUME IInv, NEW r \in Ranks, NEW o \in Op, Sent(r, o)
  PROVE IInv'
<1>1. o.kind = "send" /\ stage[r][o] = "posted"
  BY DEF Sent
<1>2. /\ stage' \in [Ranks -> [Op -> Stages]] /\ stage'[r][o] = "complete"
      /\ \A q \in Ranks, p \in Op : q # r \/ p # o => stage'[q][p] = stage[q][p]
  BY StageMoves DEF IInv, Sent, Stages
<1>3. Loops' /\ Kinds' /\ Passed' /\ Fresh' /\ Counted' /\ Fenced'
  BY <1>1, OperationMoves DEF Sent
<1>4. TypeOK'
  BY <1>2 DEF IInv, TypeOK, Sent, loopVars, dataVars
<1>5. Callbacks'
  BY <1>1, <1>2 DEF IInv, Callbacks, Sent
<1>6. Data'
  BY <1>1, <1>2 DEF IInv, Data, Sent, dataVars
<1>7. OnlyFreedIsRefused'
  BY DEF IInv, OnlyFreedIsRefused, Sent, loopVars
<1>. QED  BY <1>3, <1>4, <1>5, <1>6, <1>7 DEF IInv

\* A completion that is counted has its callback running.
LEMMA CountKeeps ==
  ASSUME IInv, NEW r \in Ranks, NEW o \in Op, Count(r, o)
  PROVE IInv'
<1>1. stage[r][o] = "complete" /\ Polls(r)
  BY DEF Count
<1>2. /\ stage' \in [Ranks -> [Op -> Stages]] /\ stage'[r][o] = "counted"
      /\ \A q \in Ranks, p \in Op : q # r \/ p # o => stage'[q][p] = stage[q][p]
  BY StageMoves DEF IInv, Count, Stages
<1>3. Loops' /\ Kinds' /\ Passed' /\ Fresh' /\ Counted' /\ Fenced'
  BY <1>1, OperationMoves DEF Count
<1>4. /\ running' \in [Ranks -> SUBSET Op]
      /\ running'[r] = running[r] \cup {o}
      /\ \A q \in Ranks : q # r => running'[q] = running[q]
  BY DEF IInv, TypeOK, Count
<1>5. TypeOK'
  BY <1>2, <1>4 DEF IInv, TypeOK, Count, loopVars, dataVars
<1>6. Callbacks'
  <2>1. \A q \in Ranks, p \in Op : stage'[q][p] = "counted" <=> p \in running'[q]
    BY <1>2, <1>4 DEF IInv, Callbacks
  <2>2. program = "sendRecv" => pc[r] \notin {"free", "done"}
    BY <1>1 DEF Polls
  <2>. QED  BY <1>4, <2>1, <2>2 DEF IInv, Callbacks, Count
<1>7. Data'
  BY <1>1, <1>2 DEF IInv, Data, Count, dataVars
<1>8. OnlyFreedIsRefused'
  BY DEF IInv, OnlyFreedIsRefused, Count, loopVars
<1>. QED  BY <1>3, <1>5, <1>6, <1>7, <1>8 DEF IInv

\* What a callback verifies, and what it finds.
LEMMA WhatACallbackSees ==
  ASSUME IInv, NEW r \in Ranks, NEW o \in running[r], Verified(o),
         NEW seen \in Contents(r, o) \ {Expected(o)}
  PROVE /\ program = "read" /\ o.kind = "read" /\ seen = None
        /\ \A q \in Ranks : arrived[q]
<1>1. o \in Op /\ stage[r][o] = "counted"
  BY DEF IInv, TypeOK, Callbacks
<1>2. /\ o.kind = "read" => copied[r][o.peer] = o.peer
      /\ o.kind = "recv" => received[r][o.round] = o.round
  BY <1>1 DEF IInv, Data
<1>3. o.kind # "recv"
  <2>. SUFFICES ASSUME o.kind = "recv" PROVE FALSE
    OBVIOUS
  <2>1. program = "sendRecv"
    BY <1>1 DEF IInv, Kinds
  <2>2. ~Freed(r)
    BY <2>1 DEF IInv, Callbacks, Freed
  <2>. QED  BY <1>2, <2>2 DEF Contents, Expected
<1>4. program = "read" /\ o.kind = "read"
  BY <1>3 DEF Verified
<1>5. seen = None /\ Freed(r)
  BY <1>2, <1>4 DEF Contents, Expected
<1>6. program # "sendRecv" /\ pc[r] \in {"free", "join", "done"}
  BY <1>4, <1>5 DEF Freed
<1>. QED  BY <1>4, <1>5, <1>6 DEF IInv, Fenced

\* A rank may refuse what the callback of a read found.
LEMMA RefuseKeeps ==
  ASSUME IInv, NEW r \in Ranks, NEW o \in Op, NEW seen \in Ranks \cup Times \cup {None},
         Refuse(r, o, seen), program = "read", o.kind = "read", seen = None,
         \A q \in Ranks : arrived[q],
         UNCHANGED <<program, injects, loopVars, stage, running, dataVars>>
  PROVE IInv'
<1>1. /\ pc' \in [Ranks -> Steps] /\ pc'[r] = "died"
      /\ \A q \in Ranks : q # r => pc'[q] = pc[q]
  BY MainMoves DEF IInv, Refuse, Steps
<1>2. refused' = refused \cup {[by |-> r, op |-> o, seen |-> seen]}
  BY DEF Refuse
<1>3. TypeOK'
  BY <1>1, <1>2 DEF IInv, TypeOK, loopVars, dataVars
<1>4. Loops' /\ Kinds' /\ Passed' /\ Fresh' /\ Fenced'
  BY <1>1 DEF IInv, Loops, Kinds, Passed, Fresh, Fenced, loopVars
<1>5. Counted'
  BY <1>1 DEF IInv, Counted, AllCounted, loopVars
<1>6. Callbacks' /\ Data'
  BY <1>1 DEF IInv, Callbacks, Data, dataVars
<1>7. OnlyFreedIsRefused'
  BY <1>2 DEF IInv, OnlyFreedIsRefused, loopVars
<1>. QED  BY <1>3, <1>4, <1>5, <1>6, <1>7 DEF IInv

\* A callback ends, or refuses what it found.
LEMMA CallKeeps ==
  ASSUME IInv, NEW r \in Ranks, NEW o \in Op, Call(r, o)
  PROVE IInv'
<1>1. o \in running[r] /\ stage[r][o] = "counted"
  BY DEF Call, IInv, Callbacks
<1>2. CASE /\ SetStage(r, o, "done")
           /\ running' = [running EXCEPT ![r] = @ \ {o}]
           /\ UNCHANGED <<pc, refused>>
  <2>1. UNCHANGED <<program, injects, pc, loopVars, dataVars, refused>>
    BY <1>2 DEF Call
  <2>2. /\ stage' \in [Ranks -> [Op -> Stages]] /\ stage'[r][o] = "done"
        /\ \A q \in Ranks, p \in Op : q # r \/ p # o => stage'[q][p] = stage[q][p]
    BY <1>2, StageMoves DEF IInv, Stages
  <2>3. Loops' /\ Kinds' /\ Passed' /\ Fresh' /\ Counted' /\ Fenced'
    BY <1>1, <1>2, <2>1, OperationMoves
  <2>4. /\ running' \in [Ranks -> SUBSET Op]
        /\ running'[r] = running[r] \ {o}
        /\ \A q \in Ranks : q # r => running'[q] = running[q]
    BY <1>2 DEF IInv, TypeOK
  <2>5. TypeOK'
    BY <2>1, <2>2, <2>4 DEF IInv, TypeOK, loopVars, dataVars
  <2>6. Callbacks'
    BY <2>1, <2>2, <2>4 DEF IInv, Callbacks
  <2>7. Data'
    BY <1>1, <2>1, <2>2 DEF IInv, Data, dataVars
  <2>8. OnlyFreedIsRefused'
    BY <2>1 DEF IInv, OnlyFreedIsRefused, loopVars
  <2>. QED  BY <2>3, <2>5, <2>6, <2>7, <2>8 DEF IInv
<1>3. CASE /\ Verified(o)
           /\ \E seen \in Contents(r, o) \ {Expected(o)} : Refuse(r, o, seen)
           /\ UNCHANGED <<stage, running>>
  <2>1. PICK seen \in Contents(r, o) \ {Expected(o)} : Refuse(r, o, seen)
    BY <1>3
  <2>2. /\ program = "read" /\ o.kind = "read" /\ seen = None
        /\ \A q \in Ranks : arrived[q]
    BY <1>1, <1>3, WhatACallbackSees
  <2>3. seen \in Ranks \cup Times \cup {None}
    BY <2>2 DEF Contents, IInv, TypeOK, Op
  <2>4. UNCHANGED <<program, injects, loopVars, stage, running, dataVars>>
    BY <1>3 DEF Call
  <2>. QED  BY <2>1, <2>2, <2>3, <2>4, RefuseKeeps
<1>. QED  BY <1>2, <1>3 DEF Call
-----------------------------------------------------------------------------
(* The steps of a main thread.                                             *)

\* A read is posted once for each rank and iteration.
LEMMA PostReadKeeps ==
  ASSUME IInv, NEW r \in Ranks, PostRead(r)
  PROVE IInv'
<1>. DEFINE o == Operation("read", at[r], round[r])
<1>1. at[r] \in 0..N /\ at[r] < N /\ round[r] \in Times /\ at[r] \in Ranks
  BY TransfersAssumption DEF IInv, TypeOK, PostRead, Ranks
<1>2. o \in Op /\ o.kind = "read" /\ o.peer = at[r] /\ o.round = round[r]
  BY <1>1, OperationFields
<1>3. SetStage(r, o, "posted")
  BY DEF PostRead
<1>4. at' = [at EXCEPT ![r] = From(r, at[r] + 1)]
  BY DEF PostRead, Advance
<1>5. /\ pc[r] = "post" /\ program # "sendRecv" /\ ~arrived[r]
      /\ UNCHANGED <<program, injects, pc, round, arrived, running, dataVars, refused>>
  BY DEF PostRead, IInv, Loops
<1>6. /\ stage' \in [Ranks -> [Op -> Stages]] /\ stage'[r][o] = "posted"
      /\ \A q \in Ranks, p \in Op : q # r \/ p # o => stage'[q][p] = stage[q][p]
  BY <1>2, <1>3, StageMoves DEF IInv, Stages
<1>7. /\ at' \in [Ranks -> 0..N] /\ at'[r] = From(r, at[r] + 1)
      /\ \A q \in Ranks : q # r => at'[q] = at[q]
  BY <1>1, <1>4, FromIsNext DEF IInv, TypeOK
<1>8. TypeOK'
  BY <1>5, <1>6, <1>7 DEF IInv, TypeOK, dataVars
<1>9. Passed'
  <2>. SUFFICES ASSUME NEW q \in Ranks, NEW p \in Peers(q), program # "sendRecv",
                       (pc[q] = "post" /\ p < at'[q]) \/ pc[q] \in {"wait", "check"}
                PROVE stage'[q][Operation("read", p, round[q])] # "none"
    BY <1>5 DEF Passed
  <2>1. p \in Ranks /\ round[q] \in Times /\ Operation("read", p, round[q]) \in Op
    BY OperationFields DEF Peers, IInv, TypeOK
  <2>2. CASE q = r /\ p = at[r]
    BY <1>6, <2>2
  <2>3. CASE q # r \/ p # at[r]
    <3>1. q # r \/ Operation("read", p, round[q]) # o
      BY <1>1, <2>1, <2>3, OperationFields
    <3>2. q = r => p < at[r]
      BY <1>1, <1>5, <1>7, <2>1, <2>3, FromIsNext DEF Ranks
    <3>3. stage[q][Operation("read", p, round[q])] # "none"
      BY <1>7, <3>2 DEF IInv, Passed
    <3>. QED  BY <1>6, <2>1, <3>1, <3>3
  <2>. QED  BY <2>2, <2>3
<1>. HIDE DEF o
<1>10. Loops' /\ Fenced'
  BY <1>5, <1>7 DEF IInv, Loops, Fenced
<1>11. Kinds' /\ Fresh'
  <2>1. o.round = round[r] /\ o.peer < at'[r]
    BY <1>1, <1>2, <1>7, FromIsNext
  <2>2. at[r] < at'[r]
    BY <1>1, <1>7, FromIsNext
  <2>3. ASSUME NEW q \in Ranks, NEW p \in Op, stage'[q][p] # "none"
        PROVE \/ p.round < round[q]
              \/ p.round = round[q] /\ p.peer < at'[q]
              \/ p.round = round[q] /\ p.peer = at'[q] /\ pc[q] = "send" /\ p.kind = "recv"
    <3>1. CASE q = r /\ p = o  BY <2>1, <3>1
    <3>2. CASE q = r /\ p # o
      <4>1. p.round < round[r] \/ (p.round = round[r] /\ p.peer < at[r])
        BY <1>5, <1>6, <2>3, <3>2 DEF IInv, Fresh
      <4>2. p.peer \in Nat /\ at[r] \in Nat /\ at'[r] \in Nat
        BY <1>1, <1>7 DEF Op, Ranks
      <4>. QED  BY <2>2, <3>2, <4>1, <4>2
    <3>3. CASE q # r  BY <1>6, <1>7, <2>3, <3>3 DEF IInv, Fresh
    <3>. QED  BY <3>1, <3>2, <3>3
  <2>4. Fresh'
    BY <1>5, <2>3 DEF Fresh
  <2>. QED  BY <1>2, <1>5, <1>6, <2>4 DEF IInv, Kinds
<1>12. Counted'
  BY <1>5, <1>6 DEF IInv, Counted, AllCounted
<1>13. Callbacks'
  <2>1. stage[r][o] = "none"
    BY <1>1, <1>2, <1>5 DEF IInv, Fresh, Ranks, Times
  <2>. QED  BY <1>2, <1>5, <1>6, <2>1 DEF IInv, Callbacks
<1>14. Data' /\ OnlyFreedIsRefused'
  BY <1>5, <1>6 DEF IInv, Data, OnlyFreedIsRefused, dataVars
<1>. QED  BY <1>8, <1>9, <1>10, <1>11, <1>12, <1>13, <1>14 DEF IInv

\* So is a receive.
LEMMA PostRecvKeeps ==
  ASSUME IInv, NEW r \in Ranks, PostRecv(r)
  PROVE IInv'
<1>. DEFINE o == Operation("recv", at[r], round[r])
<1>1. at[r] \in 0..N /\ at[r] < N /\ round[r] \in Times /\ at[r] \in Ranks
  BY TransfersAssumption DEF IInv, TypeOK, PostRecv, Ranks
<1>2. o \in Op /\ o.kind = "recv" /\ o.peer = at[r] /\ o.round = round[r]
  BY <1>1, OperationFields
<1>3. SetStage(r, o, "posted")
  BY DEF PostRecv
<1>4. /\ pc[r] = "post" /\ program = "sendRecv" /\ ~arrived[r]
      /\ Goto(r, "send")
      /\ UNCHANGED <<program, injects, round, at, arrived, running, dataVars, refused>>
  BY DEF PostRecv, loopVars, IInv, Loops
<1>. HIDE DEF o
<1>5. /\ stage' \in [Ranks -> [Op -> Stages]] /\ stage'[r][o] = "posted"
      /\ \A q \in Ranks, p \in Op : q # r \/ p # o => stage'[q][p] = stage[q][p]
  BY <1>2, <1>3, StageMoves DEF IInv, Stages
<1>6. /\ pc' \in [Ranks -> Steps] /\ pc'[r] = "send"
      /\ \A q \in Ranks : q # r => pc'[q] = pc[q]
  BY <1>4, MainMoves DEF IInv, Steps
<1>7. stage[r][o] = "none"
  BY <1>1, <1>2, <1>4 DEF IInv, Fresh, Ranks, Times
<1>8. TypeOK'
  BY <1>4, <1>5, <1>6 DEF IInv, TypeOK, dataVars
<1>9. Loops' /\ Passed' /\ Fenced'
  BY <1>1, <1>4, <1>6 DEF IInv, Loops, Passed, Fenced
<1>10. Kinds'
  BY <1>2, <1>4, <1>5 DEF IInv, Kinds
<1>11. Fresh'
  BY <1>2, <1>4, <1>5, <1>6 DEF IInv, Fresh
<1>12. Counted'
  BY <1>4, <1>5, <1>6 DEF IInv, Counted, AllCounted
<1>13. Callbacks'
  BY <1>2, <1>4, <1>5, <1>6, <1>7 DEF IInv, Callbacks
<1>14. Data' /\ OnlyFreedIsRefused'
  BY <1>4, <1>5 DEF IInv, Data, OnlyFreedIsRefused, dataVars
<1>. QED  BY <1>8, <1>9, <1>10, <1>11, <1>12, <1>13, <1>14 DEF IInv

\* So is a send.
LEMMA PostSendKeeps ==
  ASSUME IInv, NEW r \in Ranks, PostSend(r)
  PROVE IInv'
<1>. DEFINE o == Operation("send", at[r], round[r])
            s == IF round[r] < injects THEN "done" ELSE "posted"
            m == [from |-> r, to |-> at[r], round |-> round[r]]
<1>1. at[r] \in 0..N /\ at[r] < N /\ round[r] \in Times /\ at[r] \in Ranks
  BY TransfersAssumption DEF IInv, TypeOK, Loops, PostSend, Ranks
<1>2. o \in Op /\ o.kind = "send" /\ o.peer = at[r] /\ o.round = round[r]
  BY <1>1, OperationFields
<1>3. SetStage(r, o, s) /\ s \in {"done", "posted"}
  BY DEF PostSend
<1>4. /\ pc[r] = "send" /\ program = "sendRecv" /\ ~arrived[r]
      /\ Goto(r, "post")
      /\ at' = [at EXCEPT ![r] = From(r, at[r] + 1)]
      /\ UNCHANGED <<program, injects, round, arrived, running, copied, received, refused>>
  BY DEF PostSend, Advance, IInv, Loops
<1>5. wire' = wire \cup {m} /\ m \in Message
  BY <1>1 DEF PostSend, Message
<1>. HIDE DEF o, s, m
<1>6. /\ stage' \in [Ranks -> [Op -> Stages]] /\ stage'[r][o] = s
      /\ \A q \in Ranks, p \in Op : q # r \/ p # o => stage'[q][p] = stage[q][p]
  BY <1>2, <1>3, StageMoves DEF IInv, Stages
<1>7. /\ pc' \in [Ranks -> Steps] /\ pc'[r] = "post"
      /\ \A q \in Ranks : q # r => pc'[q] = pc[q]
  BY <1>4, MainMoves DEF IInv, Steps
<1>8. /\ at' \in [Ranks -> 0..N] /\ at'[r] = From(r, at[r] + 1) /\ at[r] < at'[r]
      /\ \A q \in Ranks : q # r => at'[q] = at[q]
  BY <1>1, <1>4, FromIsNext DEF IInv, TypeOK
<1>9. stage[r][o] = "none"
  BY <1>1, <1>2, <1>4 DEF IInv, Fresh, Ranks, Times
<1>10. TypeOK'
  BY <1>4, <1>5, <1>6, <1>7, <1>8 DEF IInv, TypeOK
<1>11. Loops' /\ Passed' /\ Fenced'
  BY <1>4, <1>7, <1>8 DEF IInv, Loops, Passed, Fenced
<1>12. Kinds'
  BY <1>2, <1>3, <1>4, <1>6 DEF IInv, Kinds
<1>13. Fresh'
  <2>. SUFFICES ASSUME NEW q \in Ranks, NEW p \in Op, stage'[q][p] # "none"
                PROVE \/ p.round < round[q]
                      \/ p.round = round[q] /\ p.peer < at'[q]
                      \/ /\ p.round = round[q] /\ p.peer = at'[q]
                         /\ pc'[q] = "send" /\ p.kind = "recv"
    BY <1>4 DEF Fresh
  <2>1. CASE q = r /\ p = o  BY <1>2, <1>8, <2>1
  <2>2. CASE q = r /\ p # o
    <3>1. p.round < round[r] \/ (p.round = round[r] /\ p.peer <= at[r])
      <4>1. p.peer \in Nat  BY DEF Op, Ranks
      <4>. QED  BY <1>1, <1>6, <2>2, <4>1 DEF IInv, Fresh
    <3>2. p.peer \in Nat /\ at[r] \in Nat /\ at'[r] \in Nat
      BY <1>1, <1>8 DEF Op, Ranks
    <3>. QED  BY <1>8, <2>2, <3>1, <3>2
  <2>3. CASE q # r  BY <1>6, <1>7, <1>8, <2>3 DEF IInv, Fresh
  <2>. QED  BY <2>1, <2>2, <2>3
<1>14. Counted'
  BY <1>4, <1>6, <1>7 DEF IInv, Counted, AllCounted
<1>15. Callbacks'
  <2>1. ASSUME NEW q \in Ranks, NEW p \in Op
        PROVE stage'[q][p] = "counted" <=> p \in running[q]
    <3>1. CASE q = r /\ p = o
      <4>1. stage'[q][p] # "counted"  BY <1>3, <1>6, <3>1
      <4>2. p \notin running[q]  BY <1>9, <3>1 DEF IInv, Callbacks
      <4>. QED  BY <4>1, <4>2
    <3>2. CASE q # r \/ p # o  BY <1>6, <3>2 DEF IInv, Callbacks
    <3>. QED  BY <3>1, <3>2
  <2>. QED  BY <1>4, <1>7, <2>1 DEF IInv, Callbacks
<1>16. Data' /\ OnlyFreedIsRefused'
  BY <1>2, <1>4, <1>6 DEF IInv, Data, OnlyFreedIsRefused
<1>. QED  BY <1>10, <1>11, <1>12, <1>13, <1>14, <1>15, <1>16 DEF IInv

\* A main thread that goes on to something else, in the same iteration.
LEMMA StepKeeps ==
  ASSUME IInv, NEW r \in Ranks, NEW s \in {"wait", "check", "free", "join", "done"}, Goto(r, s),
         UNCHANGED <<program, injects, loopVars, stage, running, dataVars, refused>>,
         pc[r] # "send",
         s = "wait" => program # "sendRecv" /\ pc[r] = "post" /\ at[r] = N,
         s = "check" => program = "readGpu" /\ pc[r] = "wait",
         s # "wait" => AllCounted(r),
         s \in {"free", "join", "done"} /\ program # "sendRecv" => \A q \in Ranks : arrived[q],
         s \in {"free", "done"} /\ program = "sendRecv" => running[r] = {}
  PROVE IInv'
<1>1. /\ pc' \in [Ranks -> Steps] /\ pc'[r] = s
      /\ \A q \in Ranks : q # r => pc'[q] = pc[q]
  BY MainMoves DEF IInv, Steps
<1>2. TypeOK'
  BY <1>1 DEF IInv, TypeOK, loopVars, dataVars
<1>3. Loops'
  BY <1>1 DEF IInv, Loops, loopVars
<1>4. Passed'
  <2>1. s = "wait" => \A q \in Peers(r) : q < at[r]
    BY TransfersAssumption DEF Peers, Ranks
  <2>. QED  BY <1>1, <2>1 DEF IInv, Passed, loopVars
<1>5. Kinds' /\ Fenced'
  BY <1>1 DEF IInv, Kinds, Fenced, loopVars
<1>6. Fresh'
  BY <1>1 DEF IInv, Fresh, loopVars
<1>7. Counted'
  BY <1>1 DEF IInv, Counted, AllCounted, loopVars
<1>8. Callbacks'
  BY <1>1 DEF IInv, Callbacks
<1>9. Data' /\ OnlyFreedIsRefused'
  BY DEF IInv, Data, OnlyFreedIsRefused, loopVars, dataVars
<1>. QED  BY <1>2, <1>3, <1>4, <1>5, <1>6, <1>7, <1>8, <1>9 DEF IInv

\* A main thread that begins the next iteration, or leaves the last.
LEMMA NextRoundKeeps ==
  ASSUME IInv, NEW r \in Ranks, NEW step \in {"wait", "fence"}, NextRound(r, step),
         UNCHANGED <<program, injects, stage, running, dataVars, refused>>,
         pc[r] \in {"post", "wait", "check"},
         step = "wait" => program = "sendRecv",
         step = "fence" => program # "sendRecv" /\ AllCounted(r)
  PROVE IInv'
<1>1. ~arrived[r] /\ round[r] \in Times
  BY DEF IInv, TypeOK, Loops
<1>2. refused = {}
  BY <1>1 DEF IInv, OnlyFreedIsRefused
<1>3. CASE /\ ~IsLast(round[r])
           /\ round' = [round EXCEPT ![r] = @ + 1]
           /\ at' = [at EXCEPT ![r] = From(r, 0)]
           /\ Goto(r, "post")
           /\ UNCHANGED arrived
  <2>1. /\ pc' \in [Ranks -> Steps] /\ pc'[r] = "post"
        /\ \A q \in Ranks : q # r => pc'[q] = pc[q]
    BY <1>3, MainMoves DEF IInv, Steps
  <2>2. round[r] + 1 \in Times
    BY <1>1, <1>3, TransfersAssumption DEF IsLast, Times
  <2>3. /\ round' \in [Ranks -> Times] /\ round'[r] = round[r] + 1
        /\ \A q \in Ranks : q # r => round'[q] = round[q]
    BY <1>3, <2>2 DEF IInv, TypeOK
  <2>4. /\ at' \in [Ranks -> 0..N] /\ at'[r] = From(r, 0)
        /\ \A q \in Ranks : q # r => at'[q] = at[q]
    BY <1>3, FromIsFirst DEF IInv, TypeOK
  <2>5. TypeOK'
    BY <1>3, <2>1, <2>3, <2>4 DEF IInv, TypeOK, dataVars
  <2>6. Loops' /\ Kinds' /\ Fenced'
    BY <1>1, <1>3, <2>1, <2>4 DEF IInv, Loops, Kinds, Fenced
  <2>7. Passed'
    <3>1. \A q \in Peers(r) : ~(q < at'[r])
      BY <2>4, FromIsFirst
    <3>. QED  BY <2>1, <2>3, <2>4, <3>1 DEF IInv, Passed
  <2>8. Fresh'
    <3>. SUFFICES ASSUME NEW q \in Ranks, NEW p \in Op, stage[q][p] # "none"
                  PROVE \/ p.round < round'[q]
                        \/ p.round = round'[q] /\ p.peer < at'[q]
                        \/ /\ p.round = round'[q] /\ p.peer = at'[q]
                           /\ pc'[q] = "send" /\ p.kind = "recv"
      BY DEF Fresh
    <3>1. CASE q = r
      <4>1. p.round <= round[r] /\ p.round \in Nat /\ round[r] \in Nat
        <5>1. p.round \in Nat /\ round[r] \in Nat
          BY <1>1, TransfersAssumption DEF Op, Times
        <5>2. p.round < round[r] \/ p.round = round[r]
          BY <3>1 DEF IInv, Fresh
        <5>. QED  BY <5>1, <5>2
      <4>. QED  BY <2>3, <3>1, <4>1
    <3>2. CASE q # r  BY <2>1, <2>3, <2>4, <3>2 DEF IInv, Fresh
    <3>. QED  BY <3>1, <3>2
  <2>9. Counted' /\ Callbacks' /\ Data' /\ OnlyFreedIsRefused'
    BY <1>1, <1>3, <2>1
    DEF IInv, Counted, AllCounted, Callbacks, Data, OnlyFreedIsRefused, dataVars
  <2>. QED  BY <2>5, <2>6, <2>7, <2>8, <2>9 DEF IInv
<1>4. CASE /\ arrived' = [arrived EXCEPT ![r] = step = "fence"]
           /\ Goto(r, step)
           /\ UNCHANGED <<round, at>>
  <2>1. /\ pc' \in [Ranks -> Steps] /\ pc'[r] = step
        /\ \A q \in Ranks : q # r => pc'[q] = pc[q]
    BY <1>4, MainMoves DEF IInv, Steps
  <2>2. /\ arrived' \in [Ranks -> BOOLEAN] /\ arrived'[r] = (step = "fence")
        /\ \A q \in Ranks : q # r => arrived'[q] = arrived[q]
    BY <1>4 DEF IInv, TypeOK
  <2>3. TypeOK'
    BY <1>4, <2>1, <2>2 DEF IInv, TypeOK, dataVars
  <2>4. Loops' /\ Kinds' /\ Passed'
    <3>1. CASE step = "wait"
      <4>1. ~arrived'[r]  BY <2>2, <3>1
      <4>. QED  BY <1>4, <2>1, <2>2, <3>1, <4>1 DEF IInv, Loops, Kinds, Passed
    <3>2. CASE step = "fence"
      BY <1>4, <2>1, <2>2, <3>2 DEF IInv, Loops, Kinds, Passed
    <3>. QED  BY <3>1, <3>2
  <2>5. Fresh'
    BY <1>4, <2>1 DEF IInv, Fresh
  <2>6. Fenced'
    <3>1. \A q \in Ranks : program # "sendRecv" /\ arrived[q] => arrived'[q]
      BY <1>1, <2>2
    <3>. QED  BY <2>1, <3>1 DEF IInv, Fenced
  <2>7. Counted'
    <3>1. CASE step = "wait"
      <4>1. ~arrived'[r]  BY <2>2, <3>1
      <4>. QED  BY <2>1, <2>2, <3>1, <4>1 DEF IInv, Counted, AllCounted
    <3>2. CASE step = "fence"
      BY <2>1, <2>2, <3>2 DEF IInv, Counted, AllCounted
    <3>. QED  BY <3>1, <3>2
  <2>8. Callbacks' /\ Data' /\ OnlyFreedIsRefused'
    BY <1>2, <2>1 DEF IInv, Callbacks, Data, OnlyFreedIsRefused, dataVars
  <2>. QED  BY <2>3, <2>4, <2>5, <2>6, <2>7, <2>8 DEF IInv
<1>. QED  BY <1>3, <1>4 DEF NextRound

\* With --gpu the buffers hold what the peers have, each time they are checked.
LEMMA TheCheckPasses ==
  ASSUME IInv, NEW r \in Ranks, pc[r] = "check"
  PROVE \A q \in Peers(r) : copied[r][q] = q
<1>. SUFFICES ASSUME NEW q \in Peers(r) PROVE copied[r][q] = q
  OBVIOUS
<1>. DEFINE o == Operation("read", q, round[r])
<1>1. o \in Op /\ o.kind = "read" /\ o.peer = q
  BY OperationFields DEF Peers, IInv, TypeOK
<1>2. program # "sendRecv"
  BY DEF IInv, Loops
<1>3. stage[r][o] # "none" /\ stage[r][o] \notin {"posted", "complete"}
  BY <1>1, <1>2 DEF IInv, Passed, Counted, AllCounted
<1>4. stage[r][o] \in Stages
  BY <1>1 DEF IInv, TypeOK
<1>. HIDE DEF o
<1>. QED  BY <1>1, <1>3, <1>4 DEF IInv, Data, Stages

\* Every step of a main thread keeps the invariant.
LEMMA MainKeeps ==
  ASSUME IInv, NEW r \in Ranks, Main(r)
  PROVE IInv'
<1>1. CASE PostRead(r) \/ PostRecv(r) \/ PostSend(r)
  BY <1>1, PostReadKeeps, PostRecvKeeps, PostSendKeeps
<1>2. CASE AllPosted(r)
  <2>1. CASE program = "sendRecv" /\ NextRound(r, "wait")
    BY <1>2, <2>1, NextRoundKeeps DEF AllPosted
  <2>2. CASE program # "sendRecv" /\ Goto(r, "wait") /\ UNCHANGED loopVars
    BY <1>2, <2>2, StepKeeps DEF AllPosted
  <2>. QED  BY <1>2, <2>1, <2>2 DEF AllPosted
<1>3. CASE Waited(r)
  <2>1. CASE program = "sendRecv" /\ Goto(r, "join") /\ UNCHANGED loopVars
    BY <1>3, <2>1, StepKeeps DEF Waited
  <2>2. CASE program = "readGpu" /\ Goto(r, "check") /\ UNCHANGED loopVars
    BY <1>3, <2>2, StepKeeps DEF Waited
  <2>3. CASE program = "read" /\ NextRound(r, "fence")
    BY <1>3, <2>3, NextRoundKeeps DEF Waited
  <2>. QED  BY <1>3, <2>1, <2>2, <2>3 DEF Waited
<1>4. CASE Check(r)
  <2>1. pc[r] = "check" /\ program # "sendRecv" /\ AllCounted(r)
    BY <1>4 DEF Check, IInv, Loops, Counted
  <2>2. NextRound(r, "fence") /\ UNCHANGED refused
    BY <1>4, <2>1, TheCheckPasses DEF Check
  <2>. QED  BY <1>4, <2>1, <2>2, NextRoundKeeps DEF Check
<1>5. CASE Fence(r)
  <2>1. AllCounted(r)
    BY <1>5 DEF Fence, FenceOpen, IInv, Counted
  <2>2. program = "sendRecv" => running[r] = {}
    <3>1. arrived[r] /\ pc[r] = "fence"  BY <1>5 DEF Fence, FenceOpen
    <3>. QED  BY <3>1 DEF IInv, Loops
  <2>. QED  BY <1>5, <2>1, <2>2, StepKeeps DEF Fence, FenceOpen
<1>6. CASE Free(r)
  <2>1. AllCounted(r) /\ pc[r] = "free"
    BY <1>6 DEF Free, IInv, Counted
  <2>2. program # "sendRecv" => \A q \in Ranks : arrived[q]
    BY <2>1 DEF IInv, Fenced
  <2>3. program = "sendRecv" => running[r] = {}
    BY <2>1 DEF IInv, Callbacks
  <2>4. CASE program = "sendRecv"
    BY <1>6, <2>1, <2>3, <2>4, StepKeeps DEF Free
  <2>5. CASE program # "sendRecv"
    BY <1>6, <2>1, <2>2, <2>5, StepKeeps DEF Free
  <2>. QED  BY <2>4, <2>5
<1>7. CASE Join(r)
  <2>1. AllCounted(r) /\ pc[r] = "join" /\ running[r] = {}
    BY <1>7 DEF Join, Joined, IInv, Counted
  <2>2. program # "sendRecv" => \A q \in Ranks : arrived[q]
    BY <2>1 DEF IInv, Fenced
  <2>4. CASE program = "sendRecv"
    BY <1>7, <2>1, <2>4, StepKeeps DEF Join
  <2>5. CASE program # "sendRecv"
    BY <1>7, <2>1, <2>2, <2>5, StepKeeps DEF Join
  <2>. QED  BY <2>4, <2>5
<1>. QED  BY <1>1, <1>2, <1>3, <1>4, <1>5, <1>6, <1>7 DEF Main

\* Every step of the job does.
LEMMA NextKeeps == IInv /\ [Next]_vars => IInv'
<1>. SUFFICES ASSUME IInv, [Next]_vars PROVE IInv'
  OBVIOUS
<1>1. CASE Provider
  <2>1. CASE \E r \in Ranks, o \in Op : Serve(r, o) \/ Sent(r, o)
    BY <2>1, ServeKeeps, SentKeeps
  <2>2. CASE \E m \in wire, o \in Op : Deliver(m, o)
    BY <2>2, DeliverKeeps
  <2>. QED  BY <1>1, <2>1, <2>2 DEF Provider
<1>2. ASSUME NEW r \in Ranks, Main(r) PROVE IInv'
  BY <1>2, MainKeeps
<1>3. ASSUME NEW r \in Ranks, Poll(r) PROVE IInv'
  BY <1>3, CountKeeps, CallKeeps DEF Poll
<1>4. CASE UNCHANGED vars
  BY <1>4 DEF vars, loopVars, dataVars, IInv, TypeOK, Loops, Kinds, Passed, Fresh, Counted,
     AllCounted, Fenced, Callbacks, Data, OnlyFreedIsRefused
<1>. QED  BY <1>1, <1>2, <1>3, <1>4 DEF Next
-----------------------------------------------------------------------------
(* The theorems.                                                           *)

\* The variables have their types, in every program.
THEOREM TransfersTypeCorrect == Spec => []TypeOK
<1>1. IInv => TypeOK  BY DEF IInv
<1>. QED  BY <1>1, InitHolds, NextKeeps, PTL DEF Spec

\* verify_buffer never refuses what a peer has sent or holds, nor does the main
\* thread's check: all it may refuse is what a late callback of the read test
\* finds in memory of its own rank, freed when every rank has done all its reads.
THEOREM RightDataIsNeverRefused == Spec => []OnlyFreedIsRefused
<1>1. IInv => OnlyFreedIsRefused  BY DEF IInv
<1>. QED  BY <1>1, InitHolds, NextKeeps, PTL DEF Spec

\* No rank frees memory that a peer has still to read.
THEOREM ReadsFindTheirMemory == Spec => []RemoteMemoryLives
<1>. QED  BY InitHolds, NextKeeps, PostedReadsAreSafe, PTL DEF Spec

\* The buffers of the messages outlive the callbacks that verify them.
THEOREM BuffersOutliveCallbacks == Spec => []CallbacksBeforeFree
<1>. QED  BY InitHolds, NextKeeps, QuietWhenFreed, PTL DEF Spec
============================================================================
