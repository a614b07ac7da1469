------------------------- MODULE WriteRoundsProofs -------------------------
(***************************************************************************)
(* What a rank verifies belongs to its round, and a check of the tests     *)
(* fails only if some write came too early, for any number of ranks and    *)
(* rounds, in both tests, with and without delivery-complete.  The         *)
(* argument for the first: the fences keep the ranks within a round of     *)
(* each other, so no write of a later round is on its way to a rank that   *)
(* has not left its own; and a rank leaves a round only when it has seen   *)
(* the data of all peers, so no write of an earlier round is still on its  *)
(* way.  For the second: as long as no write is missed the callback counts *)
(* every sender of its round once, so that a rank leaves its wait for the  *)
(* events with all of them compared and none of its callbacks running.     *)
(***************************************************************************)
EXTENDS WriteRounds, FiniteSetTheorems, TLAPS

\* The fences of k rounds.
Fences(k) == IF protocol = "writedata" THEN 2 * k ELSE k

\* The number of fences a rank has come to follows from where it is.
FenceCount(r) ==
  /\ pc[r] \in {"install", "clear", "post", "writes", "events"} => arrived[r] = Fences(it[r] - 1)
  /\ pc[r] = "fence1" => arrived[r] = Fences(it[r] - 1) + 1
  /\ pc[r] \in {"visible", "verify"} => arrived[r] = Fences(it[r]) - 1
  /\ pc[r] \in {"fence2", "uninstall", "done"} => arrived[r] = Fences(it[r])
  /\ pc[r] = "failed" => arrived[r] \in Fences(it[r] - 1)..Fences(it[r])
  /\ pc[r] \in {"install", "events", "fence1", "uninstall"} => protocol = "writedata"

\* Nobody is past a fence that somebody has not come to.
Together(r) ==
  /\ \A p \in Ranks : arrived[p] >= Fences(it[r] - 1)
  /\ pc[r] = "uninstall" => \A p \in Ranks : arrived[p] >= Fences(it[r])

\* The loops over the peers begin with all of them.
LoopInv(r) ==
  /\ left[r] \subseteq Peers(r)
  /\ pc[r] \notin {"clear", "post", "failed"} => left[r] = Peers(r)

Cleared(r, p) ==
  \/ pc[r] \in {"post", "writes", "events", "fence1", "visible", "verify"}
  \/ pc[r] = "clear" /\ p \notin left[r]

\* A buffer holds what was placed in it, once cleared only of this round.
BufferInv(r) ==
  \A p \in Peers(r) :
    /\ Cleared(r, p) => buffer[r][p] \in {0, it[r]}
    /\ buffer[r][p] # 0 => [from |-> p, to |-> r, round |-> buffer[r][p]] \in placed

\* A rank that verified a round has received all of it.
ReceivedInv(r) ==
  pc[r] \in {"fence2", "uninstall"} =>
    \A p \in Peers(r) : [from |-> p, to |-> r, round |-> it[r]] \in placed

WriteInv(w) ==
  /\ w.round <= it[w.from]
  /\ w.round < it[w.to] => w \in placed

RoundInv ==
  /\ \A r \in Ranks : /\ FenceCount(r) /\ Together(r) /\ LoopInv(r)
                      /\ BufferInv(r) /\ ReceivedInv(r)
  /\ \A w \in posted : WriteInv(w)

RIInv == TypeOK /\ RoundInv
-----------------------------------------------------------------------------
(* Types.                                                                  *)

\* The variables have their types at the start.
LEMMA TypeInit == Init => TypeOK
<1> SUFFICES ASSUME Init PROVE TypeOK
  OBVIOUS
<1>1. 1 \in 1..Rounds /\ 0 \in 0..Rounds /\ 0 \in 0..(2 * Rounds)
  BY WriteRoundsAssumption
<1>2. Start \in Steps
  BY DEF Start, Steps
<1> QED
  BY <1>1, <1>2 DEF Init, TypeOK, Peers

\* A write between two ranks in a round of the test is a write.
LEMMA WriteMade ==
  ASSUME NEW r \in Ranks, NEW p \in Peers(r), NEW k \in 1..Rounds
  PROVE  /\ [from |-> r, to |-> p, round |-> k] \in Write
         /\ [from |-> p, to |-> r, round |-> k] \in Write
  BY DEF Write, Peers

\* The fields of a write.
LEMMA WriteFields ==
  ASSUME NEW w \in Write
  PROVE  /\ w.from \in Ranks /\ w.to \in Ranks /\ w.from # w.to /\ w.round \in 1..Rounds
         /\ w.from \in Peers(w.to)
         /\ w = [from |-> w.from, to |-> w.to, round |-> w.round]
  BY DEF Write, Peers

\* Arithmetic of the fences: they grow with the rounds, at most two in each.
LEMMA FenceFacts ==
  ASSUME TypeOK, NEW j \in Nat, NEW k \in Nat
  PROVE  /\ Fences(k) \in Nat
         /\ j < k => Fences(j) <= Fences(k - 1) /\ Fences(j) < Fences(k)
         /\ j <= k => Fences(j) <= Fences(k)
         /\ Fences(k + 1) <= Fences(k) + 2
         /\ Fences(k + 1) > Fences(k)
         /\ k <= Rounds => Fences(k) <= 2 * Rounds
  BY WriteRoundsAssumption DEF Fences

\* Every step of a main thread keeps the types.
LEMMA TypeMain ==
  ASSUME RIInv, NEW r \in Ranks, Main(r) PROVE TypeOK'
<1> USE DEF TypeOK, mainVars, netVars, eventVars, Goto, Steps
<1>1. TypeOK /\ FenceCount(r)
  BY DEF RIInv, RoundInv
<1>2. Start \in Steps
  BY DEF Start
<1>3. CASE Install(r)
  BY <1>1, <1>3 DEF Install
<1>4. ASSUME NEW p \in Peers(r), NEW x \in Steps, NEW y \in Steps, Advance(r, p, x, y)
      PROVE  pc' \in [Ranks -> Steps] /\ left' \in [Ranks -> SUBSET Ranks]
  BY <1>1, <1>4 DEF Advance, Peers
<1>5. CASE Clear(r)
  <2>1. PICK p \in Peers(r) :
          /\ buffer' = [buffer EXCEPT ![r][p] = 0]
          /\ missed' = missed \cup {w \in placed : w.to = r /\ w.from = p /\ w.round = it[r]}
          /\ Advance(r, p, "clear", "post")
    BY <1>5 DEF Clear
  <2>2. pc' \in [Ranks -> Steps] /\ left' \in [Ranks -> SUBSET Ranks]
    BY <1>4, <2>1
  <2>3. buffer' \in [Ranks -> [Ranks -> 0..Rounds]]
    BY <1>1, <2>1, WriteRoundsAssumption DEF Peers
  <2> QED
    BY <1>1, <1>5, <2>1, <2>2, <2>3 DEF Clear
<1>6. CASE PostWrite(r)
  <2>1. PICK p \in Peers(r) :
          /\ posted' = posted \cup {[from |-> r, to |-> p, round |-> it[r]]}
          /\ Advance(r, p, "post", "writes")
    BY <1>6 DEF PostWrite
  <2>2. pc' \in [Ranks -> Steps] /\ left' \in [Ranks -> SUBSET Ranks]
    BY <1>4, <2>1
  <2>3. [from |-> r, to |-> p, round |-> it[r]] \in Write
    BY <1>1, WriteMade
  <2>4. posted' \subseteq Write /\ posted \subseteq posted'
    BY <1>1, <2>1, <2>3
  <2> QED
    BY <1>1, <1>6, <2>2, <2>4 DEF PostWrite
<1>7. CASE WritesAwaited(r)
  BY <1>1, <1>7 DEF WritesAwaited
<1>8. CASE EventsAwaited(r)
  <2>1. pc[r] = "events" /\ arrived[r] = 2 * (it[r] - 1)
    BY <1>1, <1>8 DEF EventsAwaited, FenceCount, Fences
  <2>2. arrived' \in [Ranks -> 0..(2 * Rounds)]
    BY <1>1, <1>8, <2>1, WriteRoundsAssumption DEF EventsAwaited, Arrive, Fail
  <2>3. pc' \in [Ranks -> Steps]
    BY <1>1, <1>8 DEF EventsAwaited, Arrive, Fail
  <2> QED
    BY <1>1, <1>8, <2>2, <2>3 DEF EventsAwaited
<1>9. CASE SendersChecked(r)
  BY <1>1, <1>9 DEF SendersChecked
<1>10. CASE Visible(r)
  BY <1>1, <1>10 DEF Visible
<1>11. CASE TimedOut(r)
  BY <1>1, <1>11 DEF TimedOut
<1>12. CASE Verified(r)
  <2>1. arrived[r] = Fences(it[r]) - 1
    BY <1>1, <1>12 DEF Verified, FenceCount
  <2>2. arrived[r] + 1 \in 0..(2 * Rounds)
    BY <1>1, <2>1, WriteRoundsAssumption DEF Fences
  <2>3. arrived' \in [Ranks -> 0..(2 * Rounds)]
    BY <1>1, <1>12, <2>2 DEF Verified, Arrive, Fail
  <2>4. pc' \in [Ranks -> Steps]
    BY <1>1, <1>12 DEF Verified, Arrive, Fail
  <2> QED
    BY <1>1, <1>12, <2>3, <2>4 DEF Verified
<1>13. ASSUME NextRound(r) PROVE pc' \in [Ranks -> Steps] /\ it' \in [Ranks -> 1..Rounds]
  BY <1>1, <1>2, <1>13, WriteRoundsAssumption DEF NextRound
<1>14. CASE RoundOver(r)
  <2>1. pc' \in [Ranks -> Steps] /\ it' \in [Ranks -> 1..Rounds]
    BY <1>1, <1>13, <1>14 DEF RoundOver
  <2> QED
    BY <1>1, <1>14, <2>1 DEF RoundOver
<1>15. CASE Uninstall(r)
  <2>1. pc' \in [Ranks -> Steps] /\ it' \in [Ranks -> 1..Rounds]
    BY <1>13, <1>15 DEF Uninstall
  <2>2. scope' \in [Ranks -> 0..Rounds]
    BY <1>1, <1>15, WriteRoundsAssumption DEF Uninstall
  <2>3. /\ UNCHANGED <<protocol, delivery, left, arrived, buffer, posted, placed, acked, told>>
        /\ UNCHANGED <<hearing, ok, processed, seen, missed>>
    BY <1>15 DEF Uninstall
  <2> QED
    BY <1>1, <2>1, <2>2, <2>3
<1> QED
  BY <1>3, <1>5, <1>6, <1>7, <1>8, <1>9, <1>10, <1>11, <1>12, <1>14, <1>15 DEF Main

\* So does every step of the provider and of a callback.
LEMMA TypeNet ==
  ASSUME TypeOK, \/ \E w \in Write : Deliver(w)
                 \/ \E h \in hearing : Callback(h)
  PROVE  TypeOK'
<1> USE DEF TypeOK, mainVars, netVars, eventVars, Goto, Steps
<1>1. ASSUME NEW w \in Write, Place(w) PROVE TypeOK'
  <2>1. buffer' \in [Ranks -> [Ranks -> 0..Rounds]]
    BY <1>1, WriteFields, WriteRoundsAssumption DEF Place
  <2> QED
    BY <1>1, <2>1 DEF Place
<1>2. ASSUME NEW w \in Write, Ack(w) PROVE TypeOK'
  BY <1>2 DEF Ack
<1>3. ASSUME NEW w \in Write, Hear(w) PROVE TypeOK'
  <2>1. hearing' \subseteq Hearing
    BY <1>3, WriteFields, WriteRoundsAssumption DEF Hear, Hearing
  <2>2. missed' \subseteq posted' /\ told' \subseteq posted'
    BY <1>3 DEF Hear
  <2>3. pc' \in [Ranks -> Steps]
    BY <1>3, WriteFields DEF Hear
  <2> QED
    BY <1>3, <2>1, <2>2, <2>3 DEF Hear
<1>4. ASSUME NEW h \in hearing, Checked(h) PROVE TypeOK'
  <2>1. h \in Hearing /\ h.write \in Write /\ h.write.to \in Ranks /\ h.write.from \in Ranks
    BY WriteFields DEF Hearing
  <2>2. [h EXCEPT !.step = "count"] \in Hearing
    BY <2>1 DEF Hearing
  <2>3. hearing' \subseteq Hearing
    BY <1>4, <2>2 DEF Checked
  <2>4. pc' \in [Ranks -> Steps]
    BY <1>4, <2>1 DEF Checked
  <2> DEFINE good == ok[h.write.to] /\ h.write.round = h.scope
  <2>5. \/ ok' = [ok EXCEPT ![h.write.to] = good]
        \/ ok' = ok
    BY <1>4 DEF Checked
  <2>6. good \in BOOLEAN
    OBVIOUS
  <2>7. ok' \in [Ranks -> BOOLEAN]
    <3> HIDE DEF good
    <3> QED
      BY <2>5, <2>6
  <2>8. seen' \in [Ranks -> SUBSET Ranks]
    <3>1. seen' = seen \/ seen' = [seen EXCEPT ![h.write.to] = @ \cup {h.write.from}]
      BY <1>4 DEF Checked
    <3> QED
      BY <2>1, <3>1
  <2> QED
    BY <1>4, <2>3, <2>4, <2>7, <2>8 DEF Checked
<1>5. ASSUME NEW h \in hearing, Counted(h) PROVE TypeOK'
  <2>1. h.write.to \in Ranks
    BY WriteFields DEF Hearing
  <2>2. pc' \in [Ranks -> Steps] /\ processed' \in [Ranks -> Nat]
    BY <1>5, <2>1 DEF Counted
  <2> QED
    BY <1>5, <2>2 DEF Counted
<1> QED
  BY <1>1, <1>2, <1>3, <1>4, <1>5 DEF Deliver, Callback

-----------------------------------------------------------------------------
(* The invariant.                                                          *)

Leaving == {"fence2", "uninstall", "done", "failed"}

\* A rank is in a later round than another only if that one has come to the
\* end of its own.
LEMMA AheadOfLeaving ==
  ASSUME RIInv, NEW p \in Ranks, NEW r \in Ranks, it[r] < it[p]
  PROVE  pc[r] \in Leaving
<1>1. TypeOK /\ FenceCount(r) /\ Together(p)
  BY DEF RIInv, RoundInv
<1>2. it[r] \in Nat /\ it[p] \in Nat /\ it[r] >= 1 /\ arrived[r] \in Nat /\ pc[r] \in Steps
  BY <1>1, WriteRoundsAssumption DEF TypeOK
<1>3. arrived[r] >= Fences(it[r])
  <2>1. it[r] <= it[p] - 1 /\ it[p] - 1 \in Nat
    BY <1>2
  <2>2. Fences(it[r]) <= Fences(it[p] - 1)
    BY <1>1, <1>2, <2>1, FenceFacts
  <2>3. arrived[r] >= Fences(it[p] - 1)
    BY <1>1 DEF Together
  <2>4. Fences(it[r]) \in Nat /\ Fences(it[p] - 1) \in Nat
    BY <1>1, <1>2, <2>1, FenceFacts
  <2> QED
    BY <1>2, <2>2, <2>3, <2>4
<1> QED
  BY <1>1, <1>2, <1>3 DEF FenceCount, Fences, Leaving, Steps

\* No write of a later round is posted to a rank that is not leaving.
LEMMA NoneAhead ==
  ASSUME RIInv, NEW w \in posted, pc[w.to] \notin Leaving
  PROVE  w.round <= it[w.to]
<1>1. w \in Write /\ WriteInv(w) /\ TypeOK
  BY DEF RIInv, RoundInv, TypeOK
<1>2. ~(it[w.to] < it[w.from])
  BY <1>1, WriteFields, AheadOfLeaving
<1>3. it[w.to] \in Nat /\ it[w.from] \in Nat /\ w.round \in Nat
  BY <1>1, WriteFields, WriteRoundsAssumption DEF TypeOK
<1> QED
  BY <1>1, <1>2, <1>3 DEF WriteInv

\* What the main thread of rank r does when it neither touches its buffers nor
\* posts nor begins a round.
Quiet(r, x) ==
  /\ Goto(r, x)
  /\ UNCHANGED <<protocol, it, left, buffer, posted, placed>>
  /\ \/ arrived' = arrived
     \/ arrived' = [arrived EXCEPT ![r] = @ + 1]

\* Such a step keeps the invariant if it keeps it of rank r.
LEMMA QuietKeeps ==
  ASSUME RIInv, NEW r \in Ranks, NEW x \in Steps, Quiet(r, x),
         FenceCount(r)', ReceivedInv(r)',
         x = "uninstall" => \A p \in Ranks : arrived[p] >= Fences(it[r]),
         x \notin {"clear", "post", "failed"} => left[r] = Peers(r),
         \A p \in Peers(r) : Cleared(r, p)' => Cleared(r, p)
  PROVE  RoundInv'
<1>1. TypeOK /\ RoundInv
  BY DEF RIInv
<1>2. /\ UNCHANGED <<protocol, it, left, buffer, posted, placed>>
      /\ pc' = [pc EXCEPT ![r] = x]
  BY DEF Quiet, Goto
<1>3. \A p \in Ranks : arrived'[p] >= arrived[p] /\ (p # r => arrived'[p] = arrived[p])
  BY <1>1 DEF Quiet, TypeOK
<1>4. \A u \in Ranks : u # r => pc'[u] = pc[u]
  BY <1>1, <1>2 DEF TypeOK
<1>5. pc'[r] = x
  BY <1>1, <1>2 DEF TypeOK
<1>6. ASSUME NEW u \in Ranks PROVE FenceCount(u)'
  <2>1. CASE u = r
    BY <2>1
  <2>2. CASE u # r
    BY <1>1, <1>2, <1>3, <1>4, <2>2 DEF RoundInv, FenceCount, Fences
  <2> QED
    BY <2>1, <2>2
<1>7. ASSUME NEW u \in Ranks PROVE Together(u)'
  <2>1. \A k : Fences(k)' = Fences(k)
    BY <1>2 DEF Fences
  <2>2. it[u] \in Nat /\ it[u] >= 1 /\ it[u] - 1 \in Nat
    BY <1>1, WriteRoundsAssumption DEF TypeOK
  <2>3. Fences(it[u] - 1) \in Nat /\ Fences(it[u]) \in Nat
    BY <1>1, <2>2, FenceFacts
  <2>4. \A p \in Ranks : arrived[p] \in Nat /\ arrived'[p] \in Nat
    BY <1>1 DEF Quiet, TypeOK
  <2>5. \A p \in Ranks : arrived'[p] >= Fences(it[u] - 1)
    BY <1>1, <1>3, <2>3, <2>4 DEF RoundInv, Together
  <2>6. pc'[u] = "uninstall" => \A p \in Ranks : arrived'[p] >= Fences(it[u])
    BY <1>1, <1>3, <1>4, <1>5, <2>3, <2>4 DEF RoundInv, Together
  <2> QED
    BY <1>2, <2>1, <2>5, <2>6 DEF Together
<1>8. ASSUME NEW u \in Ranks PROVE LoopInv(u)' /\ BufferInv(u)' /\ ReceivedInv(u)'
  <2>1. CASE u = r
    <3>1. LoopInv(r)'
      BY <1>1, <1>2, <1>5 DEF RoundInv, LoopInv, Peers
    <3>2. BufferInv(r)'
      BY <1>1, <1>2 DEF RoundInv, BufferInv, Peers
    <3> QED
      BY <2>1, <3>1, <3>2
  <2>2. CASE u # r
    BY <1>1, <1>2, <1>4, <2>2
    DEF RoundInv, LoopInv, BufferInv, ReceivedInv, Cleared, Peers
  <2> QED
    BY <2>1, <2>2
<1>9. ASSUME NEW w \in posted' PROVE WriteInv(w)'
  BY <1>1, <1>2, <1>9 DEF RoundInv, WriteInv
<1> QED
  BY <1>6, <1>7, <1>8, <1>9 DEF RoundInv

\* A rank that fails, wherever it is, keeps the invariant.
LEMMA FailKeeps ==
  ASSUME RIInv, NEW r \in Ranks, Goto(r, "failed"),
         UNCHANGED <<protocol, it, left, arrived, buffer, posted, placed>>
  PROVE  RoundInv'
<1>1. TypeOK /\ FenceCount(r) /\ LoopInv(r)
  BY DEF RIInv, RoundInv
<1>2. pc'[r] = "failed" /\ pc[r] \in Steps /\ it[r] \in 1..Rounds /\ arrived[r] \in Nat
  BY <1>1 DEF TypeOK, Goto
<1>3. arrived[r] \in Fences(it[r] - 1)..Fences(it[r])
  BY <1>1, <1>2, WriteRoundsAssumption DEF FenceCount, Fences, Steps
<1>4. FenceCount(r)'
  BY <1>2, <1>3 DEF FenceCount, Fences
<1>5. ReceivedInv(r)' /\ \A p : ~Cleared(r, p)'
  BY <1>2 DEF ReceivedInv, Cleared
<1>6. Quiet(r, "failed")
  BY DEF Quiet
<1> QED
  BY <1>1, <1>4, <1>5, <1>6, QuietKeeps DEF Steps, LoopInv

\* The buffers of a rank that verifies hold data of its round, all of it placed.
LEMMA VerifiedIsReceived ==
  ASSUME RIInv, NEW r \in Ranks, pc[r] = "verify", \A p \in Peers(r) : Good(r, p),
         NEW p \in Peers(r)
  PROVE  [from |-> p, to |-> r, round |-> it[r]] \in placed
<1>1. BufferInv(r) /\ Cleared(r, p)
  BY DEF RIInv, RoundInv, Cleared
<1>2. buffer[r][p] = it[r] /\ buffer[r][p] # 0
  BY <1>1 DEF BufferInv, Good
<1> QED
  BY <1>1, <1>2 DEF BufferInv

\* The main thread between its posts and the end of the round.
LEMMA WaitsKeep ==
  ASSUME RIInv, NEW r \in Ranks,
         \/ Install(r) \/ WritesAwaited(r) \/ EventsAwaited(r) \/ SendersChecked(r)
         \/ Visible(r) \/ TimedOut(r) \/ Verified(r)
  PROVE  RoundInv'
<1>1. TypeOK /\ FenceCount(r) /\ LoopInv(r)
  BY DEF RIInv, RoundInv
<1>2. /\ it[r] \in Nat /\ it[r] >= 1 /\ arrived[r] \in Nat
      /\ pc \in [Ranks -> Steps] /\ arrived \in [Ranks -> Nat]
  BY <1>1, WriteRoundsAssumption DEF TypeOK
<1>3. ASSUME NEW x \in {"clear", "events", "visible", "fence1", "verify"}, Quiet(r, x),
             pc[r] \notin {"clear", "post"}, FenceCount(r)',
             pc[r] = "install" <=> x = "clear",
             pc[r] # "install" => pc[r] \in {"writes", "events", "fence1", "visible"}
      PROVE  RoundInv'
  <2>1. pc'[r] = x
    BY <1>2, <1>3 DEF Quiet, Goto
  <2>2. ReceivedInv(r)' /\ x # "uninstall" /\ x \in Steps
    BY <2>1 DEF ReceivedInv, Steps
  <2>3. left[r] = Peers(r) /\ left' = left
    BY <1>1, <1>3 DEF LoopInv, Quiet
  <2>4. \A p \in Peers(r) : Cleared(r, p)' => Cleared(r, p)
    BY <1>3, <2>1, <2>3 DEF Cleared
  <2> QED
    BY <1>3, <2>2, <2>3, <2>4, QuietKeeps
<1>4. CASE Install(r)
  <2>1. Quiet(r, "clear") /\ pc[r] = "install" /\ pc'[r] = "clear"
    BY <1>2, <1>4 DEF Install, Quiet, netVars, Goto
  <2>2. FenceCount(r)'
    BY <1>1, <1>4, <2>1 DEF Install, Quiet, FenceCount, Fences
  <2> QED
    BY <1>3, <2>1, <2>2
<1>5. CASE WritesAwaited(r)
  <2>1. PICK x \in {"events", "visible"} :
          /\ Goto(r, x) /\ (x = "events" <=> protocol = "writedata")
          /\ pc[r] = "writes"
          /\ UNCHANGED <<protocol, it, left, arrived, buffer, posted, placed>>
    BY <1>5 DEF WritesAwaited, netVars
  <2>2. pc'[r] = x
    BY <1>2, <2>1 DEF Goto
  <2>3. FenceCount(r)'
    BY <1>1, <1>2, <2>1, <2>2 DEF FenceCount, Fences
  <2> QED
    BY <1>3, <2>1, <2>3 DEF Quiet
<1>6. CASE EventsAwaited(r)
  <2>1. /\ pc[r] = "events"
        /\ UNCHANGED <<protocol, it, left, buffer, posted, placed>>
    BY <1>6 DEF EventsAwaited, netVars
  <2>2. CASE Arrive(r, "fence1")
    <3>1. pc'[r] = "fence1" /\ arrived'[r] = arrived[r] + 1
      BY <1>2, <2>2 DEF Arrive, Goto
    <3>2. FenceCount(r)'
      BY <1>1, <1>2, <2>1, <3>1 DEF FenceCount, Fences
    <3> QED
      BY <1>3, <2>1, <2>2, <3>2 DEF Quiet, Arrive
  <2>3. CASE Fail(r)
    BY <2>1, <2>3, FailKeeps DEF Fail
  <2> QED
    BY <1>6, <2>2, <2>3 DEF EventsAwaited
<1>7. CASE SendersChecked(r)
  <2>1. /\ pc[r] = "fence1"
        /\ UNCHANGED <<protocol, it, left, arrived, buffer, posted, placed>>
    BY <1>7 DEF SendersChecked, netVars
  <2>2. PICK x \in {"failed", "verify", "visible"} : Goto(r, x)
    BY <1>7 DEF SendersChecked
  <2>3. CASE x = "failed"
    BY <2>1, <2>2, <2>3, FailKeeps
  <2>4. CASE x # "failed"
    <3>1. pc'[r] = x
      BY <1>2, <2>2 DEF Goto
    <3>2. FenceCount(r)'
      BY <1>1, <1>2, <2>1, <2>4, <3>1 DEF FenceCount, Fences
    <3> QED
      BY <1>3, <2>1, <2>2, <2>4, <3>2 DEF Quiet
  <2> QED
    BY <2>3, <2>4
<1>8. CASE Visible(r)
  <2>1. /\ pc[r] = "visible" /\ Quiet(r, "verify") /\ pc'[r] = "verify"
        /\ UNCHANGED <<protocol, it, arrived>>
    BY <1>2, <1>8 DEF Visible, netVars, Quiet, Goto
  <2>2. FenceCount(r)'
    BY <1>1, <2>1 DEF FenceCount, Fences
  <2> QED
    BY <1>3, <2>1, <2>2
<1>9. CASE TimedOut(r)
  BY <1>9, FailKeeps DEF TimedOut, netVars
<1>10. CASE Verified(r)
  <2>1. /\ pc[r] = "verify"
        /\ UNCHANGED <<protocol, it, left, buffer, posted, placed>>
    BY <1>10 DEF Verified, netVars
  <2>2. CASE Arrive(r, "fence2") /\ \A p \in Peers(r) : Good(r, p)
    <3>1. pc'[r] = "fence2" /\ arrived'[r] = arrived[r] + 1
      BY <1>2, <2>2 DEF Arrive, Goto
    <3>2. FenceCount(r)'
      BY <1>1, <1>2, <2>1, <3>1 DEF FenceCount, Fences
    <3>3. ReceivedInv(r)'
      BY <2>1, <2>2, VerifiedIsReceived DEF ReceivedInv
    <3>4. \A p : ~Cleared(r, p)'
      BY <3>1 DEF Cleared
    <3> QED
      BY <1>1, <2>1, <2>2, <3>2, <3>3, <3>4, QuietKeeps DEF Quiet, Arrive, Steps, LoopInv
  <2>3. CASE Fail(r)
    BY <2>1, <2>3, FailKeeps DEF Fail
  <2> QED
    BY <1>10, <2>2, <2>3 DEF Verified
<1> QED
  BY <1>4, <1>5, <1>6, <1>7, <1>8, <1>9, <1>10

\* Beginning a round keeps the invariant: all data of the last one has come.
LEMMA NextRoundKeeps ==
  ASSUME RIInv, NEW r \in Ranks, NextRound(r), pc[r] \in {"fence2", "uninstall"},
         pc[r] = "uninstall" <=> protocol = "writedata",
         \A p \in Ranks : arrived[p] >= Fences(it[r]),
         UNCHANGED <<protocol, left, arrived, buffer, posted, placed>>
  PROVE  RoundInv'
<1>1. TypeOK /\ RoundInv
  BY DEF RIInv
<1>2. /\ \A u \in Ranks : it[u] \in Nat /\ it[u] >= 1 /\ it[u] <= Rounds
      /\ \A u \in Ranks : u # r => it'[u] = it[u] /\ pc'[u] = pc[u]
      /\ \/ it'[r] = it[r] + 1 /\ pc'[r] = Start
         \/ it'[r] = it[r] /\ pc'[r] = "done"
  BY <1>1, WriteRoundsAssumption DEF TypeOK, NextRound, Goto
<1>3. Start = IF pc[r] = "uninstall" THEN "install" ELSE "clear"
  BY DEF Start
<1>4. \A k : Fences(k)' = Fences(k)
  BY DEF Fences
<1>5. FenceCount(r) /\ LoopInv(r) /\ BufferInv(r) /\ ReceivedInv(r)
  BY <1>1 DEF RoundInv
<1>6. left[r] = Peers(r)
  BY <1>5 DEF LoopInv
<1>7. FenceCount(r)'
  BY <1>2, <1>3, <1>4, <1>5 DEF FenceCount, Fences
<1>8. Together(r)'
  <2>1. pc'[r] # "uninstall"
    BY <1>2, <1>3
  <2>2. CASE it'[r] = it[r]
    BY <1>1, <1>4, <2>1, <2>2 DEF Together, RoundInv
  <2>3. CASE it'[r] = it[r] + 1
    <3>1. it'[r] - 1 = it[r]
      BY <1>2, <2>3
    <3> QED
      BY <1>4, <2>1, <3>1 DEF Together
  <2> QED
    BY <1>2, <2>2, <2>3
<1>9. LoopInv(r)' /\ BufferInv(r)' /\ ReceivedInv(r)'
  BY <1>2, <1>3, <1>5, <1>6 DEF LoopInv, BufferInv, ReceivedInv, Cleared, Peers
<1>10. ASSUME NEW u \in Ranks, u # r
       PROVE  /\ FenceCount(u)' /\ Together(u)' /\ LoopInv(u)'
              /\ BufferInv(u)' /\ ReceivedInv(u)'
  <2>1. /\ FenceCount(u) /\ Together(u) /\ LoopInv(u) /\ BufferInv(u) /\ ReceivedInv(u)
        /\ it'[u] = it[u] /\ pc'[u] = pc[u]
    BY <1>1, <1>2, <1>10 DEF RoundInv
  <2>2. FenceCount(u)' /\ Together(u)'
    BY <1>4, <2>1 DEF FenceCount, Together
  <2>3. LoopInv(u)' /\ BufferInv(u)' /\ ReceivedInv(u)'
    BY <2>1 DEF LoopInv, BufferInv, ReceivedInv, Cleared, Peers
  <2> QED
    BY <2>2, <2>3
<1>11. ASSUME NEW w \in posted' PROVE WriteInv(w)'
  <2>1. w \in Write /\ WriteInv(w)
    BY <1>1, <1>11 DEF RoundInv, TypeOK
  <2>2. /\ w.to \in Ranks /\ w.from \in Peers(w.to) /\ w.from \in Ranks /\ w.round \in Nat
        /\ w = [from |-> w.from, to |-> w.to, round |-> w.round]
    BY <2>1, WriteFields, WriteRoundsAssumption
  <2>3. w.round <= it'[w.from]
    BY <1>2, <2>1, <2>2 DEF WriteInv
  <2>4. w.to = r /\ w.round = it[r] => w \in placed
    BY <1>5, <2>2 DEF ReceivedInv
  <2>5. w.round < it'[w.to] => w \in placed
    BY <1>2, <2>1, <2>2, <2>4 DEF WriteInv
  <2> QED
    BY <2>3, <2>5 DEF WriteInv
<1> QED
  BY <1>7, <1>8, <1>9, <1>10, <1>11 DEF RoundInv

\* Leaving the last fence of a round keeps the invariant.
LEMMA RoundEndKeeps ==
  ASSUME RIInv, NEW r \in Ranks, RoundOver(r) \/ Uninstall(r)
  PROVE  RoundInv'
<1>1. TypeOK /\ FenceCount(r) /\ LoopInv(r) /\ ReceivedInv(r) /\ Together(r)
  BY DEF RIInv, RoundInv
<1>2. CASE Uninstall(r)
  <2>1. /\ NextRound(r) /\ pc[r] = "uninstall"
        /\ UNCHANGED <<protocol, left, arrived, buffer, posted, placed>>
    BY <1>2 DEF Uninstall, netVars
  <2> QED
    BY <1>1, <2>1, NextRoundKeeps DEF Together, FenceCount
<1>3. CASE RoundOver(r)
  <2>1. /\ pc[r] = "fence2" /\ arrived[r] = Fences(it[r]) /\ FenceOpen(r)
        /\ UNCHANGED <<protocol, left, arrived, buffer, posted, placed>>
    BY <1>1, <1>3 DEF RoundOver, FenceCount, netVars
  <2>2. \A p \in Ranks : arrived[p] >= Fences(it[r])
    BY <2>1 DEF FenceOpen
  <2>3. CASE protocol # "writedata"
    BY <1>3, <2>1, <2>2, <2>3, NextRoundKeeps DEF RoundOver
  <2>4. CASE protocol = "writedata"
    <3>1. Goto(r, "uninstall") /\ it' = it
      BY <1>3, <2>4 DEF RoundOver
    <3>2. pc'[r] = "uninstall"
      BY <1>1, <3>1 DEF Goto, TypeOK
    <3>3. FenceCount(r)' /\ ReceivedInv(r)' /\ \A p : ~Cleared(r, p)'
      BY <1>1, <2>1, <2>4, <3>1, <3>2 DEF FenceCount, Fences, ReceivedInv, Cleared, Peers
    <3> QED
      BY <1>1, <2>1, <2>2, <3>1, <3>3, QuietKeeps DEF Quiet, Steps, LoopInv
  <2> QED
    BY <2>3, <2>4
<1> QED
  BY <1>2, <1>3

\* Poisoning a buffer keeps the invariant.
LEMMA ClearKeeps ==
  ASSUME RIInv, NEW r \in Ranks, Clear(r) PROVE RoundInv'
<1>1. TypeOK /\ RoundInv
  BY DEF RIInv
<1>2. PICK p \in Peers(r) :
        /\ Turn(r, p) /\ buffer' = [buffer EXCEPT ![r][p] = 0]
        /\ Advance(r, p, "clear", "post")
  BY DEF Clear
<1>3. pc[r] = "clear" /\ UNCHANGED <<protocol, it, arrived, posted, placed>>
  BY DEF Clear, netVars
<1>4. /\ left'[r] = IF left[r] = {p} THEN Peers(r) ELSE left[r] \ {p}
      /\ pc'[r] = IF left[r] = {p} THEN "post" ELSE "clear"
      /\ \A u \in Ranks : u # r => left'[u] = left[u] /\ pc'[u] = pc[u]
  BY <1>1, <1>2 DEF Advance, Goto, TypeOK
<1>5. /\ \A u \in Ranks : u # r => buffer'[u] = buffer[u]
      /\ buffer'[r][p] = 0
      /\ \A q \in Ranks : q # p => buffer'[r][q] = buffer[r][q]
  BY <1>1, <1>2 DEF TypeOK, Peers
<1>6. ASSUME NEW u \in Ranks PROVE FenceCount(u)' /\ Together(u)'
  BY <1>1, <1>3, <1>4 DEF RoundInv, FenceCount, Together, Fences
<1>7. ASSUME NEW u \in Ranks, u # r PROVE LoopInv(u)' /\ BufferInv(u)' /\ ReceivedInv(u)'
  BY <1>1, <1>3, <1>4, <1>5, <1>7
  DEF RoundInv, LoopInv, BufferInv, ReceivedInv, Cleared, Peers
<1>8. LoopInv(r)' /\ ReceivedInv(r)'
  BY <1>1, <1>4 DEF RoundInv, LoopInv, ReceivedInv, Peers
<1>9. BufferInv(r)'
  <2>1. ASSUME NEW q \in Peers(r), q # p, Cleared(r, q)' PROVE Cleared(r, q)
    BY <1>3, <1>4, <2>1 DEF Cleared
  <2> QED
    BY <1>1, <1>3, <1>5, <2>1 DEF RoundInv, BufferInv, Peers
<1>10. ASSUME NEW w \in posted' PROVE WriteInv(w)'
  BY <1>1, <1>3, <1>10 DEF RoundInv, WriteInv
<1> QED
  BY <1>6, <1>7, <1>8, <1>9, <1>10 DEF RoundInv

\* Posting a write keeps the invariant: its target is not ahead of its source.
LEMMA PostWriteKeeps ==
  ASSUME RIInv, NEW r \in Ranks, PostWrite(r) PROVE RoundInv'
<1>1. TypeOK /\ RoundInv
  BY DEF RIInv
<1>2. PICK p \in Peers(r) :
        /\ posted' = posted \cup {[from |-> r, to |-> p, round |-> it[r]]}
        /\ Advance(r, p, "post", "writes")
  BY DEF PostWrite
<1>3. pc[r] = "post" /\ UNCHANGED <<protocol, it, arrived, buffer, placed>>
  BY DEF PostWrite
<1>4. /\ left'[r] = IF left[r] = {p} THEN Peers(r) ELSE left[r] \ {p}
      /\ pc'[r] = IF left[r] = {p} THEN "writes" ELSE "post"
      /\ \A u \in Ranks : u # r => left'[u] = left[u] /\ pc'[u] = pc[u]
  BY <1>1, <1>2 DEF Advance, Goto, TypeOK
<1>5. ASSUME NEW u \in Ranks PROVE FenceCount(u)' /\ Together(u)'
  BY <1>1, <1>3, <1>4 DEF RoundInv, FenceCount, Together, Fences
<1>6. ASSUME NEW u \in Ranks PROVE LoopInv(u)' /\ BufferInv(u)' /\ ReceivedInv(u)'
  BY <1>1, <1>3, <1>4
  DEF RoundInv, LoopInv, BufferInv, ReceivedInv, Cleared, Peers
<1>7. ASSUME NEW w \in posted' PROVE WriteInv(w)'
  <2>1. CASE w \in posted
    BY <1>1, <1>3, <2>1 DEF RoundInv, WriteInv
  <2>2. CASE w = [from |-> r, to |-> p, round |-> it[r]]
    <3>1. p \in Ranks /\ ~(it[r] < it[p])
      BY <1>3, AheadOfLeaving DEF Peers, Leaving
    <3> QED
      BY <1>1, <1>3, <2>2, <3>1, WriteRoundsAssumption DEF WriteInv, TypeOK
  <2> QED
    BY <1>2, <2>1, <2>2
<1> QED
  BY <1>5, <1>6, <1>7 DEF RoundInv

\* Data that arrives is of the round its target is in, or finds it leaving.
LEMMA PlaceKeeps ==
  ASSUME RIInv, NEW w \in posted, Place(w) PROVE RoundInv'
<1>1. TypeOK /\ RoundInv
  BY DEF RIInv
<1>2. /\ w \in Write /\ w \notin placed /\ placed' = placed \cup {w}
      /\ buffer' = [buffer EXCEPT ![w.to][w.from] = w.round]
      /\ UNCHANGED <<protocol, it, pc, left, arrived, posted>>
  BY <1>1 DEF Place, mainVars, TypeOK
<1>3. /\ w.to \in Ranks /\ w.from \in Peers(w.to) /\ w.from \in Ranks
      /\ w = [from |-> w.from, to |-> w.to, round |-> w.round]
      /\ w.round \in Nat /\ it[w.to] \in Nat
  BY <1>1, <1>2, WriteFields, WriteRoundsAssumption DEF TypeOK
<1>4. /\ \A u \in Ranks : u # w.to => buffer'[u] = buffer[u]
      /\ buffer'[w.to][w.from] = w.round
      /\ \A q \in Ranks : q # w.from => buffer'[w.to][q] = buffer[w.to][q]
  BY <1>1, <1>2, <1>3 DEF TypeOK
<1>5. Cleared(w.to, w.from) => w.round = it[w.to]
  <2>1. Cleared(w.to, w.from) => pc[w.to] \notin Leaving
    BY DEF Cleared, Leaving
  <2>2. ~(w.round < it[w.to])
    BY <1>1, <1>2 DEF RoundInv, WriteInv
  <2> QED
    BY <1>3, <2>1, <2>2, NoneAhead
<1>6. ASSUME NEW u \in Ranks
      PROVE FenceCount(u)' /\ Together(u)' /\ LoopInv(u)' /\ ReceivedInv(u)'
  BY <1>1, <1>2
  DEF RoundInv, FenceCount, Together, Fences, LoopInv, ReceivedInv, Peers
<1>7. ASSUME NEW u \in Ranks PROVE BufferInv(u)'
  <2>1. \A q \in Peers(u) : Cleared(u, q)' <=> Cleared(u, q)
    BY <1>2 DEF Cleared
  <2>2. CASE u # w.to
    BY <1>1, <1>2, <1>4, <2>1, <2>2 DEF RoundInv, BufferInv, Peers
  <2>3. CASE u = w.to
    BY <1>1, <1>2, <1>3, <1>4, <1>5, <2>1, <2>3 DEF RoundInv, BufferInv, Peers
  <2> QED
    BY <2>2, <2>3
<1>8. ASSUME NEW v \in posted' PROVE WriteInv(v)'
  BY <1>1, <1>2, <1>8 DEF RoundInv, WriteInv
<1> QED
  BY <1>6, <1>7, <1>8 DEF RoundInv

\* Completions, events and callbacks keep the invariant, should they crash a
\* rank or not.
LEMMA NetKeeps ==
  ASSUME RIInv, \/ \E w \in Write : Deliver(w)
                \/ \E h \in hearing : Callback(h)
  PROVE  RoundInv'
<1>1. TypeOK /\ RoundInv
  BY DEF RIInv
<1>2. ASSUME UNCHANGED <<protocol, it, pc, left, arrived, buffer, posted, placed>>
      PROVE  RoundInv'
  BY <1>1, <1>2
  DEF RoundInv, FenceCount, Together, Fences, LoopInv, BufferInv, Cleared, ReceivedInv,
      WriteInv, Peers
<1>3. ASSUME NEW w \in Write, Place(w) PROVE RoundInv'
  BY <1>3, PlaceKeeps DEF Place
<1>4. ASSUME NEW w \in Write, Ack(w) PROVE RoundInv'
  BY <1>2, <1>4 DEF Ack, mainVars
<1>5. ASSUME NEW w \in Write, Hear(w) PROVE RoundInv'
  <2>1. w.to \in Ranks /\ UNCHANGED <<protocol, it, left, arrived, buffer, posted, placed>>
    BY <1>5, WriteFields DEF Hear
  <2>2. pc' = pc \/ Goto(w.to, "failed")
    BY <1>5 DEF Hear
  <2> QED
    BY <1>2, <2>1, <2>2, FailKeeps
<1>6. ASSUME NEW h \in hearing, Callback(h) PROVE RoundInv'
  <2>1. h.write.to \in Ranks
    BY <1>1, WriteFields DEF TypeOK, Hearing
  <2>2. UNCHANGED <<protocol, it, left, arrived, buffer, posted, placed>>
    BY <1>6 DEF Callback, Checked, Counted, netVars
  <2>3. pc' = pc \/ Goto(h.write.to, "failed")
    BY <1>6 DEF Callback, Checked, Counted
  <2> QED
    BY <1>2, <2>1, <2>2, <2>3, FailKeeps
<1> QED
  BY <1>3, <1>4, <1>5, <1>6 DEF Deliver
-----------------------------------------------------------------------------
(* Theorems about the rounds.                                             *)

\* The invariant holds before the first round.
LEMMA RIInvInit == Init => RIInv
<1> SUFFICES ASSUME Init PROVE RIInv
  OBVIOUS
<1>1. TypeOK
  BY TypeInit
<1>2. ASSUME NEW r \in Ranks
      PROVE  /\ it[r] = 1 /\ pc[r] = Start /\ left[r] = Peers(r) /\ arrived[r] = 0
             /\ \A p \in Ranks : buffer[r][p] = 0
  BY DEF Init
<1>3. ASSUME NEW r \in Ranks
      PROVE  /\ FenceCount(r) /\ Together(r) /\ LoopInv(r)
             /\ BufferInv(r) /\ ReceivedInv(r)
  BY <1>2 DEF FenceCount, Together, LoopInv, BufferInv, ReceivedInv, Fences, Cleared,
              Start, Peers
<1> QED
  BY <1>1, <1>3 DEF RIInv, RoundInv, Init

\* Every step keeps it.
LEMMA RIInvStep == RIInv /\ [Next]_vars => RIInv'
<1> SUFFICES ASSUME RIInv, [Next]_vars PROVE RIInv'
  OBVIOUS
<1>1. TypeOK /\ RoundInv
  BY DEF RIInv
<1>2. CASE UNCHANGED vars
  <2>1. TypeOK'
    BY <1>1, <1>2 DEF vars, mainVars, netVars, eventVars, TypeOK
  <2>2. RoundInv'
    BY <1>1, <1>2
    DEF vars, mainVars, netVars, RoundInv, FenceCount, Together, Fences, LoopInv,
        BufferInv, Cleared, ReceivedInv, WriteInv, Peers
  <2> QED
    BY <2>1, <2>2 DEF RIInv
<1>3. ASSUME NEW r \in Ranks, Main(r) PROVE RIInv'
  <2>1. RoundInv'
    BY <1>3, WaitsKeep, RoundEndKeeps, ClearKeeps, PostWriteKeeps DEF Main
  <2> QED
    BY <1>3, <2>1, TypeMain DEF RIInv
<1>4. CASE \/ \E w \in Write : Deliver(w)
           \/ \E h \in hearing : Callback(h)
  BY <1>1, <1>4, TypeNet, NetKeeps DEF RIInv
<1> QED
  BY <1>2, <1>3, <1>4 DEF Next

\* The inductive invariant holds throughout the test.
THEOREM RoundsInvariance == Spec => []RIInv
  BY RIInvInit, RIInvStep, PTL DEF Spec

\* Every variable of the test keeps its type; no rank writes to itself and
\* none comes to more fences than the rounds have.
THEOREM RoundsTypeCorrect == Spec => []TypeOK
<1>1. RIInv => TypeOK
  BY DEF RIInv
<1> QED
  BY <1>1, RoundsInvariance, PTL

\* For any number of ranks and rounds, whatever is late, what a rank verifies
\* is poison or the data of its own round.
THEOREM DataIsOfItsRound == Spec => []NoStaleData
<1>1. RIInv => NoStaleData
  BY DEF RIInv, RoundInv, BufferInv, Cleared, NoStaleData
<1> QED
  BY <1>1, RoundsInvariance, PTL
-----------------------------------------------------------------------------
(* Why no check fails while no write comes too early.                      *)

\* Where the callback of the round may still run, and where it is over.
InCallback == {"clear", "post", "writes", "events"}
AllHeard == {"fence1", "visible", "verify", "fence2", "uninstall"}

\* The write of the round that r is in, from p; and its callback.
RoundWrite(p, r) == [from |-> p, to |-> r, round |-> it[r]]
Event(p, r, s) == [write |-> RoundWrite(p, r), scope |-> it[r], step |-> s]

\* Whose events of the round r has taken, which of them the callback has
\* compared, and which of them it has counted.
ToldOf(r) == {p \in Peers(r) : RoundWrite(p, r) \in told}
ComparedOf(r) == {p \in ToldOf(r) : Event(p, r, "check") \notin hearing}
CountedOf(r) == {p \in ComparedOf(r) : Event(p, r, "count") \notin hearing}

\* A rank waits for all it posted before it leaves a round, and for the data
\* itself where delivery-complete is given.
AckInv ==
  /\ \A w \in posted : w.round < it[w.from] \/ pc[w.from] \in AllHeard \cup {"events", "done"}
       => w \in acked
  /\ protocol = "writedata" /\ delivery => acked \subseteq placed

\* What the locals of a round of r say of its events.
EventsInv(r) ==
  /\ pc[r] \in {"install", "done"} => scope[r] = 0
  /\ pc[r] \in InCallback \cup AllHeard =>
       /\ scope[r] = it[r] /\ ok[r]
       /\ seen[r] = ComparedOf(r)
       /\ processed[r] = Cardinality(CountedOf(r))
  /\ pc[r] \in AllHeard => CountedOf(r) = Peers(r)

\* A callback runs in the round of its write, while its locals live.
HearingInv(h) ==
  /\ h.write \in told
  /\ pc[h.write.to] \in InCallback
  /\ h.write.round = it[h.write.to] /\ h.scope = it[h.write.to]
  /\ [h EXCEPT !.step = "check"] \notin hearing \/ [h EXCEPT !.step = "count"] \notin hearing

\* No event is taken before its round.
ToldInv(w) ==
  /\ w.round <= it[w.to]
  /\ w.round = it[w.to] => pc[w.to] # "install"

\* Data that has come is there.
DataInv ==
  /\ \A w \in placed : w.round >= it[w.to] => buffer[w.to][w.from] # 0
  /\ \A r \in Ranks : pc[r] = "verify" => \A p \in Peers(r) : Good(r, p)

HeardInv ==
  /\ protocol = "writedata" => \A r \in Ranks : EventsInv(r)
  /\ \A h \in hearing : HearingInv(h)
  /\ \A w \in told : ToldInv(w)
  /\ protocol # "writedata" => hearing = {} /\ told = {}

Clean == (\A r \in Ranks : pc[r] # "failed") /\ DataInv /\ HeardInv

CleanInv == AckInv /\ (missed = {} => Clean)

\* The peers of a rank are finitely many.
LEMMA PeersFinite ==
  ASSUME NEW r \in Ranks PROVE IsFiniteSet(Peers(r))
<1>1. IsFiniteSet(Ranks)
  BY FS_Interval, WriteRoundsAssumption DEF Ranks
<1> QED
  BY <1>1, FS_Subset DEF Peers

\* A running callback by its fields.
LEMMA RunningEvent ==
  ASSUME TypeOK, NEW h \in hearing, HearingInv(h)
  PROVE  /\ h.write.to \in Ranks /\ h.write.from \in Peers(h.write.to)
         /\ h.write.from \in ToldOf(h.write.to)
         /\ h.write = RoundWrite(h.write.from, h.write.to)
         /\ h.step \in {"check", "count"}
         /\ h = Event(h.write.from, h.write.to, h.step)
         /\ \A s : [h EXCEPT !.step = s] = Event(h.write.from, h.write.to, s)
<1>1. /\ h \in [write : Write, scope : 1..Rounds, step : {"check", "count"}]
      /\ h.write \in told /\ h.write.round = it[h.write.to] /\ h.scope = it[h.write.to]
  BY DEF TypeOK, Hearing, HearingInv
<1>2. h.write \in Write
  BY <1>1
<1>3. /\ h.write.to \in Ranks /\ h.write.from \in Peers(h.write.to)
      /\ h.write = [from |-> h.write.from, to |-> h.write.to, round |-> h.write.round]
  BY <1>2, WriteFields
<1>4. h.write = RoundWrite(h.write.from, h.write.to)
  BY <1>1, <1>3 DEF RoundWrite
<1>5. h.write.from \in ToldOf(h.write.to)
  BY <1>1, <1>3, <1>4 DEF ToldOf
<1>6. h = [write |-> h.write, scope |-> h.scope, step |-> h.step]
  BY <1>1
<1>7. \A s : [h EXCEPT !.step = s] = [write |-> h.write, scope |-> h.scope, step |-> s]
  BY <1>1
<1> QED
  BY <1>1, <1>3, <1>4, <1>5, <1>6, <1>7 DEF Event

\* Once all events of its round are counted, a rank runs no callback.
LEMMA NoneRunning ==
  ASSUME TypeOK, HeardInv, NEW r \in Ranks, CountedOf(r) = Peers(r), NEW h \in hearing
  PROVE  h.write.to # r
<1> SUFFICES ASSUME h.write.to = r PROVE FALSE
  OBVIOUS
<1>1. HearingInv(h)
  BY DEF HeardInv
<1>2. h.write.from \in CountedOf(r) /\ h.step \in {"check", "count"} /\ h = Event(h.write.from, r, h.step)
  BY <1>1, RunningEvent
<1> QED
  BY <1>2 DEF CountedOf, ComparedOf

\* All that the events of rank u are told by is as it was.
SameEvents(u) ==
  /\ pc'[u] = pc[u] /\ it'[u] = it[u] /\ scope'[u] = scope[u]
  /\ ok'[u] = ok[u] /\ seen'[u] = seen[u] /\ processed'[u] = processed[u]

SameSets == told' = told /\ hearing' = hearing

LEMMA SameCounts ==
  ASSUME SameSets, NEW u \in Ranks, it'[u] = it[u]
  PROVE  /\ ToldOf(u)' = ToldOf(u) /\ ComparedOf(u)' = ComparedOf(u)
         /\ CountedOf(u)' = CountedOf(u)
<1>1. \A p : /\ RoundWrite(p, u)' = RoundWrite(p, u)
             /\ \A s : Event(p, u, s)' = Event(p, u, s)
  BY DEF RoundWrite, Event
<1>2. ToldOf(u)' = ToldOf(u)
  BY <1>1 DEF ToldOf, SameSets, Peers
<1>3. ComparedOf(u)' = ComparedOf(u)
  BY <1>1, <1>2 DEF ComparedOf, SameSets
<1> QED
  BY <1>1, <1>2, <1>3 DEF CountedOf, SameSets

LEMMA SameKeepsEvents ==
  ASSUME SameSets, NEW u \in Ranks, SameEvents(u), EventsInv(u)
  PROVE  EventsInv(u)'
<1>1. /\ ToldOf(u)' = ToldOf(u) /\ ComparedOf(u)' = ComparedOf(u)
      /\ CountedOf(u)' = CountedOf(u) /\ Peers(u)' = Peers(u)
  BY SameCounts DEF SameEvents, Peers
<1> QED
  BY <1>1 DEF EventsInv, SameEvents

\* A step of rank r that changes no event.
Moves(r, x) ==
  /\ Goto(r, x)
  /\ UNCHANGED <<protocol, it, scope, ok, seen, processed, told, hearing>>

\* Such a step keeps what is said of the events if it stays on its side of the
\* wait for them.
LEMMA MoveKeepsEvents ==
  ASSUME TypeOK, HeardInv, NEW r \in Ranks, NEW x \in Steps, Moves(r, x), x # "install",
         \/ protocol # "writedata"
         \/ pc[r] \in InCallback /\ x \in InCallback
         \/ pc[r] \in InCallback /\ x \in AllHeard /\ CountedOf(r) = Peers(r)
         \/ pc[r] \in AllHeard /\ x \in AllHeard
  PROVE  HeardInv'
<1>1. /\ pc' = [pc EXCEPT ![r] = x] /\ SameSets
      /\ UNCHANGED <<protocol, it, scope, ok, seen, processed>>
  BY DEF Moves, Goto, SameSets
<1>2. pc'[r] = x /\ \A u \in Ranks : u # r => pc'[u] = pc[u]
  BY <1>1 DEF TypeOK
<1>3. ASSUME protocol = "writedata", NEW u \in Ranks PROVE EventsInv(u)'
  <2>1. EventsInv(u)
    BY <1>3 DEF HeardInv
  <2>2. CASE u # r
    <3>1. SameEvents(u)
      BY <1>1, <1>2, <2>2 DEF SameEvents
    <3> QED
      BY <1>1, <2>1, <3>1, SameKeepsEvents
  <2>3. CASE u = r
    <3>1. /\ ComparedOf(r)' = ComparedOf(r) /\ CountedOf(r)' = CountedOf(r)
          /\ Peers(r)' = Peers(r)
      BY <1>1, SameCounts DEF Peers
    <3>2. /\ scope[r] = it[r] /\ ok[r] /\ seen[r] = ComparedOf(r)
          /\ processed[r] = Cardinality(CountedOf(r))
      BY <1>3, <2>1, <2>3 DEF EventsInv
    <3>3. x \notin {"install", "done"} /\ (x \in AllHeard => CountedOf(r) = Peers(r))
      BY <1>3, <2>1, <2>3 DEF EventsInv, InCallback, AllHeard
    <3> QED
      BY <1>1, <1>2, <2>3, <3>1, <3>2, <3>3 DEF EventsInv
  <2> QED
    BY <2>2, <2>3
<1>4. ASSUME NEW h \in hearing' PROVE HearingInv(h)'
  <2>1. h \in hearing /\ HearingInv(h) /\ h.write.to \in Ranks /\ protocol = "writedata"
    BY <1>1, <1>4, RunningEvent DEF HeardInv, SameSets
  <2>2. pc'[h.write.to] \in InCallback
    <3>1. CASE h.write.to # r
      BY <1>2, <2>1, <3>1 DEF HearingInv
    <3>2. CASE h.write.to = r
      <4>1. pc[r] \in InCallback /\ CountedOf(r) # Peers(r)
        BY <2>1, <3>2, NoneRunning DEF HearingInv
      <4> QED
        BY <1>2, <2>1, <3>2, <4>1 DEF InCallback, AllHeard
    <3> QED
      BY <3>1, <3>2
  <2> QED
    BY <1>1, <2>1, <2>2 DEF HearingInv, SameSets
<1>5. ASSUME NEW w \in told' PROVE ToldInv(w)'
  BY <1>1, <1>2, <1>5, WriteFields DEF HeardInv, ToldInv, SameSets, TypeOK
<1> QED
  BY <1>1, <1>3, <1>4, <1>5 DEF HeardInv, SameSets

\* At the fence past the events the data of all peers is there, if the
\* provider completes a write only then: every peer has waited for its writes.
LEMMA DeliveredAtFence ==
  ASSUME RIInv, AckInv, Clean, NEW r \in Ranks, pc[r] = "fence1", FenceOpen(r), delivery,
         NEW p \in Peers(r)
  PROVE  Good(r, p)
<1>1. /\ TypeOK /\ FenceCount(r) /\ FenceCount(p) /\ p \in Ranks /\ protocol = "writedata"
      /\ EventsInv(r)
  BY DEF RIInv, RoundInv, Peers, FenceCount, Clean, HeardInv
<1>2. RoundWrite(p, r) \in told /\ RoundWrite(p, r) \in posted
  BY <1>1 DEF EventsInv, AllHeard, CountedOf, ComparedOf, ToldOf, TypeOK
<1>3. /\ it[r] \in Nat /\ it[p] \in Nat /\ it[r] >= 1 /\ it[p] >= 1
      /\ pc[p] \in Steps /\ pc[p] # "failed"
  BY <1>1, WriteRoundsAssumption DEF TypeOK, Clean
<1>4. arrived[p] >= arrived[r] /\ arrived[r] = 2 * (it[r] - 1) + 1
  BY <1>1 DEF FenceOpen, FenceCount, Fences
<1>5. it[r] < it[p] \/ pc[p] \in AllHeard \cup {"events", "done"}
  <2>1. CASE pc[p] \in {"install", "clear", "post", "writes", "events"}
    <3>1. arrived[p] = 2 * (it[p] - 1)
      BY <1>1, <2>1 DEF FenceCount, Fences
    <3> QED
      BY <1>3, <1>4, <3>1
  <2>2. CASE pc[p] \notin {"install", "clear", "post", "writes", "events"}
    BY <1>3, <2>2 DEF AllHeard, Steps
  <2> QED
    BY <2>1, <2>2
<1>6. RoundWrite(p, r) \in placed
  BY <1>1, <1>2, <1>5 DEF AckInv, RoundWrite
<1> QED
  BY <1>1, <1>3, <1>6 DEF Clean, DataInv, RoundWrite, Good

\* A rank that has waited for its writes has them acknowledged; no step takes
\* an acknowledgement back.
LEMMA AckKeeps == RIInv /\ AckInv /\ Next => AckInv'
<1> SUFFICES ASSUME RIInv, AckInv, Next PROVE AckInv'
  OBVIOUS
<1>1. TypeOK /\ RoundInv
  BY DEF RIInv
<1> DEFINE Past == AllHeard \cup {"events", "done"}
<1>2. ASSUME UNCHANGED <<protocol, delivery, it, posted, acked>>, placed \subseteq placed',
             \A u \in Ranks : pc'[u] \in Past => pc[u] \in Past
      PROVE  AckInv'
  BY <1>1, <1>2, WriteFields DEF AckInv, TypeOK
<1>3. ASSUME NEW r \in Ranks, Main(r) PROVE AckInv'
  <2>1. CASE WritesAwaited(r)
    <3>1. /\ UNCHANGED <<protocol, delivery, it, posted, placed, acked>>
          /\ \A w \in posted : w.from = r => w \in acked
          /\ \A u \in Ranks : u # r => pc'[u] = pc[u]
      BY <1>1, <2>1 DEF WritesAwaited, netVars, AllAcked, Goto, TypeOK
    <3> QED
      BY <1>1, <3>1, WriteFields DEF AckInv, TypeOK
  <2>2. CASE PostWrite(r)
    <3>1. PICK p \in Peers(r) :
            /\ posted' = posted \cup {[from |-> r, to |-> p, round |-> it[r]]}
            /\ Advance(r, p, "post", "writes")
      BY <2>2 DEF PostWrite
    <3>2. /\ UNCHANGED <<protocol, delivery, it, placed, acked>>
          /\ pc'[r] \in {"post", "writes"}
          /\ \A u \in Ranks : u # r => pc'[u] = pc[u]
      BY <1>1, <2>2, <3>1 DEF PostWrite, Advance, Goto, TypeOK
    <3>3. it[r] \in Nat
      BY <1>1, WriteRoundsAssumption DEF TypeOK
    <3>4. ASSUME NEW w \in posted', w.round < it[w.from] \/ pc'[w.from] \in Past
          PROVE  w \in acked
      <4>1. w \in posted
        BY <3>1, <3>2, <3>3, <3>4 DEF AllHeard
      <4>2. w.from \in Ranks
        BY <1>1, <4>1, WriteFields DEF TypeOK
      <4> QED
        BY <3>2, <3>4, <4>1, <4>2 DEF AckInv, AllHeard
    <3> QED
      BY <3>2, <3>4 DEF AckInv
  <2>3. CASE RoundOver(r) \/ Uninstall(r)
    <3>1. /\ UNCHANGED <<protocol, delivery, posted, placed, acked>>
          /\ pc[r] \in {"fence2", "uninstall"}
          /\ it' = it \/ it' = [it EXCEPT ![r] = IF @ < Rounds THEN @ + 1 ELSE @]
          /\ \E x : pc' = [pc EXCEPT ![r] = x]
      BY <2>3 DEF RoundOver, Uninstall, NextRound, netVars, Goto
    <3>2. \A u \in Ranks : u # r => pc'[u] = pc[u] /\ it'[u] = it[u]
      BY <1>1, <3>1 DEF TypeOK
    <3>3. \A w \in posted : w.from = r => w \in acked
      BY <1>1, <3>1 DEF AckInv, AllHeard
    <3> QED
      BY <1>1, <3>1, <3>2, <3>3, WriteFields DEF AckInv, TypeOK
  <2>4. CASE \/ Install(r) \/ Clear(r) \/ EventsAwaited(r) \/ SendersChecked(r)
             \/ Visible(r) \/ TimedOut(r) \/ Verified(r)
    <3>1. UNCHANGED <<protocol, delivery, it, posted, placed, acked>>
      BY <2>4 DEF Install, Clear, EventsAwaited, SendersChecked, Visible, TimedOut, Verified,
                  netVars
    <3>2. \E x : pc' = [pc EXCEPT ![r] = x] /\ (x \in Past => pc[r] \in Past)
      <4>1. CASE Install(r)
        <5>1. pc' = [pc EXCEPT ![r] = "clear"] /\ "clear" \notin Past
          BY <4>1 DEF Install, Goto, AllHeard
        <5> QED
          BY <5>1
      <4>2. CASE Clear(r)
        <5>1. PICK x \in {"clear", "post"} : pc' = [pc EXCEPT ![r] = x]
          BY <4>2 DEF Clear, Advance, Goto
        <5>2. x \notin Past
          BY DEF AllHeard
        <5> QED
          BY <5>1, <5>2
      <4>3. CASE EventsAwaited(r) \/ SendersChecked(r) \/ Visible(r) \/ TimedOut(r) \/ Verified(r)
        BY <4>3 DEF EventsAwaited, SendersChecked, Visible, TimedOut, Verified, Arrive, Fail,
                    Goto, AllHeard
      <4> QED
        BY <2>4, <4>1, <4>2, <4>3
    <3>3. \A u \in Ranks : pc'[u] \in Past => pc[u] \in Past
      BY <1>1, <3>2 DEF TypeOK
    <3> QED
      BY <1>2, <3>1, <3>3
  <2> QED
    BY <1>3, <2>1, <2>2, <2>3, <2>4 DEF Main
<1>4. ASSUME NEW w \in Write, Deliver(w) PROVE AckInv'
  <2>1. CASE Place(w)
    BY <1>2, <2>1 DEF Place, mainVars
  <2>2. CASE Ack(w)
    <3>1. /\ UNCHANGED <<protocol, delivery, it, pc, posted, placed>>
          /\ acked' = acked \cup {w}
          /\ protocol = "writedata" /\ delivery => w \in placed
      BY <2>2 DEF Ack, mainVars
    <3> QED
      BY <3>1 DEF AckInv
  <2>3. CASE Hear(w)
    <3>1. \A u \in Ranks : pc'[u] \in Past => pc[u] \in Past
      BY <1>1, <2>3 DEF Hear, Goto, TypeOK, AllHeard
    <3> QED
      BY <1>2, <2>3, <3>1 DEF Hear
  <2> QED
    BY <1>4, <2>1, <2>2, <2>3 DEF Deliver
<1>5. ASSUME NEW h \in hearing, Callback(h) PROVE AckInv'
  <2>1. UNCHANGED <<protocol, delivery, it, posted, placed, acked>>
    BY <1>5 DEF Callback, Checked, Counted, netVars
  <2>2. pc' = pc \/ pc' = [pc EXCEPT ![h.write.to] = "failed"]
    BY <1>5 DEF Callback, Checked, Counted, Goto
  <2>3. \A u \in Ranks : pc'[u] \in Past => pc[u] \in Past
    BY <1>1, <2>2 DEF TypeOK, AllHeard
  <2> QED
    BY <1>2, <2>1, <2>3
<1> QED
  BY <1>3, <1>4, <1>5 DEF Next

\* What a step of rank r that stays in its round needs to keep, besides the
\* events: its data, if it goes on to verify it.
LEMMA MoveKeeps ==
  ASSUME RIInv, Clean, NEW r \in Ranks, NEW x \in Steps, Moves(r, x), HeardInv',
         x # "failed", UNCHANGED <<buffer, placed>>,
         x = "verify" => \A p \in Peers(r) : Good(r, p)
  PROVE  Clean'
<1>1. /\ TypeOK /\ UNCHANGED <<it, buffer, placed>>
      /\ pc' = [pc EXCEPT ![r] = x]
  BY DEF RIInv, Moves, Goto
<1>2. pc'[r] = x /\ \A u \in Ranks : u # r => pc'[u] = pc[u]
  BY <1>1 DEF TypeOK
<1>3. \A u, p : Good(u, p)' <=> Good(u, p)
  BY <1>1 DEF Good
<1>4. DataInv'
  BY <1>1, <1>2, <1>3 DEF Clean, DataInv, Peers
<1> QED
  BY <1>2, <1>4 DEF Clean

\* Its own waits and checks, of a rank in a round no write comes too early for.
LEMMA WaitsClean ==
  ASSUME RIInv, AckInv, Clean, NEW r \in Ranks,
         \/ PostWrite(r) \/ WritesAwaited(r) \/ EventsAwaited(r)
         \/ SendersChecked(r) \/ Visible(r) \/ TimedOut(r) \/ Verified(r)
  PROVE  Clean'
<1>1. TypeOK /\ FenceCount(r) /\ HeardInv /\ DataInv /\ pc[r] \in Steps
  BY DEF RIInv, RoundInv, Clean, TypeOK
<1>2. protocol = "writedata" => EventsInv(r)
  BY <1>1 DEF HeardInv
<1> USE DEF eventVars, netVars
<1>3. CASE PostWrite(r)
  <2>1. PICK x \in {"post", "writes"} : Moves(r, x)
    BY <1>3 DEF PostWrite, Advance, Moves
  <2>2. pc[r] = "post" /\ UNCHANGED <<buffer, placed>>
    BY <1>3 DEF PostWrite
  <2>3. HeardInv'
    BY <1>1, <2>1, <2>2, MoveKeepsEvents DEF Steps, InCallback
  <2> QED
    BY <2>1, <2>2, <2>3, MoveKeeps DEF Steps
<1>4. CASE WritesAwaited(r)
  <2>1. PICK x \in {"events", "visible"} : Moves(r, x) /\ (x = "visible" => protocol # "writedata")
    BY <1>4 DEF WritesAwaited, Moves
  <2>2. pc[r] = "writes" /\ UNCHANGED <<buffer, placed>>
    BY <1>4 DEF WritesAwaited
  <2>3. HeardInv'
    BY <1>1, <2>1, <2>2, MoveKeepsEvents DEF Steps, InCallback
  <2> QED
    BY <2>1, <2>2, <2>3, MoveKeeps DEF Steps
<1>5. CASE EventsAwaited(r)
  <2>1. pc[r] = "events" /\ protocol = "writedata" /\ UNCHANGED <<buffer, placed>>
    BY <1>1, <1>5 DEF EventsAwaited, FenceCount
  <2>2. ok[r] /\ processed[r] = Cardinality(CountedOf(r))
    BY <1>2, <2>1 DEF EventsInv, InCallback
  <2>3. Moves(r, "fence1")
    BY <1>5, <2>2 DEF EventsAwaited, Arrive, Moves
  <2>4. CountedOf(r) = Peers(r)
    <3>1. Cardinality(CountedOf(r)) >= Cardinality(Peers(r))
      BY <1>5, <2>2 DEF EventsAwaited, ExpectedEvents
    <3>2. CountedOf(r) \subseteq Peers(r) /\ IsFiniteSet(Peers(r))
      BY PeersFinite DEF CountedOf, ComparedOf, ToldOf
    <3>3. /\ Cardinality(CountedOf(r)) <= Cardinality(Peers(r))
          /\ Cardinality(CountedOf(r)) = Cardinality(Peers(r)) => CountedOf(r) = Peers(r)
          /\ IsFiniteSet(CountedOf(r))
      BY <3>2, FS_Subset
    <3>4. Cardinality(CountedOf(r)) \in Nat /\ Cardinality(Peers(r)) \in Nat
      BY <3>2, <3>3, FS_CardinalityType
    <3> QED
      BY <3>1, <3>3, <3>4
  <2>5. HeardInv'
    BY <1>1, <2>1, <2>3, <2>4, MoveKeepsEvents DEF Steps, InCallback, AllHeard
  <2> QED
    BY <2>1, <2>3, <2>5, MoveKeeps DEF Steps
<1>6. CASE SendersChecked(r)
  <2>1. pc[r] = "fence1" /\ protocol = "writedata" /\ UNCHANGED <<buffer, placed>>
    BY <1>1, <1>6 DEF SendersChecked, FenceCount
  <2>2. seen[r] = Peers(r)
    BY <1>2, <2>1 DEF EventsInv, AllHeard, CountedOf, ComparedOf, ToldOf
  <2>3. PICK x \in {"verify", "visible"} : Moves(r, x) /\ (x = "verify" => delivery)
    BY <1>6, <2>2 DEF SendersChecked, Moves
  <2>4. HeardInv'
    BY <1>1, <2>1, <2>3, MoveKeepsEvents DEF Steps, AllHeard
  <2>5. x = "verify" => \A p \in Peers(r) : Good(r, p)
    BY <1>6, <2>1, <2>3, DeliveredAtFence DEF SendersChecked
  <2> QED
    BY <2>1, <2>3, <2>4, <2>5, MoveKeeps DEF Steps
<1>7. CASE Visible(r)
  <2>1. /\ pc[r] = "visible" /\ UNCHANGED <<buffer, placed>> /\ Moves(r, "verify")
        /\ \A p \in Peers(r) : Good(r, p)
    BY <1>7 DEF Visible, Moves
  <2>2. HeardInv'
    BY <1>1, <2>1, MoveKeepsEvents DEF Steps, AllHeard
  <2> QED
    BY <2>1, <2>2, MoveKeeps DEF Steps
<1>8. CASE TimedOut(r)
  <2>1. PICK p \in Peers(r) : Hopeless(r, p)
    BY <1>8 DEF TimedOut
  <2>2. p \in Ranks /\ it[r] \in Nat
    BY <1>1, WriteRoundsAssumption DEF Peers, TypeOK
  <2>3. [from |-> p, to |-> r, round |-> it[r]] \in placed => Good(r, p)
    BY <1>1, <2>2 DEF DataInv, Good
  <2> QED
    BY <2>1, <2>2, <2>3 DEF Hopeless, Clean
<1>9. CASE Verified(r)
  <2>1. /\ pc[r] = "verify" /\ UNCHANGED <<buffer, placed>>
        /\ \A p \in Peers(r) : Good(r, p)
    BY <1>1, <1>9 DEF Verified, DataInv
  <2>2. Moves(r, "fence2")
    BY <1>9, <2>1 DEF Verified, Arrive, Moves
  <2>3. HeardInv'
    BY <1>1, <2>1, <2>2, MoveKeepsEvents DEF Steps, AllHeard
  <2> QED
    BY <2>1, <2>2, <2>3, MoveKeeps DEF Steps
<1> QED
  BY <1>3, <1>4, <1>5, <1>6, <1>7, <1>8, <1>9

\* Poisoning a buffer loses no data of the round, or it counts as missed.
LEMMA ClearClean ==
  ASSUME RIInv, Clean, NEW r \in Ranks, Clear(r), missed' = {}
  PROVE  Clean'
<1>1. TypeOK /\ RoundInv /\ HeardInv /\ DataInv
  BY DEF RIInv, Clean
<1>2. PICK p \in Peers(r) :
        /\ buffer' = [buffer EXCEPT ![r][p] = 0]
        /\ missed' = missed \cup {w \in placed : w.to = r /\ w.from = p /\ w.round = it[r]}
        /\ Advance(r, p, "clear", "post")
  BY DEF Clear
<1>3. pc[r] = "clear" /\ UNCHANGED <<it, placed>>
  BY DEF Clear, netVars
<1>4. PICK x \in {"clear", "post"} : Moves(r, x)
  BY <1>2 DEF Clear, Advance, Moves, eventVars, netVars
<1>5. pc' = [pc EXCEPT ![r] = x] /\ pc'[r] = x /\ \A u \in Ranks : u # r => pc'[u] = pc[u]
  BY <1>1, <1>4 DEF Moves, Goto, TypeOK
<1>6. HeardInv'
  BY <1>1, <1>3, <1>4, MoveKeepsEvents DEF Steps, InCallback
<1>7. ASSUME NEW w \in placed', w.round >= it'[w.to] PROVE buffer'[w.to][w.from] # 0
  <2>1. w \in placed /\ w \in posted /\ w.to \in Ranks /\ w.from \in Ranks /\ w.round \in Nat
    BY <1>1, <1>3, <1>7, WriteFields, WriteRoundsAssumption DEF TypeOK
  <2>2. ~(w.to = r /\ w.from = p)
    <3> SUFFICES ASSUME w.to = r, w.from = p PROVE FALSE
      OBVIOUS
    <3>1. w.round <= it[r]
      BY <1>3, <2>1, NoneAhead DEF Leaving
    <3>2. w.round = it[r]
      <4>1. it[r] \in Nat /\ w.round \in Nat /\ w.round >= it[r]
        BY <1>1, <1>3, <1>7, <2>1, WriteRoundsAssumption DEF TypeOK
      <4> QED
        BY <3>1, <4>1
    <3> QED
      BY <1>2, <2>1, <3>2
  <2>3. buffer'[w.to][w.from] = buffer[w.to][w.from]
    BY <1>1, <1>2, <2>1, <2>2 DEF TypeOK, Peers
  <2> QED
    BY <1>1, <1>3, <1>7, <2>1, <2>3 DEF DataInv
<1>8. ASSUME NEW u \in Ranks, pc'[u] = "verify", NEW q \in Peers(u)' PROVE Good(u, q)'
  <2>1. u # r /\ q \in Peers(u) /\ pc[u] = "verify"
    BY <1>5, <1>8 DEF Peers
  <2>2. buffer'[u] = buffer[u]
    BY <1>1, <1>2, <2>1 DEF TypeOK
  <2> QED
    BY <1>1, <2>1, <2>2 DEF DataInv, Good
<1>9. DataInv'
  BY <1>7, <1>8 DEF DataInv
<1> QED
  BY <1>5, <1>6, <1>9 DEF Clean

\* A round begins with no event of it taken, and ends with no callback running.
LEMMA RoundClean ==
  ASSUME RIInv, Clean, NEW r \in Ranks, Install(r) \/ RoundOver(r) \/ Uninstall(r)
  PROVE  Clean'
<1>1. TypeOK /\ FenceCount(r) /\ HeardInv /\ DataInv
  BY DEF RIInv, RoundInv, Clean
<1>2. protocol = "writedata" => EventsInv(r)
  BY <1>1 DEF HeardInv
<1>3. \A u \in Ranks : it[u] \in Nat
  BY <1>1, WriteRoundsAssumption DEF TypeOK
<1> USE DEF netVars, eventVars
\* Of the data nothing changes but the rounds, which only grow.
<1>4. ASSUME UNCHANGED <<buffer, placed>>, NEW x, x \notin {"verify", "failed"},
             pc' = [pc EXCEPT ![r] = x],
             \/ it' = it
             \/ it' = [it EXCEPT ![r] = it[r] + 1]
      PROVE  DataInv' /\ \A u \in Ranks : pc'[u] # "failed"
  <2>1. pc'[r] = x /\ \A u \in Ranks : u # r => pc'[u] = pc[u]
    BY <1>1, <1>4 DEF TypeOK
  <2>2. ASSUME NEW w \in placed', w.round >= it'[w.to] PROVE buffer'[w.to][w.from] # 0
    <3>1. w \in placed /\ w.to \in Ranks /\ w.round \in Nat
      BY <1>1, <1>4, <2>2, WriteFields, WriteRoundsAssumption DEF TypeOK
    <3>2. it'[w.to] = it[w.to] \/ it'[w.to] = it[w.to] + 1
      BY <1>1, <1>4, <3>1 DEF TypeOK
    <3>3. w.round >= it[w.to]
      BY <1>3, <2>2, <3>1, <3>2
    <3> QED
      BY <1>1, <1>4, <3>1, <3>3 DEF DataInv
  <2>3. ASSUME NEW u \in Ranks, pc'[u] = "verify", NEW q \in Peers(u)' PROVE Good(u, q)'
    BY <1>1, <1>4, <2>1, <2>3 DEF DataInv, Good, Peers
  <2>4. DataInv'
    BY <2>2, <2>3 DEF DataInv
  <2> QED
    BY <1>4, <2>1, <2>4 DEF Clean
\* No callback runs for a rank that is not within its round.
<1>5. ASSUME pc[r] \notin InCallback, NEW h \in hearing
      PROVE  HearingInv(h) /\ h.write.to # r /\ h.write.to \in Ranks
  BY <1>1, <1>5, RunningEvent DEF HeardInv, HearingInv
<1>6. ASSUME pc[r] \notin InCallback, SameSets, NEW x, pc' = [pc EXCEPT ![r] = x],
             \A u \in Ranks : u # r => it'[u] = it[u]
      PROVE  \A h \in hearing' : HearingInv(h)'
  <2>1. \A u \in Ranks : u # r => pc'[u] = pc[u]
    BY <1>1, <1>6 DEF TypeOK
  <2> QED
    BY <1>5, <1>6, <2>1 DEF HearingInv, SameSets
<1>7. CASE Install(r)
  <2>1. /\ pc[r] = "install" /\ protocol = "writedata" /\ pc' = [pc EXCEPT ![r] = "clear"]
        /\ SameSets /\ UNCHANGED <<protocol, it, buffer, placed>>
    BY <1>1, <1>7 DEF Install, FenceCount, Goto, SameSets
  <2>2. /\ scope'[r] = it[r] /\ ok'[r] /\ processed'[r] = 0 /\ seen'[r] = {}
        /\ pc'[r] = "clear"
        /\ \A u \in Ranks : u # r => SameEvents(u)
    BY <1>1, <1>7, <2>1 DEF Install, SameEvents, TypeOK
  <2>3. ComparedOf(r) = {} /\ CountedOf(r) = {}
    <3>1. ASSUME NEW p \in ToldOf(r) PROVE FALSE
      <4>1. RoundWrite(p, r) \in told
        BY DEF ToldOf
      <4>2. ToldInv(RoundWrite(p, r))
        BY <1>1, <4>1 DEF HeardInv
      <4> QED
        BY <2>1, <4>2 DEF ToldInv, RoundWrite
    <3> QED
      BY <3>1 DEF ComparedOf, CountedOf
  <2>4. ComparedOf(r)' = {} /\ CountedOf(r)' = {}
    BY <2>1, <2>3, SameCounts
  <2>5. EventsInv(r)'
    BY <2>1, <2>2, <2>4, FS_EmptySet DEF EventsInv, AllHeard
  <2>6. \A u \in Ranks : EventsInv(u)'
    BY <1>1, <2>1, <2>2, <2>5, SameKeepsEvents DEF HeardInv
  <2>7. \A h \in hearing' : HearingInv(h)'
    BY <1>6, <2>1 DEF InCallback
  <2>8. \A w \in told' : ToldInv(w)'
    BY <1>1, <2>1, WriteFields DEF HeardInv, ToldInv, SameSets, TypeOK
  <2>9. HeardInv'
    BY <2>1, <2>6, <2>7, <2>8 DEF HeardInv
  <2> QED
    BY <1>4, <2>1, <2>9 DEF Clean
<1>8. ASSUME NextRound(r)
      PROVE  \E x \in {"install", "clear", "done"} :
               /\ pc' = [pc EXCEPT ![r] = x]
               /\ \/ it' = it /\ x = "done"
                  \/ it' = [it EXCEPT ![r] = it[r] + 1] /\ x = Start
  <2>1. CASE it[r] < Rounds
    BY <1>8, <2>1 DEF NextRound, Goto, Start
  <2>2. CASE ~(it[r] < Rounds)
    BY <1>1, <1>8, <2>2 DEF NextRound, Goto, TypeOK
  <2> QED
    BY <2>1, <2>2
<1>9. CASE RoundOver(r)
  <2>1. CASE protocol = "writedata"
    <3>1. /\ pc[r] = "fence2" /\ UNCHANGED <<buffer, placed>> /\ Moves(r, "uninstall")
      BY <1>9, <2>1 DEF RoundOver, Moves
    <3>2. HeardInv'
      BY <1>1, <3>1, MoveKeepsEvents DEF Steps, AllHeard
    <3> QED
      BY <3>1, <3>2, MoveKeeps DEF Steps
  <2>2. CASE protocol # "writedata"
    <3>1. NextRound(r) /\ UNCHANGED <<protocol, buffer, placed, told, hearing>>
      BY <1>9, <2>2 DEF RoundOver
    <3>2. HeardInv'
      BY <1>1, <2>2, <3>1 DEF HeardInv
    <3>3. DataInv' /\ \A u \in Ranks : pc'[u] # "failed"
      BY <1>4, <1>8, <3>1
    <3> QED
      BY <3>2, <3>3 DEF Clean
  <2> QED
    BY <2>1, <2>2
<1>10. CASE Uninstall(r)
  <2>1. /\ pc[r] = "uninstall" /\ protocol = "writedata" /\ NextRound(r) /\ SameSets
        /\ scope' = [scope EXCEPT ![r] = 0]
        /\ UNCHANGED <<protocol, buffer, placed, ok, processed, seen>>
    BY <1>1, <1>10 DEF Uninstall, FenceCount, SameSets
  <2>2. PICK x \in {"install", "clear", "done"} :
          /\ pc' = [pc EXCEPT ![r] = x]
          /\ \/ it' = it /\ x = "done"
             \/ it' = [it EXCEPT ![r] = it[r] + 1] /\ x = Start
    BY <1>8, <2>1
  <2>3. x \in {"install", "done"} /\ pc'[r] = x /\ \A u \in Ranks : u # r => pc'[u] = pc[u]
    BY <1>1, <2>1, <2>2 DEF Start, TypeOK
  <2>4. \A u \in Ranks : u # r => it'[u] = it[u] /\ SameEvents(u)
    BY <1>1, <2>1, <2>2, <2>3 DEF SameEvents, TypeOK
  <2>5. EventsInv(r)'
    BY <1>1, <2>1, <2>3 DEF EventsInv, InCallback, AllHeard, TypeOK
  <2>6. \A u \in Ranks : EventsInv(u)'
    BY <1>1, <2>1, <2>4, <2>5, SameKeepsEvents DEF HeardInv
  <2>7. \A h \in hearing' : HearingInv(h)'
    BY <1>6, <2>1, <2>2, <2>4 DEF InCallback
  <2>8. ASSUME NEW w \in told' PROVE ToldInv(w)'
    <3>1. w \in told /\ w.to \in Ranks /\ ToldInv(w) /\ w.round \in Nat
      BY <1>1, <2>1, <2>8, WriteFields, WriteRoundsAssumption DEF TypeOK, HeardInv, SameSets
    <3>2. CASE w.to # r
      BY <2>3, <2>4, <3>1, <3>2 DEF ToldInv
    <3>3. CASE w.to = r
      <4>1. (it'[r] = it[r] /\ x = "done") \/ it'[r] = it[r] + 1
        BY <1>1, <2>2 DEF TypeOK
      <4> QED
        BY <1>3, <2>3, <3>1, <3>3, <4>1 DEF ToldInv
    <3> QED
      BY <3>2, <3>3
  <2>9. HeardInv'
    BY <2>1, <2>6, <2>7, <2>8 DEF HeardInv
  <2>10. DataInv' /\ \A u \in Ranks : pc'[u] # "failed"
    BY <1>4, <2>1, <2>2
  <2> QED
    BY <2>9, <2>10 DEF Clean
<1> QED
  BY <1>7, <1>9, <1>10

\* Data arrives, and completions, without disturbing what is said.
LEMMA DeliveryClean ==
  ASSUME RIInv, Clean, NEW w \in Write, Place(w) \/ Ack(w)
  PROVE  Clean'
<1>1. TypeOK /\ HeardInv /\ DataInv
  BY DEF RIInv, Clean
<1>2. /\ SameSets /\ \A u \in Ranks : SameEvents(u)
      /\ UNCHANGED <<protocol, it, pc>>
  BY DEF Place, Ack, mainVars, eventVars, SameSets, SameEvents
<1>3. HeardInv'
  <2>1. \A h \in hearing' : HearingInv(h)'
    BY <1>1, <1>2 DEF HeardInv, HearingInv, SameSets
  <2>2. \A v \in told' : ToldInv(v)'
    BY <1>1, <1>2 DEF HeardInv, ToldInv, SameSets
  <2> QED
    BY <1>1, <1>2, <2>1, <2>2, SameKeepsEvents DEF HeardInv, SameSets
<1>4. DataInv'
  <2>1. CASE Ack(w)
    BY <1>1, <1>2, <2>1 DEF Ack, DataInv, Good, Peers
  <2>2. CASE Place(w)
    <3>1. /\ placed' = placed \cup {w}
          /\ buffer' = [buffer EXCEPT ![w.to][w.from] = w.round]
          /\ w.to \in Ranks /\ w.from \in Ranks /\ w.round # 0
      BY <2>2, WriteFields, WriteRoundsAssumption DEF Place
    <3>2. \A u, q \in Ranks : buffer'[u][q] = IF u = w.to /\ q = w.from THEN w.round ELSE buffer[u][q]
      BY <1>1, <3>1 DEF TypeOK
    <3>3. ASSUME NEW v \in placed', v.round >= it'[v.to] PROVE buffer'[v.to][v.from] # 0
      <4>1. v \in placed \/ v = w
        BY <3>1
      <4>2. v.to \in Ranks /\ v.from \in Ranks
        BY <1>1, <3>1, <4>1, WriteFields DEF TypeOK
      <4> QED
        BY <1>1, <1>2, <3>1, <3>2, <3>3, <4>1, <4>2 DEF DataInv
    <3>4. ASSUME NEW u \in Ranks, pc'[u] = "verify", NEW q \in Peers(u)' PROVE Good(u, q)'
      BY <1>1, <1>2, <3>1, <3>2, <3>4 DEF DataInv, Good, Peers
    <3> QED
      BY <3>3, <3>4 DEF DataInv
  <2> QED
    BY <2>1, <2>2
<1> QED
  BY <1>2, <1>3, <1>4 DEF Clean

\* Writes of different peers, or to different ranks, are different events.
LEMMA EventsDiffer ==
  ASSUME NEW u, NEW v, NEW p, NEW q, NEW s, NEW t, Event(p, u, s) = Event(q, v, t)
  PROVE  p = q /\ u = v /\ s = t
<1>1. /\ Event(p, u, s).write = RoundWrite(p, u) /\ Event(p, u, s).step = s
      /\ Event(q, v, t).write = RoundWrite(q, v) /\ Event(q, v, t).step = t
  BY DEF Event
<1>2. RoundWrite(p, u) = RoundWrite(q, v)
  BY <1>1
<1>3. /\ RoundWrite(p, u).from = p /\ RoundWrite(p, u).to = u
      /\ RoundWrite(q, v).from = q /\ RoundWrite(q, v).to = v
  BY DEF RoundWrite
<1> QED
  BY <1>1, <1>2, <1>3

\* An event that is not missed finds the callback of its round.
LEMMA HeardInTime ==
  ASSUME RIInv, Clean, NEW w \in Write, Hear(w), missed' = {}
  PROVE  /\ pc[w.to] \in InCallback /\ w = RoundWrite(w.from, w.to) /\ w \notin told
         /\ protocol = "writedata" /\ UNCHANGED <<protocol, it, pc, scope, ok, seen, processed>>
         /\ told' = told \cup {w}
         /\ hearing' = hearing \cup {Event(w.from, w.to, "check")}
<1>1. TypeOK /\ HeardInv
  BY DEF RIInv, Clean
<1>2. /\ protocol = "writedata" /\ w \in posted \ told /\ scope[w.to] = w.round
      /\ UNCHANGED <<protocol, it, scope, ok, seen, processed>>
      /\ told' = told \cup {w}
      /\ \/ pc' = pc
         \/ pc[w.to] \in {"install", "uninstall"}
  BY DEF Hear
<1>3. /\ w.to \in Ranks /\ w.from \in Peers(w.to) /\ w.round \in Nat /\ w.round # 0
      /\ w = [from |-> w.from, to |-> w.to, round |-> w.round]
  BY WriteFields, WriteRoundsAssumption
<1>4. EventsInv(w.to) /\ pc[w.to] \in Steps /\ pc[w.to] # "failed"
  BY <1>1, <1>2, <1>3 DEF HeardInv, TypeOK, Clean
<1>5. pc[w.to] \in InCallback \cup AllHeard
  BY <1>2, <1>3, <1>4 DEF EventsInv, Steps, InCallback, AllHeard
<1>6. w.round = it[w.to] /\ w = RoundWrite(w.from, w.to)
  BY <1>2, <1>3, <1>4, <1>5 DEF EventsInv, RoundWrite
<1>7. pc[w.to] \in InCallback
  <2>1. w.from \notin CountedOf(w.to)
    BY <1>2, <1>6 DEF CountedOf, ComparedOf, ToldOf
  <2> QED
    BY <1>3, <1>4, <1>5, <2>1 DEF EventsInv
<1>8. pc' = pc
  BY <1>2, <1>7 DEF InCallback
<1>9. hearing' = hearing \cup {Event(w.from, w.to, "check")}
  <2>1. hearing' = hearing \cup {[write |-> w, scope |-> scope[w.to], step |-> "check"]}
    BY <1>2, <1>3 DEF Hear
  <2> QED
    BY <1>2, <1>6, <2>1 DEF Event
<1> QED
  BY <1>2, <1>6, <1>7, <1>8, <1>9

\* It runs the callback, which has not yet compared it.
LEMMA HearClean ==
  ASSUME RIInv, Clean, NEW w \in Write, Hear(w), missed' = {}
  PROVE  Clean'
<1>1. TypeOK /\ HeardInv /\ DataInv
  BY DEF RIInv, Clean
<1> DEFINE r == w.to
           p == w.from
<1>2. /\ pc[r] \in InCallback /\ w = RoundWrite(p, r) /\ w \notin told
      /\ protocol = "writedata" /\ UNCHANGED <<protocol, it, pc, scope, ok, seen, processed>>
      /\ told' = told \cup {w}
      /\ hearing' = hearing \cup {Event(p, r, "check")}
  BY HeardInTime
<1>3. r \in Ranks /\ p \in Peers(r)
  BY WriteFields
<1>4. \A u, q, s : /\ RoundWrite(q, u)' = RoundWrite(q, u)
                   /\ Event(q, u, s)' = Event(q, u, s)
  BY <1>2 DEF RoundWrite, Event
<1>5. ASSUME NEW u \in Ranks
      PROVE  ComparedOf(u)' = ComparedOf(u) /\ CountedOf(u)' = CountedOf(u)
  <2>1. ASSUME NEW q PROVE q \in ComparedOf(u)' <=> q \in ComparedOf(u)
    <3>1. CASE q = p /\ u = r
      BY <1>2, <1>4, <3>1 DEF ComparedOf, ToldOf
    <3>2. CASE ~(q = p /\ u = r)
      <4>1. RoundWrite(q, u) # w
        BY <1>2, <3>2 DEF RoundWrite
      <4>2. Event(q, u, "check") # Event(p, r, "check")
        BY <3>2, EventsDiffer
      <4> QED
        BY <1>2, <1>4, <4>1, <4>2 DEF ComparedOf, ToldOf, Peers
    <3> QED
      BY <3>1, <3>2
  <2>2. ComparedOf(u)' = ComparedOf(u)
    BY <2>1 DEF ComparedOf
  <2>3. \A q : Event(q, u, "count") # Event(p, r, "check")
    BY EventsDiffer
  <2> QED
    BY <1>2, <1>4, <2>2, <2>3 DEF CountedOf
<1>6. ASSUME NEW u \in Ranks PROVE EventsInv(u)'
  BY <1>1, <1>2, <1>5 DEF HeardInv, EventsInv, Peers
<1>7. ASSUME NEW h \in hearing' PROVE HearingInv(h)'
  <2>1. CASE h \in hearing
    <3>1. HearingInv(h) /\ h.write # w
      BY <1>1, <1>2, <2>1 DEF HeardInv, HearingInv
    <3>2. \A s : [h EXCEPT !.step = s] # Event(p, r, "check")
      <4>1. \A s : [h EXCEPT !.step = s] = Event(h.write.from, h.write.to, s)
        BY <1>1, <2>1, <3>1, RunningEvent
      <4>2. h.write = RoundWrite(h.write.from, h.write.to)
        BY <1>1, <2>1, <3>1, RunningEvent
      <4> QED
        BY <1>2, <3>1, <4>1, <4>2, EventsDiffer
    <3> QED
      BY <1>2, <2>1, <3>1, <3>2 DEF HearingInv
  <2>2. CASE h = Event(p, r, "check")
    <3>1. /\ h.write = w /\ h.scope = it[r] /\ w.round = it[r]
          /\ [h EXCEPT !.step = "count"] = Event(p, r, "count")
      BY <1>2, <2>2 DEF Event, RoundWrite
    <3>2. Event(p, r, "count") \notin hearing
      <4>1. Event(p, r, "count").write = w
        BY <1>2 DEF Event
      <4> QED
        BY <1>1, <1>2, <4>1 DEF HeardInv, HearingInv
    <3>3. Event(p, r, "count") # Event(p, r, "check")
      BY EventsDiffer
    <3> QED
      BY <1>2, <3>1, <3>2, <3>3 DEF HearingInv
  <2> QED
    BY <1>2, <1>7, <2>1, <2>2
<1>8. ASSUME NEW v \in told' PROVE ToldInv(v)'
  <2>1. CASE v \in told
    BY <1>1, <1>2, <2>1 DEF HeardInv, ToldInv
  <2>2. CASE v = w
    BY <1>1, <1>2, <1>3, <2>2, WriteRoundsAssumption DEF ToldInv, RoundWrite, InCallback, TypeOK
  <2> QED
    BY <1>2, <1>8, <2>1, <2>2
<1>9. HeardInv'
  BY <1>2, <1>6, <1>7, <1>8 DEF HeardInv
<1>10. DataInv'
  BY <1>1, <1>2 DEF Hear, DataInv, Good, Peers
<1> QED
  BY <1>2, <1>9, <1>10 DEF Clean

\* While no write comes too early a callback runs on live locals.
LEMMA RunningInRound ==
  ASSUME RIInv, Clean, NEW h \in hearing
  PROVE  /\ protocol = "writedata" /\ pc[h.write.to] \in InCallback
         /\ ~Dangling(h) /\ ok[h.write.to] /\ h.write.round = h.scope
<1>1. TypeOK /\ HeardInv /\ HearingInv(h)
  BY DEF RIInv, Clean, HeardInv
<1>2. h.write.to \in Ranks /\ protocol = "writedata"
  BY <1>1, RunningEvent DEF HeardInv
<1> QED
  BY <1>1, <1>2 DEF HearingInv, HeardInv, EventsInv, Dangling

\* What holds after a callback's step on rank r, given what it says of r.
LEMMA CallbackKeeps ==
  ASSUME RIInv, Clean, NEW r \in Ranks, EventsInv(r)', protocol = "writedata",
         NEW p, NEW S, S \in {{}, {Event(p, r, "count")}},
         S # {} => p \in ToldOf(r) /\ pc[r] \in InCallback,
         NEW s, hearing' = (hearing \ {Event(p, r, s)}) \cup S,
         S # {} => s = "check",
         UNCHANGED <<protocol, it, pc, scope, told, buffer, placed>>,
         \A u \in Ranks : u # r => /\ ok'[u] = ok[u] /\ seen'[u] = seen[u]
                                   /\ processed'[u] = processed[u]
  PROVE  Clean'
<1>1. TypeOK /\ HeardInv /\ DataInv
  BY DEF RIInv, Clean
<1>2. \A u, q, t : /\ RoundWrite(q, u)' = RoundWrite(q, u)
                   /\ Event(q, u, t)' = Event(q, u, t)
  BY DEF RoundWrite, Event
<1>3. ASSUME NEW u \in Ranks, u # r PROVE EventsInv(u)'
  <2>1. \A q, t : Event(q, u, t) \in hearing' <=> Event(q, u, t) \in hearing
    <3>1. \A q, t, x, y : Event(q, u, t) # Event(x, r, y)
      BY <1>3, EventsDiffer
    <3> QED
      BY <3>1
  <2>2. ToldOf(u)' = ToldOf(u)
    BY <1>2 DEF ToldOf, Peers
  <2>3. ComparedOf(u)' = ComparedOf(u)
    BY <1>2, <2>1, <2>2 DEF ComparedOf
  <2>4. CountedOf(u)' = CountedOf(u)
    BY <1>2, <2>1, <2>3 DEF CountedOf
  <2> QED
    BY <1>1, <1>3, <2>3, <2>4 DEF HeardInv, EventsInv, Peers
<1>4. ASSUME NEW h \in hearing' PROVE HearingInv(h)'
  <2>1. CASE h \in hearing
    <3>1. HearingInv(h)
      BY <1>1, <2>1 DEF HeardInv
    <3>2. \/ [h EXCEPT !.step = "check"] \notin hearing'
          \/ [h EXCEPT !.step = "count"] \notin hearing'
      <4>1. \A t : [h EXCEPT !.step = t] = Event(h.write.from, h.write.to, t)
        BY <1>1, <2>1, <3>1, RunningEvent
      <4>2. CASE h.write.from = p /\ h.write.to = r /\ S # {}
        <5>1. [h EXCEPT !.step = "check"] = Event(p, r, "check")
          BY <4>1, <4>2
        <5>2. Event(p, r, "check") # Event(p, r, "count")
          BY EventsDiffer
        <5> QED
          BY <4>2, <5>1, <5>2
      <4>3. CASE ~(h.write.from = p /\ h.write.to = r /\ S # {})
        <5>1. \A t : [h EXCEPT !.step = t] \notin S
          BY <4>1, <4>3, EventsDiffer
        <5> QED
          BY <3>1, <5>1 DEF HearingInv
      <4> QED
        BY <4>2, <4>3
    <3> QED
      BY <3>1, <3>2 DEF HearingInv
  <2>2. CASE h \in S
    <3>1. h = Event(p, r, "count") /\ p \in ToldOf(r) /\ pc[r] \in InCallback /\ s = "check"
      BY <2>2
    <3>2. /\ h.write = RoundWrite(p, r) /\ h.scope = it[r]
          /\ h.write.to = r /\ h.write.round = it[r]
          /\ [h EXCEPT !.step = "check"] = Event(p, r, "check")
      BY <3>1 DEF Event, RoundWrite
    <3>3. Event(p, r, "check") # Event(p, r, "count")
      BY EventsDiffer
    <3>4. [h EXCEPT !.step = "check"] \notin hearing'
      BY <3>1, <3>2, <3>3
    <3>5. h.write \in told
      BY <3>1, <3>2 DEF ToldOf
    <3> QED
      BY <3>1, <3>2, <3>4, <3>5 DEF HearingInv
  <2> QED
    BY <1>4, <2>1, <2>2
<1>5. \A w \in told' : ToldInv(w)'
  BY <1>1 DEF HeardInv, ToldInv
<1>6. HeardInv'
  BY <1>3, <1>4, <1>5 DEF HeardInv
<1>7. DataInv'
  BY <1>1 DEF DataInv, Good, Peers
<1> QED
  BY <1>6, <1>7 DEF Clean

\* Comparing an event notes its sender.
LEMMA CheckedClean ==
  ASSUME RIInv, Clean, NEW h \in hearing, Checked(h)
  PROVE  Clean'
<1>1. TypeOK /\ HeardInv /\ HearingInv(h)
  BY DEF RIInv, Clean, HeardInv
<1> DEFINE r == h.write.to
           p == h.write.from
<1>2. /\ r \in Ranks /\ p \in ToldOf(r) /\ h.step = "check" /\ h = Event(p, r, "check")
      /\ [h EXCEPT !.step = "count"] = Event(p, r, "count")
  <2>1. /\ r \in Ranks /\ p \in ToldOf(r) /\ h = Event(p, r, h.step)
        /\ \A s : [h EXCEPT !.step = s] = Event(p, r, s)
    BY <1>1, RunningEvent
  <2>2. h.step = "check"
    BY DEF Checked
  <2> QED
    BY <2>1, <2>2
<1>3. /\ protocol = "writedata" /\ pc[r] \in InCallback
      /\ ~Dangling(h) /\ ok[r] /\ h.write.round = h.scope
  BY RunningInRound
<1>4. /\ hearing' = (hearing \ {Event(p, r, "check")}) \cup {Event(p, r, "count")}
      /\ ok' = [ok EXCEPT ![r] = TRUE]
      /\ seen' = [seen EXCEPT ![r] = @ \cup {p}]
      /\ UNCHANGED <<protocol, it, pc, scope, told, buffer, placed, processed>>
  <2>1. /\ hearing' = (hearing \ {Event(p, r, "check")}) \cup {Event(p, r, "count")}
        /\ UNCHANGED <<protocol, it, scope, told, buffer, placed, processed>>
    BY <1>2 DEF Checked, netVars
  <2>2. /\ ok' = [ok EXCEPT ![r] = ok[r] /\ h.write.round = h.scope]
        /\ seen' = IF ok[r] /\ h.write.round = h.scope
                   THEN [seen EXCEPT ![r] = @ \cup {p}] ELSE seen
        /\ pc' = pc
    BY <1>3 DEF Checked
  <2>3. (ok[r] /\ h.write.round = h.scope) = TRUE
    BY <1>3
  <2> QED
    BY <2>1, <2>2, <2>3
<1>5. \A q, s : /\ RoundWrite(q, r)' = RoundWrite(q, r)
                /\ Event(q, r, s)' = Event(q, r, s)
  BY <1>4 DEF RoundWrite, Event
<1>6. ToldOf(r)' = ToldOf(r)
  BY <1>4, <1>5 DEF ToldOf, Peers
<1>7. \A q : /\ q # p => /\ Event(q, r, "check") # Event(p, r, "check")
                         /\ Event(q, r, "count") # Event(p, r, "count")
             /\ Event(q, r, "check") # Event(p, r, "count")
             /\ Event(q, r, "count") # Event(p, r, "check")
  BY EventsDiffer
<1>8. ComparedOf(r)' = ComparedOf(r) \cup {p}
  BY <1>2, <1>4, <1>5, <1>6, <1>7 DEF ComparedOf
<1>9. CountedOf(r)' = CountedOf(r)
  <2>1. p \notin ComparedOf(r)
    BY <1>2 DEF ComparedOf
  <2> QED
    BY <1>4, <1>5, <1>7, <1>8, <2>1 DEF CountedOf
<1>10. EventsInv(r)'
  <2>1. EventsInv(r)
    BY <1>1, <1>2, <1>3 DEF HeardInv
  <2>2. ok'[r] /\ seen'[r] = seen[r] \cup {p}
    BY <1>1, <1>2, <1>4 DEF TypeOK
  <2> QED
    BY <1>3, <1>4, <1>8, <1>9, <2>1, <2>2 DEF EventsInv, InCallback, AllHeard
<1>11. \A u \in Ranks : u # r => /\ ok'[u] = ok[u] /\ seen'[u] = seen[u]
                                 /\ processed'[u] = processed[u]
  BY <1>1, <1>4 DEF TypeOK
<1> DEFINE S == {Event(p, r, "count")}
<1>12. hearing' = (hearing \ {Event(p, r, "check")}) \cup S /\ S \in {{}, {Event(p, r, "count")}}
  BY <1>4
<1> HIDE DEF S, r, p
<1> QED
  BY <1>2, <1>3, <1>4, <1>10, <1>11, <1>12, CallbackKeeps

\* Counting it counts another sender.
LEMMA CountedClean ==
  ASSUME RIInv, Clean, NEW h \in hearing, Counted(h)
  PROVE  Clean'
<1>1. TypeOK /\ HeardInv /\ HearingInv(h)
  BY DEF RIInv, Clean, HeardInv
<1> DEFINE r == h.write.to
           p == h.write.from
<1>2. /\ r \in Ranks /\ p \in ToldOf(r) /\ h = Event(p, r, "count")
      /\ Event(p, r, "check") \notin hearing
  <2>1. /\ r \in Ranks /\ p \in ToldOf(r) /\ h = Event(p, r, h.step)
        /\ \A s : [h EXCEPT !.step = s] = Event(p, r, s)
    BY <1>1, RunningEvent
  <2>2. h.step = "count"
    BY DEF Counted
  <2> QED
    BY <1>1, <2>1, <2>2 DEF HearingInv
<1>3. protocol = "writedata" /\ pc[r] \in InCallback /\ ~Dangling(h)
  BY RunningInRound
<1>4. /\ hearing' = hearing \ {Event(p, r, "count")}
      /\ processed' = [processed EXCEPT ![r] = @ + 1]
      /\ UNCHANGED <<protocol, it, pc, scope, told, buffer, placed, ok, seen>>
  BY <1>2, <1>3 DEF Counted, netVars
<1>5. \A q, s : /\ RoundWrite(q, r)' = RoundWrite(q, r)
                /\ Event(q, r, s)' = Event(q, r, s)
  BY <1>4 DEF RoundWrite, Event
<1>6. ToldOf(r)' = ToldOf(r)
  BY <1>4, <1>5 DEF ToldOf, Peers
<1>7. \A q : /\ q # p => Event(q, r, "count") # Event(p, r, "count")
             /\ Event(q, r, "check") # Event(p, r, "count")
  BY EventsDiffer
<1>8. ComparedOf(r)' = ComparedOf(r)
  BY <1>4, <1>5, <1>6, <1>7 DEF ComparedOf
<1>9. CountedOf(r)' = CountedOf(r) \cup {p} /\ p \notin CountedOf(r)
  BY <1>2, <1>4, <1>5, <1>7, <1>8 DEF CountedOf, ComparedOf
<1>10. Cardinality(CountedOf(r)') = Cardinality(CountedOf(r)) + 1
  <2>1. IsFiniteSet(CountedOf(r))
    BY <1>2, PeersFinite, FS_Subset DEF CountedOf, ComparedOf, ToldOf
  <2> QED
    BY <1>9, <2>1, FS_AddElement
<1>11. EventsInv(r)'
  <2>1. EventsInv(r)
    BY <1>1, <1>2, <1>3 DEF HeardInv
  <2>2. processed'[r] = processed[r] + 1
    BY <1>1, <1>2, <1>4 DEF TypeOK
  <2> QED
    BY <1>3, <1>4, <1>8, <1>10, <2>1, <2>2 DEF EventsInv, InCallback, AllHeard
<1>12. \A u \in Ranks : u # r => /\ ok'[u] = ok[u] /\ seen'[u] = seen[u]
                                 /\ processed'[u] = processed[u]
  BY <1>1, <1>4 DEF TypeOK
<1>13. hearing' = (hearing \ {Event(p, r, "count")}) \cup {}
  BY <1>4
<1> HIDE DEF r, p
<1> QED
  BY <1>2, <1>3, <1>4, <1>11, <1>12, <1>13, CallbackKeeps
-----------------------------------------------------------------------------
(* Theorems about failures.                                               *)

\* Nothing is missed, and nobody has failed, before the first round.
LEMMA CleanInit == Init => CleanInv
<1> SUFFICES ASSUME Init PROVE CleanInv
  OBVIOUS
<1>1. /\ posted = {} /\ placed = {} /\ acked = {} /\ told = {} /\ hearing = {}
      /\ \A r \in Ranks : pc[r] = Start /\ scope[r] = 0 /\ it[r] = 1 /\ ok[r]
                          /\ processed[r] = 0 /\ seen[r] = {}
  BY DEF Init
<1>2. AckInv
  BY <1>1 DEF AckInv
<1>3. \A r \in Ranks : pc[r] # "failed" /\ pc[r] # "verify"
  BY <1>1 DEF Start
<1>4. ASSUME protocol = "writedata", NEW r \in Ranks PROVE EventsInv(r)
  <2>1. pc[r] = "install" /\ scope[r] = 0
    BY <1>1, <1>4 DEF Start
  <2> QED
    BY <2>1 DEF EventsInv, InCallback, AllHeard
<1>5. Clean
  BY <1>1, <1>3, <1>4 DEF Clean, DataInv, HeardInv
<1> QED
  BY <1>2, <1>5 DEF CleanInv

\* Every step keeps it: either something is missed, or all goes well.
LEMMA CleanStep == RIInv /\ CleanInv /\ [Next]_vars => CleanInv'
<1> SUFFICES ASSUME RIInv, CleanInv, [Next]_vars PROVE CleanInv'
  OBVIOUS
<1>1. AckInv /\ TypeOK
  BY DEF CleanInv, RIInv
<1>2. CASE UNCHANGED vars
  BY <1>1, <1>2
  DEF vars, mainVars, netVars, eventVars, CleanInv, AckInv, Clean, DataInv, HeardInv,
      EventsInv, HearingInv, ToldInv, Good, Peers, ToldOf, ComparedOf, CountedOf, Event,
      RoundWrite
<1>3. CASE Next
  <2>1. AckInv'
    BY <1>1, <1>3, AckKeeps
  <2>2. ASSUME missed' = {} PROVE Clean'
    <3>1. ASSUME missed = {} PROVE Clean
      BY <3>1 DEF CleanInv
    <3>2. ASSUME NEW r \in Ranks, Main(r) PROVE Clean'
      <4>1. missed = {}
        BY <2>2, <3>2 DEF Main, Install, Clear, PostWrite, WritesAwaited, EventsAwaited,
             SendersChecked, Visible, TimedOut, Verified, RoundOver, Uninstall
      <4> QED
        BY <1>1, <2>2, <3>1, <3>2, <4>1, WaitsClean, ClearClean, RoundClean DEF Main
    <3>3. ASSUME NEW w \in Write, Deliver(w) PROVE Clean'
      <4>1. missed = {}
        BY <2>2, <3>3 DEF Deliver, Place, Ack, Hear
      <4> QED
        BY <2>2, <3>1, <3>3, <4>1, DeliveryClean, HearClean DEF Deliver
    <3>4. ASSUME NEW h \in hearing, Callback(h) PROVE Clean'
      <4>1. missed = {}
        BY <2>2, <3>4 DEF Callback, Checked, Counted
      <4> QED
        BY <3>1, <3>4, <4>1, CheckedClean, CountedClean DEF Callback
    <3> QED
      BY <1>3, <3>2, <3>3, <3>4 DEF Next
  <2> QED
    BY <2>1, <2>2 DEF CleanInv
<1> QED
  BY <1>2, <1>3

\* For any number of ranks and rounds a rank fails, by a timeout, a wrong event,
\* a missing sender, wrong data or a callback on locals that have gone, only if
\* some write came before its target was ready for it.
THEOREM OnlyMissedWritesFail == Spec => []OnlyMissedFails
<1>1. CleanInv => OnlyMissedFails
  BY DEF CleanInv, Clean, OnlyMissedFails
<1>2. RIInv /\ CleanInv /\ [Next]_vars => CleanInv'
  BY CleanStep
<1> QED
  BY <1>1, <1>2, CleanInit, RoundsInvariance, PTL DEF Spec

\* Until then what a running callback captured is still there: the promise of
\* remote_cq_data_callback_scope is only broken after some write came too early.
THEOREM CapturedLiveUnlessMissed == Spec => [](missed = {} => CapturedStateLives)
<1>1. RIInv /\ CleanInv => (missed = {} => CapturedStateLives)
  <2> SUFFICES ASSUME RIInv, CleanInv, missed = {}, NEW h \in hearing
               PROVE  scope[h.write.to] = h.scope
    BY DEF CapturedStateLives
  <2> QED
    BY RunningInRound DEF CleanInv, Dangling
<1>2. RIInv /\ CleanInv /\ [Next]_vars => CleanInv'
  BY CleanStep
<1> QED
  BY <1>1, <1>2, CleanInit, RoundsInvariance, PTL DEF Spec
=============================================================================
