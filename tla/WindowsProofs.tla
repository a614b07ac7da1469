---------------------------- MODULE WindowsProofs ----------------------------
(***************************************************************************)
(* Proofs about Windows, for any number of ranks, sizes and iterations.    *)
(*                                                                         *)
(* The semaphore: fences keep the ranks within a fence of each other; a    *)
(* rank leaves a window only with the signals of all peers in its slots;   *)
(* so no peer can signal the next size to a rank that still waits for      *)
(* this one, and no signal can come after its window - if MinShift is not  *)
(* 0, which the zeroes in the slots would answer for.                      *)
(*                                                                         *)
(* The counters: as long as their width holds the run (WindowsAssumption), *)
(* what a rank posted is what completed and what the provider has, the     *)
(* throttles bound the latter, and a window ends when it is nothing.       *)
(***************************************************************************)
EXTENDS Windows, Integers, TLAPS

\* How many fences a rank has come to in its window.
Offset(step) ==
  CASE step \in {"fence1", "warmup"}  -> 1
    [] step \in {"fence2", "measure"} -> 2
    [] step \in {"fence4", "done"}    -> 4
    [] OTHER                          -> 3

Fences == {"fence1", "fence2", "fence3", "fence4"}

\* The number of fences a rank has come to follows from where it is.
FenceCount(r) ==
  /\ arrived[r] = 3 * (shift[r] - MinShift) + Offset(pc[r])
  /\ pc[r] \in {"fence4", "done"} => shift[r] = MaxShift

\* Nobody is past a fence that somebody has not come to.
Together(r) ==
  \A p \in Ranks : /\ arrived[p] >= arrived[r] - 1
                   /\ pc[r] \notin Fences => arrived[p] >= arrived[r]

FenceInv == \A r \in Ranks : FenceCount(r) /\ Together(r)

InSemaphore == {"signal", "signalled", "semaphore"}
AfterWindow == {"fence3", "failed"} \cup InSemaphore

\* p has signalled the window it is in.
Sent(p) == pc[p] \in {"signalled", "semaphore", "fence4", "done"}

\* A slot never runs ahead of the rank that writes it, ...
SlotInv(r, p) ==
  /\ slot[r][p] <= shift[p]
  /\ ~Sent(p) => slot[r][p] < shift[p]
  \* ... and holds the signal of every window its owner has left.
  /\ bench = "write" =>
       /\ shift[r] > MinShift => slot[r][p] >= shift[r] - 1
       /\ pc[r] \in {"fence4", "done"} => slot[r][p] >= MaxShift

\* A signal on its way finds its target in the window it belongs to.
SignalInv(g) ==
  /\ g.from # g.to
  /\ shift[g.to] = g.shift
  /\ pc[g.to] \in AfterWindow
  /\ slot[g.to][g.from] < g.shift
  /\ g.shift <= shift[g.from]
  /\ g.shift = shift[g.from] => Sent(g.from)

SemaphoreInv ==
  /\ \A r \in Ranks : pc[r] \in InSemaphore => bench = "write"
  /\ bench # "write" => signals = {}
  /\ \A r \in Ranks : \A p \in Peers(r) : SlotInv(r, p)
  /\ \A g \in signals : SignalInv(g)

WInv == TypeOK /\ FenceInv /\ SemaphoreInv
-----------------------------------------------------------------------------
(* Types.                                                                  *)

\* The constants are numbers.
LEMMA Numbers ==
  /\ N \in Nat /\ N >= 2 /\ MinShift \in Nat /\ MaxShift \in Nat /\ MinShift <= MaxShift
  /\ Iterations \in Nat /\ Wrap \in Nat /\ Warmup = 1 /\ Ranks \subseteq Nat /\ Shifts \subseteq Nat
  /\ \A b \in Shifts : MinShift <= b /\ b <= MaxShift
  BY WindowsAssumption DEF Ranks, Shifts, Warmup

\* Sizes, slots and fence counts are numbers.
LEMMA NumbersOf ==
  ASSUME TypeOK, NEW q \in Ranks, NEW p \in Ranks
  PROVE  /\ slot[q][p] \in Nat
         /\ shift[p] \in Nat /\ MinShift <= shift[p] /\ shift[p] <= MaxShift
         /\ arrived[p] \in Nat
<1>1. slot[q][p] \in {0} \cup Shifts /\ shift[p] \in Shifts /\ arrived[p] \in Nat
  BY DEF TypeOK
<1>2. MinShift \in Nat /\ MaxShift \in Nat
  BY Numbers
<1>3. slot[q][p] \in Nat
  <2>1. CASE slot[q][p] = 0
    BY <2>1
  <2>2. CASE slot[q][p] \in Shifts
    BY <1>2, <2>2 DEF Shifts
  <2> QED
    BY <1>1, <2>1, <2>2
<1>4. shift[p] \in Nat /\ MinShift <= shift[p] /\ shift[p] <= MaxShift
  BY <1>1, <1>2 DEF Shifts
<1> QED
  BY <1>1, <1>3, <1>4

\* The counters have room for at least two values.
LEMMA RoomToCount == Wrap > 0 /\ Total \in Nat
<1>1. Total \in Nat
  <2>1. /\ MaxShift - MinShift + 1 \in Nat /\ Warmup + Iterations \in Nat /\ N - 1 \in Nat
    BY Numbers
  <2>2. \A a \in Nat, b \in Nat, c \in Nat : a * b * c \in Nat
    OBVIOUS
  <2> QED
    BY <2>1, <2>2 DEF Total
<1> QED
  BY <1>1, WindowsAssumption

\* What a counter may hold.
LEMMA ModTyped ==
  ASSUME NEW a \in Nat PROVE a % Wrap \in 0..(Wrap - 1)
<1>1. Wrap \in Nat /\ Wrap > 0
  BY RoomToCount, WindowsAssumption
<1> QED
  BY <1>1

\* What the windows expect is a number.
LEMMA ExpectedTyped ==
  ASSUME NEW n \in Nat PROVE Expected(n) \in Nat /\ n * (N - 1) \in Nat
<1>1. N - 1 \in Nat
  BY Numbers
<1> QED
  BY <1>1 DEF Expected

\* The operations posted are operations.
LEMMA PostsTyped == ASSUME TypeOK PROVE Posts \subseteq Ops
  BY WindowsAssumption DEF TypeOK, Posts, Ops

\* The variables have their types at the start.
LEMMA TypeInit == Init => TypeOK
<1> SUFFICES ASSUME Init PROVE TypeOK
  OBVIOUS
<1>1. 0 \in 0..(Wrap - 1)
  BY RoomToCount, Numbers
<1>2. MinShift \in Shifts
  BY Numbers DEF Shifts
<1> QED
  BY <1>1, <1>2 DEF Init, TypeOK, Zero, Steps

\* The window just begun has its numbers.
LEMMA StartTyped ==
  ASSUME TypeOK, NEW r \in Ranks, NEW n \in Nat, StartWindow(r, n)
  PROVE  /\ togo' \in [Ranks -> Nat]
         /\ target' \in [Ranks -> [Ops -> 0..(Wrap - 1)]]
<1>1. Expected(n) \in Nat /\ n * (N - 1) \in Nat /\ 2 * n \in Nat
  BY ExpectedTyped
<1>2. \A k \in Posts : (posted[r][k] + Expected(n)) % Wrap \in 0..(Wrap - 1)
  <2> TAKE k \in Posts
  <2>1. k \in Ops
    BY PostsTyped
  <2>2. posted[r][k] \in Nat
    BY <2>1, RoomToCount, Numbers DEF TypeOK
  <2>3. posted[r][k] + Expected(n) \in Nat
    BY <2>2, <1>1
  <2> QED
    BY <2>3, ModTyped
<1>3. [k \in Ops |-> IF k \in Posts THEN (posted[r][k] + Expected(n)) % Wrap
                     ELSE target[r][k]] \in [Ops -> 0..(Wrap - 1)]
  BY <1>2 DEF TypeOK
<1> QED
  BY <1>1, <1>3 DEF StartWindow, TypeOK

\* A rank that comes to the next window has a size.
LEMMA NextWindowTyped ==
  ASSUME TypeOK, NEW r \in Ranks, NextWindow(r)
  PROVE  /\ shift' \in [Ranks -> Shifts] /\ pc' \in [Ranks -> Steps]
         /\ arrived' \in [Ranks -> Nat]
<1>1. shift[r] < MaxShift => shift[r] + 1 \in Shifts
  BY Numbers DEF Shifts, TypeOK
<1> QED
  BY <1>1 DEF NextWindow, Arrive, Goto, Steps, TypeOK

\* Every step of a main thread keeps the types.
LEMMA TypeMain ==
  ASSUME TypeOK, NEW r \in Ranks, Main(r) PROVE TypeOK'
<1> USE DEF TypeOK, ctrVars, netVars, semVars, Goto, Steps, Arrive
<1>1. CASE WarmupStarts(r)
  BY <1>1, StartTyped, Numbers DEF WarmupStarts
<1>2. CASE MeasureStarts(r)
  BY <1>2, StartTyped, Numbers DEF MeasureStarts, CompleteBefore
<1>3. CASE PostOne(r)
  <2>1. NextOp(r) \in Ops
    BY WindowsAssumption DEF NextOp, Ops
  <2>2. togo[r] - 1 \in Nat
    BY <1>3 DEF PostOne
  <2>3. (posted[r][NextOp(r)] + 1) % Wrap \in 0..(Wrap - 1)
    <3>1. posted[r][NextOp(r)] + 1 \in Nat
      BY <2>1, Numbers
    <3> QED
      BY <3>1, ModTyped
  <2>4. flying[r][NextOp(r)][shift[r]] + 1 \in Nat
    BY <2>1
  <2>5. posted' \in [Ranks -> [Ops -> 0..(Wrap - 1)]]
    BY <1>3, <2>3 DEF PostOne
  <2>6. flying' \in [Ranks -> [Ops -> [Shifts -> Nat]]]
    BY <1>3, <2>1, <2>4 DEF PostOne
  <2>7. unread' \in [Ranks -> [Shifts -> Nat]]
    <3>1. CASE NextOp(r) = "send" /\ 1 - r \in Ranks
      <4>1. unread[1 - r][shift[r]] + 1 \in Nat
        BY <3>1
      <4>2. unread' = [unread EXCEPT ![1 - r][shift[r]] = unread[1 - r][shift[r]] + 1]
        BY <1>3, <3>1 DEF PostOne
      <4> QED
        BY <3>1, <4>1, <4>2
    <3>2. CASE NextOp(r) = "send" /\ 1 - r \notin Ranks
      <4>1. unread' = [unread EXCEPT ![1 - r][shift[r]] = unread[1 - r][shift[r]] + 1]
        BY <1>3, <3>2 DEF PostOne
      <4> QED
        BY <3>2, <4>1
    <3>3. CASE NextOp(r) # "send"
      BY <1>3, <3>3 DEF PostOne
    <3> QED
      BY <3>1, <3>2, <3>3
  <2>8. togo' \in [Ranks -> Nat]
    BY <1>3, <2>2 DEF PostOne
  <2> QED
    BY <1>3, <2>5, <2>6, <2>7, <2>8 DEF PostOne
<1>4. CASE Awaited(r)
  BY <1>4 DEF Awaited
<1>5. CASE Checked(r)
  BY <1>5, NextWindowTyped DEF Checked
<1>6. CASE SignalPeers(r)
  <2>1. {[from |-> r, to |-> p, shift |-> shift[r]] : p \in Peers(r)} \subseteq Signal
    BY DEF Signal, Peers
  <2>2. target' \in [Ranks -> [Ops -> 0..(Wrap - 1)]]
    BY <1>6 DEF SignalPeers, Ops
  <2> QED
    BY <1>6, <2>1, <2>2 DEF SignalPeers
<1>7. CASE SignalsAwaited(r)
  BY <1>7 DEF SignalsAwaited
<1>8. CASE SemaphorePassed(r)
  BY <1>8, NextWindowTyped DEF SemaphorePassed
<1>9. CASE Finalized(r)
  BY <1>9 DEF Finalized
<1> QED
  BY <1>1, <1>2, <1>3, <1>4, <1>5, <1>6, <1>7, <1>8, <1>9 DEF Main

\* Every step of the provider keeps the types.
LEMMA TypeNet ==
  ASSUME TypeOK,
         \/ \E r \in Ranks, k \in Ops, b \in Shifts : Completes(r, k, b)
         \/ \E g \in signals : Lands(g)
  PROVE TypeOK'
<1> USE DEF TypeOK, ctrVars, netVars, semVars
<1>1. ASSUME NEW r \in Ranks, NEW k \in Ops, NEW b \in Shifts, Completes(r, k, b)
      PROVE  TypeOK'
  <2>1. flying[r][k][b] - 1 \in Nat
    BY <1>1 DEF Completes
  <2>2. k = "recv" => unread[r][b] - 1 \in Nat
    BY <1>1 DEF Completes
  <2>3. (complete[r][k] + 1) % Wrap \in 0..(Wrap - 1)
    <3>1. complete[r][k] + 1 \in Nat
      BY Numbers
    <3> QED
      BY <3>1, ModTyped
  <2>4. flying' \in [Ranks -> [Ops -> [Shifts -> Nat]]]
    BY <1>1, <2>1 DEF Completes
  <2>5. unread' \in [Ranks -> [Shifts -> Nat]]
    BY <1>1, <2>2 DEF Completes
  <2>6. complete' \in [Ranks -> [Ops -> 0..(Wrap - 1)]]
    BY <1>1, <2>3 DEF Completes, CountCompletion
  <2> QED
    BY <1>1, <2>4, <2>5, <2>6 DEF Completes
<1>2. ASSUME NEW g \in signals, Lands(g) PROVE TypeOK'
  <2>1. g \in Signal
    OBVIOUS
  <2> QED
    BY <1>2, <2>1 DEF Lands, Signal
<1> QED
  BY <1>1, <1>2
-----------------------------------------------------------------------------
(* Fences.                                                                 *)

\* A rank that stays within its fence, or comes to the next one, leaves the
\* ranks together.
LEMMA FenceMove ==
  ASSUME TypeOK, TypeOK', FenceInv, NEW r \in Ranks,
         \A p \in Ranks \ {r} :
           pc'[p] = pc[p] /\ shift'[p] = shift[p] /\ arrived'[p] = arrived[p],
         FenceCount(r)',
         \/ /\ arrived'[r] = arrived[r]
            /\ pc'[r] \notin Fences => pc[r] \notin Fences \/ FenceOpen(r)
         \/ /\ arrived'[r] = arrived[r] + 1
            /\ pc'[r] \in Fences
            /\ pc[r] \notin Fences \/ FenceOpen(r)
  PROVE  FenceInv'
<1>1. ASSUME NEW p \in Ranks PROVE FenceCount(p)'
  BY DEF FenceInv, FenceCount, Offset
<1>2. ASSUME NEW p \in Ranks, NEW q \in Ranks
      PROVE  /\ arrived'[q] >= arrived'[p] - 1
             /\ pc'[p] \notin Fences => arrived'[q] >= arrived'[p]
  <2>1. /\ arrived[q] \in Nat /\ arrived[p] \in Nat
        /\ arrived[q] >= arrived[p] - 1
        /\ pc[p] \notin Fences => arrived[q] >= arrived[p]
        /\ p = r /\ FenceOpen(r) => arrived[q] >= arrived[p]
    BY DEF FenceInv, Together, FenceOpen, TypeOK
  <2>2. arrived'[p] \in Nat /\ arrived'[q] \in Nat
    BY DEF TypeOK
  <2>3. q # r => arrived'[q] = arrived[q]
    OBVIOUS
  <2>4. CASE p = r /\ q = r
    BY <2>2, <2>4
  <2>5. CASE p = r /\ q # r
    BY <2>1, <2>2, <2>3, <2>5
  <2>6. CASE p # r
    <3>1. pc'[p] = pc[p] /\ arrived'[p] = arrived[p]
      BY <2>6
    <3>2. arrived'[q] >= arrived[q]
      BY <2>1, <2>2, <2>3
    <3> QED
      BY <2>1, <2>2, <3>1, <3>2
  <2> QED
    BY <2>4, <2>5, <2>6
<1> QED
  BY <1>1, <1>2 DEF FenceInv, Together

\* Coming to the next window from past the last fence of this one.
LEMMA NextWindowCount ==
  ASSUME TypeOK, NEW r \in Ranks, FenceCount(r), Offset(pc[r]) = 3, NextWindow(r)
  PROVE  /\ FenceCount(r)'
         /\ arrived'[r] = arrived[r] + 1
         /\ pc'[r] \in Fences
         /\ \A p \in Ranks \ {r} :
              pc'[p] = pc[p] /\ shift'[p] = shift[p] /\ arrived'[p] = arrived[p]
<1>1. /\ shift[r] \in Nat /\ MinShift \in Nat /\ MaxShift \in Nat /\ shift[r] <= MaxShift
      /\ arrived[r] \in Nat
  BY Numbers DEF TypeOK
<1>2. /\ arrived'[r] = arrived[r] + 1
      /\ \A p \in Ranks \ {r} :
           pc'[p] = pc[p] /\ shift'[p] = shift[p] /\ arrived'[p] = arrived[p]
      /\ shift'[r] = IF shift[r] < MaxShift THEN shift[r] + 1 ELSE shift[r]
      /\ pc'[r] = IF shift[r] < MaxShift THEN "fence1" ELSE "fence4"
  BY DEF NextWindow, Arrive, Goto, TypeOK
<1>3. arrived[r] = 3 * (shift[r] - MinShift) + 3
  BY DEF FenceCount
<1>4. CASE shift[r] < MaxShift
  <2>1. pc'[r] = "fence1" /\ shift'[r] = shift[r] + 1 /\ Offset(pc[r])' = 1
    BY <1>2, <1>4 DEF Offset
  <2> QED
    BY <1>1, <1>2, <1>3, <2>1 DEF FenceCount, Fences
<1>5. CASE ~(shift[r] < MaxShift)
  <2>1. pc'[r] = "fence4" /\ shift'[r] = shift[r] /\ Offset(pc[r])' = 4
    BY <1>2, <1>5 DEF Offset
  <2> QED
    BY <1>1, <1>2, <1>3, <1>5, <2>1 DEF FenceCount, Fences
<1> QED
  BY <1>4, <1>5

\* Every step of a main thread keeps the ranks together.
LEMMA FenceMain ==
  ASSUME TypeOK, TypeOK', FenceInv, NEW r \in Ranks, Main(r) PROVE FenceInv'
<1>1. FenceCount(r)
  BY DEF FenceInv
<1>2. CASE (Checked(r) /\ pc'[r] \notin {"signal", "failed"}) \/ SemaphorePassed(r)
  <2>1. NextWindow(r) /\ Offset(pc[r]) = 3 /\ (pc[r] \notin Fences \/ FenceOpen(r))
    BY <1>2 DEF Checked, SemaphorePassed, Offset, Goto, TypeOK, Fences
  <2> QED
    BY <1>1, <2>1, NextWindowCount, FenceMove
<1>3. CASE Awaited(r)
  <2> USE DEF Awaited, Arrive, Goto, TypeOK, FenceCount, Offset, Fences
  <2>1. /\ \A p \in Ranks \ {r} :
             pc'[p] = pc[p] /\ shift'[p] = shift[p] /\ arrived'[p] = arrived[p]
        /\ arrived'[r] = arrived[r] + 1 /\ shift'[r] = shift[r]
        /\ pc'[r] \in {"fence2", "fence3"} /\ pc[r] \notin Fences
    BY <1>3
  <2>2. Offset(pc[r])' = Offset(pc[r]) + 1
    BY <1>3
  <2>3. FenceCount(r)'
    BY <1>1, <2>1, <2>2, Numbers
  <2> QED
    BY <2>1, <2>3, FenceMove
<1>4. CASE \/ WarmupStarts(r) \/ MeasureStarts(r) \/ PostOne(r) \/ SignalPeers(r)
           \/ SignalsAwaited(r) \/ Finalized(r)
           \/ Checked(r) /\ pc'[r] \in {"signal", "failed"}
  <2> USE DEF Goto, TypeOK
  <2>1. /\ shift' = shift /\ arrived' = arrived
        /\ \A p \in Ranks \ {r} : pc'[p] = pc[p]
        /\ pc'[r] \notin Fences
        /\ pc[r] \notin Fences \/ FenceOpen(r)
        /\ Offset(pc[r])' = Offset(pc[r])
        /\ pc'[r] \in {"fence4", "done"} => pc[r] \in {"fence4", "done"}
    <3>1. CASE WarmupStarts(r)
      BY <3>1 DEF WarmupStarts, Offset, Fences
    <3>2. CASE MeasureStarts(r)
      BY <3>2 DEF MeasureStarts, Offset, Fences
    <3>3. CASE PostOne(r)
      BY <3>3 DEF PostOne, Offset, Fences
    <3>4. CASE SignalPeers(r)
      BY <3>4 DEF SignalPeers, Offset, Fences
    <3>5. CASE SignalsAwaited(r)
      BY <3>5 DEF SignalsAwaited, Offset, Fences
    <3>6. CASE Finalized(r)
      BY <3>6 DEF Finalized, Offset, Fences
    <3>7. CASE Checked(r) /\ pc'[r] \in {"signal", "failed"}
      BY <3>7 DEF Checked, NextWindow, Arrive, Offset, Fences
    <3> QED
      BY <1>4, <3>1, <3>2, <3>3, <3>4, <3>5, <3>6, <3>7
  <2>2. FenceCount(r)'
    BY <1>1, <2>1 DEF FenceCount
  <2> QED
    BY <2>1, <2>2, FenceMove
<1> QED
  BY <1>2, <1>3, <1>4 DEF Main
-----------------------------------------------------------------------------
(* The semaphore.                                                          *)

\* Steps within a window, or of another rank's, that touch no signal.
LEMMA QuietKeeps ==
  ASSUME TypeOK, SemaphoreInv, NEW r \in Ranks,
         UNCHANGED <<bench, shift, slot, signals>>,
         \A p \in Ranks \ {r} : pc'[p] = pc[p],
         pc'[r] \in InSemaphore => bench = "write",
         pc[r] \in AfterWindow => pc'[r] \in AfterWindow,
         pc'[r] \in {"fence4", "done"} => pc[r] \in {"fence4", "done"},
         Sent(r) <=> Sent(r)'
  PROVE  SemaphoreInv'
<1>1. ASSUME NEW p \in Ranks
      PROVE  /\ pc'[p] \in InSemaphore => bench = "write"
             /\ pc[p] \in AfterWindow => pc'[p] \in AfterWindow
             /\ pc'[p] \in {"fence4", "done"} => pc[p] \in {"fence4", "done"}
             /\ Sent(p) <=> Sent(p)'
  BY DEF SemaphoreInv, Sent
<1>2. ASSUME NEW q \in Ranks, NEW p \in Peers(q) PROVE SlotInv(q, p)'
  <2>1. p \in Ranks /\ SlotInv(q, p)
    BY DEF SemaphoreInv, Peers
  <2> QED
    BY <1>1, <2>1 DEF SlotInv
<1>3. ASSUME NEW g \in signals PROVE SignalInv(g)'
  <2>1. g.to \in Ranks /\ g.from \in Ranks /\ SignalInv(g)
    BY DEF SemaphoreInv, TypeOK, Signal
  <2> QED
    BY <1>1, <2>1 DEF SignalInv
<1> QED
  BY <1>1, <1>2, <1>3 DEF SemaphoreInv, Peers

\* Leaving a window whose signals are all in the slots, or that has none.
LEMMA LeaveKeeps ==
  ASSUME TypeOK, TypeOK', SemaphoreInv, NEW r \in Ranks,
         NextWindow(r), UNCHANGED <<bench, slot, signals>>,
         pc[r] \notin {"fence4", "done"},
         bench = "write" => AllSignals(r) /\ Sent(r)
  PROVE  SemaphoreInv'
<1>1. /\ shift[r] \in Nat /\ MaxShift \in Nat /\ MinShift \in Nat /\ shift[r] <= MaxShift
      /\ MinShift <= shift[r]
  BY Numbers DEF TypeOK
<1>2. /\ \A p \in Ranks \ {r} : pc'[p] = pc[p] /\ shift'[p] = shift[p]
      /\ \/ shift'[r] = shift[r] + 1 /\ pc'[r] = "fence1"
         \/ shift'[r] = shift[r] /\ shift[r] = MaxShift /\ pc'[r] = "fence4"
  <2>1. /\ shift'[r] = IF shift[r] < MaxShift THEN shift[r] + 1 ELSE shift[r]
        /\ pc'[r] = IF shift[r] < MaxShift THEN "fence1" ELSE "fence4"
        /\ \A p \in Ranks \ {r} : pc'[p] = pc[p] /\ shift'[p] = shift[p]
    BY DEF NextWindow, Arrive, Goto, TypeOK
  <2> QED
    BY <1>1, <2>1
<1>3. ASSUME NEW q \in Ranks, NEW p \in Peers(q) PROVE SlotInv(q, p)'
  <2>1. p \in Ranks /\ p # q /\ SlotInv(q, p)
    BY DEF SemaphoreInv, Peers
  <2>2. slot[q][p] \in Nat /\ shift[p] \in Nat /\ shift[q] \in Nat
    <3>1. q \in Ranks /\ p \in Ranks
      BY <2>1
    <3> QED
      BY <3>1, NumbersOf
  <2>3. CASE p = r
    BY <1>1, <1>2, <2>1, <2>2, <2>3 DEF SlotInv, Sent
  <2>4. CASE q = r
    <3>1. bench = "write" => slot[r][p] = shift[r]
      BY <2>4 DEF AllSignals
    <3> QED
      BY <1>1, <1>2, <2>1, <2>2, <2>4, <3>1 DEF SlotInv, Sent
  <2>5. CASE p # r /\ q # r
    BY <1>2, <2>1, <2>5 DEF SlotInv, Sent
  <2> QED
    BY <2>3, <2>4, <2>5
<1>4. ASSUME NEW g \in signals PROVE SignalInv(g)'
  <2>1. /\ g.to \in Ranks /\ g.from \in Ranks /\ g.shift \in Shifts /\ SignalInv(g)
        /\ bench = "write"
    BY DEF SemaphoreInv, TypeOK, Signal
  <2>2. g.to # r
    <3>1. SUFFICES ASSUME g.to = r PROVE FALSE
      OBVIOUS
    <3>2. g.from \in Peers(r) /\ g.shift = shift[r] /\ slot[r][g.from] < g.shift
      BY <2>1, <3>1 DEF SignalInv, Peers
    <3>3. slot[r][g.from] = shift[r]
      BY <2>1, <3>2 DEF AllSignals
    <3> QED
      BY <1>1, <3>2, <3>3
  <2>3. /\ shift'[g.to] = g.shift /\ pc'[g.to] = pc[g.to]
    BY <1>2, <2>1, <2>2 DEF SignalInv
  <2>4. /\ g.shift <= shift'[g.from]
        /\ g.shift = shift'[g.from] => Sent(g.from)'
    <3>1. g.shift \in Nat
      BY <2>1, Numbers
    <3>2. CASE g.from = r
      BY <1>1, <1>2, <2>1, <3>1, <3>2 DEF SignalInv, Sent
    <3>3. CASE g.from # r
      BY <1>2, <2>1, <3>3 DEF SignalInv, Sent
    <3> QED
      BY <3>2, <3>3
  <2> QED
    BY <2>1, <2>3, <2>4 DEF SignalInv
<1>5. ASSUME NEW p \in Ranks, pc'[p] \in InSemaphore PROVE bench = "write"
  BY <1>2, <1>5 DEF SemaphoreInv, InSemaphore
<1> QED
  BY <1>3, <1>4, <1>5 DEF SemaphoreInv, Peers

\* A rank that signals finds all others still in its window.
LEMMA SignalKeeps ==
  ASSUME TypeOK, FenceInv, SemaphoreInv, NEW r \in Ranks, SignalPeers(r)
  PROVE  SemaphoreInv'
<1>1. /\ pc[r] = "signal" /\ pc' = [pc EXCEPT ![r] = "signalled"]
      /\ UNCHANGED <<bench, shift, slot>> /\ bench = "write"
      /\ pc'[r] = "signalled" /\ \A p \in Ranks \ {r} : pc'[p] = pc[p]
  BY DEF SignalPeers, SemaphoreInv, InSemaphore, Goto, TypeOK
<1>2. /\ shift[r] \in Nat /\ MinShift \in Nat /\ MaxShift \in Nat
      /\ MinShift <= shift[r] /\ shift[r] <= MaxShift
  BY Numbers, NumbersOf
<1>3. ASSUME NEW p \in Peers(r)
      PROVE  shift[p] = shift[r] /\ pc[p] \in AfterWindow /\ slot[p][r] < shift[r]
  <2>1. p \in Ranks /\ r \in Peers(p) /\ p # r
    BY DEF Peers
  <2>2. /\ shift[p] \in Nat /\ slot[p][r] \in Nat /\ arrived[p] \in Nat /\ arrived[r] \in Nat
        /\ shift[p] >= MinShift
    <3>1. p \in Ranks /\ r \in Ranks
      BY <2>1
    <3> QED
      BY <3>1, NumbersOf
  <2>3. SlotInv(p, r) /\ ~Sent(r)
    BY <1>1, <2>1 DEF SemaphoreInv, Sent
  <2>4. slot[p][r] < shift[r]
    BY <2>3 DEF SlotInv
  <2>5. shift[p] <= shift[r] /\ pc[p] \notin {"fence4", "done"}
    <3>1. /\ shift[p] > MinShift => slot[p][r] >= shift[p] - 1
          /\ pc[p] \in {"fence4", "done"} => slot[p][r] >= MaxShift
      BY <1>1, <2>3 DEF SlotInv
    <3> QED
      BY <1>2, <2>2, <2>4, <3>1
  <2>6. arrived[p] >= arrived[r] /\ arrived[r] = 3 * (shift[r] - MinShift) + 3
    BY <1>1, <2>1 DEF FenceInv, Together, FenceCount, Offset, Fences
  <2>7. arrived[p] = 3 * (shift[p] - MinShift) + Offset(pc[p]) /\ Offset(pc[p]) \in 1..3
    BY <2>1, <2>5 DEF FenceInv, FenceCount, Offset
  <2>8. shift[p] = shift[r] /\ Offset(pc[p]) = 3
    <3> DEFINE f == Offset(pc[p])
    <3>1. 3 * (shift[p] - MinShift) + f >= 3 * (shift[r] - MinShift) + 3 /\ f \in 1..3
      BY <2>6, <2>7
    <3>2. shift[p] <= shift[r]
      BY <2>5
    <3> HIDE DEF f
    <3>3. shift[p] = shift[r] /\ f = 3
      BY <1>2, <2>2, <3>1, <3>2
    <3> QED
      BY <3>3 DEF f
  <2>9. pc[p] \in AfterWindow
    BY <2>1, <2>5, <2>8 DEF Offset, AfterWindow, InSemaphore, TypeOK, Steps
  <2> QED
    BY <2>4, <2>8, <2>9
<1>4. ASSUME NEW q \in Ranks, NEW p \in Peers(q) PROVE SlotInv(q, p)'
  <2>1. p \in Ranks /\ SlotInv(q, p)
    BY DEF SemaphoreInv, Peers
  <2> QED
    BY <1>1, <2>1 DEF SlotInv, Sent
<1>5. ASSUME NEW g \in signals' PROVE SignalInv(g)'
  <2>1. CASE g \in signals
    <3>1. g.to \in Ranks /\ g.from \in Ranks /\ SignalInv(g)
      BY <2>1 DEF SemaphoreInv, TypeOK, Signal
    <3>2. pc[g.to] \in AfterWindow => pc'[g.to] \in AfterWindow
      BY <1>1, <3>1 DEF AfterWindow, InSemaphore
    <3> QED
      BY <1>1, <3>1, <3>2 DEF SignalInv, Sent
  <2>2. CASE g \notin signals
    <3>1. PICK p \in Peers(r) : g = [from |-> r, to |-> p, shift |-> shift[r]]
      BY <2>2 DEF SignalPeers
    <3>2. p \in Ranks /\ p # r
      BY <3>1 DEF Peers
    <3> QED
      BY <1>1, <1>2, <1>3, <3>1, <3>2 DEF SignalInv, Sent
  <2> QED
    BY <2>1, <2>2
<1>6. ASSUME NEW p \in Ranks, pc'[p] \in InSemaphore PROVE bench = "write"
  BY <1>1
<1> QED
  BY <1>1, <1>4, <1>5, <1>6 DEF SemaphoreInv, Peers

\* Every step of a main thread keeps the semaphore right.
LEMMA SemaphoreMain ==
  ASSUME TypeOK, TypeOK', FenceInv, SemaphoreInv, NEW r \in Ranks, Main(r)
  PROVE  SemaphoreInv'
<1>1. CASE Checked(r) /\ NextWindow(r)
  <2>1. bench # "write" /\ pc[r] = "fence3" /\ UNCHANGED <<bench, slot, signals>>
    BY <1>1 DEF Checked, NextWindow, Goto, Arrive, TypeOK, semVars
  <2> QED
    BY <1>1, <2>1, LeaveKeeps
<1>2. CASE SemaphorePassed(r)
  BY <1>2, LeaveKeeps DEF SemaphorePassed, semVars, Sent
<1>3. CASE SignalPeers(r)
  BY <1>3, SignalKeeps
<1>4. CASE \/ WarmupStarts(r) \/ MeasureStarts(r) \/ PostOne(r) \/ Awaited(r)
           \/ SignalsAwaited(r) \/ Finalized(r)
           \/ Checked(r) /\ ~NextWindow(r)
  <2> USE DEF Goto, TypeOK, semVars, InSemaphore, AfterWindow, Sent
  <2>1. /\ UNCHANGED <<bench, shift, slot, signals>>
        /\ \A p \in Ranks \ {r} : pc'[p] = pc[p]
        /\ pc'[r] \in InSemaphore => bench = "write"
        /\ pc[r] \in AfterWindow => pc'[r] \in AfterWindow
        /\ pc'[r] \in {"fence4", "done"} => pc[r] \in {"fence4", "done"}
        /\ Sent(r) <=> Sent(r)'
    <3>1. CASE WarmupStarts(r)
      BY <3>1 DEF WarmupStarts
    <3>2. CASE MeasureStarts(r)
      BY <3>2 DEF MeasureStarts
    <3>3. CASE PostOne(r)
      BY <3>3 DEF PostOne
    <3>4. CASE Awaited(r)
      BY <3>4 DEF Awaited, Arrive
    <3>5. CASE SignalsAwaited(r)
      BY <3>5 DEF SignalsAwaited, SemaphoreInv
    <3>6. CASE Finalized(r)
      BY <3>6 DEF Finalized
    <3>7. CASE Checked(r) /\ ~NextWindow(r)
      BY <3>7 DEF Checked
    <3> QED
      BY <1>4, <3>1, <3>2, <3>3, <3>4, <3>5, <3>6, <3>7
  <2> QED
    BY <2>1, QuietKeeps
<1> QED
  BY <1>1, <1>2, <1>3, <1>4 DEF Main

\* A signal that lands brings its slot up to the window of its target.
LEMMA LandsKeeps ==
  ASSUME TypeOK, SemaphoreInv, NEW g \in signals, Lands(g) PROVE SemaphoreInv'
<1>1. /\ g \in Signal /\ g.to \in Ranks /\ g.from \in Ranks /\ g.shift \in Nat
      /\ SignalInv(g) /\ bench = "write"
  BY Numbers DEF SemaphoreInv, TypeOK, Signal
<1>2. /\ UNCHANGED <<bench, shift, pc>> /\ signals' = signals \ {g}
      /\ slot' = [slot EXCEPT ![g.to][g.from] = g.shift]
  BY DEF Lands
<1>3. ASSUME NEW q \in Ranks, NEW p \in Peers(q) PROVE SlotInv(q, p)'
  <2>1. p \in Ranks /\ SlotInv(q, p)
    BY DEF SemaphoreInv, Peers
  <2>2. slot[q][p] \in Nat /\ shift[p] \in Nat
    <3>1. q \in Ranks /\ p \in Ranks
      BY <2>1
    <3> QED
      BY <3>1, NumbersOf
  <2>3. CASE q = g.to /\ p = g.from
    <3>1. slot'[q][p] = g.shift
      BY <1>1, <1>2, <2>3 DEF TypeOK
    <3>2. /\ slot[q][p] < g.shift /\ g.shift <= shift[p] /\ (g.shift = shift[p] => Sent(p))
          /\ shift[q] = g.shift /\ pc[q] \in AfterWindow
      BY <1>1, <2>3 DEF SignalInv
    <3> QED
      BY <1>1, <1>2, <2>1, <2>2, <3>1, <3>2
      DEF SlotInv, Sent, AfterWindow, InSemaphore
  <2>4. CASE ~(q = g.to /\ p = g.from)
    <3>1. slot'[q][p] = slot[q][p]
      BY <1>1, <1>2, <2>1, <2>4 DEF TypeOK
    <3> QED
      BY <1>2, <2>1, <3>1 DEF SlotInv, Sent
  <2> QED
    BY <2>3, <2>4
<1>4. ASSUME NEW h \in signals' PROVE SignalInv(h)'
  <2>1. /\ h \in signals /\ h # g /\ h \in Signal /\ SignalInv(h)
        /\ h.to \in Ranks /\ h.from \in Ranks
    BY <1>2 DEF SemaphoreInv, TypeOK, Signal
  <2>2. ~(h.to = g.to /\ h.from = g.from)
    BY <1>1, <2>1 DEF SignalInv, Signal
  <2>3. slot'[h.to][h.from] = slot[h.to][h.from]
    BY <1>1, <1>2, <2>1, <2>2 DEF TypeOK
  <2> QED
    BY <1>2, <2>1, <2>3 DEF SignalInv, Sent
<1> QED
  BY <1>1, <1>2, <1>3, <1>4 DEF SemaphoreInv, Peers

\* The provider keeps the ranks together and the semaphore right.
LEMMA NetKeeps ==
  ASSUME TypeOK, FenceInv, SemaphoreInv,
         \/ \E r \in Ranks, k \in Ops, b \in Shifts : Completes(r, k, b)
         \/ \E g \in signals : Lands(g)
  PROVE  FenceInv' /\ SemaphoreInv'
<1>1. UNCHANGED <<bench, shift, pc, arrived>>
  BY DEF Completes, Lands
<1>2. FenceInv'
  BY <1>1 DEF FenceInv, FenceCount, Together
<1>3. CASE \E r \in Ranks, k \in Ops, b \in Shifts : Completes(r, k, b)
  <2>1. UNCHANGED <<slot, signals>>
    BY <1>3 DEF Completes, semVars
  <2>2. SemaphoreInv'
    BY <1>1, <2>1 DEF SemaphoreInv, SlotInv, SignalInv, Sent, Peers
  <2> QED
    BY <1>2, <2>2
<1>4. CASE \E g \in signals : Lands(g)
  BY <1>2, <1>4, LandsKeeps
<1> QED
  BY <1>3, <1>4
-----------------------------------------------------------------------------
(* The counters.                                                           *)

InWindow == {"warmup", "measure"}

\* The operations of one kind in a warm-up, in a measured window, in both and
\* in all windows before size b.
WarmupOps == N - 1
MeasuredOps == Iterations * (N - 1)
WindowOps == WarmupOps + MeasuredOps
Base(b) == (b - MinShift) * WindowOps

\* How many operations of each kind rank r has posted when it leaves the step it
\* is in.
Goal(r) ==
  CASE pc[r] = "fence1"              -> Base(shift[r])
    [] pc[r] \in {"warmup", "fence2"} -> Base(shift[r]) + WarmupOps
    [] OTHER                         -> Base(shift[r]) + WindowOps

\* What a rank has still to post brings it to its goal; a receive goes ahead of
\* its send.
ToGo(r) ==
  /\ pc[r] \notin InWindow => togo[r] = 0
  /\ bench # "sendrecv" => posted[r][bench] + togo[r] = Goal(r)
  /\ bench = "sendrecv" =>
       /\ posted[r]["recv"] + posted[r]["send"] + togo[r] = 2 * Goal(r)
       /\ posted[r]["recv"] \in {posted[r]["send"], posted[r]["send"] + 1}
       /\ posted[r]["recv"] # posted[r]["send"] =>
            flying[r]["send"][shift[r]] < MaxInflight

\* The counters of rank r and what the provider has of it.
Exact(r) ==
  \A k \in Ops :
    /\ posted[r][k] = complete[r][k] + flying[r][k][shift[r]]
    /\ flying[r][k][shift[r]] <= MaxInflight
    /\ \A b \in Shifts : b # shift[r] => flying[r][k][b] = 0
    /\ pc[r] \notin InWindow => flying[r][k][shift[r]] = 0
    /\ k \notin Posts => posted[r][k] = 0

\* What rank r noted at the begin of its window.
Noted(r) ==
  \A k \in Posts :
    /\ pc[r] \in InWindow => target[r][k] = Goal(r)
    /\ pc[r] \in {"measure", "fence3"} => before[r][k] = Base(shift[r]) + WarmupOps

CountersRight(r) == ToGo(r) /\ Exact(r) /\ Noted(r) /\ pc[r] # "failed"

CounterInv == \A r \in Ranks : CountersRight(r)

\* The sizes of the windows are numbers and the counters have room for all.
LEMMA WindowSizes ==
  /\ WarmupOps \in Nat /\ MeasuredOps \in Nat /\ WindowOps = WarmupOps + MeasuredOps
  /\ Total \in Nat /\ Total < Wrap /\ Wrap \in Nat
  /\ \A b \in Shifts : /\ Base(b) \in Nat
                       /\ Base(b) + WindowOps <= Total
                       /\ Base(b + 1) = Base(b) + WindowOps
  /\ Base(MinShift) = 0
<1>1. /\ N - 1 \in Nat /\ Iterations \in Nat /\ Wrap \in Nat /\ MinShift \in Nat
      /\ MaxShift \in Nat /\ Total \in Nat /\ Total < Wrap
  BY Numbers, RoomToCount, WindowsAssumption
<1>2. WarmupOps \in Nat /\ MeasuredOps \in Nat
  <2>1. \A a \in Nat, c \in Nat : a * c \in Nat
    OBVIOUS
  <2> QED
    BY <1>1, <2>1 DEF WarmupOps, MeasuredOps
<1>3. WindowOps = WarmupOps + MeasuredOps /\ WindowOps \in Nat
  BY <1>2 DEF WindowOps
<1>4. Total = (MaxShift - MinShift + 1) * WindowOps
  <2>1. \A a \in Int, n \in Int, c \in Int : a * (1 + n) * c = a * (c + n * c)
    OBVIOUS
  <2> QED
    BY <1>1, <2>1 DEF Total, Warmup, WindowOps, WarmupOps, MeasuredOps
<1>5. ASSUME NEW b \in Shifts
      PROVE  /\ Base(b) \in Nat /\ Base(b) + WindowOps <= Total
             /\ Base(b + 1) = Base(b) + WindowOps
  <2>1. b - MinShift \in Nat /\ b - MinShift <= MaxShift - MinShift /\ MaxShift - MinShift \in Nat
    BY <1>1 DEF Shifts
  <2>2. \A a \in Nat, w \in Nat : a * w \in Nat /\ (a + 1) * w = a * w + w
    OBVIOUS
  <2>3. \A a \in Nat, c \in Nat, w \in Nat : a <= c => a * w <= c * w
    OBVIOUS
  <2>4. Base(b) = (b - MinShift) * WindowOps /\ Base(b + 1) = ((b - MinShift) + 1) * WindowOps
    <3>1. (b + 1) - MinShift = (b - MinShift) + 1
      BY <1>1, <2>1 DEF Shifts
    <3> QED
      BY <3>1 DEF Base
  <2>5. Total = (MaxShift - MinShift) * WindowOps + WindowOps
    BY <1>3, <1>4, <2>1, <2>2
  <2>6. Base(b) <= (MaxShift - MinShift) * WindowOps
    BY <1>3, <2>1, <2>3, <2>4
  <2>7. (MaxShift - MinShift) * WindowOps \in Nat /\ Base(b) \in Nat
    BY <1>3, <2>1, <2>2, <2>4
  <2> QED
    BY <1>3, <2>1, <2>2, <2>4, <2>5, <2>6, <2>7
<1>6. Base(MinShift) = 0
  <2>1. MinShift - MinShift = 0
    BY <1>1
  <2>2. \A w \in Nat : 0 * w = 0
    OBVIOUS
  <2> QED
    BY <1>3, <2>1, <2>2 DEF Base
<1> QED
  BY <1>1, <1>2, <1>3, <1>5, <1>6

\* A goal is within what the counters hold.
LEMMA GoalTyped ==
  ASSUME TypeOK, NEW r \in Ranks PROVE Goal(r) \in Nat /\ Goal(r) < Wrap
<1>1. shift[r] \in Shifts
  BY DEF TypeOK
<1>2. Goal(r) \in {Base(shift[r]), Base(shift[r]) + WarmupOps, Base(shift[r]) + WindowOps}
  BY DEF Goal
<1> QED
  BY <1>1, <1>2, WindowSizes

\* The counters and the operations in flight are numbers.
LEMMA CountersOf ==
  ASSUME TypeOK, NEW r \in Ranks, NEW k \in Ops
  PROVE  /\ posted[r][k] \in Nat /\ posted[r][k] < Wrap
         /\ complete[r][k] \in Nat /\ complete[r][k] < Wrap
         /\ shift[r] \in Shifts /\ togo[r] \in Nat
         /\ \A b \in Shifts : flying[r][k][b] \in Nat
<1>1. /\ posted[r][k] \in 0..(Wrap - 1) /\ complete[r][k] \in 0..(Wrap - 1)
      /\ shift[r] \in Shifts /\ togo[r] \in Nat /\ \A b \in Shifts : flying[r][k][b] \in Nat
  BY DEF TypeOK
<1> QED
  BY <1>1, WindowSizes

\* A value below the width of the counters does not wrap.
LEMMA SmallMod == ASSUME NEW a \in Nat, a < Wrap PROVE a % Wrap = a
<1>1. Wrap \in Nat /\ Wrap > 0
  BY WindowSizes, RoomToCount
<1> QED
  BY <1>1

\* Nor does the difference of two such values.
LEMMA DiffMod ==
  ASSUME NEW a \in Nat, NEW c \in Nat, c <= a, a < Wrap
  PROVE  (a + Wrap - c) % Wrap = a - c
<1>1. Wrap \in Nat /\ Wrap > 0
  BY WindowSizes, RoomToCount
<1> DEFINE d == a - c
<1>2. d \in Nat /\ d < Wrap /\ a + Wrap - c = d + Wrap
  BY <1>1
<1> HIDE DEF d
<1>3. (d + Wrap) % Wrap = d
  BY <1>1, <1>2
<1> QED
  BY <1>2, <1>3 DEF d

\* The length of the two windows.
LEMMA ExpectedOps ==
  ASSUME TypeOK
  PROVE  /\ Expected(Warmup) = WarmupOps /\ Expected(Iterations) = MeasuredOps
         /\ Warmup * (N - 1) = WarmupOps /\ Iterations * (N - 1) = MeasuredOps
         /\ bench = "sendrecv" => 2 * Warmup = 2 * WarmupOps /\ 2 * Iterations = 2 * MeasuredOps
<1>1. N \in Nat /\ N - 1 \in Nat /\ Iterations \in Nat
  BY Numbers
<1>2. \A n \in Nat : 1 * n = n /\ n * 1 = n
  OBVIOUS
<1>3. bench = "sendrecv" => N - 1 = 1
  BY WindowsAssumption DEF TypeOK
<1>4. Warmup * (N - 1) = WarmupOps /\ Iterations * (N - 1) = MeasuredOps
  BY <1>1, <1>2 DEF Warmup, WarmupOps, MeasuredOps
<1>5. bench = "sendrecv" => Warmup = WarmupOps /\ Iterations = MeasuredOps
  BY <1>1, <1>2, <1>3, <1>4 DEF Warmup
<1> QED
  BY <1>4, <1>5 DEF Expected

\* Rank r has not posted more than its goal, and less when it has still to post.
LEMMA BelowGoal ==
  ASSUME TypeOK, NEW r \in Ranks, ToGo(r)
  PROVE  /\ \A k \in Posts : posted[r][k] <= Goal(r)
         /\ togo[r] > 0 => posted[r][NextOp(r)] < Goal(r)
         /\ togo[r] = 0 => \A k \in Posts : posted[r][k] = Goal(r)
         /\ togo[r] > 0 /\ NextOp(r) = "recv" => posted[r]["recv"] = posted[r]["send"]
         /\ togo[r] > 0 /\ NextOp(r) = "send" => posted[r]["recv"] = posted[r]["send"] + 1
<1>1. togo[r] \in Nat /\ Goal(r) \in Nat
  BY GoalTyped DEF TypeOK
<1>2. CASE bench # "sendrecv"
  <2>1. Posts = {bench} /\ NextOp(r) = bench /\ bench \in Ops /\ bench \notin {"send", "recv"}
    BY <1>2, WindowsAssumption DEF Posts, NextOp, Ops, TypeOK
  <2>2. posted[r][bench] \in Nat
    BY <2>1, CountersOf
  <2> QED
    BY <1>1, <1>2, <2>1, <2>2 DEF ToGo
<1>3. CASE bench = "sendrecv"
  <2>1. Posts = {"send", "recv"} /\ NextOp(r) = IF togo[r] % 2 = 0 THEN "recv" ELSE "send"
    BY <1>3 DEF Posts, NextOp
  <2>2. posted[r]["send"] \in Nat /\ posted[r]["recv"] \in Nat
    BY CountersOf DEF Ops
  <2>3. \A m \in Int : (2 * m) % 2 = 0 /\ (2 * m + 1) % 2 = 1
    OBVIOUS
  <2> DEFINE m == Goal(r) - posted[r]["recv"]
  <2>4. m \in Int /\ togo[r] = IF posted[r]["recv"] = posted[r]["send"] THEN 2 * m ELSE 2 * m + 1
    BY <1>1, <1>3, <2>2 DEF ToGo
  <2>5. NextOp(r) = "recv" <=> posted[r]["recv"] = posted[r]["send"]
    BY <2>1, <2>3, <2>4
  <2> QED
    BY <1>1, <1>3, <2>1, <2>2, <2>5 DEF ToGo
<1> QED
  BY <1>2, <1>3

\* What rank r has is what it had.
Same(r) ==
  /\ pc'[r] = pc[r] /\ shift'[r] = shift[r] /\ togo'[r] = togo[r]
  /\ posted'[r] = posted[r] /\ complete'[r] = complete[r]
  /\ target'[r] = target[r] /\ before'[r] = before[r] /\ flying'[r] = flying[r]

\* The counters of a rank are its own.
LEMMA SameCounters ==
  ASSUME NEW r \in Ranks, CountersRight(r), Same(r), bench' = bench
  PROVE  CountersRight(r)'
<1>1. Goal(r)' = Goal(r) /\ Posts' = Posts
  BY DEF Same, Goal, Posts
<1> QED
  BY <1>1 DEF CountersRight, Same, ToGo, Exact, Noted

\* Rank r waits at no counter and moves none.
LEMMA QuietCounters ==
  ASSUME TypeOK, NEW r \in Ranks, CountersRight(r), pc[r] \notin InWindow, pc'[r] \notin InWindow,
         pc'[r] \notin {"fence3", "failed"}, Goal(r)' = Goal(r),
         flying'[r] = flying[r], posted'[r] = posted[r], complete'[r] = complete[r],
         togo'[r] = togo[r], shift'[r] = shift[r], bench' = bench
  PROVE  CountersRight(r)'
<1>1. Posts' = Posts
  BY DEF Posts
<1> QED
  BY <1>1 DEF CountersRight, ToGo, Exact, Noted, InWindow

\* A rank that begins a window sets itself the goal of the window.
LEMMA StartCounters ==
  ASSUME TypeOK, NEW r \in Ranks, CountersRight(r),
         WarmupStarts(r) \/ MeasureStarts(r)
  PROVE  CountersRight(r)'
<1>1. /\ pc \in [Ranks -> Steps] /\ togo \in [Ranks -> Nat]
      /\ target \in [Ranks -> [Ops -> 0..(Wrap - 1)]] /\ before \in [Ranks -> [Ops -> 0..(Wrap - 1)]]
  BY DEF TypeOK
<1>2. /\ UNCHANGED <<bench, shift, posted, complete, flying>>
      /\ pc[r] \in {"fence1", "fence2"}
      /\ pc'[r] = IF pc[r] = "fence1" THEN "warmup" ELSE "measure"
  BY <1>1 DEF WarmupStarts, MeasureStarts, Goto, ctrVars, netVars
<1> DEFINE n == IF pc[r] = "fence1" THEN Warmup ELSE Iterations
           w == IF pc[r] = "fence1" THEN WarmupOps ELSE MeasuredOps
<1>3. StartWindow(r, n)
  BY <1>2 DEF WarmupStarts, MeasureStarts
<1>4. /\ w \in Nat /\ Expected(n) = w
      /\ togo'[r] = IF bench = "sendrecv" THEN 2 * w ELSE w
      /\ \A k \in Posts : target'[r][k] = (posted[r][k] + w) % Wrap
  <2>1. Expected(n) = w /\ n * (N - 1) = w /\ (bench = "sendrecv" => 2 * n = 2 * w)
    BY ExpectedOps
  <2>2. w \in Nat
    BY WindowSizes
  <2>3. Posts \subseteq Ops
    BY PostsTyped
  <2> HIDE DEF n, w
  <2> QED
    BY <1>1, <1>3, <2>1, <2>2, <2>3 DEF StartWindow
<1>5. Posts' = Posts
  BY <1>2 DEF Posts
<1>6. Goal(r)' = Goal(r) + w /\ Goal(r)' \in Nat /\ Goal(r)' < Wrap
  <2>1. shift[r] \in Shifts
    BY DEF TypeOK
  <2>2. pc[r] = "fence1" => Goal(r)' = Base(shift[r]) + WarmupOps /\ Goal(r) = Base(shift[r])
    BY <1>2 DEF Goal
  <2>3. pc[r] = "fence2" => Goal(r)' = Base(shift[r]) + WindowOps /\ Goal(r) = Base(shift[r]) + WarmupOps
    BY <1>2 DEF Goal
  <2> QED
    BY <1>2, <2>1, <2>2, <2>3, WindowSizes
<1>7. togo[r] = 0 /\ \A k \in Posts : posted[r][k] = Goal(r)
  BY <1>2, BelowGoal DEF CountersRight, ToGo, InWindow
<1>8. Goal(r) \in Nat
  BY GoalTyped
<1> HIDE DEF n, w
<1>9. ToGo(r)'
  <2>1. CASE bench # "sendrecv"
    <3>1. bench \in Posts
      BY <2>1 DEF Posts
    <3> QED
      BY <1>2, <1>4, <1>6, <1>7, <1>8, <2>1, <3>1 DEF ToGo, InWindow
  <2>2. CASE bench = "sendrecv"
    <3>1. posted[r]["send"] = Goal(r) /\ posted[r]["recv"] = Goal(r)
      BY <1>7, <2>2 DEF Posts
    <3>2. togo'[r] = 2 * w
      BY <1>4, <2>2
    <3> QED
      BY <1>2, <1>4, <1>6, <1>8, <2>2, <3>1, <3>2 DEF ToGo, InWindow
  <2> QED
    BY <2>1, <2>2
<1>10. Exact(r)'
  BY <1>2, <1>5 DEF CountersRight, Exact, InWindow
<1>11. Noted(r)'
  <2>1. SUFFICES ASSUME NEW k \in Posts
                 PROVE  /\ target'[r][k] = Goal(r)'
                        /\ pc'[r] \in {"measure", "fence3"} =>
                             before'[r][k] = Base(shift[r]) + WarmupOps
    BY <1>2, <1>5 DEF Noted
  <2>2. target'[r][k] = Goal(r)'
    BY <1>4, <1>6, <1>7, SmallMod
  <2>3. CASE pc[r] = "fence2"
    <3>1. before'[r][k] = complete[r][k]
      BY <1>1, <1>2, <2>3 DEF WarmupStarts, MeasureStarts, CompleteBefore
    <3>2. k \in Ops /\ shift[r] \in Shifts
      BY PostsTyped DEF TypeOK
    <3>3. complete[r][k] = posted[r][k]
      BY <2>3, <3>2, CountersOf DEF CountersRight, Exact, InWindow
    <3>4. Goal(r) = Base(shift[r]) + WarmupOps
      BY <2>3 DEF Goal
    <3> QED
      BY <1>7, <2>2, <3>1, <3>3, <3>4
  <2> QED
    BY <1>2, <2>2, <2>3
<1> QED
  BY <1>2, <1>9, <1>10, <1>11 DEF CountersRight

\* The throttle leaves room for the operation that is posted next.
LEMMA RoomForNext ==
  ASSUME TypeOK, NEW r \in Ranks, CountersRight(r), PostOne(r)
  PROVE  flying[r][NextOp(r)][shift[r]] < MaxInflight
<1> DEFINE k == NextOp(r)
<1>1. k \in Ops /\ k \in Posts /\ togo[r] > 0
  BY WindowsAssumption DEF NextOp, Ops, Posts, PostOne, TypeOK
<1>2. CASE k = "send"
  <2>1. bench = "sendrecv"
    BY <1>2, WindowsAssumption DEF NextOp, TypeOK
  <2>2. posted[r]["recv"] = posted[r]["send"] + 1
    BY <1>1, <1>2, BelowGoal DEF CountersRight
  <2>3. posted[r]["send"] \in Nat
    BY CountersOf DEF Ops
  <2> QED
    BY <1>2, <2>1, <2>2, <2>3 DEF CountersRight, ToGo
<1>3. CASE BelowLimit(r)
  <2>1. posted[r][k] \in Nat /\ posted[r][k] < Wrap /\ complete[r][k] \in Nat /\ shift[r] \in Shifts
        /\ flying[r][k][shift[r]] \in Nat
    BY <1>1, CountersOf
  <2>2. posted[r][k] = complete[r][k] + flying[r][k][shift[r]]
    BY <1>1 DEF CountersRight, Exact
  <2>3. Inflight(r, k) < MaxInflight
    BY <1>1, <1>3 DEF BelowLimit
  <2>4. Inflight(r, k) = posted[r][k] - complete[r][k]
    BY <2>1, <2>2, DiffMod DEF Inflight
  <2> HIDE DEF k
  <2>5. flying[r][k][shift[r]] < MaxInflight
    BY <2>1, <2>2, <2>3, <2>4
  <2> QED
    BY <2>5 DEF k
<1> QED
  BY <1>2, <1>3 DEF PostOne

\* Posting one operation keeps the counters exact and the limit.
LEMMA PostCounters ==
  ASSUME TypeOK, NEW r \in Ranks, CountersRight(r), PostOne(r)
  PROVE  CountersRight(r)'
<1> DEFINE k == NextOp(r)
<1>1. /\ k \in Ops /\ k \in Posts /\ togo[r] \in Nat /\ togo[r] > 0
      /\ shift[r] \in Shifts /\ pc[r] \in InWindow
  BY WindowsAssumption DEF NextOp, Ops, Posts, PostOne, TypeOK, InWindow
<1>2. /\ UNCHANGED <<bench, shift, pc, complete, target, before>>
      /\ togo' = [togo EXCEPT ![r] = @ - 1]
      /\ posted' = [posted EXCEPT ![r][k] = (@ + 1) % Wrap]
      /\ flying' = [flying EXCEPT ![r][k][shift[r]] = @ + 1]
  BY DEF PostOne
<1>3. posted[r][k] < Goal(r) /\ Goal(r) < Wrap /\ Goal(r) \in Nat
  BY <1>1, BelowGoal, GoalTyped DEF CountersRight
<1>4. \A j \in Ops : /\ posted[r][j] \in Nat /\ complete[r][j] \in Nat
                     /\ \A b \in Shifts : flying[r][j][b] \in Nat
  BY CountersOf
<1>5. flying[r][k][shift[r]] < MaxInflight
  BY RoomForNext
<1>6. togo[r] > 0 => /\ k = "recv" => posted[r]["recv"] = posted[r]["send"]
                     /\ k = "send" => posted[r]["recv"] = posted[r]["send"] + 1
  BY BelowGoal DEF CountersRight
<1>7. bench # "sendrecv" => k = bench
  BY DEF NextOp
<1>8. bench = "sendrecv" => k \in {"send", "recv"}
  BY DEF NextOp
<1> HIDE DEF k
<1>9. (posted[r][k] + 1) % Wrap = posted[r][k] + 1
  <2>1. posted[r][k] + 1 \in Nat /\ posted[r][k] + 1 < Wrap
    BY <1>1, <1>3, <1>4, WindowSizes
  <2> QED
    BY <2>1, SmallMod
<1>10. /\ togo'[r] = togo[r] - 1
       /\ \A j \in Ops, b \in Shifts :
            flying'[r][j][b] = IF j = k /\ b = shift[r] THEN flying[r][j][b] + 1 ELSE flying[r][j][b]
  <2>1. togo'[r] = togo[r] - 1
    BY <1>2 DEF TypeOK
  <2>2. flying \in [Ranks -> [Ops -> [Shifts -> Nat]]]
    BY DEF TypeOK
  <2> QED
    BY <1>1, <1>2, <2>1, <2>2
<1>11. \A j \in Ops : posted'[r][j] = IF j = k THEN posted[r][j] + 1 ELSE posted[r][j]
  <2>1. posted' = [posted EXCEPT ![r][k] = posted[r][k] + 1]
    BY <1>2, <1>9
  <2>2. posted \in [Ranks -> [Ops -> 0..(Wrap - 1)]]
    BY DEF TypeOK
  <2> QED
    BY <1>1, <2>1, <2>2
<1>12. Goal(r)' = Goal(r) /\ Posts' = Posts
  BY <1>2 DEF Goal, Posts
<1>13. ToGo(r)'
  <2>1. CASE bench # "sendrecv"
    BY <1>1, <1>2, <1>3, <1>4, <1>7, <1>10, <1>11, <1>12, <2>1 DEF CountersRight, ToGo
  <2>2. CASE bench = "sendrecv"
    <3>1. CASE k = "recv"
      <4>1. /\ posted'[r]["recv"] = posted[r]["recv"] + 1 /\ posted'[r]["send"] = posted[r]["send"]
            /\ posted[r]["recv"] = posted[r]["send"]
            /\ posted[r]["recv"] \in Nat /\ posted[r]["send"] \in Nat
        BY <1>1, <1>4, <1>6, <1>11, <3>1 DEF Ops
      <4>2. flying'[r]["send"][shift[r]] < MaxInflight
        <5>1. BelowLimit(r)
          BY <3>1 DEF PostOne, k
        <5>2. "send" \in Ops /\ "send" \in Posts
          BY <2>2 DEF Ops, Posts
        <5>3. Inflight(r, "send") < MaxInflight
          BY <5>1, <5>2 DEF BelowLimit
        <5>4. posted[r]["send"] = complete[r]["send"] + flying[r]["send"][shift[r]]
          BY <5>2 DEF CountersRight, Exact
        <5>5. /\ complete[r]["send"] \in Nat /\ posted[r]["send"] < Wrap
              /\ flying[r]["send"][shift[r]] \in Nat
          BY <1>1, <5>2, CountersOf
        <5>6. Inflight(r, "send") = posted[r]["send"] - complete[r]["send"]
          BY <4>1, <5>4, <5>5, DiffMod DEF Inflight
        <5>7. flying'[r]["send"][shift[r]] = flying[r]["send"][shift[r]]
          BY <1>1, <1>10, <3>1, <5>2
        <5> QED
          BY <4>1, <5>3, <5>4, <5>5, <5>6, <5>7
      <4> QED
        BY <1>1, <1>2, <1>3, <1>10, <1>12, <2>2, <4>1, <4>2 DEF CountersRight, ToGo
    <3>2. CASE k = "send"
      <4>1. /\ posted'[r]["send"] = posted[r]["send"] + 1 /\ posted'[r]["recv"] = posted[r]["recv"]
            /\ posted[r]["recv"] = posted[r]["send"] + 1
            /\ posted[r]["recv"] \in Nat /\ posted[r]["send"] \in Nat
        BY <1>1, <1>4, <1>6, <1>11, <3>2 DEF Ops
      <4> QED
        BY <1>1, <1>2, <1>3, <1>10, <1>12, <2>2, <4>1 DEF CountersRight, ToGo
    <3> QED
      BY <1>8, <2>2, <3>1, <3>2
  <2> QED
    BY <2>1, <2>2
<1>14. Exact(r)'
  <2>1. SUFFICES ASSUME NEW j \in Ops
                 PROVE  /\ posted'[r][j] = complete[r][j] + flying'[r][j][shift[r]]
                        /\ flying'[r][j][shift[r]] <= MaxInflight
                        /\ \A b \in Shifts : b # shift[r] => flying'[r][j][b] = 0
                        /\ j \notin Posts => posted'[r][j] = 0
    BY <1>1, <1>2, <1>12 DEF Exact
  <2>2. /\ posted[r][j] = complete[r][j] + flying[r][j][shift[r]]
        /\ flying[r][j][shift[r]] <= MaxInflight
        /\ \A b \in Shifts : b # shift[r] => flying[r][j][b] = 0
        /\ j \notin Posts => posted[r][j] = 0
    BY DEF CountersRight, Exact
  <2>3. MaxInflight \in Nat
    BY WindowsAssumption
  <2> QED
    BY <1>1, <1>4, <1>5, <1>10, <1>11, <2>2, <2>3
<1>15. Noted(r)'
  BY <1>2, <1>12 DEF CountersRight, Noted
<1> QED
  BY <1>2, <1>13, <1>14, <1>15 DEF CountersRight

\* The wait for the target leaves nothing with the provider.
LEMMA AwaitedCounters ==
  ASSUME TypeOK, NEW r \in Ranks, CountersRight(r), Awaited(r)
  PROVE  CountersRight(r)'
<1>1. /\ pc[r] \in InWindow /\ togo[r] = 0 /\ TargetReached(r)
      /\ pc'[r] = IF pc[r] = "warmup" THEN "fence2" ELSE "fence3"
      /\ UNCHANGED <<bench, shift, togo, posted, complete, target, before, flying>>
      /\ shift[r] \in Shifts
  BY DEF Awaited, Arrive, Goto, TypeOK, InWindow, ctrVars, netVars
<1>2. Goal(r)' = Goal(r) /\ Posts' = Posts
  BY <1>1 DEF Goal, Posts, InWindow
<1>3. ASSUME NEW k \in Ops PROVE flying[r][k][shift[r]] = 0
  <2>1. /\ posted[r][k] \in Nat /\ complete[r][k] \in Nat /\ flying[r][k][shift[r]] \in Nat
        /\ posted[r][k] = complete[r][k] + flying[r][k][shift[r]]
    BY <1>1, CountersOf DEF CountersRight, Exact
  <2>2. CASE k \notin Posts
    BY <2>1, <2>2 DEF CountersRight, Exact
  <2>3. CASE k \in Posts
    <3>1. complete[r][k] >= Goal(r) /\ posted[r][k] = Goal(r)
      BY <1>1, <2>3, BelowGoal DEF TargetReached, CountersRight, Noted
    <3> QED
      BY <2>1, <3>1
  <2> QED
    BY <2>2, <2>3
<1>4. ToGo(r)'
  BY <1>1, <1>2 DEF CountersRight, ToGo
<1>5. Exact(r)'
  BY <1>1, <1>2, <1>3 DEF CountersRight, Exact
<1>6. Noted(r)'
  BY <1>1, <1>2 DEF CountersRight, Noted, InWindow
<1> QED
  BY <1>1, <1>4, <1>5, <1>6 DEF CountersRight

\* The goal of one window is where the next one begins.
LEMMA NextCounters ==
  ASSUME TypeOK, NEW r \in Ranks, CountersRight(r), NextWindow(r),
         pc[r] \notin {"fence1", "warmup", "fence2", "measure"},
         UNCHANGED <<bench, togo, ctrVars, netVars>>
  PROVE  CountersRight(r)'
<1>1. /\ shift[r] \in Shifts /\ shift[r] \in Nat
      /\ shift'[r] = IF shift[r] < MaxShift THEN shift[r] + 1 ELSE shift[r]
      /\ pc'[r] = IF shift[r] < MaxShift THEN "fence1" ELSE "fence4"
      /\ UNCHANGED <<bench, togo, posted, complete, flying>>
  BY Numbers DEF NextWindow, Arrive, Goto, TypeOK, ctrVars, netVars
<1>2. Goal(r)' = Goal(r) /\ Posts' = Posts
  <2>1. Goal(r) = Base(shift[r]) + WindowOps
    BY DEF Goal
  <2>2. Base(shift[r] + 1) = Base(shift[r]) + WindowOps
    BY <1>1, WindowSizes
  <2>3. CASE shift[r] < MaxShift
    BY <1>1, <2>1, <2>2, <2>3 DEF Goal, Posts
  <2>4. CASE ~(shift[r] < MaxShift)
    BY <1>1, <2>1, <2>4 DEF Goal, Posts
  <2> QED
    BY <2>3, <2>4
<1>3. \A k \in Ops, b \in Shifts : flying[r][k][b] = 0
  BY DEF CountersRight, Exact, InWindow
<1>4. pc'[r] \notin InWindow /\ pc[r] \notin InWindow
  BY <1>1 DEF InWindow
<1>5. shift'[r] \in Shifts
  BY <1>1, Numbers DEF Shifts
<1>6. ToGo(r)'
  <2>1. bench = "sendrecv" /\ posted[r]["recv"] # posted[r]["send"] =>
          flying[r]["send"][shift'[r]] < MaxInflight
    BY <1>3, <1>5, WindowsAssumption DEF Ops
  <2> QED
    BY <1>1, <1>2, <1>4, <2>1 DEF CountersRight, ToGo
<1>7. Exact(r)'
  <2>1. \A k \in Ops : /\ posted[r][k] = complete[r][k] + flying[r][k][shift'[r]]
                       /\ flying[r][k][shift'[r]] <= MaxInflight
    BY <1>1, <1>3, <1>5, WindowsAssumption DEF CountersRight, Exact
  <2> QED
    BY <1>1, <1>2, <1>3, <1>5, <2>1 DEF CountersRight, Exact
<1>8. Noted(r)'
  BY <1>1, <1>4 DEF Noted
<1> QED
  BY <1>1, <1>6, <1>7, <1>8 DEF CountersRight

\* What a measured window completed is what it posted: the check passes.
LEMMA NothingMissing ==
  ASSUME TypeOK, NEW r \in Ranks, CountersRight(r), pc[r] = "fence3"
  PROVE  \A k \in Posts : Done(r, k) = Expected(Iterations)
<1> TAKE k \in Posts
<1>1. k \in Ops /\ shift[r] \in Shifts
  BY PostsTyped DEF TypeOK
<1>2. /\ posted[r][k] = Base(shift[r]) + WindowOps
      /\ before[r][k] = Base(shift[r]) + WarmupOps
  BY BelowGoal DEF CountersRight, ToGo, InWindow, Noted, Goal
<1>3. complete[r][k] = posted[r][k] /\ complete[r][k] \in Nat /\ complete[r][k] < Wrap
  BY <1>1, CountersOf DEF CountersRight, Exact, InWindow
<1>4. /\ before[r][k] \in Nat /\ before[r][k] <= complete[r][k]
      /\ complete[r][k] - before[r][k] = MeasuredOps
  BY <1>1, <1>2, <1>3, WindowSizes
<1>5. Done(r, k) = complete[r][k] - before[r][k]
  BY <1>3, <1>4, DiffMod DEF Done
<1> QED
  BY <1>4, <1>5, ExpectedOps

\* Checking the window and coming to the next step keeps the counters right.
LEMMA CheckedCounters ==
  ASSUME TypeOK, NEW r \in Ranks, CountersRight(r), Checked(r)
  PROVE  CountersRight(r)'
<1>1. pc[r] = "fence3" /\ UNCHANGED <<bench, togo, ctrVars, target, before, netVars>>
  BY DEF Checked
<1>2. ~ \E k \in Posts : Done(r, k) # Expected(Iterations)
  BY <1>1, NothingMissing
<1>3. CASE NextWindow(r)
  BY <1>1, <1>3, NextCounters
<1>4. CASE Goto(r, "signal") /\ UNCHANGED <<shift, arrived>>
  <2>1. pc'[r] = "signal" /\ shift' = shift
    BY <1>4 DEF Goto, TypeOK
  <2>2. Goal(r)' = Goal(r)
    BY <1>1, <2>1 DEF Goal
  <2> QED
    BY <1>1, <2>1, <2>2, QuietCounters DEF InWindow, ctrVars, netVars
<1> QED
  BY <1>2, <1>3, <1>4 DEF Checked

\* A completion is counted once.
LEMMA CompletesCounters ==
  ASSUME TypeOK, NEW r \in Ranks, CountersRight(r), NEW k \in Ops, NEW b \in Shifts,
         Completes(r, k, b)
  PROVE  CountersRight(r)'
<1>1. /\ UNCHANGED <<bench, shift, pc, togo, posted, target, before>>
      /\ flying[r][k][b] > 0 /\ shift[r] \in Shifts
      /\ flying' = [flying EXCEPT ![r][k][b] = @ - 1]
      /\ complete' = [complete EXCEPT ![r][k] = (@ + 1) % Wrap]
  BY DEF Completes, CountCompletion, TypeOK
<1>2. b = shift[r]
  BY <1>1 DEF CountersRight, Exact
<1>3. \A j \in Ops : /\ posted[r][j] \in Nat /\ posted[r][j] < Wrap /\ complete[r][j] \in Nat
                     /\ flying[r][j][shift[r]] \in Nat
  BY <1>1, CountersOf
<1>4. (complete[r][k] + 1) % Wrap = complete[r][k] + 1
  <2>1. posted[r][k] = complete[r][k] + flying[r][k][b]
    BY <1>2 DEF CountersRight, Exact
  <2>2. complete[r][k] + 1 \in Nat /\ complete[r][k] + 1 < Wrap
    BY <1>1, <1>2, <1>3, <2>1, WindowSizes
  <2> QED
    BY <2>2, SmallMod
<1>5. \A j \in Ops : complete'[r][j] = IF j = k THEN complete[r][j] + 1 ELSE complete[r][j]
  BY <1>1, <1>4 DEF TypeOK
<1>6. \A j \in Ops, c \in Shifts :
        flying'[r][j][c] = IF j = k /\ c = shift[r] THEN flying[r][j][c] - 1 ELSE flying[r][j][c]
  BY <1>1, <1>2 DEF TypeOK
<1>7. Goal(r)' = Goal(r) /\ Posts' = Posts
  BY <1>1 DEF Goal, Posts
<1>8. ToGo(r)'
  <2>1. "send" \in Ops /\ MaxInflight \in Nat
    BY WindowsAssumption DEF Ops
  <2>2. flying'[r]["send"][shift[r]] <= flying[r]["send"][shift[r]]
    BY <1>1, <1>3, <1>6, <2>1
  <2>3. flying'[r]["send"][shift[r]] \in Int
    BY <1>1, <1>3, <1>6, <2>1
  <2>4. flying[r]["send"][shift[r]] < MaxInflight => flying'[r]["send"][shift[r]] < MaxInflight
    BY <1>3, <2>1, <2>2, <2>3
  <2> QED
    BY <1>1, <1>7, <2>4 DEF CountersRight, ToGo
<1>9. Exact(r)'
  <2>1. SUFFICES ASSUME NEW j \in Ops
                 PROVE  /\ posted[r][j] = complete'[r][j] + flying'[r][j][shift[r]]
                        /\ flying'[r][j][shift[r]] <= MaxInflight
                        /\ \A c \in Shifts : c # shift[r] => flying'[r][j][c] = 0
                        /\ pc[r] \notin InWindow => flying'[r][j][shift[r]] = 0
                        /\ j \notin Posts => posted[r][j] = 0
    BY <1>1, <1>7 DEF Exact
  <2>2. /\ posted[r][j] = complete[r][j] + flying[r][j][shift[r]]
        /\ flying[r][j][shift[r]] <= MaxInflight
        /\ \A c \in Shifts : c # shift[r] => flying[r][j][c] = 0
        /\ pc[r] \notin InWindow => flying[r][j][shift[r]] = 0
        /\ j \notin Posts => posted[r][j] = 0
    BY DEF CountersRight, Exact
  <2>3. MaxInflight \in Nat
    BY WindowsAssumption
  <2> QED
    BY <1>1, <1>2, <1>3, <1>5, <1>6, <2>2, <2>3
<1>10. Noted(r)'
  BY <1>1, <1>7 DEF CountersRight, Noted
<1> QED
  BY <1>1, <1>8, <1>9, <1>10 DEF CountersRight

\* Every step keeps the counters of every rank.
LEMMA CounterMain ==
  ASSUME TypeOK, CounterInv, NEW r \in Ranks, Main(r) PROVE CounterInv'
<1>1. CountersRight(r) /\ bench' = bench
  BY DEF CounterInv, Main, WarmupStarts, MeasureStarts, PostOne, Awaited, Checked, SignalPeers,
         SignalsAwaited, SemaphorePassed, Finalized
<1>2. CountersRight(r)'
  <2>1. CASE WarmupStarts(r) \/ MeasureStarts(r)
    BY <1>1, <2>1, StartCounters
  <2>2. CASE PostOne(r)
    BY <1>1, <2>2, PostCounters
  <2>3. CASE Awaited(r)
    BY <1>1, <2>3, AwaitedCounters
  <2>4. CASE Checked(r)
    BY <1>1, <2>4, CheckedCounters
  <2>5. CASE SemaphorePassed(r)
    BY <1>1, <2>5, NextCounters DEF SemaphorePassed
  <2>6. CASE SignalPeers(r) \/ SignalsAwaited(r) \/ Finalized(r)
    <3>1. /\ pc[r] \in {"signal", "signalled", "fence4"} /\ pc'[r] \in {"signalled", "semaphore", "done"}
          /\ UNCHANGED <<shift, togo, ctrVars, netVars>>
      BY <2>6 DEF SignalPeers, SignalsAwaited, Finalized, Goto, TypeOK
    <3>2. Goal(r)' = Goal(r)
      BY <3>1 DEF Goal
    <3> QED
      BY <1>1, <3>1, <3>2, QuietCounters DEF InWindow, ctrVars, netVars
  <2> QED
    BY <2>1, <2>2, <2>3, <2>4, <2>5, <2>6 DEF Main
<1>3. ASSUME NEW p \in Ranks, p # r PROVE Same(p)
  <2> USE DEF TypeOK, Same, Goto, ctrVars, netVars
  <2>1. CASE WarmupStarts(r)
    BY <1>3, <2>1 DEF WarmupStarts, StartWindow
  <2>2. CASE MeasureStarts(r)
    BY <1>3, <2>2 DEF MeasureStarts, StartWindow
  <2>3. CASE PostOne(r)
    BY <1>3, <2>3 DEF PostOne
  <2>4. CASE Awaited(r)
    BY <1>3, <2>4 DEF Awaited, Arrive
  <2>5. CASE Checked(r)
    BY <1>3, <2>5 DEF Checked, NextWindow, Arrive
  <2>6. CASE SignalPeers(r)
    BY <1>3, <2>6 DEF SignalPeers
  <2>7. CASE SignalsAwaited(r)
    BY <1>3, <2>7 DEF SignalsAwaited
  <2>8. CASE SemaphorePassed(r)
    BY <1>3, <2>8 DEF SemaphorePassed, NextWindow, Arrive
  <2>9. CASE Finalized(r)
    BY <1>3, <2>9 DEF Finalized
  <2> QED
    BY <2>1, <2>2, <2>3, <2>4, <2>5, <2>6, <2>7, <2>8, <2>9 DEF Main
<1> QED
  BY <1>1, <1>2, <1>3, SameCounters DEF CounterInv

\* So does the provider.
LEMMA CounterNet ==
  ASSUME TypeOK, CounterInv,
         \/ \E r \in Ranks, k \in Ops, b \in Shifts : Completes(r, k, b)
         \/ \E g \in signals : Lands(g)
  PROVE  CounterInv'
<1>1. ASSUME NEW r \in Ranks, NEW k \in Ops, NEW b \in Shifts, Completes(r, k, b)
      PROVE  CounterInv'
  <2>1. \A p \in Ranks : p # r => Same(p)
    BY <1>1 DEF Completes, CountCompletion, Same, TypeOK
  <2>2. bench' = bench
    BY <1>1 DEF Completes
  <2> QED
    BY <1>1, <2>1, <2>2, CompletesCounters, SameCounters DEF CounterInv
<1>2. ASSUME NEW g \in signals, Lands(g) PROVE CounterInv'
  <2>1. bench' = bench /\ \A p \in Ranks : Same(p)
    BY <1>2 DEF Lands, Same, ctrVars, netVars
  <2> QED
    BY <2>1, SameCounters DEF CounterInv
<1> QED
  BY <1>1, <1>2
-----------------------------------------------------------------------------
(* Theorems.                                                               *)

\* Every variable of the benchmarks keeps its type for any number of ranks,
\* sizes and iterations: no counter leaves its width, no rank passes MaxShift
\* (the loops of the four benchmarks).
THEOREM WindowsTypeCorrect == Spec => []TypeOK
<1>1. TypeOK /\ [Next]_vars => TypeOK'
  <2> SUFFICES ASSUME TypeOK, [Next]_vars PROVE TypeOK'
    OBVIOUS
  <2>1. CASE UNCHANGED vars
    BY <2>1 DEF TypeOK, vars, ctrVars, netVars, semVars
  <2>2. ASSUME NEW r \in Ranks, Main(r) PROVE TypeOK'
    BY <2>2, TypeMain
  <2>3. CASE \/ \E r \in Ranks, k \in Ops, b \in Shifts : Completes(r, k, b)
             \/ \E g \in signals : Lands(g)
    BY <2>3, TypeNet
  <2> QED
    BY <2>1, <2>2, <2>3 DEF Next
<1> QED
  BY <1>1, TypeInit, PTL DEF Spec

\* Before the first window the slots hold 0, which is no size to signal.
LEMMA WInvInit == MinShift > 0 /\ Init => WInv
<1> SUFFICES ASSUME MinShift > 0, Init PROVE WInv
  OBVIOUS
<1>1. FenceInv
  BY Numbers DEF Init, FenceInv, FenceCount, Together, Offset, Fences
<1>2. ASSUME NEW r \in Ranks, NEW p \in Peers(r) PROVE SlotInv(r, p)
  BY Numbers DEF Init, SlotInv, Sent, Peers
<1>3. SemaphoreInv
  BY <1>2 DEF Init, SemaphoreInv, InSemaphore
<1> QED
  BY <1>1, <1>3, TypeInit DEF WInv

\* Every step keeps the invariant.
LEMMA WInvStep == WInv /\ [Next]_vars => WInv'
<1> SUFFICES ASSUME WInv, [Next]_vars PROVE WInv'
  OBVIOUS
<1>1. TypeOK /\ FenceInv /\ SemaphoreInv
  BY DEF WInv
<1>2. CASE UNCHANGED vars
  <2> USE <1>2 DEF vars, ctrVars, netVars, semVars
  <2>1. TypeOK'
    BY <1>1 DEF TypeOK
  <2>2. FenceInv'
    BY <1>1 DEF FenceInv, FenceCount, Together
  <2>3. SemaphoreInv'
    BY <1>1 DEF SemaphoreInv, SlotInv, SignalInv, Sent, Peers
  <2> QED
    BY <2>1, <2>2, <2>3 DEF WInv
<1>3. ASSUME NEW r \in Ranks, Main(r) PROVE WInv'
  <2>1. TypeOK'
    BY <1>1, <1>3, TypeMain
  <2> QED
    BY <1>1, <1>3, <2>1, FenceMain, SemaphoreMain DEF WInv
<1>4. CASE \/ \E r \in Ranks, k \in Ops, b \in Shifts : Completes(r, k, b)
           \/ \E g \in signals : Lands(g)
  BY <1>1, <1>4, TypeNet, NetKeeps DEF WInv
<1> QED
  BY <1>2, <1>3, <1>4 DEF Next

\* The inductive invariant holds throughout a benchmark that does not begin
\* with the size 2^0.
THEOREM WindowsInvariance == MinShift > 0 => (Spec => []WInv)
  BY WInvInit, WInvStep, PTL DEF Spec

\* A rank that waits for its peers' signals never finds one of a later size,
\* which it would wait on for ever; for any number of ranks and sizes.
THEOREM SignalsStayBehind == MinShift > 0 => (Spec => []NoSignalAhead)
<1>1. WInv => NoSignalAhead
  <2> SUFFICES ASSUME WInv, NEW r \in Ranks, pc[r] = "semaphore", NEW p \in Peers(r)
               PROVE  slot[r][p] <= shift[r]
    BY DEF NoSignalAhead
  <2>1. /\ p \in Ranks /\ SlotInv(r, p) /\ FenceCount(r) /\ FenceCount(p) /\ Together(p)
        /\ TypeOK
    BY DEF WInv, SemaphoreInv, FenceInv, Peers
  <2>2. /\ shift[r] \in Nat /\ shift[p] \in Nat /\ slot[r][p] \in Nat /\ MinShift \in Nat
    <3>1. r \in Ranks /\ p \in Ranks
      BY <2>1
    <3> QED
      BY <2>1, <3>1, NumbersOf, Numbers
  <2>3. /\ arrived[r] = 3 * (shift[r] - MinShift) + 3
        /\ arrived[p] = 3 * (shift[p] - MinShift) + Offset(pc[p])
        /\ Offset(pc[p]) \in 1..4
        /\ arrived[r] >= arrived[p] - 1
        /\ pc[p] \in {"signalled", "semaphore"} =>
             Offset(pc[p]) = 3 /\ arrived[r] >= arrived[p]
        /\ pc[p] \in {"fence4", "done"} => Offset(pc[p]) = 4
    BY <2>1 DEF FenceCount, Together, Offset, Fences
  <2>4. shift[p] <= shift[r] \/ (shift[p] = shift[r] + 1 /\ ~Sent(p))
    BY <2>2, <2>3 DEF Sent
  <2> QED
    BY <2>1, <2>2, <2>4 DEF SlotInv
<1> QED
  BY <1>1, WindowsInvariance, PTL

\* When a rank leaves a window the signals of that window have all landed, in
\* whatever order the network delivers them; for any number of ranks and sizes.
THEOREM SignalsComeInTime == MinShift > 0 => (Spec => []NoLateSignal)
<1>1. WInv => NoLateSignal
  BY DEF WInv, SemaphoreInv, SignalInv, NoLateSignal, AfterWindow, InSemaphore
<1> QED
  BY <1>1, WindowsInvariance, PTL
-----------------------------------------------------------------------------
(* Theorems about the counters.                                            *)

\* Nothing was posted before the first window.
LEMMA CounterInit == Init => CounterInv
<1> SUFFICES ASSUME Init, NEW r \in Ranks PROVE CountersRight(r)
  BY DEF CounterInv
<1>1. /\ pc[r] = "fence1" /\ togo[r] = 0 /\ shift[r] = MinShift /\ MinShift \in Shifts
      /\ \A k \in Ops : /\ posted[r][k] = 0 /\ complete[r][k] = 0
                        /\ \A b \in Shifts : flying[r][k][b] = 0
      /\ bench \in Ops \/ bench = "sendrecv"
  BY Numbers, WindowsAssumption DEF Init, Zero, Shifts, Ops
<1>2. Goal(r) = 0
  BY <1>1, WindowSizes DEF Goal
<1>3. ToGo(r)
  BY <1>1, <1>2 DEF ToGo, InWindow, Ops
<1>4. Exact(r)
  <2>1. MaxInflight >= 0
    BY WindowsAssumption
  <2>2. ASSUME NEW k \in Ops
        PROVE  posted[r][k] = 0 /\ complete[r][k] = 0 /\ \A b \in Shifts : flying[r][k][b] = 0
    BY <1>1
  <2>3. shift[r] \in Shifts
    BY <1>1
  <2> QED
    BY <2>1, <2>2, <2>3 DEF Exact
<1>5. Noted(r)
  BY <1>1 DEF Noted, InWindow
<1> QED
  BY <1>1, <1>3, <1>4, <1>5 DEF CountersRight

\* Every step of the benchmarks keeps the counters exact, whatever the size of
\* the first message.
LEMMA CounterInvariance == Spec => [](TypeOK /\ CounterInv)
<1>1. TypeOK /\ CounterInv /\ [Next]_vars => CounterInv'
  <2> SUFFICES ASSUME TypeOK, CounterInv, [Next]_vars PROVE CounterInv'
    OBVIOUS
  <2>1. CASE UNCHANGED vars
    <3>1. bench' = bench /\ \A p \in Ranks : Same(p)
      BY <2>1 DEF vars, Same, ctrVars, netVars
    <3> QED
      BY <3>1, SameCounters DEF CounterInv
  <2> QED
    BY <2>1, CounterMain, CounterNet DEF Next
<1> QED
  BY <1>1, CounterInit, WindowsTypeCorrect, PTL DEF Spec

\* The limit of the throttles holds for every limit, window and width of the
\* counters that holds the run: the sends of send-recv, which no throttle
\* precedes, included.
THEOREM LimitHolds == Spec => []ThrottleHolds
<1>1. TypeOK /\ CounterInv => ThrottleHolds
  <2> SUFFICES ASSUME TypeOK, CounterInv, NEW r \in Ranks, NEW k \in Ops, NEW b \in Shifts
               PROVE  flying[r][k][b] <= MaxInflight
    BY DEF ThrottleHolds
  <2>1. Exact(r) /\ MaxInflight \in Nat
    BY WindowsAssumption DEF CounterInv, CountersRight
  <2>2. CASE b = shift[r]
    BY <2>1, <2>2 DEF Exact
  <2>3. CASE b # shift[r]
    BY <2>1, <2>3 DEF Exact
  <2> QED
    BY <2>2, <2>3
<1> QED
  BY <1>1, CounterInvariance, PTL

\* Between its windows a rank has nothing with the provider: a wait for the
\* target covers every operation of the window.
THEOREM WindowsSettle == Spec => []SettledBetweenWindows
<1>1. TypeOK /\ CounterInv => SettledBetweenWindows
  <2> SUFFICES ASSUME TypeOK, CounterInv, NEW r \in Ranks, pc[r] \notin InWindow,
                      NEW k \in Ops, NEW b \in Shifts
               PROVE  flying[r][k][b] = 0
    BY DEF SettledBetweenWindows, Quiet, InWindow
  <2> QED
    BY DEF CounterInv, CountersRight, Exact
<1> QED
  BY <1>1, CounterInvariance, PTL

\* No rank ever throws "counter mismatch" while the counters hold the run.
THEOREM CountersMatch == Spec => []NoMismatch
<1>1. TypeOK /\ CounterInv => NoMismatch
  BY DEF CounterInv, CountersRight, NoMismatch
<1> QED
  BY <1>1, CounterInvariance, PTL
=============================================================================
