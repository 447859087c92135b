---------------------------- MODULE Inner_proofs ----------------------------
(***************************************************************************)
(* Proofs about what Luna does between two messages of the user: the dreams *)
(* of Dreams, the sensors of Sensors, the watch of Vigil, the proposals of  *)
(* Growth.  The components share no state; each has its own specification,  *)
(* invariant and theorem.                                                  *)
(***************************************************************************)
EXTENDS Dreams, Sensors, Vigil, Growth, FiniteSetTheorems, TLAPS

-----------------------------------------------------------------------------
(***************************************************************************)
(* Dreams.                                                                 *)
(***************************************************************************)
Entries == [step: Nat, place: Places]
Ordered(s) == \A i, j \in DOMAIN s : i < j => s[i].step < s[j].step
UpTo(s, n) == \A i \in DOMAIN s : s[i].step <= n

\* A history with entries in order, none younger than the last step.
Chronicle(s) == s \in Seq(Entries) /\ Ordered(s) /\ UpTo(s, steps)

\* The places kept have the ranks 1, 2, ... in their order.
LEMMA RanksOfKept ==
    ASSUME NEW s \in Seq(Entries)
    PROVE  /\ Cardinality(Kept(s)) \in Nat
           /\ \A k \in 1..Cardinality(Kept(s)) : \E i \in Kept(s) : Rank(i, s) = k
           /\ \A i, j \in Kept(s) : Rank(i, s) < Rank(j, s) => i < j
<1> DEFINE K == Kept(s)
           upTo(i) == {j \in K : j <= i}
           rank == [i \in K |-> Rank(i, s)]
<1>1. K \subseteq 1..Len(s) /\ Len(s) \in Nat
  BY DEF Kept
<1>2. IsFiniteSet(K) /\ Cardinality(K) \in Nat
  <2>1. IsFiniteSet(1..Len(s))
    BY <1>1, FS_Interval
  <2> QED
    BY <1>1, <2>1, FS_Subset, FS_CardinalityType
<1>3. \A i \in K : i \in Nat /\ Rank(i, s) = Cardinality(upTo(i))
  BY <1>1 DEF Rank
<1> HIDE DEF K
<1>4. \A i \in K : /\ IsFiniteSet(upTo(i)) /\ Cardinality(upTo(i)) \in Nat
                   /\ Cardinality(upTo(i)) <= Cardinality(K) /\ Cardinality(upTo(i)) # 0
  <2> SUFFICES ASSUME NEW i \in K
               PROVE  /\ IsFiniteSet(upTo(i)) /\ Cardinality(upTo(i)) \in Nat
                      /\ Cardinality(upTo(i)) <= Cardinality(K) /\ Cardinality(upTo(i)) # 0
    OBVIOUS
  <2>1. upTo(i) \in SUBSET K /\ upTo(i) # {}
    BY <1>3
  <2> QED
    BY <1>2, <2>1, FS_Subset, FS_CardinalityType, FS_EmptySet
<1>5. \A i, j \in K : i < j => Rank(i, s) < Rank(j, s)
  <2> SUFFICES ASSUME NEW i \in K, NEW j \in K, i < j PROVE Rank(i, s) < Rank(j, s)
    OBVIOUS
  <2>1. upTo(i) \in SUBSET upTo(j) /\ upTo(i) # upTo(j)
    <3>1. \A x \in K : x \in Nat
      BY <1>3
    <3>2. \A x \in K : x <= i => x <= j
      BY <3>1
    <3>3. j \in upTo(j) /\ j \notin upTo(i)
      BY <3>1
    <3> QED
      BY <3>2, <3>3
  <2>2. Cardinality(upTo(i)) <= Cardinality(upTo(j)) /\ Cardinality(upTo(i)) # Cardinality(upTo(j))
    BY <1>4, <2>1, FS_Subset
  <2> QED
    BY <1>3, <1>4, <2>2
<1>6. rank \in Injection(K, 1..Cardinality(K))
  <2>1. rank \in [K -> 1..Cardinality(K)]
    <3>1. \A i \in K : Rank(i, s) \in 1..Cardinality(K)
      <4> HIDE DEF upTo
      <4> QED
        BY <1>2, <1>3, <1>4
    <3> QED
      BY <3>1
  <2>2. \A i, j \in K : rank[i] = rank[j] => i = j
    <3> SUFFICES ASSUME NEW i \in K, NEW j \in K, rank[i] = rank[j] PROVE i = j
      OBVIOUS
    <3>1. Rank(i, s) = Rank(j, s) /\ Rank(i, s) \in Nat /\ i \in Nat /\ j \in Nat
      BY <1>3, <1>4
    <3>2. ~(i < j) /\ ~(j < i)
      BY <1>5, <3>1
    <3> QED
      BY <3>1, <3>2
  <2> QED
    BY <2>1, <2>2 DEF Injection, IsInjective
<1>7. rank \in Surjection(K, 1..Cardinality(K))
  <2>1. IsFiniteSet(1..Cardinality(K)) /\ Cardinality(1..Cardinality(K)) = Cardinality(K)
    <3>1. 1 \in Int /\ Cardinality(K) \in Int
      BY <1>2
    <3>2. Cardinality(1..Cardinality(K)) = IF 1 > Cardinality(K) THEN 0 ELSE Cardinality(K) - 1 + 1
      BY <3>1, FS_Interval
    <3> QED
      BY <1>2, <3>1, <3>2, FS_Interval
  <2> HIDE DEF rank
  <2> QED
    BY <1>6, <2>1, FS_Injection
<1>8. \A k \in 1..Cardinality(K) : \E i \in K : Rank(i, s) = k
  BY <1>7 DEF Surjection
<1>9. \A i, j \in K : Rank(i, s) < Rank(j, s) => i < j
  <2> SUFFICES ASSUME NEW i \in K, NEW j \in K, Rank(i, s) < Rank(j, s) PROVE i < j
    OBVIOUS
  <2>1. i \in Nat /\ j \in Nat /\ Rank(i, s) \in Nat /\ Rank(j, s) \in Nat
    BY <1>3, <1>4
  <2>2. ~(j < i) /\ i # j
    BY <1>5, <2>1
  <2> QED
    BY <2>1, <2>2
<1> QED
  BY <1>2, <1>8, <1>9 DEF K

\* Leaving out near duplicates keeps the order.
LEMMA UniqueInOrder ==
    ASSUME NEW s, Chronicle(s)
    PROVE  Chronicle(Unique(s))
<1> DEFINE n == Cardinality(Kept(s))
           nth(k) == CHOOSE i \in Kept(s) : Rank(i, s) = k
<1>1. s \in Seq(Entries) /\ Ordered(s) /\ UpTo(s, steps)
  BY DEF Chronicle
<1>2. n \in Nat /\ \A k \in 1..n : nth(k) \in Kept(s) /\ Rank(nth(k), s) = k
  BY <1>1, RanksOfKept
<1>3. \A k, l \in 1..n : k < l => nth(k) < nth(l)
  BY <1>1, <1>2, RanksOfKept
<1>4. \A k \in 1..n : nth(k) \in DOMAIN s
  BY <1>2 DEF Kept
<1>5. Unique(s) = [k \in 1..n |-> s[nth(k)]]
  BY DEF Unique
<1> HIDE DEF n, nth
<1>6. \A k \in 1..n : s[nth(k)] \in Entries
  BY <1>1, <1>4
<1>7. Unique(s) \in Seq(Entries) /\ DOMAIN Unique(s) = 1..n
  BY <1>2, <1>5, <1>6
<1>8. Ordered(Unique(s)) /\ UpTo(Unique(s), steps)
  BY <1>1, <1>3, <1>4, <1>5, <1>7 DEF Ordered, UpTo
<1> QED
  BY <1>7, <1>8 DEF Chronicle

Threads == [at: {"free", "queued", "copied", "published", "sliced"},
            copy: Seq(Entries), for: Dreamers \cup {"nobody"}]

(* Every copy a thread holds is in order, as the history is. *)
DreamInv ==
    /\ steps \in Nat
    /\ Chronicle(history)
    /\ worker \in [Workers -> Threads]
    /\ \A w \in Workers : Chronicle(worker[w].copy)

LEMMA DreamsInitially == Init => DreamInv
<1> SUFFICES ASSUME Init PROVE DreamInv
  OBVIOUS
<1>1. Chronicle(<<>>)
  BY DEF Chronicle, Ordered, UpTo
<1>2. Free \in Threads
  BY DEF Free, Threads
<1> QED
  BY <1>1, <1>2 DEF Init, DreamInv, Free

\* A step more is the youngest entry, if it is recorded.
LEMMA EvolveKeepsOrder ==
    ASSUME DreamInv, NEW p \in Places, Evolve(p), UNCHANGED worker
    PROVE  DreamInv'
<1>1. steps' = steps + 1 /\ steps \in Nat
  BY DEF Evolve, DreamInv
<1>2. ASSUME NEW s, Chronicle(s) PROVE Chronicle(s)'
  <2>1. s \in Seq(Entries) /\ Ordered(s) /\ UpTo(s, steps)
    BY <1>2 DEF Chronicle
  <2>2. \A i \in DOMAIN s : s[i] \in Entries
    BY <2>1
  <2>3. \A i \in DOMAIN s : s[i].step \in Nat /\ s[i].step <= steps
    BY <2>1, <2>2 DEF Entries, UpTo
  <2>4. UpTo(s, steps')
    BY <1>1, <2>3 DEF UpTo
  <2> QED
    BY <2>1, <2>4 DEF Chronicle
<1>3. Chronicle(history)'
  <2>1. CASE UNCHANGED history
    BY <1>2, <2>1 DEF DreamInv
  <2>2. CASE history' = Append(history, [step |-> steps', place |-> p])
    <3> DEFINE e == [step |-> steps', place |-> p]
    <3>1. e \in Entries /\ e.step = steps + 1
      BY <1>1 DEF Entries
    <3>2. history \in Seq(Entries) /\ Ordered(history) /\ UpTo(history, steps)
      BY DEF DreamInv, Chronicle
    <3>3. \A i \in DOMAIN history : history[i] \in Entries
      BY <3>2
    <3>4. \A i \in DOMAIN history : history[i].step \in Nat /\ history[i].step <= steps
      BY <3>2, <3>3 DEF Entries, UpTo
    <3> HIDE DEF e
    <3>5. /\ history' \in Seq(Entries) /\ DOMAIN history' = 1..(Len(history) + 1)
          /\ DOMAIN history = 1..Len(history) /\ Len(history) \in Nat
          /\ history'[Len(history) + 1] = e
          /\ \A i \in 1..Len(history) : history'[i] = history[i]
      BY <2>2, <3>1, <3>2 DEF e
    <3>6. Ordered(history')
      <4> SUFFICES ASSUME NEW i \in DOMAIN history', NEW j \in DOMAIN history', i < j
                   PROVE  history'[i].step < history'[j].step
        BY DEF Ordered
      <4>1. CASE j = Len(history) + 1
        <5>1. i \in DOMAIN history /\ history'[i] = history[i] /\ history'[j] = e
          BY <3>5, <4>1
        <5> QED
          BY <1>1, <3>1, <3>4, <5>1
      <4>2. CASE j # Len(history) + 1
        <5>1. /\ i \in DOMAIN history /\ history'[i] = history[i]
              /\ j \in DOMAIN history /\ history'[j] = history[j]
          BY <3>5, <4>2
        <5> QED
          BY <3>2, <5>1 DEF Ordered
      <4> QED
        BY <4>1, <4>2
    <3>7. UpTo(history', steps')
      BY <1>1, <3>1, <3>4, <3>5 DEF UpTo
    <3> QED
      BY <3>5, <3>6, <3>7 DEF Chronicle
  <2> QED
    BY <2>1, <2>2 DEF Evolve
<1>4. \A w \in Workers : Chronicle(worker[w].copy)'
  <2>1. \A w \in Workers : Chronicle(worker[w].copy)
    BY DEF DreamInv
  <2> SUFFICES ASSUME NEW w \in Workers PROVE Chronicle(worker[w].copy)'
    OBVIOUS
  <2>2. worker' = worker
    OBVIOUS
  <2>3. worker[w].copy \in Seq(Entries) /\ Ordered(worker[w].copy) /\ UpTo(worker[w].copy, steps)
    BY <2>1 DEF Chronicle
  <2>4. \A i \in DOMAIN worker[w].copy : worker[w].copy[i] \in Entries
    BY <2>3
  <2>5. \A i \in DOMAIN worker[w].copy :
            worker[w].copy[i].step \in Nat /\ worker[w].copy[i].step <= steps
    BY <2>3, <2>4 DEF Entries, UpTo
  <2>6. UpTo(worker[w].copy, steps')
    BY <1>1, <2>5 DEF UpTo
  <2> QED
    BY <2>2, <2>3, <2>6 DEF Chronicle
<1> QED
  BY <1>1, <1>3, <1>4 DEF DreamInv

LEMMA SuffixInOrder ==
    ASSUME NEW s, Chronicle(s), NEW m \in 0..Len(s)
    PROVE  Chronicle(SubSeq(s, m + 1, Len(s)))
<1> DEFINE u == SubSeq(s, m + 1, Len(s))
<1>1. s \in Seq(Entries) /\ Ordered(s) /\ UpTo(s, steps)
  BY DEF Chronicle
<1>2. /\ u \in Seq(Entries) /\ DOMAIN u = 1..(Len(s) - m) /\ DOMAIN s = 1..Len(s) /\ Len(s) \in Nat
      /\ \A i \in 1..(Len(s) - m) : u[i] = s[i + m]
  BY <1>1
<1> HIDE DEF u
<1>3. \A i \in DOMAIN u : i + m \in DOMAIN s /\ u[i] = s[i + m] /\ i \in Nat
  BY <1>2
<1>4. UpTo(u, steps)
  BY <1>1, <1>3 DEF UpTo
<1>5. Ordered(u)
  BY <1>1, <1>3 DEF Ordered
<1> QED
  BY <1>2, <1>4, <1>5 DEF Chronicle, u

\* One thread changes, and holds a copy in order.
LEMMA ThreadStep ==
    ASSUME DreamInv, NEW w \in Workers, NEW t \in Threads, UNCHANGED steps,
           worker' = [worker EXCEPT ![w] = t], Chronicle(t.copy), Chronicle(history')
    PROVE  DreamInv'
<1>1. worker \in [Workers -> Threads] /\ \A v \in Workers : Chronicle(worker[v].copy)
  BY DEF DreamInv
<1>2. worker' \in [Workers -> Threads]
  BY <1>1
<1>3. \A v \in Workers : worker'[v] = t \/ worker'[v] = worker[v]
  BY <1>1
<1>4. \A v \in Workers : Chronicle(worker'[v].copy)
  BY <1>1, <1>3
<1> QED
  BY <1>2, <1>4 DEF DreamInv, Chronicle

\* A thread copies, publishes and caps what is in order.
LEMMA DefragmentKeepsOrder ==
    ASSUME DreamInv, NEW w \in Workers, Copy(w) \/ Publish(w) \/ Slice(w) \/ Cap(w)
    PROVE  DreamInv'
<1>1. /\ worker \in [Workers -> Threads] /\ worker[w] \in Threads
      /\ Chronicle(worker[w].copy) /\ Chronicle(history)
  BY DEF DreamInv
<1>2. Chronicle(<<>>) /\ Free \in Threads /\ Free.copy = <<>>
  BY DEF Chronicle, Ordered, UpTo, Free, Threads
<1>3. UNCHANGED steps
  BY DEF Copy, Publish, Slice, Cap
<1>4. ASSUME Done(w), Chronicle(history') PROVE DreamInv'
  BY <1>2, <1>3, <1>4, ThreadStep DEF Done
<1>5. CASE Copy(w)
  <2>1. CASE Len(history) < 2
    BY <1>1, <1>4, <1>5, <2>1 DEF Copy
  <2>2. CASE ~(Len(history) < 2)
    <3> DEFINE t == [worker[w] EXCEPT !.at = "copied", !.copy = history]
    <3>1. worker' = [worker EXCEPT ![w] = t] /\ UNCHANGED history
      BY <1>1, <1>5, <2>2 DEF Copy, Threads
    <3>2. t \in Threads /\ t.copy = history
      BY <1>1 DEF Threads, Chronicle
    <3> HIDE DEF t
    <3> QED
      BY <1>1, <1>3, <3>1, <3>2, ThreadStep
  <2> QED
    BY <2>1, <2>2
<1>6. CASE Publish(w)
  <2> DEFINE t == [worker[w] EXCEPT !.at = "published", !.copy = <<>>]
  <2>1. worker' = [worker EXCEPT ![w] = t] /\ history' = Unique(worker[w].copy)
    BY <1>1, <1>6 DEF Publish, Threads
  <2>2. t \in Threads /\ t.copy = <<>>
    <3>1. <<>> \in Seq(Entries)
      OBVIOUS
    <3> QED
      BY <1>1, <3>1 DEF Threads
  <2>3. Chronicle(history')
    BY <1>1, <2>1, UniqueInOrder
  <2> HIDE DEF t
  <2> QED
    BY <1>2, <1>3, <2>1, <2>2, <2>3, ThreadStep
<1>7. CASE Slice(w)
  <2>1. CASE Len(history) <= MaxHistory
    BY <1>1, <1>4, <1>7, <2>1 DEF Slice
  <2>2. CASE ~(Len(history) <= MaxHistory)
    <3> DEFINE u == SubSeq(history, Len(history) - MaxHistory + 1, Len(history))
               t == [worker[w] EXCEPT !.at = "sliced", !.copy = u]
    <3>1. worker' = [worker EXCEPT ![w] = t] /\ UNCHANGED history
      BY <1>1, <1>7, <2>2 DEF Slice, Threads
    <3>2. Len(history) \in Nat /\ MaxHistory \in Nat
      BY <1>1, DreamAssumption DEF Chronicle
    <3>3. Chronicle(u)
      <4>1. Len(history) - MaxHistory \in 0..Len(history)
        BY <2>2, <3>2
      <4> QED
        BY <1>1, <4>1, SuffixInOrder
    <3>4. t \in Threads /\ t.copy = u
      BY <1>1, <3>3 DEF Threads, Chronicle
    <3> HIDE DEF t, u
    <3> QED
      BY <1>1, <1>3, <3>1, <3>3, <3>4, ThreadStep
  <2> QED
    BY <2>1, <2>2
<1>8. CASE Cap(w)
  BY <1>1, <1>4, <1>8 DEF Cap
<1> QED
  BY <1>5, <1>6, <1>7, <1>8

LEMMA DreamsStep == DreamInv /\ [Next]_vars => DreamInv'
<1> SUFFICES ASSUME DreamInv, [Next]_vars PROVE DreamInv'
  OBVIOUS
<1>1. ASSUME UNCHANGED <<history, steps, worker>> PROVE DreamInv'
  BY <1>1 DEF DreamInv, Chronicle
<1>2. ASSUME NEW p \in Places, Beat(p) \/ UserTurn(p) PROVE DreamInv'
  BY <1>2, EvolveKeepsOrder DEF Beat, UserTurn
<1>3. CASE Tick \/ InactivityDream \/ TurnDream \/ AutonomousDream
  BY <1>1, <1>3 DEF Tick, InactivityDream, TurnDream, AutonomousDream, Begin
<1>4. ASSUME NEW d \in Callers, Look(d) \/ EnterSleep(d) \/ Finish(d) \/ Fail(d) \/ Timeout(d)
      PROVE  DreamInv'
  BY <1>1, <1>4 DEF Look, EnterSleep, Finish, Fail, Timeout
<1>5. ASSUME NEW d \in Callers, NEW w \in Workers, StartDefragment(d, w) PROVE DreamInv'
  <2> DEFINE t == [Free EXCEPT !.at = "queued", !.for = d]
  <2>1. t \in Threads /\ t.copy = <<>>
    <3>1. <<>> \in Seq(Entries) /\ d \in Dreamers
      BY DEF Callers
    <3> QED
      BY <3>1 DEF Free, Threads
  <2>2. Chronicle(<<>>) /\ Chronicle(history)
    BY DEF DreamInv, Chronicle, Ordered, UpTo
  <2>3. worker' = [worker EXCEPT ![w] = t] /\ UNCHANGED <<history, steps>>
    BY <1>5 DEF StartDefragment
  <2> HIDE DEF t
  <2> QED
    BY <2>1, <2>2, <2>3, ThreadStep
<1>6. ASSUME NEW w \in Workers, Copy(w) \/ Publish(w) \/ Slice(w) \/ Cap(w) PROVE DreamInv'
  BY <1>6, DefragmentKeepsOrder
<1>7. CASE UNCHANGED vars
  BY <1>1, <1>7 DEF vars
<1> QED
  BY <1>2, <1>3, <1>4, <1>5, <1>6, <1>7, ZenonT(60) DEF Next

\* However many dreams rewrite the history at once, and however stale the
\* copies they publish, its entries stay in the order they were made.
THEOREM HistoryInOrder == Spec => []OrderKept
<1>1. DreamInv => OrderKept
  BY DEF DreamInv, Chronicle, Ordered, OrderKept
<1> QED
  BY <1>1, DreamsInitially, DreamsStep, PTL DEF Spec

(* The managed dream that runs, if one does, is the one it sleeps for. *)
SleepInv ==
    /\ chat \in BOOLEAN
    /\ pc \in [Dreamers -> {"awake", "before", "defrag", "after"}]
    /\ sleep \in {"awake", "sleeping"}
    /\ OneSleeper

\* What changes no managed caller's dreaming changes nothing for the manager.
LEMMA SleepUndisturbed ==
    ASSUME SleepInv, UNCHANGED <<chat, sleep>>,
           pc' \in [Dreamers -> {"awake", "before", "defrag", "after"}],
           \A d \in Managed : Dreaming(d)' <=> Dreaming(d)
    PROVE  SleepInv'
<1>1. Managed' = Managed
  BY DEF Managed, Callers
<1> HIDE DEF Dreaming
<1> QED
  BY <1>1 DEF SleepInv, OneSleeper

LEMMA SleepStep ==
    ASSUME ~Dashboard, SleepInv, [Next]_vars
    PROVE  SleepInv'
<1>0. Managed \subseteq Callers /\ Callers \subseteq Dreamers
      /\ Managed \subseteq {"heartbeat", "api"}
  BY DEF Managed, Callers
<1>t. pc \in [Dreamers -> {"awake", "before", "defrag", "after"}]
  BY DEF SleepInv
<1>1. ASSUME UNCHANGED <<chat, sleep, pc>> PROVE SleepInv'
  BY <1>1, <1>t, SleepUndisturbed DEF Dreaming
<1>2. CASE \E p \in Places : Beat(p) \/ UserTurn(p)
  BY <1>1, <1>2 DEF Beat, UserTurn
<1>3. ASSUME NEW d \in {"session", "turn", "tick"}, Begin(d) PROVE SleepInv'
  BY <1>0, <1>t, <1>3, SleepUndisturbed DEF Begin, Dreaming
<1>4. CASE Tick \/ InactivityDream \/ TurnDream \/ AutonomousDream
  <2>1. CASE Tick
    BY <1>1, <2>1 DEF Tick
  <2>2. CASE InactivityDream \/ TurnDream
    BY <1>3, <2>2 DEF InactivityDream, TurnDream
  <2>3. CASE AutonomousDream
    BY <1>1, <1>3, <2>3 DEF AutonomousDream
  <2> QED
    BY <1>4, <2>1, <2>2, <2>3
<1>5. ASSUME NEW d \in Callers, EnterSleep(d) PROVE SleepInv'
  <2>1. /\ d \in Managed /\ pc[d] = "awake" /\ sleep = "awake"
        /\ sleep' = "sleeping" /\ pc' = [pc EXCEPT ![d] = "before"] /\ UNCHANGED chat
    BY <1>5 DEF EnterSleep, MaySleep
  <2>2. \A e \in Managed : ~Dreaming(e)
    BY <2>1 DEF SleepInv, OneSleeper
  <2>3. \A e \in Managed : Dreaming(e)' <=> e = d
    BY <1>0, <1>t, <2>1, <2>2 DEF Dreaming
  <2>4. Managed' = Managed
    BY <2>1 DEF Managed, Callers
  <2>5. OneSleeper'
    <3> HIDE DEF Dreaming
    <3> QED
      BY <2>1, <2>3, <2>4 DEF OneSleeper
  <2>6. pc' \in [Dreamers -> {"awake", "before", "defrag", "after"}]
    BY <1>t, <2>1
  <2> QED
    BY <2>1, <2>5, <2>6 DEF SleepInv
<1>6. ASSUME NEW d \in Callers, Finish(d) \/ Fail(d) \/ Timeout(d) PROVE SleepInv'
  <2>1. /\ Dreaming(d) \/ pc[d] = "awake"
        /\ d \in Managed => Dreaming(d)
        /\ pc' = [pc EXCEPT ![d] = "awake"] /\ UNCHANGED chat
        /\ sleep' = IF d \in Managed THEN "awake" ELSE sleep
    BY <1>6 DEF Finish, Fail, Timeout, WakeUp, Dreaming
  <2>2. pc' \in [Dreamers -> {"awake", "before", "defrag", "after"}]
    BY <1>t, <2>1
  <2>3. CASE d \in Managed
    <3>1. \A e \in Managed : ~Dreaming(e)'
      <4> SUFFICES ASSUME NEW e \in Managed PROVE ~Dreaming(e)'
        OBVIOUS
      <4>1. CASE e = d
        BY <1>0, <1>t, <2>1, <4>1 DEF Dreaming
      <4>2. CASE e # d
        <5>1. ~Dreaming(e)
          BY <2>1, <2>3, <4>2 DEF SleepInv, OneSleeper
        <5> QED
          BY <1>0, <1>t, <2>1, <4>2, <5>1 DEF Dreaming
      <4> QED
        BY <4>1, <4>2
    <3>2. Managed' = Managed
      BY <2>1 DEF Managed, Callers
    <3>3. OneSleeper'
      <4> HIDE DEF Dreaming
      <4> QED
        BY <2>1, <2>3, <3>1, <3>2 DEF OneSleeper
    <3> QED
      BY <2>1, <2>2, <2>3, <3>3 DEF SleepInv
  <2>4. CASE d \notin Managed
    <3>1. \A e \in Managed : Dreaming(e)' <=> Dreaming(e)
      BY <1>0, <1>t, <2>1, <2>4 DEF Dreaming
    <3> QED
      BY <2>1, <2>2, <2>4, <3>1, SleepUndisturbed
  <2> QED
    BY <2>3, <2>4
<1>7. ASSUME NEW d \in Callers, NEW w \in Workers, StartDefragment(d, w) PROVE SleepInv'
  BY <1>0, <1>t, <1>7, SleepUndisturbed DEF StartDefragment, Dreaming
<1>8. ASSUME NEW w \in Workers, Done(w), UNCHANGED <<chat, sleep>> PROVE SleepInv'
  BY <1>0, <1>t, <1>8, SleepUndisturbed DEF Done, Dreaming
<1>9. ASSUME NEW w \in Workers, Copy(w) \/ Publish(w) \/ Slice(w) \/ Cap(w) PROVE SleepInv'
  BY <1>1, <1>8, <1>9 DEF Copy, Publish, Slice, Cap
<1>10. CASE UNCHANGED vars
  BY <1>1, <1>10 DEF vars
<1>11. ~ \E d \in Callers : Look(d)
  BY DEF Look
<1> QED
  BY <1>2, <1>4, <1>5, <1>6, <1>7, <1>9, <1>10, <1>11, ZenonT(60) DEF Next

\* Whatever dreams run at once, in the event loop or in threads that publish
\* stale copies, the history of psi keeps the order of its steps; and without an
\* API in a thread of its own the SleepManager sleeps for one dream at a time,
\* and exactly as long.
THEOREM DreamsStayInOrder == ~Dashboard => (Spec => []DreamsInOrder)
<1> SUFFICES ASSUME ~Dashboard PROVE Spec => []DreamsInOrder
  OBVIOUS
<1>1. Init => SleepInv
  BY DEF Init, SleepInv, OneSleeper, Dreaming, Managed, Callers
<1>2. SleepInv /\ [Next]_vars => SleepInv'
  BY SleepStep
<1>3. SleepInv => OneSleeper
  BY DEF SleepInv
<1>4. OrderKept /\ OneSleeper => DreamsInOrder
  BY DEF DreamsInOrder
<1> QED
  BY <1>1, <1>2, <1>3, <1>4, HistoryInOrder, PTL DEF Spec

-----------------------------------------------------------------------------
(***************************************************************************)
(* Sensors.                                                                *)
(***************************************************************************)
\* The places of an element in a sequence are finitely many.
LEMMA OccurrencesFinite ==
    ASSUME NEW S, NEW s \in Seq(S), NEW p
    PROVE  /\ IsFiniteSet({i \in DOMAIN s : s[i] = p})
           /\ Occurrences(p, s) \in Nat
<1> DEFINE places == {i \in DOMAIN s : s[i] = p}
<1>1. DOMAIN s = 1..Len(s) /\ Len(s) \in Nat
  OBVIOUS
<1>2. IsFiniteSet(1..Len(s))
  BY <1>1, FS_Interval
<1>3. places \in SUBSET (1..Len(s))
  BY <1>1
<1>4. IsFiniteSet(places)
  BY <1>2, <1>3, FS_Subset
<1> QED
  BY <1>4, FS_CardinalityType DEF Occurrences

\* Two sequences hold together as many of an element as each of them.
LEMMA OccurrencesOfConcat ==
    ASSUME NEW S, NEW s \in Seq(S), NEW t \in Seq(S), NEW p
    PROVE  Occurrences(p, s \o t) = Occurrences(p, s) + Occurrences(p, t)
<1> DEFINE n == Len(s)
           A == {i \in DOMAIN s : s[i] = p}
           B == {i \in DOMAIN t : t[i] = p}
           C == {i \in DOMAIN (s \o t) : (s \o t)[i] = p}
           shift == [i \in B |-> i + n]
           D == {i \in C : i > n}
<1>1. /\ n \in Nat /\ DOMAIN s = 1..n /\ DOMAIN t = 1..Len(t) /\ Len(t) \in Nat
      /\ DOMAIN (s \o t) = 1..(n + Len(t))
      /\ \A i \in 1..n : (s \o t)[i] = s[i]
      /\ \A i \in 1..Len(t) : (s \o t)[i + n] = t[i]
  OBVIOUS
<1>2. C = A \cup D /\ A \cap D = {}
  <2>1. A = {i \in C : i <= n}
    BY <1>1
  <2> QED
    BY <2>1, <1>1
<1>3. shift \in Bijection(B, D)
  <2>1. \A i \in B : i + n \in D
    BY <1>1
  <2>2. \A j \in D : j - n \in B /\ shift[j - n] = j
    <3> SUFFICES ASSUME NEW j \in D PROVE j - n \in B /\ shift[j - n] = j
      OBVIOUS
    <3>1. j \in (n + 1)..(n + Len(t)) /\ (s \o t)[j] = p
      BY <1>1
    <3>2. j - n \in 1..Len(t) /\ (s \o t)[(j - n) + n] = t[j - n] /\ (j - n) + n = j
      BY <1>1, <3>1
    <3> QED
      BY <1>1, <3>1, <3>2
  <2>3. shift \in [B -> D]
    BY <2>1
  <2>4. \A i, j \in B : shift[i] = shift[j] => i = j
    BY <1>1
  <2> HIDE DEF shift, B, D
  <2>5. shift \in Injection(B, D)
    BY <2>3, <2>4 DEF Injection, IsInjective
  <2>6. shift \in Surjection(B, D)
    BY <2>2, <2>3 DEF Surjection
  <2> QED
    BY <2>5, <2>6 DEF Bijection
<1>4. IsFiniteSet(A) /\ IsFiniteSet(B) /\ Cardinality(A) \in Nat /\ Cardinality(B) \in Nat
  BY OccurrencesFinite, FS_CardinalityType
<1>5. IsFiniteSet(D) /\ Cardinality(D) = Cardinality(B)
  <2> HIDE DEF shift, B, D
  <2> QED
    BY <1>3, <1>4, FS_Bijection DEF ExistsBijection
<1>6. Cardinality(C) = Cardinality(A) + Cardinality(D)
  <2> HIDE DEF A, C, D
  <2>1. A \cap D = {}
    BY <1>1, <1>2 DEF A, D
  <2>2. Cardinality(A \cup D) = Cardinality(A) + Cardinality(D) - Cardinality(A \cap D)
    BY <1>4, <1>5, FS_Union
  <2>3. Cardinality(A \cap D) = 0
    BY <2>1, FS_EmptySet
  <2>4. C = A \cup D
    BY <1>1, <1>2 DEF A, C, D
  <2> QED
    BY <1>4, <1>5, <2>2, <2>3, <2>4
<1> QED
  BY <1>5, <1>6 DEF Occurrences

\* The end of a sequence holds no more of an element than the sequence.
LEMMA OccurrencesOfSuffix ==
    ASSUME NEW S, NEW s \in Seq(S), NEW m \in 0..Len(s), NEW p
    PROVE  /\ SubSeq(s, m + 1, Len(s)) \in Seq(S)
           /\ Occurrences(p, SubSeq(s, m + 1, Len(s))) <= Occurrences(p, s)
<1> DEFINE u == SubSeq(s, m + 1, Len(s))
           A == {i \in DOMAIN s : s[i] = p}
           B == {i \in DOMAIN u : u[i] = p}
           shift == [i \in B |-> i + m]
<1>1. /\ u \in Seq(S) /\ DOMAIN s = 1..Len(s) /\ DOMAIN u = 1..(Len(s) - m)
      /\ \A i \in 1..(Len(s) - m) : u[i] = s[i + m]
  OBVIOUS
<1>2. shift \in [B -> A] /\ \A i, j \in B : shift[i] = shift[j] => i = j
  <2> HIDE DEF u
  <2> QED
    BY <1>1
<1>3. IsFiniteSet(A)
  BY OccurrencesFinite
<1> HIDE DEF shift, A, B
<1>4. shift \in Injection(B, A)
  BY <1>2 DEF Injection, IsInjective
<1>5. Cardinality(B) <= Cardinality(A)
  BY <1>3, <1>4, FS_Injection
<1> QED
  BY <1>1, <1>5 DEF Occurrences, A, B

LEMMA SensorConstants ==
    /\ MaxEvents \in Nat \ {0} /\ PromoteSupport \in Nat /\ PromoteSupport # 0
    /\ DemoteIdle \in Nat /\ PurgeIdle \in Nat /\ ValidateSupport \in Nat
  BY SensorAssumption

Candidates ==
    [status: {"none", "hypothesis", "validated", "promoted", "demoted"}, support: Nat, idle: Nat]

Earned(c) == c.status \in {"promoted", "demoted"} => c.support >= PromoteSupport

(* Sensors.  An event waits in the buffer or has been fed, never both, and  *)
(* the saved candidates are older ones.                                     *)
SensorsInv ==
    /\ events \in Seq(Patterns)
    /\ emitted \in [Patterns -> Nat]
    /\ sensors \in [Patterns -> Candidates]
    /\ sensorFile \in [Patterns -> Candidates]
    /\ \A p \in Patterns :
        /\ sensors[p].support + Occurrences(p, events) <= emitted[p]
        /\ sensorFile[p].support <= emitted[p]
        /\ Earned(sensors[p]) /\ Earned(sensorFile[p])

\* Aging and the life cycle leave a candidate its support or forget it.
LEMMA LifecycleIsEarned ==
    ASSUME NEW c \in Candidates, Earned(c)
    PROVE  /\ Lifecycle(Aged(c)) \in Candidates
           /\ Lifecycle(Aged(c)).support <= c.support
           /\ Earned(Lifecycle(Aged(c)))
<1> DEFINE a == Aged(c)
<1>1. a \in Candidates /\ a.support = c.support /\ a.status = c.status
  BY DEF Aged, Candidates
<1>2. Earned(a)
  BY <1>1 DEF Earned
<1> HIDE DEF a
<1> SUFFICES /\ Lifecycle(a) \in Candidates
             /\ Lifecycle(a).support <= a.support
             /\ Earned(Lifecycle(a))
  BY <1>1 DEF a
<1>3. CASE a.status = "hypothesis"
  BY <1>1, <1>3 DEF Lifecycle, Candidates, Earned
<1>4. CASE a.status = "validated"
  BY <1>1, <1>4 DEF Lifecycle, Candidates, Earned
<1>5. CASE a.status = "promoted"
  BY <1>1, <1>2, <1>5 DEF Lifecycle, Candidates, Earned
<1>6. CASE a.status = "demoted"
  BY <1>1, <1>2, <1>6, SensorConstants DEF Lifecycle, Candidates, Earned, NoSensor
<1>7. CASE a.status = "none"
  BY <1>1, <1>7 DEF Lifecycle, Candidates, Earned
<1> QED
  BY <1>1, <1>3, <1>4, <1>5, <1>6, <1>7 DEF Candidates

\* So is what the factory advances.
LEMMA FactoryTickIsEarned ==
    ASSUME NEW c \in [Patterns -> Candidates], \A p \in Patterns : Earned(c[p])
    PROVE  /\ FactoryTick(c) \in [Patterns -> Candidates]
           /\ \A p \in Patterns : FactoryTick(c)[p].support <= c[p].support
                                  /\ Earned(FactoryTick(c)[p])
<1>1. \A p \in Patterns : /\ Lifecycle(Aged(c[p])) \in Candidates
                          /\ Lifecycle(Aged(c[p])).support <= c[p].support
                          /\ Earned(Lifecycle(Aged(c[p])))
  BY LifecycleIsEarned
<1> QED
  BY <1>1 DEF FactoryTick

\* Feeding moves what waits into the supports.
LEMMA FeedingMovesEvents ==
    ASSUME NEW c \in [Patterns -> Candidates], NEW s \in Seq(Patterns),
           \A p \in Patterns : Earned(c[p])
    PROVE  /\ FeedWatcher(c, s) \in [Patterns -> Candidates]
           /\ \A p \in Patterns :
                /\ FeedWatcher(c, s)[p].support = c[p].support + Occurrences(p, s)
                /\ Earned(FeedWatcher(c, s)[p])
<1> SUFFICES ASSUME NEW p \in Patterns
             PROVE  /\ FeedWatcher(c, s)[p] \in Candidates
                    /\ FeedWatcher(c, s)[p].support = c[p].support + Occurrences(p, s)
                    /\ Earned(FeedWatcher(c, s)[p])
  BY DEF FeedWatcher
<1> DEFINE n == Occurrences(p, s)
<1>1. n \in Nat /\ c[p] \in Candidates /\ Earned(c[p])
  BY OccurrencesFinite
<1>2. FeedWatcher(c, s)[p] = IF n = 0 THEN c[p] ELSE Observed(c[p], n)
  BY DEF FeedWatcher
<1> HIDE DEF n
<1>3. CASE n = 0
  BY <1>1, <1>2, <1>3 DEF Candidates, n
<1>4. CASE n # 0
  <2>1. Observed(c[p], n) \in Candidates /\ Observed(c[p], n).support = c[p].support + n
    BY <1>1 DEF Observed, Candidates
  <2>2. Earned(Observed(c[p], n))
    BY <1>1, <2>1, SensorConstants DEF Observed, Earned, Candidates
  <2> QED
    BY <1>2, <1>4, <2>1, <2>2 DEF n
<1> QED
  BY <1>3, <1>4

LEMMA SensorsInitially == SensorsInit => SensorsInv
<1> SUFFICES ASSUME SensorsInit PROVE SensorsInv
  OBVIOUS
<1>1. NoSensor \in Candidates /\ NoSensor.support = 0 /\ Earned(NoSensor)
  BY DEF NoSensor, Candidates, Earned
<1>2. \A p \in Patterns : Occurrences(p, <<>>) = 0
  <2>1. \A p \in Patterns : {i \in DOMAIN <<>> : <<>>[i] = p} = {}
    OBVIOUS
  <2> QED
    BY <2>1, FS_EmptySet DEF Occurrences
<1> QED
  BY <1>1, <1>2 DEF SensorsInit, SensorsInv

\* What the watcher emits reaches the buffer, but for the oldest.
LEMMA ScanStep ==
    ASSUME SensorsInv, ScanOnce
    PROVE  SensorsInv'
<1>1. PICK new \in Snapshots :
        LET found == CompareSnapshots(snapshot, new) IN
        /\ events' = Latest(events \o found)
        /\ emitted' = [p \in Patterns |-> emitted[p] + Occurrences(p, found)]
  BY DEF ScanOnce
<1> DEFINE found == CompareSnapshots(snapshot, new)
           all == events \o found
<1>2. found \in Seq(Patterns)
  <2>2. Differences(snapshot, new) \in Seq(Patterns)
    <3>1. {"file_churn", "git_shift", "stability_change"} \subseteq Patterns
      BY DEF Patterns
    <3> HIDE DEF Patterns
    <3>2. /\ (IF new.files \ snapshot.files # {} THEN <<"file_churn">> ELSE <<>>) \in Seq(Patterns)
          /\ (IF snapshot.branch # new.branch THEN <<"git_shift">> ELSE <<>>) \in Seq(Patterns)
          /\ (IF (snapshot.status = "clean") # (new.status = "clean") THEN <<"stability_change">> ELSE <<>>) \in Seq(Patterns)
      BY <3>1
    <3> QED
      BY <3>2 DEF Differences
  <2>3. found \in {Differences(snapshot, new), <<"idle_period">>, <<>>}
    BY DEF CompareSnapshots
  <2>4. <<"idle_period">> \in Seq(Patterns)
    BY DEF Patterns
  <2>5. <<>> \in Seq(Patterns)
    OBVIOUS
  <2> HIDE DEF found
  <2> QED
    BY <2>2, <2>3, <2>4, <2>5, ZenonT(60)
<1>3. events' = Latest(all) /\ emitted' = [p \in Patterns |-> emitted[p] + Occurrences(p, found)]
  BY <1>1
<1>4. sensors' = sensors /\ sensorFile' = sensorFile
  BY DEF ScanOnce
<1> HIDE DEF found
<1>5. all \in Seq(Patterns) /\ Len(all) \in Nat
  BY <1>2 DEF SensorsInv
<1>6. \A p \in Patterns : /\ Occurrences(p, all) = Occurrences(p, events) + Occurrences(p, found)
                          /\ Occurrences(p, events) \in Nat /\ Occurrences(p, found) \in Nat
  BY <1>2, OccurrencesOfConcat, OccurrencesFinite DEF SensorsInv
<1> HIDE DEF all
<1>7. /\ Latest(all) \in Seq(Patterns)
      /\ \A p \in Patterns : Occurrences(p, Latest(all)) \in Nat
                             /\ Occurrences(p, Latest(all)) <= Occurrences(p, all)
  <2>1. CASE Len(all) > MaxEvents
    <3>1. Len(all) - MaxEvents \in 0..Len(all)
      BY <1>5, <2>1, SensorConstants
    <3>2. Latest(all) = SubSeq(all, (Len(all) - MaxEvents) + 1, Len(all))
      BY <2>1, SensorConstants DEF Latest
    <3> QED
      BY <1>5, <3>1, <3>2, OccurrencesOfSuffix, OccurrencesFinite
  <2>2. CASE ~(Len(all) > MaxEvents)
    BY <1>5, <2>2, <1>6 DEF Latest
  <2> QED
    BY <2>1, <2>2
<1>8. emitted' \in [Patterns -> Nat]
  BY <1>3, <1>6 DEF SensorsInv
<1>9. ASSUME NEW p \in Patterns
      PROVE  /\ sensors[p].support + Occurrences(p, events') <= emitted'[p]
             /\ sensorFile[p].support <= emitted'[p]
  <2>1. emitted'[p] = emitted[p] + Occurrences(p, found)
    BY <1>3
  <2>2. sensors[p].support \in Nat /\ sensorFile[p].support \in Nat /\ emitted[p] \in Nat
    BY DEF SensorsInv, Candidates
  <2>3. sensors[p].support + Occurrences(p, events) <= emitted[p] /\ sensorFile[p].support <= emitted[p]
    BY DEF SensorsInv
  <2> QED
    BY <1>3, <1>6, <1>7, <2>1, <2>2, <2>3
<1> QED
  BY <1>3, <1>4, <1>7, <1>8, <1>9 DEF SensorsInv

LEMMA SensorsStep ==
    ASSUME SensorsInv, [SensorsNext]_sensorVars
    PROVE  SensorsInv'
<1> USE DEF SensorsInv
<1>0. \A p \in Patterns : Occurrences(p, <<>>) = 0
  <2>1. \A p \in Patterns : {i \in DOMAIN <<>> : <<>>[i] = p} = {}
    OBVIOUS
  <2> QED
    BY <2>1, FS_EmptySet DEF Occurrences
<1>a. \A p \in Patterns : /\ sensors[p].support \in Nat /\ sensorFile[p].support \in Nat
                          /\ emitted[p] \in Nat /\ Occurrences(p, events) \in Nat
  BY OccurrencesFinite DEF Candidates
<1>1. CASE ScanOnce
  BY <1>1, ScanStep
<1>2. CASE PerceiveAndObserve
  <2> DEFINE fed == FeedWatcher(sensors, events)
  <2>1. /\ fed \in [Patterns -> Candidates]
        /\ \A p \in Patterns : fed[p].support = sensors[p].support + Occurrences(p, events)
                               /\ Earned(fed[p])
    BY FeedingMovesEvents
  <2> HIDE DEF fed
  <2> DEFINE ticked == FactoryTick(fed)
  <2>2. /\ ticked \in [Patterns -> Candidates]
        /\ \A p \in Patterns : ticked[p].support <= fed[p].support /\ Earned(ticked[p])
    BY <2>1, FactoryTickIsEarned
  <2>3. /\ sensors' = ticked /\ events' = <<>>
        /\ sensorFile' = sensorFile /\ emitted' = emitted
    BY <1>2 DEF PerceiveAndObserve, DrainEvents, fed
  <2> HIDE DEF ticked
  <2>4. \A p \in Patterns : fed[p].support \in Nat /\ ticked[p].support \in Nat
    BY <2>1, <2>2 DEF Candidates
  <2>5. \A p \in Patterns : ticked[p].support <= emitted[p]
    BY <1>a, <2>1, <2>2, <2>4
  <2>6. \A p \in Patterns : ticked[p].support + Occurrences(p, <<>>) <= emitted[p]
    BY <1>0, <2>4, <2>5
  <2> QED
    BY <2>2, <2>3, <2>6, SMTT(60)
<1>3. CASE PerceiveTurn
  <2> DEFINE fed == FeedWatcher(sensors, events)
  <2>1. /\ fed \in [Patterns -> Candidates]
        /\ \A p \in Patterns : fed[p].support = sensors[p].support + Occurrences(p, events)
                               /\ Earned(fed[p])
    BY FeedingMovesEvents
  <2> HIDE DEF fed
  <2>2. /\ sensors' = fed /\ events' = <<>>
        /\ sensorFile' = sensorFile /\ emitted' = emitted
    BY <1>3 DEF PerceiveTurn, DrainEvents, fed
  <2> QED
    BY <1>0, <1>a, <2>1, <2>2
<1>4. CASE RecordTurn
  <2> DEFINE ticked == FactoryTick(sensors)
  <2>1. /\ ticked \in [Patterns -> Candidates]
        /\ \A p \in Patterns : ticked[p].support <= sensors[p].support /\ Earned(ticked[p])
    BY FactoryTickIsEarned
  <2>2. \A p \in Patterns : ticked[p].support \in Nat
    BY <2>1 DEF Candidates
  <2>3. (sensors' = ticked \/ sensors' = sensors) /\ events' = events
        /\ sensorFile' = sensorFile /\ emitted' = emitted
    BY <1>4 DEF RecordTurn
  <2> HIDE DEF ticked
  <2>4. ASSUME NEW p \in Patterns
        PROVE  ticked[p].support + Occurrences(p, events) <= emitted[p]
    <3>1. sensors[p].support + Occurrences(p, events) <= emitted[p]
      OBVIOUS
    <3>2. /\ ticked[p].support \in Nat /\ sensors[p].support \in Nat
          /\ emitted[p] \in Nat /\ Occurrences(p, events) \in Nat
          /\ ticked[p].support <= sensors[p].support
      BY <1>a, <2>1, <2>2
    <3> HIDE DEF SensorsInv
    <3> QED
      BY <3>1, <3>2
  <2>5. CASE sensors' = ticked
    BY <2>1, <2>3, <2>4, <2>5
  <2>6. CASE sensors' = sensors
    BY <2>3, <2>6
  <2> QED
    BY <2>3, <2>5, <2>6
<1>5. CASE SaveSensors
  BY <1>5, <1>a DEF SaveSensors
<1>6. CASE RestartSensors
  BY <1>6, <1>0, <1>a DEF RestartSensors
<1>7. CASE UNCHANGED sensorVars
  BY <1>7 DEF sensorVars
<1> QED
  BY <1>1, <1>2, <1>3, <1>4, <1>5, <1>6, <1>7 DEF SensorsNext

\* Whoever drains the buffer and however often the process restarts, no event
\* is counted twice, and what the Thinker hears of has been earned.
THEOREM SensorsHaveEarned == SensorsSpec => []SensorsAreEarned
<1>1. SensorsInv => SensorsAreEarned
  <2> SUFFICES ASSUME SensorsInv, NEW p \in Patterns
               PROVE  /\ sensors[p].support <= emitted[p]
                      /\ sensors[p].status \in {"promoted", "demoted"} => sensors[p].support >= PromoteSupport
    BY DEF SensorsAreEarned
  <2>1. sensors[p].support \in Nat /\ emitted[p] \in Nat /\ Occurrences(p, events) \in Nat
    BY OccurrencesFinite DEF SensorsInv, Candidates
  <2> QED
    BY <2>1 DEF SensorsInv, Earned
<1> QED
  BY <1>1, SensorsInitially, SensorsStep, PTL DEF SensorsSpec

-----------------------------------------------------------------------------
(***************************************************************************)
(* Vigil.                                                                  *)
(***************************************************************************)
AlertTypes ==
    {"identity_drift", "identity_shift", "score_crash", "phase_degradation", "low_phi_iit"}
Severities == {"warning", "critical"}
Alerts == [type: AlertTypes, severity: Severities]
TellsFall(s) == \E k \in DOMAIN s : s[k].type = "phase_degradation"

\* Two lists of alerts tell together of what each tells of.
LEMMA TellsFallOfConcat ==
    ASSUME NEW s \in Seq(Alerts), NEW t \in Seq(Alerts)
    PROVE  s \o t \in Seq(Alerts) /\ (TellsFall(s \o t) <=> TellsFall(s) \/ TellsFall(t))
<1>1. /\ s \o t \in Seq(Alerts)
      /\ DOMAIN (s \o t) = 1..(Len(s) + Len(t)) /\ DOMAIN s = 1..Len(s) /\ DOMAIN t = 1..Len(t)
      /\ Len(s) \in Nat /\ Len(t) \in Nat
      /\ \A k \in 1..Len(s) : (s \o t)[k] = s[k]
      /\ \A k \in 1..Len(t) : (s \o t)[k + Len(s)] = t[k]
  OBVIOUS
<1>2. ASSUME TellsFall(s) PROVE TellsFall(s \o t)
  BY <1>1, <1>2 DEF TellsFall
<1>3. ASSUME TellsFall(t) PROVE TellsFall(s \o t)
  <2>1. PICK k \in 1..Len(t) : t[k].type = "phase_degradation"
    BY <1>1, <1>3 DEF TellsFall
  <2>2. k + Len(s) \in DOMAIN (s \o t) /\ (s \o t)[k + Len(s)].type = "phase_degradation"
    BY <1>1, <2>1
  <2> QED
    BY <2>2 DEF TellsFall
<1>4. ASSUME TellsFall(s \o t), ~TellsFall(s) PROVE TellsFall(t)
  <2>1. PICK k \in 1..(Len(s) + Len(t)) : (s \o t)[k].type = "phase_degradation"
    BY <1>1, <1>4 DEF TellsFall
  <2>2. ~(k <= Len(s))
    BY <1>1, <1>4, <2>1 DEF TellsFall
  <2>3. k - Len(s) \in 1..Len(t) /\ (k - Len(s)) + Len(s) = k
    BY <1>1, <2>1, <2>2
  <2>4. t[k - Len(s)].type = "phase_degradation"
    BY <1>1, <2>1, <2>3
  <2> QED
    BY <1>1, <2>3, <2>4 DEF TellsFall
<1> QED
  BY <1>1, <1>2, <1>3, <1>4

LEMMA OneAlertTells ==
    ASSUME NEW type \in AlertTypes, NEW severity \in Severities
    PROVE  /\ <<[type |-> type, severity |-> severity]>> \in Seq(Alerts)
           /\ TellsFall(<<[type |-> type, severity |-> severity]>>) <=> type = "phase_degradation"
           /\ <<>> \in Seq(Alerts) /\ ~TellsFall(<<>>)
<1> DEFINE a == [type |-> type, severity |-> severity]
<1>1. a \in Alerts /\ a.type = type
  BY DEF Alerts
<1> HIDE DEF a
<1>2. <<a>> \in Seq(Alerts) /\ DOMAIN <<a>> = {1} /\ <<a>>[1] = a
  BY <1>1
<1>3. TellsFall(<<a>>) <=> type = "phase_degradation"
  BY <1>1, <1>2 DEF TellsFall
<1>4. <<>> \in Seq(Alerts) /\ ~TellsFall(<<>>)
  BY DEF TellsFall
<1> QED
  BY <1>2, <1>3, <1>4 DEF a

\* A check tells of a fall iff the phase is lower than the one remembered.
LEMMA CheckTellsOfFalls ==
    ASSUME NEW c
    PROVE  /\ Check(c) \in Seq(Alerts)
           /\ TellsFall(Check(c)) <=> (previous # <<>> /\ IsDegradation(previous[2], c.phase))
<1> DEFINE drift == SquaredDrift(c.psi)
           known == previous # <<>>
           c1 == IF drift >= Square(618) THEN If(TRUE, "identity_drift", "critical")
                 ELSE If(drift >= Square(382), "identity_drift", "warning")
           c2 == If(~IdentityPreserved(c.psi), "identity_shift", "warning")
           c3 == If(known /\ previous[1] - c.quality >= 236, "score_crash", "critical")
           c4 == If(known /\ IsDegradation(previous[2], c.phase), "phase_degradation", "warning")
           c5 == If(c.phi < 382, "low_phi_iit", "warning")
<1>0. /\ "identity_drift" # "phase_degradation" /\ "identity_shift" # "phase_degradation"
      /\ "score_crash" # "phase_degradation" /\ "low_phi_iit" # "phase_degradation"
      /\ "identity_drift" \in AlertTypes /\ "identity_shift" \in AlertTypes
      /\ "score_crash" \in AlertTypes /\ "phase_degradation" \in AlertTypes
      /\ "low_phi_iit" \in AlertTypes /\ "warning" \in Severities /\ "critical" \in Severities
  BY DEF AlertTypes, Severities
<1> HIDE DEF drift
<1>1. c1 \in Seq(Alerts) /\ ~TellsFall(c1)
  <2>1. c1 \in {<<[type |-> "identity_drift", severity |-> "critical"]>>,
                <<[type |-> "identity_drift", severity |-> "warning"]>>, <<>>}
    BY DEF If
  <2> HIDE DEF c1
  <2> QED
    BY <1>0, <2>1, OneAlertTells, ZenonT(60)
<1>2. c2 \in Seq(Alerts) /\ ~TellsFall(c2)
  BY <1>0, OneAlertTells, ZenonT(60) DEF If
<1>3. c3 \in Seq(Alerts) /\ ~TellsFall(c3)
  BY <1>0, OneAlertTells, ZenonT(60) DEF If
<1>4. c4 \in Seq(Alerts) /\ (TellsFall(c4) <=> (known /\ IsDegradation(previous[2], c.phase)))
  BY <1>0, OneAlertTells, ZenonT(60) DEF If
<1>5. c5 \in Seq(Alerts) /\ ~TellsFall(c5)
  BY <1>0, OneAlertTells, ZenonT(60) DEF If
<1>6. Check(c) = (((c1 \o c2) \o c3) \o c4) \o c5
  BY ZenonT(60) DEF Check, drift
<1> HIDE DEF c1, c2, c3, c4, c5, drift
<1>7. c1 \o c2 \in Seq(Alerts) /\ ~TellsFall(c1 \o c2)
  BY <1>1, <1>2, TellsFallOfConcat
<1>8. (c1 \o c2) \o c3 \in Seq(Alerts) /\ ~TellsFall((c1 \o c2) \o c3)
  BY <1>7, <1>3, TellsFallOfConcat
<1>9. /\ ((c1 \o c2) \o c3) \o c4 \in Seq(Alerts)
      /\ TellsFall(((c1 \o c2) \o c3) \o c4) <=> (known /\ IsDegradation(previous[2], c.phase))
  BY <1>8, <1>4, TellsFallOfConcat
<1>10. /\ (((c1 \o c2) \o c3) \o c4) \o c5 \in Seq(Alerts)
       /\ TellsFall((((c1 \o c2) \o c3) \o c4) \o c5) <=> (known /\ IsDegradation(previous[2], c.phase))
  BY <1>9, <1>5, TellsFallOfConcat
<1> QED
  BY <1>6, <1>10, ZenonT(60)

TrailLines == [at: Nat, type: AlertTypes \cup {"dream_complete"}]
ToldEntries == [at: Nat, severity: Severities]
TrailLine(i) == [at |-> i, type |-> "phase_degradation"]
PlacesOf(s, e) == {k \in DOMAIN s : s[k] = e}
Noted(i) == PlacesOf(trail, TrailLine(i))
FallLines(i) == Lines(i, "phase_degradation")

Recording ==
    \A i \in DOMAIN beats :
        /\ FallLines(i) \in {0, 1}
        /\ FallLines(i) = 1 => Falls(i)
        /\ (i < Len(beats) \/ heart \in {"waiting", "beating", "dreaming"}) /\ Falls(i) => FallLines(i) = 1

Told ==
    /\ told \in Seq(ToldEntries)
    /\ \A k \in DOMAIN told : told[k].at <= Len(beats)
                              /\ (heart = "auditing" => told[k].at < Len(beats))
    /\ \A i \in 1..(Len(told) - 1) : told[i].at < told[i + 1].at

Resting ==
    /\ anomaly \in BOOLEAN /\ dreams \in BOOLEAN
    /\ beats # <<>> => anomaly = (alerts # <<>>)
    /\ dreams => heart = "dreaming"
    /\ heart = "waiting" /\ beats # <<>> => (interval = "alert") = (alerts # <<>>)
    /\ interval # "sleep"

(* The heart remembers the last beat; lines and alerts are of past beats;   *)
(* the alerts of the present beat tell of its fall.                         *)
Remembering ==
    /\ heart \in {"off", "waiting", "auditing", "beating", "dreaming", "dead"}
    /\ beats \in Seq(Conditions)
    /\ previous = IF beats = <<>> THEN <<>>
                  ELSE <<beats[Len(beats)].quality, beats[Len(beats)].phase>>
    /\ alerts \in Seq(Alerts)
    /\ beats # <<>> => (TellsFall(alerts) <=> Falls(Len(beats)))
    /\ heart \in {"auditing", "beating", "dreaming"} => beats # <<>>
    /\ heart = "auditing" => alerts # <<>>

Trail ==
    /\ trail \in Seq(TrailLines)
    /\ \A k \in DOMAIN trail : trail[k].at <= Len(beats)

VigilInv == Remembering /\ Trail /\ Recording /\ Told /\ Resting

\* A line more for a beat counts for that beat alone.
LEMMA OneMoreLine ==
    ASSUME NEW s \in Seq(TrailLines), NEW line \in TrailLines, NEW e
    PROVE  /\ Append(s, line) \in Seq(TrailLines)
           /\ IsFiniteSet(PlacesOf(s, e)) /\ Cardinality(PlacesOf(s, e)) \in Nat
           /\ line # e => Cardinality(PlacesOf(Append(s, line), e)) = Cardinality(PlacesOf(s, e))
           /\ line = e => Cardinality(PlacesOf(Append(s, line), e)) = Cardinality(PlacesOf(s, e)) + 1
<1> DEFINE t == Append(s, line)
           A == {k \in DOMAIN s : s[k] = e}
           B == {k \in DOMAIN t : t[k] = e}
<1>1. /\ t \in Seq(TrailLines) /\ DOMAIN s = 1..Len(s) /\ DOMAIN t = 1..(Len(s) + 1)
      /\ Len(s) \in Nat /\ t[Len(s) + 1] = line
      /\ \A k \in 1..Len(s) : t[k] = s[k]
  OBVIOUS
<1>2. IsFiniteSet(A) /\ Cardinality(A) \in Nat
  <2>1. A \in SUBSET (1..Len(s))
    BY <1>1
  <2>2. IsFiniteSet(1..Len(s))
    BY <1>1, FS_Interval
  <2> QED
    BY <2>1, <2>2, FS_Subset, FS_CardinalityType
<1>3. line # e => B = A
  BY <1>1
<1>4. line = e => B = A \cup {Len(s) + 1} /\ Len(s) + 1 \notin A
  BY <1>1
<1> HIDE DEF A, B, t
<1>5. line = e => Cardinality(B) = Cardinality(A) + 1
  BY <1>2, <1>4, FS_AddElement
<1> QED
  BY <1>1, <1>2, <1>3, <1>5 DEF PlacesOf, A, B, t

LEMMA VigilElements ==
    ASSUME VigilInv
    PROVE  /\ \A k \in DOMAIN alerts : alerts[k].type \in AlertTypes /\ alerts[k].severity \in Severities
           /\ \A k \in DOMAIN trail : trail[k] = [at |-> trail[k].at, type |-> trail[k].type]
                                      /\ trail[k].at \in Nat /\ trail[k].at <= Len(beats)
           /\ \A k \in DOMAIN told : told[k].at \in Nat /\ told[k].at <= Len(beats)
<1>1. \A k \in DOMAIN alerts : alerts[k] \in Alerts
  BY DEF VigilInv, Remembering
<1>2. \A k \in DOMAIN trail : trail[k] \in TrailLines /\ trail[k].at <= Len(beats)
  BY DEF VigilInv, Trail
<1>3. \A k \in DOMAIN told : told[k] \in ToldEntries /\ told[k].at <= Len(beats)
  BY DEF VigilInv, Told
<1> QED
  BY <1>1, <1>2, <1>3 DEF Alerts, TrailLines, ToldEntries

LEMMA VigilInitially == VigilInit => VigilInv
<1> SUFFICES ASSUME VigilInit PROVE VigilInv
  OBVIOUS
<1> USE DEF VigilInit
<1>1. Remembering
  BY DEF Remembering
<1>2. Trail /\ Told
  BY DEF Trail, Told
<1>3. Recording
  BY DEF Recording
<1>4. Resting
  BY DEF Resting
<1> QED
  BY <1>1, <1>2, <1>3, <1>4 DEF VigilInv

LEMMA StartStep == ASSUME StartHeart PROVE VigilInv'
<1> USE DEF StartHeart
<1>1. Remembering'
  BY DEF Remembering
<1>2. Trail' /\ Told'
  BY DEF Trail, Told
<1>3. Recording'
  BY DEF Recording
<1>4. Resting'
  BY DEF Resting
<1> QED
  BY <1>1, <1>2, <1>3, <1>4 DEF VigilInv

\* What leaves the beats and the trail alone leaves their counts alone.
LEMMA SameCounts ==
    ASSUME UNCHANGED <<beats, trail>>
    PROVE  \A i : Falls(i)' = Falls(i) /\ FallLines(i)' = FallLines(i)
  BY DEF Falls, FallLines, Lines

LEMMA EvolvesStep == ASSUME VigilInv, LunaEvolves PROVE VigilInv'
<1>1. UNCHANGED <<heart, beats, previous, alerts, trail, anomaly, dreams, interval, webhook, told>>
  BY DEF LunaEvolves, rhythmVars, toldVars
<1> QED
  BY <1>1, SameCounts DEF VigilInv, Remembering, Trail, Recording, Told, Resting

\* A new beat is compared with the one before it.
LEMMA BeatStep == ASSUME VigilInv, HeartBeats PROVE VigilInv'
<1>1. PICK c \in Conditions :
        /\ beats' = Append(beats, c)
        /\ alerts' = Check(c)
        /\ previous' = Remembered(c)
        /\ anomaly' = (Check(c) # <<>>)
        /\ heart' = IF Check(c) # <<>> THEN "auditing" ELSE "beating"
  BY ZenonT(60) DEF HeartBeats
<1>2. heart = "waiting" /\ UNCHANGED <<dreams, interval, trail, webhook, told>>
  BY DEF HeartBeats, toldVars
<1>n. PICK n \in Nat : n = Len(beats)
  BY DEF VigilInv, Remembering
<1>3. /\ beats \in Seq(Conditions) /\ n \in Nat
      /\ beats' \in Seq(Conditions) /\ Len(beats') = n + 1 /\ beats' # <<>>
      /\ DOMAIN beats = 1..n /\ DOMAIN beats' = 1..(n + 1)
      /\ beats'[n + 1] = c /\ \A i \in 1..n : beats'[i] = beats[i]
      /\ beats = <<>> <=> n = 0
      /\ n = Len(beats)
  BY <1>1, <1>n DEF VigilInv, Remembering
<1> DEFINE fall == previous # <<>> /\ IsDegradation(previous[2], c.phase)
<1>4. Check(c) \in Seq(Alerts) /\ (TellsFall(Check(c)) <=> fall)
  BY CheckTellsOfFalls
<1>5. Falls(n + 1)' <=> fall
  <2>1. CASE n = 0
    BY <1>3, <2>1 DEF VigilInv, Remembering, Falls
  <2>2. CASE n # 0
    <3>1. previous = <<beats[n].quality, beats[n].phase>>
      BY <1>3, <2>2 DEF VigilInv, Remembering
    <3>2. Falls(n + 1)' <=> IsDegradation(beats[n].phase, c.phase)
      BY <1>3, <2>2 DEF Falls
    <3> QED
      BY <3>1, <3>2
  <2> QED
    BY <2>1, <2>2
<1>6. \A i \in 1..n : Falls(i)' = Falls(i)
  <2> SUFFICES ASSUME NEW i \in 1..n PROVE Falls(i)' = Falls(i)
    OBVIOUS
  <2>1. i > 1 => i - 1 \in 1..n
    BY <1>3
  <2> QED
    BY <1>3, <2>1 DEF Falls
<1>7. \A i : FallLines(i)' = FallLines(i)
  BY <1>2 DEF FallLines, Lines
<1>8. FallLines(n + 1) = 0
  <2>1. Noted(n + 1) = {}
    BY <1>3 DEF VigilInv, Trail, PlacesOf, Noted, TrailLine, TrailLines
  <2> QED
    BY <2>1, FS_EmptySet DEF FallLines, Lines, PlacesOf, Noted, TrailLine
<1>9. Remembering'
  BY <1>1, <1>3, <1>4, <1>5 DEF Remembering, Remembered
<1>10. Trail'
  <2>1. \A k \in DOMAIN trail : trail[k].at \in Nat /\ trail[k].at <= n
    BY <1>n, VigilElements
  <2>2. \A k \in DOMAIN trail : trail[k].at <= n + 1
    BY <2>1
  <2> QED
    BY <1>2, <1>3, <2>2 DEF VigilInv, Trail
<1>11. Recording'
  <2> SUFFICES ASSUME NEW i \in 1..(n + 1)
               PROVE  /\ FallLines(i) \in {0, 1}
                      /\ FallLines(i) = 1 => Falls(i)'
                      /\ (i < n + 1 \/ heart' \in {"waiting", "beating", "dreaming"}) /\ Falls(i)'
                            => FallLines(i) = 1
    BY <1>3, <1>7 DEF Recording
  <2>1. CASE i = n + 1
    <3>1. heart' = "auditing" \/ ~fall
      BY <1>1, <1>4 DEF TellsFall
    <3> QED
      BY <1>3, <1>5, <1>8, <2>1, <3>1
  <2>2. CASE i # n + 1
    <3>1. i \in 1..n
      BY <1>3, <2>2
    <3> QED
      BY <1>2, <1>3, <1>6, <3>1 DEF VigilInv, Recording
  <2> QED
    BY <2>1, <2>2
<1>12. Told'
  <2>1. \A k \in DOMAIN told : told[k].at \in Nat /\ told[k].at <= n
    BY <1>n, VigilElements
  <2>2. \A k \in DOMAIN told : told[k].at <= n + 1 /\ told[k].at < n + 1
    BY <2>1
  <2> QED
    BY <1>2, <1>3, <2>2 DEF VigilInv, Told
<1>13. Resting'
  BY <1>1, <1>2, <1>3 DEF VigilInv, Resting
<1> QED
  BY <1>9, <1>10, <1>11, <1>12, <1>13 DEF VigilInv

\* The first alert not yet recorded gets its line.
LEMMA LineStep == ASSUME VigilInv, AuditLine PROVE VigilInv'
<1>n. PICK n \in Nat : n = Len(beats) /\ n # 0 /\ DOMAIN beats = 1..n
  BY DEF VigilInv, Remembering, AuditLine
<1>1. PICK first \in Unrecorded :
        trail' = Append(trail, [at |-> Len(beats), type |-> alerts[first].type])
  BY ZenonT(60) DEF AuditLine
<1>2. /\ heart = "auditing"
      /\ UNCHANGED <<heart, beats, previous, alerts, anomaly, dreams, interval, webhook, told>>
  BY DEF AuditLine, rhythmVars, toldVars
<1> DEFINE line == [at |-> n, type |-> alerts[first].type]
<1>3. first \in DOMAIN alerts /\ alerts[first].type \notin Recorded
  BY <1>1 DEF Unrecorded
<1>4. alerts[first].type \in AlertTypes
  BY <1>3, VigilElements
<1>5. line \in TrailLines /\ trail' = Append(trail, line) /\ line.at = n /\ line.type = alerts[first].type
  BY <1>1, <1>4, <1>n DEF TrailLines
<1> HIDE DEF line
<1>6. /\ trail \in Seq(TrailLines) /\ trail' \in Seq(TrailLines)
      /\ \A i : /\ TrailLine(i) # line => FallLines(i)' = FallLines(i)
                /\ TrailLine(i) = line => FallLines(i)' = FallLines(i) + 1
  <2>1. trail \in Seq(TrailLines)
    BY DEF VigilInv, Trail
  <2>2. ASSUME NEW i
        PROVE  /\ TrailLine(i) # line => FallLines(i)' = FallLines(i)
               /\ TrailLine(i) = line => FallLines(i)' = FallLines(i) + 1
    <3>1. /\ FallLines(i) = Cardinality(PlacesOf(trail, TrailLine(i)))
          /\ FallLines(i)' = Cardinality(PlacesOf(trail', TrailLine(i)))
      BY DEF FallLines, Lines, TrailLine, PlacesOf
    <3> QED
      BY <1>5, <2>1, <3>1, OneMoreLine
  <2>3. trail' \in Seq(TrailLines)
    BY <1>5, <2>1, OneMoreLine
  <2> QED
    BY <2>1, <2>2, <2>3
<1>7. \A i : Falls(i)' = Falls(i)
  BY <1>2 DEF Falls
<1>8. TrailLine(n) = line => FallLines(n) = 0 /\ Falls(n)
  <2> SUFFICES ASSUME TrailLine(n) = line PROVE FallLines(n) = 0 /\ Falls(n)
    OBVIOUS
  <2>1. alerts[first].type = "phase_degradation"
    BY <1>5 DEF TrailLine
  <2>2. Falls(n)
    BY <1>3, <1>n, <2>1 DEF VigilInv, Remembering, TellsFall
  <2>3. Noted(n) = {}
    BY <1>3, <1>n, <2>1 DEF PlacesOf, Noted, TrailLine, Recorded
  <2> QED
    BY <2>2, <2>3, FS_EmptySet DEF FallLines, Lines, PlacesOf, Noted, TrailLine
<1>9. \A i : TrailLine(i) = line => i = n
  BY <1>5 DEF TrailLine
<1>10. Recording'
  <2> SUFFICES ASSUME NEW i \in DOMAIN beats
               PROVE  /\ FallLines(i)' \in {0, 1}
                      /\ FallLines(i)' = 1 => Falls(i)
                      /\ i < Len(beats) /\ Falls(i) => FallLines(i)' = 1
    BY <1>2, <1>7 DEF Recording
  <2>1. CASE TrailLine(i) = line
    BY <1>6, <1>8, <1>9, <1>n, <2>1
  <2>2. CASE TrailLine(i) # line
    BY <1>6, <2>2 DEF VigilInv, Recording
  <2> QED
    BY <2>1, <2>2
<1>11. Trail'
  <2>1. \A k \in DOMAIN trail' : trail'[k].at <= n
    BY <1>5, <1>6, <1>n DEF VigilInv, Trail
  <2> QED
    BY <1>2, <1>6, <1>n, <2>1 DEF Trail
<1>12. Remembering' /\ Told' /\ Resting'
  BY <1>2, <1>7 DEF VigilInv, Remembering, Told, Resting
<1> QED
  BY <1>10, <1>11, <1>12 DEF VigilInv

\* The heart goes on when every alert has its line.
LEMMA AlertStep == ASSUME VigilInv, Alert PROVE VigilInv'
<1>n. PICK n \in Nat : n = Len(beats) /\ n # 0 /\ DOMAIN beats = 1..n
  BY DEF VigilInv, Remembering, Alert
<1>1. /\ heart = "auditing" /\ heart' = "beating" /\ Unrecorded = {}
      /\ UNCHANGED <<beats, previous, alerts, trail, anomaly, dreams, interval>>
      /\ told' \in {told, LastTold(Append(told, [at |-> Len(beats), severity |-> alerts[1].severity]))}
  BY DEF Alert, rhythmVars
<1>2. Falls(n) => FallLines(n) = 1
  <2> SUFFICES ASSUME Falls(n) PROVE FallLines(n) = 1
    OBVIOUS
  <2>1. PICK k \in DOMAIN alerts : alerts[k].type = "phase_degradation"
    BY <1>n DEF VigilInv, Remembering, TellsFall
  <2>2. "phase_degradation" \in Recorded
    BY <1>1, <2>1 DEF Unrecorded
  <2>3. PICK l \in DOMAIN trail : trail[l].at = n /\ trail[l].type = "phase_degradation"
    BY <1>n, <2>2 DEF Recorded
  <2>4. trail[l] = TrailLine(n)
    BY <2>3, VigilElements DEF TrailLine
  <2>5. Noted(n) # {} /\ IsFiniteSet(Noted(n)) /\ FallLines(n) = Cardinality(Noted(n))
    <3>1. l \in Noted(n)
      BY <2>4 DEF PlacesOf, Noted
    <3>2. Noted(n) \subseteq 1..Len(trail) /\ Len(trail) \in Nat
      BY DEF PlacesOf, Noted, VigilInv, Trail
    <3>3. IsFiniteSet(1..Len(trail))
      BY <3>2, FS_Interval
    <3> QED
      BY <3>1, <3>2, <3>3, FS_Subset DEF FallLines, Lines, PlacesOf, Noted, TrailLine
  <2>6. FallLines(n) # 0
    BY <2>5, FS_EmptySet
  <2> QED
    BY <1>n, <2>6 DEF VigilInv, Recording
<1>3. \A i : Falls(i)' = Falls(i) /\ FallLines(i)' = FallLines(i)
  BY <1>1, SameCounts
<1>4. Recording'
  BY <1>1, <1>2, <1>3, <1>n DEF VigilInv, Recording
<1>5. Remembering' /\ Trail' /\ Resting'
  BY <1>1, <1>3 DEF VigilInv, Remembering, Trail, Resting
<1>6. Told'
  <2> DEFINE entry == [at |-> n, severity |-> alerts[1].severity]
             all == Append(told, entry)
  <2>1. alerts[1].severity \in Severities
    <3>1. 1 \in DOMAIN alerts
      BY <1>1 DEF VigilInv, Remembering
    <3> QED
      BY <3>1, VigilElements
  <2>2. entry \in ToldEntries /\ entry.at = n
    BY <2>1 DEF ToldEntries
  <2>3. \A k \in DOMAIN told : told[k].at \in Nat /\ told[k].at < n
    BY <1>1, <1>n, VigilElements DEF VigilInv, Told
  <2> HIDE DEF entry
  <2>4. /\ all \in Seq(ToldEntries) /\ Len(all) = Len(told) + 1 /\ Len(told) \in Nat
        /\ \A k \in DOMAIN all : all[k].at <= n
        /\ \A i \in 1..(Len(all) - 1) : all[i].at < all[i + 1].at
    BY <2>2, <2>3 DEF VigilInv, Told
  <2> HIDE DEF all
  <2>5. /\ LastTold(all) \in Seq(ToldEntries)
        /\ \A k \in DOMAIN LastTold(all) : LastTold(all)[k].at <= n
        /\ \A i \in 1..(Len(LastTold(all)) - 1) : LastTold(all)[i].at < LastTold(all)[i + 1].at
    <3>1. CASE Len(all) > MaxTold
      <4> DEFINE rest == Tail(all)
      <4>1. LastTold(all) = rest
        BY <3>1 DEF LastTold
      <4>2. /\ rest \in Seq(ToldEntries) /\ Len(rest) = Len(all) - 1
            /\ DOMAIN rest = 1..(Len(all) - 1) /\ DOMAIN all = 1..Len(all)
            /\ \A k \in 1..(Len(all) - 1) : rest[k] = all[k + 1]
        BY <2>4
      <4> HIDE DEF rest
      <4>3. \A k \in DOMAIN rest : rest[k].at <= n
        <5>1. \A k \in DOMAIN rest : k + 1 \in DOMAIN all /\ rest[k] = all[k + 1]
          BY <2>4, <4>2
        <5> QED
          BY <2>4, <5>1
      <4>4. \A i \in 1..(Len(rest) - 1) : rest[i].at < rest[i + 1].at
        BY <2>4, <4>2
      <4> QED
        BY <4>1, <4>2, <4>3, <4>4
    <3>2. CASE ~(Len(all) > MaxTold)
      BY <2>4, <3>2 DEF LastTold
    <3> QED
      BY <3>1, <3>2
  <2>6. told' \in {told, LastTold(all)}
    BY <1>1, <1>n DEF all, entry
  <2> HIDE DEF LastTold
  <2>7. CASE told' = told
    BY <1>1, <2>7 DEF VigilInv, Told
  <2>8. CASE told' = LastTold(all)
    BY <1>1, <1>n, <2>5, <2>8 DEF Told
  <2> QED
    BY <2>6, <2>7, <2>8
<1> QED
  BY <1>4, <1>5, <1>6 DEF VigilInv

\* A dream, its end and a failure add no line of a fall, and rest leaves none to come.
LEMMA OtherSteps ==
    ASSUME VigilInv, HeartFails \/ FallAsleep \/ DreamEnds \/ Rest
    PROVE  VigilInv'
<1>1. CASE HeartFails
  <2>1. UNCHANGED <<beats, previous, alerts, anomaly, interval, trail, told>>
        /\ heart' = "dead" /\ dreams' = FALSE
    BY <1>1 DEF HeartFails, toldVars
  <2> QED
    BY <2>1, SameCounts DEF VigilInv, Remembering, Trail, Recording, Told, Resting
<1>2. CASE FallAsleep
  <2>1. UNCHANGED <<beats, previous, alerts, anomaly, interval, trail, told>>
        /\ heart = "beating" /\ heart' = "dreaming" /\ dreams' = TRUE
    BY <1>2 DEF FallAsleep, toldVars
  <2> QED
    BY <2>1, SameCounts DEF VigilInv, Remembering, Trail, Recording, Told, Resting
<1>3. CASE DreamEnds
  <2> DEFINE line == [at |-> Len(beats), type |-> "dream_complete"]
  <2>1. /\ UNCHANGED <<heart, beats, previous, alerts, anomaly, interval, told>>
        /\ trail' = Append(trail, line) /\ dreams' = FALSE
    BY <1>3 DEF DreamEnds, toldVars
  <2>2. line \in TrailLines /\ line.at = Len(beats) /\ Len(beats) \in Nat
        /\ \A i : TrailLine(i) # line
    BY DEF VigilInv, Remembering, TrailLines, TrailLine
  <2>3. trail \in Seq(TrailLines)
    BY DEF VigilInv, Trail
  <2> HIDE DEF line
  <2>4. \A i : FallLines(i)' = FallLines(i)
    <3> SUFFICES ASSUME NEW i PROVE FallLines(i)' = FallLines(i)
      OBVIOUS
    <3>1. /\ FallLines(i) = Cardinality(PlacesOf(trail, TrailLine(i)))
          /\ FallLines(i)' = Cardinality(PlacesOf(trail', TrailLine(i)))
      BY DEF FallLines, Lines, TrailLine, PlacesOf
    <3> QED
      BY <2>1, <2>2, <2>3, <3>1, OneMoreLine
  <2>5. \A i : Falls(i)' = Falls(i)
    BY <2>1 DEF Falls
  <2>6. Trail'
    BY <2>1, <2>2, <2>3 DEF VigilInv, Trail
  <2> QED
    BY <2>1, <2>4, <2>5, <2>6 DEF VigilInv, Remembering, Recording, Told, Resting
<1>4. CASE Rest
  <2>1. /\ UNCHANGED <<beats, previous, alerts, anomaly, dreams, trail, told>>
        /\ heart \in {"beating", "dreaming"} /\ ~dreams /\ heart' = "waiting"
        /\ interval' = CurrentInterval(luna.phase)
    BY <1>4 DEF Rest, toldVars, VigilInv, Resting
  <2>2. interval' # "sleep" /\ (interval' = "alert") = anomaly
    <3>1. anomaly \in BOOLEAN
      BY DEF VigilInv, Resting
    <3> QED
      BY <2>1, <3>1 DEF CurrentInterval
  <2>3. Remembering' /\ Trail' /\ Recording' /\ Told'
    BY <2>1, SameCounts DEF VigilInv, Remembering, Trail, Recording, Told
  <2>4. Resting'
    BY <2>1, <2>2 DEF VigilInv, Remembering, Resting
  <2> QED
    BY <2>3, <2>4 DEF VigilInv
<1> QED
  BY <1>1, <1>2, <1>3, <1>4

LEMMA VigilStep == VigilInv /\ [VigilNext]_vigilVars => VigilInv'
<1> SUFFICES ASSUME VigilInv, [VigilNext]_vigilVars PROVE VigilInv'
  OBVIOUS
<1>1. CASE UNCHANGED vigilVars
  <2>1. UNCHANGED <<heart, beats, previous, alerts, anomaly, dreams, interval, trail, told>>
    BY <1>1 DEF vigilVars
  <2> QED
    BY <2>1, SameCounts DEF VigilInv, Remembering, Trail, Recording, Told, Resting
<1> QED
  BY <1>1, StartStep, EvolvesStep, BeatStep, LineStep, AlertStep, OtherSteps DEF VigilNext

\* Whatever was evolved between two beats and however long the heart waited, a
\* fall of the phase has its one line once the beat is over, no line tells of
\* a fall that was none, and an anomaly brings the next beat at once.
THEOREM EveryFallOnRecord == VigilSpec => []FallsOnRecord
<1>1. VigilInv => FallsOnRecord
  <2> SUFFICES ASSUME VigilInv PROVE FallsOnRecord
    OBVIOUS
  <2>1. ASSUME NEW i \in DOMAIN beats
        PROVE  /\ (i < Len(beats) \/ heart \in {"waiting", "beating", "dreaming"}) =>
                    FallLines(i) = IF Falls(i) THEN 1 ELSE 0
               /\ FallLines(i) > 0 => Falls(i)
    BY DEF VigilInv, Recording
  <2> QED
    BY <2>1 DEF VigilInv, Resting, Told, FallsOnRecord, FallLines
<1> QED
  BY <1>1, VigilInitially, VigilStep, PTL DEF VigilSpec

-----------------------------------------------------------------------------
(***************************************************************************)
(* Growth.                                                                 *)
(***************************************************************************)
LEMMA GrowthConstants ==
    /\ PhiIits \subseteq Nat
    /\ EdgesKnown \in Nat /\ SkillsKnown \in Nat /\ MaxSeen \in Nat
    /\ MaxEdges \in Nat /\ MaxSkills \in Nat
  BY GrowthAssumption

USE GrowthConstants

(* Growth.  Nothing ever moves the threshold, words are heard more, and    *)
(* kept words are no more than those heard.                                *)
GrowthTypeOK ==
    /\ up \in BOOLEAN /\ phiIit \in Nat /\ edges \in Nat /\ skills \in Nat
    /\ heard \in [Vocabulary -> 0..MaxSeen]
    /\ kept.heard \in [Vocabulary -> 0..MaxSeen]

GrowthInv == GrowthTypeOK /\ RipeByIntegration

\* A product of parts of two wholes is at most the product of the wholes.
LEMMA PartOfProduct ==
    ASSUME NEW E \in Nat, NEW S \in Nat, NEW a \in 0..E, NEW b \in 0..S
    PROVE  a * b <= E * S /\ a * b \in Nat /\ E * S \in Nat
<1>1. a * b <= E * b
  OBVIOUS
<1>2. E * b <= E * S
  OBVIOUS
<1> QED
  BY <1>1, <1>2

(* Maturity passes 1/phi only where integration passes phi: knowledge and  *)
(* skills count for 1 at most.                                             *)
LEMMA OnlyIntegrationActivates ==
    ASSUME threshold = InvPhi, skills \in Nat,
           NEW phi \in Nat, NEW known \in Nat, ShouldActivate(phi, known)
    PROVE  382 * phi > 618 * 1000
<1> DEFINE a == Capped(known, EdgesKnown)
           b == Capped(skills, SkillsKnown)
<1>1. a \in 0..EdgesKnown /\ b \in 0..SkillsKnown
  BY DEF Capped
<1>2. phi * a * 382 * b > 618 * 1000 * EdgesKnown * SkillsKnown
  BY DEF ShouldActivate, InvPhi, InvPhi2
<1> HIDE DEF a, b
<1> DEFINE ab == a * b
           whole == EdgesKnown * SkillsKnown
<1>3. ab <= whole /\ ab \in Nat /\ whole \in Nat
  BY <1>1, PartOfProduct
<1>4. phi * a * 382 * b = (382 * phi) * ab /\ 618 * 1000 * EdgesKnown * SkillsKnown = 618000 * whole
  BY <1>1
<1> HIDE DEF ab, whole
<1>5. SUFFICES ASSUME 382 * phi <= 618000 PROVE FALSE
  OBVIOUS
<1>6. (382 * phi) * ab <= 618000 * ab
  BY <1>3, <1>5
<1> QED
  BY <1>2, <1>3, <1>4, <1>6

LEMMA ProposalsAreRipe ==
    ASSUME GrowthInv, NEW phi \in Nat, NEW known \in Nat, NEW ideas \in SUBSET Ideas,
           Propose(ideas, phi, known) # NoProposal
    PROVE  382 * Propose(ideas, phi, known).phi > 618 * 1000
<1>1. CASE Propose(ideas, phi, known) = proposal
  BY <1>1 DEF GrowthInv, RipeByIntegration
<1>2. CASE Propose(ideas, phi, known) # proposal
  <2>1. ShouldActivate(phi, known) /\ Propose(ideas, phi, known).phi = phi
    BY <1>2 DEF Propose
  <2> QED
    BY <2>1, OnlyIntegrationActivates DEF GrowthInv, GrowthTypeOK, RipeByIntegration
<1> QED
  BY <1>1, <1>2

LEMMA GrowthInitially == GrowthInit => GrowthInv
<1> SUFFICES ASSUME GrowthInit PROVE GrowthInv
  OBVIOUS
<1>1. heard \in [Vocabulary -> 0..MaxSeen] /\ kept.heard = heard /\ kept.threshold = InvPhi
  BY DEF GrowthInit
<1>2. GrowthTypeOK
  BY <1>1 DEF GrowthInit, GrowthTypeOK
<1>3. RipeByIntegration
  BY <1>1 DEF GrowthInit, RipeByIntegration
<1> QED
  BY <1>2, <1>3 DEF GrowthInv

LEMMA GrowthStep == GrowthInv /\ [GrowthNext]_growthVars => GrowthInv'
<1> SUFFICES ASSUME GrowthInv, [GrowthNext]_growthVars PROVE GrowthInv'
  OBVIOUS
<1> USE DEF GrowthInv, GrowthTypeOK, RipeByIntegration
<1>1. CASE StartGrowth
  BY <1>1 DEF StartGrowth, LoadedThreshold, LoadedWords, InvPhi
<1>2. CASE GrowthTurn
  <2>1. PICK phi \in PhiIits : phiIit' = phi
    BY <1>2 DEF GrowthTurn
  <2>2. PICK words \in SUBSET Vocabulary : heard' = Learn(words)
    BY <1>2 DEF GrowthTurn
  <2>3. heard' \in [Vocabulary -> 0..MaxSeen] /\ \A w \in Vocabulary : heard[w] <= heard'[w]
    BY <2>2 DEF Learn, Bounded
  <2>4. phiIit' \in Nat /\ edges' \in Nat
    <3>1. PICK more \in {0, 1} : edges' = Bounded(edges + more, MaxEdges)
      BY <1>2 DEF GrowthTurn
    <3> QED
      BY <2>1, <3>1 DEF Bounded
  <2>5. PICK ideas \in SUBSET Ideas :
          proposal' = IF turns' = 0 THEN Propose(ideas, phiIit', edges') ELSE proposal
    BY <1>2 DEF GrowthTurn
  <2>6. proposal' # NoProposal => 382 * proposal'.phi > 618 * 1000
    BY <2>4, <2>5, ProposalsAreRipe
  <2> QED
    BY <1>2, <2>3, <2>4, <2>6 DEF GrowthTurn
<1>3. CASE GrowthTick
  <2>1. PICK phi \in PhiIits : phiIit' = phi
    BY <1>3 DEF GrowthTick
  <2>2. PICK ideas \in SUBSET Ideas :
          proposal' = IF ticks' = 0 THEN Propose(ideas, phiIit', edges) ELSE proposal
    BY <1>3 DEF GrowthTick
  <2>3. proposal' # NoProposal => 382 * proposal'.phi > 618 * 1000
    <3>1. phiIit' \in Nat /\ edges \in Nat
      BY <2>1
    <3> QED
      BY <2>2, <3>1, ProposalsAreRipe
  <2>4. up /\ UNCHANGED <<up, edges, skills, threshold, heard, kept>>
    BY <1>3 DEF GrowthTick
  <2> QED
    BY <2>1, <2>3, <2>4
<1>4. CASE LearnSkill
  BY <1>4 DEF LearnSkill, Bounded
<1>5. CASE SaveGrowth
  BY <1>5 DEF SaveGrowth, SavedWords, SavedThreshold, knownVars
<1>6. CASE KillGrowth
  <2>1. ~up' /\ up' \in BOOLEAN /\ UNCHANGED <<threshold, heard, kept, proposal, phiIit, edges, skills>>
    BY <1>6 DEF KillGrowth, knownVars
  <2> QED
    BY <2>1
<1>7. CASE UNCHANGED growthVars
  BY <1>7 DEF growthVars
<1> QED
  BY <1>1, <1>2, <1>3, <1>4, <1>5, <1>6, <1>7 DEF GrowthNext

THEOREM ProposesByIntegration == GrowthSpec => []RipeByIntegration
<1>1. GrowthInv => RipeByIntegration
  BY DEF GrowthInv
<1> QED
  BY <1>1, GrowthInitially, GrowthStep, PTL DEF GrowthSpec
=============================================================================
