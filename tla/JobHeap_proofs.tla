---------------------------- MODULE JobHeap_proofs ----------------------------
(***************************************************************************)
(* The heap of the queue manager keeps its order and its jobs, for any     *)
(* priorities, any size and any number of jobs.                            *)
(*                                                                         *)
(* up and down are loops, and the proof has an invariant for each of them: *)
(* the array is in order but for the job that moves, which fits its        *)
(* children's grandparent.  What holds after every turn is shown by taking *)
(* the first turn after which it would not (Turns); that a loop ends with  *)
(* the array in order, by counting turns, because each one that moves the  *)
(* job brings it nearer to an end of the array.                            *)
(***************************************************************************)
EXTENDS JobHeap, TLAPS, WellFoundedInduction

\* Arrays of n jobs, and the states of a loop over them.
Arrays(n) == [1 .. n -> HeapJob]
LoopStates(n) == [jobs : Arrays(n), at : 1 .. n]

\* The first n places are in heap order.
Ordered(h, n) == \A i \in 2 .. n : ~Less(h[i], h[i \div 2])

\* The children of i do not precede the parent of i.
Skips(h, n, i) == i > 1 => \A j \in 2 .. n : j \div 2 = i => ~Less(h[j], h[i \div 2])

\* The children of i do not precede it.
Settled(h, n, i) == \A j \in 2 .. n : j \div 2 = i => ~Less(h[j], h[i])

\* The invariant of up: in order but for the job at i, which may be too low.
UpInv(h, n, i) ==
  /\ \A j \in 2 .. n : j # i => ~Less(h[j], h[j \div 2])
  /\ Skips(h, n, i)

\* The invariant of down, which began at first: in order but for the job at i,
\* which may be too high, or too low if it has not moved.
DownInv(h, n, first, i) ==
  /\ \A j \in 2 .. n : j \div 2 # i /\ (j # first \/ i # first) => ~Less(h[j], h[j \div 2])
  /\ Skips(h, n, i)

Distinct(h) == \A i, j \in DOMAIN h : h[i] = h[j] => i = j

\* The first n jobs of h are among the first n of g.
Among(h, g, n) == \A i \in 1 .. n : \E j \in 1 .. n : h[i] = g[j]

\* The first n jobs have changed places among each other.
Rearranged(h, g, n) ==
  /\ DOMAIN g = DOMAIN h
  /\ \A i \in DOMAIN h : i > n => g[i] = h[i]
  /\ Among(g, h, n)
  /\ Among(h, g, n)
  /\ Distinct(h) => Distinct(g)

HeapInv ==
  /\ TypeOK
  /\ HeapOrdered
  /\ Distinct(heap)
  /\ \A job \in Jobs(heap) : job.added <= clock
-----------------------------------------------------------------------------
(* Numbers.                                                                *)

\* Every set of natural numbers has a least one.
LEMMA LeastNumber ==
  ASSUME NEW S, S \subseteq Nat, S # {}
  PROVE  \E least \in S : \A other \in S : least <= other
<1>1. PICK least \in S : \A other \in S : ~(<<other, least>> \in OpToRel(<, Nat))
  BY NatLessThanWellFounded, WFMin
<1>2. \A other \in S : ~(other < least)
  BY <1>1 DEF OpToRel
<1> QED
  BY <1>2, SMT

\* What holds before the first turn, and after each turn before which it held,
\* holds after every turn.
LEMMA Turns ==
  ASSUME NEW n \in Nat, NEW S, 0 \in S, \A k \in 1 .. n : k - 1 \in S => k \in S
  PROVE  0 .. n \subseteq S
<1> DEFINE Bad == {k \in 0 .. n : k \notin S}
<1>1. SUFFICES ASSUME Bad # {} PROVE FALSE
  OBVIOUS
<1>2. Bad \subseteq Nat
  OBVIOUS
<1> HIDE DEF Bad
<1>3. PICK k \in Bad : \A other \in Bad : k <= other
  BY <1>1, <1>2, LeastNumber
<1>4. k \in 0 .. n /\ k \notin S
  BY <1>3 DEF Bad
<1>5. k # 0
  BY <1>4
<1>6. k - 1 \in 0 .. n /\ k \in 1 .. n
  BY <1>4, <1>5
<1>7. k - 1 \notin Bad
  BY <1>3, <1>2, <1>6
<1>8. k - 1 \in S
  BY <1>7, <1>6 DEF Bad
<1> QED
  BY <1>8, <1>6, <1>4

\* A place and its parent.
LEMMA Half ==
  ASSUME NEW i \in Nat, i > 1
  PROVE  /\ i \div 2 \in 1 .. i - 1
         /\ i = 2 * (i \div 2) \/ i = 2 * (i \div 2) + 1
<1> QED
  BY SMT

\* The children of a place.
LEMMA Children ==
  ASSUME NEW i \in Nat \ {0}
  PROVE  (2 * i) \div 2 = i /\ (2 * i + 1) \div 2 = i
<1> QED
  BY SMT
-----------------------------------------------------------------------------
(* The order of jobs.                                                      *)

\* Jobs are compared by integers.
LEMMA Numbers ==
  ASSUME NEW job \in HeapJob
  PROVE  job.priority \in Int /\ job.added \in Int
<1>1. job.priority \in Priorities /\ job.added \in 1 .. MaxJobs
  BY DEF HeapJob
<1>2. Priorities \subseteq Int
  BY HeapAssumption
<1>3. \A n \in 1 .. MaxJobs : n \in Int
  BY SMT
<1> QED
  BY <1>1, <1>2, <1>3, Zenon

\* priorityQueue.Less is a strict weak order; first, of two jobs only one precedes.
LEMMA LessAsymmetric ==
  ASSUME NEW a \in HeapJob, NEW b \in HeapJob, Less(a, b)
  PROVE  ~Less(b, a)
<1> QED
  BY Numbers DEF Less

\* ... the relation is transitive,
LEMMA LessTransitive ==
  ASSUME NEW a \in HeapJob, NEW b \in HeapJob, NEW c \in HeapJob, Less(a, b), Less(b, c)
  PROVE  Less(a, c)
<1> QED
  BY Numbers DEF Less

\* ... and so is its complement.
LEMMA NotLessTransitive ==
  ASSUME NEW a \in HeapJob, NEW b \in HeapJob, NEW c \in HeapJob, ~Less(a, b), ~Less(b, c)
  PROVE  ~Less(a, c)
<1> QED
  BY Numbers DEF Less
-----------------------------------------------------------------------------
(* The loops do what they say: turn after turn.                            *)

\* turn[k] is what F makes of start in k turns.
Iteration(turn, F, start, n) ==
  turn = [k \in 0 .. n |-> IF k = 0 THEN start ELSE F[turn[k - 1]]]

\* A function can be applied again and again.
LEMMA Iterated ==
  ASSUME NEW F, NEW start, NEW n \in Nat
  PROVE  \E turn : Iteration(turn, F, start, n)
<1> DEFINE Is(g, m) == g = [k \in 0 .. m |-> IF k = 0 THEN start ELSE F[g[k - 1]]]
           Good == {m \in 0 .. n : \E g : Is(g, m)}
<1>1. \E g : Is(g, 0)
  <2> DEFINE g == [k \in {0} |-> start]
  <2>1. 0 .. 0 = {0}
    OBVIOUS
  <2>2. Is(g, 0)
    BY <2>1
  <2> HIDE DEF Is, g
  <2> QED
    BY <2>2
<1>2. ASSUME NEW m \in 1 .. n, \E g : Is(g, m - 1) PROVE \E g : Is(g, m)
  <2>1. PICK f : Is(f, m - 1)
    BY <1>2
  <2> DEFINE g == [k \in 0 .. m |-> IF k = m THEN F[f[m - 1]] ELSE f[k]]
  <2>2. \A k \in 0 .. m : g[k] = IF k = 0 THEN start ELSE F[g[k - 1]]
    <3> TAKE k \in 0 .. m
    <3>1. CASE k = m
      <4>1. g[m - 1] = f[m - 1]
        OBVIOUS
      <4> QED
        BY <4>1, <3>1
    <3>2. CASE k # m
      <4>1. k \in 0 .. m - 1
        BY <3>2
      <4>2. f[k] = IF k = 0 THEN start ELSE F[f[k - 1]]
        BY <4>1, <2>1
      <4>3. g[k] = f[k] /\ (k # 0 => g[k - 1] = f[k - 1])
        BY <4>1
      <4> QED
        BY <4>2, <4>3
    <3> QED
      BY <3>1, <3>2
  <2>3. Is(g, m)
    BY <2>2
  <2> HIDE DEF Is, g
  <2> QED
    BY <2>3
<1> HIDE DEF Is
<1>3. 0 \in Good /\ \A m \in 1 .. n : m - 1 \in Good => m \in Good
  BY <1>1, <1>2
<1>4. n \in Good
  <2> HIDE DEF Good
  <2>1. n \in 0 .. n
    OBVIOUS
  <2> QED
    BY <1>3, <2>1, Turns
<1>5. \E g : Is(g, n)
  BY <1>4
<1> QED
  BY <1>5 DEF Is, Iteration

\* ... and makes of a member of its domain members of its domain.
LEMMA IterationTyped ==
  ASSUME NEW X, NEW F \in [X -> X], NEW start \in X, NEW n \in Nat,
         NEW turn, Iteration(turn, F, start, n)
  PROVE  /\ turn[0] = start
         /\ \A k \in 1 .. n : turn[k] = F[turn[k - 1]]
         /\ \A k \in 0 .. n : turn[k] \in X
<1> DEFINE Typed == {k \in 0 .. n : turn[k] \in X}
<1>1. turn[0] = start /\ \A k \in 1 .. n : turn[k] = F[turn[k - 1]]
  BY DEF Iteration
<1>2. 0 \in Typed /\ \A k \in 1 .. n : k - 1 \in Typed => k \in Typed
  BY <1>1
<1>3. 0 .. n \subseteq Typed
  <2> HIDE DEF Typed
  <2> QED
    BY <1>2, Turns
<1> QED
  BY <1>1, <1>3

\* Two jobs change places.
LEMMA SwapArray ==
  ASSUME NEW n \in Nat, NEW h \in Arrays(n), NEW i \in 1 .. n, NEW j \in 1 .. n
  PROVE  /\ Swap(h, i, j) \in Arrays(n)
         /\ \A k \in 1 .. n : Swap(h, i, j)[k] = IF k = j THEN h[i]
                                                 ELSE IF k = i THEN h[j] ELSE h[k]
<1> QED
  BY DEF Swap, Arrays

\* A turn of up leads from array and place to array and place.
LEMMA RiseTyped ==
  ASSUME NEW n \in Nat, NEW m \in LoopStates(n)
  PROVE  Rise(m) \in LoopStates(n)
<1>1. m.jobs \in Arrays(n) /\ m.at \in 1 .. n
  BY DEF LoopStates
<1>2. CASE m.at > 1
  <2>1. m.at \div 2 \in 1 .. n
    BY <1>1, <1>2, Half
  <2>2. Swap(m.jobs, m.at, m.at \div 2) \in Arrays(n)
    BY <1>1, <2>1, SwapArray
  <2> QED
    BY <2>1, <2>2 DEF Rise, Moving, LoopStates
<1>3. CASE ~(m.at > 1)
  BY <1>3 DEF Rise
<1> QED
  BY <1>2, <1>3

\* Of a place with children in the heap, the one that the other does not precede.
LEMMA FirstChildInside ==
  ASSUME NEW n \in Nat, NEW l \in 0 .. n, NEW h \in Arrays(n), NEW i \in 1 .. n, 2 * i <= l
  PROVE  /\ FirstChild(h, i, l) \in i + 1 .. l
         /\ FirstChild(h, i, l) \div 2 = i
         /\ \A j \in 2 .. l : j \div 2 = i => ~Less(h[j], h[FirstChild(h, i, l)])
<1>1. 2 * i \in 1 .. n /\ (2 * i) \div 2 = i /\ (2 * i + 1) \div 2 = i
  BY Children
<1>2. \A j \in 2 .. l : j \div 2 = i => j \in {2 * i, 2 * i + 1}
  BY Half
<1>3. h[2 * i] \in HeapJob /\ ~Less(h[2 * i], h[2 * i])
  <2>1. h[2 * i] \in HeapJob
    BY <1>1 DEF Arrays
  <2> QED
    BY <2>1, LessAsymmetric
<1>4. CASE 2 * i + 1 <= l /\ Less(h[2 * i + 1], h[2 * i])
  <2>1. FirstChild(h, i, l) = 2 * i + 1
    BY <1>4 DEF FirstChild
  <2>2. h[2 * i + 1] \in HeapJob
    BY <1>4 DEF Arrays
  <2>3. ~Less(h[2 * i], h[2 * i + 1]) /\ ~Less(h[2 * i + 1], h[2 * i + 1])
    BY <1>3, <1>4, <2>2, LessAsymmetric
  <2>4. 2 * i + 1 \in i + 1 .. l
    BY <1>4
  <2> QED
    BY <1>1, <1>2, <2>1, <2>3, <2>4
<1>5. CASE ~(2 * i + 1 <= l /\ Less(h[2 * i + 1], h[2 * i]))
  <2>1. FirstChild(h, i, l) = 2 * i
    BY <1>5 DEF FirstChild
  <2>2. \A j \in 2 .. l : j \div 2 = i => ~Less(h[j], h[2 * i])
    BY <1>2, <1>3, <1>5
  <2>3. 2 * i \in i + 1 .. l
    OBVIOUS
  <2> QED
    BY <1>1, <2>1, <2>2, <2>3
<1> QED
  BY <1>4, <1>5

\* A turn of down leads from array and place to array and place.
LEMMA SinkTyped ==
  ASSUME NEW n \in Nat, NEW l \in 0 .. n, NEW m \in LoopStates(n)
  PROVE  Sink(m, l) \in LoopStates(n)
<1>1. m.jobs \in Arrays(n) /\ m.at \in 1 .. n
  BY DEF LoopStates
<1> DEFINE child == FirstChild(m.jobs, m.at, l)
<1>2. CASE 2 * m.at <= l
  <2>1. child \in m.at + 1 .. l
    BY <1>1, <1>2, FirstChildInside
  <2> HIDE DEF child
  <2>2. child \in 1 .. n
    BY <1>1, <2>1
  <2>3. Swap(m.jobs, m.at, child) \in Arrays(n)
    BY <1>1, <2>2, SwapArray
  <2> QED
    BY <2>2, <2>3 DEF Sink, Moving, LoopStates, child
<1>3. CASE ~(2 * m.at <= l)
  BY <1>3 DEF Sink
<1> QED
  BY <1>2, <1>3

\* The turns of up.
LEMMA RisingTurns ==
  ASSUME NEW n \in Nat, NEW h \in Arrays(n), Len(h) = n, NEW i \in 1 .. n
  PROVE  /\ Rising(h, i)[0] = Moving(h, i)
         /\ \A k \in 1 .. n : Rising(h, i)[k] = Rise(Rising(h, i)[k - 1])
         /\ \A k \in 0 .. n : Rising(h, i)[k] \in LoopStates(n)
<1> DEFINE Is(g) == g = [k \in 0 .. Len(h) |-> IF k = 0 THEN Moving(h, i)
                                               ELSE Rise(g[k - 1])]
           F == [m \in LoopStates(n) |-> Rise(m)]
<1>1. Moving(h, i) \in LoopStates(n)
  BY DEF Moving, LoopStates
<1>2. F \in [LoopStates(n) -> LoopStates(n)]
  BY RiseTyped
<1>3. PICK f : Iteration(f, F, Moving(h, i), n)
  <2> HIDE DEF F
  <2> QED
    BY Iterated
<1>4. /\ f[0] = Moving(h, i)
      /\ \A k \in 1 .. n : f[k] = F[f[k - 1]]
      /\ \A k \in 0 .. n : f[k] \in LoopStates(n)
  <2> HIDE DEF F
  <2> QED
    BY <1>1, <1>2, <1>3, IterationTyped
<1>5. \A k \in 1 .. n : f[k] = Rise(f[k - 1])
  <2> TAKE k \in 1 .. n
  <2>1. k - 1 \in 0 .. n
    OBVIOUS
  <2>2. f[k - 1] \in LoopStates(n) /\ f[k] = F[f[k - 1]]
    BY <1>4, <2>1
  <2> QED
    BY <2>2
<1> HIDE DEF F
<1>6. \A k \in 0 .. n : f[k] = IF k = 0 THEN Moving(h, i) ELSE Rise(f[k - 1])
  BY <1>4, <1>5
<1>7. Is(f)
  <2>1. f = [k \in 0 .. n |-> f[k]]
    BY <1>3 DEF Iteration
  <2> QED
    BY <2>1, <1>6
<1>8. Is(Rising(h, i))
  <2>1. Rising(h, i) = CHOOSE g : Is(g)
    BY DEF Rising
  <2> HIDE DEF Is
  <2> QED
    BY <2>1, <1>7
<1>9. /\ Rising(h, i)[0] = Moving(h, i)
      /\ \A k \in 1 .. n : Rising(h, i)[k] = Rise(Rising(h, i)[k - 1])
  BY <1>8
<1> DEFINE Typed == {k \in 0 .. n : Rising(h, i)[k] \in LoopStates(n)}
<1>10. 0 \in Typed /\ \A k \in 1 .. n : k - 1 \in Typed => k \in Typed
  BY <1>1, <1>9, RiseTyped
<1>11. 0 .. n \subseteq Typed
  <2> HIDE DEF Typed
  <2> QED
    BY <1>10, Turns
<1> QED
  BY <1>9, <1>11

\* The turns of down.
LEMMA SinkingTurns ==
  ASSUME NEW n \in Nat, NEW h \in Arrays(n), Len(h) = n, NEW i \in 1 .. n, NEW l \in 0 .. n
  PROVE  /\ Sinking(h, i, l)[0] = Moving(h, i)
         /\ \A k \in 1 .. n : Sinking(h, i, l)[k] = Sink(Sinking(h, i, l)[k - 1], l)
         /\ \A k \in 0 .. n : Sinking(h, i, l)[k] \in LoopStates(n)
<1> DEFINE Is(g) == g = [k \in 0 .. Len(h) |-> IF k = 0 THEN Moving(h, i)
                                               ELSE Sink(g[k - 1], l)]
           F == [m \in LoopStates(n) |-> Sink(m, l)]
<1>1. Moving(h, i) \in LoopStates(n)
  BY DEF Moving, LoopStates
<1>2. F \in [LoopStates(n) -> LoopStates(n)]
  BY SinkTyped
<1>3. PICK f : Iteration(f, F, Moving(h, i), n)
  <2> HIDE DEF F
  <2> QED
    BY Iterated
<1>4. /\ f[0] = Moving(h, i)
      /\ \A k \in 1 .. n : f[k] = F[f[k - 1]]
      /\ \A k \in 0 .. n : f[k] \in LoopStates(n)
  <2> HIDE DEF F
  <2> QED
    BY <1>1, <1>2, <1>3, IterationTyped
<1>5. \A k \in 1 .. n : f[k] = Sink(f[k - 1], l)
  <2> TAKE k \in 1 .. n
  <2>1. k - 1 \in 0 .. n
    OBVIOUS
  <2>2. f[k - 1] \in LoopStates(n) /\ f[k] = F[f[k - 1]]
    BY <1>4, <2>1
  <2> QED
    BY <2>2
<1> HIDE DEF F
<1>6. \A k \in 0 .. n : f[k] = IF k = 0 THEN Moving(h, i) ELSE Sink(f[k - 1], l)
  BY <1>4, <1>5
<1>7. Is(f)
  <2>1. f = [k \in 0 .. n |-> f[k]]
    BY <1>3 DEF Iteration
  <2> QED
    BY <2>1, <1>6
<1>8. Is(Sinking(h, i, l))
  <2>1. Sinking(h, i, l) = CHOOSE g : Is(g)
    BY DEF Sinking
  <2> HIDE DEF Is
  <2> QED
    BY <2>1, <1>7
<1>9. /\ Sinking(h, i, l)[0] = Moving(h, i)
      /\ \A k \in 1 .. n : Sinking(h, i, l)[k] = Sink(Sinking(h, i, l)[k - 1], l)
  BY <1>8
<1> DEFINE Typed == {k \in 0 .. n : Sinking(h, i, l)[k] \in LoopStates(n)}
<1>10. 0 \in Typed /\ \A k \in 1 .. n : k - 1 \in Typed => k \in Typed
  BY <1>1, <1>9, SinkTyped
<1>11. 0 .. n \subseteq Typed
  <2> HIDE DEF Typed
  <2> QED
    BY <1>10, Turns
<1> QED
  BY <1>9, <1>11
-----------------------------------------------------------------------------
(* Rearranging.                                                            *)

\* An array is a rearrangement of itself,
LEMMA NothingRearranged ==
  ASSUME NEW n \in Nat, NEW l \in 0 .. n, NEW h \in Arrays(n)
  PROVE  Rearranged(h, h, l)
<1> QED
  BY DEF Rearranged, Among

\* ... two jobs that change places make one,
LEMMA SwapRearranges ==
  ASSUME NEW n \in Nat, NEW l \in 0 .. n, NEW h \in Arrays(n),
         NEW i \in 1 .. l, NEW j \in 1 .. l
  PROVE  Rearranged(h, Swap(h, i, j), l)
<1> DEFINE g == Swap(h, i, j)
<1>1. \A k \in 1 .. n : g[k] = IF k = j THEN h[i] ELSE IF k = i THEN h[j] ELSE h[k]
  BY SwapArray
<1>2. DOMAIN g = 1 .. n /\ DOMAIN h = 1 .. n
  BY SwapArray DEF Arrays
<1> HIDE DEF g
<1>3. \A k \in 1 .. n : k > l => g[k] = h[k]
  BY <1>1
<1>4. ASSUME NEW k \in 1 .. l
      PROVE  (\E o \in 1 .. l : g[k] = h[o]) /\ (\E o \in 1 .. l : h[k] = g[o])
  <2>1. CASE k = i
    BY <1>1, <2>1
  <2>2. CASE k = j
    BY <1>1, <2>2
  <2>3. CASE k # i /\ k # j
    BY <1>1, <2>3
  <2> QED
    BY <2>1, <2>2, <2>3
<1>5. ASSUME \A k, o \in 1 .. n : h[k] = h[o] => k = o, NEW k \in 1 .. n, NEW o \in 1 .. n,
             g[k] = g[o]
      PROVE  k = o
  BY <1>1, <1>5
<1> QED
  BY <1>2, <1>3, <1>4, <1>5 DEF Rearranged, Distinct, Among, g

\* ... and rearranging can be repeated.
LEMMA RearrangedTwice ==
  ASSUME NEW n \in Nat, NEW l \in 0 .. n, NEW h \in Arrays(n), NEW g, NEW f,
         Rearranged(h, g, l), Rearranged(g, f, l)
  PROVE  Rearranged(h, f, l)
<1>1. \A i \in DOMAIN h : i > l => f[i] = h[i]
  BY DEF Rearranged
<1>2. Among(f, h, l) /\ Among(h, f, l)
  BY DEF Rearranged, Among
<1> QED
  BY <1>1, <1>2 DEF Rearranged
-----------------------------------------------------------------------------
(* up.                                                                     *)

\* A turn of up keeps the invariant, and leaves the array in order or the job
\* nearer to the root.
LEMMA RiseKeeps ==
  ASSUME NEW n \in Nat, NEW l \in 1 .. n, NEW m \in LoopStates(n), m.at \in 1 .. l,
         UpInv(m.jobs, l, m.at)
  PROVE  /\ Rise(m).at \in 1 .. l
         /\ UpInv(Rise(m).jobs, l, Rise(m).at)
         /\ Rearranged(m.jobs, Rise(m).jobs, l)
         /\ Ordered(Rise(m).jobs, l) \/ Rise(m).at < m.at
         /\ Ordered(m.jobs, l) => Ordered(Rise(m).jobs, l)
<1> DEFINE h == m.jobs
           i == m.at
           p == i \div 2
<1>1. h \in Arrays(n) /\ i \in 1 .. l /\ UpInv(h, l, i)
  BY DEF LoopStates
<1> HIDE DEF h, i
<1>2. \A k \in 1 .. n : h[k] \in HeapJob
  BY <1>1 DEF Arrays
<1>3. CASE i > 1 /\ Less(h[i], h[p])
  <2> DEFINE g == Swap(h, i, p)
  <2>1. p \in 1 .. i - 1 /\ (i = 2 * p \/ i = 2 * p + 1)
    BY <1>1, <1>3, Half
  <2>2. i \in 1 .. n /\ p \in 1 .. n /\ p \in 1 .. l
    BY <2>1, <1>1
  <2>3. Rise(m).jobs = g /\ Rise(m).at = p
    BY <1>3 DEF Rise, Moving, h, i
  <2> HIDE DEF p
  <2>4. \A k \in 1 .. n : g[k] = IF k = p THEN h[i] ELSE IF k = i THEN h[p] ELSE h[k]
    BY <1>1, <2>2, SwapArray
  <2>5. Rearranged(h, g, l)
    BY <1>1, <2>2, SwapRearranges
  <2> HIDE DEF g
  <2>6. ASSUME NEW j \in 2 .. l, j # p PROVE ~Less(g[j], g[j \div 2])
    <3> DEFINE q == j \div 2
    <3>1. q \in 1 .. j - 1 /\ j \in 1 .. n /\ q \in 1 .. n
      BY Half
    <3>2. h[i] \in HeapJob /\ h[p] \in HeapJob /\ h[j] \in HeapJob /\ h[q] \in HeapJob
      BY <1>2, <2>2, <3>1
    <3>3. CASE j = i
      <4>1. g[j] = h[p] /\ g[q] = h[i]
        BY <3>1, <3>3, <2>1, <2>4 DEF p
      <4> QED
        BY <4>1, <3>2, <1>3, LessAsymmetric DEF p
    <3>4. CASE j # i /\ q = i
      <4>1. g[j] = h[j] /\ g[q] = h[p]
        BY <3>1, <3>4, <2>1, <2>4, <2>6
      <4>2. ~Less(h[j], h[p])
        BY <1>1, <1>3, <3>4 DEF UpInv, Skips, p
      <4> QED
        BY <4>1, <4>2
    <3>5. CASE j # i /\ q = p
      <4>1. g[j] = h[j] /\ g[q] = h[i]
        BY <3>1, <3>5, <2>1, <2>4, <2>6
      <4>2. ~Less(h[j], h[p])
        BY <1>1, <3>5 DEF UpInv
      <4>3. Less(h[j], h[i]) => Less(h[j], h[p])
        BY <1>3, <3>2, LessTransitive DEF p
      <4> QED
        BY <4>1, <4>2, <4>3
    <3>6. CASE j # i /\ q # i /\ q # p
      <4>1. g[j] = h[j] /\ g[q] = h[q]
        BY <3>1, <3>6, <2>4, <2>6
      <4>2. ~Less(h[j], h[q])
        BY <1>1, <3>6 DEF UpInv
      <4> QED
        BY <4>1, <4>2
    <3> QED
      BY <3>3, <3>4, <3>5, <3>6
  <2>7. ASSUME p > 1, NEW j \in 2 .. l, j \div 2 = p PROVE ~Less(g[j], g[p \div 2])
    <3> DEFINE q == p \div 2
    <3>1. q \in 1 .. p - 1 /\ q \in 1 .. n /\ q # i /\ j # p /\ j \in 1 .. n
      BY <2>1, <2>2, <2>7, Half
    <3>2. h[i] \in HeapJob /\ h[p] \in HeapJob /\ h[j] \in HeapJob /\ h[q] \in HeapJob
      BY <1>2, <2>2, <3>1
    <3>3. ~Less(h[p], h[q])
      <4>1. p \in 2 .. l /\ p # i
        BY <2>1, <2>2, <2>7
      <4> QED
        BY <4>1, <1>1 DEF UpInv
    <3>4. g[q] = h[q]
      BY <3>1, <2>4
    <3>5. CASE j = i
      BY <3>1, <3>3, <3>4, <3>5, <2>4
    <3>6. CASE j # i
      <4>1. ~Less(h[j], h[p])
        BY <1>1, <3>6, <2>7 DEF UpInv
      <4>2. ~Less(h[j], h[q])
        BY <4>1, <3>2, <3>3, NotLessTransitive
      <4> QED
        BY <4>2, <3>1, <3>4, <3>6, <2>4
    <3> QED
      BY <3>5, <3>6
  <2>8. UpInv(g, l, p)
    BY <2>6, <2>7 DEF UpInv, Skips
  <2>9. ~Ordered(h, l)
    <3>1. i \in 2 .. l
      BY <1>1, <1>3
    <3> QED
      BY <3>1, <1>3 DEF Ordered, p
  <2> QED
    BY <2>1, <2>2, <2>3, <2>5, <2>8, <2>9 DEF h, i
<1>4. CASE ~(i > 1 /\ Less(h[i], h[p]))
  <2>1. Rise(m) = m
    BY <1>4 DEF Rise, h, i
  <2>2. Ordered(h, l)
    BY <1>1, <1>4 DEF UpInv, Ordered
  <2>3. Rearranged(h, h, l)
    BY <1>1, NothingRearranged
  <2> QED
    BY <1>1, <2>1, <2>2, <2>3 DEF h, i
<1> QED
  BY <1>3, <1>4

\* up puts the first l jobs in order.
LEMMA UpOrders ==
  ASSUME NEW n \in Nat, NEW l \in 1 .. n, NEW h \in Arrays(n), Len(h) = n, NEW i \in 1 .. l,
         UpInv(h, l, i)
  PROVE  /\ Up(h, i) \in Arrays(n)
         /\ Ordered(Up(h, i), l)
         /\ Rearranged(h, Up(h, i), l)
<1> DEFINE turn == Rising(h, i)
           Keeps(m) == m.at \in 1 .. l /\ UpInv(m.jobs, l, m.at) /\ Rearranged(h, m.jobs, l)
           Good == {k \in 0 .. n : /\ Keeps(turn[k])
                                   /\ Ordered(turn[k].jobs, l) \/ turn[k].at <= i - k}
<1>1. /\ turn[0] = Moving(h, i)
      /\ \A k \in 1 .. n : turn[k] = Rise(turn[k - 1])
      /\ \A k \in 0 .. n : turn[k] \in LoopStates(n)
  BY RisingTurns
<1> HIDE DEF turn
<1>2. 0 \in Good
  <2>1. turn[0].jobs = h /\ turn[0].at = i
    BY <1>1 DEF Moving
  <2>2. Rearranged(h, h, l)
    BY NothingRearranged
  <2> QED
    BY <2>1, <2>2
<1>3. ASSUME NEW k \in 1 .. n, k - 1 \in Good PROVE k \in Good
  <2> DEFINE m == turn[k - 1]
  <2>1. m \in LoopStates(n) /\ turn[k] = Rise(m) /\ turn[k] \in LoopStates(n)
    BY <1>1, <1>3
  <2>2. Keeps(m) /\ (Ordered(m.jobs, l) \/ m.at <= i - (k - 1))
    BY <1>3
  <2> HIDE DEF m
  <2>3. /\ Rise(m).at \in 1 .. l
        /\ UpInv(Rise(m).jobs, l, Rise(m).at)
        /\ Rearranged(m.jobs, Rise(m).jobs, l)
        /\ Ordered(Rise(m).jobs, l) \/ Rise(m).at < m.at
        /\ Ordered(m.jobs, l) => Ordered(Rise(m).jobs, l)
    BY <2>1, <2>2, RiseKeeps
  <2>4. Rearranged(h, Rise(m).jobs, l)
    BY <2>2, <2>3, RearrangedTwice
  <2>5. Ordered(Rise(m).jobs, l) \/ Rise(m).at <= i - k
    <3>1. m.at \in Int /\ Rise(m).at \in Int
      BY <2>2, <2>3
    <3> QED
      BY <2>2, <2>3, <3>1
  <2> QED
    BY <2>1, <2>3, <2>4, <2>5
<1>4. n \in Good
  <2>1. 0 .. n \subseteq Good
    <3> HIDE DEF Good
    <3> QED
      BY <1>2, <1>3, Turns
  <2> QED
    BY <2>1
<1>5. Ordered(turn[n].jobs, l)
  BY <1>4
<1>6. Up(h, i) = turn[n].jobs
  BY DEF Up, turn
<1> QED
  BY <1>1, <1>4, <1>5, <1>6 DEF LoopStates
-----------------------------------------------------------------------------
(* down.                                                                   *)

\* An array in which the moved job has settled is in order, unless the job has
\* not moved and is too low.
LEMMA Sunk ==
  ASSUME NEW n \in Nat, NEW h, NEW first \in 1 .. n, NEW i \in first .. n,
         DownInv(h, n, first, i), Settled(h, n, i)
  PROVE  /\ i > first => Ordered(h, n)
         /\ i = first => UpInv(h, n, i)
<1>1. ASSUME NEW j \in 2 .. n, j # first \/ i # first PROVE ~Less(h[j], h[j \div 2])
  <2>1. CASE j \div 2 = i
    BY <2>1 DEF Settled
  <2>2. CASE j \div 2 # i
    BY <1>1, <2>2 DEF DownInv
  <2> QED
    BY <2>1, <2>2
<1> QED
  BY <1>1 DEF DownInv, UpInv, Ordered

\* A turn of down keeps the invariant; it moves the job further from the root,
\* or the job has settled.
LEMMA SinkKeeps ==
  ASSUME NEW n \in Nat, NEW l \in 1 .. n, NEW m \in LoopStates(n), NEW first \in 1 .. l,
         m.at \in first .. l, DownInv(m.jobs, l, first, m.at)
  PROVE  \/ Sink(m, l) = m /\ Settled(m.jobs, l, m.at)
         \/ /\ ~Settled(m.jobs, l, m.at)
            /\ Sink(m, l).at \in m.at + 1 .. l
            /\ DownInv(Sink(m, l).jobs, l, first, Sink(m, l).at)
            /\ Rearranged(m.jobs, Sink(m, l).jobs, l)
<1> DEFINE h == m.jobs
           i == m.at
           c == FirstChild(h, i, l)
<1>1. h \in Arrays(n) /\ i \in first .. l /\ i \in 1 .. n /\ DownInv(h, l, first, i)
  BY DEF LoopStates
<1> HIDE DEF h, i
<1>2. \A k \in 1 .. n : h[k] \in HeapJob
  BY <1>1 DEF Arrays
<1>3. 2 * i <= l => /\ c \in i + 1 .. l /\ c \div 2 = i
                    /\ \A j \in 2 .. l : j \div 2 = i => ~Less(h[j], h[c])
  <2>1. l \in 0 .. n
    OBVIOUS
  <2> QED
    BY <1>1, <2>1, FirstChildInside
<1> HIDE DEF c
<1>4. CASE 2 * i <= l /\ Less(h[c], h[i])
  <2> DEFINE g == Swap(h, i, c)
  <2>1. /\ c \in i + 1 .. l /\ c \in 1 .. n /\ c \in 2 .. l /\ c \div 2 = i
        /\ \A j \in 2 .. l : j \div 2 = i => ~Less(h[j], h[c])
    BY <1>1, <1>3, <1>4
  <2>2. Sink(m, l).jobs = g /\ Sink(m, l).at = c
    <3>1. 2 * m.at <= l /\ Less(m.jobs[c], m.jobs[m.at])
      BY <1>4 DEF h, i
    <3>2. Sink(m, l) = Moving(Swap(m.jobs, m.at, c), c)
      BY <3>1 DEF Sink, h, i, c
    <3> QED
      BY <3>2 DEF Moving, h, i
  <2>3. \A k \in 1 .. n : g[k] = IF k = c THEN h[i] ELSE IF k = i THEN h[c] ELSE h[k]
    <3>1. c \in 1 .. n /\ i \in 1 .. n /\ h \in Arrays(n)
      BY <1>1, <2>1
    <3> QED
      BY <3>1, SwapArray
  <2>4. Rearranged(h, g, l)
    <3>1. i \in 1 .. l /\ c \in 1 .. l
      BY <1>1, <2>1
    <3> QED
      BY <1>1, <3>1, SwapRearranges
  <2> HIDE DEF g
  <2>5. ASSUME NEW j \in 2 .. l, j \div 2 # c PROVE ~Less(g[j], g[j \div 2])
    <3> DEFINE q == j \div 2
    <3>1. q \in 1 .. j - 1 /\ j \in 1 .. n /\ q \in 1 .. n
      BY Half
    <3>2. h[i] \in HeapJob /\ h[c] \in HeapJob /\ h[j] \in HeapJob /\ h[q] \in HeapJob
      BY <1>1, <1>2, <2>1, <3>1
    <3>3. CASE j = c
      <4>1. g[j] = h[i] /\ g[q] = h[c]
        BY <1>1, <2>1, <2>3, <3>1, <3>3
      <4> QED
        BY <4>1, <3>2, <1>4, LessAsymmetric
    <3>4. CASE j # c /\ q = i
      <4>1. g[j] = h[j] /\ g[q] = h[c]
        BY <2>1, <2>3, <3>1, <3>4
      <4> QED
        BY <4>1, <3>4, <2>1
    <3>5. CASE j = i
      <4>1. g[j] = h[c] /\ g[q] = h[q]
        BY <2>1, <2>3, <3>1, <3>5, <2>5
      <4>2. ~Less(h[c], h[q])
        BY <1>1, <2>1, <3>5 DEF DownInv, Skips
      <4> QED
        BY <4>1, <4>2
    <3>6. CASE j # c /\ j # i /\ q # i
      <4>1. g[j] = h[j] /\ g[q] = h[q]
        BY <2>3, <3>1, <3>6, <2>5
      <4>2. ~Less(h[j], h[q])
        BY <1>1, <3>6 DEF DownInv
      <4> QED
        BY <4>1, <4>2
    <3> QED
      BY <3>3, <3>4, <3>5, <3>6
  <2>6. ASSUME NEW j \in 2 .. l, j \div 2 = c PROVE ~Less(g[j], g[c \div 2])
    <3>1. j > c /\ j \in 1 .. n
      BY <2>1, <2>6, Half
    <3>2. g[j] = h[j] /\ g[c \div 2] = h[c]
      BY <1>1, <2>1, <2>3, <3>1
    <3>3. ~Less(h[j], h[c])
      <4>1. j \div 2 # i /\ j # first
        BY <1>1, <2>1, <2>6, <3>1
      <4> QED
        BY <1>1, <2>6, <4>1 DEF DownInv
    <3> QED
      BY <3>2, <3>3
  <2>7. DownInv(g, l, first, c)
    BY <2>5, <2>6 DEF DownInv, Skips
  <2>8. ~Settled(h, l, i)
    BY <2>1, <1>4 DEF Settled
  <2> QED
    BY <2>1, <2>2, <2>4, <2>7, <2>8 DEF h, i
<1>5. CASE ~(2 * i <= l /\ Less(h[c], h[i]))
  <2>1. Sink(m, l) = m
    BY <1>5 DEF Sink, h, i, c
  <2>2. ASSUME NEW j \in 2 .. l, j \div 2 = i PROVE ~Less(h[j], h[i])
    <3>1. 2 * i <= l
      BY <2>2, <1>1, Half
    <3>2. c \in 1 .. n /\ j \in 1 .. n
      BY <3>1, <1>1, <1>3
    <3>3. h[j] \in HeapJob /\ h[c] \in HeapJob /\ h[i] \in HeapJob
      BY <1>1, <1>2, <3>2
    <3> QED
      BY <1>3, <1>5, <2>2, <3>1, <3>3, NotLessTransitive
  <2>3. Settled(h, l, i)
    BY <2>2 DEF Settled
  <2> QED
    BY <2>1, <2>3 DEF h, i
<1> QED
  BY <1>4, <1>5

\* down leaves the first l jobs in order, or the job where it was, from where
\* up can do it.
LEMMA DownOrders ==
  ASSUME NEW n \in Nat, NEW l \in 1 .. n, NEW h \in Arrays(n), Len(h) = n, NEW i \in 1 .. l,
         DownInv(h, l, i, i)
  PROVE  /\ Down(h, i, l).jobs \in Arrays(n)
         /\ Rearranged(h, Down(h, i, l).jobs, l)
         /\ Down(h, i, l).at > i => Ordered(Down(h, i, l).jobs, l)
         /\ ~(Down(h, i, l).at > i) => UpInv(h, l, i)
<1> DEFINE turn == Sinking(h, i, l)
           Keeps(m) == /\ m.at \in i .. l /\ DownInv(m.jobs, l, i, m.at)
                       /\ Rearranged(h, m.jobs, l)
                       /\ m.at = i => m.jobs = h
           Good == {k \in 0 .. n : /\ Keeps(turn[k])
                                   /\ \/ Settled(turn[k].jobs, l, turn[k].at)
                                      \/ turn[k].at >= i + k}
<1>1. /\ turn[0] = Moving(h, i)
      /\ \A k \in 1 .. n : turn[k] = Sink(turn[k - 1], l)
      /\ \A k \in 0 .. n : turn[k] \in LoopStates(n)
  BY SinkingTurns
<1> HIDE DEF turn
<1>2. 0 \in Good
  <2>1. turn[0].jobs = h /\ turn[0].at = i
    BY <1>1 DEF Moving
  <2>2. Rearranged(h, h, l)
    BY NothingRearranged
  <2> QED
    BY <2>1, <2>2
<1>3. ASSUME NEW k \in 1 .. n, k - 1 \in Good PROVE k \in Good
  <2> DEFINE m == turn[k - 1]
             s == Sink(m, l)
  <2>1. m \in LoopStates(n) /\ turn[k] = s
    BY <1>1, <1>3
  <2>2. Keeps(m) /\ (Settled(m.jobs, l, m.at) \/ m.at >= i + (k - 1))
    BY <1>3
  <2> HIDE DEF m
  <2>3. \/ s = m /\ Settled(m.jobs, l, m.at)
        \/ /\ ~Settled(m.jobs, l, m.at)
           /\ s.at \in m.at + 1 .. l
           /\ DownInv(s.jobs, l, i, s.at)
           /\ Rearranged(m.jobs, s.jobs, l)
    BY <2>1, <2>2, SinkKeeps
  <2> HIDE DEF s
  <2>4. CASE s = m /\ Settled(m.jobs, l, m.at)
    BY <2>1, <2>2, <2>4
  <2>5. CASE /\ ~Settled(m.jobs, l, m.at)
             /\ s.at \in m.at + 1 .. l
             /\ DownInv(s.jobs, l, i, s.at)
             /\ Rearranged(m.jobs, s.jobs, l)
    <3>1. Rearranged(h, s.jobs, l)
      BY <2>2, <2>5, RearrangedTwice
    <3>2. s.at \in i .. l /\ s.at # i /\ s.at >= i + k
      BY <2>2, <2>5
    <3> QED
      BY <2>1, <2>5, <3>1, <3>2
  <2> QED
    BY <2>3, <2>4, <2>5
<1>4. n \in Good
  <2>1. 0 .. n \subseteq Good
    <3> HIDE DEF Good
    <3> QED
      BY <1>2, <1>3, Turns
  <2> QED
    BY <2>1
<1> DEFINE m == turn[n]
<1>5. Keeps(m) /\ Settled(m.jobs, l, m.at)
  BY <1>4
<1>6. Down(h, i, l) = m
  BY DEF Down, turn
<1>7. m.jobs \in Arrays(n)
  BY <1>1 DEF LoopStates
<1> HIDE DEF m
<1>8. /\ m.at > i => Ordered(m.jobs, l)
      /\ m.at = i => UpInv(m.jobs, l, i)
  <2>1. l \in Nat /\ i \in 1 .. l /\ m.at \in i .. l /\ DownInv(m.jobs, l, i, m.at)
    BY <1>5
  <2>2. /\ m.at > i => Ordered(m.jobs, l)
        /\ m.at = i => UpInv(m.jobs, l, m.at)
    BY <1>5, <2>1, Sunk
  <2> QED
    BY <2>2
<1> QED
  BY <1>5, <1>6, <1>7, <1>8
-----------------------------------------------------------------------------
(* heap.Push and heap.Remove.                                              *)

\* Sequences are arrays,
LEMMA ArrayOfSeq ==
  ASSUME NEW h \in Seq(HeapJob)
  PROVE  Len(h) \in Nat /\ h \in Arrays(Len(h))
<1> QED
  BY DEF Arrays

\* ... and arrays sequences.
LEMMA SeqOfArray ==
  ASSUME NEW n \in Nat, NEW h \in Arrays(n)
  PROVE  h \in Seq(HeapJob) /\ Len(h) = n
<1> QED
  BY DEF Arrays

\* A rearranged array holds the same jobs.
LEMMA SameJobs ==
  ASSUME NEW g, NEW h, NEW n, Len(g) = n, Len(h) = n,
         Among(g, h, n), Among(h, g, n)
  PROVE  Jobs(g) = Jobs(h)
<1>1. \A job : job \in Jobs(g) <=> \E k \in 1 .. n : job = g[k]
  BY DEF Jobs
<1>2. \A job : job \in Jobs(h) <=> \E k \in 1 .. n : job = h[k]
  BY DEF Jobs
<1>3. \A job : job \in Jobs(g) <=> job \in Jobs(h)
  BY <1>1, <1>2, Zenon DEF Among
<1> QED
  BY <1>3

\* heap.Push keeps the order and adds the job.
LEMMA PushKeeps ==
  ASSUME NEW h \in Seq(HeapJob), NEW job \in HeapJob, Ordered(h, Len(h)), Distinct(h),
         job \notin Jobs(h)
  PROVE  /\ HeapPush(h, job) \in Seq(HeapJob)
         /\ Len(HeapPush(h, job)) = Len(h) + 1
         /\ Ordered(HeapPush(h, job), Len(h) + 1)
         /\ Distinct(HeapPush(h, job))
         /\ Jobs(HeapPush(h, job)) = Jobs(h) \cup {job}
<1> DEFINE n == Len(h) + 1
           a == Append(h, job)
           r == HeapPush(h, job)
<1>1. n \in Nat /\ n \in 1 .. n
  BY ArrayOfSeq
<1>2. /\ a \in Seq(HeapJob) /\ Len(a) = n
      /\ \A k \in 1 .. Len(h) : a[k] = h[k]
      /\ a[n] = job
  OBVIOUS
<1>3. a \in Arrays(n)
  BY <1>2, ArrayOfSeq
<1>4. r = Up(a, n)
  BY DEF HeapPush
<1>5. UpInv(a, n, n)
  <2>1. ASSUME NEW j \in 2 .. n, j # n PROVE ~Less(a[j], a[j \div 2])
    <3>1. j \in 2 .. Len(h) /\ j \div 2 \in 1 .. Len(h) /\ j \in 1 .. Len(h)
      BY <1>1, <2>1, Half
    <3>2. a[j] = h[j] /\ a[j \div 2] = h[j \div 2]
      BY <1>2, <3>1
    <3> QED
      BY <3>1, <3>2 DEF Ordered
  <2>2. \A j \in 2 .. n : j \div 2 # n
    BY <1>1, Half
  <2> QED
    BY <2>1, <2>2 DEF UpInv, Skips
<1> HIDE DEF a, n, r
<1>6. r \in Arrays(n) /\ Ordered(r, n) /\ Rearranged(a, r, n)
  BY <1>1, <1>2, <1>3, <1>4, <1>5, UpOrders
<1>7. r \in Seq(HeapJob) /\ Len(r) = n
  BY <1>1, <1>6, SeqOfArray
<1>8. Jobs(a) = Jobs(h) \cup {job}
  <2>1. n = Len(h) + 1 /\ Len(h) \in Nat
    BY ArrayOfSeq DEF n
  <2>2. \A k \in 1 .. n : a[k] \in Jobs(h) \cup {job}
    BY <1>2, <2>1 DEF Jobs
  <2>3. \A k \in 1 .. Len(h) : k \in 1 .. n /\ h[k] = a[k]
    BY <1>2, <2>1
  <2> QED
    BY <1>1, <1>2, <2>2, <2>3 DEF Jobs
<1>9. Jobs(r) = Jobs(a)
  <2>1. Among(r, a, n) /\ Among(a, r, n)
    BY <1>6 DEF Rearranged
  <2> QED
    BY <1>2, <1>7, <2>1, SameJobs
<1>10. Distinct(a)
  <2>1. n = Len(h) + 1 /\ Len(h) \in Nat /\ DOMAIN a = 1 .. n /\ DOMAIN h = 1 .. Len(h)
    BY <1>3, ArrayOfSeq DEF Arrays, n
  <2>2. \A i \in 1 .. Len(h) : a[i] # job
    BY <1>2 DEF Jobs
  <2> QED
    BY <1>2, <2>1, <2>2 DEF Distinct
<1>11. Distinct(r)
  BY <1>6, <1>10 DEF Rearranged
<1> QED
  BY <1>6, <1>7, <1>8, <1>9, <1>11 DEF n, r

\* What is left when the last job, which may be out of order, is dropped.
LEMMA FrontKeeps ==
  ASSUME NEW n \in Nat \ {0}, NEW h \in Arrays(n), Ordered(h, n - 1), Distinct(h)
  PROVE  /\ Front(h) \in Seq(HeapJob)
         /\ Len(Front(h)) = n - 1
         /\ Ordered(Front(h), n - 1)
         /\ Distinct(Front(h))
         /\ Jobs(Front(h)) = Jobs(h) \ {h[n]}
<1> DEFINE f == Front(h)
<1>1. h \in Seq(HeapJob) /\ Len(h) = n
  BY SeqOfArray
<1>2. f = SubSeq(h, 1, n - 1)
  BY <1>1 DEF Front
<1>3. f \in Seq(HeapJob) /\ Len(f) = n - 1 /\ \A k \in 1 .. n - 1 : f[k] = h[k]
  BY <1>1, <1>2
<1> HIDE DEF f
<1>4. Ordered(f, n - 1)
  <2>1. ASSUME NEW j \in 2 .. n - 1 PROVE ~Less(f[j], f[j \div 2])
    <3>1. j \in 1 .. n - 1 /\ j \div 2 \in 1 .. n - 1
      BY Half
    <3> QED
      BY <1>3, <3>1 DEF Ordered
  <2> QED
    BY <2>1 DEF Ordered
<1>5. DOMAIN f = 1 .. n - 1 /\ DOMAIN h = 1 .. n
  BY <1>3, ArrayOfSeq DEF Arrays
<1>6. \A i, j \in 1 .. n : h[i] = h[j] => i = j
  BY <1>5 DEF Distinct
<1>7. Distinct(f)
  BY <1>3, <1>5, <1>6 DEF Distinct
<1>8. Jobs(f) = Jobs(h) \ {h[n]}
  <2>1. ASSUME NEW k \in 1 .. n - 1 PROVE f[k] \in Jobs(h) /\ f[k] # h[n]
    <3>1. k \in 1 .. n /\ n \in 1 .. n /\ k # n
      OBVIOUS
    <3> QED
      BY <1>1, <1>3, <1>6, <3>1 DEF Jobs
  <2>2. ASSUME NEW k \in 1 .. n, h[k] # h[n] PROVE h[k] \in Jobs(f)
    <3>1. k \in 1 .. n - 1
      BY <2>2
    <3> QED
      BY <1>3, <3>1 DEF Jobs
  <2>3. ASSUME NEW job \in Jobs(f) PROVE job \in Jobs(h) \ {h[n]}
    <3>1. PICK k \in 1 .. n - 1 : job = f[k]
      BY <1>3 DEF Jobs
    <3> QED
      BY <2>1, <3>1
  <2>4. ASSUME NEW job \in Jobs(h) \ {h[n]} PROVE job \in Jobs(f)
    <3>1. PICK k \in 1 .. n : job = h[k]
      BY <1>1 DEF Jobs
    <3> QED
      BY <2>2, <3>1
  <2> QED
    BY <2>3, <2>4
<1> QED
  BY <1>3, <1>4, <1>7, <1>8 DEF f

\* heap.Remove keeps the order and takes away the job.
LEMMA RemoveKeeps ==
  ASSUME NEW h \in Seq(HeapJob), Ordered(h, Len(h)), Distinct(h), NEW i \in 1 .. Len(h)
  PROVE  /\ HeapRemove(h, i) \in Seq(HeapJob)
         /\ Len(HeapRemove(h, i)) = Len(h) - 1
         /\ Ordered(HeapRemove(h, i), Len(h) - 1)
         /\ Distinct(HeapRemove(h, i))
         /\ Jobs(HeapRemove(h, i)) = Jobs(h) \ {h[i]}
<1> DEFINE n == Len(h)
           l == n - 1
<1>1. n \in Nat \ {0} /\ h \in Arrays(n) /\ n \in 1 .. n
  BY ArrayOfSeq
<1> HIDE DEF n
<1>2. CASE i = n
  <2>1. HeapRemove(h, i) = Front(h)
    BY <1>2 DEF HeapRemove, n
  <2>2. Ordered(h, n - 1)
    BY <1>1 DEF Ordered, n
  <2> QED
    BY <1>1, <1>2, <2>1, <2>2, FrontKeeps DEF n
<1>3. CASE i # n
  <2> DEFINE moved == Swap(h, i, n)
             sunk == Down(moved, i, l)
             x == IF sunk.at > i THEN sunk.jobs ELSE Up(moved, i)
  <2>1. i \in 1 .. n /\ i \in 1 .. l /\ l \in 1 .. n
    BY <1>1, <1>3 DEF n
  <2>2. HeapRemove(h, i) = Front(x)
    BY <1>3 DEF HeapRemove, n
  <2>3. /\ moved \in Arrays(n)
        /\ \A k \in 1 .. n : moved[k] = IF k = n THEN h[i] ELSE IF k = i THEN h[n] ELSE h[k]
    BY <1>1, <2>1, SwapArray
  <2>4. Len(moved) = n
    BY <1>1, <2>3, SeqOfArray
  <2>5. Rearranged(h, moved, n)
    BY <1>1, <2>1, SwapRearranges
  <2> HIDE DEF moved
  <2>6. DownInv(moved, l, i, i)
    <3>1. ASSUME NEW j \in 2 .. l, j \div 2 # i, j # i PROVE ~Less(moved[j], moved[j \div 2])
      <4>1. j \in 2 .. n /\ j \in 1 .. n /\ j # n /\ j \div 2 \in 1 .. n /\ j \div 2 # n
        BY <1>1, Half
      <4>2. moved[j] = h[j] /\ moved[j \div 2] = h[j \div 2]
        BY <2>3, <3>1, <4>1
      <4> QED
        BY <4>1, <4>2 DEF Ordered, n
    <3>2. ASSUME i > 1, NEW j \in 2 .. l, j \div 2 = i PROVE ~Less(moved[j], moved[i \div 2])
      <4> DEFINE p == i \div 2
      <4>1. /\ j \in 2 .. n /\ j \in 1 .. n /\ j # n /\ j # i
            /\ i \in 2 .. n /\ p \in 1 .. n /\ p # n /\ p # i
        BY <1>1, <2>1, <3>2, Half
      <4>2. moved[j] = h[j] /\ moved[p] = h[p]
        BY <2>3, <4>1
      <4>3. ~Less(h[j], h[i]) /\ ~Less(h[i], h[p])
        BY <3>2, <4>1 DEF Ordered, n
      <4>4. h[j] \in HeapJob /\ h[i] \in HeapJob /\ h[p] \in HeapJob
        BY <1>1, <2>1, <4>1 DEF Arrays
      <4> QED
        BY <4>2, <4>3, <4>4, NotLessTransitive
    <3> QED
      BY <3>1, <3>2 DEF DownInv, Skips
  <2>7. /\ sunk.jobs \in Arrays(n)
        /\ Rearranged(moved, sunk.jobs, l)
        /\ sunk.at > i => Ordered(sunk.jobs, l)
        /\ ~(sunk.at > i) => UpInv(moved, l, i)
    BY <1>1, <2>1, <2>3, <2>4, <2>6, DownOrders
  <2> HIDE DEF sunk, l
  <2>8. x \in Arrays(n) /\ Ordered(x, l) /\ Rearranged(moved, x, l)
    <3>1. CASE sunk.at > i
      BY <2>7, <3>1
    <3>2. CASE ~(sunk.at > i)
      <4>1. Up(moved, i) \in Arrays(n) /\ Ordered(Up(moved, i), l)
            /\ Rearranged(moved, Up(moved, i), l)
        BY <1>1, <2>1, <2>3, <2>4, <2>7, <3>2, UpOrders
      <4> QED
        BY <3>2, <4>1
    <3> QED
      BY <3>1, <3>2
  <2> HIDE DEF x
  <2>9. l = n - 1
    BY DEF l
  <2>10. DOMAIN moved = 1 .. n /\ DOMAIN h = 1 .. n
    BY <1>1, <2>3 DEF Arrays
  <2>11. x[n] = h[i]
    <3>1. n > l
      BY <1>1, <2>9
    <3>2. x[n] = moved[n]
      BY <1>1, <2>8, <2>10, <3>1 DEF Rearranged
    <3> QED
      BY <1>1, <2>3, <3>2
  <2>12. Distinct(x)
    BY <2>5, <2>8 DEF Rearranged
  <2>13. Jobs(x) = Jobs(h)
    <3>1. Len(x) = n /\ Len(h) = n
      BY <1>1, <2>8, SeqOfArray
    <3>2. Among(x, moved, n)
      <4> SUFFICES ASSUME NEW k \in 1 .. n PROVE \E o \in 1 .. n : x[k] = moved[o]
        BY DEF Among
      <4>1. CASE k \in 1 .. l
        <5>1. PICK o \in 1 .. l : x[k] = moved[o]
          BY <2>8, <4>1 DEF Rearranged, Among
        <5> QED
          BY <5>1, <2>9, <1>1
      <4>2. CASE k = n
        BY <2>3, <2>11, <4>2, <1>1
      <4> QED
        BY <4>1, <4>2, <2>9, <1>1
    <3>3. Among(moved, x, n)
      <4> SUFFICES ASSUME NEW k \in 1 .. n PROVE \E o \in 1 .. n : moved[k] = x[o]
        BY DEF Among
      <4>1. CASE k \in 1 .. l
        <5>1. PICK o \in 1 .. l : moved[k] = x[o]
          BY <2>8, <4>1 DEF Rearranged, Among
        <5> QED
          BY <5>1, <2>9, <1>1
      <4>2. CASE k = n
        BY <2>3, <2>11, <4>2, <1>1
      <4> QED
        BY <4>1, <4>2, <2>9, <1>1
    <3>4. Among(moved, h, n) /\ Among(h, moved, n)
      BY <2>5 DEF Rearranged
    <3>5. Jobs(x) = Jobs(moved)
      BY <3>1, <2>4, <3>2, <3>3, SameJobs
    <3>6. Jobs(moved) = Jobs(h)
      BY <3>1, <2>4, <3>4, SameJobs
    <3> QED
      BY <3>5, <3>6
  <2>14. /\ Front(x) \in Seq(HeapJob)
         /\ Len(Front(x)) = n - 1
         /\ Ordered(Front(x), n - 1)
         /\ Distinct(Front(x))
         /\ Jobs(Front(x)) = Jobs(x) \ {x[n]}
    BY <1>1, <2>8, <2>9, <2>12, FrontKeeps
  <2> QED
    BY <2>2, <2>11, <2>13, <2>14 DEF n
<1> QED
  BY <1>2, <1>3
-----------------------------------------------------------------------------
(* The operations of the queue manager.                                    *)

\* A heap's first job is its most urgent one.
LEMMA RootMostUrgent ==
  ASSUME NEW n \in Nat, NEW h \in Arrays(n), Ordered(h, n)
  PROVE  \A i \in 1 .. n : ~Less(h[i], h[1])
<1> DEFINE Before == {i \in 1 .. n : Less(h[i], h[1])}
<1>1. SUFFICES ASSUME Before # {} PROVE FALSE
  OBVIOUS
<1>2. PICK i \in Before : \A other \in Before : i <= other
  <2>1. Before \subseteq Nat
    OBVIOUS
  <2> HIDE DEF Before
  <2> QED
    BY <1>1, <2>1, LeastNumber
<1>3. i \in 1 .. n /\ Less(h[i], h[1]) /\ 1 \in 1 .. n
  BY <1>2
<1>4. i # 1
  <2>1. h[1] \in HeapJob
    BY <1>3 DEF Arrays
  <2> QED
    BY <1>3, <2>1, LessAsymmetric
<1> DEFINE p == i \div 2
<1>5. p \in 1 .. i - 1 /\ p \in 1 .. n /\ i \in 2 .. n
  BY <1>3, <1>4, Half
<1>6. ~Less(h[i], h[p])
  BY <1>5 DEF Ordered
<1>7. ~Less(h[p], h[1])
  <2>1. ~(i <= p)
    BY <1>5
  <2> HIDE DEF p
  <2> QED
    BY <1>2, <1>5, <2>1
<1>8. h[i] \in HeapJob /\ h[p] \in HeapJob /\ h[1] \in HeapJob
  BY <1>3, <1>5 DEF Arrays
<1> QED
  BY <1>3, <1>6, <1>7, <1>8, NotLessTransitive

\* The scan stops at the first job of its kind.
LEMMA ScanStops ==
  ASSUME NEW isArchive, IndicesOf(isArchive) # {}, heap \in Seq(HeapJob)
  PROVE  /\ FirstOf(isArchive) \in 1 .. Len(heap)
         /\ heap[FirstOf(isArchive)].isArchive = isArchive
         /\ \A j \in IndicesOf(isArchive) : FirstOf(isArchive) <= j
<1>1. IndicesOf(isArchive) \subseteq Nat
  BY DEF IndicesOf
<1>2. \E i \in IndicesOf(isArchive) : \A j \in IndicesOf(isArchive) : i <= j
  BY <1>1, LeastNumber
<1>3. /\ FirstOf(isArchive) \in IndicesOf(isArchive)
      /\ \A j \in IndicesOf(isArchive) : FirstOf(isArchive) <= j
  BY <1>2 DEF FirstOf
<1> QED
  BY <1>3 DEF IndicesOf

\* What an enqueue does to the heap.
LEMMA EnqueueStep ==
  ASSUME HeapInv, NEW isArchive \in BOOLEAN, NEW priority \in Priorities,
         Enqueue(isArchive, priority)
  PROVE  /\ HeapInv'
         /\ Len(heap') = Len(heap) + 1
         /\ \E job \in HeapJob : job.added = clock' /\ Jobs(heap') = Jobs(heap) \cup {job}
<1> DEFINE job == [isArchive |-> isArchive, priority |-> priority, added |-> clock + 1]
<1>1. heap \in Seq(HeapJob) /\ Len(heap) \in Nat /\ clock \in 0 .. MaxJobs /\ MaxJobs \in Nat
  BY HeapAssumption DEF HeapInv, TypeOK
<1>2. /\ clock' = clock + 1 /\ clock' \in 0 .. MaxJobs
      /\ Len(heap) < MaxQueueSize
      /\ heap' = HeapPush(heap, job)
  BY <1>1 DEF Enqueue
<1>3. job \in HeapJob /\ job.added = clock + 1
  <2>1. clock + 1 \in 1 .. MaxJobs
    BY <1>1 DEF Enqueue
  <2> QED
    BY <2>1 DEF HeapJob
<1> HIDE DEF job
<1>4. job \notin Jobs(heap)
  <2>1. ~(clock + 1 <= clock)
    BY <1>1
  <2> QED
    BY <1>3, <2>1 DEF HeapInv
<1>5. Ordered(heap, Len(heap)) /\ Distinct(heap)
  BY DEF HeapInv, HeapOrdered, Ordered
<1>6. /\ heap' \in Seq(HeapJob)
      /\ Len(heap') = Len(heap) + 1
      /\ Ordered(heap', Len(heap) + 1)
      /\ Distinct(heap')
      /\ Jobs(heap') = Jobs(heap) \cup {job}
  BY <1>1, <1>2, <1>3, <1>4, <1>5, PushKeeps
<1>7. TypeOK'
  <2>1. Len(heap') <= MaxQueueSize
    BY <1>1, <1>2, <1>6, HeapAssumption
  <2> QED
    BY <1>2, <1>6, <2>1 DEF TypeOK
<1>8. HeapOrdered'
  BY <1>6 DEF HeapOrdered, Ordered
<1>9. \A other \in Jobs(heap)' : other.added <= clock'
  <2> SUFFICES ASSUME NEW other \in Jobs(heap') PROVE other.added <= clock + 1
    BY <1>2 DEF Jobs
  <2>1. CASE other = job
    BY <1>1, <1>3, <2>1
  <2>2. CASE other \in Jobs(heap)
    <3>1. other.added <= clock /\ other \in HeapJob
      BY <1>1, <2>2 DEF HeapInv, Jobs
    <3>2. other.added \in Int
      BY <3>1, Numbers
    <3> QED
      BY <1>1, <3>1, <3>2
  <2> QED
    BY <1>6, <2>1, <2>2
<1>10. HeapInv'
  BY <1>6, <1>7, <1>8, <1>9 DEF HeapInv, Distinct
<1> QED
  BY <1>2, <1>3, <1>6, <1>10

\* What taking a job does to the heap.
LEMMA ProcessNextStep ==
  ASSUME HeapInv, NEW isArchive \in BOOLEAN, ProcessNext(isArchive)
  PROVE  /\ HeapInv'
         /\ Len(heap') = Len(heap) - 1
         /\ FirstOf(isArchive) \in 1 .. Len(heap)
         /\ heap[FirstOf(isArchive)] \in Jobs(heap)
         /\ heap[FirstOf(isArchive)].isArchive = isArchive
         /\ \A j \in IndicesOf(isArchive) : FirstOf(isArchive) \in 1 .. j
         /\ Jobs(heap') = Jobs(heap) \ {heap[FirstOf(isArchive)]}
<1> DEFINE i == FirstOf(isArchive)
<1>1. heap \in Seq(HeapJob) /\ Len(heap) \in Nat /\ clock \in 0 .. MaxJobs
  BY DEF HeapInv, TypeOK
<1>2. heap' = HeapRemove(heap, i) /\ clock' = clock /\ IndicesOf(isArchive) # {}
  BY DEF ProcessNext
<1>3. /\ i \in 1 .. Len(heap) /\ heap[i].isArchive = isArchive
      /\ \A j \in IndicesOf(isArchive) : i <= j
  BY <1>1, <1>2, ScanStops
<1> HIDE DEF i
<1>4. heap[i] \in Jobs(heap)
  BY <1>3 DEF Jobs
<1>5. \A j \in IndicesOf(isArchive) : i \in 1 .. j
  BY <1>3 DEF IndicesOf
<1>6. Ordered(heap, Len(heap)) /\ Distinct(heap)
  BY DEF HeapInv, HeapOrdered, Ordered
<1>7. /\ heap' \in Seq(HeapJob)
      /\ Len(heap') = Len(heap) - 1
      /\ Ordered(heap', Len(heap) - 1)
      /\ Distinct(heap')
      /\ Jobs(heap') = Jobs(heap) \ {heap[i]}
  BY <1>1, <1>2, <1>3, <1>6, RemoveKeeps
<1>8. TypeOK'
  <2>1. Len(heap) <= MaxQueueSize /\ MaxQueueSize \in Nat
    BY HeapAssumption DEF HeapInv, TypeOK
  <2>2. Len(heap') <= MaxQueueSize
    BY <1>1, <1>7, <2>1
  <2> QED
    BY <1>1, <1>2, <1>7, <2>2 DEF TypeOK
<1>9. HeapOrdered'
  BY <1>7 DEF HeapOrdered, Ordered
<1>10. \A other \in Jobs(heap)' : other.added <= clock'
  <2> SUFFICES ASSUME NEW other \in Jobs(heap') PROVE other.added <= clock
    BY <1>2 DEF Jobs
  <2>1. other \in Jobs(heap)
    BY <1>7
  <2> QED
    BY <2>1 DEF HeapInv
<1>11. HeapInv'
  BY <1>7, <1>8, <1>9, <1>10 DEF HeapInv, Distinct
<1> QED
  BY <1>3, <1>4, <1>5, <1>7, <1>11 DEF i

\* The heap is in order, its jobs are distinct and none is younger than the
\* clock.
THEOREM HeapConsistent == Spec => []HeapInv
<1>1. Init => HeapInv
  <2> SUFFICES ASSUME Init PROVE HeapInv
    OBVIOUS
  <2>1. heap = <<>> /\ clock = 0
    BY DEF Init
  <2>2. TypeOK
    BY <2>1, HeapAssumption DEF TypeOK
  <2>3. HeapOrdered /\ Distinct(heap) /\ \A job \in Jobs(heap) : job.added <= clock
    BY <2>1 DEF HeapOrdered, Distinct, Jobs
  <2> QED
    BY <2>2, <2>3 DEF HeapInv
<1>2. HeapInv /\ [Next]_vars => HeapInv'
  <2> SUFFICES ASSUME HeapInv, [Next]_vars PROVE HeapInv'
    OBVIOUS
  <2>1. ASSUME NEW isArchive \in BOOLEAN, NEW priority \in Priorities,
               Enqueue(isArchive, priority)
        PROVE  HeapInv'
    BY <2>1, EnqueueStep
  <2>2. ASSUME NEW isArchive \in BOOLEAN, ProcessNext(isArchive) PROVE HeapInv'
    BY <2>2, ProcessNextStep
  <2>3. CASE UNCHANGED vars
    BY <2>3 DEF vars, HeapInv, TypeOK, HeapOrdered, Distinct, Jobs
  <2> QED
    BY <2>1, <2>2, <2>3 DEF Next
<1> QED
  BY <1>1, <1>2, PTL DEF Spec

\* Every variable has its type; the array never holds more than its limit.
THEOREM TypeCorrect == Spec => []TypeOK
<1>1. HeapInv => TypeOK
  BY DEF HeapInv
<1> QED
  BY <1>1, HeapConsistent, PTL

\* No job precedes its parent, whatever was removed from the middle.
THEOREM AlwaysOrdered == Spec => []HeapOrdered
<1>1. HeapInv => HeapOrdered
  BY DEF HeapInv
<1> QED
  BY <1>1, HeapConsistent, PTL

\* A step adds one new job or takes away the one the scan stopped at.
THEOREM StepsChangeOneJob == Spec => ChangesOneJob
<1> DEFINE Changes ==
      \/ /\ Len(heap') = Len(heap) + 1
         /\ \E job \in HeapJob : job.added = clock' /\ Jobs(heap') = Jobs(heap) \cup {job}
      \/ /\ Len(heap') = Len(heap) - 1
         /\ \E job \in Jobs(heap) :
              /\ Jobs(heap') = Jobs(heap) \ {job}
              /\ \A i \in IndicesOf(job.isArchive) :
                   \E j \in 1 .. i : heap[j] = job
<1>1. HeapInv /\ [Next]_vars => [Changes]_heap
  <2> SUFFICES ASSUME HeapInv, [Next]_vars PROVE [Changes]_heap
    OBVIOUS
  <2>1. ASSUME NEW isArchive \in BOOLEAN, NEW priority \in Priorities,
               Enqueue(isArchive, priority)
        PROVE  Changes
    BY <2>1, EnqueueStep
  <2>2. ASSUME NEW isArchive \in BOOLEAN, ProcessNext(isArchive) PROVE Changes
    <3> DEFINE i == FirstOf(isArchive)
               job == heap[i]
    <3>1. /\ Len(heap') = Len(heap) - 1
          /\ job \in Jobs(heap) /\ job.isArchive = isArchive
          /\ \A j \in IndicesOf(isArchive) : i \in 1 .. j
          /\ Jobs(heap') = Jobs(heap) \ {job}
      BY <2>2, ProcessNextStep
    <3> HIDE DEF i
    <3>2. \A j \in IndicesOf(job.isArchive) : \E o \in 1 .. j : heap[o] = job
      BY <3>1
    <3> HIDE DEF job
    <3> QED
      BY <3>1, <3>2
  <2>3. CASE UNCHANGED vars
    BY <2>3 DEF vars
  <2> QED
    BY <2>1, <2>2, <2>3 DEF Next
<1> QED
  BY <1>1, HeapConsistent, PTL DEF Spec, ChangesOneJob

\* A worker takes the most urgent job of the queue when it is of its kind.
THEOREM MostUrgentTaken == Spec => MostUrgentServed
<1> DEFINE Served ==
      \A job \in Taken :
        heap[1].isArchive = job.isArchive => \A other \in Jobs(heap) : ~Less(other, job)
<1>1. HeapInv /\ [Next]_vars => [Served]_heap
  <2> SUFFICES ASSUME HeapInv, [Next]_vars PROVE [Served]_heap
    OBVIOUS
  <2>1. ASSUME NEW isArchive \in BOOLEAN, NEW priority \in Priorities,
               Enqueue(isArchive, priority)
        PROVE  Served
    <3>1. Taken = {}
      BY <2>1, EnqueueStep DEF Taken
    <3> QED
      BY <3>1
  <2>2. ASSUME NEW isArchive \in BOOLEAN, ProcessNext(isArchive) PROVE Served
    <3> DEFINE i == FirstOf(isArchive)
    <3>1. /\ i \in 1 .. Len(heap) /\ heap[i].isArchive = isArchive
          /\ \A j \in IndicesOf(isArchive) : i \in 1 .. j
          /\ Jobs(heap') = Jobs(heap) \ {heap[i]}
      BY <2>2, ProcessNextStep
    <3>2. heap \in Seq(HeapJob) /\ Ordered(heap, Len(heap))
      BY DEF HeapInv, TypeOK, HeapOrdered, Ordered
    <3> HIDE DEF i
    <3> SUFFICES ASSUME NEW job \in Taken, heap[1].isArchive = job.isArchive,
                        NEW other \in Jobs(heap)
                 PROVE  ~Less(other, job)
      OBVIOUS
    <3>3. job = heap[i]
      BY <3>1 DEF Taken
    <3>4. 1 \in IndicesOf(isArchive)
      BY <3>1, <3>2, <3>3 DEF IndicesOf
    <3>5. job = heap[1]
      BY <3>1, <3>3, <3>4
    <3>6. \A k \in 1 .. Len(heap) : ~Less(heap[k], heap[1])
      BY <3>2, ArrayOfSeq, RootMostUrgent
    <3> QED
      BY <3>5, <3>6 DEF Jobs
  <2>3. CASE UNCHANGED vars
    BY <2>3 DEF vars
  <2> QED
    BY <2>1, <2>2, <2>3 DEF Next
<1> QED
  BY <1>1, HeapConsistent, PTL DEF Spec, MostUrgentServed
=============================================================================
