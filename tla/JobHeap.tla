------------------------------- MODULE JobHeap -------------------------------
(***************************************************************************)
(* The priority queue inside the queue manager of internal/queue/queue.go: *)
(* the array that container/heap keeps in heap order through Less and Swap, *)
(* with the two operations the manager performs on it under qm.mu: Push    *)
(* when a job is enqueued, and the scan of processNextJob that removes the *)
(* first job of a kind.  QueueManager abstracts the array to the set of    *)
(* its jobs and the scan to a choice; this module says which choice.       *)
(*                                                                         *)
(* Indices start at 1, so the children of i are 2i and 2i + 1.             *)
(***************************************************************************)
EXTENDS Integers, Sequences

CONSTANTS
  Priorities,   \* the priorities jobs are enqueued with
  MaxQueueSize, \* qm.maxQueueSize
  MaxJobs       \* bound: jobs enqueued in one behaviour

ASSUME HeapAssumption ==
  /\ Priorities \subseteq Int
  /\ MaxQueueSize \in Nat \ {0}
  /\ MaxJobs \in Nat

HeapJob == [isArchive : BOOLEAN, priority : Priorities, added : 1..MaxJobs]

VARIABLES
  heap,  \* qm.queue
  clock  \* jobs enqueued so far; time.Now() of the next one is clock + 1

vars == <<heap, clock>>

Jobs(h) == {h[i] : i \in 1..Len(h)}
-----------------------------------------------------------------------------
(* priorityQueue and container/heap.                                       *)

\* Higher priority first, then the older job.
Less(a, b) ==
  \/ a.priority > b.priority
  \/ a.priority = b.priority /\ a.added < b.added

Swap(h, i, j) == [h EXCEPT ![i] = h[j], ![j] = h[i]]

\* The variables of up's and down's loops: the array, and where the job that
\* moves is.
Moving(h, i) == [jobs |-> h, at |-> i]

\* A turn of up: the job rises if it precedes its parent.
Rise(m) ==
  LET parent == m.at \div 2
  IN  IF m.at > 1 /\ Less(m.jobs[m.at], m.jobs[parent])
      THEN Moving(Swap(m.jobs, m.at, parent), parent)
      ELSE m

\* The child of i among the first n jobs that precedes its sibling.
FirstChild(h, i, n) ==
  IF 2 * i + 1 <= n /\ Less(h[2 * i + 1], h[2 * i]) THEN 2 * i + 1 ELSE 2 * i

\* A turn of down: the job sinks, within the first n, if a child precedes it.
Sink(m, n) ==
  LET child == FirstChild(m.jobs, m.at, n)
  IN  IF 2 * m.at <= n /\ Less(m.jobs[child], m.jobs[m.at])
      THEN Moving(Swap(m.jobs, m.at, child), child)
      ELSE m

\* The loops end within as many turns as there are jobs; a turn that moves
\* nothing is the last one.
Rising(h, i) ==
  LET turn[k \in 0 .. Len(h)] == IF k = 0 THEN Moving(h, i) ELSE Rise(turn[k - 1])
  IN  turn

Sinking(h, i, n) ==
  LET turn[k \in 0 .. Len(h)] == IF k = 0 THEN Moving(h, i) ELSE Sink(turn[k - 1], n)
  IN  turn

Up(h, i) == Rising(h, i)[Len(h)].jobs

Down(h, i, n) == Sinking(h, i, n)[Len(h)]

HeapPush(h, job) == Up(Append(h, job), Len(h) + 1)

Front(h) == SubSeq(h, 1, Len(h) - 1)

\* Faulty variant: after the swap the moved job can only sink.
HeapRemoveDownOnly(h, i) ==
  LET n == Len(h)
  IN  IF i = n THEN Front(h) ELSE Front(Down(Swap(h, i, n), i, n - 1).jobs)

\* Faulty variant: the removed job, still in the last place, is compared too.
HeapRemoveOffByOne(h, i) ==
  LET n == Len(h)
  IN  IF i = n THEN Front(h) ELSE Front(Down(Swap(h, i, n), i, n).jobs)

\* heap.Remove: the last job takes the place of the i-th, then sinks or, if it
\* has not, rises.
HeapRemove(h, i) ==
  LET n     == Len(h)
      moved == Swap(h, i, n)
      sunk  == Down(moved, i, n - 1)
  IN  IF i = n THEN Front(h)
      ELSE Front(IF sunk.at > i THEN sunk.jobs ELSE Up(moved, i))
-----------------------------------------------------------------------------
(* The operations of the queue manager.                                    *)

Init == heap = <<>> /\ clock = 0

\* Faulty variant: the limit is compared after the push would have happened.
EnqueueOffByOne(isArchive, priority) ==
  /\ clock < MaxJobs
  /\ Len(heap) <= MaxQueueSize
  /\ clock' = clock + 1
  /\ heap' = HeapPush(heap, [isArchive |-> isArchive,
                             priority  |-> priority,
                             added     |-> clock + 1])

Enqueue(isArchive, priority) ==
  /\ clock < MaxJobs
  /\ Len(heap) < MaxQueueSize
  /\ clock' = clock + 1
  /\ heap' = HeapPush(heap, [isArchive |-> isArchive,
                             priority  |-> priority,
                             added     |-> clock + 1])

IndicesOf(isArchive) == {i \in 1..Len(heap) : heap[i].isArchive = isArchive}

\* Faulty variant: the scan runs from the end of the array.
LastOf(isArchive) ==
  CHOOSE i \in IndicesOf(isArchive) : \A j \in IndicesOf(isArchive) : i >= j

\* The scan stops at the first job of the kind.
FirstOf(isArchive) ==
  CHOOSE i \in IndicesOf(isArchive) : \A j \in IndicesOf(isArchive) : i <= j

ProcessNext(isArchive) ==
  /\ IndicesOf(isArchive) # {}
  /\ heap' = HeapRemove(heap, FirstOf(isArchive))
  /\ UNCHANGED clock

Next ==
  \/ \E isArchive \in BOOLEAN, priority \in Priorities : Enqueue(isArchive, priority)
  \/ \E isArchive \in BOOLEAN : ProcessNext(isArchive)

Spec == Init /\ [][Next]_vars
-----------------------------------------------------------------------------
(* Properties.                                                             *)

\* Every variable has its type.
TypeOK ==
  /\ heap \in Seq(HeapJob)
  /\ Len(heap) <= MaxQueueSize
  /\ clock \in 0..MaxJobs

\* No job precedes its parent, also after removals from the middle of the
\* array, which the scan of processNextJob makes all the time.
HeapOrdered == \A i \in 2..Len(heap) : ~Less(heap[i], heap[i \div 2])

\* What a step removes: at most one job.
Taken == Jobs(heap) \ Jobs(heap')

\* The array always holds what QueueManager's set holds: a step adds one new
\* job, or takes away the job the scan stopped at, and whatever heap.Push and
\* heap.Remove move around, no job is lost or doubled.
ChangesOneJob ==
  [][\/ /\ Len(heap') = Len(heap) + 1
        /\ \E job \in HeapJob : job.added = clock' /\ Jobs(heap') = Jobs(heap) \cup {job}
     \/ /\ Len(heap') = Len(heap) - 1
        /\ \E job \in Jobs(heap) :
             /\ Jobs(heap') = Jobs(heap) \ {job}
             /\ \A i \in IndicesOf(job.isArchive) :
                  \E j \in 1..i : heap[j] = job]_heap

\* What the order is worth to a job: when the most urgent job of the whole
\* queue is of the worker's kind, the worker takes that one.
MostUrgentServed ==
  [][\A job \in Taken :
       heap[1].isArchive = job.isArchive =>
         \A other \in Jobs(heap) : ~Less(other, job)]_heap

\* What the comment at Less and the package comment ("supports priority-based
\* queueing") let a reader expect: the job taken is the most urgent one of its
\* kind.  The scan in array order does not keep it.
UrgentFirstOfKind ==
  [][\A job \in Taken : \A other \in Jobs(heap) :
       other.isArchive = job.isArchive => ~Less(other, job)]_heap
=============================================================================
