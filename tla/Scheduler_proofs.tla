-------------------------- MODULE Scheduler_proofs --------------------------
(***************************************************************************)
(* What the scheduler's steps keep, for any number of repositories and     *)
(* schedules, hours, days and terms.  MigrationServer_proofs puts it       *)
(* together with the migrator's steps.                                     *)
(*                                                                         *)
(* The sum of EveryScheduleAccounted is not inductive.  It follows from    *)
(* sets that are disjoint, and these from numbers that are given once: two *)
(* repositories never wait with the same number, nor do two goroutines     *)
(* run with it.                                                            *)
(***************************************************************************)
EXTENDS Scheduler, TLAPS, FiniteSetTheorems

\* A number is that of one goroutine, and a goroutine that has called
\* StartMigration has its number among the fired ones.
StartsNumbered ==
  /\ \A start, other \in starts : start.number = other.number => start = other
  /\ \A start \in starts : start.pc = "delete" => start.number \in fired

\* A number is that of one waiting repository.
SchedulesNumbered ==
  \A repository, other \in Waiting :
    schedules[repository].number = schedules[other].number => repository = other

\* A goroutine that was always the only one of its repository has its cancel
\* function in place.
FuncsKept ==
  \A start \in starts :
    start.number \notin crowded =>
      /\ cancelFuncs[start.repository] = start.number
      /\ \A other \in starts : other.repository = start.repository => other = start

Disjoint(a, b) == a \cap b = {}

\* Every number given is in one place.
NumbersApart ==
  LET waiting == NumbersOf(Waiting)
  IN /\ waiting \cup Calling \cup fired \cup dropped = 1 .. scheduled
     /\ Disjoint(waiting, Calling) /\ Disjoint(waiting, fired) /\ Disjoint(waiting, dropped)
     /\ Disjoint(Calling, fired) /\ Disjoint(Calling, dropped) /\ Disjoint(fired, dropped)

SchedulerInv ==
  SchedulerTypeOK /\ StartsNumbered /\ SchedulesNumbered /\ NumbersApart /\ FuncsKept
-----------------------------------------------------------------------------
(* What the invariant says.                                                *)

\* Two sets without a common element.
LEMMA TwoDisjointSum ==
  ASSUME NEW a, NEW b, IsFiniteSet(a), IsFiniteSet(b), Disjoint(a, b)
  PROVE  /\ IsFiniteSet(a \cup b)
         /\ Cardinality(a \cup b) = Cardinality(a) + Cardinality(b)
<1>1. Cardinality(a \cap b) = 0
  BY FS_EmptySet DEF Disjoint
<1>2. Cardinality(a) \in Nat /\ Cardinality(b) \in Nat
  BY FS_CardinalityType
<1>3. /\ IsFiniteSet(a \cup b)
      /\ Cardinality(a \cup b) = Cardinality(a) + Cardinality(b) - Cardinality(a \cap b)
  BY FS_Union
<1> QED
  BY <1>1, <1>2, <1>3

\* Four sets without a common element have as many elements together as they
\* have one by one.
LEMMA DisjointSum ==
  ASSUME NEW a, NEW b, NEW c, NEW d,
         IsFiniteSet(a), IsFiniteSet(b), IsFiniteSet(c), IsFiniteSet(d),
         Disjoint(a, b), Disjoint(a, c), Disjoint(a, d),
         Disjoint(b, c), Disjoint(b, d), Disjoint(c, d)
  PROVE  Cardinality(a) + Cardinality(b) + Cardinality(c) + Cardinality(d)
           = Cardinality(a \cup b \cup c \cup d)
<1>1. /\ IsFiniteSet(a \cup b)
      /\ Cardinality(a \cup b) = Cardinality(a) + Cardinality(b)
  BY TwoDisjointSum
<1>2. /\ IsFiniteSet(c \cup d)
      /\ Cardinality(c \cup d) = Cardinality(c) + Cardinality(d)
  BY TwoDisjointSum
<1>3. Disjoint(a \cup b, c \cup d)
  BY DEF Disjoint
<1>4. Cardinality((a \cup b) \cup (c \cup d)) = Cardinality(a \cup b) + Cardinality(c \cup d)
  BY <1>1, <1>2, <1>3, TwoDisjointSum
<1>5. (a \cup b) \cup (c \cup d) = a \cup b \cup c \cup d
  OBVIOUS
<1>6. /\ Cardinality(a) \in Nat /\ Cardinality(b) \in Nat
      /\ Cardinality(c) \in Nat /\ Cardinality(d) \in Nat
  BY FS_CardinalityType
<1>7. Cardinality(a \cup b \cup c \cup d) = Cardinality(a \cup b) + Cardinality(c \cup d)
  BY <1>4, <1>5
<1> QED
  BY <1>1, <1>2, <1>6, <1>7

\* Every schedule is in one place.
LEMMA NumbersCounted == SchedulerInv => EveryScheduleAccounted
<1> SUFFICES ASSUME SchedulerInv PROVE EveryScheduleAccounted
  OBVIOUS
<1> DEFINE waiting == NumbersOf(Waiting)
<1>1. /\ waiting \cup Calling \cup fired \cup dropped = 1 .. scheduled
      /\ Disjoint(waiting, Calling) /\ Disjoint(waiting, fired) /\ Disjoint(waiting, dropped)
      /\ Disjoint(Calling, fired) /\ Disjoint(Calling, dropped) /\ Disjoint(fired, dropped)
  BY DEF SchedulerInv, NumbersApart
<1>2. scheduled \in Nat
  BY SchedulerAssumption DEF SchedulerInv, SchedulerTypeOK
<1>3. IsFiniteSet(1 .. scheduled) /\ Cardinality(1 .. scheduled) = scheduled
  BY <1>2, FS_Interval
<1> HIDE DEF waiting
<1>4. /\ waiting \in SUBSET (1 .. scheduled) /\ Calling \in SUBSET (1 .. scheduled)
      /\ fired \in SUBSET (1 .. scheduled) /\ dropped \in SUBSET (1 .. scheduled)
  <2> DEFINE all == 1 .. scheduled
  <2>1. waiting \cup Calling \cup fired \cup dropped = all
    BY <1>1
  <2> HIDE DEF all
  <2>2. /\ waiting \in SUBSET all /\ Calling \in SUBSET all
        /\ fired \in SUBSET all /\ dropped \in SUBSET all
    BY <2>1
  <2> QED
    BY <2>2 DEF all
<1>5. \A numbers \in SUBSET (1 .. scheduled) : IsFiniteSet(numbers)
  BY <1>3, FS_Subset
<1>6. /\ IsFiniteSet(waiting) /\ IsFiniteSet(Calling)
      /\ IsFiniteSet(fired) /\ IsFiniteSet(dropped)
  BY <1>4, <1>5
<1>7. Cardinality(waiting) + Cardinality(Calling) + Cardinality(fired) + Cardinality(dropped)
        = scheduled
  <2>1. Cardinality(waiting) + Cardinality(Calling) + Cardinality(fired) + Cardinality(dropped)
          = Cardinality(waiting \cup Calling \cup fired \cup dropped)
    BY <1>1, <1>6, DisjointSum
  <2> QED
    BY <2>1, <1>1, <1>3
<1> QED
  BY <1>1, <1>7 DEF EveryScheduleAccounted, waiting

LEMMA SchedulerInitInv == SchedulerInit => SchedulerInv
<1> SUFFICES ASSUME SchedulerInit PROVE SchedulerInv
  OBVIOUS
<1> USE DEF SchedulerInit
<1>1. SchedulerTypeOK
  BY SchedulerAssumption DEF SchedulerTypeOK, NoSchedules, NoFuncs
<1>2. Waiting = {} /\ Calling = {} /\ NumbersOf(Waiting) = {}
  BY DEF Waiting, Calling, NumbersOf, NoSchedules
<1>3. StartsNumbered /\ SchedulesNumbered /\ FuncsKept
  BY <1>2 DEF StartsNumbered, SchedulesNumbered, FuncsKept
<1>4. NumbersApart
  BY <1>2 DEF NumbersApart, Disjoint
<1> QED
  BY <1>1, <1>3, <1>4 DEF SchedulerInv
-----------------------------------------------------------------------------
(* Steps that leave every schedule where it is.                            *)

\* The end of the loop, the start of a scheduler and whatever is not the
\* scheduler's.
LEMMA LoopInv ==
  ASSUME SchedulerInv, loop' \in {"running", "ending", "ended"},
         UNCHANGED <<schedules, cancelFuncs, starts, scheduled, fired, dropped, crowded>>
  PROVE  SchedulerInv'
<1>1. Waiting' = Waiting /\ Calling' = Calling /\ NumbersOf(Waiting)' = NumbersOf(Waiting)
  BY DEF Waiting, Calling, NumbersOf
<1> QED
  BY <1>1 DEF SchedulerInv, SchedulerTypeOK, StartsNumbered, SchedulesNumbered, NumbersApart,
     FuncsKept

\* Stop cancels what it finds; every goroutine goes on.
LEMMA StopInv ==
  ASSUME SchedulerInv, Stop
  PROVE  SchedulerInv'
<1> DEFINE Stopped(start) ==
      [start EXCEPT !.cancelled = cancelFuncs[start.repository] = start.number]
<1>1. /\ SchedulerTypeOK /\ StartsNumbered /\ SchedulesNumbered /\ NumbersApart /\ FuncsKept
      /\ starts \subseteq Start
  BY DEF SchedulerInv, SchedulerTypeOK
<1>2. /\ loop' = "ending" /\ starts' = {Stopped(start) : start \in starts}
      /\ UNCHANGED <<schedules, cancelFuncs, scheduled, fired, dropped, crowded>>
  BY DEF Stop
<1>3. \A start \in Start :
        /\ Stopped(start) \in Start
        /\ Stopped(start).number = start.number /\ Stopped(start).pc = start.pc
        /\ Stopped(start).repository = start.repository
  BY DEF Start
<1> HIDE DEF Stopped
<1>4. SchedulerTypeOK'
  BY <1>1, <1>2, <1>3 DEF SchedulerTypeOK
<1>5. StartsNumbered' /\ FuncsKept'
  BY <1>1, <1>2, <1>3 DEF StartsNumbered, FuncsKept
<1>6. Calling' = Calling
  <2>1. {s \in starts' : s.pc = "call"} = {Stopped(s) : s \in {t \in starts : t.pc = "call"}}
    BY <1>1, <1>2, <1>3
  <2> QED
    BY <2>1, <1>1, <1>3 DEF Calling
<1>7. Waiting' = Waiting /\ NumbersOf(Waiting)' = NumbersOf(Waiting)
  BY <1>2 DEF Waiting, NumbersOf
<1>8. SchedulesNumbered' /\ NumbersApart'
  BY <1>1, <1>2, <1>6, <1>7 DEF SchedulesNumbered, NumbersApart
<1> QED
  BY <1>4, <1>5, <1>8 DEF SchedulerInv

\* Stop reaches every call that still has its cancel function in place.
LEMMA StopReaches ==
  ASSUME SchedulerInv, Stop, NEW start \in starts, start.number \notin crowded
  PROVE  \E reached \in starts' : reached.number = start.number /\ reached.cancelled
<1>1. start \in Start /\ cancelFuncs[start.repository] = start.number
  BY DEF SchedulerInv, SchedulerTypeOK, FuncsKept
<1>2. [start EXCEPT !.cancelled = cancelFuncs[start.repository] = start.number] \in starts'
  BY DEF Stop
<1>3. [start EXCEPT !.cancelled = cancelFuncs[start.repository] = start.number]
        = [start EXCEPT !.cancelled = TRUE]
  BY <1>1
<1>4. LET reached == [start EXCEPT !.cancelled = TRUE]
      IN reached.number = start.number /\ reached.cancelled
  BY <1>1 DEF Start
<1> QED
  BY <1>2, <1>3, <1>4

LEMMA BecomeDueInv ==
  ASSUME SchedulerInv, NEW repository, BecomeDue(repository)
  PROVE  SchedulerInv'
<1> DEFINE due == [schedules[repository] EXCEPT !.due = TRUE]
<1>1. /\ repository \in Repositories /\ schedules[repository] \in Schedule
      /\ schedules \in [Repositories -> Schedule \cup {NoSchedule}]
  BY DEF BecomeDue, Waiting, SchedulerInv, SchedulerTypeOK
<1>2. due \in Schedule /\ due.number = schedules[repository].number
  BY <1>1 DEF Schedule
<1>3. schedules' = [schedules EXCEPT ![repository] = due]
  BY DEF BecomeDue
<1> HIDE DEF due
<1>4. /\ schedules' \in [Repositories -> Schedule \cup {NoSchedule}]
      /\ \A r \in Repositories :
           /\ schedules'[r] # NoSchedule <=> schedules[r] # NoSchedule
           /\ schedules'[r].number = schedules[r].number
  BY <1>1, <1>2, <1>3, NoScheduleAssumption
<1>5. Waiting' = Waiting /\ Waiting \subseteq Repositories
  BY <1>4 DEF Waiting
<1>6. NumbersOf(Waiting)' = NumbersOf(Waiting) /\ Calling' = Calling
  BY <1>4, <1>5 DEF NumbersOf, Calling, BecomeDue
<1>7. SchedulesNumbered'
  BY <1>4, <1>5 DEF SchedulerInv, SchedulesNumbered
<1>8. UNCHANGED <<loop, cancelFuncs, starts, scheduled, fired, dropped, crowded>>
  BY DEF BecomeDue
<1> QED
  BY <1>4, <1>6, <1>7, <1>8 DEF SchedulerInv, SchedulerTypeOK, StartsNumbered, NumbersApart,
     FuncsKept
-----------------------------------------------------------------------------
(* Steps that move schedules.                                              *)

\* A new number waits; the one it replaces, if any, is dropped.
LEMMA ScheduleMigrationInv ==
  ASSUME SchedulerInv,
         NEW repository \in Repositories, NEW org \in Organisations, NEW terms \in Terms,
         ScheduleMigration(repository, org, terms)
  PROVE  SchedulerInv'
<1> DEFINE new == [number |-> scheduled + 1, targetOrg |-> org, terms |-> terms, due |-> FALSE]
           old == NumbersOf(Waiting \cap {repository})
<1>1. /\ scheduled \in Nat /\ scheduled + 1 \in 1 .. MaxSchedules
      /\ scheduled' = scheduled + 1
      /\ schedules \in [Repositories -> Schedule \cup {NoSchedule}]
  BY SchedulerAssumption DEF ScheduleMigration, SchedulerInv, SchedulerTypeOK
<1>2. new \in Schedule /\ new.number = scheduled + 1
  BY <1>1 DEF Schedule
<1>3. /\ schedules' = [schedules EXCEPT ![repository] = new]
      /\ dropped' = dropped \cup old
      /\ UNCHANGED <<loop, cancelFuncs, starts, fired, crowded>>
  BY DEF ScheduleMigration
<1> HIDE DEF new
<1>4. /\ schedules' \in [Repositories -> Schedule \cup {NoSchedule}]
      /\ schedules'[repository] = new /\ new # NoSchedule
      /\ \A r \in Repositories \ {repository} : schedules'[r] = schedules[r]
  BY <1>1, <1>2, <1>3, NoScheduleAssumption
<1>5. /\ Waiting' = Waiting \cup {repository}
      /\ Waiting \subseteq Repositories /\ Calling' = Calling
  BY <1>3, <1>4 DEF Waiting, Calling
<1>6. /\ NumbersOf(Waiting) \subseteq 1 .. scheduled
      /\ old \subseteq NumbersOf(Waiting)
      /\ \A r \in Waiting \ {repository} : schedules[r].number \notin old
  BY DEF SchedulerInv, NumbersApart, NumbersOf, SchedulesNumbered
<1>7. SchedulesNumbered'
  <2> SUFFICES ASSUME NEW r \in Waiting', NEW other \in Waiting',
                      schedules'[r].number = schedules'[other].number
               PROVE  r = other
    BY DEF SchedulesNumbered
  <2>1. \A w \in Waiting \ {repository} :
          schedules'[w].number = schedules[w].number /\ schedules[w].number \in 1 .. scheduled
    BY <1>4, <1>5, <1>6 DEF NumbersOf
  <2>2. \A w \in Waiting \ {repository} : schedules'[w].number # schedules'[repository].number
    BY <2>1, <1>1, <1>2, <1>4
  <2>3. CASE r # repository /\ other # repository
    BY <2>3, <2>1, <1>5 DEF SchedulerInv, SchedulesNumbered
  <2> QED
    BY <2>2, <2>3, <1>5
<1>8. NumbersOf(Waiting)' = (NumbersOf(Waiting) \ old) \cup {scheduled + 1}
  <2>1. \A r \in Waiting : r = repository => schedules[r].number \in old
    BY DEF NumbersOf
  <2> QED
    BY <2>1, <1>2, <1>4, <1>5, <1>6 DEF NumbersOf
<1>9. NumbersApart'
  <2> DEFINE waiting == NumbersOf(Waiting)
  <2>1. /\ waiting \cup Calling \cup fired \cup dropped = 1 .. scheduled
        /\ Disjoint(waiting, Calling) /\ Disjoint(waiting, fired) /\ Disjoint(waiting, dropped)
        /\ Disjoint(Calling, fired) /\ Disjoint(Calling, dropped) /\ Disjoint(fired, dropped)
    BY DEF SchedulerInv, NumbersApart
  <2>2. /\ scheduled + 1 \notin 1 .. scheduled
        /\ 1 .. scheduled' = (1 .. scheduled) \cup {scheduled + 1}
    BY <1>1
  <2>3. /\ waiting' = (waiting \ old) \cup {scheduled + 1} /\ old \subseteq waiting
        /\ Calling' = Calling /\ fired' = fired /\ dropped' = dropped \cup old
    BY <1>3, <1>5, <1>6, <1>8
  <2> HIDE DEF waiting, old
  <2>4. waiting' \cup Calling' \cup fired' \cup dropped' = 1 .. scheduled'
    BY <2>1, <2>2, <2>3
  <2>5. /\ Disjoint(waiting', Calling') /\ Disjoint(waiting', fired')
        /\ Disjoint(waiting', dropped')
    BY <2>1, <2>2, <2>3 DEF Disjoint
  <2>6. Disjoint(Calling', fired') /\ Disjoint(Calling', dropped') /\ Disjoint(fired', dropped')
    BY <2>1, <2>3 DEF Disjoint
  <2> QED
    BY <2>4, <2>5, <2>6 DEF NumbersApart, waiting
<1>10. SchedulerTypeOK'
  <2>1. old \subseteq 1 .. MaxSchedules
    BY <1>1, <1>6, SchedulerAssumption
  <2>2. scheduled' \in 0 .. MaxSchedules
    BY <1>1
  <2> HIDE DEF old
  <2>3. dropped' \subseteq 1 .. MaxSchedules
    BY <2>1, <1>3 DEF SchedulerInv, SchedulerTypeOK
  <2> QED
    BY <2>2, <2>3, <1>3, <1>4 DEF SchedulerInv, SchedulerTypeOK
<1>11. StartsNumbered' /\ FuncsKept'
  BY <1>3 DEF SchedulerInv, StartsNumbered, FuncsKept
<1> QED
  BY <1>7, <1>9, <1>10, <1>11 DEF SchedulerInv

\* The schedules that are ready are with the goroutines; whichever they are.
LEMMA CheckSchedulesInv ==
  ASSUME SchedulerInv, NEW day, NEW hour, CheckSchedules(day, hour)
  PROVE  SchedulerInv'
<1> DEFINE ready == Ready(day, hour)
           StartOf(r) == [repository |-> r, number |-> schedules[r].number,
                          targetOrg |-> schedules[r].targetOrg, pc |-> "call",
                          cancelled |-> FALSE]
<1>1. ready \subseteq Waiting
  BY DEF Ready
<1>2. /\ schedules' = [r \in Repositories |-> IF r \in ready THEN NoSchedule ELSE schedules[r]]
      /\ cancelFuncs' = [r \in Repositories |-> IF r \in ready THEN schedules[r].number
                                               ELSE cancelFuncs[r]]
      /\ starts' = starts \cup {StartOf(r) : r \in ready}
      /\ crowded' = crowded \cup Crowded(ready)
      /\ UNCHANGED <<loop, scheduled, fired, dropped>>
  BY DEF CheckSchedules, NewStarts
<1> HIDE DEF ready
<1>3. /\ SchedulerTypeOK /\ StartsNumbered /\ SchedulesNumbered /\ FuncsKept
      /\ Waiting \subseteq Repositories
      /\ \A r \in Waiting : schedules[r] \in Schedule
  BY DEF SchedulerInv, SchedulerTypeOK, Waiting
<1>4. \A r \in ready :
        /\ r \in Repositories
        /\ StartOf(r) \in Start /\ StartOf(r).number = schedules[r].number
        /\ StartOf(r).pc = "call" /\ StartOf(r).repository = r
        /\ schedules[r].number \in 1 .. MaxSchedules
  BY <1>1, <1>3 DEF Start, Schedule
<1>5. SchedulerTypeOK'
  <2>1. schedules' \in [Repositories -> Schedule \cup {NoSchedule}]
    BY <1>2, <1>3 DEF SchedulerTypeOK
  <2>3. cancelFuncs' \in [Repositories -> 0 .. MaxSchedules]
    <3>1. \A r \in Repositories : cancelFuncs'[r] \in 0 .. MaxSchedules
      <4>1. \A number \in 1 .. MaxSchedules : number \in 0 .. MaxSchedules
        BY SchedulerAssumption
      <4>2. \A r \in Repositories : cancelFuncs[r] \in 0 .. MaxSchedules
        BY <1>3 DEF SchedulerTypeOK
      <4> QED
        BY <4>1, <4>2, <1>2, <1>4
    <3> QED
      BY <3>1, <1>2
  <2>2. starts' \subseteq Start
    <3> HIDE DEF StartOf
    <3> QED
      BY <1>2, <1>3, <1>4 DEF SchedulerTypeOK
  <2>4. crowded' \subseteq 1 .. MaxSchedules
    <3>1. \A start \in starts : start.number \in 1 .. MaxSchedules
      BY <1>3 DEF SchedulerTypeOK, Start
    <3>2. {s.repository : s \in starts} \cap ready \subseteq ready
      OBVIOUS
    <3>3. NumbersOf({s.repository : s \in starts} \cap ready) \subseteq 1 .. MaxSchedules
      BY <3>2, <1>4 DEF NumbersOf
    <3>4. Crowded(ready) \subseteq 1 .. MaxSchedules
      <4> HIDE DEF StartOf
      <4> QED
        BY <3>1, <3>3 DEF Crowded
    <3> QED
      BY <3>4, <1>2, <1>3 DEF SchedulerTypeOK
  <2> QED
    BY <2>1, <2>2, <2>3, <2>4, <1>2, <1>3 DEF SchedulerTypeOK
<1> HIDE DEF StartOf
<1>6. /\ Waiting' = Waiting \ ready
      /\ \A r \in Waiting \ ready : schedules'[r] = schedules[r]
  BY <1>2, <1>3 DEF Waiting
<1>7. SchedulesNumbered'
  BY <1>3, <1>6 DEF SchedulesNumbered
<1>8. /\ NumbersOf(Waiting)' = NumbersOf(Waiting) \ NumbersOf(ready)
      /\ NumbersOf(ready) \subseteq NumbersOf(Waiting)
  BY <1>1, <1>3, <1>6 DEF NumbersOf, SchedulesNumbered
<1>9. Calling' = Calling \cup NumbersOf(ready)
  <2>1. Calling' = {s.number : s \in {t \in starts' : t.pc = "call"}}
    BY DEF Calling
  <2>2. {t \in starts' : t.pc = "call"}
          = {t \in starts : t.pc = "call"} \cup {StartOf(r) : r \in ready}
    BY <1>2, <1>4
  <2>3. {s.number : s \in {StartOf(r) : r \in ready}} = NumbersOf(ready)
    BY <1>4 DEF NumbersOf
  <2> QED
    BY <2>1, <2>2, <2>3 DEF Calling
<1>10. NumbersApart'
  <2> DEFINE waiting == NumbersOf(Waiting)
             moved == NumbersOf(ready)
  <2>1. /\ waiting \cup Calling \cup fired \cup dropped = 1 .. scheduled
        /\ Disjoint(waiting, Calling) /\ Disjoint(waiting, fired) /\ Disjoint(waiting, dropped)
        /\ Disjoint(Calling, fired) /\ Disjoint(Calling, dropped) /\ Disjoint(fired, dropped)
    BY DEF SchedulerInv, NumbersApart
  <2>2. /\ waiting' = waiting \ moved /\ moved \subseteq waiting
        /\ Calling' = Calling \cup moved
        /\ fired' = fired /\ dropped' = dropped /\ scheduled' = scheduled
    BY <1>2, <1>8, <1>9
  <2> HIDE DEF waiting, moved
  <2>3. waiting' \cup Calling' \cup fired' \cup dropped' = 1 .. scheduled'
    BY <2>1, <2>2
  <2>4. /\ Disjoint(waiting', Calling') /\ Disjoint(waiting', fired')
        /\ Disjoint(waiting', dropped')
    BY <2>1, <2>2 DEF Disjoint
  <2>5. Disjoint(Calling', fired') /\ Disjoint(Calling', dropped') /\ Disjoint(fired', dropped')
    BY <2>1, <2>2 DEF Disjoint
  <2> QED
    BY <2>3, <2>4, <2>5 DEF NumbersApart, waiting
<1>11. StartsNumbered'
  <2>1. \A start \in starts : start.number \in Calling \cup fired
    BY <1>3 DEF SchedulerTypeOK, Start, StartsNumbered, Calling
  <2>2. \A r \in ready : schedules[r].number \in NumbersOf(Waiting)
    BY <1>1 DEF NumbersOf
  <2>3. \A r \in ready, start \in starts : StartOf(r).number # start.number
    BY <2>1, <2>2, <1>4 DEF SchedulerInv, NumbersApart, Disjoint
  <2>4. \A r, other \in ready : StartOf(r).number = StartOf(other).number => r = other
    BY <1>1, <1>3, <1>4 DEF SchedulesNumbered
  <2>5. \A r \in ready : StartOf(r).pc # "delete"
    BY <1>4
  <2>6. \A start, other \in starts' : start.number = other.number => start = other
    BY <2>3, <2>4, <1>2, <1>3 DEF StartsNumbered
  <2> QED
    BY <2>5, <2>6, <1>2, <1>3 DEF StartsNumbered
<1>12. FuncsKept'
  <2> SUFFICES ASSUME NEW start \in starts', start.number \notin crowded'
               PROVE  /\ cancelFuncs'[start.repository] = start.number
                      /\ \A other \in starts' :
                           other.repository = start.repository => other = start
    BY DEF FuncsKept
  <2>1. \A s \in starts : s.repository \in ready =>
          s.number \in crowded' /\ schedules[s.repository].number \in crowded'
    BY <1>2 DEF Crowded, NumbersOf
  <2>2. CASE start \in starts
    <3>1. start.repository \in Repositories \ ready /\ start.number \notin crowded
      BY <2>1, <2>2, <1>2, <1>3 DEF SchedulerTypeOK, Start
    <3> QED
      BY <3>1, <2>2, <1>2, <1>3, <1>4 DEF FuncsKept
  <2>3. CASE start \notin starts
    <3>1. PICK r \in ready : start = StartOf(r)
      BY <2>3, <1>2
    <3>2. start.repository = r /\ start.number = schedules[r].number /\ r \in Repositories
      BY <3>1, <1>4
    <3>3. \A s \in starts : s.repository # r
      BY <2>1, <3>2
    <3> QED
      BY <3>1, <3>2, <3>3, <1>2, <1>4
  <2> QED
    BY <2>2, <2>3
<1> QED
  BY <1>5, <1>7, <1>10, <1>11, <1>12 DEF SchedulerInv

\* The number of the goroutine is among the fired ones from its call on.
LEMMA CallStartMigrationInv ==
  ASSUME SchedulerInv, NEW start \in starts, CallStartMigration(start)
  PROVE  SchedulerInv'
<1> DEFINE after == [start EXCEPT !.pc = "delete"]
<1>1. SchedulerTypeOK /\ StartsNumbered /\ FuncsKept /\ start \in Start /\ start.pc = "call"
  BY DEF SchedulerInv, SchedulerTypeOK, CallStartMigration
<1>2. /\ after \in Start /\ after.pc = "delete"
      /\ after.number = start.number /\ after.repository = start.repository
      /\ start.number \in 1 .. MaxSchedules
  BY <1>1 DEF Start
<1>3. /\ starts' = (starts \ {start}) \cup {after}
      /\ fired' = fired \cup {start.number}
      /\ UNCHANGED <<loop, schedules, cancelFuncs, scheduled, dropped, crowded>>
  BY DEF CallStartMigration
<1> HIDE DEF after
<1>4. SchedulerTypeOK'
  BY <1>1, <1>2, <1>3 DEF SchedulerTypeOK
<1>5. StartsNumbered'
  BY <1>1, <1>2, <1>3 DEF StartsNumbered
<1>6. FuncsKept'
  BY <1>1, <1>2, <1>3 DEF FuncsKept
<1>7. Waiting' = Waiting /\ NumbersOf(Waiting)' = NumbersOf(Waiting)
  BY <1>3 DEF Waiting, NumbersOf
<1>8. Calling' = Calling \ {start.number} /\ start.number \in Calling
  <2>1. start.number \in Calling
    BY <1>1 DEF Calling
  <2>2. \A s \in starts \ {start} : s.number # start.number
    BY <1>1 DEF StartsNumbered
  <2>3. {s \in starts' : s.pc = "call"} = {s \in starts : s.pc = "call"} \ {start}
    BY <1>2, <1>3
  <2> QED
    BY <2>1, <2>2, <2>3 DEF Calling
<1>9. NumbersApart'
  <2> DEFINE waiting == NumbersOf(Waiting)
  <2>1. /\ waiting \cup Calling \cup fired \cup dropped = 1 .. scheduled
        /\ Disjoint(waiting, Calling) /\ Disjoint(waiting, fired) /\ Disjoint(waiting, dropped)
        /\ Disjoint(Calling, fired) /\ Disjoint(Calling, dropped) /\ Disjoint(fired, dropped)
    BY DEF SchedulerInv, NumbersApart
  <2>2. /\ waiting' = waiting /\ start.number \in Calling
        /\ Calling' = Calling \ {start.number} /\ fired' = fired \cup {start.number}
        /\ dropped' = dropped /\ scheduled' = scheduled
    BY <1>3, <1>7, <1>8
  <2> HIDE DEF waiting
  <2>3. waiting' \cup Calling' \cup fired' \cup dropped' = 1 .. scheduled'
    BY <2>1, <2>2
  <2>4. /\ Disjoint(waiting', Calling') /\ Disjoint(waiting', fired')
        /\ Disjoint(waiting', dropped')
    BY <2>1, <2>2 DEF Disjoint
  <2>5. Disjoint(Calling', fired') /\ Disjoint(Calling', dropped') /\ Disjoint(fired', dropped')
    BY <2>1, <2>2 DEF Disjoint
  <2> QED
    BY <2>3, <2>4, <2>5 DEF NumbersApart, waiting
<1>10. SchedulesNumbered'
  BY <1>3, <1>7 DEF SchedulerInv, SchedulesNumbered
<1> QED
  BY <1>4, <1>5, <1>6, <1>9, <1>10 DEF SchedulerInv

\* The cancel function that is deleted is that of a goroutine that was not
\* alone, or of the one that ends.
LEMMA DeleteCancelFuncInv ==
  ASSUME SchedulerInv, NEW start \in starts, DeleteCancelFunc(start)
  PROVE  SchedulerInv'
<1>1. /\ SchedulerTypeOK /\ StartsNumbered /\ FuncsKept
      /\ start \in Start /\ start.pc = "delete"
      /\ starts' = starts \ {start}
      /\ cancelFuncs' = [cancelFuncs EXCEPT ![start.repository] = 0]
      /\ UNCHANGED <<loop, schedules, scheduled, fired, dropped, crowded>>
  BY DEF SchedulerInv, SchedulerTypeOK, DeleteCancelFunc
<1>2. SchedulerTypeOK'
  <2>1. 0 \in 0 .. MaxSchedules
    BY SchedulerAssumption
  <2>2. cancelFuncs' \in [Repositories -> 0 .. MaxSchedules]
    BY <2>1, <1>1 DEF SchedulerTypeOK
  <2> QED
    BY <2>2, <1>1 DEF SchedulerTypeOK
<1>3. StartsNumbered'
  BY <1>1 DEF StartsNumbered
<1>4. FuncsKept'
  <2> SUFFICES ASSUME NEW s \in starts', s.number \notin crowded
               PROVE  /\ cancelFuncs'[s.repository] = s.number
                      /\ \A other \in starts' : other.repository = s.repository => other = s
    BY <1>1 DEF FuncsKept
  <2>1. s \in starts /\ s \in Start /\ s.repository # start.repository
    BY <1>1 DEF FuncsKept, SchedulerTypeOK
  <2>2. cancelFuncs'[s.repository] = cancelFuncs[s.repository]
    BY <2>1, <1>1 DEF SchedulerTypeOK, Start
  <2> QED
    BY <2>1, <2>2, <1>1 DEF FuncsKept
<1>5. {s \in starts' : s.pc = "call"} = {s \in starts : s.pc = "call"}
  BY <1>1
<1>6. Waiting' = Waiting /\ NumbersOf(Waiting)' = NumbersOf(Waiting) /\ Calling' = Calling
  BY <1>1, <1>5 DEF Waiting, NumbersOf, Calling
<1>7. NumbersApart' /\ SchedulesNumbered'
  BY <1>1, <1>6 DEF SchedulerInv, NumbersApart, SchedulesNumbered
<1> QED
  BY <1>2, <1>3, <1>4, <1>7 DEF SchedulerInv

\* What waited or was about to be called is lost.
LEMMA LoseSchedulesInv ==
  ASSUME SchedulerInv, LoseSchedules
  PROVE  SchedulerInv'
<1>1. /\ SchedulerTypeOK
      /\ schedules' = NoSchedules /\ cancelFuncs' = NoFuncs /\ starts' = {} /\ loop' = "ended"
      /\ dropped' = dropped \cup NumbersOf(Waiting) \cup Calling
      /\ UNCHANGED <<scheduled, fired, crowded>>
  BY DEF SchedulerInv, LoseSchedules
<1>2. Waiting' = {} /\ Calling' = {} /\ NumbersOf(Waiting)' = {}
  BY <1>1 DEF Waiting, Calling, NumbersOf, NoSchedules
<1>3. NumbersOf(Waiting) \cup Calling \subseteq 1 .. MaxSchedules
  BY SchedulerAssumption DEF SchedulerInv, NumbersApart, SchedulerTypeOK
<1>4. SchedulerTypeOK'
  <2>1. /\ NoSchedules \in [Repositories -> Schedule \cup {NoSchedule}]
        /\ NoFuncs \in [Repositories -> 0 .. MaxSchedules]
    BY SchedulerAssumption DEF NoSchedules, NoFuncs
  <2>2. dropped' \subseteq 1 .. MaxSchedules
    BY <1>1, <1>3 DEF SchedulerTypeOK
  <2> QED
    BY <2>1, <2>2, <1>1 DEF SchedulerTypeOK
<1>5. StartsNumbered' /\ SchedulesNumbered' /\ FuncsKept'
  BY <1>1, <1>2 DEF StartsNumbered, SchedulesNumbered, FuncsKept
<1>6. NumbersApart'
  BY <1>1, <1>2 DEF SchedulerInv, NumbersApart, Disjoint
<1> QED
  BY <1>4, <1>5, <1>6 DEF SchedulerInv
=============================================================================
