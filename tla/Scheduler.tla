----------------------------- MODULE Scheduler ------------------------------
(***************************************************************************)
(* Scheduled migrations: internal/scheduler/scheduler.go.                  *)
(*                                                                         *)
(* Schedules live in memory, one per repository.  A ticker's loop holds    *)
(* s.mu while it looks at all of them; one that is due and allowed at that *)
(* time of that day is removed, and a goroutine calls StartMigration for   *)
(* it.  The cancel function of that call is kept under the repository's    *)
(* name and deleted by that name when the call returns, which is as soon   *)
(* as it has started the attempt: Stop can cancel until then.              *)
(*                                                                         *)
(* An hour of Hours stands for a minute of the day, and a check may find   *)
(* any hour of any day: the clock is not part of the state.                *)
(***************************************************************************)
EXTENDS MigrationRequests, Naturals, FiniteSets

CONSTANTS
  Hours,         \* the times of day are 0 .. Hours - 1
  Days,          \* the days of the week
  Terms,         \* the time windows and days that requests can name
  NoWindow,      \* a request without a time window
  NoSchedule,    \* the schedule of a repository that has none
  MaxSchedules   \* bound: requests to schedule a migration

Windows == [start : 0 .. Hours - 1, end : 0 .. Hours - 1] \cup {NoWindow}

ASSUME SchedulerAssumption ==
  /\ Hours \in Nat \ {0}
  /\ Terms \subseteq [window : Windows, days : SUBSET Days]
  /\ MaxSchedules \in Nat

Schedule == [number : 1 .. MaxSchedules, targetOrg : Organisations,
             terms : Terms, due : BOOLEAN]

ASSUME NoScheduleAssumption == NoSchedule \notin Schedule

\* A goroutine of checkSchedules: about to call StartMigration, or to delete
\* the cancel function.
Start == [repository : Repositories, number : 1 .. MaxSchedules,
          targetOrg : Organisations, pc : {"call", "delete"}, cancelled : BOOLEAN]

VARIABLES
  loop,         \* the loop of run: "running", "ending" once done is closed, or "ended"
  schedules,    \* s.schedules
  cancelFuncs,  \* s.cancelFuncs, by the number of the schedule they were made for
  starts,       \* the goroutines of checkSchedules
  scheduled,    \* requests to schedule so far
  fired,        \* the schedules StartMigration was called for (history)
  dropped,      \* the schedules replaced, or lost with the process (history)
  crowded       \* those whose goroutine was not the only one of its repository (history)

schedulerVars ==
  <<loop, schedules, cancelFuncs, starts, scheduled, fired, dropped, crowded>>

SchedulerTypeOK ==
  /\ loop \in {"running", "ending", "ended"}
  /\ schedules \in [Repositories -> Schedule \cup {NoSchedule}]
  /\ cancelFuncs \in [Repositories -> 0 .. MaxSchedules]
  /\ starts \subseteq Start
  /\ scheduled \in 0 .. MaxSchedules
  /\ fired \subseteq 1 .. MaxSchedules
  /\ dropped \subseteq 1 .. MaxSchedules
  /\ crowded \subseteq 1 .. MaxSchedules

NoSchedules == [repository \in Repositories |-> NoSchedule]
NoFuncs == [repository \in Repositories |-> 0]

SchedulerInit ==
  /\ loop = "running"
  /\ schedules = NoSchedules
  /\ cancelFuncs = NoFuncs
  /\ starts = {}
  /\ scheduled = 0
  /\ fired = {}
  /\ dropped = {}
  /\ crowded = {}

Waiting == {repository \in Repositories : schedules[repository] # NoSchedule}
Calling == {start.number : start \in {s \in starts : s.pc = "call"}}
NumbersOf(repositories) == {schedules[repository].number : repository \in repositories}
-----------------------------------------------------------------------------
(* The calendar.                                                           *)

\* Faulty variant: a window cannot span midnight.
IsWithinDay(hour, window) ==
  window = NoWindow \/ (hour > window.start /\ hour < window.end)

\* isWithinTimeWindow: both bounds are excluded; a window whose end comes
\* before its start spans midnight.
IsWithinTimeWindow(hour, window) ==
  \/ window = NoWindow
  \/ /\ window.end < window.start
     /\ hour > window.start \/ hour < window.end
  \/ /\ window.end >= window.start
     /\ hour > window.start /\ hour < window.end

\* isAllowedDayOfWeek looks at the day of the check, also after midnight.
IsAllowedDayOfWeek(day, days) == days = {} \/ day \in days

\* The schedules a check at this hour of this day starts.
Ready(day, hour) ==
  {repository \in Waiting :
     LET schedule == schedules[repository]
     IN /\ schedule.due
        /\ IsWithinTimeWindow(hour, schedule.terms.window)
        /\ IsAllowedDayOfWeek(day, schedule.terms.days)}
-----------------------------------------------------------------------------
\* A later schedule of the repository replaces the earlier one.
ScheduleMigration(repository, org, terms) ==
  /\ scheduled < MaxSchedules
  /\ scheduled' = scheduled + 1
  /\ schedules' = [schedules EXCEPT ![repository] =
       [number |-> scheduled + 1, targetOrg |-> org, terms |-> terms,
        due |-> FALSE]]
  /\ dropped' = dropped \cup NumbersOf(Waiting \cap {repository})
  /\ UNCHANGED <<loop, cancelFuncs, starts, fired, crowded>>

\* ScheduledTime passes.
BecomeDue(repository) ==
  /\ repository \in Waiting
  /\ ~schedules[repository].due
  /\ schedules' = [schedules EXCEPT ![repository].due = TRUE]
  /\ UNCHANGED <<loop, cancelFuncs, starts, scheduled, fired, dropped, crowded>>

\* The goroutines of the schedules that a check starts.
NewStarts(repositories) ==
  {[repository |-> repository, number |-> schedules[repository].number,
    targetOrg |-> schedules[repository].targetOrg, pc |-> "call", cancelled |-> FALSE] :
     repository \in repositories}

\* With these goroutines, some repositories have more than one.
Crowded(repositories) ==
  {start.number : start \in {s \in starts : s.repository \in repositories}}
    \cup NumbersOf({s.repository : s \in starts} \cap repositories)

\* Faulty variant: the schedule stays until its migration has started.
CheckSchedulesKeeping(day, hour) ==
  /\ loop \in {"running", "ending"}
  /\ Ready(day, hour) # {}
  /\ cancelFuncs' = [repository \in Repositories |->
       IF repository \in Ready(day, hour) THEN schedules[repository].number
       ELSE cancelFuncs[repository]]
  /\ starts' = starts \cup NewStarts(Ready(day, hour))
  /\ crowded' = crowded \cup Crowded(Ready(day, hour))
  /\ UNCHANGED <<loop, schedules, scheduled, fired, dropped>>

\* checkSchedules, all of it under s.mu.  A tick that is ready when done is
\* closed may still be taken: the select of run picks either.
CheckSchedules(day, hour) ==
  /\ loop \in {"running", "ending"}
  /\ Ready(day, hour) # {}
  /\ schedules' = [repository \in Repositories |->
       IF repository \in Ready(day, hour) THEN NoSchedule ELSE schedules[repository]]
  /\ cancelFuncs' = [repository \in Repositories |->
       IF repository \in Ready(day, hour) THEN schedules[repository].number
       ELSE cancelFuncs[repository]]
  /\ starts' = starts \cup NewStarts(Ready(day, hour))
  /\ crowded' = crowded \cup Crowded(Ready(day, hour))
  /\ UNCHANGED <<loop, scheduled, fired, dropped>>

\* Faulty variant: the cancel function is deleted before the call.
CallWithoutCancelFunc(start) ==
  /\ start.pc = "call"
  /\ starts' = (starts \ {start}) \cup {[start EXCEPT !.pc = "delete"]}
  /\ cancelFuncs' = [cancelFuncs EXCEPT ![start.repository] = 0]
  /\ fired' = fired \cup {start.number}
  /\ UNCHANGED <<loop, schedules, scheduled, dropped, crowded>>

\* The goroutine calls StartMigration, which returns at once, ...
CallStartMigration(start) ==
  /\ start.pc = "call"
  /\ starts' = (starts \ {start}) \cup {[start EXCEPT !.pc = "delete"]}
  /\ fired' = fired \cup {start.number}
  /\ UNCHANGED <<loop, schedules, cancelFuncs, scheduled, dropped, crowded>>

\* ... and deletes the cancel function the repository has by then.
DeleteCancelFunc(start) ==
  /\ start.pc = "delete"
  /\ starts' = starts \ {start}
  /\ cancelFuncs' = [cancelFuncs EXCEPT ![start.repository] = 0]
  /\ UNCHANGED <<loop, schedules, scheduled, fired, dropped, crowded>>

\* Stop closes done and calls the cancel functions it finds; what the loop does
\* in between it could have done before.  A context that is cancelled makes the
\* attempt of its call fail, if the call has still to make it or has made it and
\* not returned; of the attempts made before no function is left, and they go on.
\* Stop returns when the loop has ended, not when the goroutines have.
Stop ==
  /\ loop = "running"
  /\ loop' = "ending"
  /\ starts' = {[start EXCEPT !.cancelled = cancelFuncs[start.repository] = start.number] :
                  start \in starts}
  /\ UNCHANGED <<schedules, cancelFuncs, scheduled, fired, dropped, crowded>>

EndLoop ==
  /\ loop = "ending"
  /\ loop' = "ended"
  /\ UNCHANGED <<schedules, cancelFuncs, starts, scheduled, fired, dropped, crowded>>

\* The process ends; the next one starts with a scheduler of its own.
LoseSchedules ==
  /\ loop' = "ended"
  /\ schedules' = NoSchedules
  /\ cancelFuncs' = NoFuncs
  /\ starts' = {}
  /\ dropped' = dropped \cup NumbersOf(Waiting) \cup Calling
  /\ UNCHANGED <<scheduled, fired, crowded>>

NewScheduler ==
  /\ loop' = "running"
  /\ UNCHANGED <<schedules, cancelFuncs, starts, scheduled, fired, dropped, crowded>>
-----------------------------------------------------------------------------
(* Properties.                                                             *)

\* Every request to schedule a migration is in one place: it waits, a
\* goroutine is about to call StartMigration for it, that call was made, or it
\* was replaced or lost with the process (scheduler.go:226).  So none is started
\* twice, and none that was replaced is started.
EveryScheduleAccounted ==
  LET waiting == NumbersOf(Waiting)
  IN /\ waiting \cup Calling \cup fired \cup dropped = 1 .. scheduled
     /\ Cardinality(waiting) + Cardinality(Calling) + Cardinality(fired)
          + Cardinality(dropped) = scheduled

\* What Stop cancels: the attempt of every scheduled call that is about to be
\* made or has not returned, and no other, although the comments speak of
\* "migrations in progress" (scheduler.go:25, 60).  Two goroutines of one
\* repository at a time share one name: the later takes the function of the
\* earlier, which deletes that of the later.
StopReachesCalls ==
  [][loop = "running" /\ loop' = "ending" =>
       \A start \in starts :
         \/ start.number \in crowded
         \/ \E reached \in starts' :
              reached.number = start.number /\ reached.cancelled]_schedulerVars

\* The hours strictly inside a window, walking around the clock.
Inside(window) ==
  IF window = NoWindow THEN 0 .. Hours - 1
  ELSE {hour \in 0 .. Hours - 1 :
          (hour + Hours - window.start) % Hours
            \in 1 .. ((window.end + Hours - window.start) % Hours) - 1}

CanStart(schedule) ==
  /\ Inside(schedule.terms.window) # {}
  /\ schedule.terms.days = {} \/ schedule.terms.days \cap Days # {}
=============================================================================
