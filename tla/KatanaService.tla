---------------------------- MODULE KatanaService ----------------------------
(***************************************************************************)
(* The resident service of one machine: the Windows task starts the        *)
(* service manager, the manager keeps the trading scheduler (and other     *)
(* schedulers) running, the scheduler starts the market session of the     *)
(* business day and ends it at the close, and a watchdog task restarts     *)
(* everything when the manager's status file is not healthy.               *)
(*                                                                         *)
(* Of the components of the manager the trading scheduler is modelled with *)
(* its processes; the others only as running or not.  What a process keeps *)
(* in memory (its child, the exit code, the completed date) is lost with   *)
(* it; its child is not: a session whose scheduler is gone trades on.      *)
(***************************************************************************)
EXTENDS Naturals, FiniteSets

CONSTANTS Schedulers,       \* names for scheduler processes
          None,
          MaxDays,          \* bound: calendar days
          BusinessDays,     \* TokyoMarketCalendar
          MaxRestarts,      \* maximum_restarts (20 in the code)
          MaxDeaths,        \* bound: processes killed from outside
          MaxFaults         \* bound: exceptions, blocked and failed starts

ASSUME ServiceAssumption ==
  /\ {MaxDays, MaxRestarts, MaxDeaths, MaxFaults} \subseteq Nat
  /\ BusinessDays \subseteq 1..MaxDays /\ MaxDays > 0
  /\ IsFiniteSet(Schedulers) /\ None \notin Schedulers

\* The times of a day: before start_at, until 15:20, until market_close_at
\* (15:30), until stop_at (15:35), after it.
Morning == 0
Trading == 1
Eod     == 2
Closing == 3
Over    == 4

VARIABLES
  day, time,
  \* the manager, in memory
  manager,                  \* "up": process and task run, "orphan": only the process
                            \* does, "down": neither
  component,                \* state of the trading scheduler
  handle,                   \* its Popen object
  restarts,                 \* its restart_count
  others,                   \* all other components are RUNNING
  status,                   \* service_state of the status file
  \* the schedulers
  scheduler,                \* "none", "up", or how it exited: "ok", "bad"
  session,                  \* the same of the market session it started
  exit,                     \* last_exit_code: "none", "ok" or "bad"
  completed,                \* _completed_trading_date, 0 for None
  closed,                   \* days whose process log shows an exit 0 after 15:20
  watchdog,                 \* the next step of check_and_recover
  \* bounds
  deaths, faults

service   == <<manager, component, handle, restarts, others, status>>
processes == <<scheduler, session, exit, completed>>
bounds    == <<deaths, faults>>
vars      == <<day, time, service, processes, closed, watchdog, bounds>>

Init ==
  /\ day = 1 /\ time = Morning
  /\ manager = "down" /\ component = "stopped" /\ handle = None /\ restarts = 0
  /\ others = FALSE /\ status = "degraded"
  /\ scheduler = [s \in Schedulers |-> "none"] /\ session = [s \in Schedulers |-> "none"]
  /\ exit = [s \in Schedulers |-> "none"] /\ completed = [s \in Schedulers |-> 0]
  /\ closed = {} /\ watchdog = "idle" /\ deaths = 0 /\ faults = 0

Fault == faults < MaxFaults /\ faults' = faults + 1 /\ UNCHANGED deaths
Death == deaths < MaxDeaths /\ deaths' = deaths + 1 /\ UNCHANGED faults

\* The names whose process, child and exit code nobody refers to.
Unused == {s \in Schedulers : scheduler[s] = "none" /\ session[s] # "up"}

\* Processes S end with a code; only the sessions in T end with them.
Ends(S, code, T) ==
  /\ scheduler' = [s \in Schedulers |-> IF s \in S THEN code ELSE scheduler[s]]
  /\ session' = [s \in Schedulers |-> IF s \in T \/ (s \in S /\ session[s] # "up")
                                      THEN "none" ELSE session[s]]
  /\ exit' = [s \in Schedulers |-> IF s \in S THEN "none" ELSE exit[s]]
  /\ completed' = [s \in Schedulers |-> IF s \in S THEN 0 ELSE completed[s]]

Running == {s \in Schedulers : scheduler[s] = "up"}

-----------------------------------------------------------------------------
(* The manager.                                                            *)

\* write_status, with what the manager holds after the step.
WriteStatus == status' = IF component' = "running" /\ others' THEN "healthy" ELSE "degraded"

\* _start_component: the process starts, or Popen fails for good.
StartComponent ==
  \/ \E s \in Unused :
       /\ scheduler' = [scheduler EXCEPT ![s] = "up"]
       /\ handle' = s /\ component' = "running"
       /\ UNCHANGED <<session, exit, completed, bounds>>
  \/ Fault /\ component' = "failed" /\ handle' = None /\ UNCHANGED processes

\* The task is started, at the logon or again by the task scheduler: the manager
\* starts every component.  The instance lock allows one manager.
StartService ==
  /\ manager = "down"
  /\ manager' = "up" /\ restarts' = 0 /\ others' = TRUE
  /\ StartComponent /\ WriteStatus

\* A task the watchdog is ending is not started by others.
StartTask ==
  /\ watchdog = "idle" /\ StartService
  /\ UNCHANGED <<day, time, closed, watchdog>>

\* Mutant: a process that fails is always restarted.
AlwaysRestart(code, count) == code = "bad"

\* restart_on_failure within the budget.
MayRestart(code, count) == code = "bad" /\ count < MaxRestarts

\* poll_once: the exit of the process is seen; restart_count is reset if it ran
\* long enough.
PollExit ==
  /\ handle # None /\ scheduler[handle] # "up"
  /\ restarts' \in {restarts, 0}
  /\ component' = IF MayRestart(scheduler[handle], restarts') THEN "restart_wait"
                  ELSE IF scheduler[handle] = "ok" THEN "stopped" ELSE "failed"
  /\ handle' = None
  /\ scheduler' = [scheduler EXCEPT ![handle] = "none"]
  /\ UNCHANGED <<others, session, exit, completed, bounds>>

\* poll_once: it runs, and may have run long enough.
PollRunning ==
  /\ handle # None /\ scheduler[handle] = "up"
  /\ restarts' \in {restarts, 0}
  /\ UNCHANGED <<component, handle, others, processes, bounds>>

\* poll_once: the restart delay is over.
PollRestart ==
  /\ component = "restart_wait"
  /\ restarts' = restarts + 1
  /\ StartComponent /\ UNCHANGED others

PollOnce ==
  /\ manager # "down"
  /\ PollExit \/ PollRunning \/ PollRestart
  /\ WriteStatus
  /\ UNCHANGED <<manager, day, time, closed, watchdog>>

\* poll_once, for another component: it exits, or is restarted.
PollOthers ==
  /\ manager # "down"
  /\ \/ others /\ others' = FALSE /\ Fault
     \/ ~others /\ others' = TRUE /\ UNCHANGED bounds
  /\ UNCHANGED <<manager, component, handle, restarts, processes, day, time, closed, watchdog>>
  /\ WriteStatus

\* stop_all, on a signal or an exception: the tree of the process is terminated.
StopAll ==
  /\ manager # "down" /\ Fault
  /\ manager' = "down" /\ component' = "stopped" /\ handle' = None /\ restarts' = 0
  /\ Ends({handle} \intersect Schedulers, "none", {handle} \intersect Running)
  /\ WriteStatus
  /\ UNCHANGED <<others, day, time, closed, watchdog>>

\* Without its memory.
ManagerEnds ==
  /\ manager' = "down" /\ component' = "stopped" /\ handle' = None /\ restarts' = 0
  /\ others' = FALSE

ManagerDies ==
  /\ manager # "down" /\ Death /\ ManagerEnds
  /\ UNCHANGED <<status, processes, day, time, closed, watchdog>>

-----------------------------------------------------------------------------
(* The watchdog.                                                           *)

\* Mutant: a status is good enough when it is fresh.
NotFresh == manager # "up"

\* The task is not running, or its status is stale or not healthy.
Unhealthy == manager # "up" \/ status # "healthy"

\* The task wrapper is ended first; the children of the manager live on, and so may
\* the manager ("the wrapper and managed children can outlive each other").  When the
\* task still runs after task_stop_wait_seconds, nothing is recovered.
EndTask ==
  /\ watchdog = "idle" /\ Unhealthy
  /\ \/ manager # "orphan" /\ ManagerEnds /\ watchdog' = "kill" /\ UNCHANGED bounds
     \/ /\ manager # "down" /\ manager' = "orphan" /\ watchdog' = "kill"
        /\ IF manager = "up" THEN Fault ELSE UNCHANGED bounds
        /\ UNCHANGED <<component, handle, restarts, others>>
     \/ /\ manager = "up" /\ Fault
        /\ UNCHANGED <<manager, component, handle, restarts, others, watchdog>>
  /\ UNCHANGED <<status, processes, day, time, closed>>

\* Mutant: only the service manager is looked for.
KillManager ==
  /\ watchdog = "kill" /\ watchdog' = "start"
  /\ ManagerEnds
  /\ UNCHANGED <<bounds, processes, status, day, time, closed>>

\* _list_katana_process_ids names the manager and the schedulers, not the market
\* session, which ends with the tree of its scheduler; a list that fails is empty.
KillProcesses ==
  /\ watchdog = "kill" /\ watchdog' = "start"
  /\ \/ ManagerEnds /\ Ends(Running, "none", Running) /\ UNCHANGED bounds
     \/ Death /\ UNCHANGED <<manager, component, handle, restarts, others, processes>>
  /\ UNCHANGED <<status, day, time, closed>>

\* schtasks /Run, which may fail.  A manager that outlived its task keeps the instance
\* lock: the one that is started ends at once.
RunTask ==
  /\ watchdog = "start" /\ watchdog' = "idle"
  /\ \/ StartService
     \/ manager # "down" /\ UNCHANGED <<service, processes, bounds>>
     \/ Fault /\ UNCHANGED <<service, processes>>
  /\ UNCHANGED <<day, time, closed>>

-----------------------------------------------------------------------------
(* The trading scheduler: ScheduledPaperTradingController.run_once.        *)

\* _refresh_process_state: what run_once goes on with.
Held(s) == session[s] = "up"
Code(s) == IF session[s] \in {"ok", "bad"} THEN session[s] ELSE exit[s]

Refresh(s) ==
  /\ exit' = [exit EXCEPT ![s] = Code(s)]
  /\ closed' = IF session[s] = "ok" /\ time >= Eod THEN closed \union {day} ELSE closed

NoSession(s) == session' = [session EXCEPT ![s] = IF Held(s) THEN "up" ELSE "none"]

\* _stop_process: a session that still runs is terminated, with an exit code.
StopProcess(s) ==
  /\ session' = [session EXCEPT ![s] = "none"]
  /\ exit' = [exit EXCEPT ![s] = IF Held(s) THEN "bad" ELSE Code(s)]
  /\ UNCHANGED closed

\* _completed_trading_date of another day is forgotten.
Completed(s) == completed[s] = day
SetCompleted(s, b) == completed' = [completed EXCEPT ![s] = IF b THEN day ELSE 0]

ClosedDay(s) ==
  /\ StopProcess(s) /\ UNCHANGED completed

BeforeStart(s) ==
  /\ time = Morning /\ SetCompleted(s, Completed(s))
  /\ UNCHANGED <<session, exit, closed>>

\* Mutant: a session that has ended is restarted until market_close_at.
FinishedAtClose(s) == time >= Closing /\ ~Held(s) /\ Code(s) = "ok"

\* "A successful child exit from this point onward means that today's Live
\* operation completed normally."
Finished(s) == time >= Eod /\ ~Held(s) /\ Code(s) = "ok"

EndOfDay(s) ==
  /\ Finished(s)
  /\ Refresh(s) /\ NoSession(s) /\ SetCompleted(s, TRUE)

\* Mutant: stop_at waits for the session.
AfterStopWaits(s) ==
  /\ time = Over /\ ~Finished(s)
  /\ Refresh(s) /\ NoSession(s) /\ SetCompleted(s, ~Held(s))

AfterStop(s) ==
  /\ time = Over /\ ~Finished(s)
  /\ StopProcess(s) /\ SetCompleted(s, TRUE)

\* The session is given until stop_at to sell and to exit.
AfterClose(s) ==
  /\ time = Closing /\ ~Finished(s)
  /\ Refresh(s) /\ NoSession(s) /\ SetCompleted(s, Completed(s) \/ ~Held(s))

\* In the trading hours a session is started whenever none is held, unless the
\* guard or the readiness check fails.
TradingHours(s) ==
  /\ time \in {Trading, Eod} /\ ~Finished(s)
  /\ Refresh(s) /\ SetCompleted(s, Completed(s))
  /\ \/ (Held(s) \/ Completed(s)) /\ NoSession(s) /\ UNCHANGED bounds
     \/ ~Held(s) /\ ~Completed(s) /\ NoSession(s) /\ Fault
     \/ /\ ~Held(s) /\ ~Completed(s)
        /\ session' = [session EXCEPT ![s] = "up"] /\ UNCHANGED bounds

RunOnce(s) ==
  /\ scheduler[s] = "up"
  /\ IF day \in BusinessDays
     THEN \/ TradingHours(s)
          \/ /\ BeforeStart(s) \/ EndOfDay(s) \/ AfterStop(s) \/ AfterClose(s)
             /\ UNCHANGED bounds
     ELSE ClosedDay(s) /\ UNCHANGED bounds
  /\ UNCHANGED <<day, time, service, scheduler, watchdog>>

\* run_forever ends, on a signal or an exception: the session is terminated.
SchedulerEnds(s) ==
  /\ scheduler[s] = "up" /\ Fault
  /\ \E code \in {"ok", "bad"} : Ends({s}, IF handle = s THEN code ELSE "none", {s})
  /\ UNCHANGED <<day, time, service, closed, watchdog>>

\* The process is killed: its session lives on.
SchedulerDies(s) ==
  /\ scheduler[s] = "up" /\ Death
  /\ Ends({s}, IF handle = s THEN "bad" ELSE "none", {})
  /\ UNCHANGED <<day, time, service, closed, watchdog>>

-----------------------------------------------------------------------------
(* Around it.                                                              *)

SessionExits(s) ==
  /\ session[s] = "up"
  /\ \E code \in {"ok", "bad"} :
       session' = [session EXCEPT ![s] = IF scheduler[s] = "up" THEN code ELSE "none"]
  /\ UNCHANGED <<day, time, service, scheduler, exit, completed, closed, watchdog, bounds>>

Tick ==
  /\ \/ time < Over /\ time' = time + 1 /\ UNCHANGED day
     \/ time = Over /\ day < MaxDays /\ day' = day + 1 /\ time' = Morning
  /\ UNCHANGED <<service, processes, closed, watchdog, bounds>>

Watch == EndTask \/ KillProcesses \/ RunTask

Next ==
  \/ StartTask \/ PollOnce \/ PollOthers \/ StopAll \/ ManagerDies \/ Watch \/ Tick
  \/ \E s \in Schedulers :
       RunOnce(s) \/ SchedulerEnds(s) \/ SchedulerDies(s) \/ SessionExits(s)

\* The two loops and the watchdog's task run on.
Fairness ==
  /\ WF_vars(PollOnce) /\ WF_vars(Watch)
  /\ \A s \in Schedulers : WF_vars(RunOnce(s))

Spec     == Init /\ [][Next]_vars
FairSpec == Spec /\ Fairness

-----------------------------------------------------------------------------
(* Properties.                                                             *)

ValuesTyped ==
  /\ day \in 1..MaxDays /\ time \in Morning..Over
  /\ manager \in {"up", "orphan", "down"}
  /\ component \in {"stopped", "running", "restart_wait", "failed"}
  /\ handle \in Schedulers \union {None} /\ restarts \in 0..MaxRestarts
  /\ status \in {"healthy", "degraded"}
  /\ scheduler \in [Schedulers -> {"none", "up", "ok", "bad"}]
  /\ session \in [Schedulers -> {"none", "up", "ok", "bad"}]
  /\ exit \in [Schedulers -> {"none", "ok", "bad"}]
  /\ completed \in [Schedulers -> 0..MaxDays]
  /\ closed \subseteq 1..MaxDays /\ watchdog \in {"idle", "kill", "start"}
  /\ deaths \in 0..MaxDeaths /\ faults \in 0..MaxFaults

\* Every variable has a value of its type; no process is restarted more than
\* maximum_restarts times in a row.
TypeOK == ValuesTyped /\ others \in BOOLEAN

\* However the task scheduler, the manager, the scheduler and the watchdog restart
\* each other, two market sessions never trade at once, unless a process was
\* killed from outside or the watchdog could not list the processes ("KATANA
\* children have been observed to remain orphaned").
OneSession == deaths = 0 => Cardinality({s \in Schedulers : session[s] = "up"}) <= 1

\* "Same-day restart is suppressed": no session is started on a day whose session
\* has ended normally.
Reopened ==
  /\ day \in closed
  /\ \E s \in Schedulers : session[s] # "up" /\ session'[s] = "up"

\* It holds as long as nothing fails: a scheduler started again before 15:30
\* remembers no exit and starts a session.
NoSameDayRestart == [][deaths + faults = 0 => ~Reopened]_vars

\* In the trading hours there is a session again and again, whatever exited, was
\* killed or used its restarts up: the watchdog restarts what the manager gave up.
TradesAgain ==
  <>[](time = Trading /\ day \in BusinessDays) =>
    []<>(\E s \in Schedulers : session[s] = "up")

\* After stop_at no session is left running, unless its scheduler was killed.
ClosedDown ==
  time = Over ~> \/ \A s \in Schedulers : session[s] # "up"
                 \/ time # Over \/ deaths > 0

\* The inductive form of OneSession and NoSameDayRestart.  A manager that waits or
\* is down has no child; unless the watchdog has just ended the manager, the only
\* scheduler is the manager's, and a session ends with its scheduler.
Children ==
  /\ component = "restart_wait" => handle = None /\ restarts < MaxRestarts
  /\ manager = "down" => handle = None /\ component = "stopped"
  /\ watchdog # "idle" => manager # "up"
  /\ deaths = 0 =>
       /\ \A s \in Schedulers : session[s] = "up" => scheduler[s] = "up"
       /\ \A s \in Running : handle = s \/ (watchdog = "kill" /\ manager = "down")
       /\ \A s, t \in Running : s = t

\* As long as nothing fails the first scheduler is the only one, and remembers the
\* session that ended.
Undisturbed ==
  /\ manager # "orphan"
  /\ handle # None => scheduler[handle] = "up" /\ component = "running"
  /\ manager = "up" => handle # None /\ others /\ status = "healthy" /\ watchdog = "idle"
  /\ manager = "down" => Running = {} /\ closed = {}

Remembered ==
  /\ \A d \in closed : d <= day
  /\ day \in closed => time >= Eod
  /\ deaths + faults = 0 =>
       /\ Undisturbed
       /\ day \in closed => \A s \in Running : session[s] = "none" /\ exit[s] = "ok"

ServiceInv == TypeOK /\ Children /\ Remembered

=============================================================================
