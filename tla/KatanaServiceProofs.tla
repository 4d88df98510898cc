------------------------- MODULE KatanaServiceProofs -------------------------
(***************************************************************************)
(* For any number of scheduler processes, days, restarts, kills and        *)
(* faults: ServiceInv of KatanaService is inductive, so that two sessions  *)
(* never trade at once while no process is killed, and no session is       *)
(* started on a completed day while nothing fails.                         *)
(***************************************************************************)
EXTENDS KatanaService, FiniteSetTheorems, TLAPS

\* The constants are numbers, and None is not a scheduler.
LEMMA ServiceNumbers ==
  /\ MaxDays \in Nat /\ MaxDays > 0 /\ MaxRestarts \in Nat /\ MaxDeaths \in Nat
  /\ MaxFaults \in Nat /\ None \notin Schedulers
BY ServiceAssumption

\* Before the task is started there is no process.
LEMMA ServiceInit == ASSUME Init PROVE ServiceInv
<1> USE ServiceNumbers DEF Init, Morning, Eod, Over
<1>1. ValuesTyped
  BY DEF ValuesTyped
<1>2. Running = {}
  BY DEF Running
<1>3. Children /\ Remembered
  BY <1>2 DEF Children, Remembered, Undisturbed
<1> QED
  BY <1>1, <1>3 DEF ServiceInv, TypeOK

\* What has not failed by now had not failed before.
LEMMA NothingFailedYet ==
  ASSUME NEW a \in Nat, NEW b \in Nat, NEW c \in Nat, c >= b, a + c = 0
  PROVE  a + b = 0
OBVIOUS

\* Manager and scheduler start together; while nothing fails it is the first time.
LEMMA StartRemembers ==
  ASSUME ServiceInv, StartService, watchdog' = "idle", UNCHANGED <<day, time, closed>>
  PROVE  Remembered'
<1> USE ServiceNumbers DEF ServiceInv, TypeOK, ValuesTyped, Children, Remembered, Undisturbed,
           Running
<1> USE DEF StartService, StartComponent, WriteStatus, Unused, Fault, processes, bounds
<1>1. CASE faults' # faults
  BY <1>1
<1>2. CASE faults' = faults
  <2>1. PICK s \in Schedulers : /\ scheduler[s] = "none" /\ session[s] # "up"
                                /\ scheduler' = [scheduler EXCEPT ![s] = "up"]
                                /\ handle' = s /\ component' = "running"
                                /\ UNCHANGED <<session, exit, completed, bounds>>
    BY <1>2
  <2>2. manager' = "up" /\ others' /\ status' = "healthy" /\ manager = "down"
    BY <2>1
  <2> QED
    BY <2>1, <2>2
<1> QED
  BY <1>1, <1>2

\* The type of one Boolean.
OthersTyped == others \in BOOLEAN

\* Types are kept; a process is restarted only within its budget.
LEMMA ValuesTypedStep == ASSUME ServiceInv, [Next]_vars PROVE ValuesTyped'
<1> USE ServiceNumbers DEF ServiceInv, TypeOK, ValuesTyped, Children
<1> USE DEF Morning, Trading, Eod, Closing, Over, Fault, Death, Unused, Ends, WriteStatus,
           StartComponent, ManagerEnds, service, processes, bounds
<1>1. CASE StartTask
  BY <1>1 DEF StartTask, StartService
<1>2. CASE PollOnce /\ PollExit
  BY <1>2 DEF PollOnce, PollExit, MayRestart
<1>3. CASE PollOnce /\ PollRunning
  BY <1>3 DEF PollOnce, PollRunning
<1>4. CASE PollOnce /\ PollRestart
  BY <1>4 DEF PollOnce, PollRestart
<1>5. CASE PollOthers
  BY <1>5 DEF PollOthers
<1>6. CASE StopAll
  BY <1>6 DEF StopAll
<1>7. CASE ManagerDies
  BY <1>7 DEF ManagerDies
<1>8. CASE EndTask
  BY <1>8 DEF EndTask, Unhealthy
<1>9. CASE KillProcesses
  BY <1>9 DEF KillProcesses
<1>10. CASE RunTask
  BY <1>10 DEF RunTask, StartService
<1>11. CASE Tick
  BY <1>11 DEF Tick
<1>12. ASSUME NEW s \in Schedulers, RunOnce(s) PROVE ValuesTyped'
  <2>1. /\ session' \in [Schedulers -> {"none", "up", "ok", "bad"}]
        /\ exit' \in [Schedulers -> {"none", "ok", "bad"}]
    BY <1>12 DEF RunOnce, BeforeStart, EndOfDay, AfterStop, AfterClose, TradingHours,
              ClosedDay, Refresh, NoSession, StopProcess, SetCompleted, Held, Code
  <2>2. completed' \in [Schedulers -> 0..MaxDays] /\ closed' \subseteq 1..MaxDays
    <3>1. completed' \in {completed, [completed EXCEPT ![s] = day], [completed EXCEPT ![s] = 0]}
      BY <1>12 DEF RunOnce, BeforeStart, EndOfDay, AfterStop, AfterClose, TradingHours,
              ClosedDay, Refresh, NoSession, StopProcess, SetCompleted, Held, Code
    <3>2. closed' \in {closed, closed \union {day}}
      BY <1>12 DEF RunOnce, BeforeStart, EndOfDay, AfterStop, AfterClose, TradingHours,
              ClosedDay, Refresh, NoSession, StopProcess, SetCompleted, Held, Code
    <3> QED
      BY <3>1, <3>2
  <2>3. faults' \in 0..MaxFaults /\ deaths' \in 0..MaxDeaths
    BY <1>12 DEF RunOnce, BeforeStart, EndOfDay, AfterStop, AfterClose, TradingHours,
              ClosedDay, Refresh, NoSession, StopProcess, SetCompleted, Held, Code
  <2>4. UNCHANGED <<day, time, service, scheduler, watchdog>>
    BY <1>12 DEF RunOnce
  <2> QED
    BY <2>1, <2>2, <2>3, <2>4
<1>13. ASSUME NEW s \in Schedulers, SchedulerEnds(s) PROVE ValuesTyped'
  BY <1>13 DEF SchedulerEnds
<1>14. ASSUME NEW s \in Schedulers, SchedulerDies(s) PROVE ValuesTyped'
  BY <1>14 DEF SchedulerDies
<1>15. ASSUME NEW s \in Schedulers, SessionExits(s) PROVE ValuesTyped'
  BY <1>15 DEF SessionExits
<1>16. CASE UNCHANGED vars
  BY <1>16 DEF vars
<1> HIDE DEF ServiceInv, ValuesTyped
<1> QED
  BY <1>1, <1>2, <1>3, <1>4, <1>5, <1>6, <1>7, <1>8, <1>9, <1>10, <1>11, <1>12, <1>13,
     <1>14, <1>15, <1>16 DEF Next, Watch, PollOnce

\* So is that of the other components.
LEMMA OthersTypedStep == ASSUME ServiceInv, [Next]_vars PROVE OthersTyped'
<1> USE ServiceNumbers DEF ServiceInv, TypeOK, OthersTyped
<1> USE DEF Morning, Trading, Eod, Closing, Over, Fault, Death, Unused, Ends, WriteStatus,
           StartComponent, ManagerEnds, service, processes, bounds
<1>1. CASE StartTask
  BY <1>1 DEF StartTask, StartService
<1>2. CASE PollOnce /\ PollExit
  BY <1>2 DEF PollOnce, PollExit, MayRestart
<1>3. CASE PollOnce /\ PollRunning
  BY <1>3 DEF PollOnce, PollRunning
<1>4. CASE PollOnce /\ PollRestart
  BY <1>4 DEF PollOnce, PollRestart
<1>5. CASE PollOthers
  BY <1>5 DEF PollOthers
<1>6. CASE StopAll
  BY <1>6 DEF StopAll
<1>7. CASE ManagerDies
  BY <1>7 DEF ManagerDies
<1>8. CASE EndTask
  BY <1>8 DEF EndTask, Unhealthy
<1>9. CASE KillProcesses
  BY <1>9 DEF KillProcesses
<1>10. CASE RunTask
  BY <1>10 DEF RunTask, StartService
<1>11. CASE Tick
  BY <1>11 DEF Tick
<1>12. ASSUME NEW s \in Schedulers, RunOnce(s) PROVE OthersTyped'
  BY <1>12 DEF RunOnce, BeforeStart, EndOfDay, AfterStop, AfterClose, TradingHours, ClosedDay,
              Finished, Refresh, NoSession, StopProcess, Completed, SetCompleted, Held, Code
<1>13. ASSUME NEW s \in Schedulers, SchedulerEnds(s) PROVE OthersTyped'
  BY <1>13 DEF SchedulerEnds
<1>14. ASSUME NEW s \in Schedulers, SchedulerDies(s) PROVE OthersTyped'
  BY <1>14 DEF SchedulerDies
<1>15. ASSUME NEW s \in Schedulers, SessionExits(s) PROVE OthersTyped'
  BY <1>15 DEF SessionExits
<1>16. CASE UNCHANGED vars
  BY <1>16 DEF vars
<1> HIDE DEF ServiceInv, OthersTyped
<1> QED
  BY <1>1, <1>2, <1>3, <1>4, <1>5, <1>6, <1>7, <1>8, <1>9, <1>10, <1>11, <1>12, <1>13,
     <1>14, <1>15, <1>16 DEF Next, Watch, PollOnce

\* A scheduler is started only after the last one is gone.
LEMMA ChildrenStep == ASSUME ServiceInv, [Next]_vars PROVE Children'
<1> USE ServiceNumbers DEF ServiceInv, TypeOK, ValuesTyped, Children, Running
<1> USE DEF Morning, Trading, Eod, Closing, Over, Fault, Death, Unused, Ends, WriteStatus,
           StartComponent, ManagerEnds, service, processes, bounds
<1>1. CASE StartTask
  BY <1>1 DEF StartTask, StartService
<1>2. CASE PollOnce /\ PollExit
  BY <1>2 DEF PollOnce, PollExit, MayRestart
<1>3. CASE PollOnce /\ PollRunning
  BY <1>3 DEF PollOnce, PollRunning
<1>4. CASE PollOnce /\ PollRestart
  BY <1>4 DEF PollOnce, PollRestart
<1>5. CASE PollOthers
  BY <1>5 DEF PollOthers
<1>6. CASE StopAll
  BY <1>6 DEF StopAll
<1>7. CASE ManagerDies
  BY <1>7 DEF ManagerDies
<1>8. CASE EndTask
  BY <1>8 DEF EndTask, Unhealthy
<1>9. CASE KillProcesses
  BY <1>9 DEF KillProcesses
<1>10. CASE RunTask
  BY <1>10 DEF RunTask, StartService
<1>11. CASE Tick
  BY <1>11 DEF Tick
<1>12. ASSUME NEW s \in Schedulers, RunOnce(s) PROVE Children'
  BY <1>12 DEF RunOnce, BeforeStart, EndOfDay, AfterStop, AfterClose, TradingHours, ClosedDay,
              Finished, Refresh, NoSession, StopProcess, Completed, SetCompleted, Held, Code
<1>13. ASSUME NEW s \in Schedulers, SchedulerEnds(s) PROVE Children'
  BY <1>13 DEF SchedulerEnds
<1>14. ASSUME NEW s \in Schedulers, SchedulerDies(s) PROVE Children'
  BY <1>14 DEF SchedulerDies
<1>15. ASSUME NEW s \in Schedulers, SessionExits(s) PROVE Children'
  BY <1>15 DEF SessionExits
<1>16. CASE UNCHANGED vars
  BY <1>16 DEF vars
<1> HIDE DEF ServiceInv, Children
<1> QED
  BY <1>1, <1>2, <1>3, <1>4, <1>5, <1>6, <1>7, <1>8, <1>9, <1>10, <1>11, <1>12, <1>13,
     <1>14, <1>15, <1>16 DEF Next, Watch, PollOnce

\* Nobody starts a second scheduler while nothing fails, and the first remembers.
LEMMA RememberedStep == ASSUME ServiceInv, [Next]_vars PROVE Remembered'
<1> USE ServiceNumbers DEF ServiceInv, TypeOK, ValuesTyped, Children, Remembered, Undisturbed, Running
<1> USE DEF Morning, Trading, Eod, Closing, Over, Fault, Death, Unused, Ends, WriteStatus,
           StartComponent, ManagerEnds, service, processes, bounds
<1>1. CASE StartTask
  BY <1>1, StartRemembers DEF StartTask
<1>2. CASE PollOnce /\ PollExit
  BY <1>2 DEF PollOnce, PollExit, MayRestart
<1>3. CASE PollOnce /\ PollRunning
  BY <1>3 DEF PollOnce, PollRunning
<1>4. CASE PollOnce /\ PollRestart
  BY <1>4 DEF PollOnce, PollRestart
<1>5. CASE PollOthers
  BY <1>5 DEF PollOthers
<1>6. CASE StopAll
  BY <1>6 DEF StopAll
<1>7. CASE ManagerDies
  BY <1>7 DEF ManagerDies
<1>8. CASE EndTask
  BY <1>8 DEF EndTask, Unhealthy
<1>9. CASE KillProcesses
  BY <1>9 DEF KillProcesses
<1>10. CASE RunTask
  <2>1. CASE StartService
    BY <1>10, <2>1, StartRemembers DEF RunTask
  <2>2. CASE UNCHANGED <<service, processes, bounds>>
    BY <1>10, <2>2 DEF RunTask
  <2> QED
    BY <1>10, <2>1, <2>2 DEF RunTask
<1>11. CASE Tick
  BY <1>11 DEF Tick
<1>12. ASSUME NEW s \in Schedulers, RunOnce(s) PROVE Remembered'
  <2>1. /\ UNCHANGED <<day, time, service, scheduler, watchdog>> /\ scheduler[s] = "up"
        /\ closed' \in {closed, closed \union {day}}
        /\ faults' >= faults /\ deaths' = deaths /\ faults' \in Nat
    BY <1>12 DEF RunOnce, BeforeStart, EndOfDay, AfterStop, AfterClose, TradingHours,
              ClosedDay, Refresh, NoSession, StopProcess, SetCompleted, Held, Code
  <2>2. \A t \in Schedulers \ {s} : session'[t] = session[t] /\ exit'[t] = exit[t]
    BY <1>12 DEF RunOnce, BeforeStart, EndOfDay, AfterStop, AfterClose, TradingHours,
              ClosedDay, Refresh, NoSession, StopProcess, SetCompleted, Held, Code
  <2>3. closed' # closed => day \in closed' /\ time >= Eod /\ session'[s] = "none" /\ exit'[s] = "ok"
    BY <1>12 DEF RunOnce, BeforeStart, EndOfDay, AfterStop, AfterClose, TradingHours,
              ClosedDay, Refresh, NoSession, StopProcess, SetCompleted, Held, Code, Finished
  <2>4. day \in closed /\ session[s] = "none" /\ exit[s] = "ok" =>
          session'[s] = "none" /\ exit'[s] = "ok"
    BY <1>12 DEF RunOnce, BeforeStart, EndOfDay, AfterStop, AfterClose, TradingHours,
              ClosedDay, Refresh, NoSession, StopProcess, SetCompleted, Held, Code, Finished
  <2>5. deaths + faults = 0 => Running = {s}
    BY <2>1
  <2>6. ((\A d \in closed : d <= day) /\ (day \in closed => time >= Eod))'
    BY <2>1, <2>3
  <2>7. ASSUME deaths' + faults' = 0 PROVE deaths + faults = 0 /\ Undisturbed'
    <3>1. /\ deaths \in Nat /\ faults \in Nat /\ faults' \in Nat
          /\ faults' >= faults /\ deaths + faults' = 0
      <4>1. deaths \in Nat /\ faults \in Nat
        OBVIOUS
      <4>2. faults' \in Nat /\ faults' >= faults
        BY <2>1
      <4>3. deaths + faults' = 0
        BY <2>1, <2>7
      <4> QED
        BY <4>1, <4>2, <4>3
    <3>2. deaths + faults = 0
      BY <3>1, NothingFailedYet
    <3>3. manager # "down" /\ Running' = Running
      BY <2>1, <3>2
    <3> QED
      BY <2>1, <3>2, <3>3
  <2>8. ASSUME deaths + faults = 0, day \in closed'
        PROVE  session'[s] = "none" /\ exit'[s] = "ok"
    <3>1. CASE closed' = closed
      BY <2>4, <2>5, <2>8, <3>1
    <3>2. CASE closed' # closed
      BY <2>3, <3>2
    <3> QED
      BY <3>1, <3>2
  <2>9. Running' = Running /\ day' = day
    BY <2>1
  <2> HIDE DEF Undisturbed, Running, ServiceInv
  <2> QED
    BY <2>5, <2>6, <2>7, <2>8, <2>9
<1>13. ASSUME NEW s \in Schedulers, SchedulerEnds(s) PROVE Remembered'
  BY <1>13 DEF SchedulerEnds
<1>14. ASSUME NEW s \in Schedulers, SchedulerDies(s) PROVE Remembered'
  BY <1>14 DEF SchedulerDies
<1>15. ASSUME NEW s \in Schedulers, SessionExits(s) PROVE Remembered'
  BY <1>15 DEF SessionExits
<1>16. CASE UNCHANGED vars
  BY <1>16 DEF vars
<1> HIDE DEF ServiceInv, Remembered
<1> QED
  BY <1>1, <1>2, <1>3, <1>4, <1>5, <1>6, <1>7, <1>8, <1>9, <1>10, <1>11, <1>12, <1>13,
     <1>14, <1>15, <1>16 DEF Next, Watch, PollOnce

\* ServiceInv holds throughout: the invariant of the manager, the schedulers and
\* the watchdog.
THEOREM ServiceInvariance == Spec => []ServiceInv
<1>1. Init => ServiceInv
  BY ServiceInit
<1>2. ServiceInv /\ [Next]_vars => ServiceInv'
  BY ValuesTypedStep, OthersTypedStep, ChildrenStep, RememberedStep
     DEF ServiceInv, TypeOK, OthersTyped
<1> QED
  BY <1>1, <1>2, PTL DEF Spec

\* Two market sessions never trade at once, however the parts restart each other.
THEOREM SessionsExclude == Spec => []OneSession
<1>1. ASSUME ServiceInv, deaths = 0
      PROVE  Cardinality({s \in Schedulers : session[s] = "up"}) <= 1
  <2> DEFINE S == {s \in Schedulers : session[s] = "up"}
  <2>1. \A s, t \in S : s = t
    BY <1>1 DEF ServiceInv, Children, Running
  <2>2. CASE S = {}
    BY <2>2, FS_EmptySet
  <2>3. CASE S # {}
    <3>1. PICK s \in S : TRUE
      BY <2>3
    <3>2. S = {s}
      BY <2>1, <3>1
    <3> QED
      BY <3>2, FS_Singleton
  <2> QED
    BY <2>2, <2>3
<1>2. ServiceInv => OneSession
  BY <1>1 DEF OneSession
<1> QED
  BY <1>2, ServiceInvariance, PTL

\* A session starts in the trading hours, by the run of a scheduler that holds none
\* and remembers no normal end.
LEMMA OnlyRunOnceStarts ==
  ASSUME ServiceInv, [Next]_vars, NEW s \in Schedulers,
         session[s] # "up", session'[s] = "up"
  PROVE  scheduler[s] = "up" /\ time <= Eod /\ ~Finished(s) /\ UNCHANGED bounds
<1> USE ServiceNumbers DEF ServiceInv, TypeOK, ValuesTyped
<1> USE DEF Morning, Trading, Eod, Closing, Over, Fault, Death, Unused, Ends,
           StartComponent, ManagerEnds, service, processes, bounds
<1>1. CASE \E r \in Schedulers : RunOnce(r)
  <2>1. PICK r \in Schedulers : RunOnce(r)
    BY <1>1
  <2>2. r = s
    BY <2>1 DEF RunOnce, BeforeStart, EndOfDay, AfterStop, AfterClose, TradingHours,
                ClosedDay, Refresh, NoSession, StopProcess
  <2>3. scheduler[s] = "up" /\ TradingHours(s) /\ UNCHANGED bounds
    BY <2>1, <2>2 DEF RunOnce, BeforeStart, EndOfDay, AfterStop, AfterClose, TradingHours,
                      ClosedDay, Refresh, NoSession, StopProcess, Held
  <2> QED
    BY <2>3 DEF TradingHours
<1>2. CASE StartTask
  BY <1>2 DEF StartTask, StartService
<1>3. CASE PollOnce
  BY <1>3 DEF PollOnce, PollExit, PollRunning, PollRestart
<1>4. CASE PollOthers \/ StopAll \/ ManagerDies
  BY <1>4 DEF PollOthers, StopAll, ManagerDies
<1>5. CASE Watch
  BY <1>5 DEF Watch, EndTask, KillProcesses, RunTask, StartService
<1>6. CASE Tick \/ UNCHANGED vars
  BY <1>6 DEF Tick, vars
<1>7. CASE \E r \in Schedulers : SchedulerEnds(r) \/ SchedulerDies(r) \/ SessionExits(r)
  BY <1>7 DEF SchedulerEnds, SchedulerDies, SessionExits
<1> QED
  BY <1>1, <1>2, <1>3, <1>4, <1>5, <1>6, <1>7 DEF Next

\* "Same-day restart is suppressed", as long as nothing fails.
THEOREM CompletedStaysClosed == Spec => NoSameDayRestart
<1>1. ASSUME ServiceInv, [Next]_vars, deaths + faults = 0, Reopened PROVE FALSE
  <2>1. PICK s \in Schedulers : session[s] # "up" /\ session'[s] = "up"
    BY <1>1 DEF Reopened
  <2>2. scheduler[s] = "up" /\ ~Finished(s)
    BY <1>1, <2>1, OnlyRunOnceStarts
  <2>3. time >= Eod /\ session[s] = "none" /\ exit[s] = "ok"
    BY <1>1, <2>2 DEF Reopened, ServiceInv, Remembered, Running
  <2> QED
    BY <2>2, <2>3 DEF Finished, Held, Code
<1>2. ServiceInv /\ [Next]_vars => [deaths + faults = 0 => ~Reopened]_vars
  BY <1>1
<1> QED
  BY <1>2, ServiceInvariance, PTL DEF Spec, NoSameDayRestart
=============================================================================
