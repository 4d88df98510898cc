----------------------------- MODULE ProcessLock -----------------------------
(***************************************************************************)
(* The lock file that keeps the history update from running twice: created *)
(* with O_EXCL, written a moment later, removed by its owner at the end,   *)
(* and by anybody once it is older than the configured hour.  Each call    *)
(* on the file is a step of its own; what is read may have changed when    *)
(* it is used.                                                             *)
(***************************************************************************)
EXTENDS Naturals, FiniteSets

CONSTANTS Processes,        \* runs of the update; one that ends is started again
          Ids,              \* lock_id; in the code a new uuid each time
          NoLock,
          MaxAttempts,      \* tries of acquire (3 in the code)
          Overrun,          \* an update may take longer than the lock's lifetime
          MaxDeaths,        \* bound: updates killed
          MaxFailures       \* bound: writes of the lock file that fail

ASSUME LockAssumption ==
  /\ NoLock \notin Ids /\ Overrun \in BOOLEAN
  /\ MaxAttempts \in Nat \ {0} /\ {MaxDeaths, MaxFailures} \subseteq Nat

VARIABLES
  \* the file
  file,                     \* its lock_id, or NoLock without a file
  written,                  \* its content is there
  stale,                    \* it is older than stale_after_seconds
  \* the processes
  pc,                       \* the next step
  own,                      \* lock_id of the file it has created
  attempt,                  \* of acquire
  \* bounds
  deaths, failures

lock == <<file, written, stale>>
vars == <<lock, pc, own, attempt, deaths, failures>>

Init ==
  /\ file = NoLock /\ written = FALSE /\ stale = FALSE
  /\ pc = [p \in Processes |-> "idle"] /\ own = [p \in Processes |-> NoLock]
  /\ attempt = [p \in Processes |-> 0]
  /\ deaths = 0 /\ failures = 0

Goto(p, step) == pc' = [pc EXCEPT ![p] = step] /\ UNCHANGED <<own, attempt>>

\* The process ends: with its result, or with the exception of the lock.
End(p) ==
  /\ pc' = [pc EXCEPT ![p] = "idle"]
  /\ own' = [own EXCEPT ![p] = NoLock]
  /\ attempt' = [attempt EXCEPT ![p] = 0]

Unlink == file' = NoLock /\ written' = FALSE /\ stale' = FALSE

-----------------------------------------------------------------------------
(* acquire.                                                                *)

Acquire(p) ==
  /\ pc[p] = "idle"
  /\ pc' = [pc EXCEPT ![p] = "create"] /\ attempt' = [attempt EXCEPT ![p] = 1]
  /\ UNCHANGED <<own, lock, deaths, failures>>

Create(p) ==
  \E i \in Ids \ ({own[q] : q \in Processes} \union {file}) :
    /\ file' = i /\ written' = FALSE /\ stale' = FALSE
    /\ own' = [own EXCEPT ![p] = i]
    /\ pc' = [pc EXCEPT ![p] = "write"] /\ UNCHANGED attempt

\* Mutant: the file is opened without O_EXCL.
CreateOrTruncate(p) ==
  /\ pc[p] = "create"
  /\ Create(p)
  /\ UNCHANGED <<deaths, failures>>

\* _create_lock_file: O_CREAT | O_EXCL.
CreateLockFile(p) ==
  /\ pc[p] = "create"
  /\ \/ file = NoLock /\ Create(p)
     \/ file # NoLock /\ Goto(p, "read") /\ UNCHANGED lock
  /\ UNCHANGED <<deaths, failures>>

WriteLockInfo(p) ==
  /\ pc[p] = "write"
  /\ written' = (written \/ file = own[p])
  /\ Goto(p, "held")
  /\ UNCHANGED <<file, stale, deaths, failures>>

\* The write fails: the path is unlinked, whatever it now names.
WriteFails(p) ==
  /\ pc[p] = "write" /\ failures < MaxFailures /\ failures' = failures + 1
  /\ Unlink /\ End(p)
  /\ UNCHANGED deaths

\* _recover_stale_lock reads the file: a lock that is not stale, or is gone,
\* raises; one that cannot be read is judged by its timestamp.
ReadLockInfo(p) ==
  /\ pc[p] = "read"
  /\ \/ file # NoLock /\ written /\ stale /\ Goto(p, "remove")
     \/ file # NoLock /\ ~written /\ Goto(p, "stat")
     \/ file = NoLock /\ End(p)
     \/ written /\ ~stale /\ End(p)
  /\ UNCHANGED <<lock, deaths, failures>>

\* Mutant: a lock that cannot be read is never removed.
StatRaises(p) ==
  /\ pc[p] = "stat"
  /\ End(p)
  /\ UNCHANGED <<lock, deaths, failures>>

\* _is_file_timestamp_stale.
Stat(p) ==
  /\ pc[p] = "stat"
  /\ IF stale THEN Goto(p, "remove") ELSE End(p)
  /\ UNCHANGED <<lock, deaths, failures>>

\* Mutant: acquire tries again as long as it finds a stale lock.
RemoveForever(p) ==
  /\ pc[p] = "remove" /\ Unlink
  /\ pc' = [pc EXCEPT ![p] = "create"] /\ attempt' = [attempt EXCEPT ![p] = @ + 1]
  /\ UNCHANGED <<own, deaths, failures>>

\* _remove_stale_lock unlinks the path, whatever it now names, and acquire tries
\* again.
RemoveStaleLock(p) ==
  /\ pc[p] = "remove" /\ Unlink
  /\ \/ /\ attempt[p] < MaxAttempts
        /\ pc' = [pc EXCEPT ![p] = "create"] /\ attempt' = [attempt EXCEPT ![p] = @ + 1]
        /\ UNCHANGED own
     \/ attempt[p] = MaxAttempts /\ End(p)
  /\ UNCHANGED <<deaths, failures>>

-----------------------------------------------------------------------------
(* release.                                                                *)

\* The update is done; without a file there is nothing to release.
Release(p) ==
  /\ pc[p] = "held"
  /\ IF file = NoLock THEN End(p) ELSE Goto(p, "verify")
  /\ UNCHANGED <<lock, deaths, failures>>

\* The file is read: the lock of another, or none, raises.
Verify(p) ==
  /\ pc[p] = "verify"
  /\ IF file = own[p] THEN Goto(p, "unlink") ELSE End(p)
  /\ UNCHANGED <<lock, deaths, failures>>

\* The path is unlinked.
UnlinkOwn(p) ==
  /\ pc[p] = "unlink" /\ Unlink /\ End(p)
  /\ UNCHANGED <<deaths, failures>>

-----------------------------------------------------------------------------

Die(p) ==
  /\ pc[p] # "idle" /\ deaths < MaxDeaths
  /\ deaths' = deaths + 1 /\ End(p)
  /\ UNCHANGED <<lock, failures>>

\* The file gets old: that of a dead process, or of one that takes too long.
Age ==
  /\ file # NoLock /\ ~stale
  /\ Overrun \/ \A p \in Processes : own[p] # file
  /\ stale' = TRUE
  /\ UNCHANGED <<file, written, pc, own, attempt, deaths, failures>>

Step(p) ==
  \/ Acquire(p) \/ CreateLockFile(p) \/ WriteLockInfo(p) \/ ReadLockInfo(p)
  \/ Stat(p) \/ RemoveStaleLock(p) \/ Release(p) \/ Verify(p) \/ UnlinkOwn(p)

Next == Age \/ \E p \in Processes : Step(p) \/ WriteFails(p) \/ Die(p)

\* Time passes, and the update is scheduled every day.
Fairness == WF_vars(Age) /\ \A p \in Processes : WF_vars(Step(p))

Spec     == Init /\ [][Next]_vars
FairSpec == Spec /\ Fairness

-----------------------------------------------------------------------------
(* Properties.                                                             *)

\* Every variable has a value of its type.
TypeOK ==
  /\ file \in Ids \union {NoLock} /\ written \in BOOLEAN /\ stale \in BOOLEAN
  /\ pc \in [Processes -> {"idle", "create", "write", "read", "stat", "remove", "held",
                           "verify", "unlink"}]
  /\ own \in [Processes -> Ids \union {NoLock}]
  /\ attempt \in [Processes -> 0..MaxAttempts]
  /\ deaths \in 0..MaxDeaths /\ failures \in 0..MaxFailures

\* The update runs once at a time ("a file prevents the process from being
\* started twice"): two processes never hold the lock together.
MutualExclusion == \A p, q \in Processes : pc[p] = "held" /\ pc[q] = "held" => p = q

\* It is so as long as no lock becomes stale: every update ends by itself, and
\* within the lifetime of its lock.
ExclusiveWhileFresh == deaths = 0 /\ ~Overrun => MutualExclusion

\* Between creation and removal the file is its owner's, and nobody sets out to
\* remove it: the inductive form of ExclusiveWhileFresh.
Owning == {"write", "held", "verify", "unlink"}

Owned ==
  /\ ~stale
  /\ file # NoLock => \E p \in Processes : pc[p] \in Owning /\ own[p] = file
  /\ \A p \in Processes :
       /\ pc[p] # "remove"
       /\ pc[p] \in Owning => file # NoLock /\ own[p] = file
       /\ \A q \in Processes : pc[p] \in Owning /\ pc[q] \in Owning => p = q

LockInv == TypeOK /\ (deaths = 0 /\ ~Overrun => Owned)

\* The lock of a process that died, written or not, does not block the updates for
\* good ("an expired lock is removed").
DeadLockRemoved ==
  \A i \in Ids : (file = i /\ \A p \in Processes : own[p] # i) ~> file # i
=============================================================================
