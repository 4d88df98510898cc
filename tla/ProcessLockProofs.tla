-------------------------- MODULE ProcessLockProofs --------------------------
(***************************************************************************)
(* The lock file excludes, for any number of processes, as long as no lock *)
(* becomes stale: the invariant LockInv of ProcessLock is inductive.       *)
(***************************************************************************)
EXTENDS ProcessLock, TLAPS

\* Nobody holds anything at the start.
LEMMA LockInit == ASSUME Init PROVE LockInv
<1>1. /\ file \in Ids \union {NoLock} /\ written \in BOOLEAN /\ stale \in BOOLEAN
      /\ ~stale
  BY Zenon DEF Init
<1>2. TypeOK
  BY <1>1, LockAssumption DEF Init, TypeOK
<1>3. Owned
  BY <1>1 DEF Init, Owned, Owning
<1> QED
  BY <1>2, <1>3 DEF LockInv

\* What Unlink leaves.
LEMMA UnlinkTypes ==
  ASSUME Unlink
  PROVE  file' \in Ids \union {NoLock} /\ written' \in BOOLEAN /\ stale' \in BOOLEAN
BY Zenon DEF Unlink

\* Every step keeps the types.
LEMMA LockTypes == ASSUME TypeOK, [Next]_vars PROVE TypeOK'
<1> USE LockAssumption DEF TypeOK
<1>1. CASE UNCHANGED vars
  BY <1>1 DEF vars, lock
<1>2. CASE Age
  BY <1>2 DEF Age
<1>3. ASSUME NEW p \in Processes, Step(p) PROVE TypeOK'
  <2>1. CASE Acquire(p)
    BY <2>1 DEF Acquire, lock
  <2>2. CASE CreateLockFile(p)
    <3>1. written' \in BOOLEAN /\ stale' \in BOOLEAN
      BY <2>2, Zenon DEF CreateLockFile, Create, lock
    <3> QED
      BY <2>2, <3>1 DEF CreateLockFile, Create, Goto, lock
  <2>3. CASE WriteLockInfo(p)
    <3>1. written' \in BOOLEAN
      BY <2>3, Zenon DEF WriteLockInfo
    <3> QED
      BY <2>3, <3>1 DEF WriteLockInfo, Goto
  <2>4. CASE ReadLockInfo(p)
    BY <2>4 DEF ReadLockInfo, Goto, End, lock
  <2>5. CASE Stat(p)
    BY <2>5 DEF Stat, Goto, End, lock
  <2>6. CASE RemoveStaleLock(p)
    BY <2>6, UnlinkTypes DEF RemoveStaleLock, End
  <2>7. CASE Release(p) \/ Verify(p)
    BY <2>7 DEF Release, Verify, Goto, End, lock
  <2>8. CASE UnlinkOwn(p)
    BY <2>8, UnlinkTypes DEF UnlinkOwn, End
  <2> QED
    BY <1>3, <2>1, <2>2, <2>3, <2>4, <2>5, <2>6, <2>7, <2>8 DEF Step
<1>4. ASSUME NEW p \in Processes, WriteFails(p) PROVE TypeOK'
  BY <1>4, UnlinkTypes DEF WriteFails, End
<1>5. ASSUME NEW p \in Processes, Die(p) PROVE TypeOK'
  BY <1>5 DEF Die, End, lock
<1> QED
  BY <1>1, <1>2, <1>3, <1>4, <1>5 DEF Next

\* Without a death and without an overrun, every step keeps the file its owner's.
LEMMA LockOwned ==
  ASSUME TypeOK, Owned, [Next]_vars, deaths' = 0, ~Overrun
  PROVE  Owned'
<1> USE LockAssumption DEF TypeOK, Owned, Owning
<1>1. CASE UNCHANGED vars
  BY <1>1 DEF vars, lock
<1>2. CASE Age
  BY <1>2 DEF Age
<1>3. ASSUME NEW p \in Processes, Step(p) PROVE Owned'
  <2>1. CASE Acquire(p)
    BY <2>1 DEF Acquire, lock
  <2>2. CASE CreateLockFile(p)
    <3>1. CASE file = NoLock /\ Create(p)
      BY <3>1 DEF Create
    <3>2. CASE Goto(p, "read") /\ UNCHANGED lock
      BY <2>2, <3>2 DEF CreateLockFile, Goto, lock
    <3> QED
      BY <2>2, <3>1, <3>2 DEF CreateLockFile
  <2>3. CASE WriteLockInfo(p)
    BY <2>3 DEF WriteLockInfo, Goto
  <2>4. CASE ReadLockInfo(p)
    BY <2>4 DEF ReadLockInfo, Goto, End, lock
  <2>5. CASE Stat(p)
    BY <2>5 DEF Stat, Goto, End, lock
  <2>6. CASE RemoveStaleLock(p)
    BY <2>6 DEF RemoveStaleLock
  <2>7. CASE Release(p) \/ Verify(p)
    BY <2>7 DEF Release, Verify, Goto, End, lock
  <2>8. CASE UnlinkOwn(p)
    BY <2>8 DEF UnlinkOwn, Unlink, End
  <2> QED
    BY <1>3, <2>1, <2>2, <2>3, <2>4, <2>5, <2>6, <2>7, <2>8 DEF Step
<1>4. ASSUME NEW p \in Processes, WriteFails(p) PROVE Owned'
  BY <1>4 DEF WriteFails, Unlink, End
<1>5. ASSUME NEW p \in Processes, Die(p) PROVE Owned'
  BY <1>5 DEF Die
<1> QED
  BY <1>1, <1>2, <1>3, <1>4, <1>5 DEF Next

\* Deaths are only counted up.
LEMMA DeathsGrow == ASSUME TypeOK, [Next]_vars, deaths' = 0 PROVE deaths = 0
BY DEF TypeOK, Next, vars, lock, Age, Step, Acquire, CreateLockFile, WriteLockInfo,
       ReadLockInfo, Stat, RemoveStaleLock, Release, Verify, UnlinkOwn, WriteFails, Die

\* The inductive invariant of the lock file.
THEOREM LockInvariance == Spec => []LockInv
<1>1. Init => LockInv
  BY LockInit
<1>2. LockInv /\ [Next]_vars => LockInv'
  <2> SUFFICES ASSUME LockInv, [Next]_vars PROVE LockInv'
    OBVIOUS
  <2>1. TypeOK'
    BY LockTypes DEF LockInv
  <2>2. ASSUME deaths' = 0, ~Overrun PROVE Owned'
    BY <2>2, DeathsGrow, LockOwned DEF LockInv
  <2> QED
    BY <2>1, <2>2 DEF LockInv
<1> QED
  BY <1>1, <1>2, PTL DEF Spec

\* Two processes never hold the lock together, as long as every update ends by
\* itself within the lifetime of its lock.
THEOREM Exclusion == Spec => []ExclusiveWhileFresh
<1>1. LockInv => ExclusiveWhileFresh
  BY DEF LockInv, Owned, Owning, ExclusiveWhileFresh, MutualExclusion
<1> QED
  BY <1>1, LockInvariance, PTL
=============================================================================
