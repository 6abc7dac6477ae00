-------------------------- MODULE SeatLocksProofs --------------------------
(***************************************************************************)
(* Proofs about SeatLocks for every number of users, seats and handlers    *)
(* and every TTL.                                                          *)
(***************************************************************************)
EXTENDS SeatLocks, TLAPS

\* Every step of the lock service keeps its variables in their types.
LEMMA LockTypeStep ==
  ASSUME LockTypeOK, LockNext
  PROVE  LockTypeOK'
<1> USE LockTTLAssumption DEF LockTypeOK
<1>1. ASSUME NEW h \in LockReqs, NEW u \in Users, NEW s \in Seats,
             LockSeat(h, u, s)
      PROVE  LockTypeOK'
  BY <1>1 DEF LockSeat, SetNX
<1>2. ASSUME NEW h \in LockReqs, NEW u \in Users, NEW s \in Seats,
             UnlockRead(h, u, s)
      PROVE  LockTypeOK'
  BY <1>2 DEF UnlockRead
<1>3. ASSUME NEW h \in LockReqs, EnqueueLockExpiry(h)
      PROVE  LockTypeOK'
  <2>1. lockReq[h].seat \in Seats /\ lockReq[h].token \in Nat
    BY <1>3 DEF EnqueueLockExpiry, JobDelay
  <2>2. lockJobs' \subseteq [seat: Seats, token: Nat, due: Nat]
    BY <1>3, <2>1 DEF EnqueueLockExpiry, JobDelay
  <2>3. shown' \in [Seats -> Broadcasts]
    BY <1>3 DEF EnqueueLockExpiry, JobDelay, Broadcasts
  <2> QED
    BY <1>3, <2>2, <2>3 DEF EnqueueLockExpiry, JobDelay, IdleLockReq
<1>4. ASSUME NEW h \in LockReqs, UnlockDelete(h)
      PROVE  LockTypeOK'
  <2>1. shown' \in [Seats -> Broadcasts]
    BY <1>4 DEF UnlockDelete, Broadcasts
  <2> QED
    BY <1>4, <2>1 DEF UnlockDelete, Del, NoLock, IdleLockReq
<1>5. ASSUME NEW h \in LockReqs, AbortLockReq(h)
      PROVE  LockTypeOK'
  BY <1>5 DEF AbortLockReq, IdleLockReq
<1>6. ASSUME NEW j \in lockJobs, RunLockExpiryJob(j)
      PROVE  LockTypeOK'
  BY <1>6 DEF RunLockExpiryJob
<1>7. CASE Tick
  BY <1>7 DEF Tick, NoLock
<1> QED
  BY <1>1, <1>2, <1>3, <1>4, <1>5, <1>6, <1>7 DEF LockNext

\* The lock service's variables keep their types.
THEOREM LockTypeCorrect == LockSpec => []LockTypeOK
<1>1. LockInit => LockTypeOK
  BY DEF LockInit, LockTypeOK, NoLock, IdleLockReq, Broadcasts
<1>2. LockTypeOK /\ [LockNext]_lockVars => LockTypeOK'
  <2>1. LockTypeOK /\ UNCHANGED lockVars => LockTypeOK'
    BY DEF LockTypeOK, lockVars
  <2> QED
    BY <2>1, LockTypeStep
<1> QED
  BY <1>1, <1>2, PTL DEF LockSpec
----------------------------------------------------------------------------
\* Why a job is never due before its lock is gone: a key lives at most one
\* TTL from now, and a job is queued with a full TTL to go.
LockDeadlines ==
  /\ \A s \in Seats :
       /\ lock[s].token < nextToken
       /\ lock[s].token # 0 => /\ clock < lock[s].expiry
                               /\ lock[s].expiry <= clock + LockTTL
  /\ \A h \in LockReqs : lockReq[h].pc = "enqueue" =>
       lockReq[h].token # 0 /\ lockReq[h].token < nextToken
  /\ \A j \in lockJobs :
       /\ j.token # 0 /\ j.token < nextToken
       /\ lock[j.seat].token = j.token => lock[j.seat].expiry <= j.due

\* Every step of the lock service keeps the deadlines in order.
LEMMA LockDeadlinesStep ==
  ASSUME LockTypeOK, LockDeadlines, LockNext
  PROVE  LockDeadlines'
<1> USE LockTTLAssumption DEF LockTypeOK, LockDeadlines
<1>1. ASSUME NEW h \in LockReqs, NEW u \in Users, NEW s \in Seats,
             LockSeat(h, u, s)
      PROVE  LockDeadlines'
  BY <1>1 DEF LockSeat, SetNX, Present
<1>2. ASSUME NEW h \in LockReqs, NEW u \in Users, NEW s \in Seats,
             UnlockRead(h, u, s)
      PROVE  LockDeadlines'
  BY <1>2 DEF UnlockRead
<1>3. ASSUME NEW h \in LockReqs, EnqueueLockExpiry(h)
      PROVE  LockDeadlines'
  <2>1. lockReq[h].seat \in Seats
    BY <1>3 DEF EnqueueLockExpiry, JobDelay
  <2> QED
    BY <1>3, <2>1 DEF EnqueueLockExpiry, JobDelay, IdleLockReq
<1>4. ASSUME NEW h \in LockReqs, UnlockDelete(h)
      PROVE  LockDeadlines'
  BY <1>4 DEF UnlockDelete, Del, NoLock, IdleLockReq
<1>5. ASSUME NEW h \in LockReqs, AbortLockReq(h)
      PROVE  LockDeadlines'
  BY <1>5 DEF AbortLockReq, IdleLockReq
<1>6. ASSUME NEW j \in lockJobs, RunLockExpiryJob(j)
      PROVE  LockDeadlines'
  BY <1>6 DEF RunLockExpiryJob
<1>7. CASE Tick
  BY <1>7 DEF Tick, NoLock
<1> QED
  BY <1>1, <1>2, <1>3, <1>4, <1>5, <1>6, <1>7 DEF LockNext

\* A seat-lock-expiry job never comes due while its lock is still held.
THEOREM JobsOutliveLocks == LockSpec => []JobNotBeforeLapse
<1>1. LockInit => LockDeadlines
  BY DEF LockInit, LockDeadlines, NoLock, IdleLockReq
<1>2. LockTypeOK /\ LockDeadlines /\ [LockNext]_lockVars => LockDeadlines'
  <2>1. LockDeadlines /\ UNCHANGED lockVars => LockDeadlines'
    BY DEF LockDeadlines, lockVars
  <2> QED
    BY <2>1, LockDeadlinesStep
<1>3. LockTypeOK /\ LockDeadlines => JobNotBeforeLapse
  BY DEF LockTypeOK, LockDeadlines, JobNotBeforeLapse
<1> QED
  BY <1>1, <1>2, <1>3, LockTypeCorrect, PTL DEF LockSpec
=============================================================================
