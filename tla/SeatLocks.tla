----------------------------- MODULE SeatLocks -----------------------------
(***************************************************************************)
(* The Redis seat locks of backend/src/seat-locks/seat-locks.service.ts    *)
(* for the seats of one event: SET NX PX, the two-step unlock (GET, then   *)
(* DEL), the delayed 'seat-lock-expiry' jobs and the last seat_update the  *)
(* gateway broadcast for each seat.                                        *)
(*                                                                         *)
(* One step per awaited call: between two steps of a handler any other     *)
(* handler, the TTL clock or a crash may come in.  Redis, the database and *)
(* the servers read one clock; a key whose TTL is over is gone for every   *)
(* reader, which is Redis' behaviour seen through GET and SET NX.          *)
(***************************************************************************)
EXTENDS Naturals

CONSTANTS
  Users,      \* authenticated users
  NoUser,     \* the owner field of an absent key
  Seats,      \* seats of the event
  NoSeat,     \* the seat field of an idle handler
  LockReqs,   \* concurrent lock and unlock requests a server works on
  LockTTL,    \* SEAT_LOCK_TTL_SECONDS
  MaxTime,    \* bound: the clock stops here
  MaxTokens,  \* bound: locks granted in a behaviour
  MaxCrashes  \* bound: awaited calls that throw, or processes that die

ASSUME LockTTLAssumption == LockTTL \in Nat \ {0}
ASSUME LockBoundsAssumption ==
         MaxTime \in Nat /\ MaxTokens \in Nat /\ MaxCrashes \in Nat
ASSUME NoUserAssumption == NoUser \notin Users
ASSUME NoSeatAssumption == NoSeat \notin Seats

VARIABLES
  clock,      \* the common wall clock
  lock,       \* Redis: seat -> the payload under its key; token 0: no key
  nextToken,  \* randomUUID(): every SET carries a token never used before
  lockReq,    \* lock and unlock handlers, one record per handler
  lockJobs,   \* delayed jobs of the seat-lock-expiry queue
  shown,      \* seat -> the type of the last seat_update broadcast for it
  crashes     \* awaited calls that have thrown so far

lockVars == <<clock, lock, nextToken, lockReq, lockJobs, shown, crashes>>

NoLock == [token |-> 0, user |-> NoUser, expiry |-> 0]

IdleLockReq == [pc |-> "idle", user |-> NoUser, seat |-> NoSeat, token |-> 0]

Broadcasts == {"none", "SEAT_LOCKED", "SEAT_UNLOCKED", "RESERVED",
               "BOOKING_CONFIRMED", "BOOKING_EXPIRED"}

LockTypeOK ==
  /\ clock \in Nat
  /\ lock \in [Seats -> [token: Nat, user: Users \cup {NoUser}, expiry: Nat]]
  /\ nextToken \in Nat \ {0}
  /\ lockReq \in [LockReqs -> [pc: {"idle", "enqueue", "delete"},
                               user: Users \cup {NoUser},
                               seat: Seats \cup {NoSeat}, token: Nat]]
  /\ \A h \in LockReqs : lockReq[h].pc # "idle" => lockReq[h].seat \in Seats
  /\ lockJobs \subseteq [seat: Seats, token: Nat, due: Nat]
  /\ shown \in [Seats -> Broadcasts]
  /\ crashes \in Nat

LockInit ==
  /\ clock = 0
  /\ lock = [s \in Seats |-> NoLock]
  /\ nextToken = 1
  /\ lockReq = [h \in LockReqs |-> IdleLockReq]
  /\ lockJobs = {}
  /\ shown = [s \in Seats |-> "none"]
  /\ crashes = 0

----------------------------------------------------------------------------
Present(s) == lock[s].token # 0

\* Mutant of SetNX: the key is set without PX and never lapses
SetNXWithoutTTL(s, u) ==
  /\ ~Present(s)
  /\ lock' = [lock EXCEPT ![s] = [token |-> nextToken, user |-> u,
                                  expiry |-> MaxTime + 1]]
  /\ nextToken' = nextToken + 1

\* redis.set(key, payload, 'PX', ttl, 'NX') on a free key
SetNX(s, u) ==
  /\ ~Present(s)
  /\ lock' = [lock EXCEPT ![s] = [token |-> nextToken, user |-> u,
                                  expiry |-> clock + LockTTL]]
  /\ nextToken' = nextToken + 1

\* redis.del(key): whatever is under the key goes, the token is not compared
Del(s) == lock' = [lock EXCEPT ![s] = NoLock]

\* lockSeat up to the reply of SET: a taken key is a ConflictException and
\* changes nothing, so only the successful SET is a step.
LockSeat(h, u, s) ==
  /\ lockReq[h].pc = "idle"
  /\ nextToken <= MaxTokens
  /\ clock + LockTTL <= MaxTime
  /\ SetNX(s, u)
  /\ lockReq' = [lockReq EXCEPT ![h] = [pc |-> "enqueue", user |-> u,
                                        seat |-> s, token |-> nextToken]]
  /\ UNCHANGED <<clock, lockJobs, shown, crashes>>

\* Mutant of JobDelay: seconds handed over as milliseconds
JobDelayInSeconds == 0

\* The delay of the seat-lock-expiry job
JobDelay == LockTTL

\* lockSeat's queue.add and the SEAT_LOCKED broadcast that follows it.  The
\* clock guard is a bound: every job queued comes due before the clock stops.
EnqueueLockExpiry(h) ==
  /\ lockReq[h].pc = "enqueue"
  /\ clock + LockTTL <= MaxTime
  /\ lockJobs' = lockJobs \cup {[seat |-> lockReq[h].seat,
                                 token |-> lockReq[h].token,
                                 due |-> clock + JobDelay]}
  /\ shown' = [shown EXCEPT ![lockReq[h].seat] = "SEAT_LOCKED"]
  /\ lockReq' = [lockReq EXCEPT ![h] = IdleLockReq]
  /\ UNCHANGED <<clock, lock, nextToken, crashes>>

\* The owner test of unlockSeat on what GET returned: an absent key answers
\* released: false, another user's key is a ForbiddenException unless forced.
MayUnlock(s, u, force) == Present(s) /\ (force \/ lock[s].user = u)

\* unlockSeat up to the reply of GET
UnlockRead(h, u, s) ==
  /\ lockReq[h].pc = "idle"
  /\ MayUnlock(s, u, FALSE)
  /\ lockReq' = [lockReq EXCEPT ![h] = [pc |-> "delete", user |-> u, seat |-> s,
                                        token |-> lock[s].token]]
  /\ UNCHANGED <<clock, lock, nextToken, lockJobs, shown, crashes>>

\* unlockSeat's DEL and the SEAT_UNLOCKED broadcast
UnlockDelete(h) ==
  /\ lockReq[h].pc = "delete"
  /\ Del(lockReq[h].seat)
  /\ shown' = [shown EXCEPT ![lockReq[h].seat] = "SEAT_UNLOCKED"]
  /\ lockReq' = [lockReq EXCEPT ![h] = IdleLockReq]
  /\ UNCHANGED <<clock, nextToken, lockJobs, crashes>>

\* Mutant of AbortLockReq: the handler is not torn down with its request
AbortLockReqHalfway(h) ==
  /\ crashes < MaxCrashes
  /\ lockReq[h].pc # "idle"
  /\ lockReq' = [lockReq EXCEPT ![h].seat = NoSeat]
  /\ crashes' = crashes + 1
  /\ UNCHANGED <<clock, lock, nextToken, lockJobs, shown>>

\* The awaited call throws or the process dies: the handler's rest is lost.
AbortLockReq(h) ==
  /\ crashes < MaxCrashes
  /\ lockReq[h].pc # "idle"
  /\ lockReq' = [lockReq EXCEPT ![h] = IdleLockReq]
  /\ crashes' = crashes + 1
  /\ UNCHANGED <<clock, lock, nextToken, lockJobs, shown>>

\* SeatLockExpiryProcessor.process: logs the job and completes it.
RunLockExpiryJob(j) ==
  /\ j.due <= clock
  /\ lockJobs' = lockJobs \ {j}
  /\ UNCHANGED <<clock, lock, nextToken, lockReq, shown, crashes>>

\* Time passes; Redis drops every key whose TTL is over.
Tick ==
  /\ clock < MaxTime
  /\ clock' = clock + 1
  /\ lock' = [s \in Seats |-> IF lock[s].expiry <= clock + 1
                              THEN NoLock ELSE lock[s]]
  /\ UNCHANGED <<nextToken, lockReq, lockJobs, shown, crashes>>

LockNext ==
  \/ \E h \in LockReqs, u \in Users, s \in Seats :
       LockSeat(h, u, s) \/ UnlockRead(h, u, s)
  \/ \E h \in LockReqs :
       EnqueueLockExpiry(h) \/ UnlockDelete(h) \/ AbortLockReq(h)
  \/ \E j \in lockJobs : RunLockExpiryJob(j)
  \/ Tick

\* Time goes on, servers finish what they began and BullMQ runs due jobs.
LockFairness ==
  /\ WF_lockVars(Tick)
  /\ \A h \in LockReqs : WF_lockVars(EnqueueLockExpiry(h) \/ UnlockDelete(h))
  /\ WF_lockVars(\E j \in lockJobs : RunLockExpiryJob(j))

LockSpec == LockInit /\ [][LockNext]_lockVars /\ LockFairness
----------------------------------------------------------------------------
\* Safety.  A seat-lock-expiry job never comes due while the lock it was
\* queued for is still under its key: the job's delay starts after the SET
\* whose TTL it copies.  Wiring handleExpiryJob into the processor can thus
\* never delete a live lock by its own token.
JobNotBeforeLapse ==
  \A j \in lockJobs : j.due <= clock => lock[j.seat].token # j.token

\* Liveness.  No lock outlives its TTL: every token leaves its key again,
\* even when nobody unlocks the seat and the expiry processor does nothing.
LockLapses ==
  \A s \in Seats, t \in 1 .. MaxTokens :
    lock[s].token = t ~> lock[s].token # t

\* Action property.  "Cannot unlock seats locked by another user": the DEL of
\* a user's unlock request removes no lock of another user.
UserUnlocksOwnLock ==
  [][\A h \in LockReqs :
       UnlockDelete(h) =>
         lock[lockReq[h].seat].user \in {NoUser, lockReq[h].user}]_lockVars
=============================================================================
