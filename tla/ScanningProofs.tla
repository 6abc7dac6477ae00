---------------------------- MODULE ScanningProofs ----------------------------
(* What ticket entry keeps, for any number of tickets, devices, offline scans  *)
(* and requests at once.                                                       *)
EXTENDS Scanning, TLAPS

Requests == Scans \cup Syncs

\* A request that will not take another step.
Finished(x) ==
  IF x \in Scans THEN scan[x].pc \in {"done", "dead"}
                 ELSE sync[x].pc \in {"done", "dead"}

\* An unfinished scan has no result before its log row, and admits a ticket.
ScansProceed ==
  \A h \in Scans :
    /\ scan[h].pc \in {"idle", "device", "lookup", "show", "admit"}
         => scan[h].result = "none"
    /\ scan[h].pc \in {"show", "admit"} => scan[h].ticket \in Tickets

\* An upload is at a scan of its batch which it has not answered, and answers
\* only scans that a device holds.
SyncsProceed ==
  \A k \in Syncs :
    /\ sync[k].pc \in {"idle", "device"} => \A r \in Recs : sync[k].result[r] = "none"
    /\ sync[k].pc \in {"ticket", "write"} =>
         sync[k].cur \in sync[k].todo /\ rec[sync[k].cur].ticket \in Tickets
    /\ \A r \in sync[k].todo : rec[r].device # NoDevice
    /\ \A r \in Recs : sync[k].result[r] # "none" => rec[r].device # NoDevice

\* Whoever came in came in on a ticket that is used.
EntryUses ==
  \A t \in Tickets :
    /\ \A h \in Scans : GateEntry(h, t) => ticket[t] = "USED"
    /\ \A k \in Syncs, r \in Recs : SyncEntry(k, r, t) => ticket[t] = "USED"

BeforeIsFinished == \A x, y \in Requests : x \in before[y] => Finished(x)

\* A scan past the tests for a duplicate was not booked before the upload began.
FirstBooking ==
  \A k, l \in Syncs :
    sync[k].pc \in {"ticket", "write"} /\ l \in before[k]
      => sync[l].result[sync[k].cur] \notin Booked

\* A ticket read as ACTIVE had let nobody in before the upload began, nor has
\* it by this upload.
ReadBeforeEntry ==
  \A k \in Syncs : sync[k].pc = "write" /\ sync[k].row = "ACTIVE" =>
    /\ \A h \in Scans \cap before[k] : ~GateEntry(h, rec[sync[k].cur].ticket)
    /\ \A l \in (Syncs \cap before[k]) \cup {k}, r \in Recs :
         ~SyncEntry(l, r, rec[sync[k].cur].ticket)

\* A request of a revoked device ends at the device test, or without an entry.
RevokedAreRefused ==
  /\ \A h \in Scans \cap revoked :
       \/ /\ scan[h].pc = "device" /\ scan[h].device \in Devices
          /\ device[scan[h].device].status = "inactive"
       \/ scan[h].pc \in {"log", "done", "dead"} /\ scan[h].result # "SUCCESS"
  /\ \A k \in Syncs \cap revoked :
       \/ /\ sync[k].pc = "device" /\ sync[k].device \in Devices
          /\ device[sync[k].device].status = "inactive"
       \/ /\ sync[k].pc \in {"done", "dead"}
          /\ \A r \in Recs : sync[k].result[r] = "none"

ScanInv ==
  /\ ScanTypeOK /\ ScansProceed /\ SyncsProceed /\ EntryUses
  /\ BeforeIsFinished /\ FirstBooking /\ ReadBeforeEntry /\ RevokedAreRefused
  /\ OneEntryAtTheGate /\ SecondEntryOnlyByOverlap /\ ReplayWritesNothing

ScanRows == [pc : {"idle", "device", "lookup", "show", "admit", "log", "done", "dead"},
             ticket : Tickets \cup {Junk}, device : Devices \cup {NoDevice},
             own : BOOLEAN, row : {"ACTIVE", "USED"},
             result : GateResults \cup {"none"}]

SyncRows == [pc : {"idle", "device", "next", "ticket", "write", "done", "dead"},
             device : Devices \cup {NoDevice}, own : BOOLEAN,
             todo : SUBSET Recs, cur : Recs \cup {NoRec}, row : {"ACTIVE", "USED"},
             result : [Recs -> SyncResults \cup {"none"}]]

LEMMA ScanBegins == ScanInit => ScanInv
<1> SUFFICES ASSUME ScanInit PROVE ScanInv
  OBVIOUS
<1> USE ScanningAssumption DEF ScanInit
<1>1. ScanTypeOK
  BY DEF ScanTypeOK, GateResults, SyncResults, Booked
<1>2. /\ \A h \in Scans : scan[h].pc = "idle" /\ scan[h].result = "none"
      /\ \A k \in Syncs : /\ sync[k].pc = "idle" /\ sync[k].todo = {}
                          /\ \A r \in Recs : sync[k].result[r] = "none"
      /\ \A x \in Requests : before[x] = {}
      /\ revoked = {}
  BY DEF Requests
<1>3. /\ \A h \in Scans, t \in Tickets : ~GateEntry(h, t)
      /\ \A k \in Syncs, r \in Recs, t \in Tickets : ~SyncEntry(k, r, t)
  BY <1>2 DEF GateEntry, SyncEntry
<1>4. ScansProceed /\ SyncsProceed /\ EntryUses /\ RevokedAreRefused
  BY <1>2, <1>3 DEF ScansProceed, SyncsProceed, EntryUses, RevokedAreRefused
<1>5. BeforeIsFinished /\ FirstBooking /\ ReadBeforeEntry
  BY <1>2 DEF BeforeIsFinished, FirstBooking, ReadBeforeEntry, Requests
<1>6. OneEntryAtTheGate /\ SecondEntryOnlyByOverlap
  BY <1>3 DEF OneEntryAtTheGate, SecondEntryOnlyByOverlap
<1>7. ReplayWritesNothing
  BY <1>2 DEF ReplayWritesNothing, Booked
<1> QED
  BY <1>1, <1>4, <1>5, <1>6, <1>7 DEF ScanInv
-----------------------------------------------------------------------------
(* Steps that no request takes.                                            *)

\* The clock and the devices: a revoked device stays revoked.
LEMMA OutsideKeeps ==
  ASSUME ScanInv, phase' \in {"early", "open", "over"},
         device' \in [Devices -> [status : {"none", "active", "inactive"},
                                  token : BOOLEAN]],
         \A d \in Devices : device[d].status = "inactive"
                              => device'[d].status = "inactive",
         UNCHANGED <<ticket, rec, scan, sync, before, revoked, faults>>
  PROVE  ScanInv'
<1> USE DEF ScanInv
<1>1. ScanTypeOK'
  BY DEF ScanTypeOK
<1>2. RevokedAreRefused'
  BY DEF RevokedAreRefused
<1>3. ScansProceed' /\ SyncsProceed' /\ EntryUses'
  BY DEF ScansProceed, SyncsProceed, EntryUses, GateEntry, SyncEntry
<1>4. BeforeIsFinished' /\ FirstBooking' /\ ReadBeforeEntry'
  BY DEF BeforeIsFinished, Finished, FirstBooking, ReadBeforeEntry, GateEntry, SyncEntry
<1>5. OneEntryAtTheGate' /\ SecondEntryOnlyByOverlap' /\ ReplayWritesNothing'
  BY DEF OneEntryAtTheGate, SecondEntryOnlyByOverlap, ReplayWritesNothing,
         GateEntry, SyncEntry
<1> QED
  BY <1>1, <1>2, <1>3, <1>4, <1>5

LEMMA DevicesKeep ==
  ASSUME ScanInv,
         OpenGates \/ CloseGates \/ (\E d \in Devices : DeviceStep(d))
           \/ UNCHANGED scanVars
  PROVE  ScanInv'
<1>1. CASE OpenGates
  BY <1>1, OutsideKeeps DEF OpenGates, ScanInv, ScanTypeOK
<1>2. CASE CloseGates
  BY <1>2, OutsideKeeps DEF CloseGates, ScanInv, ScanTypeOK
<1>3. CASE UNCHANGED scanVars
  BY <1>3, OutsideKeeps DEF scanVars, ScanInv, ScanTypeOK
<1>4. ASSUME NEW d \in Devices, DeviceStep(d)
      PROVE  ScanInv'
  <2>1. PICK status \in {"active", "inactive"}, token \in BOOLEAN :
          SetDevice(d, status, token) /\ device[d].status # "inactive"
    BY <1>4 DEF DeviceStep, RegisterDevice, AuthenticateDevice, DeactivateDevice,
       ScanInv, ScanTypeOK
  <2>2. /\ device' = [device EXCEPT ![d] = [status |-> status, token |-> token]]
        /\ UNCHANGED <<phase, ticket, rec, scan, sync, before, revoked, faults>>
    BY <2>1 DEF SetDevice
  <2> QED
    BY <2>1, <2>2, OutsideKeeps DEF ScanInv, ScanTypeOK
<1> QED
  BY <1>1, <1>2, <1>3, <1>4

LEMMA OfflineKeeps ==
  ASSUME ScanInv, NEW d \in Devices, NEW r \in Recs, NEW t \in Tickets \cup {Junk},
         ScanOffline(r, d, t)
  PROVE  ScanInv'
<1> USE DEF ScanInv
<1>1. /\ rec[r].device = NoDevice
      /\ rec' = [rec EXCEPT ![r] = [ticket |-> t, device |-> d]]
      /\ UNCHANGED <<phase, ticket, device, scan, sync, before, revoked, faults>>
  BY DEF ScanOffline
<1>2. ScanTypeOK'
  BY <1>1 DEF ScanTypeOK
<1>3. /\ rec'[r].device # NoDevice
      /\ \A q \in Recs \ {r} : rec'[q] = rec[q]
  BY <1>1, ScanningAssumption DEF ScanTypeOK
<1>4. ASSUME NEW k \in Syncs
      PROVE  /\ sync[k].result[r] = "none" /\ r \notin sync[k].todo
             /\ sync[k].todo \subseteq Recs
  BY <1>1 DEF SyncsProceed, ScanTypeOK
<1>5. ScansProceed' /\ BeforeIsFinished' /\ FirstBooking' /\ RevokedAreRefused'
  BY <1>1 DEF ScansProceed, BeforeIsFinished, Finished, FirstBooking,
     RevokedAreRefused
<1>6. SyncsProceed'
  BY <1>1, <1>3, <1>4 DEF SyncsProceed
<1>7. /\ \A h \in Scans, u \in Tickets : GateEntry(h, u)' <=> GateEntry(h, u)
      /\ \A k \in Syncs, q \in Recs, u \in Tickets :
           SyncEntry(k, q, u)' <=> SyncEntry(k, q, u)
  BY <1>1, <1>3, <1>4 DEF GateEntry, SyncEntry
<1>8. EntryUses' /\ OneEntryAtTheGate' /\ SecondEntryOnlyByOverlap'
  BY <1>1, <1>7 DEF EntryUses, OneEntryAtTheGate, SecondEntryOnlyByOverlap
<1>9. ReplayWritesNothing'
  BY <1>1 DEF ReplayWritesNothing
<1>10. ReadBeforeEntry'
  <2> SUFFICES ASSUME NEW k \in Syncs, sync[k].pc = "write", sync[k].row = "ACTIVE"
               PROVE  /\ \A h \in Scans \cap before[k] :
                           ~GateEntry(h, rec[sync[k].cur].ticket)'
                      /\ \A l \in (Syncs \cap before[k]) \cup {k}, q \in Recs :
                           ~SyncEntry(l, q, rec[sync[k].cur].ticket)'
    BY <1>1 DEF ReadBeforeEntry
  <2>1. rec'[sync[k].cur] = rec[sync[k].cur] /\ rec[sync[k].cur].ticket \in Tickets
    BY <1>3, <1>4 DEF SyncsProceed
  <2> QED
    BY <1>1, <1>7, <2>1 DEF ReadBeforeEntry
<1> QED
  BY <1>2, <1>5, <1>6, <1>8, <1>9, <1>10
-----------------------------------------------------------------------------
(* Requests begin.                                                         *)

\* What x finds to be over.
LEMMA OverIsFinished ==
  ASSUME ScanInv, NEW x \in Over
  PROVE  x \in Requests /\ Finished(x)
BY ScanningAssumption DEF Over, Requests, Finished

LEMMA ScanStartKeeps ==
  ASSUME ScanInv, NEW h \in Scans, NEW t \in Tickets \cup {Junk},
         NEW d \in Devices \cup {NoDevice}, NEW own \in BOOLEAN,
         ScanStart(h, t, d, own)
  PROVE  ScanInv'
<1> USE ScanningAssumption DEF ScanInv
<1>1. /\ scan[h].pc = "idle" /\ scan[h].result = "none"
      /\ before' = [before EXCEPT ![h] = Over]
      /\ revoked' \in {revoked, revoked \cup {h}}
      /\ revoked' # revoked => d \in Devices /\ device[d].status = "inactive"
      /\ UNCHANGED <<phase, ticket, device, rec, sync, faults>>
  BY DEF ScanStart, Begins, ScansProceed
<1>2. scan' = [scan EXCEPT ![h].pc = IF d = NoDevice THEN "lookup" ELSE "device",
                           ![h].ticket = t, ![h].device = d, ![h].own = own]
  BY DEF ScanStart
<1>3. scan' \in [Scans -> ScanRows]
  <2>1. scan \in [Scans -> ScanRows]
    BY DEF ScanTypeOK, ScanRows
  <2>2. scan[h] \in ScanRows
    BY <2>1
  <2>3. scan' = [scan EXCEPT ![h] = [scan[h] EXCEPT
          !.pc = IF d = NoDevice THEN "lookup" ELSE "device",
          !.ticket = t, !.device = d, !.own = own]]
    BY <1>2, <2>1
  <2>4. [scan[h] EXCEPT !.pc = IF d = NoDevice THEN "lookup" ELSE "device",
          !.ticket = t, !.device = d, !.own = own] \in ScanRows
    BY <2>2 DEF ScanRows
  <2> QED
    BY <2>1, <2>3, <2>4
<1>4. /\ scan'[h].pc = (IF d = NoDevice THEN "lookup" ELSE "device")
      /\ scan'[h].result = "none" /\ scan'[h].device = d
      /\ \A g \in Scans \ {h} : scan'[g] = scan[g]
  BY <1>1, <1>2 DEF ScanTypeOK
<1>5. Over \subseteq Requests /\ \A x \in Over : Finished(x) /\ x # h
  BY <1>1, OverIsFinished DEF Finished
<1>6. before' \in [Requests -> SUBSET Requests] /\ revoked' \subseteq Requests
  BY <1>1, <1>5 DEF ScanTypeOK, Requests
<1>7. ScanTypeOK'
  BY <1>1, <1>3, <1>6 DEF ScanTypeOK, ScanRows, Requests
<1>8. ScansProceed'
  BY <1>4 DEF ScansProceed
<1>9. SyncsProceed'
  BY <1>1 DEF SyncsProceed
<1>10. /\ \A g \in Scans, u \in Tickets : GateEntry(g, u)' => GateEntry(g, u) /\ g # h
       /\ \A k \in Syncs, q \in Recs, u \in Tickets :
            SyncEntry(k, q, u)' <=> SyncEntry(k, q, u)
  BY <1>1, <1>4 DEF GateEntry, SyncEntry
<1>11. /\ \A y \in Requests \ {h} : before'[y] = before[y]
       /\ before'[h] = Over /\ h \in Requests
  BY <1>1 DEF ScanTypeOK, Requests
<1>12. \A y \in Syncs : y # h /\ y \in Requests /\ before'[y] = before[y]
  BY <1>11 DEF Requests
<1>13. EntryUses' /\ OneEntryAtTheGate'
  BY <1>1, <1>10 DEF EntryUses, OneEntryAtTheGate
<1>14. SecondEntryOnlyByOverlap'
  BY <1>10, <1>11, <1>12 DEF SecondEntryOnlyByOverlap, Requests
<1>15. ReplayWritesNothing'
  BY <1>1, <1>12 DEF ReplayWritesNothing
<1>16. FirstBooking'
  BY <1>1, <1>12 DEF FirstBooking
<1>17. ReadBeforeEntry'
  <2> SUFFICES ASSUME NEW k \in Syncs, sync[k].pc = "write", sync[k].row = "ACTIVE"
               PROVE  /\ \A g \in Scans \cap before[k] :
                           ~GateEntry(g, rec[sync[k].cur].ticket)'
                      /\ \A l \in (Syncs \cap before[k]) \cup {k}, q \in Recs :
                           ~SyncEntry(l, q, rec[sync[k].cur].ticket)'
    BY <1>1, <1>12 DEF ReadBeforeEntry
  <2>1. rec[sync[k].cur].ticket \in Tickets
    BY DEF SyncsProceed
  <2> QED
    BY <1>1, <1>10, <2>1 DEF ReadBeforeEntry
<1>18. \A x \in Requests : Finished(x) => Finished(x)'
  BY <1>1, <1>4 DEF Finished, Requests
<1>19. BeforeIsFinished'
  BY <1>5, <1>11, <1>18 DEF BeforeIsFinished
<1>20. RevokedAreRefused'
  <2>1. \A g \in Scans \cap revoked : g # h
    BY <1>1 DEF RevokedAreRefused
  <2>2. \A g \in (Scans \cap revoked') \ {h} : g \in revoked /\ scan'[g] = scan[g]
    BY <1>1, <1>4
  <2>3. h \in revoked' => /\ d \in Devices /\ device[d].status = "inactive"
                          /\ scan'[h].pc = "device" /\ scan'[h].device = d
    BY <1>1, <1>4, <2>1
  <2>4. \A k \in Syncs \cap revoked' : k \in revoked
    BY <1>1
  <2> QED
    BY <1>1, <2>2, <2>3, <2>4 DEF RevokedAreRefused
<1> QED
  BY <1>7, <1>8, <1>9, <1>13, <1>14, <1>15, <1>16, <1>17, <1>19, <1>20

LEMMA SyncStartKeeps ==
  ASSUME ScanInv, NEW k \in Syncs, NEW d \in Devices, NEW batch \in SUBSET Recs,
         NEW own \in BOOLEAN, SyncStart(k, d, batch, own)
  PROVE  ScanInv'
<1> USE ScanningAssumption DEF ScanInv
<1>1. /\ sync[k].pc = "idle" /\ \A r \in Recs : sync[k].result[r] = "none"
      /\ before' = [before EXCEPT ![k] = Over]
      /\ revoked' \in {revoked, revoked \cup {k}}
      /\ revoked' # revoked => device[d].status = "inactive"
      /\ UNCHANGED <<phase, ticket, device, rec, scan, faults>>
      /\ \A r \in batch : rec[r].device # NoDevice
  BY DEF SyncStart, Begins, SyncsProceed
<1>2. PICK pc \in {"done", "device"} :
        sync' = [sync EXCEPT ![k].device = d, ![k].own = own, ![k].todo = batch,
                             ![k].pc = pc]
  BY DEF SyncStart
<1>3. sync' \in [Syncs -> SyncRows]
  <2>1. sync \in [Syncs -> SyncRows]
    BY DEF ScanTypeOK, SyncRows
  <2>2. sync[k] \in SyncRows
    BY <2>1
  <2>3. sync' = [sync EXCEPT ![k] = [sync[k] EXCEPT
          !.device = d, !.own = own, !.todo = batch, !.pc = pc]]
    BY <1>2, <2>1
  <2>4. [sync[k] EXCEPT !.device = d, !.own = own, !.todo = batch, !.pc = pc]
          \in SyncRows
    BY <2>2 DEF SyncRows
  <2> QED
    BY <2>1, <2>3, <2>4
<1>4. /\ sync'[k].pc = pc /\ sync'[k].device = d /\ sync'[k].todo = batch
      /\ sync'[k].result = sync[k].result
      /\ \A l \in Syncs \ {k} : sync'[l] = sync[l]
      /\ \A l \in Syncs : sync'[l].result = sync[l].result
  BY <1>2 DEF ScanTypeOK
<1>5. Over \subseteq Requests /\ \A x \in Over : Finished(x) /\ x # k
  BY <1>1, OverIsFinished DEF Finished
<1>6. before' \in [Requests -> SUBSET Requests] /\ revoked' \subseteq Requests
  BY <1>1, <1>5 DEF ScanTypeOK, Requests
<1>7. ScanTypeOK'
  BY <1>1, <1>3, <1>6 DEF ScanTypeOK, SyncRows, Requests
<1>8. ScansProceed'
  BY <1>1 DEF ScansProceed
<1>9. SyncsProceed'
  BY <1>1, <1>4 DEF SyncsProceed
<1>10. /\ \A g \in Scans, u \in Tickets : GateEntry(g, u)' <=> GateEntry(g, u)
       /\ \A l \in Syncs, q \in Recs, u \in Tickets :
            SyncEntry(l, q, u)' => SyncEntry(l, q, u) /\ l # k
  BY <1>1, <1>4 DEF GateEntry, SyncEntry
<1>11. /\ \A y \in Requests \ {k} : before'[y] = before[y]
       /\ before'[k] = Over /\ k \in Requests
       /\ \A y \in Scans : y # k /\ y \in Requests
       /\ \A y \in Syncs : y \in Requests
  BY <1>1 DEF ScanTypeOK, Requests
<1>12. EntryUses' /\ OneEntryAtTheGate'
  BY <1>1, <1>10 DEF EntryUses, OneEntryAtTheGate
<1>13. SecondEntryOnlyByOverlap'
  BY <1>10, <1>11 DEF SecondEntryOnlyByOverlap
<1>14. ReplayWritesNothing'
  <2>1. \A l \in Syncs, r \in Recs : sync'[l].result[r] \in Booked => l # k
    BY <1>1, <1>4 DEF Booked
  <2> QED
    BY <1>4, <1>11, <2>1 DEF ReplayWritesNothing
<1>15. FirstBooking'
  BY <1>4, <1>11 DEF FirstBooking
<1>16. ReadBeforeEntry'
  <2> SUFFICES ASSUME NEW m \in Syncs, sync'[m].pc = "write", sync'[m].row = "ACTIVE"
               PROVE  /\ \A g \in Scans \cap before'[m] :
                           ~GateEntry(g, rec[sync[m].cur].ticket)'
                      /\ \A l \in (Syncs \cap before'[m]) \cup {m}, q \in Recs :
                           ~SyncEntry(l, q, rec[sync[m].cur].ticket)'
    BY <1>4 DEF ReadBeforeEntry
  <2>1. m # k /\ sync'[m] = sync[m] /\ before'[m] = before[m]
    BY <1>4, <1>11
  <2>2. rec[sync[m].cur].ticket \in Tickets
    BY <2>1 DEF SyncsProceed
  <2> QED
    BY <1>1, <1>10, <2>1, <2>2 DEF ReadBeforeEntry
<1>17. \A x \in Requests : Finished(x) => Finished(x)'
  BY <1>1, <1>4 DEF Finished, Requests
<1>18. BeforeIsFinished'
  BY <1>5, <1>11, <1>17 DEF BeforeIsFinished
<1>19. RevokedAreRefused'
  <2>1. k \notin revoked
    BY <1>1 DEF RevokedAreRefused
  <2>2. \A l \in (Syncs \cap revoked') \ {k} : l \in revoked /\ sync'[l] = sync[l]
    BY <1>1, <1>4
  <2>3. k \in revoked' => /\ device[d].status = "inactive" /\ sync'[k].device = d
                          /\ \A r \in Recs : sync'[k].result[r] = "none"
    BY <1>1, <1>4, <2>1
  <2>4. \A h \in Scans \cap revoked' : h \in revoked
    BY <1>1
  <2>5. \A l \in Syncs \cap revoked' :
          \/ /\ sync'[l].pc = "device" /\ sync'[l].device \in Devices
             /\ device[sync'[l].device].status = "inactive"
          \/ /\ sync'[l].pc \in {"done", "dead"}
             /\ \A r \in Recs : sync'[l].result[r] = "none"
    BY <1>4, <2>2, <2>3 DEF RevokedAreRefused
  <2> QED
    BY <1>1, <2>4, <2>5 DEF RevokedAreRefused
<1> QED
  BY <1>7, <1>8, <1>9, <1>12, <1>13, <1>14, <1>15, <1>16, <1>18, <1>19
-----------------------------------------------------------------------------
(* Requests go on.                                                         *)

Ongoing(row) == row.pc \notin {"idle", "done", "dead"}

\* Scan h, which runs, goes on; only tickets that become USED change with it.
ScanMoves(h) ==
  /\ Ongoing(scan[h])
  /\ scan' \in [Scans -> ScanRows] /\ \A g \in Scans \ {h} : scan'[g] = scan[g]
  /\ ticket' \in [Tickets -> {"ACTIVE", "USED"}]
  /\ \A t \in Tickets : ticket[t] = "USED" => ticket'[t] = "USED"
  /\ faults' \in 0..MaxFaults
  /\ UNCHANGED <<phase, device, rec, sync, before, revoked>>
  /\ scan'[h].pc \in {"idle", "device", "lookup", "show", "admit"}
       => scan'[h].result = "none"
  /\ scan'[h].pc \in {"show", "admit"} => scan'[h].ticket \in Tickets
  /\ h \in revoked =>
       scan'[h].pc \in {"log", "done", "dead"} /\ scan'[h].result # "SUCCESS"

LEMMA ScanMovesKeep ==
  ASSUME ScanInv, NEW h \in Scans, ScanMoves(h)
  PROVE  /\ ScanTypeOK' /\ ScansProceed' /\ SyncsProceed' /\ BeforeIsFinished'
         /\ FirstBooking' /\ ReadBeforeEntry' /\ RevokedAreRefused'
         /\ ReplayWritesNothing'
<1> USE ScanningAssumption DEF ScanInv, ScanMoves
<1>1. ScanTypeOK'
  BY DEF ScanTypeOK, ScanRows
<1>2. ScansProceed' /\ SyncsProceed'
  BY DEF ScansProceed, SyncsProceed
<1>3. FirstBooking' /\ ReplayWritesNothing'
  BY DEF FirstBooking, ReplayWritesNothing
<1>4. ~Finished(h) /\ h \in Requests
  BY DEF Finished, Ongoing, Requests
<1>5. \A y \in Requests : h \notin before[y]
  BY <1>4 DEF BeforeIsFinished
<1>6. \A x \in Requests \ {h} : Finished(x)' <=> Finished(x)
  BY DEF Finished, Requests
<1>7. BeforeIsFinished'
  BY <1>5, <1>6 DEF BeforeIsFinished
<1>8. ReadBeforeEntry'
  <2> SUFFICES ASSUME NEW k \in Syncs, sync[k].pc = "write", sync[k].row = "ACTIVE"
               PROVE  /\ \A g \in Scans \cap before[k] :
                           ~GateEntry(g, rec[sync[k].cur].ticket)'
                      /\ \A l \in (Syncs \cap before[k]) \cup {k}, q \in Recs :
                           ~SyncEntry(l, q, rec[sync[k].cur].ticket)'
    BY DEF ReadBeforeEntry
  <2>1. h \notin before[k]
    BY <1>5 DEF Requests
  <2> QED
    BY <2>1 DEF ReadBeforeEntry, GateEntry, SyncEntry
<1>9. RevokedAreRefused'
  BY DEF RevokedAreRefused
<1> QED
  BY <1>1, <1>2, <1>3, <1>7, <1>8, <1>9

\* A move that lets nobody in.
LEMMA ScanQuietly ==
  ASSUME ScanInv, NEW h \in Scans, ScanMoves(h),
         scan'[h].result = "SUCCESS" =>
           scan[h].result = "SUCCESS" /\ scan'[h].ticket = scan[h].ticket
  PROVE  ScanInv'
<1> USE DEF ScanInv
<1>1. /\ \A g \in Scans, t \in Tickets : GateEntry(g, t)' => GateEntry(g, t)
      /\ \A k \in Syncs, r \in Recs, t \in Tickets :
           SyncEntry(k, r, t)' <=> SyncEntry(k, r, t)
  BY DEF ScanMoves, GateEntry, SyncEntry
<1>2. EntryUses' /\ OneEntryAtTheGate' /\ SecondEntryOnlyByOverlap'
  BY <1>1 DEF ScanMoves, EntryUses, OneEntryAtTheGate, SecondEntryOnlyByOverlap
<1> QED
  BY <1>2, ScanMovesKeep

\* What finalizeScan leaves of a running scan.
LEMMA FinalizeMoves ==
  ASSUME ScanInv, NEW h \in Scans, Ongoing(scan[h]),
         NEW result \in GateResults, Finalize(h, result),
         h \in revoked => result # "SUCCESS",
         ticket' \in [Tickets -> {"ACTIVE", "USED"}],
         \A t \in Tickets : ticket[t] = "USED" => ticket'[t] = "USED"
  PROVE  /\ ScanMoves(h) /\ scan'[h].result = result
         /\ result = "SUCCESS" => scan'[h].ticket = scan[h].ticket
<1> DEFINE new == [ticket |-> IF result = "SUCCESS" THEN scan[h].ticket ELSE Junk,
                   pc |-> "log", device |-> NoDevice, own |-> TRUE,
                   row |-> "ACTIVE", result |-> result]
<1>1. scan \in [Scans -> ScanRows] /\ faults \in 0..MaxFaults
  BY DEF ScanInv, ScanTypeOK, ScanRows
<1>2. scan[h].ticket \in Tickets \cup {Junk}
  BY <1>1 DEF ScanRows
<1>3. new \in ScanRows
  BY <1>2 DEF ScanRows
<1>4. /\ scan' = [scan EXCEPT ![h] = new]
      /\ UNCHANGED <<phase, device, rec, sync, before, revoked, faults>>
  BY DEF Finalize
<1>5. /\ scan' \in [Scans -> ScanRows] /\ scan'[h] = new
      /\ \A g \in Scans \ {h} : scan'[g] = scan[g]
  BY <1>1, <1>3, <1>4
<1> QED
  BY <1>1, <1>4, <1>5 DEF ScanMoves

\* A running scan goes to another place in the handler.
LEMMA PlaceMoves ==
  ASSUME ScanInv, NEW h \in Scans, Ongoing(scan[h]),
         NEW pc \in {"lookup", "show", "admit", "done", "dead"},
         NEW row \in {"ACTIVE", "USED"},
         scan' = [scan EXCEPT ![h].pc = pc, ![h].row = row],
         UNCHANGED <<ticket, phase, device, rec, sync, before, revoked>>,
         faults' \in 0..MaxFaults,
         pc \in {"lookup", "show", "admit"} => scan[h].result = "none",
         pc \in {"show", "admit"} => scan[h].ticket \in Tickets,
         h \in revoked => pc \in {"done", "dead"} /\ scan[h].result # "SUCCESS"
  PROVE  ScanInv'
<1>1. scan \in [Scans -> ScanRows]
  BY DEF ScanInv, ScanTypeOK, ScanRows
<1>2. scan[h] \in ScanRows
  BY <1>1
<1>3. scan' = [scan EXCEPT ![h] = [scan[h] EXCEPT !.pc = pc, !.row = row]]
  BY <1>1
<1>4. [scan[h] EXCEPT !.pc = pc, !.row = row] \in ScanRows
  BY <1>2 DEF ScanRows
<1>5. /\ scan' \in [Scans -> ScanRows]
      /\ \A g \in Scans \ {h} : scan'[g] = scan[g]
      /\ scan'[h] = [scan[h] EXCEPT !.pc = pc, !.row = row]
  BY <1>1, <1>3, <1>4
<1>6. /\ scan'[h].pc = pc /\ scan'[h].result = scan[h].result
      /\ scan'[h].ticket = scan[h].ticket
  BY <1>2, <1>5 DEF ScanRows
<1>7. ticket \in [Tickets -> {"ACTIVE", "USED"}]
  BY DEF ScanInv, ScanTypeOK
<1>8. ScanMoves(h)
  BY <1>5, <1>6, <1>7 DEF ScanMoves
<1> QED
  BY <1>6, <1>8, ScanQuietly

LEMMA RefusalKeeps ==
  ASSUME ScanInv, NEW h \in Scans, Ongoing(scan[h]),
         NEW result \in GateResults \ {"SUCCESS"}, Finalize(h, result),
         ticket' = ticket
  PROVE  ScanInv'
<1>1. ticket \in [Tickets -> {"ACTIVE", "USED"}]
  BY DEF ScanInv, ScanTypeOK
<1>2. ScanMoves(h) /\ scan'[h].result = result
  BY <1>1, FinalizeMoves
<1> QED
  BY <1>2, ScanQuietly

LEMMA PlaceKeeps ==
  ASSUME ScanInv, NEW h \in Scans, Ongoing(scan[h]),
         NEW pc \in {"lookup", "admit", "done"}, ScanPC(h, pc),
         pc \in {"lookup", "admit"} => scan[h].result = "none" /\ h \notin revoked,
         pc = "admit" => scan[h].ticket \in Tickets,
         h \in revoked => scan[h].result # "SUCCESS"
  PROVE  ScanInv'
<1>1. scan[h].row \in {"ACTIVE", "USED"} /\ faults \in 0..MaxFaults
  BY DEF ScanInv, ScanTypeOK
<1>2. scan' = [scan EXCEPT ![h].pc = pc, ![h].row = scan[h].row]
  BY DEF ScanPC, ScanInv, ScanTypeOK
<1>3. UNCHANGED <<ticket, phase, device, rec, sync, before, revoked, faults>>
  BY DEF ScanPC
<1> QED
  BY <1>1, <1>2, <1>3, PlaceMoves

\* The update that admits: the ticket was ACTIVE until then.
LEMMA AdmissionKeeps ==
  ASSUME ScanInv, NEW h \in Scans, scan[h].pc = "admit",
         ScanAdmit(h), ticket[scan[h].ticket] = "ACTIVE"
  PROVE  ScanInv'
<1> DEFINE t == scan[h].ticket
<1> USE DEF ScanInv
<1>1. /\ t \in Tickets /\ h \notin revoked /\ Ongoing(scan[h])
      /\ ticket \in [Tickets -> {"ACTIVE", "USED"}]
  BY DEF ScansProceed, RevokedAreRefused, Ongoing, ScanTypeOK
<1>2. /\ ticket' = [ticket EXCEPT ![t] = "USED"] /\ Finalize(h, "SUCCESS")
  BY DEF ScanAdmit
<1>3. /\ ticket' \in [Tickets -> {"ACTIVE", "USED"}] /\ ticket'[t] = "USED"
      /\ \A u \in Tickets : ticket[u] = "USED" => ticket'[u] = "USED"
  BY <1>1, <1>2
<1>4. ScanMoves(h) /\ scan'[h].result = "SUCCESS" /\ scan'[h].ticket = t
  BY <1>1, <1>2, <1>3, FinalizeMoves DEF GateResults
<1>5. /\ \A g \in Scans, u \in Tickets :
           GateEntry(g, u)' => GateEntry(g, u) \/ (g = h /\ u = t)
      /\ \A k \in Syncs, r \in Recs, u \in Tickets :
           SyncEntry(k, r, u)' <=> SyncEntry(k, r, u)
  BY <1>4 DEF ScanMoves, GateEntry, SyncEntry
<1>6. /\ \A g \in Scans : ~GateEntry(g, t)
      /\ \A k \in Syncs, r \in Recs : ~SyncEntry(k, r, t)
  BY <1>1 DEF EntryUses
<1>7. EntryUses'
  BY <1>3, <1>5 DEF EntryUses
<1>8. OneEntryAtTheGate'
  BY <1>5, <1>6 DEF OneEntryAtTheGate
<1>9. SecondEntryOnlyByOverlap'
  BY <1>4, <1>5, <1>6 DEF SecondEntryOnlyByOverlap, ScanMoves
<1> QED
  BY <1>4, <1>7, <1>8, <1>9, ScanMovesKeep

LEMMA ScanStepKeeps ==
  ASSUME ScanInv, NEW h \in Scans, ScanStep(h) \/ ScanDies(h)
  PROVE  ScanInv'
<1> USE DEF ScanInv
<1>1. /\ scan[h].row \in {"ACTIVE", "USED"} /\ faults \in 0..MaxFaults
      /\ scan[h].ticket \in Tickets \cup {Junk}
      /\ ticket \in [Tickets -> {"ACTIVE", "USED"}]
  BY DEF ScanTypeOK
<1>2. h \in revoked => scan[h].result # "SUCCESS"
  BY DEF RevokedAreRefused, ScansProceed
<1>3. CASE ScanDevice(h)
  <2>1. /\ scan[h].pc = "device" /\ Ongoing(scan[h]) /\ scan[h].result = "none"
        /\ IsActive(scan[h].device) => h \notin revoked
    BY <1>3 DEF ScanDevice, Ongoing, ScansProceed, RevokedAreRefused, IsActive
  <2> QED
    BY <1>2, <1>3, <2>1, RefusalKeeps, PlaceKeeps DEF ScanDevice, GateResults
<1>4. CASE ScanLookup(h)
  <2>1. /\ scan[h].pc = "lookup" /\ Ongoing(scan[h]) /\ scan[h].result = "none"
        /\ h \notin revoked /\ UNCHANGED ticket
    BY <1>4 DEF ScanLookup, Ongoing, ScansProceed, RevokedAreRefused
  <2>2. CASE \E result \in {"INVALID", "WRONG_TENANT", "EXPIRED"} : Finalize(h, result)
    BY <2>1, <2>2, RefusalKeeps DEF GateResults
  <2>3. CASE ~\E result \in {"INVALID", "WRONG_TENANT", "EXPIRED"} : Finalize(h, result)
    <3>1. /\ scan[h].ticket \in Tickets
          /\ scan' = [scan EXCEPT ![h].pc = "show", ![h].row = ticket[scan[h].ticket]]
          /\ UNCHANGED <<phase, device, rec, sync, before, revoked, faults>>
      BY <1>1, <1>4, <2>3 DEF ScanLookup
    <3> QED
      BY <1>1, <2>1, <3>1, PlaceMoves
  <2> QED
    BY <2>2, <2>3
<1>5. CASE ScanShow(h)
  <2>1. /\ scan[h].pc = "show" /\ Ongoing(scan[h]) /\ scan[h].result = "none"
        /\ h \notin revoked /\ scan[h].ticket \in Tickets /\ UNCHANGED ticket
    BY <1>5 DEF ScanShow, Ongoing, ScansProceed, RevokedAreRefused
  <2>2. ScanPC(h, "admit") \/ \E result \in {"EXPIRED", "NOT_OPEN_YET", "ALREADY_USED"} :
                                Finalize(h, result)
    BY <1>5 DEF ScanShow
  <2> QED
    BY <2>1, <2>2, RefusalKeeps, PlaceKeeps DEF GateResults
<1>6. CASE ScanAdmit(h)
  <2>1. /\ scan[h].pc = "admit" /\ Ongoing(scan[h]) /\ scan[h].ticket \in Tickets
    BY <1>6 DEF ScanAdmit, Ongoing, ScansProceed
  <2>2. CASE ticket[scan[h].ticket] = "ACTIVE"
    BY <1>6, <2>1, <2>2, AdmissionKeeps
  <2>3. CASE ticket[scan[h].ticket] # "ACTIVE"
    <3>1. /\ ticket' = [ticket EXCEPT ![scan[h].ticket] = "USED"]
          /\ Finalize(h, "ALREADY_USED")
      BY <1>6, <2>3 DEF ScanAdmit
    <3>2. ticket[scan[h].ticket] = "USED"
      BY <1>1, <2>1, <2>3
    <3>3. ticket' = ticket
      BY <1>1, <3>1, <3>2
    <3> QED
      BY <2>1, <3>1, <3>3, RefusalKeeps DEF GateResults
  <2> QED
    BY <2>2, <2>3
<1>7. CASE ScanLog(h)
  BY <1>2, <1>7, PlaceKeeps DEF ScanLog, Ongoing
<1>8. CASE ScanDies(h)
  <2>1. /\ Ongoing(scan[h]) /\ faults' \in 0..MaxFaults
        /\ UNCHANGED <<ticket, phase, device, rec, sync, before, revoked>>
    BY <1>1, <1>8, ScanningAssumption DEF ScanDies, Ongoing
  <2>2. scan' = [scan EXCEPT ![h].pc = "dead", ![h].row = scan[h].row]
    BY <1>8 DEF ScanDies, ScanTypeOK
  <2> QED
    BY <1>1, <1>2, <2>1, <2>2, PlaceMoves
<1> QED
  BY <1>3, <1>4, <1>5, <1>6, <1>7, <1>8 DEF ScanStep

\* Upload k, which runs, goes on; only tickets that become USED change with it.
SyncMoves(k) ==
  /\ Ongoing(sync[k])
  /\ sync' \in [Syncs -> SyncRows] /\ \A l \in Syncs \ {k} : sync'[l] = sync[l]
  /\ ticket' \in [Tickets -> {"ACTIVE", "USED"}]
  /\ \A t \in Tickets : ticket[t] = "USED" => ticket'[t] = "USED"
  /\ faults' \in 0..MaxFaults
  /\ UNCHANGED <<phase, device, rec, scan, before, revoked>>
  /\ sync'[k].pc \notin {"idle", "device"}
  /\ sync'[k].todo \subseteq sync[k].todo
  /\ \A r \in Recs : sync'[k].result[r] # "none" => rec[r].device # NoDevice
  /\ sync'[k].pc \in {"ticket", "write"} =>
       /\ sync'[k].cur \in sync'[k].todo /\ rec[sync'[k].cur].ticket \in Tickets
       /\ \A l \in Syncs \cap before[k] : sync[l].result[sync'[k].cur] \notin Booked
  /\ sync'[k].pc = "write" /\ sync'[k].row = "ACTIVE" =>
       /\ sync'[k].result = sync[k].result
       /\ \A h \in Scans \cap before[k] : ~GateEntry(h, rec[sync'[k].cur].ticket)
       /\ \A l \in (Syncs \cap before[k]) \cup {k}, r \in Recs :
            ~SyncEntry(l, r, rec[sync'[k].cur].ticket)
  /\ k \in revoked => /\ sync'[k].pc \in {"done", "dead"}
                      /\ \A r \in Recs : sync'[k].result[r] = "none"

LEMMA SyncMovesKeep ==
  ASSUME ScanInv, NEW k \in Syncs, SyncMoves(k)
  PROVE  /\ ScanTypeOK' /\ ScansProceed' /\ SyncsProceed' /\ BeforeIsFinished'
         /\ FirstBooking' /\ ReadBeforeEntry' /\ RevokedAreRefused'
         /\ \A x \in Requests : k \notin before[x]
<1> USE ScanningAssumption DEF ScanInv, SyncMoves
<1>1. ScanTypeOK'
  BY DEF ScanTypeOK, SyncRows
<1>2. ScansProceed' /\ SyncsProceed'
  BY DEF ScansProceed, SyncsProceed
<1>3. ~Finished(k) /\ k \in Requests
  BY DEF Finished, Ongoing, Requests
<1>4. \A x \in Requests : k \notin before[x]
  BY <1>3 DEF BeforeIsFinished
<1>5. \A x \in Requests \ {k} : Finished(x)' <=> Finished(x)
  BY DEF Finished, Requests
<1>6. BeforeIsFinished'
  BY <1>4, <1>5 DEF BeforeIsFinished
<1>7. \A l, m \in Syncs : l \in before[m] => l # k /\ sync'[l] = sync[l]
  BY <1>4 DEF Requests
<1>8. FirstBooking'
  BY <1>7 DEF FirstBooking
<1>9. ReadBeforeEntry'
  <2> SUFFICES ASSUME NEW m \in Syncs, sync'[m].pc = "write", sync'[m].row = "ACTIVE"
               PROVE  /\ \A h \in Scans \cap before[m] :
                           ~GateEntry(h, rec[sync'[m].cur].ticket)
                      /\ \A l \in (Syncs \cap before[m]) \cup {m}, r \in Recs :
                           ~(rec[r].ticket = rec[sync'[m].cur].ticket
                               /\ sync'[l].result[r] = "SUCCESS")
    BY DEF ReadBeforeEntry, GateEntry, SyncEntry
  <2>1. CASE m = k
    BY <1>7, <2>1 DEF SyncEntry
  <2>2. CASE m # k
    BY <1>7, <2>2 DEF ReadBeforeEntry, SyncEntry
  <2> QED
    BY <2>1, <2>2
<1>10. RevokedAreRefused'
  BY DEF RevokedAreRefused
<1> QED
  BY <1>1, <1>2, <1>4, <1>6, <1>8, <1>9, <1>10

\* A move that books nothing.
LEMMA SyncQuietly ==
  ASSUME ScanInv, NEW k \in Syncs, SyncMoves(k),
         \A r \in Recs : sync'[k].result[r] \in Booked
                           => sync'[k].result[r] = sync[k].result[r]
  PROVE  ScanInv'
<1> USE DEF ScanInv
<1>1. /\ \A g \in Scans, t \in Tickets : GateEntry(g, t)' <=> GateEntry(g, t)
      /\ \A l \in Syncs, r \in Recs, t \in Tickets :
           SyncEntry(l, r, t)' => SyncEntry(l, r, t)
  BY DEF SyncMoves, GateEntry, SyncEntry, Booked
<1>2. EntryUses' /\ OneEntryAtTheGate' /\ SecondEntryOnlyByOverlap'
  BY <1>1 DEF SyncMoves, EntryUses, OneEntryAtTheGate, SecondEntryOnlyByOverlap
<1>3. \A l \in Syncs, r \in Recs :
        sync'[l].result[r] \in Booked => sync[l].result[r] \in Booked
  BY DEF SyncMoves
<1>4. ReplayWritesNothing'
  BY <1>3 DEF SyncMoves, ReplayWritesNothing
<1> QED
  BY <1>2, <1>4, SyncMovesKeep

\* What a step makes of the record of a running upload.
LEMMA SetSyncSets ==
  ASSUME ScanInv, NEW k \in Syncs, NEW new \in SyncRows, SetSync(k, new)
  PROVE  /\ sync' \in [Syncs -> SyncRows] /\ sync'[k] = new
         /\ \A l \in Syncs \ {k} : sync'[l] = sync[l]
         /\ UNCHANGED <<phase, device, rec, scan, before, revoked>>
<1>1. sync \in [Syncs -> SyncRows]
  BY DEF ScanInv, ScanTypeOK, SyncRows
<1>2. /\ sync' = [sync EXCEPT ![k] = new]
      /\ UNCHANGED <<phase, device, rec, scan, before, revoked>>
  BY DEF SetSync
<1> QED
  BY <1>1, <1>2

LEMMA AnsweredIs ==
  ASSUME ScanInv, NEW k \in Syncs, NEW r \in sync[k].todo, NEW result \in SyncResults
  PROVE  /\ Answered(k, r, result) \in SyncRows
         /\ Answered(k, r, result).pc \in {"done", "next"}
         /\ Answered(k, r, result).todo = sync[k].todo \ {r}
         /\ Answered(k, r, result).result
              = [sync[k].result EXCEPT ![r] = result]
<1>1. sync[k] \in SyncRows
  BY DEF ScanInv, ScanTypeOK, SyncRows
<1>2. [sync[k].result EXCEPT ![r] = result] \in [Recs -> SyncResults \cup {"none"}]
  BY <1>1 DEF SyncRows
<1>3. sync[k].todo \ {r} \in SUBSET Recs
  BY <1>1 DEF SyncRows
<1>4. \A pc \in {"done", "next"} :
        LET new == [sync[k] EXCEPT !.pc = pc, !.todo = sync[k].todo \ {r},
                      !.cur = NoRec, !.row = "ACTIVE",
                      !.result = [sync[k].result EXCEPT ![r] = result]]
        IN  /\ new \in SyncRows /\ new.pc = pc
            /\ new.todo = sync[k].todo \ {r}
            /\ new.result = [sync[k].result EXCEPT ![r] = result]
  BY <1>1, <1>2, <1>3 DEF SyncRows
<1>5. CASE sync[k].todo = {r}
  BY <1>4, <1>5 DEF Answered
<1>6. CASE sync[k].todo # {r}
  BY <1>4, <1>6 DEF Answered
<1> QED
  BY <1>5, <1>6

\* A scan of the batch is answered.
LEMMA AnswerMoves ==
  ASSUME ScanInv, NEW k \in Syncs, sync[k].pc \in {"next", "ticket", "write"},
         NEW r \in sync[k].todo, NEW result \in SyncResults,
         SetSync(k, Answered(k, r, result)),
         ticket' \in [Tickets -> {"ACTIVE", "USED"}], faults' \in 0..MaxFaults,
         \A t \in Tickets : ticket[t] = "USED" => ticket'[t] = "USED"
  PROVE  /\ SyncMoves(k) /\ r \in Recs
         /\ sync'[k].result = [sync[k].result EXCEPT ![r] = result]
         /\ sync[k].result \in [Recs -> SyncResults \cup {"none"}]
<1> DEFINE new == Answered(k, r, result)
<1>1. /\ new \in SyncRows /\ new.pc \in {"done", "next"}
      /\ new.todo = sync[k].todo \ {r}
      /\ new.result = [sync[k].result EXCEPT ![r] = result]
  BY AnsweredIs
<1> HIDE DEF new
<1>2. /\ sync' \in [Syncs -> SyncRows] /\ sync'[k] = new
      /\ \A l \in Syncs \ {k} : sync'[l] = sync[l]
      /\ UNCHANGED <<phase, device, rec, scan, before, revoked>>
  BY <1>1, SetSyncSets DEF new
<1>3. /\ sync[k].result \in [Recs -> SyncResults \cup {"none"}]
      /\ sync[k].todo \subseteq Recs
  BY DEF ScanInv, ScanTypeOK
<1>4. /\ rec[r].device # NoDevice
      /\ \A q \in Recs : sync[k].result[q] # "none" => rec[q].device # NoDevice
  BY <1>3 DEF ScanInv, SyncsProceed
<1>5. k \notin revoked
  BY DEF ScanInv, RevokedAreRefused
<1>6. \A q \in Recs : sync'[k].result[q] # "none" => rec[q].device # NoDevice
  BY <1>1, <1>2, <1>3, <1>4
<1>7. SyncMoves(k)
  BY <1>1, <1>2, <1>5, <1>6 DEF SyncMoves, Ongoing
<1> QED
  BY <1>1, <1>2, <1>3, <1>7

LEMMA UnbookedKeeps ==
  ASSUME ScanInv, NEW k \in Syncs, sync[k].pc \in {"next", "ticket", "write"},
         NEW r \in sync[k].todo, NEW result \in SyncResults \ Booked,
         SetSync(k, Answered(k, r, result)), ticket' = ticket,
         faults' \in 0..MaxFaults
  PROVE  ScanInv'
<1>1. ticket \in [Tickets -> {"ACTIVE", "USED"}]
  BY DEF ScanInv, ScanTypeOK
<1>2. /\ SyncMoves(k) /\ r \in Recs
      /\ sync'[k].result = [sync[k].result EXCEPT ![r] = result]
      /\ sync[k].result \in [Recs -> SyncResults \cup {"none"}]
  BY <1>1, AnswerMoves
<1>3. \A q \in Recs : sync'[k].result[q] \in Booked
                        => sync'[k].result[q] = sync[k].result[q]
  BY <1>2
<1> QED
  BY <1>2, <1>3, SyncQuietly

\* The upload goes to another place in the handler, its answers as they are.
LEMMA SyncPlaceKeeps ==
  ASSUME ScanInv, NEW k \in Syncs, Ongoing(sync[k]), NEW new \in SyncRows,
         SetSync(k, new), ticket' = ticket, faults' \in 0..MaxFaults,
         new.result = sync[k].result, new.todo = sync[k].todo,
         new.pc \notin {"idle", "device"},
         k \in revoked => sync[k].pc = "device" /\ new.pc \in {"done", "dead"},
         new.pc \in {"ticket", "write"} =>
           /\ new.cur \in new.todo /\ rec[new.cur].ticket \in Tickets
           /\ \A l \in Syncs \cap before[k] : sync[l].result[new.cur] \notin Booked,
         new.pc = "write" /\ new.row = "ACTIVE" =>
           ticket[rec[new.cur].ticket] = "ACTIVE"
  PROVE  ScanInv'
<1>1. ticket \in [Tickets -> {"ACTIVE", "USED"}]
  BY DEF ScanInv, ScanTypeOK
<1>2. /\ sync' \in [Syncs -> SyncRows] /\ sync'[k] = new
      /\ \A l \in Syncs \ {k} : sync'[l] = sync[l]
      /\ UNCHANGED <<phase, device, rec, scan, before, revoked>>
  BY SetSyncSets
<1>3. /\ k \in revoked => \A r \in Recs : sync[k].result[r] = "none"
      /\ \A r \in Recs : sync[k].result[r] # "none" => rec[r].device # NoDevice
  BY DEF ScanInv, SyncsProceed
<1>4. new.pc = "write" /\ new.row = "ACTIVE" =>
        /\ \A h \in Scans : ~GateEntry(h, rec[new.cur].ticket)
        /\ \A l \in Syncs, r \in Recs : ~SyncEntry(l, r, rec[new.cur].ticket)
  BY DEF ScanInv, EntryUses
<1>5. SyncMoves(k)
  BY <1>1, <1>2, <1>3, <1>4 DEF SyncMoves
<1> QED
  BY <1>2, <1>5, SyncQuietly

\* The transaction of an upload: it books scan r, which nobody had booked before
\* the upload began, and lets it in if the ticket it read was ACTIVE.
LEMMA SyncWriteKeeps ==
  ASSUME ScanInv, NEW k \in Syncs, SyncWrite(k)
  PROVE  ScanInv'
<1> DEFINE r == sync[k].cur
           t == rec[r].ticket
           result == IF sync[k].row = "USED" THEN "CONFLICT_ALREADY_USED" ELSE "SUCCESS"
<1> USE DEF ScanInv
<1>1. /\ sync[k].pc = "write" /\ r \in sync[k].todo /\ t \in Tickets
      /\ sync[k].row \in {"ACTIVE", "USED"} /\ faults \in 0..MaxFaults
      /\ ticket \in [Tickets -> {"ACTIVE", "USED"}]
  BY DEF SyncWrite, SyncsProceed, ScanTypeOK
<1>2. /\ SetSync(k, Answered(k, r, result)) /\ UNCHANGED faults
      /\ ticket' = [ticket EXCEPT ![t] = "USED"]
      /\ result \in Booked /\ result \in SyncResults
  BY DEF SyncWrite, Booked, SyncResults
<1>3. /\ ticket' \in [Tickets -> {"ACTIVE", "USED"}] /\ ticket'[t] = "USED"
      /\ \A u \in Tickets : ticket[u] = "USED" => ticket'[u] = "USED"
  BY <1>1, <1>2
<1>4. result = "SUCCESS" => sync[k].row = "ACTIVE"
  BY <1>1
<1> HIDE DEF result
<1>5. /\ SyncMoves(k) /\ r \in Recs
      /\ sync'[k].result = [sync[k].result EXCEPT ![r] = result]
      /\ sync[k].result \in [Recs -> SyncResults \cup {"none"}]
  BY <1>1, <1>2, <1>3, AnswerMoves
<1>6. /\ \A x \in Requests : k \notin before[x]
      /\ UNCHANGED <<rec, scan, before>> /\ \A l \in Syncs \ {k} : sync'[l] = sync[l]
  BY <1>5, SyncMovesKeep DEF SyncMoves
<1>7. \A x \in Scans \cup Syncs : k \notin before[x]
  BY <1>6 DEF Requests
<1>8. /\ \A g \in Scans, u \in Tickets : GateEntry(g, u)' <=> GateEntry(g, u)
      /\ \A l \in Syncs, q \in Recs, u \in Tickets :
           SyncEntry(l, q, u)' =>
             SyncEntry(l, q, u) \/ (l = k /\ q = r /\ u = t /\ result = "SUCCESS")
  BY <1>5, <1>6 DEF GateEntry, SyncEntry
<1>9. result = "SUCCESS" =>
        /\ \A h \in Scans : GateEntry(h, t) => h \notin before[k]
        /\ \A l \in Syncs, q \in Recs : SyncEntry(l, q, t) => l # k /\ l \notin before[k]
  BY <1>1, <1>4 DEF ReadBeforeEntry
<1>10. EntryUses'
  BY <1>3, <1>8 DEF EntryUses
<1>11. OneEntryAtTheGate'
  BY <1>8 DEF OneEntryAtTheGate
<1>12. SecondEntryOnlyByOverlap'
  <2> SUFFICES ASSUME NEW u \in Tickets
      PROVE /\ \A g \in Scans, l \in Syncs, q \in Recs :
                 GateEntry(g, u)' /\ SyncEntry(l, q, u)'
                   => g \notin before[l] /\ l \notin before[g]
            /\ \A l, m \in Syncs, q, s \in Recs :
                 SyncEntry(l, q, u)' /\ SyncEntry(m, s, u)'
                   => (l = m /\ q = s)
                        \/ (l # m /\ l \notin before[m] /\ m \notin before[l])
    BY <1>6 DEF SecondEntryOnlyByOverlap
  <2>1. ASSUME NEW g \in Scans, NEW l \in Syncs, NEW q \in Recs,
               GateEntry(g, u)', SyncEntry(l, q, u)'
        PROVE  g \notin before[l] /\ l \notin before[g]
    <3>1. GateEntry(g, u)
      BY <1>8, <2>1
    <3>2. CASE SyncEntry(l, q, u)
      BY <3>1, <3>2 DEF SecondEntryOnlyByOverlap
    <3>3. CASE l = k /\ u = t /\ result = "SUCCESS"
      BY <1>7, <1>9, <3>1, <3>3
    <3> QED
      BY <1>8, <2>1, <3>2, <3>3
  <2>2. ASSUME NEW l \in Syncs, NEW m \in Syncs, NEW q \in Recs, NEW s \in Recs,
               SyncEntry(l, q, u)', SyncEntry(m, s, u)'
        PROVE  (l = m /\ q = s) \/ (l # m /\ l \notin before[m] /\ m \notin before[l])
    <3>1. CASE SyncEntry(l, q, u) /\ SyncEntry(m, s, u)
      BY <3>1 DEF SecondEntryOnlyByOverlap
    <3>2. CASE l = k /\ q = r /\ u = t /\ result = "SUCCESS"
      BY <1>7, <1>8, <1>9, <2>2, <3>2
    <3>3. CASE m = k /\ s = r /\ u = t /\ result = "SUCCESS"
      BY <1>7, <1>8, <1>9, <2>2, <3>3
    <3> QED
      BY <1>8, <2>2, <3>1, <3>2, <3>3
  <2> QED
    BY <2>1, <2>2
<1>13. \A l \in Syncs, q \in Recs : sync'[l].result[q] \in Booked =>
         sync[l].result[q] \in Booked \/ (l = k /\ q = r)
  BY <1>5, <1>6
<1>14. \A l \in Syncs : l \in before[k] => sync[l].result[r] \notin Booked
  BY <1>1 DEF FirstBooking
<1>15. ReplayWritesNothing'
  <2> SUFFICES ASSUME NEW l \in Syncs, NEW m \in Syncs, NEW q \in Recs, l # m,
                      sync'[l].result[q] \in Booked, sync'[m].result[q] \in Booked
               PROVE  l \notin before[m] /\ m \notin before[l]
    BY <1>6 DEF ReplayWritesNothing
  <2>1. CASE sync[l].result[q] \in Booked /\ sync[m].result[q] \in Booked
    BY <2>1 DEF ReplayWritesNothing
  <2>2. CASE l = k /\ q = r
    BY <1>7, <1>13, <1>14, <2>2
  <2>3. CASE m = k /\ q = r
    BY <1>7, <1>13, <1>14, <2>3
  <2> QED
    BY <1>13, <2>1, <2>2, <2>3
<1> QED
  BY <1>5, <1>10, <1>11, <1>12, <1>15, SyncMovesKeep

LEMMA SyncStepKeeps ==
  ASSUME ScanInv, NEW k \in Syncs, SyncStep(k) \/ SyncThrows(k) \/ SyncDies(k)
  PROVE  ScanInv'
<1> USE DEF ScanInv
<1>1. /\ sync[k] \in SyncRows /\ sync[k].row \in {"ACTIVE", "USED"}
      /\ sync[k].todo \subseteq Recs /\ sync[k].own \in BOOLEAN
      /\ ticket \in [Tickets -> {"ACTIVE", "USED"}] /\ faults \in 0..MaxFaults
      /\ rec \in [Recs -> [ticket : Tickets \cup {Junk},
                           device : Devices \cup {NoDevice}]]
  BY DEF ScanTypeOK, SyncRows
<1>2. /\ \A pc \in {"next", "done", "dead"} :
           LET new == [sync[k] EXCEPT !.pc = pc]
           IN  /\ new \in SyncRows /\ new.pc = pc
               /\ new.result = sync[k].result /\ new.todo = sync[k].todo
      /\ \A r \in sync[k].todo :
           LET new == [sync[k] EXCEPT !.pc = "ticket", !.cur = r]
           IN  /\ new \in SyncRows /\ new.pc = "ticket" /\ new.cur = r
               /\ new.result = sync[k].result /\ new.todo = sync[k].todo
      /\ \A row \in {"ACTIVE", "USED"} :
           LET new == [sync[k] EXCEPT !.pc = "write", !.row = row]
           IN  /\ new \in SyncRows /\ new.pc = "write" /\ new.row = row
               /\ new.cur = sync[k].cur
               /\ new.result = sync[k].result /\ new.todo = sync[k].todo
  BY <1>1 DEF SyncRows
<1>3. CASE SyncDevice(k)
  <2>1. /\ sync[k].pc = "device" /\ Ongoing(sync[k])
        /\ IsActive(sync[k].device) => k \notin revoked
    BY <1>3 DEF SyncDevice, Ongoing, RevokedAreRefused, IsActive
  <2>2. PICK pc \in {"next", "done"} :
          /\ SetSync(k, [sync[k] EXCEPT !.pc = pc])
          /\ pc = "next" => IsActive(sync[k].device)
          /\ UNCHANGED <<ticket, faults>>
    BY <1>3 DEF SyncDevice
  <2> DEFINE new == [sync[k] EXCEPT !.pc = pc]
  <2>3. /\ new \in SyncRows /\ new.pc = pc
        /\ new.result = sync[k].result /\ new.todo = sync[k].todo
    BY <1>1 DEF SyncRows
  <2>4. SetSync(k, new)
    BY <2>2
  <2> HIDE DEF new
  <2> QED
    BY <1>1, <2>1, <2>2, <2>3, <2>4, SyncPlaceKeeps
<1>4. ASSUME NEW r \in Recs, SyncDuplicate(k, r)
      PROVE  ScanInv'
  <2>1. /\ sync[k].pc = "next" /\ r \in sync[k].todo /\ Ongoing(sync[k])
        /\ k \notin revoked /\ UNCHANGED <<ticket, faults>>
    BY <1>4 DEF SyncDuplicate, Ongoing, RevokedAreRefused
  <2>2. CASE rec[r].ticket = Junk
    <3>1. SetSync(k, Answered(k, r, "INVALID"))
      BY <1>4, <2>2 DEF SyncDuplicate
    <3> QED
      BY <1>1, <2>1, <3>1, UnbookedKeeps DEF SyncResults, Booked
  <2>3. CASE rec[r].ticket # Junk /\ Logged(r)
    <3>1. SetSync(k, Answered(k, r, "DUPLICATE_IGNORED"))
      BY <1>4, <2>3 DEF SyncDuplicate
    <3> QED
      BY <1>1, <2>1, <3>1, UnbookedKeeps DEF SyncResults, Booked
  <2>4. CASE rec[r].ticket # Junk /\ ~Logged(r)
    <3>1. SetSync(k, [sync[k] EXCEPT !.pc = "ticket", !.cur = r])
      BY <1>4, <2>4 DEF SyncDuplicate
    <3>2. /\ rec[r].ticket \in Tickets
          /\ \A l \in Syncs : sync[l].result[r] \notin Booked
      BY <1>1, <2>4 DEF Logged
    <3> DEFINE new == [sync[k] EXCEPT !.pc = "ticket", !.cur = r]
    <3>3. /\ new \in SyncRows /\ new.pc = "ticket" /\ new.cur = r
          /\ new.result = sync[k].result /\ new.todo = sync[k].todo
      BY <1>2, <2>1
    <3>4. SetSync(k, new)
      BY <3>1
    <3> HIDE DEF new
    <3> QED
      BY <1>1, <2>1, <3>2, <3>3, <3>4, SyncPlaceKeeps
  <2> QED
    BY <2>2, <2>3, <2>4
<1>5. CASE SyncLookup(k)
  <2>1. /\ sync[k].pc = "ticket" /\ sync[k].cur \in sync[k].todo /\ Ongoing(sync[k])
        /\ rec[sync[k].cur].ticket \in Tickets
        /\ k \notin revoked /\ UNCHANGED <<ticket, faults>>
        /\ \A l \in Syncs \cap before[k] : sync[l].result[sync[k].cur] \notin Booked
    BY <1>5 DEF SyncLookup, SyncsProceed, Ongoing, RevokedAreRefused, FirstBooking
  <2>2. CASE sync[k].own
    <3>1. SetSync(k, [sync[k] EXCEPT !.pc = "write",
                                     !.row = ticket[rec[sync[k].cur].ticket]])
      BY <1>5, <2>2 DEF SyncLookup
    <3>2. ticket[rec[sync[k].cur].ticket] \in {"ACTIVE", "USED"}
      BY <1>1, <2>1
    <3> DEFINE new == [sync[k] EXCEPT !.pc = "write",
                                      !.row = ticket[rec[sync[k].cur].ticket]]
    <3>3. /\ new \in SyncRows /\ new.pc = "write" /\ new.cur = sync[k].cur
          /\ new.row = ticket[rec[sync[k].cur].ticket]
          /\ new.result = sync[k].result /\ new.todo = sync[k].todo
      BY <1>2, <3>2
    <3>4. SetSync(k, new)
      BY <3>1
    <3> HIDE DEF new
    <3> QED
      BY <1>1, <2>1, <3>3, <3>4, SyncPlaceKeeps
  <2>3. CASE ~sync[k].own
    <3>1. SetSync(k, Answered(k, sync[k].cur, "WRONG_TENANT"))
      BY <1>5, <2>3 DEF SyncLookup
    <3> QED
      BY <1>1, <2>1, <3>1, UnbookedKeeps DEF SyncResults, Booked
  <2> QED
    BY <2>2, <2>3
<1>6. CASE SyncWrite(k)
  BY <1>6, SyncWriteKeeps
<1>7. CASE SyncThrows(k)
  <2>1. /\ sync[k].pc \in {"ticket", "write"} /\ sync[k].cur \in sync[k].todo
        /\ SetSync(k, Answered(k, sync[k].cur, "ERROR"))
        /\ UNCHANGED ticket /\ faults' \in 0..MaxFaults
    BY <1>1, <1>7, ScanningAssumption DEF SyncThrows, SyncsProceed
  <2> QED
    BY <2>1, UnbookedKeeps DEF SyncResults, Booked
<1>8. CASE SyncDies(k)
  <2>1. /\ Ongoing(sync[k]) /\ SetSync(k, [sync[k] EXCEPT !.pc = "dead"])
        /\ UNCHANGED ticket /\ faults' \in 0..MaxFaults
        /\ k \in revoked => sync[k].pc = "device"
    BY <1>1, <1>8, ScanningAssumption DEF SyncDies, Ongoing, RevokedAreRefused
  <2> QED
    BY <1>2, <2>1, SyncPlaceKeeps
<1> QED
  BY <1>3, <1>4, <1>5, <1>6, <1>7, <1>8 DEF SyncStep
-----------------------------------------------------------------------------
LEMMA ScanInvStep == ScanInv /\ [ScanNext]_scanVars => ScanInv'
BY DevicesKeep, OfflineKeeps, ScanStartKeeps, SyncStartKeeps, ScanStepKeeps,
   SyncStepKeeps
   DEF ScanNext

\* The inductive invariant.
THEOREM ScanInvariant == ScanSpec => []ScanInv
BY ScanBegins, ScanInvStep, PTL DEF ScanSpec

\* tickets.service.ts scanTicket: the update that tests the status again admits
\* a ticket once, however many scans of it run.
THEOREM OneGateEntry == ScanSpec => []OneEntryAtTheGate
<1>1. ScanInv => OneEntryAtTheGate
  BY DEF ScanInv
<1> QED
  BY <1>1, ScanInvariant, PTL

\* devices.service.ts syncOfflineScans: a second entry on one ticket takes an
\* upload that was under way at the same time as the other request.
THEOREM SecondEntryOverlaps == ScanSpec => []SecondEntryOnlyByOverlap
<1>1. ScanInv => SecondEntryOnlyByOverlap
  BY DEF ScanInv
<1> QED
  BY <1>1, ScanInvariant, PTL

\* devices.service.ts syncOfflineScans: a batch sent again writes no second row.
THEOREM ReplayIsIgnored == ScanSpec => []ReplayWritesNothing
<1>1. ScanInv => ReplayWritesNothing
  BY DEF ScanInv
<1> QED
  BY <1>1, ScanInvariant, PTL

\* devices.service.ts: what a revoked device sends lets nobody in.
THEOREM RevokedEnterNobody == ScanSpec => []NoEntryAfterRevocation
<1>1. ScanInv => NoEntryAfterRevocation
  BY DEF ScanInv, RevokedAreRefused, ScansProceed, SyncsProceed,
     NoEntryAfterRevocation, GateEntry, SyncEntry
<1> QED
  BY <1>1, ScanInvariant, PTL
=============================================================================
