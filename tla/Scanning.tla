------------------------------ MODULE Scanning ------------------------------
(***************************************************************************)
(* Ticket entry: tickets/tickets.service.ts (scanTicket, the gate) and     *)
(* devices/devices.service.ts (registration, tokens, revocation, and the   *)
(* upload of scans made offline).  One step stands for the code between    *)
(* two awaited calls.  Each request is a handler used once, whose result   *)
(* stays in its record.                                                    *)
(***************************************************************************)
EXTENDS Integers, FiniteSets

CONSTANTS Tickets,     \* tickets of one show and tenant
          Junk,        \* a token whose signature or shape is wrong
          Devices, NoDevice,
          Scans,       \* POST /tickets/scan requests
          Syncs,       \* POST /devices/sync-scans requests
          Recs, NoRec, \* scans a device made offline, told apart by scannedAt
          MaxBatch,    \* largest accepted batch
          MaxRequests, \* bound on the requests begun
          MaxFaults    \* bound on handlers that die and queries that throw

ASSUME ScanningAssumption ==
  /\ Junk \notin Tickets
  /\ NoDevice \notin Devices
  /\ NoRec \notin Recs
  /\ Scans \cap Syncs = {}
  /\ {MaxBatch, MaxRequests, MaxFaults} \subseteq Nat

VARIABLES phase,   \* of the show: "early", "open" (two hours before), "over"
          ticket,  \* Ticket.status
          device,  \* ScannerDevice: active or not, and whether it holds a token
          rec,     \* the offline scans a device holds
          scan, sync,
          before,  \* history: the requests that had booked an entry and were
                   \* over when one began
          revoked, \* history: the requests begun by a device revoked already
          faults

scanVars == <<phase, ticket, device, rec, scan, sync, before, revoked, faults>>

GateResults == {"SUCCESS", "ALREADY_USED", "INVALID", "EXPIRED",
                "WRONG_TENANT", "NOT_OPEN_YET"}
\* The uploads that leave a row in the log and in the queue.
Booked == {"SUCCESS", "CONFLICT_ALREADY_USED"}
SyncResults == Booked \cup {"INVALID", "WRONG_TENANT", "DUPLICATE_IGNORED", "ERROR"}

ScanTypeOK ==
  /\ phase \in {"early", "open", "over"}
  /\ ticket \in [Tickets -> {"ACTIVE", "USED"}]
  /\ device \in [Devices -> [status : {"none", "active", "inactive"},
                             token : BOOLEAN]]
  /\ rec \in [Recs -> [ticket : Tickets \cup {Junk},
                       device : Devices \cup {NoDevice}]]
  /\ scan \in [Scans -> [pc : {"idle", "device", "lookup", "show", "admit",
                               "log", "done", "dead"},
                         ticket : Tickets \cup {Junk},
                         device : Devices \cup {NoDevice},
                         own : BOOLEAN, row : {"ACTIVE", "USED"},
                         result : GateResults \cup {"none"}]]
  /\ sync \in [Syncs -> [pc : {"idle", "device", "next", "ticket", "write",
                               "done", "dead"},
                         device : Devices \cup {NoDevice}, own : BOOLEAN,
                         todo : SUBSET Recs, cur : Recs \cup {NoRec},
                         row : {"ACTIVE", "USED"},
                         result : [Recs -> SyncResults \cup {"none"}]]]
  /\ before \in [Scans \cup Syncs -> SUBSET (Scans \cup Syncs)]
  /\ revoked \in SUBSET (Scans \cup Syncs)
  /\ faults \in 0..MaxFaults

ScanInit ==
  /\ phase = "early"
  /\ ticket = [t \in Tickets |-> "ACTIVE"]
  /\ device = [d \in Devices |-> [status |-> "none", token |-> FALSE]]
  /\ rec = [r \in Recs |-> [ticket |-> Junk, device |-> NoDevice]]
  /\ scan = [h \in Scans |->
              [pc |-> "idle", ticket |-> Junk, device |-> NoDevice,
               own |-> TRUE, row |-> "ACTIVE", result |-> "none"]]
  /\ sync = [k \in Syncs |->
              [pc |-> "idle", device |-> NoDevice, own |-> TRUE, todo |-> {},
               cur |-> NoRec, row |-> "ACTIVE",
               result |-> [r \in Recs |-> "none"]]]
  /\ before = [x \in Scans \cup Syncs |-> {}]
  /\ revoked = {}
  /\ faults = 0

Over == {h \in Scans : scan[h].pc \in {"done", "dead"}
                          /\ scan[h].result = "SUCCESS"}
          \cup {k \in Syncs : sync[k].pc \in {"done", "dead"}
                          /\ \E r \in Recs : sync[k].result[r] \in Booked}

Begun == {h \in Scans : scan[h].pc # "idle"} \cup {k \in Syncs : sync[k].pc # "idle"}

\* Request x of device d begins: what the history variables note of it.
Begins(x, d) ==
  /\ Cardinality(Begun) < MaxRequests
  /\ before' = [before EXCEPT ![x] = Over]
  /\ revoked' = IF d # NoDevice /\ device[d].status = "inactive"
                  THEN revoked \cup {x} ELSE revoked
-----------------------------------------------------------------------------
(* The show's clock, and the devices.                                      *)

OpenGates ==
  /\ phase = "early" /\ phase' = "open"
  /\ UNCHANGED <<ticket, device, rec, scan, sync, before, revoked, faults>>

\* Thirty minutes after the start.
CloseGates ==
  /\ phase = "open" /\ phase' = "over"
  /\ UNCHANGED <<ticket, device, rec, scan, sync, before, revoked, faults>>

SetDevice(d, status, token) ==
  /\ device' = [device EXCEPT ![d] = [status |-> status, token |-> token]]
  /\ UNCHANGED <<phase, ticket, rec, scan, sync, before, revoked, faults>>

RegisterDevice(d) ==
  device[d].status = "none" /\ SetDevice(d, "active", FALSE)

\* authenticateDevice: the key is compared and a token signed.  A device may be
\* revoked at once afterwards; that a token ends after fifteen minutes only
\* takes requests away and is left out.
AuthenticateDevice(d) ==
  device[d].status = "active" /\ SetDevice(d, "active", TRUE)

\* Mutant of DeactivateDevice: a status that the schema does not have
DeactivateDeviceSuspends(d) ==
  device[d].status = "active" /\ SetDevice(d, "suspended", device[d].token)

DeactivateDevice(d) ==
  device[d].status = "active" /\ SetDevice(d, "inactive", device[d].token)

\* A device reads a code while it has no connection.
ScanOffline(r, d, t) ==
  /\ rec[r].device = NoDevice
  /\ device[d].status # "none"
  /\ phase = "open"
  /\ rec' = [rec EXCEPT ![r] = [ticket |-> t, device |-> d]]
  /\ UNCHANGED <<phase, ticket, device, scan, sync, before, revoked, faults>>
-----------------------------------------------------------------------------
(* scanTicket                                                              *)

ScanPC(h, pc) ==
  /\ scan' = [scan EXCEPT ![h].pc = pc]
  /\ UNCHANGED <<ticket, phase, device, rec, sync, before, revoked, faults>>

\* finalizeScan: the result is fixed, its log row is still to be written.  What
\* the request no longer needs is forgotten.
Finalize(h, result) ==
  /\ scan' = [scan EXCEPT ![h] =
                [ticket |-> IF result = "SUCCESS" THEN @.ticket ELSE Junk,
                 pc |-> "log", device |-> NoDevice, own |-> TRUE,
                 row |-> "ACTIVE", result |-> result]]
  /\ UNCHANGED <<phase, device, rec, sync, before, revoked, faults>>

\* A member of staff (no device) or a device with a token; own says whether the
\* caller belongs to the tenant of the ticket.
ScanStart(h, t, d, own) ==
  /\ scan[h].pc = "idle"
  /\ d # NoDevice => device[d].token
  /\ scan' = [scan EXCEPT ![h].pc = IF d = NoDevice THEN "lookup" ELSE "device",
                          ![h].ticket = t, ![h].device = d, ![h].own = own]
  /\ Begins(h, d)
  /\ UNCHANGED <<phase, ticket, device, rec, sync, faults>>

\* Mutant of IsActive: a device that was once registered is good for ever
IsRegistered(d) == device[d].status # "none"

IsActive(d) == device[d].status = "active"

ScanDevice(h) ==
  /\ scan[h].pc = "device"
  /\ IF IsActive(scan[h].device)
       THEN ScanPC(h, "lookup")
       ELSE Finalize(h, "INVALID") /\ UNCHANGED ticket

\* The token is verified, its ticket read, and what the row says is tested.
ScanLookup(h) ==
  LET t == scan[h].ticket
  IN  /\ scan[h].pc = "lookup"
      /\ \/ t = Junk /\ Finalize(h, "INVALID")
         \/ t # Junk /\ ~scan[h].own /\ Finalize(h, "WRONG_TENANT")
         \/ t # Junk /\ scan[h].own /\ phase = "over" /\ Finalize(h, "EXPIRED")
         \/ /\ t # Junk /\ scan[h].own /\ phase # "over"
            /\ scan' = [scan EXCEPT ![h].pc = "show", ![h].row = ticket[t]]
            /\ UNCHANGED <<phase, device, rec, sync, before, revoked, faults>>
      /\ UNCHANGED ticket

\* The show is read: its window is tested against the clock, and the status
\* against the row read before.
ScanShow(h) ==
  /\ scan[h].pc = "show"
  /\ \/ phase = "over" /\ Finalize(h, "EXPIRED")
     \/ phase = "early" /\ Finalize(h, "NOT_OPEN_YET")
     \/ phase = "open" /\ scan[h].row = "USED" /\ Finalize(h, "ALREADY_USED")
     \/ phase = "open" /\ scan[h].row = "ACTIVE" /\ ScanPC(h, "admit")
  /\ UNCHANGED ticket

\* Mutant of ScanAdmit: the ticket is updated by its id alone
ScanAdmitUntested(h) ==
  /\ scan[h].pc = "admit"
  /\ ticket' = [ticket EXCEPT ![scan[h].ticket] = "USED"]
  /\ Finalize(h, "SUCCESS")

\* updateMany where status is ACTIVE.
ScanAdmit(h) ==
  LET t == scan[h].ticket
  IN  /\ scan[h].pc = "admit"
      /\ ticket' = [ticket EXCEPT ![t] = "USED"]
      /\ Finalize(h, IF ticket[t] = "ACTIVE" THEN "SUCCESS" ELSE "ALREADY_USED")

\* ticketScanLog.create, and the answer.
ScanLog(h) == scan[h].pc = "log" /\ ScanPC(h, "done")

ScanDies(h) ==
  /\ scan[h].pc \notin {"idle", "done", "dead"}
  /\ faults < MaxFaults /\ faults' = faults + 1
  /\ scan' = [scan EXCEPT ![h].pc = "dead"]
  /\ UNCHANGED <<phase, ticket, device, rec, sync, before, revoked>>
-----------------------------------------------------------------------------
(* syncOfflineScans                                                        *)

SetSync(k, state) ==
  /\ sync' = [sync EXCEPT ![k] = state]
  /\ UNCHANGED <<phase, device, rec, scan, before, revoked>>

\* A device uploads scans it holds.  It may send a batch again while a request
\* it gave up on still runs.
SyncStart(k, d, batch, own) ==
  /\ sync[k].pc = "idle" /\ device[d].token
  /\ batch # {} /\ \A r \in batch : rec[r].device = d
  /\ sync' = [sync EXCEPT ![k].device = d, ![k].own = own, ![k].todo = batch,
                ![k].pc = IF Cardinality(batch) > MaxBatch THEN "done"
                                                          ELSE "device"]
  /\ Begins(k, d)
  /\ UNCHANGED <<phase, ticket, device, rec, scan, faults>>

SyncDevice(k) ==
  /\ sync[k].pc = "device"
  /\ SetSync(k, [sync[k] EXCEPT
                   !.pc = IF IsActive(sync[k].device) THEN "next" ELSE "done"])
  /\ UNCHANGED <<ticket, faults>>

\* What results.push leaves of the batch.
Answered(k, r, result) ==
  [sync[k] EXCEPT !.pc = IF sync[k].todo = {r} THEN "done" ELSE "next",
                  !.todo = sync[k].todo \ {r}, !.cur = NoRec, !.row = "ACTIVE",
                  !.result = [sync[k].result EXCEPT ![r] = result]]

\* Mutant of Logged: the two tests for a duplicate are left out
LoggedNever(r) == FALSE

\* A row of the log, and with it of the queue, carries this very scan.
Logged(r) ==
  \E k \in Syncs : sync[k].result[r] \in Booked

\* The token and the two tests for a duplicate.
SyncDuplicate(k, r) ==
  /\ sync[k].pc = "next" /\ r \in sync[k].todo
  /\ SetSync(k, CASE rec[r].ticket = Junk -> Answered(k, r, "INVALID")
                  [] rec[r].ticket # Junk /\ Logged(r)
                       -> Answered(k, r, "DUPLICATE_IGNORED")
                  [] OTHER -> [sync[k] EXCEPT !.pc = "ticket", !.cur = r])
  /\ UNCHANGED <<ticket, faults>>

\* Mutant of SyncLookup: the status of the row is not looked at
SyncLookupUnread(k) ==
  /\ sync[k].pc = "ticket"
  /\ SetSync(k, IF sync[k].own THEN [sync[k] EXCEPT !.pc = "write"]
                ELSE Answered(k, sync[k].cur, "WRONG_TENANT"))
  /\ UNCHANGED <<ticket, faults>>

SyncLookup(k) ==
  LET r == sync[k].cur
  IN  /\ sync[k].pc = "ticket"
      /\ SetSync(k, IF sync[k].own
                      THEN [sync[k] EXCEPT !.pc = "write",
                                           !.row = ticket[rec[r].ticket]]
                      ELSE Answered(k, r, "WRONG_TENANT"))
      /\ UNCHANGED <<ticket, faults>>

\* The ticket is updated by id, whatever its status is by now; queue and log
\* get their rows in the same transaction.
SyncWrite(k) ==
  LET r == sync[k].cur
  IN  /\ sync[k].pc = "write"
      /\ SetSync(k, Answered(k, r, IF sync[k].row = "USED"
                                     THEN "CONFLICT_ALREADY_USED"
                                     ELSE "SUCCESS"))
      /\ ticket' = [ticket EXCEPT ![rec[r].ticket] = "USED"]
      /\ UNCHANGED faults

\* A query of the transaction throws: nothing of it stays, the batch goes on.
SyncThrows(k) ==
  /\ sync[k].pc \in {"ticket", "write"}
  /\ faults < MaxFaults /\ faults' = faults + 1
  /\ SetSync(k, Answered(k, sync[k].cur, "ERROR"))
  /\ UNCHANGED ticket

SyncDies(k) ==
  /\ sync[k].pc \notin {"idle", "done", "dead"}
  /\ faults < MaxFaults /\ faults' = faults + 1
  /\ SetSync(k, [sync[k] EXCEPT !.pc = "dead"])
  /\ UNCHANGED ticket
-----------------------------------------------------------------------------
ScanStep(h) == ScanDevice(h) \/ ScanLookup(h) \/ ScanShow(h) \/ ScanAdmit(h)
                 \/ ScanLog(h)

SyncStep(k) == SyncDevice(k) \/ (\E r \in Recs : SyncDuplicate(k, r))
                 \/ SyncLookup(k) \/ SyncWrite(k)

DeviceStep(d) == RegisterDevice(d) \/ AuthenticateDevice(d) \/ DeactivateDevice(d)

ScanNext ==
  \/ OpenGates \/ CloseGates
  \/ \E d \in Devices :
       \/ DeviceStep(d)
       \/ \E r \in Recs, t \in Tickets \cup {Junk} : ScanOffline(r, d, t)
       \/ \E k \in Syncs, batch \in SUBSET Recs, own \in BOOLEAN :
            SyncStart(k, d, batch, own)
  \/ \E h \in Scans :
       \/ \E t \in Tickets \cup {Junk}, d \in Devices \cup {NoDevice},
             own \in BOOLEAN : ScanStart(h, t, d, own)
       \/ ScanStep(h) \/ ScanDies(h)
  \/ \E k \in Syncs : SyncStep(k) \/ SyncThrows(k) \/ SyncDies(k)

ScanSpec == ScanInit /\ [][ScanNext]_scanVars
-----------------------------------------------------------------------------
(* Properties                                                              *)

GateEntry(h, t) == scan[h].ticket = t /\ scan[h].result = "SUCCESS"
SyncEntry(k, r, t) == rec[r].ticket = t /\ sync[k].result[r] = "SUCCESS"

\* A ticket opens the gate once, however many scans of it run at the same time
\* and whatever uploads mix with them: the update tests the status again.
OneEntryAtTheGate ==
  \A g, h \in Scans, t \in Tickets :
    GateEntry(g, t) /\ GateEntry(h, t) => g = h

\* A ticket is booked as used twice only if an upload ran at the same time as
\* the other request: what began after the first was over never admits again.
\* The upload reads the status and then updates by id.
SecondEntryOnlyByOverlap ==
  \A t \in Tickets :
    /\ \A g \in Scans, k \in Syncs, r \in Recs :
         GateEntry(g, t) /\ SyncEntry(k, r, t)
           => g \notin before[k] /\ k \notin before[g]
    /\ \A k, l \in Syncs, r, s \in Recs :
         SyncEntry(k, r, t) /\ SyncEntry(l, s, t)
           => (k = l /\ r = s) \/ (k # l /\ k \notin before[l] /\ l \notin before[k])

\* Sending a batch again after its first upload is over writes no second row
\* of a scan, whatever the first upload had done when it died.
ReplayWritesNothing ==
  \A k, l \in Syncs, r \in Recs :
    /\ k # l
    /\ {sync[k].result[r], sync[l].result[r]} \subseteq Booked
    => k \notin before[l] /\ l \notin before[k]

\* A device that was revoked when it sent a request lets nobody in by it, even
\* with a token that is still good.
NoEntryAfterRevocation ==
  /\ \A h \in Scans, t \in Tickets : GateEntry(h, t) => h \notin revoked
  /\ \A k \in Syncs, r \in Recs, t \in Tickets :
       SyncEntry(k, r, t) => k \notin revoked
=============================================================================
