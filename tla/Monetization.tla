---------------------------- MODULE Monetization ----------------------------
(***************************************************************************)
(* The platform fee of a tenant: AdminService.updateMonetization           *)
(* (admin/admin.service.ts) reads the tenant, tests the request, and       *)
(* writes an audit row and the tenant in one transaction, which is one     *)
(* step here.  A field the request leaves out keeps its value.             *)
(***************************************************************************)
EXTENDS Naturals

CONSTANTS Updates, NoUpdate,  \* requests, each sent once
          Values, Missing,    \* values a request may carry, or leave out
          MaxPercent          \* the largest PERCENTAGE fee

ASSUME MonetizationAssumption ==
  /\ NoUpdate \notin Updates
  /\ Values \subseteq Nat /\ Missing \notin Values
  /\ MaxPercent \in Nat

FeeTypes == {"PERCENTAGE", "FLAT"}

VARIABLES fee,      \* Tenant.platformFeeType and platformFeeValue
          audit,    \* the new fee as the last MonetizationAudit row has it
          update,   \* the requests
          latest,   \* history: the update that wrote last
          beside,   \* history: updates that ran at the same time as another
          partial   \* history: an update left out the type or the value

feeVars == <<fee, audit, update, latest, beside, partial>>

Fee == [type : FeeTypes, value : Values]
Request == [type : FeeTypes \cup {Missing}, value : Values \cup {Missing}]

FeeTypeOK ==
  /\ fee \in Fee /\ audit \in Fee
  /\ update \in [Updates -> [pc : {"idle", "write", "done"}, req : Request, read : Fee]]
  /\ latest \in Updates \cup {NoUpdate}
  /\ beside \subseteq Updates
  /\ partial \in BOOLEAN

\* The approval of a theater wrote the tenant and its first audit row.
FeeInit ==
  /\ \E v \in Values : v <= MaxPercent /\ fee = [type |-> "PERCENTAGE", value |-> v]
  /\ audit = fee
  /\ update = [u \in Updates |->
       [pc |-> "idle", req |-> [type |-> Missing, value |-> Missing], read |-> fee]]
  /\ latest = NoUpdate /\ beside = {} /\ partial = FALSE
-----------------------------------------------------------------------------
\* The test sees the fields of the request alone: a value without a type, or a
\* type without a value, is compared with nothing.
WithinLimit(req) ==
  req.type = "PERCENTAGE" /\ req.value # Missing => req.value <= MaxPercent

Running == {u \in Updates : update[u].pc = "write"}

\* findUnique of the tenant, and the tests.
UpdateRead(u, req) ==
  /\ update[u].pc = "idle" /\ WithinLimit(req)
  /\ update' = [update EXCEPT ![u] = [pc |-> "write", req |-> req, read |-> fee]]
  /\ beside' = IF Running = {} THEN beside ELSE beside \cup Running \cup {u}
  /\ UNCHANGED <<fee, audit, latest, partial>>

\* What a request makes of a fee.
Merged(req, old) ==
  [type  |-> IF req.type = Missing THEN old.type ELSE req.type,
   value |-> IF req.value = Missing THEN old.value ELSE req.value]

\* Mutant of Audited: the audit row takes what was asked for, or nothing
AuditedAsAsked(u) ==
  [type |-> Merged(update[u].req, update[u].read).type,
   value |-> IF update[u].req.value = Missing THEN 0 ELSE update[u].req.value]

\* The audit row is made of the tenant that was read, the tenant of its row.
Audited(u) == Merged(update[u].req, update[u].read)

UpdateWrite(u) ==
  LET req == update[u].req
  IN  /\ update[u].pc = "write"
      /\ audit' = Audited(u)
      /\ fee' = Merged(req, fee)
      /\ update' = [update EXCEPT ![u].pc = "done"]
      /\ latest' = u
      /\ partial' = (partial \/ Missing \in {req.type, req.value})
      /\ UNCHANGED beside

\* A query throws: nothing is written.
UpdateThrows(u) ==
  /\ update[u].pc = "write"
  /\ update' = [update EXCEPT ![u].pc = "done"]
  /\ UNCHANGED <<fee, audit, latest, beside, partial>>

FeeNext ==
  \E u \in Updates :
    \/ \E req \in Request : UpdateRead(u, req)
    \/ UpdateWrite(u) \/ UpdateThrows(u)

FeeSpec == FeeInit /\ [][FeeNext]_feeVars
-----------------------------------------------------------------------------
(* Properties                                                              *)

\* The last audit row tells the fee that tenants pay, unless the update that
\* wrote it ran beside another: one update by itself sets the record straight,
\* whatever went wrong before.
AuditTellsFee == audit = fee \/ latest \in beside

\* A percentage above the limit was put together from two requests, one of
\* which left out the type or the value; no overlap of complete ones makes it.
FeeWithinLimit ==
  fee.type = "PERCENTAGE" => fee.value <= MaxPercent \/ partial

\* What is recorded of the fee, and what it may be, both at once.
FeeAccounted == AuditTellsFee /\ FeeWithinLimit
=============================================================================
