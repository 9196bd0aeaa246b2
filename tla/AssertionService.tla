-------------------------- MODULE AssertionService --------------------------
(***************************************************************************)
(* POST /v1/assertions/verify of the Issuer Service                        *)
(* (crates/issuer-service/src/service.rs verify_assertion): concurrent     *)
(* handlers that advance a device's App Attest counter, or flag the device *)
(* when a counter is used twice.  One action per statement sent to         *)
(* Postgres, with what READ COMMITTED makes of it:                         *)
(*   - a statement sees the rows committed when it runs;                   *)
(*   - an UPDATE whose WHERE matches a row locked by another transaction   *)
(*     waits, and evaluates the WHERE again on the row it is given; one    *)
(*     whose WHERE does not match updates nothing and does not wait;       *)
(*   - the row stays locked, and the new version invisible, until commit.  *)
(* A handler may be lost at any await (database error, 15 s TimeoutLayer,  *)
(* client gone): its transaction rolls back, unless it is the COMMIT that  *)
(* is in flight, which may have happened.                                  *)
(***************************************************************************)
EXTENDS Naturals, Sequences

CONSTANTS
    None,
    Handlers,       \* concurrent requests
    Devices,        \* enrolled devices
    Allowed,        \* devices whose app_id and environment the policy accepts
    Requests,       \* [well_formed, device, digest, counter, signed]
    MaxRequests     \* bound on the requests of a behaviour

ASSUME DevicesAssumption == Allowed \subseteq Devices
ASSUME CountersAssumption == \A r \in Requests : r.counter \in Nat

Responses == {"BadRequest", "UnknownDevice", "DeviceNotActive", "Rejected", "Verified",
              "CounterConflict", "AssertionReplay", "Internal"}

ASSUME NoneAssumption == None \notin Requests /\ None \notin STRING /\ None \notin Responses

VARIABLES
    devices,    \* committed rows: id -> [counter, last_payload_digest, status]
    audit,      \* audit_events, in commit order
    handler,    \* per handler: [pc, req, event, response]
    served      \* requests received so far

vars == <<devices, audit, handler, served>>

Counters == {r.counter : r \in Requests}
Digests == {r.digest : r \in Requests}
Enrolled == [counter |-> 0, last_payload_digest |-> None, status |-> "active"]
Idle == [pc |-> "idle", req |-> None, event |-> None, response |-> None]

Init ==
    /\ devices = [d \in Devices |-> Enrolled]
    /\ audit = <<>>
    /\ handler = [h \in Handlers |-> Idle]
    /\ served = 0

-----------------------------------------------------------------------------
Locals(h) == handler[h]
Req(h) == Locals(h).req
At(h, pc) == Locals(h).pc = pc
Free(h) == Locals(h).pc \in {"idle", "replied"}

Goto(h, pc) == handler' = [handler EXCEPT ![h].pc = pc]
Reply(h, response) ==
    handler' = [handler EXCEPT ![h].pc = "replied", ![h].response = response]

\* The transaction goes on to write this audit event.
Record(h, event) ==
    handler' = [handler EXCEPT ![h].pc = "audit", ![h].event = event]

\* A transaction that has updated its device's row, and not committed yet.
HoldsRow(h) ==
    /\ Locals(h).pc \in {"audit", "commit"}
    /\ Locals(h).event \in {"assertion_verified", "device_flagged"}
row_locked(d) == \E h \in Handlers : HoldsRow(h) /\ Req(h).device = d

\* An audit row.  The code leaves the digest out of the rejections; here it is
\* history, for the properties.
entry(req, event) ==
    [event |-> event, device |-> req.device, counter |-> req.counter, digest |-> req.digest]

\* parse_assertion_request.
Receive(h, r) ==
    /\ Free(h)
    /\ served < MaxRequests
    /\ served' = served + 1
    /\ handler' = [handler EXCEPT ![h] =
            [pc |-> IF r.well_formed THEN "select" ELSE "replied", req |-> r, event |-> None,
             response |-> IF r.well_formed THEN None ELSE "BadRequest"]]
    /\ UNCHANGED <<devices, audit>>

\* The device is read outside the transaction; policy and signature are
\* checked without I/O.
SelectDevice(h) ==
    LET d == Req(h).device IN
    /\ At(h, "select")
    /\ IF d \notin Devices THEN Reply(h, "UnknownDevice")
       ELSE IF devices[d].status # "active" THEN Reply(h, "DeviceNotActive")
       ELSE IF d \notin Allowed THEN Reply(h, "Rejected")
       ELSE IF ~Req(h).signed THEN Goto(h, "audit_reject")
       ELSE Goto(h, "advance")
    /\ UNCHANGED <<devices, audit, served>>

\* audit_reject is best effort: the answer is the same if the write fails.
AuditReject(h) ==
    /\ At(h, "audit_reject")
    /\ \/ audit' = Append(audit, entry(Req(h), "assertion_rejected"))
       \/ UNCHANGED audit
    /\ Reply(h, "Rejected")
    /\ UNCHANGED <<devices, served>>

\* Mutant: the UPDATE trusts the status that was read before the transaction.
advances_AnyStatus(row, r) == row.counter < r.counter

\* where status = 'active' and counter < $2
advances(row, r) == row.status = "active" /\ row.counter < r.counter

\* Mutant: the UPDATE does not wait for the row's lock.
Advance_NoLock(h) ==
    /\ At(h, "advance")
    /\ IF advances(devices[Req(h).device], Req(h)) THEN Record(h, "assertion_verified")
                                                  ELSE Goto(h, "flag")
    /\ UNCHANGED <<devices, audit, served>>

\* The conditional UPDATE of the counter.
Advance(h) ==
    LET d == Req(h).device IN
    /\ At(h, "advance")
    /\ \/ /\ advances(devices[d], Req(h))
          /\ ~row_locked(d)
          /\ Record(h, "assertion_verified")
       \/ /\ ~advances(devices[d], Req(h))
          /\ Goto(h, "flag")
    /\ UNCHANGED <<devices, audit, served>>

\* Mutant: any counter that does not advance is a conflict.
conflicts_Stale(row, r) ==
    row.status = "active" /\ row.counter >= r.counter /\ row.last_payload_digest # r.digest

\* where status = 'active' and counter = $2 and
\* last_payload_digest is distinct from $3
conflicts(row, r) ==
    /\ row.status = "active"
    /\ row.counter = r.counter
    /\ row.last_payload_digest # r.digest

\* Mutant: a locked row is skipped, not waited for.
Flag_SkipLocked(h) ==
    LET d == Req(h).device IN
    /\ At(h, "flag")
    /\ IF conflicts(devices[d], Req(h)) /\ ~row_locked(d)
         THEN Record(h, "device_flagged") ELSE Goto(h, "still_active")
    /\ UNCHANGED <<devices, audit, served>>

\* The conditional UPDATE that flags the device.
Flag(h) ==
    LET d == Req(h).device IN
    /\ At(h, "flag")
    /\ \/ /\ conflicts(devices[d], Req(h))
          /\ ~row_locked(d)
          /\ Record(h, "device_flagged")
       \/ /\ ~conflicts(devices[d], Req(h))
          /\ Goto(h, "still_active")
    /\ UNCHANGED <<devices, audit, served>>

\* select 1 ... where status = 'active': names the rejection.
StillActive(h) ==
    /\ At(h, "still_active")
    /\ Record(h, IF devices[Req(h).device].status = "active"
                   THEN "assertion_replay_rejected" ELSE "assertion_rejected")
    /\ UNCHANGED <<devices, audit, served>>

\* Mutant: a second connection writes the event, and waits for the row its own
\* handler has locked.
Audit_OtherConnection(h) ==
    /\ At(h, "audit")
    /\ ~row_locked(Req(h).device)
    /\ Goto(h, "commit")
    /\ UNCHANGED <<devices, audit, served>>

\* The audit row is inserted in the same transaction.
Audit(h) ==
    /\ At(h, "audit")
    /\ Goto(h, "commit")
    /\ UNCHANGED <<devices, audit, served>>

\* Mutant: the audit event is written after the transaction, and lost.
committed_Unaudited(h) ==
    LET r == Req(h)
        e == Locals(h).event
    IN  /\ devices' = IF e = "assertion_verified"
                        THEN [devices EXCEPT ![r.device] =
                               [counter |-> r.counter, last_payload_digest |-> r.digest,
                                status |-> "active"]]
                      ELSE IF e = "device_flagged"
                        THEN [devices EXCEPT ![r.device].status = "flagged"]
                      ELSE devices
        /\ UNCHANGED audit

\* What the transaction did becomes visible, the audit event with it.
committed(h) ==
    LET r == Req(h)
        e == Locals(h).event
    IN  /\ devices' = IF e = "assertion_verified"
                        THEN [devices EXCEPT ![r.device] =
                               [counter |-> r.counter, last_payload_digest |-> r.digest,
                                status |-> "active"]]
                      ELSE IF e = "device_flagged"
                        THEN [devices EXCEPT ![r.device].status = "flagged"]
                      ELSE devices
        /\ audit' = Append(audit, entry(r, e))

\* The answer that goes with the committed event.
answer(event) ==
    CASE event = "assertion_verified"        -> "Verified"
      [] event = "device_flagged"            -> "CounterConflict"
      [] event = "assertion_replay_rejected" -> "AssertionReplay"
      [] event = "assertion_rejected"        -> "DeviceNotActive"

Commit(h) ==
    /\ At(h, "commit")
    /\ committed(h)
    /\ Reply(h, answer(Locals(h).event))
    /\ UNCHANGED served

\* The handler is lost.  Only a COMMIT, or an audit row outside a transaction,
\* that was already on its way takes effect.
Lose(h) ==
    /\ ~Free(h)
    /\ \/ UNCHANGED <<devices, audit>>
       \/ At(h, "commit") /\ committed(h)
       \/ /\ At(h, "audit_reject")
          /\ audit' = Append(audit, entry(Req(h), "assertion_rejected"))
          /\ UNCHANGED devices
    /\ Reply(h, "Internal")
    /\ UNCHANGED served

\* External: an operator revokes a device.  Its UPDATE takes the row lock too.
RevokeDevice(d) ==
    /\ devices[d].status = "active"
    /\ ~row_locked(d)
    /\ devices' = [devices EXCEPT ![d].status = "revoked"]
    /\ UNCHANGED <<audit, handler, served>>

Step(h) ==
    \/ SelectDevice(h) \/ AuditReject(h) \/ Advance(h) \/ Flag(h)
    \/ StillActive(h) \/ Audit(h) \/ Commit(h)

Next ==
    \/ \E h \in Handlers : Step(h) \/ Lose(h) \/ \E r \in Requests : Receive(h, r)
    \/ \E d \in Devices : RevokeDevice(d)

\* The runtime polls every handler, and Postgres answers it.
Fairness == \A h \in Handlers : WF_vars(Step(h))

Spec == Init /\ [][Next]_vars /\ Fairness

-----------------------------------------------------------------------------
Events == {"assertion_verified", "device_flagged", "assertion_replay_rejected",
           "assertion_rejected"}
Pcs == {"idle", "select", "audit_reject", "advance", "flag", "still_active", "audit",
        "commit", "replied"}
Rows == [counter : Nat, last_payload_digest : Digests \cup {None},
         status : {"active", "flagged", "revoked"}]

HandlerStates == [pc : Pcs, req : Requests \cup {None}, event : Events \cup {None},
                  response : Responses \cup {None}]
AuditEvents == [event : Events, device : {r.device : r \in Requests},
                counter : Nat, digest : Digests]

HandlersTyped ==
    /\ handler \in [Handlers -> HandlerStates]
    /\ \A h \in Handlers :
          /\ ~Free(h) => Req(h) \in Requests
          /\ Locals(h).pc \in {"advance", "flag", "still_active", "audit", "commit"}
                => Req(h).device \in Devices
          /\ Locals(h).pc \in {"audit", "commit"} => Locals(h).event \in Events

TypeOK ==
    /\ devices \in [Devices -> Rows]
    /\ audit \in Seq(AuditEvents)
    /\ HandlersTyped
    /\ served \in Nat

\* A transaction in flight: what its WHERE clause found is still what it will
\* overwrite, and no other transaction is writing that row.
PendingIsCurrent ==
    /\ \A h \in Handlers : HoldsRow(h) =>
          LET row == devices[Req(h).device] IN
          IF Locals(h).event = "assertion_verified" THEN advances(row, Req(h))
                                                    ELSE conflicts(row, Req(h))
    /\ \A g, h \in Handlers :
          g # h /\ HoldsRow(g) /\ HoldsRow(h) => Req(g).device # Req(h).device

\* An assertion the row has left behind, or the very one it accepted.
Harmless(row, r) ==
    \/ row.status # "active"
    \/ row.counter > r.counter
    \/ row.counter = r.counter /\ row.last_payload_digest = r.digest

\* On its way to the answer "replay", or answered so.
CalledReplay(h) ==
    \/ At(h, "still_active")
    \/ Locals(h).pc \in {"audit", "commit"} /\ Locals(h).event = "assertion_replay_rejected"
    \/ At(h, "replied") /\ Locals(h).response = "AssertionReplay"

\* A handler whose UPDATEs matched nothing holds no lock, yet what it concluded
\* from that stays true while others commit.
RejectionsStand ==
    \A h \in Handlers :
        /\ At(h, "flag") => ~advances(devices[Req(h).device], Req(h))
        /\ CalledReplay(h) =>
              /\ Req(h) \in Requests /\ Req(h).device \in Devices
              /\ Harmless(devices[Req(h).device], Req(h))

\* service.rs: the state is well typed, every transaction in flight is about
\* to overwrite the row its UPDATE matched, and what a handler concluded from
\* an UPDATE that matched nothing still holds, though it locked nothing.
TransactionsInv == TypeOK /\ PendingIsCurrent /\ RejectionsStand

\* The detailed protocol implements the atomic register.
Register == INSTANCE DeviceRegister
ImplementsRegister == Register!Spec

VerifiedAt(i) == audit[i].event = "assertion_verified"

VerifiedOf(d, i) == VerifiedAt(i) /\ audit[i].device = d

\* Verified assertions of a device appear with strictly increasing counters.
CountersIncrease ==
    \A d \in Devices : \A i, j \in 1 .. Len(audit) :
        i < j /\ VerifiedOf(d, i) /\ VerifiedOf(d, j) => audit[i].counter < audit[j].counter

\* The row holds the counter and the digest of the last one.
RowIsLastVerified ==
    \A d \in Devices :
        \/ /\ \A i \in 1 .. Len(audit) : ~VerifiedOf(d, i)
           /\ devices[d].counter = 0 /\ devices[d].last_payload_digest = None
        \/ \E i \in 1 .. Len(audit) :
              /\ VerifiedOf(d, i) /\ \A j \in 1 .. Len(audit) : VerifiedOf(d, j) => j <= i
              /\ devices[d].counter = audit[i].counter
              /\ devices[d].last_payload_digest = audit[i].digest

\* The audit log tells the counter: verified assertions of a device appear in
\* it with strictly increasing counters, so none is accepted twice, and the
\* stored counter and digest are those of the last one.
AuditTellsTheCounter == CountersIncrease /\ RowIsLastVerified

\* "Only a second, *different* assertion with the counter already accepted
\* proves misuse of the key": replays, late and reordered assertions never flag
\* a device.  One exception: a device that never verified anything has counter
\* 0, and an assertion that carries 0, as no App Attest key does, flags it.
FlaggedOnlyOnConflict ==
    \A i \in 1 .. Len(audit) : audit[i].event = "device_flagged" /\ audit[i].counter # 0 =>
        \E j \in 1 .. i - 1 :
            /\ VerifiedAt(j)
            /\ audit[j].device = audit[i].device
            /\ audit[j].counter = audit[i].counter
            /\ audit[j].digest # audit[i].digest

\* The audit log and the rows agree on who is flagged.
FlaggedIsInactive ==
    \A i \in 1 .. Len(audit) :
        audit[i].event = "device_flagged" =>
            audit[i].device \in Devices /\ devices[audit[i].device].status # "active"

\* Once a device is flagged nothing is accepted from it, whichever handler
\* had read it as active before.
NothingVerifiedOnceFlagged ==
    \A i, j \in 1 .. Len(audit) :
        audit[i].event = "device_flagged" /\ audit[j].device = audit[i].device /\ VerifiedAt(j)
            => j < i

\* A client told "replay" presented something harmless: a stale counter, or
\* the very assertion that was accepted.  A conflict is never passed off as a
\* replay while the device is active, however the handlers interleave.
ReplayIsNeverAConflict ==
    \A h \in Handlers : At(h, "replied") /\ Locals(h).response = "AssertionReplay" =>
        Harmless(devices[Req(h).device], Req(h))

\* Every request is answered; waiting for a row lock ends.
EveryRequestAnswered == \A h \in Handlers : ~Free(h) ~> At(h, "replied")
=============================================================================
