----------------------- MODULE AssertionServiceProofs -----------------------
(***************************************************************************)
(* The counter of a device is an atomic register and the audit log tells   *)
(* its history, for any number of handlers, devices and assertions.        *)
(***************************************************************************)
EXTENDS AssertionService, TLAPS

USE DevicesAssumption, CountersAssumption, NoneAssumption

-----------------------------------------------------------------------------
\* A handler is replaced by a well-typed state; the rest of the table stays.
LEMMA HandlerUpdate ==
    ASSUME TypeOK, NEW h \in Handlers, NEW s \in HandlerStates,
           handler' = [handler EXCEPT ![h] = s],
           s.pc \notin {"idle", "replied"} => s.req \in Requests,
           s.pc \in {"advance", "flag", "still_active", "audit", "commit"}
               => s.req.device \in Devices,
           s.pc \in {"audit", "commit"} => s.event \in Events
    PROVE  HandlersTyped'
    BY DEF TypeOK, HandlersTyped, Free, Req, Locals

\* The three ways a handler moves on.
LEMMA GotoType ==
    ASSUME TypeOK, NEW h \in Handlers, NEW pc \in Pcs, Goto(h, pc), ~Free(h),
           pc \in {"advance", "flag", "still_active"} => Req(h).device \in Devices,
           pc = "commit" => At(h, "audit"), pc # "audit"
    PROVE  HandlersTyped'
    <1> DEFINE s == [Locals(h) EXCEPT !.pc = pc]
    <1>1. Locals(h) \in HandlerStates
        BY DEF TypeOK, HandlersTyped, Locals
    <1>2. s \in HandlerStates /\ s.pc = pc /\ s.req = Req(h) /\ s.event = Locals(h).event
        BY <1>1 DEF HandlerStates, Req
    <1>3. handler' = [handler EXCEPT ![h] = s]
        BY DEF Goto, Locals
    <1>4. Req(h) \in Requests
        BY DEF TypeOK, HandlersTyped
    <1>5. pc = "commit" => Req(h).device \in Devices /\ Locals(h).event \in Events
        BY DEF TypeOK, HandlersTyped, At
    <1> HIDE DEF s
    <1>6. QED  BY <1>2, <1>3, <1>4, <1>5, HandlerUpdate

LEMMA ReplyType ==
    ASSUME TypeOK, NEW h \in Handlers, NEW a \in Responses, Reply(h, a)
    PROVE  HandlersTyped'
    <1> DEFINE s == [Locals(h) EXCEPT !.pc = "replied", !.response = a]
    <1>1. Locals(h) \in HandlerStates
        BY DEF TypeOK, HandlersTyped, Locals
    <1>2. s \in HandlerStates /\ s.pc = "replied"
        BY <1>1 DEF HandlerStates, Pcs
    <1>3. handler' = [handler EXCEPT ![h] = s]
        BY DEF Reply, Locals
    <1> HIDE DEF s
    <1>4. QED  BY <1>2, <1>3, HandlerUpdate

LEMMA RecordType ==
    ASSUME TypeOK, NEW h \in Handlers, NEW e \in Events, Record(h, e),
           Locals(h).pc \in {"advance", "flag", "still_active"}
    PROVE  HandlersTyped'
    <1> DEFINE s == [Locals(h) EXCEPT !.pc = "audit", !.event = e]
    <1>1. Locals(h) \in HandlerStates
        BY DEF TypeOK, HandlersTyped, Locals
    <1>2. s \in HandlerStates /\ s.pc = "audit" /\ s.req = Req(h) /\ s.event = e
        BY <1>1 DEF HandlerStates, Pcs, Req
    <1>3. handler' = [handler EXCEPT ![h] = s]
        BY DEF Record, Locals
    <1>4. Req(h) \in Requests /\ Req(h).device \in Devices
        BY DEF TypeOK, HandlersTyped, Free
    <1> HIDE DEF s
    <1>5. QED  BY <1>2, <1>3, <1>4, HandlerUpdate

\* A commit leaves well-typed rows and appends one well-typed event.
LEMMA CommittedType ==
    ASSUME TypeOK, NEW h \in Handlers, At(h, "commit"), committed(h)
    PROVE  devices' \in [Devices -> Rows] /\ audit' \in Seq(AuditEvents)
    <1>1. Req(h) \in Requests /\ Req(h).device \in Devices /\ Locals(h).event \in Events
        BY DEF TypeOK, HandlersTyped, At, Free
    <1>2. entry(Req(h), Locals(h).event) \in AuditEvents
        BY <1>1 DEF entry, AuditEvents, Digests
    <1>3. audit' \in Seq(AuditEvents)
        BY <1>2 DEF committed, TypeOK
    <1>4. Req(h).counter \in Nat /\ Req(h).digest \in Digests
        BY <1>1 DEF Digests
    <1>5. devices' \in [Devices -> Rows]
        BY <1>1, <1>4 DEF committed, TypeOK, Rows
    <1>6. QED  BY <1>3, <1>5

\* An event of audit_reject is well typed.
LEMMA RejectType ==
    ASSUME TypeOK, NEW h \in Handlers, ~Free(h),
           audit' = Append(audit, entry(Req(h), "assertion_rejected"))
    PROVE  audit' \in Seq(AuditEvents)
    <1>1. entry(Req(h), "assertion_rejected") \in AuditEvents
        BY DEF TypeOK, HandlersTyped, entry, AuditEvents, Digests, Events
    <1>2. QED  BY <1>1 DEF TypeOK

\* The variables keep their types.
THEOREM TypeCorrect == Spec => []TypeOK
<1>1. Init => TypeOK
    BY DEF Init, TypeOK, HandlersTyped, Idle, HandlerStates, Pcs, Free, Locals, Req, Rows, Enrolled
<1>2. TypeOK /\ [Next]_vars => TypeOK'
    <2> SUFFICES ASSUME TypeOK, [Next]_vars PROVE TypeOK'
        OBVIOUS
    <2>1. ASSUME NEW h \in Handlers, NEW r \in Requests, Receive(h, r)
          PROVE  TypeOK'
        <3> DEFINE s == [pc |-> IF r.well_formed THEN "select" ELSE "replied", req |-> r,
                         event |-> None,
                         response |-> IF r.well_formed THEN None ELSE "BadRequest"]
        <3>1. s \in HandlerStates /\ s.pc \in {"select", "replied"} /\ s.req \in Requests
            BY DEF HandlerStates, Pcs, Responses
        <3>2. handler' = [handler EXCEPT ![h] = s] /\ UNCHANGED <<devices, audit>>
            BY <2>1 DEF Receive
        <3>3. served' \in Nat
            BY <2>1 DEF Receive, TypeOK
        <3> HIDE DEF s
        <3>4. QED  BY <3>1, <3>2, <3>3, HandlerUpdate DEF TypeOK
    <2>2. ASSUME NEW h \in Handlers, SelectDevice(h)
          PROVE  TypeOK'
        <3>1. ~Free(h) /\ UNCHANGED <<devices, audit, served>>
            BY <2>2 DEF SelectDevice, At, Free
        <3>2. \/ \E a \in Responses : Reply(h, a)
              \/ Goto(h, "audit_reject")
              \/ Goto(h, "advance") /\ Req(h).device \in Devices
            BY <2>2 DEF SelectDevice, Responses
        <3>3. QED  BY <3>1, <3>2, ReplyType, GotoType DEF TypeOK, Pcs
    <2>3. ASSUME NEW h \in Handlers, AuditReject(h)
          PROVE  TypeOK'
        <3>1. ~Free(h) /\ UNCHANGED <<devices, served>> /\ Reply(h, "Rejected")
            BY <2>3 DEF AuditReject, At, Free
        <3>2. audit' \in Seq(AuditEvents)
            BY <2>3, <3>1, RejectType DEF AuditReject, TypeOK
        <3>3. QED  BY <3>1, <3>2, ReplyType DEF TypeOK, Responses
    <2>4. ASSUME NEW h \in Handlers, Advance(h) \/ Flag(h) \/ StillActive(h)
          PROVE  TypeOK'
        <3>1. /\ Locals(h).pc \in {"advance", "flag", "still_active"} /\ ~Free(h)
              /\ UNCHANGED <<devices, audit, served>>
            BY <2>4 DEF Advance, Flag, StillActive, At, Free
        <3>2. Req(h).device \in Devices
            BY <3>1 DEF TypeOK, HandlersTyped
        <3>3. \/ \E e \in Events : Record(h, e)
              \/ \E pc \in {"flag", "still_active"} : Goto(h, pc)
            BY <2>4 DEF Advance, Flag, StillActive, Events
        <3>4. QED  BY <3>1, <3>2, <3>3, RecordType, GotoType DEF TypeOK, Pcs
    <2>5. ASSUME NEW h \in Handlers, Audit(h)
          PROVE  TypeOK'
        BY <2>5, GotoType DEF Audit, At, Free, TypeOK, Pcs
    <2>6. ASSUME NEW h \in Handlers, Commit(h)
          PROVE  TypeOK'
        <3>1. Locals(h).event \in Events
            BY <2>6 DEF Commit, At, TypeOK, HandlersTyped
        <3>2. answer(Locals(h).event) \in Responses
            BY <3>1 DEF answer, Events, Responses
        <3>3. QED  BY <2>6, <3>2, ReplyType, CommittedType DEF Commit, TypeOK
    <2>7. ASSUME NEW h \in Handlers, Lose(h)
          PROVE  TypeOK'
        <3>1. devices' \in [Devices -> Rows] /\ audit' \in Seq(AuditEvents)
            BY <2>7, CommittedType, RejectType DEF Lose, TypeOK
        <3>2. Reply(h, "Internal") /\ "Internal" \in Responses /\ UNCHANGED served
            BY <2>7 DEF Lose, Responses
        <3>3. QED  BY <3>1, <3>2, ReplyType DEF TypeOK
    <2>8. ASSUME NEW d \in Devices, RevokeDevice(d)
          PROVE  TypeOK'
        <3>1. devices' \in [Devices -> Rows]
            BY <2>8 DEF RevokeDevice, TypeOK, Rows
        <3>2. QED  BY <2>8, <3>1 DEF RevokeDevice, TypeOK, HandlersTyped, Free, Locals, Req
    <2>9. CASE UNCHANGED vars
        BY <2>9 DEF vars, TypeOK, HandlersTyped, Free, Locals, Req
    <2>10. QED
        BY <2>1, <2>2, <2>3, <2>4, <2>5, <2>6, <2>7, <2>8, <2>9 DEF Next, Step
<1>3. QED  BY <1>1, <1>2, PTL DEF Spec

-----------------------------------------------------------------------------
\* How a handler's move looks from outside.
LEMMA Moves ==
    ASSUME TypeOK, NEW h \in Handlers
    PROVE  /\ \A pc : Goto(h, pc) => /\ Locals(h)'.pc = pc /\ Req(h)' = Req(h)
                                     /\ Locals(h)'.event = Locals(h).event
           /\ \A a : Reply(h, a) => /\ Locals(h)'.pc = "replied" /\ Req(h)' = Req(h)
                                     /\ Locals(h)'.response = a
           /\ \A e : Record(h, e) => /\ Locals(h)'.pc = "audit" /\ Req(h)' = Req(h)
                                     /\ Locals(h)'.event = e
           /\ \A r \in Requests : Receive(h, r) =>
                    /\ Locals(h)'.pc \in {"select", "replied"}
                    /\ Locals(h)'.response # "AssertionReplay"
           /\ (\/ \E pc : Goto(h, pc) \/ \E a : Reply(h, a) \/ \E e : Record(h, e)
              \/ \E r \in Requests : Receive(h, r))
                  => \A g \in Handlers \ {h} : Locals(g)' = Locals(g)
<1>1. handler \in [Handlers -> HandlerStates]
    BY DEF TypeOK, HandlersTyped
<1>2. \A pc : Goto(h, pc) => /\ Locals(h)'.pc = pc /\ Req(h)' = Req(h)
                            /\ Locals(h)'.event = Locals(h).event
    BY <1>1 DEF Goto, Locals, Req, HandlerStates
<1>3. \A a : Reply(h, a) => /\ Locals(h)'.pc = "replied" /\ Req(h)' = Req(h)
                            /\ Locals(h)'.response = a
    BY <1>1 DEF Reply, Locals, Req, HandlerStates
<1>4. \A e : Record(h, e) => /\ Locals(h)'.pc = "audit" /\ Req(h)' = Req(h)
                            /\ Locals(h)'.event = e
    BY <1>1 DEF Record, Locals, Req, HandlerStates
<1>5. \A r \in Requests : Receive(h, r) => /\ Locals(h)'.pc \in {"select", "replied"}
                                            /\ Locals(h)'.response # "AssertionReplay"
    <2> SUFFICES ASSUME NEW r \in Requests, Receive(h, r)
                 PROVE  /\ Locals(h)'.pc \in {"select", "replied"}
                        /\ Locals(h)'.response # "AssertionReplay"
        OBVIOUS
    <2>1. /\ Locals(h)'.pc = (IF r.well_formed THEN "select" ELSE "replied")
          /\ Locals(h)'.response = (IF r.well_formed THEN None ELSE "BadRequest")
        BY <1>1 DEF Receive, Locals
    <2>2. None # "AssertionReplay"
        BY DEF Responses
    <2>3. QED  BY <2>1, <2>2
<1>6. (\/ \E pc : Goto(h, pc) \/ \E a : Reply(h, a) \/ \E e : Record(h, e)
       \/ \E r \in Requests : Receive(h, r))
          => \A g \in Handlers \ {h} : Locals(g)' = Locals(g)
    BY <1>1 DEF Goto, Reply, Record, Receive, Locals
<1>7. QED  BY <1>2, <1>3, <1>4, <1>5, <1>6

\* The other handlers' pending writes stay current when only rows they do not
\* hold change, and h itself holds what its WHERE clause has just found.
LEMMA PendingStep ==
    ASSUME TypeOK, PendingIsCurrent, NEW h \in Handlers,
           \A g \in Handlers \ {h} : Locals(g)' = Locals(g),
           \A g \in Handlers \ {h} : HoldsRow(g) =>
                devices'[Req(g).device] = devices[Req(g).device],
           HoldsRow(h)' =>
                /\ IF Locals(h)'.event = "assertion_verified"
                     THEN advances(devices'[Req(h)'.device], Req(h)')
                     ELSE conflicts(devices'[Req(h)'.device], Req(h)')
                /\ \A g \in Handlers \ {h} : HoldsRow(g) => Req(g).device # Req(h)'.device
    PROVE  PendingIsCurrent'
<1>1. \A g \in Handlers \ {h} : (HoldsRow(g)' <=> HoldsRow(g)) /\ Req(g)' = Req(g)
    BY DEF HoldsRow, Req
<1>2. ASSUME NEW g \in Handlers, HoldsRow(g)'
      PROVE  IF Locals(g)'.event = "assertion_verified"
               THEN advances(devices'[Req(g)'.device], Req(g)')
               ELSE conflicts(devices'[Req(g)'.device], Req(g)')
    <2>1. CASE g = h
        BY <1>2, <2>1
    <2>2. CASE g # h
        <3>1. HoldsRow(g) /\ Req(g)' = Req(g) /\ Locals(g)' = Locals(g)
            BY <1>1, <1>2, <2>2
        <3>2. devices'[Req(g).device] = devices[Req(g).device]
            BY <2>2, <3>1
        <3>3. IF Locals(g).event = "assertion_verified"
                THEN advances(devices[Req(g).device], Req(g))
                ELSE conflicts(devices[Req(g).device], Req(g))
            BY <3>1 DEF PendingIsCurrent
        <3>4. QED  BY <3>1, <3>2, <3>3
    <2>3. QED  BY <2>1, <2>2
<1>3. \A f, g \in Handlers :
          f # g /\ HoldsRow(f)' /\ HoldsRow(g)' => Req(f)'.device # Req(g)'.device
    BY <1>1 DEF PendingIsCurrent
<1>4. QED
    BY <1>2, <1>3 DEF PendingIsCurrent, advances, conflicts, HoldsRow, Locals, Req

-----------------------------------------------------------------------------
\* What a step does to the tables: nothing but an audit row that accepts and
\* flags nothing, or one of three atomic changes of a device.
QuietStep ==
    /\ UNCHANGED devices
    /\ \/ UNCHANGED audit
       \/ \E ev \in AuditEvents :
            /\ audit' = Append(audit, ev)
            /\ ev.event \notin {"assertion_verified", "device_flagged"}
AcceptStep(r) ==
    /\ r.device \in Devices /\ advances(devices[r.device], r)
    /\ devices' = [devices EXCEPT ![r.device] =
            [counter |-> r.counter, last_payload_digest |-> r.digest, status |-> "active"]]
    /\ audit' = Append(audit, entry(r, "assertion_verified"))
FlagStep(r) ==
    /\ r.device \in Devices /\ conflicts(devices[r.device], r)
    /\ devices' = [devices EXCEPT ![r.device].status = "flagged"]
    /\ audit' = Append(audit, entry(r, "device_flagged"))
RevokeStep(d) ==
    /\ devices[d].status = "active"
    /\ devices' = [devices EXCEPT ![d].status = "revoked"]
    /\ UNCHANGED audit
TableStep ==
    \/ QuietStep
    \/ \E r \in Requests : AcceptStep(r) \/ FlagStep(r)
    \/ \E d \in Devices : RevokeStep(d)

\* A commit applies exactly what its transaction found and locked.
LEMMA CommitKind ==
    ASSUME TypeOK, PendingIsCurrent, NEW h \in Handlers, At(h, "commit"), committed(h)
    PROVE  /\ QuietStep \/ AcceptStep(Req(h)) \/ FlagStep(Req(h))
           /\ \A g \in Handlers \ {h} : HoldsRow(g) =>
                    devices'[Req(g).device] = devices[Req(g).device]
<1>1. Req(h) \in Requests /\ Req(h).device \in Devices /\ Locals(h).event \in Events
    BY DEF TypeOK, HandlersTyped, At, Free
<1>2. CASE Locals(h).event = "assertion_verified"
    <2>1. HoldsRow(h)
        BY <1>2 DEF HoldsRow, At
    <2>2. advances(devices[Req(h).device], Req(h))
        BY <1>2, <2>1 DEF PendingIsCurrent
    <2>3. \A g \in Handlers \ {h} : HoldsRow(g) => Req(g).device # Req(h).device
        BY <2>1 DEF PendingIsCurrent
    <2>4. devices' = [devices EXCEPT ![Req(h).device] =
            [counter |-> Req(h).counter, last_payload_digest |-> Req(h).digest,
             status |-> "active"]]
        BY <1>2 DEF committed
    <2>5. AcceptStep(Req(h))
        BY <1>1, <1>2, <2>2, <2>4 DEF AcceptStep, committed
    <2>6. \A g \in Handlers \ {h} : HoldsRow(g) =>
              devices'[Req(g).device] = devices[Req(g).device]
        BY <2>3, <2>4 DEF TypeOK, HandlersTyped, HoldsRow
    <2>7. QED  BY <2>5, <2>6
<1>3. CASE Locals(h).event = "device_flagged"
    <2>1. HoldsRow(h)
        BY <1>3 DEF HoldsRow, At
    <2>2. conflicts(devices[Req(h).device], Req(h))
        BY <1>3, <2>1 DEF PendingIsCurrent
    <2>3. \A g \in Handlers \ {h} : HoldsRow(g) => Req(g).device # Req(h).device
        BY <2>1 DEF PendingIsCurrent
    <2>4. devices' = [devices EXCEPT ![Req(h).device].status = "flagged"]
        BY <1>3 DEF committed
    <2>5. FlagStep(Req(h))
        BY <1>1, <1>3, <2>2, <2>4 DEF FlagStep, committed
    <2>6. \A g \in Handlers \ {h} : HoldsRow(g) =>
              devices'[Req(g).device] = devices[Req(g).device]
        BY <2>3, <2>4 DEF TypeOK, HandlersTyped, HoldsRow
    <2>7. QED  BY <2>5, <2>6
<1>4. CASE Locals(h).event \notin {"assertion_verified", "device_flagged"}
    <2>1. entry(Req(h), Locals(h).event) \in AuditEvents
        BY <1>1 DEF entry, AuditEvents, Digests
    <2>2. entry(Req(h), Locals(h).event).event = Locals(h).event
        BY DEF entry
    <2>3. QED  BY <1>4, <2>1, <2>2 DEF committed, QuietStep
<1>5. QED  BY <1>2, <1>3, <1>4

\* Every step is one of the four kinds and keeps the pending writes current.
LEMMA StepKinds ==
    ASSUME TypeOK, PendingIsCurrent, [Next]_vars
    PROVE  TableStep /\ PendingIsCurrent'
<1>1. ASSUME NEW h \in Handlers, UNCHANGED devices,
             \A g \in Handlers \ {h} : Locals(g)' = Locals(g), ~HoldsRow(h)'
      PROVE  PendingIsCurrent'
    BY <1>1, PendingStep
<1>2. ASSUME NEW h \in Handlers,
             \/ \E r \in Requests : Receive(h, r)
             \/ SelectDevice(h) \/ StillActive(h)
      PROVE  TableStep /\ PendingIsCurrent'
    <2>1. UNCHANGED <<devices, audit>>
        BY <1>2 DEF Receive, SelectDevice, StillActive
    <2>2. \/ \E r \in Requests : Receive(h, r)
          \/ \E a : Reply(h, a)
          \/ \E pc \in {"audit_reject", "advance"} : Goto(h, pc)
          \/ \E e \in {"assertion_replay_rejected", "assertion_rejected"} : Record(h, e)
        BY <1>2 DEF SelectDevice, StillActive
    <2>3. ~HoldsRow(h)' /\ \A g \in Handlers \ {h} : Locals(g)' = Locals(g)
        BY <2>2, Moves DEF HoldsRow
    <2>4. QED  BY <1>1, <2>1, <2>3 DEF TableStep, QuietStep
<1>3. ASSUME NEW h \in Handlers, AuditReject(h)
      PROVE  TableStep /\ PendingIsCurrent'
    <2>1. ~HoldsRow(h)' /\ \A g \in Handlers \ {h} : Locals(g)' = Locals(g)
        BY <1>3, Moves DEF AuditReject, HoldsRow
    <2>2. entry(Req(h), "assertion_rejected") \in AuditEvents
        BY <1>3 DEF AuditReject, At, Free, TypeOK, HandlersTyped, entry, AuditEvents,
                    Digests, Events
    <2>3. QuietStep
        BY <1>3, <2>2 DEF AuditReject, QuietStep, entry
    <2>4. QED  BY <1>1, <2>1, <2>3 DEF TableStep, QuietStep
<1>4. ASSUME NEW h \in Handlers, Advance(h)
      PROVE  TableStep /\ PendingIsCurrent'
    <2>1. UNCHANGED <<devices, audit>>
        BY <1>4 DEF Advance
    <2>2. CASE Goto(h, "flag")
        <3>1. ~HoldsRow(h)' /\ \A g \in Handlers \ {h} : Locals(g)' = Locals(g)
            BY <2>2, Moves DEF HoldsRow
        <3>2. QED  BY <1>1, <2>1, <3>1 DEF TableStep, QuietStep
    <2>3. CASE /\ Record(h, "assertion_verified") /\ ~row_locked(Req(h).device)
               /\ advances(devices[Req(h).device], Req(h))
        <3>1. /\ Locals(h)'.event = "assertion_verified" /\ Req(h)' = Req(h)
              /\ \A g \in Handlers \ {h} : Locals(g)' = Locals(g)
            BY <2>3, Moves
        <3>2. \A g \in Handlers \ {h} : HoldsRow(g) => Req(g).device # Req(h).device
            BY <2>3 DEF row_locked
        <3>3. PendingIsCurrent'
            BY <2>1, <2>3, <3>1, <3>2, PendingStep
        <3>4. QED  BY <2>1, <3>3 DEF TableStep, QuietStep
    <2>4. QED  BY <1>4, <2>2, <2>3 DEF Advance
<1>5. ASSUME NEW h \in Handlers, Flag(h)
      PROVE  TableStep /\ PendingIsCurrent'
    <2>1. UNCHANGED <<devices, audit>>
        BY <1>5 DEF Flag
    <2>2. CASE Goto(h, "still_active")
        <3>1. ~HoldsRow(h)' /\ \A g \in Handlers \ {h} : Locals(g)' = Locals(g)
            BY <2>2, Moves DEF HoldsRow
        <3>2. QED  BY <1>1, <2>1, <3>1 DEF TableStep, QuietStep
    <2>3. CASE /\ Record(h, "device_flagged") /\ ~row_locked(Req(h).device)
               /\ conflicts(devices[Req(h).device], Req(h))
        <3>1. /\ Locals(h)'.event = "device_flagged" /\ Req(h)' = Req(h)
              /\ \A g \in Handlers \ {h} : Locals(g)' = Locals(g)
            BY <2>3, Moves
        <3>2. \A g \in Handlers \ {h} : HoldsRow(g) => Req(g).device # Req(h).device
            BY <2>3 DEF row_locked
        <3>3. PendingIsCurrent'
            BY <2>1, <2>3, <3>1, <3>2, PendingStep
        <3>4. QED  BY <2>1, <3>3 DEF TableStep, QuietStep
    <2>4. QED  BY <1>5, <2>2, <2>3 DEF Flag
<1>6. ASSUME NEW h \in Handlers, Audit(h)
      PROVE  TableStep /\ PendingIsCurrent'
    <2>1. /\ Locals(h)'.event = Locals(h).event /\ Req(h)' = Req(h)
          /\ \A g \in Handlers \ {h} : Locals(g)' = Locals(g)
          /\ UNCHANGED <<devices, audit>>
        BY <1>6, Moves DEF Audit
    <2>2. HoldsRow(h)' => HoldsRow(h)
        BY <1>6, <2>1 DEF HoldsRow, Audit, At
    <2>3. HoldsRow(h)' =>
                /\ IF Locals(h)'.event = "assertion_verified"
                     THEN advances(devices'[Req(h)'.device], Req(h)')
                     ELSE conflicts(devices'[Req(h)'.device], Req(h)')
                /\ \A g \in Handlers \ {h} : HoldsRow(g) => Req(g).device # Req(h)'.device
        BY <2>1, <2>2 DEF PendingIsCurrent
    <2>4. PendingIsCurrent'
        BY <2>1, <2>3, PendingStep
    <2>5. QED  BY <2>1, <2>4 DEF TableStep, QuietStep
<1>7. ASSUME NEW h \in Handlers, Commit(h) \/ Lose(h), At(h, "commit"), committed(h)
      PROVE  TableStep /\ PendingIsCurrent'
    <2>1. ~HoldsRow(h)' /\ \A g \in Handlers \ {h} : Locals(g)' = Locals(g)
        BY <1>7, Moves DEF Commit, Lose, HoldsRow
    <2>2. Req(h) \in Requests
        BY <1>7 DEF TypeOK, HandlersTyped, At, Free
    <2>3. QED  BY <1>7, <2>1, <2>2, CommitKind, PendingStep DEF TableStep
<1>8. ASSUME NEW h \in Handlers, Lose(h), ~(At(h, "commit") /\ committed(h))
      PROVE  TableStep /\ PendingIsCurrent'
    <2>1. ~HoldsRow(h)' /\ \A g \in Handlers \ {h} : Locals(g)' = Locals(g)
        BY <1>8, Moves DEF Lose, HoldsRow
    <2>2. entry(Req(h), "assertion_rejected") \in AuditEvents
        BY <1>8 DEF Lose, TypeOK, HandlersTyped, entry, AuditEvents, Digests, Events
    <2>3. QuietStep
        BY <1>8, <2>2 DEF Lose, QuietStep, entry
    <2>4. QED  BY <1>1, <2>1, <2>3 DEF TableStep, QuietStep
<1>9. ASSUME NEW d \in Devices, RevokeDevice(d)
      PROVE  TableStep /\ PendingIsCurrent'
    <2>1. TableStep
        BY <1>9 DEF RevokeDevice, TableStep, RevokeStep
    <2>2. \A g \in Handlers : Locals(g)' = Locals(g)
        BY <1>9 DEF RevokeDevice, Locals
    <2>3. \A g \in Handlers : HoldsRow(g) =>
              devices'[Req(g).device] = devices[Req(g).device]
        BY <1>9 DEF RevokeDevice, row_locked, TypeOK, HandlersTyped, HoldsRow
    <2>4. PendingIsCurrent'
        <3>1. \A g \in Handlers : (HoldsRow(g)' <=> HoldsRow(g)) /\ Req(g)' = Req(g)
            BY <2>2 DEF HoldsRow, Req
        <3>2. CASE Handlers = {}
            BY <3>2 DEF PendingIsCurrent
        <3>3. ASSUME NEW h \in Handlers PROVE PendingIsCurrent'
            BY <2>2, <2>3, <3>1, PendingStep DEF PendingIsCurrent
        <3>4. QED  BY <3>2, <3>3
    <2>5. QED  BY <2>1, <2>4
<1>10. CASE UNCHANGED vars
    BY <1>10 DEF vars, TableStep, QuietStep, PendingIsCurrent, HoldsRow, Req, Locals,
                 advances, conflicts
<1>11. QED
    BY <1>2, <1>3, <1>4, <1>5, <1>6, <1>7, <1>8, <1>9, <1>10 DEF Next, Step, Commit

-----------------------------------------------------------------------------
\* What the log says about the rows; inductive together.
LogInv == AuditTellsTheCounter /\ FlaggedIsInactive /\ NothingVerifiedOnceFlagged

\* An appended event is the last one, the others are where they were.
LEMMA Appended ==
    ASSUME TypeOK, NEW ev \in AuditEvents, audit' = Append(audit, ev)
    PROVE  /\ Len(audit) \in Nat /\ Len(audit') = Len(audit) + 1
           /\ audit'[Len(audit) + 1] = ev
           /\ \A i \in 1 .. Len(audit) : audit'[i] = audit[i]
    BY DEF TypeOK

\* The stored counter bounds every verified one.
LEMMA CounterBounds ==
    ASSUME TypeOK, AuditTellsTheCounter, NEW d \in Devices,
           NEW i \in 1 .. Len(audit), VerifiedOf(d, i)
    PROVE  audit[i].counter <= devices[d].counter
<1>1. PICK k \in 1 .. Len(audit) :
        /\ VerifiedOf(d, k) /\ i <= k /\ devices[d].counter = audit[k].counter
    BY DEF AuditTellsTheCounter, RowIsLastVerified
<1>2. audit[i].counter \in Nat /\ audit[k].counter \in Nat
    <2>1. \A j \in 1 .. Len(audit) : audit[j] \in AuditEvents
        BY DEF TypeOK
    <2>2. QED  BY <1>1, <2>1 DEF AuditEvents
<1>3. i < k => audit[i].counter < audit[k].counter
    BY <1>1 DEF AuditTellsTheCounter, CountersIncrease
<1>4. i = k \/ i < k
    BY <1>1 DEF TypeOK
<1>5. QED  BY <1>1, <1>2, <1>3, <1>4

\* Rows change in status at most, and events of no consequence may be added.
LEMMA LogUntouched ==
    ASSUME TypeOK, LogInv, DOMAIN devices' = DOMAIN devices,
           \A d \in Devices :
              /\ devices'[d].counter = devices[d].counter
              /\ devices'[d].last_payload_digest = devices[d].last_payload_digest
              /\ devices[d].status # "active" => devices'[d].status # "active",
           \/ UNCHANGED audit
           \/ \E ev \in AuditEvents :
                /\ audit' = Append(audit, ev)
                /\ ev.event \notin {"assertion_verified", "device_flagged"}
    PROVE  LogInv'
<1> DEFINE n == Len(audit)
<1>1. n \in Nat
    BY DEF TypeOK
<1>2. /\ n \in Nat /\ Len(audit') \in Nat /\ n <= Len(audit')
      /\ \A i \in 1 .. n : audit'[i] = audit[i]
      /\ \A i \in 1 .. Len(audit') :
            i \in 1 .. n \/ audit'[i].event \notin {"assertion_verified", "device_flagged"}
    <2>1. CASE UNCHANGED audit
        BY <1>1, <2>1
    <2>2. ASSUME NEW ev \in AuditEvents, audit' = Append(audit, ev),
                 ev.event \notin {"assertion_verified", "device_flagged"}
          PROVE  /\ Len(audit') \in Nat /\ n <= Len(audit')
                 /\ \A i \in 1 .. n : audit'[i] = audit[i]
                 /\ \A i \in 1 .. Len(audit') :
                       i \in 1 .. n \/ audit'[i].event \notin
                                          {"assertion_verified", "device_flagged"}
        <3>1. /\ Len(audit') = n + 1 /\ audit'[n + 1] = ev
              /\ \A i \in 1 .. n : audit'[i] = audit[i]
            BY <2>2, Appended
        <3>2. QED  BY <1>1, <2>2, <3>1
    <2>3. QED  BY <1>1, <2>1, <2>2
<1>3. \A d \in Devices : \A i \in 1 .. Len(audit') :
          VerifiedOf(d, i)' <=> i \in 1 .. n /\ VerifiedOf(d, i)
    BY <1>2 DEF VerifiedOf, VerifiedAt
<1> HIDE DEF n
<1>4. CountersIncrease'
    BY <1>2, <1>3 DEF LogInv, AuditTellsTheCounter, CountersIncrease, n
<1>5. RowIsLastVerified'
    <2> SUFFICES ASSUME NEW d \in Devices
                 PROVE  \/ /\ \A i \in 1 .. Len(audit') : ~VerifiedOf(d, i)'
                           /\ devices'[d].counter = 0 /\ devices'[d].last_payload_digest = None
                        \/ \E i \in 1 .. Len(audit') :
                              /\ VerifiedOf(d, i)'
                              /\ \A j \in 1 .. Len(audit') : VerifiedOf(d, j)' => j <= i
                              /\ devices'[d].counter = audit'[i].counter
                              /\ devices'[d].last_payload_digest = audit'[i].digest
        BY DEF RowIsLastVerified
    <2>1. CASE \A i \in 1 .. n : ~VerifiedOf(d, i)
        BY <1>3, <2>1 DEF LogInv, AuditTellsTheCounter, RowIsLastVerified, n
    <2>2. ASSUME NEW k \in 1 .. n, VerifiedOf(d, k),
                 \A j \in 1 .. n : VerifiedOf(d, j) => j <= k,
                 devices[d].counter = audit[k].counter,
                 devices[d].last_payload_digest = audit[k].digest
          PROVE  \E i \in 1 .. Len(audit') :
                      /\ VerifiedOf(d, i)'
                      /\ \A j \in 1 .. Len(audit') : VerifiedOf(d, j)' => j <= i
                      /\ devices'[d].counter = audit'[i].counter
                      /\ devices'[d].last_payload_digest = audit'[i].digest
        <3>1. k \in 1 .. Len(audit') /\ audit'[k] = audit[k]
            BY <1>2
        <3>2. QED  BY <1>3, <2>2, <3>1
    <2>3. QED  BY <2>1, <2>2 DEF LogInv, AuditTellsTheCounter, RowIsLastVerified, n
<1>6. FlaggedIsInactive'
    BY <1>2 DEF LogInv, FlaggedIsInactive, n
<1>7. NothingVerifiedOnceFlagged'
    BY <1>2 DEF LogInv, NothingVerifiedOnceFlagged, VerifiedAt, n
<1>8. QED  BY <1>4, <1>5, <1>6, <1>7 DEF LogInv, AuditTellsTheCounter

\* An accepted assertion's counter is above all the earlier ones.
LEMMA LogAccept ==
    ASSUME TypeOK, LogInv, NEW r \in Requests, AcceptStep(r)
    PROVE  LogInv'
<1> DEFINE n == Len(audit)
           ev == entry(r, "assertion_verified")
<1>1. r.device \in Devices /\ devices[r.device].status = "active"
      /\ devices[r.device].counter < r.counter
    BY DEF AcceptStep, advances
<1>2. ev \in AuditEvents
    BY DEF entry, AuditEvents, Digests, Events
<1>3. /\ ev.event = "assertion_verified" /\ ev.device = r.device
      /\ ev.counter = r.counter /\ ev.digest = r.digest
    BY DEF entry
<1>4. /\ n \in Nat /\ Len(audit') = n + 1 /\ audit'[n + 1] = ev
      /\ \A i \in 1 .. n : audit'[i] = audit[i]
    BY <1>2, Appended DEF AcceptStep
<1> HIDE DEF ev
<1>5. \A i \in 1 .. Len(audit') : i \in 1 .. n \/ i = n + 1
    BY <1>4
<1>6. \A d \in Devices : \A i \in 1 .. Len(audit') :
          VerifiedOf(d, i)' <=> \/ i \in 1 .. n /\ VerifiedOf(d, i)
                                \/ i = n + 1 /\ d = r.device
    BY <1>3, <1>4, <1>5 DEF VerifiedOf, VerifiedAt
<1>7. /\ devices'[r.device].counter = r.counter
      /\ devices'[r.device].last_payload_digest = r.digest
      /\ \A d \in Devices \ {r.device} : devices'[d] = devices[d]
    BY <1>1 DEF AcceptStep, TypeOK
<1>8. CountersIncrease'
    <2> SUFFICES ASSUME NEW d \in Devices, NEW i \in 1 .. Len(audit'),
                        NEW j \in 1 .. Len(audit'), i < j, VerifiedOf(d, i)', VerifiedOf(d, j)'
                 PROVE  audit'[i].counter < audit'[j].counter
        BY DEF CountersIncrease
    <2>1. i \in 1 .. n /\ VerifiedOf(d, i) /\ audit'[i] = audit[i]
        BY <1>4, <1>6
    <2>2. CASE j \in 1 .. n
        BY <1>4, <1>6, <2>1, <2>2 DEF LogInv, AuditTellsTheCounter, CountersIncrease
    <2>3. CASE j = n + 1
        <3>1. d = r.device
            BY <1>4, <1>6, <2>3
        <3>2. audit[i].counter <= devices[d].counter
            BY <2>1, CounterBounds DEF LogInv
        <3>3. audit[i].counter \in Nat /\ devices[d].counter \in Nat
            <4>1. audit[i] \in AuditEvents
                BY <2>1 DEF TypeOK
            <4>2. QED  BY <4>1 DEF TypeOK, Rows, AuditEvents
        <3>4. r.counter \in Nat
            OBVIOUS
        <3> HIDE DEF n
        <3>5. QED  BY <1>1, <1>3, <1>4, <2>1, <2>3, <3>1, <3>2, <3>3, <3>4
    <2>4. QED  BY <1>5, <2>2, <2>3
<1>9. RowIsLastVerified'
    <2> SUFFICES ASSUME NEW d \in Devices
                 PROVE  \/ /\ \A i \in 1 .. Len(audit') : ~VerifiedOf(d, i)'
                           /\ devices'[d].counter = 0 /\ devices'[d].last_payload_digest = None
                        \/ \E i \in 1 .. Len(audit') :
                              /\ VerifiedOf(d, i)'
                              /\ \A j \in 1 .. Len(audit') : VerifiedOf(d, j)' => j <= i
                              /\ devices'[d].counter = audit'[i].counter
                              /\ devices'[d].last_payload_digest = audit'[i].digest
        BY DEF RowIsLastVerified
    <2>1. CASE d = r.device
        <3>1. n + 1 \in 1 .. Len(audit') /\ \A j \in 1 .. Len(audit') : j <= n + 1
            BY <1>4
        <3> HIDE DEF n
        <3>2. QED  BY <1>3, <1>4, <1>6, <1>7, <2>1, <3>1
    <2>2. CASE d # r.device
        <3>1. \A i \in 1 .. n : i \in 1 .. Len(audit')
            BY <1>4
        <3>2. devices'[d] = devices[d]
            BY <1>7, <2>2
        <3>3. \A i \in 1 .. Len(audit') : VerifiedOf(d, i)' <=> i \in 1 .. n /\ VerifiedOf(d, i)
            BY <1>6, <2>2
        <3>4. QED
            BY <1>4, <3>1, <3>2, <3>3 DEF LogInv, AuditTellsTheCounter, RowIsLastVerified
    <2>3. QED  BY <2>1, <2>2
<1>10. \A i \in 1 .. Len(audit') : audit'[i].event = "device_flagged" =>
          i \in 1 .. n /\ audit'[i] = audit[i] /\ audit[i].device \in Devices \ {r.device}
    BY <1>1, <1>3, <1>4, <1>5 DEF LogInv, FlaggedIsInactive
<1>11. FlaggedIsInactive'
    BY <1>7, <1>10 DEF LogInv, FlaggedIsInactive
<1>12. NothingVerifiedOnceFlagged'
    BY <1>3, <1>4, <1>5, <1>10 DEF LogInv, NothingVerifiedOnceFlagged, VerifiedAt
<1>13. QED  BY <1>8, <1>9, <1>11, <1>12 DEF LogInv, AuditTellsTheCounter

\* Flagging appends one event, and the row is inactive from then on.
LEMMA LogFlag ==
    ASSUME TypeOK, LogInv, NEW r \in Requests, FlagStep(r)
    PROVE  LogInv'
<1> DEFINE n == Len(audit)
           ev == entry(r, "device_flagged")
<1>1. r.device \in Devices
    BY DEF FlagStep
<1>2. ev \in AuditEvents
    BY DEF entry, AuditEvents, Digests, Events
<1>3. ev.event = "device_flagged" /\ ev.device = r.device
    BY DEF entry
<1>4. /\ n \in Nat /\ Len(audit') = n + 1 /\ audit'[n + 1] = ev
      /\ \A i \in 1 .. n : audit'[i] = audit[i]
    BY <1>2, Appended DEF FlagStep
<1> HIDE DEF ev
<1>5. \A i \in 1 .. Len(audit') : i \in 1 .. n \/ i = n + 1
    BY <1>4
<1>6. \A d \in Devices : \A i \in 1 .. Len(audit') :
          VerifiedOf(d, i)' <=> i \in 1 .. n /\ VerifiedOf(d, i)
    BY <1>3, <1>4, <1>5 DEF VerifiedOf, VerifiedAt
<1>7. \A d \in Devices :
          /\ devices'[d].counter = devices[d].counter
          /\ devices'[d].last_payload_digest = devices[d].last_payload_digest
          /\ devices[d].status # "active" => devices'[d].status # "active"
          /\ d = r.device => devices'[d].status # "active"
    BY <1>1 DEF FlagStep, TypeOK, Rows
<1>8. CountersIncrease'
    BY <1>4, <1>6 DEF LogInv, AuditTellsTheCounter, CountersIncrease
<1>9. RowIsLastVerified'
    <2>1. \A i \in 1 .. n : i \in 1 .. Len(audit')
        BY <1>4
    <2>2. QED
        BY <1>4, <1>6, <1>7, <2>1 DEF LogInv, AuditTellsTheCounter, RowIsLastVerified
<1>10. FlaggedIsInactive'
    BY <1>1, <1>3, <1>4, <1>5, <1>7 DEF LogInv, FlaggedIsInactive
<1>11. NothingVerifiedOnceFlagged'
    BY <1>3, <1>4, <1>5 DEF LogInv, NothingVerifiedOnceFlagged, VerifiedAt
<1>12. QED  BY <1>8, <1>9, <1>10, <1>11 DEF LogInv, AuditTellsTheCounter

\* The tables' invariants, together.
ServiceInv == PendingIsCurrent /\ LogInv

LEMMA ServiceInvStep ==
    ASSUME TypeOK, ServiceInv, [Next]_vars
    PROVE  ServiceInv'
<1>1. TableStep /\ PendingIsCurrent'
    BY StepKinds DEF ServiceInv
<1>2. ASSUME QuietStep PROVE LogInv'
    BY <1>2, LogUntouched DEF QuietStep, ServiceInv
<1>3. ASSUME NEW d \in Devices, RevokeStep(d) PROVE LogInv'
    <2>1. /\ DOMAIN devices' = DOMAIN devices
          /\ \A g \in Devices :
              /\ devices'[g].counter = devices[g].counter
              /\ devices'[g].last_payload_digest = devices[g].last_payload_digest
              /\ devices[g].status # "active" => devices'[g].status # "active"
        BY <1>3 DEF RevokeStep, TypeOK, Rows
    <2>2. QED  BY <1>3, <2>1, LogUntouched DEF RevokeStep, ServiceInv
<1>4. QED  BY <1>1, <1>2, <1>3, LogAccept, LogFlag DEF TableStep, ServiceInv

\* The invariants hold throughout.
THEOREM ServiceInvariant == Spec => []ServiceInv
<1>1. Init => ServiceInv
    BY DEF Init, ServiceInv, PendingIsCurrent, LogInv, AuditTellsTheCounter,
           CountersIncrease, RowIsLastVerified, FlaggedIsInactive, VerifiedOf, Enrolled,
           NothingVerifiedOnceFlagged, HoldsRow, Locals, Idle
<1>2. TypeOK /\ ServiceInv /\ [Next]_vars => ServiceInv'
    BY ServiceInvStep
<1>3. QED  BY <1>1, <1>2, TypeCorrect, PTL DEF Spec

\* The audit log records every accepted counter once, in increasing order, and
\* the stored counter is the last of them.
THEOREM AuditSound == Spec => []AuditTellsTheCounter
<1>1. ServiceInv => AuditTellsTheCounter
    BY DEF ServiceInv, LogInv
<1>2. QED  BY <1>1, ServiceInvariant, PTL

\* Nothing is accepted from a flagged device.
THEOREM FlagIsFinal == Spec => []NothingVerifiedOnceFlagged
<1>1. ServiceInv => NothingVerifiedOnceFlagged
    BY DEF ServiceInv, LogInv
<1>2. QED  BY <1>1, ServiceInvariant, PTL

\* Handlers, locks and transactions together implement the atomic register.
THEOREM Refinement == Spec => ImplementsRegister
<1>1. Init => Register!Init
    BY DEF Init, Register!Init, Enrolled, Register!Enrolled
<1>2. TypeOK /\ ServiceInv /\ [Next]_vars => [Register!Next]_devices
    <2> SUFFICES ASSUME TypeOK, ServiceInv, [Next]_vars PROVE [Register!Next]_devices
        OBVIOUS
    <2>1. TableStep
        BY StepKinds DEF ServiceInv
    <2>2. ASSUME NEW r \in Requests, AcceptStep(r) PROVE Register!Next
        <3>1. r.counter \in Counters /\ r.digest \in Digests /\ r.device \in Devices
            BY <2>2 DEF Counters, Digests, AcceptStep
        <3>2. Register!Accept(r.device, r.counter, r.digest)
            BY <2>2 DEF AcceptStep, advances, Register!Accept
        <3>3. QED  BY <3>1, <3>2 DEF Register!Next
    <2>3. ASSUME NEW r \in Requests, FlagStep(r) PROVE Register!Next
        BY <2>3 DEF FlagStep, conflicts, Register!Next, Register!Deactivate
    <2>4. ASSUME NEW d \in Devices, RevokeStep(d) PROVE Register!Next
        BY <2>4 DEF RevokeStep, Register!Next, Register!Deactivate
    <2>5. QED  BY <2>1, <2>2, <2>3, <2>4 DEF TableStep, QuietStep
<1>3. QED
    BY <1>1, <1>2, TypeCorrect, ServiceInvariant, PTL
       DEF Spec, ImplementsRegister, Register!Spec

-----------------------------------------------------------------------------
\* Events keep their justification when another is appended.
LEMMA FlagJustified ==
    ASSUME TypeOK, FlaggedOnlyOnConflict, NEW ev \in AuditEvents, audit' = Append(audit, ev),
           ev.event = "device_flagged" /\ ev.counter # 0 =>
               \E j \in 1 .. Len(audit) :
                   /\ VerifiedAt(j) /\ audit[j].device = ev.device
                   /\ audit[j].counter = ev.counter /\ audit[j].digest # ev.digest
    PROVE  FlaggedOnlyOnConflict'
<1> DEFINE n == Len(audit)
<1>1. /\ n \in Nat /\ Len(audit') = n + 1 /\ audit'[n + 1] = ev
      /\ \A i \in 1 .. n : audit'[i] = audit[i]
    BY Appended
<1>2. \A i \in 1 .. n : VerifiedAt(i)' <=> VerifiedAt(i)
    BY <1>1 DEF VerifiedAt
<1>3. ASSUME NEW i \in 1 .. n, audit'[i].event = "device_flagged", audit'[i].counter # 0
      PROVE  \E j \in 1 .. i - 1 : /\ VerifiedAt(j)' /\ audit'[j].device = audit'[i].device
                                   /\ audit'[j].counter = audit'[i].counter
                                   /\ audit'[j].digest # audit'[i].digest
    <2>1. PICK j \in 1 .. i - 1 : /\ VerifiedAt(j) /\ audit[j].device = audit[i].device
                                  /\ audit[j].counter = audit[i].counter
                                  /\ audit[j].digest # audit[i].digest
        BY <1>1, <1>3 DEF FlaggedOnlyOnConflict
    <2>2. j \in 1 .. n
        BY <1>1
    <2>3. QED  BY <1>1, <1>2, <2>1, <2>2
<1>4. ASSUME ev.event = "device_flagged", ev.counter # 0
      PROVE  \E j \in 1 .. (n + 1) - 1 : /\ VerifiedAt(j)' /\ audit'[j].device = ev.device
                                   /\ audit'[j].counter = ev.counter
                                   /\ audit'[j].digest # ev.digest
    BY <1>1, <1>2, <1>4
<1>5. \A i \in 1 .. Len(audit') : i \in 1 .. n \/ i = n + 1
    BY <1>1
<1>6. QED
    <2> SUFFICES ASSUME NEW i \in 1 .. Len(audit'), audit'[i].event = "device_flagged",
                        audit'[i].counter # 0
                 PROVE  \E j \in 1 .. i - 1 :
                            /\ VerifiedAt(j)' /\ audit'[j].device = audit'[i].device
                            /\ audit'[j].counter = audit'[i].counter
                            /\ audit'[j].digest # audit'[i].digest
        BY DEF FlaggedOnlyOnConflict
    <2>1. CASE i \in 1 .. n
        BY <1>3, <2>1
    <2>2. CASE i = n + 1
        <3> HIDE DEF n
        <3> QED  BY <1>1, <1>4, <2>2
    <2>3. QED  BY <1>5, <2>1, <2>2

\* service.rs: a device is flagged only by a second, different assertion with
\* an accepted counter, or by one that carries counter 0.
THEOREM OnlyConflictsFlag == Spec => []FlaggedOnlyOnConflict
<1>1. Init => FlaggedOnlyOnConflict
    BY DEF Init, FlaggedOnlyOnConflict
<1>2. TypeOK /\ ServiceInv /\ FlaggedOnlyOnConflict /\ [Next]_vars => FlaggedOnlyOnConflict'
    <2> SUFFICES ASSUME TypeOK, ServiceInv, FlaggedOnlyOnConflict, [Next]_vars
                 PROVE  FlaggedOnlyOnConflict'
        OBVIOUS
    <2>1. TableStep
        BY StepKinds DEF ServiceInv
    <2>2. CASE UNCHANGED audit
        BY <2>2 DEF FlaggedOnlyOnConflict, VerifiedAt
    <2>3. CASE QuietStep
        BY <2>2, <2>3, FlagJustified DEF QuietStep
    <2>4. ASSUME NEW r \in Requests, AcceptStep(r) PROVE FlaggedOnlyOnConflict'
        <3>1. entry(r, "assertion_verified") \in AuditEvents
            BY DEF entry, AuditEvents, Digests, Events
        <3>2. entry(r, "assertion_verified").event # "device_flagged"
            BY DEF entry
        <3>3. QED  BY <2>4, <3>1, <3>2, FlagJustified DEF AcceptStep
    <2>5. ASSUME NEW r \in Requests, FlagStep(r) PROVE FlaggedOnlyOnConflict'
        <3> DEFINE ev == entry(r, "device_flagged")
        <3>1. ev \in AuditEvents /\ ev.device = r.device /\ ev.counter = r.counter
              /\ ev.digest = r.digest
            BY DEF entry, AuditEvents, Digests, Events
        <3>2. /\ r.device \in Devices /\ devices[r.device].counter = r.counter
              /\ devices[r.device].last_payload_digest # r.digest
            BY <2>5 DEF FlagStep, conflicts
        <3>4. r.counter # 0 => \E j \in 1 .. Len(audit) :
                /\ VerifiedOf(r.device, j) /\ audit[j].counter = r.counter
                /\ audit[j].digest # r.digest
            BY <3>2 DEF ServiceInv, LogInv, AuditTellsTheCounter, RowIsLastVerified
        <3>5. audit' = Append(audit, ev)
            BY <2>5 DEF FlagStep
        <3> HIDE DEF ev
        <3>6. QED  BY <3>1, <3>4, <3>5, FlagJustified DEF VerifiedOf
    <2>6. ASSUME NEW d \in Devices, RevokeStep(d) PROVE FlaggedOnlyOnConflict'
        BY <2>2, <2>6 DEF RevokeStep
    <2>7. QED  BY <2>1, <2>3, <2>4, <2>5, <2>6 DEF TableStep
<1>3. QED  BY <1>1, <1>2, TypeCorrect, ServiceInvariant, PTL DEF Spec

-----------------------------------------------------------------------------
\* Counters only grow and an inactive device stays so: an assertion that does
\* not advance a row never will, and one the row has left behind stays behind.
LEMMA HarmlessStays ==
    ASSUME TypeOK, TableStep, NEW r \in Requests, r.device \in Devices
    PROVE  /\ ~advances(devices[r.device], r) => ~advances(devices'[r.device], r)
           /\ Harmless(devices[r.device], r) => Harmless(devices'[r.device], r)
<1> DEFINE row == devices[r.device]
           next == devices'[r.device]
<1>1. row \in Rows /\ row.counter \in Nat /\ r.counter \in Nat
    BY DEF TypeOK, Rows
<1>2. CASE QuietStep
    BY <1>2 DEF QuietStep
<1>3. ASSUME NEW q \in Requests, AcceptStep(q), q.device = r.device
      PROVE  /\ ~advances(row, r) => ~advances(next, r)
             /\ Harmless(row, r) => Harmless(next, r)
    <2>1. row.status = "active" /\ row.counter < q.counter /\ q.counter \in Nat
        BY <1>3 DEF AcceptStep, advances
    <2>2. next = [counter |-> q.counter, last_payload_digest |-> q.digest, status |-> "active"]
        BY <1>3 DEF AcceptStep, TypeOK
    <2>3. next.counter = q.counter
        BY <2>2
    <2> HIDE DEF row, next
    <2>4. row.counter >= r.counter => next.counter > r.counter
        BY <1>1, <2>1, <2>3
    <2>5. ~advances(row, r) => row.counter >= r.counter
        BY <1>1, <2>1 DEF advances
    <2>6. Harmless(row, r) => row.counter >= r.counter
        BY <1>1, <2>1 DEF Harmless
    <2>7. next.counter > r.counter => ~advances(next, r) /\ Harmless(next, r)
        BY <1>1, <2>1, <2>3 DEF advances, Harmless
    <2>8. QED  BY <2>4, <2>5, <2>6, <2>7
<1>4. ASSUME NEW q \in Requests, AcceptStep(q), q.device # r.device
      PROVE  next = row
    BY <1>4 DEF AcceptStep, TypeOK
<1>5. ASSUME NEW d \in Devices, NEW st \in {"flagged", "revoked"},
             devices' = [devices EXCEPT ![d].status = st]
      PROVE  next = row \/ next.status # "active"
    BY <1>5 DEF TypeOK, Rows
<1>6. next.status # "active" => ~advances(next, r) /\ Harmless(next, r)
    BY DEF advances, Harmless
<1>7. ASSUME NEW q \in Requests, FlagStep(q)
      PROVE  next = row \/ next.status # "active"
    BY <1>5, <1>7 DEF FlagStep
<1>8. ASSUME NEW d \in Devices, RevokeStep(d)
      PROVE  next = row \/ next.status # "active"
    BY <1>5, <1>8 DEF RevokeStep
<1> HIDE DEF row, next
<1>9. ASSUME \/ \E q \in Requests : AcceptStep(q) /\ q.device # r.device
             \/ \E q \in Requests : FlagStep(q)
             \/ \E d \in Devices : RevokeStep(d)
      PROVE  /\ ~advances(row, r) => ~advances(next, r)
             /\ Harmless(row, r) => Harmless(next, r)
    BY <1>4, <1>6, <1>7, <1>8, <1>9
<1>10. QED  BY <1>2, <1>3, <1>9 DEF TableStep, row, next

\* What one handler has concluded.
RejectionStands(h) ==
    /\ At(h, "flag") => ~advances(devices[Req(h).device], Req(h))
    /\ CalledReplay(h) =>
          /\ Req(h) \in Requests /\ Req(h).device \in Devices
          /\ Harmless(devices[Req(h).device], Req(h))

\* The handlers that do not move keep their conclusions, whatever commits.
LEMMA OthersStand ==
    ASSUME TypeOK, RejectionsStand, TableStep, NEW g \in Handlers, Locals(g)' = Locals(g)
    PROVE  RejectionStands(g)'
<1>1. RejectionStands(g) /\ Req(g)' = Req(g) /\ (CalledReplay(g)' <=> CalledReplay(g))
      /\ (At(g, "flag")' <=> At(g, "flag"))
    BY DEF RejectionsStand, RejectionStands, Req, CalledReplay, At
<1>2. At(g, "flag") => Req(g) \in Requests /\ Req(g).device \in Devices
    BY DEF TypeOK, HandlersTyped, At, Free
<1>3. At(g, "flag") => ~advances(devices'[Req(g).device], Req(g))
    BY <1>1, <1>2, HarmlessStays DEF RejectionStands
<1>4. CalledReplay(g) => /\ Req(g) \in Requests /\ Req(g).device \in Devices
                         /\ Harmless(devices'[Req(g).device], Req(g))
    BY <1>1, HarmlessStays DEF RejectionStands
<1>5. QED  BY <1>1, <1>3, <1>4 DEF RejectionStands, advances, Harmless

\* A handler that moves without reaching a conclusion claims nothing.
LEMMA NoClaim ==
    ASSUME NEW h \in Handlers, ~At(h, "flag")', ~CalledReplay(h)'
    PROVE  RejectionStands(h)'
    BY DEF RejectionStands

\* A handler that moves concludes only what its UPDATE has just found.
LEMMA MoverStands ==
    ASSUME TypeOK, PendingIsCurrent, RejectionsStand, TableStep, NEW h \in Handlers,
           \/ Step(h) \/ Lose(h)
           \/ \E r \in Requests : Receive(h, r)
    PROVE  /\ RejectionStands(h)'
           /\ \A g \in Handlers \ {h} : Locals(g)' = Locals(g)
<1>1. ASSUME \E r \in Requests : Receive(h, r)
      PROVE  RejectionStands(h)'
    BY <1>1, Moves, NoClaim DEF At, CalledReplay
<1>2. ASSUME SelectDevice(h)
      PROVE  RejectionStands(h)'
    <2>1. \/ \E a : Reply(h, a) /\ a # "AssertionReplay"
          \/ \E pc \in {"audit_reject", "advance"} : Goto(h, pc)
        BY <1>2 DEF SelectDevice
    <2>2. QED  BY <2>1, Moves, NoClaim DEF At, CalledReplay
<1>3. ASSUME AuditReject(h) \/ Lose(h)
      PROVE  RejectionStands(h)'
    <2>1. \E a : Reply(h, a) /\ a # "AssertionReplay"
        BY <1>3 DEF AuditReject, Lose
    <2>2. QED  BY <2>1, Moves, NoClaim DEF At, CalledReplay
<1>4. ASSUME Advance(h)
      PROVE  RejectionStands(h)'
    <2>1. CASE Record(h, "assertion_verified")
        BY <2>1, Moves, NoClaim DEF At, CalledReplay
    <2>2. CASE Goto(h, "flag") /\ ~advances(devices[Req(h).device], Req(h))
        <3>1. Locals(h)'.pc = "flag" /\ Req(h)' = Req(h) /\ UNCHANGED devices
            BY <1>4, <2>2, Moves DEF Advance
        <3>2. ~CalledReplay(h)'
            BY <3>1 DEF CalledReplay, At
        <3>3. QED  BY <2>2, <3>1, <3>2 DEF RejectionStands, advances
    <2>3. QED  BY <1>4, <2>1, <2>2 DEF Advance
<1>5. ASSUME Flag(h)
      PROVE  RejectionStands(h)'
    <2>1. CASE Record(h, "device_flagged")
        BY <2>1, Moves, NoClaim DEF At, CalledReplay
    <2>2. CASE Goto(h, "still_active") /\ ~conflicts(devices[Req(h).device], Req(h))
        <3>1. Locals(h)'.pc = "still_active" /\ Req(h)' = Req(h) /\ UNCHANGED devices
            BY <1>5, <2>2, Moves DEF Flag
        <3>2. Req(h) \in Requests /\ Req(h).device \in Devices
            BY <1>5 DEF Flag, At, TypeOK, HandlersTyped, Free
        <3>3. ~advances(devices[Req(h).device], Req(h))
            BY <1>5 DEF Flag, RejectionsStand
        <3>4. devices[Req(h).device].counter \in Nat /\ Req(h).counter \in Nat
            BY <3>2 DEF TypeOK, Rows
        <3>5. Harmless(devices[Req(h).device], Req(h))
            BY <2>2, <3>3, <3>4 DEF advances, conflicts, Harmless
        <3>6. QED  BY <3>1, <3>2, <3>5 DEF RejectionStands, Harmless, At
    <2>3. QED  BY <1>5, <2>1, <2>2 DEF Flag
<1>6. ASSUME StillActive(h) \/ Audit(h)
      PROVE  RejectionStands(h)'
    <2>1. /\ Locals(h)'.pc \in {"audit", "commit"} /\ Req(h)' = Req(h) /\ UNCHANGED devices
          /\ \/ At(h, "still_active")
             \/ At(h, "audit") /\ Locals(h)'.event = Locals(h).event
        <3>1. CASE StillActive(h)
            <4>1. /\ At(h, "still_active") /\ UNCHANGED devices
                  /\ \E e : Record(h, e)
                BY <3>1 DEF StillActive
            <4>2. QED  BY <4>1, Moves
        <3>2. CASE Audit(h)
            BY <3>2, Moves DEF Audit
        <3>3. QED  BY <1>6, <3>1, <3>2
    <2>2. ~At(h, "flag")' /\ (CalledReplay(h)' => CalledReplay(h))
        BY <2>1 DEF At, CalledReplay
    <2>3. CalledReplay(h)' => /\ Req(h) \in Requests /\ Req(h).device \in Devices
                              /\ Harmless(devices[Req(h).device], Req(h))
        BY <2>2 DEF RejectionsStand
    <2>4. QED  BY <2>1, <2>2, <2>3 DEF RejectionStands, Harmless
<1>7. ASSUME Commit(h)
      PROVE  RejectionStands(h)'
    <2>1. /\ Locals(h)'.pc = "replied" /\ Req(h)' = Req(h)
          /\ Locals(h)'.response = answer(Locals(h).event)
        BY <1>7, Moves DEF Commit
    <2>2. Locals(h).event \in Events
        BY <1>7 DEF Commit, At, TypeOK, HandlersTyped
    <2>3. answer(Locals(h).event) = "AssertionReplay"
              => Locals(h).event = "assertion_replay_rejected"
        BY <2>2 DEF answer, Events
    <2>4. CalledReplay(h)' => CalledReplay(h)
        BY <1>7, <2>1, <2>3 DEF Commit, CalledReplay, At
    <2>5. CalledReplay(h) => /\ Req(h) \in Requests /\ Req(h).device \in Devices
                             /\ Harmless(devices[Req(h).device], Req(h))
        BY DEF RejectionsStand
    <2>6. CalledReplay(h)' => Harmless(devices'[Req(h).device], Req(h))
        BY <2>4, <2>5, HarmlessStays
    <2>7. QED  BY <2>1, <2>4, <2>5, <2>6 DEF RejectionStands, Harmless, At
<1>8. \/ \E r \in Requests : Receive(h, r)
      \/ \E a : Reply(h, a)
      \/ \E pc : Goto(h, pc)
      \/ \E e : Record(h, e)
    BY DEF Step, SelectDevice, AuditReject, Advance, Flag, StillActive, Audit, Commit, Lose
<1>9. \A g \in Handlers \ {h} : Locals(g)' = Locals(g)
    BY <1>8, Moves
<1>10. QED
    BY <1>1, <1>2, <1>3, <1>4, <1>5, <1>6, <1>7, <1>9 DEF Step

\* What a handler concluded from an UPDATE that matched nothing stays true.
THEOREM RejectionsStandInvariant == Spec => []RejectionsStand
<1>1. Init => RejectionsStand
    BY DEF Init, RejectionsStand, CalledReplay, At, Locals, Idle
<1>2. TypeOK /\ ServiceInv /\ RejectionsStand /\ [Next]_vars => RejectionsStand'
    <2> SUFFICES ASSUME TypeOK, ServiceInv, RejectionsStand, [Next]_vars
                 PROVE  RejectionsStand'
        OBVIOUS
    <2>1. TableStep /\ PendingIsCurrent
        BY StepKinds DEF ServiceInv
    <2>2. ASSUME NEW h \in Handlers,
                 Step(h) \/ Lose(h) \/ \E r \in Requests : Receive(h, r)
          PROVE  \A g \in Handlers : RejectionStands(g)'
        BY <2>1, <2>2, MoverStands, OthersStand
    <2>3. ASSUME UNCHANGED handler
          PROVE  \A g \in Handlers : RejectionStands(g)'
        BY <2>1, <2>3, OthersStand DEF Locals
    <2>4. \A g \in Handlers : RejectionStands(g)'
        BY <2>2, <2>3 DEF Next, vars, RevokeDevice
    <2>5. QED  BY <2>4 DEF RejectionsStand, RejectionStands
<1>3. QED  BY <1>1, <1>2, TypeCorrect, ServiceInvariant, PTL DEF Spec

\* service.rs: whatever a transaction is about to overwrite is still what its
\* UPDATE matched, no other transaction is about to overwrite it, and what was
\* concluded from an UPDATE that matched nothing still holds.
THEOREM TransactionsInvariant == Spec => []TransactionsInv
<1>1. ServiceInv => PendingIsCurrent
    BY DEF ServiceInv
<1>2. QED
    BY <1>1, TypeCorrect, ServiceInvariant, RejectionsStandInvariant, PTL DEF TransactionsInv

\* service.rs: a conflict is never answered AssertionReplay while the device is
\* active, however the handlers' statements interleave.
THEOREM ReplaysAreHarmless == Spec => []ReplayIsNeverAConflict
<1>1. RejectionsStand => ReplayIsNeverAConflict
    BY DEF RejectionsStand, ReplayIsNeverAConflict, CalledReplay
<1>2. QED  BY <1>1, RejectionsStandInvariant, PTL
=============================================================================
