---------------------------- MODULE NodeChannel ----------------------------
(***************************************************************************)
(* A node's life on the fleet channel: enrolment, sessions, the inbox of   *)
(* signed documents, the broker's event queue, key rotation and            *)
(* revocation.  Models store/fleet.rs, store/node_channel.rs and           *)
(* routes/node.rs of the controller, the loop of the node relay (main.rs   *)
(* and outbox.rs), and keys.rs, control.rs and the event queue of the      *)
(* broker.                                                                 *)
(*                                                                         *)
(* Two hosts ask for the same node name; the channel is that of the host   *)
(* Broker.  Each store function is one transaction, each broker command    *)
(* runs under the state lock, and the relay is one thread: `stage` says    *)
(* where in run_channel_session it is.  An Interrupt is a lost answer, a   *)
(* broker that cannot be reached or a controller that stops: the session   *)
(* ends, whatever was committed stays.  Key versions stand for key pairs,  *)
(* and an event is its idempotency key with the version that signed it.    *)
(* Definitions named Faulty... carry one plausible bug each and are not    *)
(* part of the specification.                                              *)
(***************************************************************************)
EXTENDS Naturals, Sequences, FiniteSets, Functions

CONSTANTS
  Broker, Other,  \* the hosts that submit enrolments
  Enrolments,     \* enrolment requests, all for one node name
  Requests,       \* operation_request events the broker may emit
  Audits,         \* audit events the broker may emit
  QueueMax,       \* MAX_BROKER_AUDIT_EVENTS, 10 000 in the code
  Batch,          \* documents per poll, 50 in the code
  MaxVersion,     \* bound on key versions
  Scenes          \* bounds of a behaviour: its enrolments, events, documents, disturbances

ASSUME NodeChannelAssumption ==
  /\ Broker # Other
  /\ {QueueMax, Batch, MaxVersion} \subseteq Nat \ {0}
  /\ Requests \cap Audits = {}
  /\ Scenes \subseteq [enrolments : SUBSET Enrolments, events : SUBSET (Requests \cup Audits),
                   docs : Nat, faults : Nat]

VARIABLES
  enrol,      \* the enrollment_requests table
  nodes,      \* nodes.status, by host
  version,    \* nodes.key_version of Broker
  pending,    \* to_key_version of its node_key_rotations row, 0 for none
  retired,    \* versions with a retired_at in node_key_history
  revoking,   \* the node_revocation_queue row
  inbox,      \* kinds of the node_inbox rows, by seq
  delivered,  \* the highest seq with a delivered_at
  acked,      \* the seqs with an acked_at
  high,       \* MAX(delivered_seq) over the node's sessions
  session,    \* the session whose token the relay holds
  recorded,   \* keys in node_events
  audited,    \* keys of node audit rows
  discarded,  \* keys acknowledged as discarded
  work,       \* the batch node_events is processing
  stage, cursor, hand, answer,  \* the relay: where it is, ack_seq, documents, acknowledged keys
  outbox,     \* the relay's durable outbox
  broker,     \* the broker's identity and revocation state
  queue,      \* pending_node_events
  emitted,    \* history: events the broker queued
  dropped,    \* history: audit events that found the queue full
  applied,    \* history: seqs the broker applied
  faults,
  scene       \* the bounds of this behaviour

controller == <<enrol, nodes, version, pending, retired, revoking>>
channel == <<inbox, delivered, acked, high, session>>
ingest == <<recorded, audited, discarded, work>>
relay == <<stage, cursor, hand, answer, outbox>>
host == <<broker, queue, emitted, dropped, applied>>
vars == <<controller, channel, ingest, relay, host, faults, scene>>

-----------------------------------------------------------------------------

Hosts == {Broker, Other}

Versions == 1..MaxVersion

Key(kind, n) == [kind |-> kind, n |-> n]

RotationKey(v) == Key("rotation", v)

RevocationKey == Key("revocation", 0)

OverflowKey(n) == Key("overflow", n)

NoSession == [key |-> 0, live |-> FALSE, delivered |-> 0]

NoWork == [step |-> "none", events |-> <<>>, keys |-> {}, version |-> 0, pending |-> 0,
           status |-> "none"]

NoEnrolment == [status |-> "none", host |-> Other, lapsed |-> FALSE]

\* A request that was turned down: nothing else of it is read again.
Over(status) == [NoEnrolment EXCEPT !.status = status]

\* The members of q that are in S, in their order.
Keeping(q, S) ==
  LET kept[i \in 0..Len(q)] ==
        IF i = 0 THEN <<>>
        ELSE IF q[i] \in S THEN Append(kept[i - 1], q[i]) ELSE kept[i - 1]
  IN kept[Len(q)]

KeysOf(events) == {event.key : event \in Range(events)}

Lesser(m, n) == IF m < n THEN m ELSE n

Greater(m, n) == IF m < n THEN n ELSE m

Init ==
  /\ enrol = [e \in Enrolments |-> NoEnrolment]
  /\ nodes = [h \in Hosts |-> "none"]
  /\ version = 1 /\ pending = 0 /\ retired = {} /\ revoking = FALSE
  /\ inbox = <<>> /\ delivered = 0 /\ acked = {} /\ high = 0
  /\ session = NoSession
  /\ recorded = {} /\ audited = {} /\ discarded = {} /\ work = NoWork
  /\ stage = "idle" /\ cursor = 0 /\ hand = <<>> /\ answer = {}
  /\ outbox = <<>>
  /\ broker = [version |-> 1, staged |-> 0, rotated |-> FALSE, revoked |-> FALSE,
               owes |-> FALSE, acknowledged |-> FALSE, overflow |-> FALSE]
  /\ queue = <<>> /\ emitted = {} /\ dropped = {} /\ applied = {}
  /\ faults = 0
  /\ scene \in Scenes

-----------------------------------------------------------------------------
(* Enrolment.                                                              *)

CreateEnrollment(e) ==
  /\ enrol[e].status = "none" /\ e \in scene.enrolments
  /\ enrol' = [enrol EXCEPT ![e].status = "issued"]
  /\ UNCHANGED <<nodes, version, pending, retired, revoking, channel, ingest, relay, host, faults>>

\* issued_enrollment_by_token_hash: the token is good for one submission before expiry.
Issued(e) == enrol[e].status = "issued" /\ ~enrol[e].lapsed

\* The store's submit_enrollment.
Submitted(e, h) == [enrol EXCEPT ![e].status = "submitted", ![e].host = h]

\* The route checks the token, the key proof and the protocol.
MaySubmit(e) == Issued(e)

\* blindpass-node enroll: the host proves its broker's keys and sends them.
SubmitEnrollment(e, h) ==
  /\ MaySubmit(e)
  /\ enrol' = Submitted(e, h)
  /\ UNCHANGED <<nodes, version, pending, retired, revoking, channel, ingest, relay, host, faults>>

\* Only the keys of active nodes count as used.
FaultyKeysReused(h) == nodes[h] = "active"

\* node_key_history already holds the submitted keys.
KeysReused(h) == nodes[h] # "none"

NameHeld == \E h \in Hosts : nodes[h] = "active"

\* The request as the operator saw it: submitted, with that fingerprint and version.
Decidable(e) == enrol[e].status = "submitted"

ApproveEnrollment(e) ==
  LET h == enrol[e].host
  IN /\ Decidable(e) /\ ~enrol[e].lapsed
     /\ ~KeysReused(h) /\ ~NameHeld
     /\ enrol' = [enrol EXCEPT ![e].status = "approved"]
     /\ nodes' = [nodes EXCEPT ![h] = "active"]
     /\ UNCHANGED <<version, pending, retired, revoking, channel, ingest, relay, host, faults>>

RejectEnrollment(e) ==
  /\ Decidable(e)
  /\ enrol' = [enrol EXCEPT ![e] = Over("rejected")]
  /\ UNCHANGED <<nodes, version, pending, retired, revoking, channel, ingest, relay, host, faults>>

\* expires_at passes.
Lapse(e) ==
  /\ enrol[e].status \in {"issued", "submitted"} /\ ~enrol[e].lapsed
  /\ enrol' = [enrol EXCEPT ![e].lapsed = TRUE]
  /\ UNCHANGED <<nodes, version, pending, retired, revoking, channel, ingest, relay, host, faults>>

-----------------------------------------------------------------------------
(* Operators.                                                              *)

Enqueue(kind) ==
  /\ Len(inbox) < scene.docs
  /\ inbox' = Append(inbox, kind)

\* A registration, policy or other document that is safe to apply again.
PublishDocument ==
  /\ nodes[Broker] = "active"
  /\ Enqueue("document")
  /\ UNCHANGED <<controller, delivered, acked, high, session, ingest, relay, host, faults>>

\* prepare_rotation: root has the broker generate a candidate; repeated calls keep it.
PrepareRotation ==
  /\ broker.staged = 0 /\ broker.version < MaxVersion
  /\ broker' = [broker EXCEPT !.staged = broker.version + 1]
  /\ UNCHANGED <<controller, channel, ingest, relay, queue, emitted, dropped, applied, faults>>

\* The route's checks: an active node, no rotation under way, and keys that follow the current ones.
MayStage ==
  /\ nodes[Broker] = "active" /\ pending = 0
  /\ broker.staged = version + 1

\* Staging switches the version at once, before the broker has the document.
FaultyStageRotation ==
  /\ MayStage
  /\ version' = version + 1
  /\ Enqueue("rotation")
  /\ UNCHANGED <<enrol, nodes, pending, retired, revoking, delivered, acked, high, session,
                 ingest, relay, host, faults>>

\* The store judges the node again, under its lock.
Stageable(to) == nodes[Broker] = "active" /\ pending = 0 /\ to = version + 1

\* stage_node_key_rotation: the pending row and the signed document, in one transaction.
StageRotation ==
  /\ MayStage /\ Stageable(broker.staged)
  /\ pending' = broker.staged
  /\ Enqueue("rotation")
  /\ UNCHANGED <<enrol, nodes, version, retired, revoking, delivered, acked, high, session,
                 ingest, relay, host, faults>>

\* A second revocation answers with the row as it is.
MayRevoke(h) == nodes[h] = "active"

RevokeNode(h) ==
  /\ MayRevoke(h)
  /\ nodes' = [nodes EXCEPT ![h] = "revoked"]
  /\ IF h = Broker
     THEN revoking' = TRUE /\ Enqueue("revocation")
     ELSE UNCHANGED <<revoking, inbox>>
  /\ UNCHANGED <<enrol, version, pending, retired, delivered, acked, high, session,
                 ingest, relay, host, faults>>

-----------------------------------------------------------------------------
(* Sessions and the inbox.                                                 *)

\* CHANNEL_NODE_PREDICATE.
MayConnect(key) ==
  /\ nodes[Broker] = "active" \/ (nodes[Broker] = "revoked" /\ revoking)
  /\ key \in {version, pending}

\* authenticate_node_session.
SessionLives(s) == s.live /\ MayConnect(s.key)

\* authenticate_node: the bearer token the relay was given names its session.
Authenticated == SessionLives(session)

\* node_signing_public_key: a history row without retired_at.
KeyInForce(key) == key \notin retired

Disconnect == stage' = "idle" /\ hand' = <<>> /\ answer' = {}

\* node_session_context
KnownNode == MayConnect(broker.version)

\* Phase 1 of node_session: a MAC over the facts and no row.
Challenged == KnownNode

RequestChallenge ==
  /\ stage = "idle" /\ Challenged
  /\ stage' = "challenged"
  /\ UNCHANGED <<controller, channel, ingest, cursor, hand, answer, outbox, host, faults>>

\* Phase 2: the facts are checked again when the signed nonce comes back.
SessionGranted == KnownNode /\ KeyInForce(broker.version)

\* create_node_session: the row starts from what earlier sessions delivered.
NewSession == [key |-> broker.version, live |-> TRUE, delivered |-> high]

CreateSession ==
  /\ stage = "challenged"
  /\ IF SessionGranted
     THEN /\ session' = NewSession
          /\ stage' = "polling"
     ELSE stage' = "idle" /\ UNCHANGED session
  /\ UNCHANGED <<controller, inbox, delivered, acked, high, ingest, cursor, hand, answer, outbox,
                 host, faults>>

\* What poll_node_inbox marks acknowledged: delivered rows up to the clamped claim.
Acknowledge(claim) == acked \cup {s \in 1..delivered : s <= Lesser(claim, session.delivered)}

\* Only rows that were never delivered are sent.
FaultyOutstanding(done) ==
  LET due == Keeping([s \in 1..Len(inbox) |-> s], {s \in 1..Len(inbox) : s > delivered})
  IN SubSeq(due, 1, Lesser(Batch, Len(due)))

\* The first rows without acked_at, in order.
Outstanding(done) ==
  LET due == Keeping([s \in 1..Len(inbox) |-> s], 1..Len(inbox) \ done)
  IN SubSeq(due, 1, Lesser(Batch, Len(due)))

\* poll_response: the documents go to the relay, in the order of their seq.
Handed(rows) == hand' = rows /\ stage' = "documents"

\* node_poll.
Poll ==
  /\ stage = "polling"
  /\ IF Authenticated
     THEN LET done == Acknowledge(cursor)
              rows == Outstanding(done)
              top == IF rows = <<>> THEN 0 ELSE rows[Len(rows)]
          IN /\ acked' = done
             /\ delivered' = Greater(delivered, top)
             /\ session' = [session EXCEPT !.delivered = Greater(@, top)]
             /\ high' = Greater(high, top)
             /\ Handed(rows)
             /\ UNCHANGED answer
     ELSE Disconnect /\ UNCHANGED <<acked, delivered, session, high>>
  /\ UNCHANGED <<controller, inbox, ingest, cursor, outbox, host, faults>>

-----------------------------------------------------------------------------
(* The broker: documents and events.                                       *)

\* apply_key_rotation: the remembered rotation again, or the prepared candidate.
RotationApplies(to) ==
  \/ broker.version = to /\ broker.rotated
  \/ broker.staged = to /\ broker.version + 1 = to

Rotated(to) ==
  IF broker.version = to THEN broker
  ELSE [broker EXCEPT !.version = to, !.staged = 0, !.rotated = TRUE]

\* The version a rotation document names: rotations are numbered from 2.
RotationTo(s) == 1 + Cardinality({r \in 1..s : inbox[r] = "rotation"})

\* queue_node_revocation_ack_if_possible
QueueRevocation(b, q) ==
  IF b.owes /\ ~b.acknowledged /\ Len(q) < QueueMax
  THEN <<[b EXCEPT !.owes = FALSE],
         IF RevocationKey \in Range(q) THEN q ELSE Append(q, RevocationKey)>>
  ELSE <<b, q>>

\* apply_node_revocation
Revoked == QueueRevocation([broker EXCEPT !.revoked = TRUE, !.owes = ~broker.acknowledged], queue)

\* apply_controller_document_to_state
Accepted(s) == inbox[s] = "rotation" => RotationApplies(RotationTo(s))

BrokerAfter(s) ==
  IF inbox[s] = "rotation" THEN <<Rotated(RotationTo(s)), queue>>
  ELSE IF inbox[s] = "revocation" THEN Revoked
  ELSE <<broker, queue>>

\* check_inbox_sequence
InOrder(s) == cursor < s

\* RELAY; a rotation ends the session, because the next one needs the new key.
ApplyDocument ==
  /\ stage = "documents" /\ hand # <<>>
  /\ LET s == Head(hand)
     IN IF InOrder(s) /\ Accepted(s)
        THEN /\ broker' = BrokerAfter(s)[1] /\ queue' = BrokerAfter(s)[2]
             /\ emitted' = emitted \cup Range(queue')
             /\ cursor' = s /\ applied' = applied \cup {s}
             /\ IF inbox[s] = "rotation" THEN Disconnect
                ELSE hand' = Tail(hand) /\ UNCHANGED <<stage, answer>>
        ELSE /\ cursor' = (IF InOrder(s) THEN cursor ELSE 0)
             /\ Disconnect
             /\ UNCHANGED <<broker, queue, emitted, applied>>
  /\ UNCHANGED <<controller, channel, ingest, outbox, dropped, faults>>

\* flag_audit_overflow: the event is refused and the loss will be reported.
Overflow(key) ==
  /\ Len(queue) >= QueueMax
  /\ broker' = [broker EXCEPT !.overflow = TRUE]
  /\ dropped' = dropped \cup {key}
  /\ UNCHANGED <<queue, emitted>>

Queued(key) ==
  /\ Len(queue) < QueueMax
  /\ queue' = Append(queue, key)
  /\ emitted' = emitted \cup {key}
  /\ UNCHANGED <<broker, dropped>>

\* The request: branch of a workload call.
EmitRequest(r) ==
  /\ r \in scene.events /\ ~broker.revoked
  /\ Key("request", r) \notin emitted \cup dropped
  /\ Queued(Key("request", r)) \/ Overflow(Key("request", r))
  /\ UNCHANGED <<controller, channel, ingest, relay, applied, faults>>

\* An audit event, such as queue_grant_rejection_audit makes.
EmitAudit(a) ==
  /\ a \in scene.events
  /\ Key("audit", a) \notin emitted \cup dropped
  /\ Queued(Key("audit", a)) \/ Overflow(Key("audit", a))
  /\ UNCHANGED <<controller, channel, ingest, relay, applied, faults>>

\* Overflow events are told apart by their time: the first, the second and so on.
NextOverflow == OverflowKey(1 + Cardinality({k \in emitted : k.kind = "overflow"}))

\* queue_overflow_event_if_possible
QueueOverflow(b, q) ==
  IF b.overflow /\ Len(q) < QueueMax
  THEN <<[b EXCEPT !.overflow = FALSE], Append(q, NextOverflow)>>
  ELSE <<b, q>>

\* queue_node_key_rotation_ack, which may take one place beyond the limit.
QueueRotation(b, q) ==
  IF b.rotated /\ RotationKey(b.version) \notin Range(q) /\ Len(q) <= QueueMax
  THEN Append(q, RotationKey(b.version))
  ELSE q

Replenished(b, q) ==
  LET over == QueueOverflow(b, q)
  IN QueueRevocation(over[1], over[2])

\* insert_batch: a key in the outbox keeps its bytes, and other bytes are refused.
Clash(events) == \E new \in Range(events), old \in Range(outbox) :
                    new.key = old.key /\ new.sig # old.sig

Merged(events) == outbox \o Keeping(events, {e \in Range(events) : e.key \notin KeysOf(outbox)})

\* sign_node_event
Signed(q) == [i \in 1..Len(q) |-> [key |-> q[i], sig |-> broker.version]]

\* PULL_EVENTS signs every pending event with the current key.
PullEvents ==
  /\ stage = "documents" /\ hand = <<>>
  /\ LET refill == Replenished(broker, queue)
         q == QueueRotation(refill[1], refill[2])
         events == Signed(q)
     IN /\ broker' = refill[1] /\ queue' = q
        /\ emitted' = emitted \cup Range(q)
        /\ IF Clash(events)
           THEN Disconnect /\ UNCHANGED outbox
           ELSE outbox' = Merged(events) /\ stage' = "sending" /\ UNCHANGED <<hand, answer>>
  /\ UNCHANGED <<controller, channel, ingest, cursor, dropped, applied, faults>>

-----------------------------------------------------------------------------
(* The events route.                                                       *)

\* node_events reads the node once and then works through the batch.
NewWork == [step |-> "verify", events |-> outbox, keys |-> {}, version |-> version,
            pending |-> pending, status |-> nodes[Broker]]

SendEvents ==
  /\ stage = "sending"
  /\ IF outbox = <<>> THEN stage' = "polling" /\ UNCHANGED <<hand, answer, work>>
     ELSE IF Authenticated /\ KeyInForce(session.key)
     THEN /\ work' = NewWork
          /\ stage' = "waiting" /\ UNCHANGED <<hand, answer>>
     ELSE Disconnect /\ UNCHANGED work
  /\ UNCHANGED <<controller, channel, recorded, audited, discarded, cursor, outbox, host, faults>>

\* The event is answered and the next one is looked at.
Settled(w) == [w EXCEPT !.step = "verify", !.events = Tail(w.events),
                        !.keys = @ \cup {Head(w.events).key}]

\* The batch stops here: this event and later ones are neither recorded nor acknowledged.
Stopped(w) == [w EXCEPT !.step = "verify", !.events = <<>>]

\* record_rejected_node_event: an event that can never apply leaves an audit row.
Rejected(key) == discarded \cup {key}

\* verify_node_event: signed with the session's key, or an exact replay of a rotation's old key.
Verified(event) ==
  \/ event.sig = session.key
  \/ event.key \in recorded /\ work.pending # 0 /\ event.sig = work.version /\ KeyInForce(event.sig)

\* Kept back while a rotation is pending.
HeldBack(event) ==
  /\ work.pending # 0
  /\ \/ session.key = work.version
     \/ event.key.kind = "request" /\ session.key = work.pending

\* An event that has an audit row is answered as a duplicate.
FaultyVerdict(event) ==
  IF ~Verified(event) THEN "stop"
  ELSE IF event.key \in recorded \cup audited THEN "duplicate"
  ELSE IF HeldBack(event) THEN "stop"
  ELSE IF event.key.kind = "request" /\ work.status = "revoked" THEN "discard"
  ELSE "take"

\* What apply_node_event does with the next event.
Verdict(event) ==
  IF ~Verified(event) THEN "stop"
  ELSE IF event.key \in recorded THEN "duplicate"
  ELSE IF HeldBack(event) THEN "stop"
  ELSE IF event.key.kind = "request" /\ work.status = "revoked" THEN "discard"
  ELSE "take"

\* An event whose audit row exists counts as done.
FaultyFirstStep(key) ==
  IF key.kind = "request" \/ key \in audited THEN "record" ELSE "apply"

\* An event whose audit row exists is not applied again, but its revocation is finalized.
FirstStep(key) ==
  IF key.kind = "request" THEN "record" ELSE IF key \in audited THEN "finalize" ELSE "apply"

VerifyEvent ==
  /\ stage = "waiting" /\ work.step = "verify" /\ work.events # <<>>
  /\ LET event == Head(work.events)
         verdict == Verdict(event)
     IN /\ work' = CASE verdict = "stop" -> Stopped(work)
                    [] verdict = "take" -> [work EXCEPT !.step = FirstStep(event.key)]
                    [] OTHER -> Settled(work)
        /\ discarded' = IF verdict = "discard" THEN Rejected(event.key) ELSE discarded
  /\ UNCHANGED <<controller, channel, recorded, audited, relay, host, faults>>

\* The pending row is there for complete_node_key_rotation to finish.
Completes(key) ==
  key.kind = "rotation" /\ pending = key.n /\ (nodes[Broker] = "active" \/ revoking)

\* complete_node_key_rotation
CompleteRotation(to) ==
  /\ version' = to /\ pending' = 0 /\ retired' = retired \cup {version}
  /\ session' = [session EXCEPT !.live = FALSE]

\* The event can be applied; one that never can is discarded.
Applies(key) ==
  CASE key.kind = "rotation" -> Completes(key) \/ (pending # key.n /\ version = key.n)
    [] key.kind = "revocation" -> revoking
    [] OTHER -> TRUE

\* The first transaction of record_node_audit_event: the transition the event reports.
ApplyEvent ==
  /\ stage = "waiting" /\ work.step = "apply"
  /\ LET key == Head(work.events).key
     IN /\ IF Applies(key)
           THEN work' = [work EXCEPT !.step = "audit"] /\ UNCHANGED discarded
           ELSE work' = Settled(work) /\ discarded' = Rejected(key)
        /\ IF Completes(key) THEN CompleteRotation(key.n)
           ELSE UNCHANGED <<version, pending, retired, session>>
  /\ UNCHANGED <<enrol, nodes, revoking, inbox, delivered, acked, high, recorded, audited,
                 relay, host, faults>>

\* The second transaction: the node's audit row.
AuditEvent ==
  /\ stage = "waiting" /\ work.step = "audit"
  /\ audited' = audited \cup {Head(work.events).key}
  /\ work' = [work EXCEPT !.step = "finalize"]
  /\ UNCHANGED <<controller, channel, recorded, discarded, relay, host, faults>>

\* The third, for a revocation: finalize_node_revocation closes the channel.
FinalizeEvent ==
  /\ stage = "waiting" /\ work.step = "finalize"
  /\ IF Head(work.events).key = RevocationKey /\ revoking
     THEN /\ revoking' = FALSE
          /\ session' = [session EXCEPT !.live = FALSE]
          /\ acked' = acked \cup 1..delivered
     ELSE UNCHANGED <<revoking, session, acked>>
  /\ work' = [work EXCEPT !.step = "record"]
  /\ UNCHANGED <<enrol, nodes, version, pending, retired, inbox, delivered, high,
                 recorded, audited, discarded, relay, host, faults>>

\* record_node_event
RecordEvent ==
  /\ stage = "waiting" /\ work.step = "record"
  /\ recorded' = recorded \cup {Head(work.events).key}
  /\ work' = Settled(work)
  /\ UNCHANGED <<controller, channel, audited, discarded, relay, host, faults>>

\* The signed acknowledgement, or an error when nothing can be acknowledged.
AnswerEvents ==
  /\ stage = "waiting" /\ work.step = "verify" /\ work.events = <<>>
  /\ work' = NoWork
  /\ IF work.keys = {}
     THEN Disconnect
     ELSE answer' = work.keys /\ stage' = "answered" /\ UNCHANGED hand
  /\ UNCHANGED <<controller, channel, recorded, audited, discarded, cursor, outbox, host, faults>>

\* acknowledge_node_events of the broker.
Left == Keeping(queue, Range(queue) \ answer)

\* acknowledge_rotation_event, and the revocation whose report has arrived.
BrokerAcknowledged ==
  [broker EXCEPT !.rotated = @ /\ RotationKey(broker.version) \notin answer,
                 !.acknowledged = @ \/ (RevocationKey \in answer \cap Range(queue)),
                 !.owes = @ /\ RevocationKey \notin answer \cap Range(queue)]

RelayAck ==
  /\ stage = "answered"
  /\ LET refill == Replenished(BrokerAcknowledged, Left)
     IN broker' = refill[1] /\ queue' = refill[2] /\ emitted' = emitted \cup Range(refill[2])
  /\ stage' = "trimming"
  /\ UNCHANGED <<controller, channel, ingest, cursor, hand, answer, outbox, dropped, applied, faults>>

\* remove_acked, the last step of the relay's round.
TrimOutbox ==
  /\ stage = "trimming"
  /\ outbox' = Keeping(outbox, {event \in Range(outbox) : event.key \notin answer})
  /\ answer' = {} /\ stage' = "polling"
  /\ UNCHANGED <<controller, channel, ingest, cursor, hand, host, faults>>

-----------------------------------------------------------------------------
(* Disturbances.                                                           *)

Interrupt ==
  /\ faults < scene.faults /\ stage # "idle"
  /\ faults' = faults + 1
  /\ Disconnect /\ work' = NoWork
  /\ UNCHANGED <<controller, channel, recorded, audited, discarded, cursor, outbox, host>>

\* The relay process starts again with its outbox and without its cursor.
RestartRelay ==
  /\ faults < scene.faults
  /\ faults' = faults + 1
  /\ Disconnect /\ work' = NoWork /\ cursor' = 0
  /\ UNCHANGED <<controller, channel, recorded, audited, discarded, outbox, host>>

\* The clock fence revokes sessions and expires enrolments; a session may also just expire.
FenceClock ==
  /\ faults < scene.faults
  /\ faults' = faults + 1
  /\ enrol' = [e \in Enrolments |->
                 IF enrol[e].status \in {"issued", "submitted"}
                 THEN Over("expired") ELSE enrol[e]]
  /\ session' = [session EXCEPT !.live = FALSE]
  /\ UNCHANGED <<nodes, version, pending, retired, revoking, inbox, delivered, acked, high,
                 ingest, relay, host>>

-----------------------------------------------------------------------------

Enrol(e) ==
  \/ CreateEnrollment(e) \/ ApproveEnrollment(e) \/ RejectEnrollment(e) \/ Lapse(e)
  \/ \E h \in Hosts : SubmitEnrollment(e, h)

Operator == PublishDocument \/ PrepareRotation \/ StageRotation \/ \E h \in Hosts : RevokeNode(h)

Emit == (\E r \in Requests : EmitRequest(r)) \/ (\E a \in Audits : EmitAudit(a))

Round ==
  \/ RequestChallenge \/ CreateSession \/ Poll \/ ApplyDocument \/ PullEvents
  \/ SendEvents \/ VerifyEvent \/ ApplyEvent \/ AuditEvent \/ FinalizeEvent \/ RecordEvent
  \/ AnswerEvents \/ RelayAck \/ TrimOutbox

Next ==
  /\ \/ \E e \in Enrolments : Enrol(e)
     \/ Operator \/ Emit \/ Round
     \/ Interrupt \/ RestartRelay \/ FenceClock
  /\ UNCHANGED scene

Spec == Init /\ [][Next]_vars

\* systemd keeps the relay running and its loop retries for ever with a bounded backoff.
FairSpec == Spec /\ WF_vars(Round /\ UNCHANGED scene)

-----------------------------------------------------------------------------

\* Approval of an enrolment (insert_approved_node) never gives the name to a second active node
\* and never enrols one key pair twice, whichever requests were open, lapsed or fenced.
EnrolledOnce ==
  /\ Cardinality({h \in Hosts : nodes[h] = "active"}) <= 1
  /\ \A e, f \in Enrolments :
       enrol[e].status = "approved" /\ enrol[f].status = "approved" /\ e # f
         => enrol[e].host # enrol[f].host

\* poll_node_inbox marks a document acknowledged only when the broker applied it, and the broker
\* applies documents in order, whatever sessions, answers and relay restarts come between.
AckedIsApplied == acked \subseteq applied /\ \A s \in applied : 1..s \subseteq applied

\* An event leaves the broker's queue only when the controller recorded or discarded it
\* (acknowledge_node_events after node_events), across lost answers and restarts of the relay, and
\* what a full queue refused (flag_audit_overflow) is, or will be, reported by an overflow event.
EventsKept ==
  /\ emitted \subseteq Range(queue) \cup recorded \cup discarded
  /\ dropped # {} => broker.overflow \/ \E k \in emitted : k.kind = "overflow"

\* A rotation locks nobody out: at every moment the broker of an active node signs with a key that
\* node_session accepts, whichever of stage, apply, acknowledge and complete was interrupted.
KeysAgree ==
  nodes[Broker] = "active" => broker.version \in {version, pending} /\ KeyInForce(broker.version)

\* An event is in the way of a key rotation: it was signed with a key that has since been
\* replaced in the broker, or it is a request taken into the outbox before the rotation was complete.
InTheWay(event) == event.sig # broker.version \/ (event.key.kind = "request" /\ pending # 0)

Blocked == \E event \in Range(outbox) : InTheWay(event)

\* What the operator started comes to its end, also when a handler stopped between its transactions:
\* a staged rotation is completed unless the node is revoked first (complete_node_key_rotation), and
\* a revocation is finalized (finalize_node_revocation), so that the revoked node's channel does not
\* stay open.  Only an event in the way of a rotation may hold either up for ever: the broker's new
\* signature of it is refused as a key reused (insert_batch), or the controller refuses it for as long
\* as the rotation whose acknowledgement is queued behind it is pending (apply_node_event).
ChangesComplete ==
  /\ \A v \in Versions : []<>(pending # v \/ nodes[Broker] = "revoked" \/ Blocked)
  /\ []<>(~revoking \/ Blocked)
=============================================================================
