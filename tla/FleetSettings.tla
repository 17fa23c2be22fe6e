--------------------------- MODULE FleetSettings ---------------------------
(***************************************************************************)
(* The settings a broker works under: the fleet policy and the workload    *)
(* registrations an administrator edits, the signed documents that carry   *)
(* them to the node, and the grants the broker holds against them.  Models *)
(* the workload and policy handlers of routes/authorization.rs, their      *)
(* transactions in store/authorization.rs, and the broker's verification,  *)
(* application, persistence and restoration of controller documents in     *)
(* control.rs, keys.rs and lib.rs.                                         *)
(*                                                                         *)
(* A handler reads the rows, signs documents for what it read, and commits *)
(* row and documents in one transaction: conn[c] holds it in between.  The *)
(* relay hands the inbox over in order and again from the last             *)
(* acknowledgement after a break (NodeChannel).  One node.  A policy is    *)
(* its version and rules, a registration its version and its unit, which   *)
(* stands for every registered field.  Definitions named Faulty... carry   *)
(* one plausible bug each and are not part of the specification.           *)
(***************************************************************************)
EXTENDS Naturals, Sequences, SequencesExt

CONSTANTS
  Workloads, Units,
  RuleSets,    \* rules an administrator may save
  Conns,       \* requests the controller may be serving at once
  None,
  Scenarios    \* fleets to start from, and the bounds on what happens to them

\* node: active from the start; registered: workloads the broker has a registration of;
\* acts: the handlers that run; calls, breaks, faults: bounds on requests, on relay
\* breaks and broker restarts, and on failed writes.
\* What a scenario may be; assumed by the module that gives them.
FleetSettingsAssumption ==
  /\ None \notin Units \cup RuleSets
  /\ \A s \in Scenarios :
       /\ s.node \in {"enrolling", "active"}
       /\ s.registered \in SUBSET Workloads /\ (s.registered # {} => s.node = "active")
       /\ s.acts \subseteq {"create", "update", "revoke", "policy", "grant", "node"}
       /\ {s.calls, s.breaks, s.faults} \subseteq Nat

VARIABLES
  policy,    \* the fleet_policies row
  workload,  \* the workloads table
  node,      \* nodes.status
  conn,      \* the handler on each connection
  inbox,     \* the documents queued for the node, in order
  passed,    \* documents the relay has handed to the broker
  acked,     \* documents the relay has acknowledged
  broker,    \* the broker's settings in memory
  disk,      \* and in its state directory
  unsaved,   \* documents in force that could not be written
  held,      \* grants the broker accepted, by place in the inbox
  refused,   \* history: grants the broker discarded for their binding
  lost,      \* history: documents handed over whose write was still owed at a restart
  edits,     \* history: settings committed
  left       \* the scenario: what may still happen

controller == <<policy, workload, node, conn, inbox, edits>>
host == <<broker, disk, unsaved, held, refused, lost>>
relay == <<passed, acked>>
vars == <<controller, host, relay, left>>

-----------------------------------------------------------------------------

Idle == [at |-> "idle"]

At(c, step) == conn[c].at = step

Goto(c, call) == conn' = [conn EXCEPT ![c] = call]

\* The stored policy reads as version 1 without rules until one is saved.
FirstPolicy == [version |-> 1, rules |-> None]

NoWorkload == [status |-> "absent", version |-> 0, unit |-> None]

NoSettings == [policy |-> None, reg |-> [w \in Workloads |-> None]]

-----------------------------------------------------------------------------
(* Documents.                                                              *)

\* signed_policy_snapshot_for_rules
PolicyDoc(p) == [kind |-> "policy", version |-> p.version, rules |-> p.rules]

\* signed_registration: the registration names the policy version its handler read.
RegistrationDoc(w, row, bound) ==
  [kind |-> "registration", workload |-> w, version |-> row.version, unit |-> row.unit,
   status |-> row.status, policy |-> bound]

\* Only the registration is queued, since the policy was sent when it was saved.
FaultySettingsDocs(w, row, p) == <<RegistrationDoc(w, row, p.version)>>

\* What a workload handler queues with its row: the policy it read, then the registration.
SettingsDocs(w, row, p) == <<PolicyDoc(p), RegistrationDoc(w, row, p.version)>>

Queue(docs) == inbox' = inbox \o docs

\* The workloads registered before the behaviour starts have a unit each.
FirstRow(s, w) ==
  IF w \in s.registered
    THEN [status |-> "active", version |-> 1, unit |-> CHOOSE u \in Units : TRUE]
    ELSE NoWorkload

FirstSettings(s) ==
  IF s.registered = {} THEN NoSettings
  ELSE [policy |-> PolicyDoc(FirstPolicy),
        reg |-> [w \in Workloads |->
                   IF w \in s.registered THEN RegistrationDoc(w, FirstRow(s, w), 1) ELSE None]]

Init ==
  /\ left \in Scenarios
  /\ policy = FirstPolicy
  /\ workload = [w \in Workloads |-> FirstRow(left, w)]
  /\ node = left.node
  /\ conn = [c \in Conns |-> Idle]
  /\ inbox = FoldSet(LAMBDA w, docs : docs \o SettingsDocs(w, FirstRow(left, w), FirstPolicy),
                     <<>>, left.registered)
  /\ passed = Len(inbox) /\ acked = Len(inbox)
  /\ broker = FirstSettings(left) /\ disk = broker /\ unsaved = {}
  /\ held = {} /\ refused = {} /\ lost = {}
  /\ edits = 0

\* A handler starts, or the relay or the broker breaks, while the scenario lets it.
Begin(act) ==
  /\ act \in left.acts /\ left.calls > 0
  /\ left' = [left EXCEPT !.calls = @ - 1]

Breaks == left.breaks > 0 /\ left' = [left EXCEPT !.breaks = @ - 1]

-----------------------------------------------------------------------------
(* Workload registration.                                                  *)

\* The unit is not looked up when a registration moves to it.
\* unit_conflict: another active registration claims the unit.
UnitConflict(w, unit) ==
  \E other \in Workloads \ {w} :
    workload[other].status = "active" /\ workload[other].unit = unit

\* create_workload of the route: the record, and the policy the documents are signed with.
CreateRead(c, w, unit) ==
  /\ At(c, "idle") /\ Begin("create")
  /\ workload[w].status = "absent" /\ \A d \in Conns : At(d, "create") => conn[d].w # w
  /\ Goto(c, [at |-> "create", w |-> w, unit |-> unit, policy |-> policy])
  /\ UNCHANGED <<policy, workload, node, inbox, edits, host, relay>>

\* create_workload of the store.
CreateCommit(c) ==
  LET call == conn[c]
      row == [status |-> "active", version |-> 1, unit |-> call.unit]
  IN /\ At(c, "create")
     /\ IF node = "active" /\ ~UnitConflict(call.w, call.unit)
          THEN /\ workload' = [workload EXCEPT ![call.w] = row]
               /\ Queue(SettingsDocs(call.w, row, call.policy))
               /\ edits' = edits + 1
          ELSE UNCHANGED <<workload, inbox, edits>>
     /\ Goto(c, Idle)
     /\ UNCHANGED <<policy, node, host, relay, left>>

\* The row as the client saw it: its expected_version must still be current.
UpdateRead(c, w, unit) ==
  /\ At(c, "idle") /\ Begin("update")
  /\ workload[w].status = "active"
  /\ Goto(c, [at |-> "update", w |-> w, version |-> workload[w].version, unit |-> unit,
              policy |-> policy])
  /\ UNCHANGED <<policy, workload, node, inbox, edits, host, relay>>

\* The update is not conditional on the version that was read.
FaultyUnchanged(call) == workload[call.w].status = "active"

\* AND status = 'active' AND version = ?
Unchanged(call) == workload[call.w].status = "active" /\ workload[call.w].version = call.version

\* The signed registration carries the version the handler computed.
UpdateCommit(c) ==
  LET call == conn[c]
      row == [status |-> "active", version |-> call.version + 1, unit |-> call.unit]
      moved == call.unit # workload[call.w].unit
  IN /\ At(c, "update")
     /\ IF Unchanged(call) /\ node = "active" /\ ~(moved /\ UnitConflict(call.w, call.unit))
          THEN /\ workload' = [workload EXCEPT ![call.w].version = @ + 1,
                                               ![call.w].unit = call.unit]
               /\ Queue(SettingsDocs(call.w, row, call.policy))
               /\ edits' = edits + 1
          ELSE UNCHANGED <<workload, inbox, edits>>
     /\ Goto(c, Idle)
     /\ UNCHANGED <<policy, node, host, relay, left>>

RevokeRead(c, w) ==
  /\ At(c, "idle") /\ Begin("revoke")
  /\ workload[w].status = "active"
  /\ Goto(c, [at |-> "revoke", w |-> w, version |-> workload[w].version, policy |-> policy])
  /\ UNCHANGED <<policy, workload, node, inbox, edits, host, relay>>

RevokeCommit(c) ==
  LET call == conn[c]
      row == [status |-> "revoked", version |-> call.version + 1, unit |-> workload[call.w].unit]
  IN /\ At(c, "revoke")
     /\ IF Unchanged(call)
          THEN /\ workload' = [workload EXCEPT ![call.w] = row]
               /\ Queue(SettingsDocs(call.w, row, call.policy))
               /\ edits' = edits + 1
          ELSE UNCHANGED <<workload, inbox, edits>>
     /\ Goto(c, Idle)
     /\ UNCHANGED <<policy, node, host, relay, left>>

-----------------------------------------------------------------------------
(* The fleet policy.                                                       *)

\* update_policy: the next snapshot is signed and the active nodes are listed first.
PolicyRead(c, rules) ==
  /\ At(c, "idle") /\ Begin("policy")
  /\ Goto(c, [at |-> "policy", next |-> [version |-> policy.version + 1, rules |-> rules],
              listed |-> node = "active"])
  /\ UNCHANGED <<policy, workload, node, inbox, edits, host, relay>>

\* replace_fleet_policy; a node that became active since the listing is not told.
PolicyCommit(c) ==
  LET call == conn[c]
  IN /\ At(c, "policy")
     /\ IF policy.version + 1 = call.next.version
          THEN /\ policy' = call.next
               /\ Queue(IF call.listed THEN <<PolicyDoc(call.next)>> ELSE <<>>)
               /\ edits' = edits + 1
          ELSE UNCHANGED <<policy, inbox, edits>>
     /\ Goto(c, Idle)
     /\ UNCHANGED <<workload, node, host, relay, left>>

-----------------------------------------------------------------------------
(* Nodes and grants.                                                       *)

ApproveNode ==
  /\ node = "enrolling"
  /\ node' = "active"
  /\ UNCHANGED <<policy, workload, conn, inbox, edits, host, relay, left>>

\* revoke_node ends the registrations with the node and queues none of them.
RevokeNode ==
  /\ node = "active" /\ "node" \in left.acts
  /\ node' = "revoked"
  /\ workload' = [w \in Workloads |->
                    IF workload[w].status = "active"
                      THEN [workload[w] EXCEPT !.status = "revoked", !.version = @ + 1]
                      ELSE workload[w]]
  /\ edits' = edits + 1
  /\ UNCHANGED <<policy, conn, inbox, host, relay, left>>

\* The registration the node was last sent for a workload is of the current policy.
Told(w) ==
  \E i \in 1..Len(inbox) :
    /\ inbox[i].kind = "registration" /\ inbox[i].workload = w
    /\ inbox[i].version = workload[w].version /\ inbox[i].policy = policy.version

\* ensure_operation_grants: a draft for the registration read now.
GrantRead(c, w) ==
  /\ At(c, "idle") /\ Begin("grant")
  /\ workload[w].status = "active" /\ node = "active"
  /\ Goto(c, [at |-> "grant", w |-> w, version |-> workload[w].version,
              unit |-> workload[w].unit, policy |-> policy.version,
              told |-> Told(w), edits |-> edits])
  /\ UNCHANGED <<policy, workload, node, inbox, edits, host, relay>>

\* grant_matches_context: every registered field, not the registration's version.
Matches(call) ==
  /\ workload[call.w].status = "active" /\ node = "active"
  /\ workload[call.w].unit = call.unit
  /\ policy.version = call.policy

GrantCommit(c) ==
  LET call == conn[c]
  IN /\ At(c, "grant")
     /\ Queue(IF Matches(call)
                THEN <<[kind |-> "grant", workload |-> call.w, version |-> call.version,
                        unit |-> call.unit, policy |-> call.policy,
                        told |-> call.told, edits |-> call.edits]>>
                ELSE <<>>)
     /\ Goto(c, Idle)
     /\ UNCHANGED <<policy, workload, node, edits, host, relay, left>>

\* A client that goes away drops its handler between the read and the transaction.
Drop(c) ==
  /\ ~At(c, "idle")
  /\ Goto(c, Idle)
  /\ UNCHANGED <<policy, workload, node, inbox, edits, host, relay, left>>

-----------------------------------------------------------------------------
(* The broker.                                                             *)

\* The document in force that a new one would replace, in memory or on disk.
InForce(settings, doc) ==
  IF doc.kind = "policy" THEN settings.policy ELSE settings.reg[doc.workload]

With(settings, doc) ==
  IF doc.kind = "policy" THEN [settings EXCEPT !.policy = doc]
                         ELSE [settings EXCEPT !.reg[doc.workload] = doc]

\* Versions are not compared: any document unlike the one in force is applied.
\* validate_fleet_registration and validate_fleet_policy: an older version is passed
\* over, a version reused with other content is refused.
Verdict(doc) ==
  LET now == InForce(broker, doc)
  IN IF now = None \/ doc.version > now.version THEN "apply"
     ELSE IF doc.version < now.version \/ doc = now THEN "skip" ELSE "refuse"

\* apply_fleet_registration and apply_fleet_policy: accepted grants of the workload, or
\* of another policy version, are retired.
Retained(doc) ==
  {i \in held : IF doc.kind = "policy" THEN inbox[i].policy = doc.version
                                       ELSE inbox[i].workload # doc.workload}

KeyOf(doc) == IF doc.kind = "policy" THEN "policy" ELSE doc.workload

\* Settings lost at a restart that no later document of theirs has made up for.
Missing ==
  {doc \in lost : InForce(broker, doc) = None \/ InForce(broker, doc).version < doc.version}

\* They may concern a grant: its policy or the registration of its workload.
MissingFor(grant) == {doc \in Missing : KeyOf(doc) \in {"policy", grant.workload}}

\* retry_pending_persistence, before each document: every failed write succeeds or none.
Retried(ok) ==
  IF ok THEN [disk |-> FoldSet(LAMBDA doc, d : With(d, doc), disk, unsaved), unsaved |-> {}]
        ELSE [disk |-> disk, unsaved |-> unsaved]

\* persist_or_fence: a document in force that was not written stays to be retried.
Persist(doc, ok, before) ==
  LET others == {d \in before.unsaved : KeyOf(d) # KeyOf(doc)}
  IN IF ok THEN disk' = With(before.disk, doc) /\ unsaved' = others
           ELSE disk' = before.disk /\ unsaved' = others \cup {doc}

\* The document the relay hands over next.
Due == inbox[passed + 1]

ApplySettings(ok) ==
  LET before == Retried(ok)
  IN /\ passed < Len(inbox) /\ Due.kind # "grant"
     /\ ok \/ left.faults > 0
     /\ left' = IF ok THEN left ELSE [left EXCEPT !.faults = @ - 1]
     /\ \/ /\ Verdict(Due) = "apply"
           /\ broker' = With(broker, Due)
           /\ held' = Retained(Due)
           /\ Persist(Due, ok, before)
           /\ passed' = IF ok THEN passed + 1 ELSE passed
        \/ /\ Verdict(Due) = "skip"
           /\ ok \/ unsaved # {}
           /\ disk' = before.disk /\ unsaved' = before.unsaved
           /\ passed' = passed + 1
           /\ UNCHANGED <<broker, held>>
     /\ UNCHANGED <<controller, refused, lost, acked>>

\* accept_grant: bound to the registration and policy in force, which agree.
Binds(grant) ==
  LET reg == broker.reg[grant.workload]
  IN /\ grant.version = reg.version /\ grant.policy = broker.policy.version
     /\ reg.policy = grant.policy
     /\ reg.status = "active" /\ reg.unit = grant.unit

\* A grant waits for settings that are unsaved or missing; one already accepted is
\* settled; one that does not bind is discarded.
ReceiveGrant ==
  LET i == passed + 1  grant == Due
  IN /\ passed < Len(inbox) /\ grant.kind = "grant"
     /\ Retried(TRUE).unsaved = {}
     /\ broker.policy # None /\ broker.reg[grant.workload] # None
     /\ disk' = Retried(TRUE).disk /\ unsaved' = {}
     /\ passed' = i
     /\ IF i \in held \/ Binds(grant)
          THEN held' = held \cup {i} /\ UNCHANGED refused
          ELSE refused' = refused \cup {[at |-> i, edits |-> edits, lost |-> MissingFor(grant) # {}]}
               /\ UNCHANGED held
     /\ UNCHANGED <<controller, broker, lost, acked, left>>

\* restore_controller_documents; accepted grants were in memory only.  A redelivered
\* document was answered as applied although its write was owed: the relay is past it,
\* and what the restart forgets is not sent again.
Restart ==
  /\ Breaks
  /\ broker' = disk
  /\ unsaved' = {} /\ held' = {}
  /\ lost' = lost \cup {doc \in unsaved : \E i \in 1..passed : inbox[i] = doc}
  /\ UNCHANGED <<controller, disk, refused, relay>>

-----------------------------------------------------------------------------
(* The relay.                                                              *)

Acknowledge ==
  /\ acked < passed
  /\ acked' = passed
  /\ UNCHANGED <<controller, host, passed, left>>

\* The relay restarts: it starts again from what the controller has acknowledged.
Break ==
  /\ acked < passed
  /\ Breaks
  /\ passed' = acked
  /\ UNCHANGED <<controller, host, acked>>

-----------------------------------------------------------------------------

AdminStep ==
  \/ \E c \in Conns : \/ \E w \in Workloads, unit \in Units : CreateRead(c, w, unit)
                      \/ CreateCommit(c)
                      \/ \E w \in Workloads, unit \in Units : UpdateRead(c, w, unit)
                      \/ UpdateCommit(c)
                      \/ \E w \in Workloads : RevokeRead(c, w)
                      \/ RevokeCommit(c)
                      \/ \E rules \in RuleSets : PolicyRead(c, rules)
                      \/ PolicyCommit(c)
                      \/ \E w \in Workloads : GrantRead(c, w)
                      \/ GrantCommit(c)
                      \/ Drop(c)
  \/ ApproveNode
  \/ RevokeNode

BrokerStep ==
  \/ \E ok \in BOOLEAN : ApplySettings(ok)
  \/ ReceiveGrant
  \/ Restart

Next == AdminStep \/ BrokerStep \/ Acknowledge \/ Break

Spec == Init /\ [][Next]_vars

\* The relay polls for ever and hands on what it was given; writes fail finitely often.
FairSpec == Spec /\ WF_vars(ApplySettings(TRUE)) /\ WF_vars(ReceiveGrant) /\ WF_vars(Acknowledge)

-----------------------------------------------------------------------------

\* However the handlers interleave, a policy version and a registration version name one
\* signed document: the broker never meets a version reused with other content, which
\* it would refuse for ever (expected_version, validate_fleet_registration).
OneDocumentPerVersion ==
  \A i, j \in 1..Len(inbox) :
    /\ inbox[i].kind = inbox[j].kind /\ inbox[i].kind # "grant"
    /\ KeyOf(inbox[i]) = KeyOf(inbox[j]) /\ inbox[i].version = inbox[j].version
    => inbox[i] = inbox[j]

\* The broker never has two active registrations of one unit, whichever documents were
\* resent or restored after a restart (unit_conflict, apply_fleet_registration): unless
\* the later registration of one of them was answered as applied and lost at a restart
\* while its write was owed (retry_pending_persistence, persistence_fenced).
UnitExclusive ==
  \A v, w \in Workloads :
    /\ v # w /\ broker.reg[v] # None /\ broker.reg[w] # None
    /\ broker.reg[v].status = "active" /\ broker.reg[w].status = "active"
    /\ \A doc \in Missing : KeyOf(doc) \notin {v, w}
    => broker.reg[v].unit # broker.reg[w].unit

\* A grant the controller issued is discarded by the broker only for a reason an
\* administrator made: settings were committed after the grant was drafted, or the
\* workload was last registered under an earlier policy (accept_grant).  Settings of the
\* grant that were lost at a restart while their write was owed are the one other reason.
RefusedWithCause ==
  \A r \in refused : inbox[r.at].told => r.edits > inbox[r.at].edits \/ r.lost

\* The settings the two sides hold mean the same thing (commit_workload, commit_policy,
\* apply_fleet_registration, accept_grant), whichever writes fail and whenever the broker
\* restarts, but for settings a restart lost while their write was owed.
SettingsSound == OneDocumentPerVersion /\ UnitExclusive /\ RefusedWithCause

\* The grant the relay hands over next needs settings that a restart lost, and the
\* broker has none in their place.
Stranded ==
  /\ passed < Len(inbox) /\ Due.kind = "grant"
  /\ \E doc \in MissingFor(Due) : InForce(broker, doc) = None

\* Every queued document is handed over and acknowledged while the node is in service,
\* whatever handlers, failed writes and restarts precede it (run_channel_session,
\* apply_controller_document_to_state): the inbox can stop only behind a grant whose
\* first registration or policy was lost at a restart while its write was owed.
InboxDrains == []<>(acked = Len(inbox) \/ node = "revoked" \/ Stranded)
=============================================================================
