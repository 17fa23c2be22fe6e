---------------------------- MODULE Fulfillment ----------------------------
(***************************************************************************)
(* Cross-workload fulfillment: one credential moves from an issuer broker  *)
(* to a recipient broker under terms the controller signed.  Models the    *)
(* controller's store/fulfillments.rs with the event handler of            *)
(* routes/node.rs, the brokers' ops/fulfill.rs with the loader read of     *)
(* lib.rs, and the node relay's provisioning_relay.rs, outbox.rs and poll  *)
(* loop that carry documents down and events up.                           *)
(*                                                                         *)
(* One issuer workload and one recipient workload on two nodes, and one    *)
(* destination in the recipient broker.  Every store function is one       *)
(* transaction and every broker command runs under the state lock, hence   *)
(* one step each; the sweep and the relay run several and are held in      *)
(* sweep and asked between them.  Terms and the entries made from them     *)
(* share one deadline (row[f].left, in ticks): both brokers measure it     *)
(* with trusted controller time, which GrantVerifier models.  Definitions  *)
(* named Faulty... carry one plausible bug each and are not part of the    *)
(* specification.                                                          *)
(***************************************************************************)
EXTENDS Naturals, Sequences, FiniteSets

CONSTANTS
  Other,        \* a credential that did not come through a fulfillment
  Ids,          \* fulfillment ids, ordered as the brokers' BTreeMap orders them
  Fresh,        \* the ids requested without a prior_fulfillment_id
  Requesters,   \* operators who request fulfillments
  Approvers,    \* approver_ids of the pending_approval rule
  Documents,    \* cross_workload rule lists the fleet policy may hold
  ApprovalTtl,  \* TTL_CAP_SECONDS, as the lifetime of an approval request
  TermsTtl,     \* the lifetime authorize! gives the terms
  OfferTtl,     \* offer_lifetime of the recipient broker
  MaxEntries,   \* MAX_ENTRIES, 16 in the code
  MaxFaults,    \* bound on the disturbances of a behaviour
  Scenes        \* the first rules, the fulfillments requested, and what may disturb them

ASSUME FulfillmentAssumption ==
  /\ Ids \subseteq Nat \ {0} /\ Fresh \subseteq Ids /\ Other \notin Nat
  /\ Documents # {}
  /\ \A d \in Documents : \A i \in DOMAIN d :
       d[i].named \in BOOLEAN /\ d[i].decision \in {"allow", "pending_approval", "deny"}
  /\ {ApprovalTtl, TermsTtl, OfferTtl, MaxEntries} \subseteq Nat \ {0}
  /\ MaxFaults \in Nat
  /\ \A s \in Scenes : s.rules \in Documents /\ s.ids \subseteq Ids

VARIABLES
  row,        \* the cross_fulfillments table
  payload,    \* the cross_fulfillment_payloads table
  recorded,   \* fulfillment events in the node_events table
  document,   \* the cross_workload rules of the fleet policy
  authority, enabled,
  sweep,      \* the verdict expire_fulfillments is about to apply
  inbox,      \* node_inbox rows not yet acknowledged, by side
  relayed,    \* how many of them this relay process has handed to the broker
  asked,      \* the fulfillment whose event the relay is about to request
  outbox,     \* events on their way up: the broker's queue and the node's outbox
  known,      \* the policy and registration each broker holds
  entry,      \* recipient entries of the broker's FulfillmentBook
  sealed,     \* issuer entries, by the offer they were sealed to
  tombs,      \* tombstones, by side
  dest,       \* what the recipient's destination holds
  source,     \* the issuer broker still holds its credential
  minted,     \* how many offers the recipient broker minted for each id
  offerLeft,  \* ticks left for each of them
  plan,       \* the scene: fulfillments requested, disturbances that may still happen
  opened,     \* history: how often a payload of each fulfillment was opened
  read,       \* history: fulfillments whose credential the unit read
  covered     \* history: fulfillments in force when root provisioned their destination

store == <<row, payload, recorded>>
settings == <<document, authority, enabled>>
relay == <<inbox, relayed, asked>>
book == <<entry, sealed, tombs, dest, source, minted, offerLeft>>
history == <<opened, read, covered>>
vars == <<store, settings, sweep, relay, outbox, known, book, plan, history>>

-----------------------------------------------------------------------------

Sides == {"issuer", "recipient"}

\* ACTIVE_STATUSES: the statuses that hold the recipient's single slot.
Active == {"awaiting_approval", "approved", "offered", "available",
           "recipient_consumed", "uncertain"}

Closed == {"denied", "revoked", "expired", "failed", "completed"}

Empty == 0

NoTerms == [policy |-> 0, issuer |-> 0, recipient |-> 0]

NoRow == [status |-> "absent", by |-> "none", prior |-> 0, policy |-> 0, at |-> NoTerms,
          offer |-> 0, left |-> 0]

NoEntry == [phase |-> "none", offer |-> 0, replaces |-> 0, receipt |-> FALSE, held |-> <<>>]

NoVerdict == [id |-> 0, status |-> "none"]

\* A broker restart is a disturbance: at most MaxFaults + 1 offers are minted per id.
Mints == 1..(MaxFaults + 1)

Before(n) == IF n = 0 THEN 0 ELSE n - 1

MaxId == CHOOSE m \in Ids : \A n \in Ids : n <= m

Least(S) == CHOOSE m \in S : \A n \in S : m <= n

\* A document in an inbox or an event in an outbox: n is the offer or the version.
Message(kind, f, n) == [kind |-> kind, id |-> f, n |-> n]

Send(boxes, side, message) == [boxes EXCEPT ![side] = Append(@, message)]

SendBoth(boxes, message) == [s \in Sides |-> Append(boxes[s], message)]

Init ==
  /\ \E s \in Scenes :
       document = s.rules /\ plan = [ids |-> s.ids, faults |-> s.faults, left |-> MaxFaults]
  /\ row = [f \in Ids |-> NoRow]
  /\ payload = {}
  /\ recorded = {}
  /\ authority = [policy |-> 1, issuer |-> 1, recipient |-> 1]
  /\ enabled = TRUE
  /\ sweep = NoVerdict
  /\ inbox = [s \in Sides |-> <<>>]
  /\ relayed = [s \in Sides |-> 0]
  /\ asked = [s \in Sides |-> 0]
  /\ outbox = [s \in Sides |-> <<>>]
  /\ known = [s \in Sides |-> [policy |-> 1, party |-> 1]]
  /\ entry = [f \in Ids |-> NoEntry]
  /\ sealed = [f \in Ids |-> 0]
  /\ tombs = [s \in Sides |-> {}]
  /\ dest = Empty
  /\ source = TRUE
  /\ minted = [f \in Ids |-> 0]
  /\ offerLeft = [f \in Ids |-> [n \in Mints |-> 0]]
  /\ opened = [f \in Ids |-> 0]
  /\ read = {} /\ covered = {}

-----------------------------------------------------------------------------
(* The controller: operators and the sweep.                                *)

\* PartyRow::usable for both workloads.
Usable == authority["issuer"] # 0 /\ authority["recipient"] # 0

\* The authorize! macro: terms are bound and the recipient is told.
Authorized(r) == [r EXCEPT !.status = "approved", !.at = authority, !.left = TermsTtl]

RecipientTold(f) == Send(inbox, "recipient", Message("authorize", f, 0))

Holders == {f \in Ids : row[f].status \in Active}

Requested(o, p, status, ttl) ==
  [NoRow EXCEPT !.status = status, !.by = o, !.prior = p,
                 !.policy = authority["policy"], !.left = ttl]

\* evaluate_cross_policy: the first rule that names the two workloads decides.
EvaluateCrossPolicy(rules) ==
  LET naming == SelectSeq(rules, LAMBDA r : r.named)
  IN  IF naming = <<>> THEN "deny" ELSE Head(naming).decision

PriorUsable(p) == p # 0 => row[p].status \in {"completed", "recipient_consumed"}

\* What the decision makes of the new row, within the transaction that inserts it.
Decided(f, o, p, decision) ==
  \/ /\ decision = "allow"
     /\ row' = [row EXCEPT ![f] = Authorized(Requested(o, p, "approved", 0))]
     /\ inbox' = RecipientTold(f)
  \/ /\ decision = "pending_approval"
     /\ row' = [row EXCEPT ![f] = Requested(o, p, "awaiting_approval", ApprovalTtl)]
     /\ UNCHANGED inbox
  \/ /\ decision = "deny"
     /\ row' = [row EXCEPT ![f] = Requested(o, p, "denied", 0)]
     /\ UNCHANGED inbox

CreateFulfillment(f, o, p) ==
  /\ row[f].status = "absent"
  /\ Usable /\ PriorUsable(p)
  /\ Holders = {}
  /\ Decided(f, o, p, EvaluateCrossPolicy(document))

\* The create handler.  A retry under the same idempotency key returns the row.
Create(f, o, p) ==
  /\ enabled
  /\ p = 0 <=> f \in Fresh
  /\ f \in plan.ids
  /\ CreateFulfillment(f, o, p)
  /\ UNCHANGED <<payload, recorded, settings, sweep, relayed, asked, outbox, known, book,
                 plan, history>>

\* The terms must still be the ones the policy was evaluated for: a policy change
\* while the request waits is refused, and the sweep ends the request later.
DecideFulfillment(f, o, verdict) ==
  /\ row[f].status = "awaiting_approval"
  /\ o # row[f].by
  /\ \/ /\ verdict = "rejected"
        /\ row' = [row EXCEPT ![f].status = "denied"]
        /\ UNCHANGED inbox
     \/ /\ verdict = "approved" /\ row[f].left = 0
        /\ row' = [row EXCEPT ![f].status = "expired"]
        /\ UNCHANGED inbox
     \/ /\ verdict = "approved" /\ row[f].left # 0
        /\ Usable /\ authority["policy"] = row[f].policy
        /\ row' = [row EXCEPT ![f] = Authorized(@)]
        /\ inbox' = RecipientTold(f)

\* The decide handler: the feature switched off still lets a request be rejected.
Decide(f, o, verdict) ==
  /\ verdict = "approved" => enabled
  /\ DecideFulfillment(f, o, verdict)
  /\ UNCHANGED <<payload, recorded, settings, sweep, relayed, asked, outbox, known, book,
                 plan, history>>

\* The close! macro.
Close(f, status) ==
  /\ row' = [row EXCEPT ![f].status = status]
  /\ payload' = payload \ {f}
  /\ inbox' = IF row[f].at = NoTerms THEN inbox
              ELSE SendBoth(inbox, Message("revoke", f, 0))

RevokeFulfillment(f) ==
  /\ row[f].status \in Active
  /\ Close(f, "revoked")
  /\ UNCHANGED <<recorded, settings, sweep, relayed, asked, outbox, known, book, plan,
                 history>>

FaultyExpiredTo(status) ==
  CASE status = "available" -> "uncertain"
    [] status = "recipient_consumed" -> "none"
    [] OTHER -> "expired"

\* sweep_verdict for a row past its deadline.
ExpiredTo(status) ==
  CASE status = "available" -> "uncertain"
    [] status = "uncertain" -> "none"
    [] OTHER -> "expired"

SweepVerdict(r) ==
  CASE ~enabled -> "revoked"
    [] enabled /\ r.left = 0 -> ExpiredTo(r.status)
    [] OTHER -> IF r.at # NoTerms /\ r.status # "uncertain" /\ r.at # authority
                THEN "failed" ELSE "none"

\* expire_fulfillments reads one live row and decides; the row may move on before
\* SweepClose, which closes it whatever live status it has by then.
SweepRead(f) ==
  /\ sweep = NoVerdict
  /\ row[f].status \in Active /\ SweepVerdict(row[f]) # "none"
  /\ sweep' = [id |-> f, status |-> SweepVerdict(row[f])]
  /\ UNCHANGED <<store, settings, relay, outbox, known, book, plan, history>>

SweepClose ==
  /\ sweep # NoVerdict
  /\ sweep' = NoVerdict
  /\ IF row[sweep.id].status \in Active THEN Close(sweep.id, sweep.status)
                                        ELSE UNCHANGED <<row, payload, inbox>>
  /\ UNCHANGED <<recorded, settings, relayed, asked, outbox, known, book, plan, history>>

\* A closed row is removed once the audit retention is over, days after its terms.
PruneFulfillments(f) ==
  /\ row[f].status \in Closed /\ row[f].left = 0
  /\ \A n \in Mints : offerLeft[f][n] = 0
  /\ row' = [row EXCEPT ![f] = [NoRow EXCEPT !.status = "pruned"]]
  /\ payload' = payload \ {f}
  /\ UNCHANGED <<recorded, settings, sweep, relay, outbox, known, book, plan, history>>

-----------------------------------------------------------------------------
(* The controller: events from the nodes (record_fulfillment_event).       *)

\* A recorded key is a duplicate or a conflict; neither applies anything.
New(e) == \A k \in recorded : k.kind # e.kind \/ k.id # e.id

\* The row is there and carries the terms the event was made under.
Known(e) == row[e.id].status # "pruned" /\ row[e.id].at # NoTerms

\* node_check, the registration and the workload's status, for one party.
InForce(f, side) == authority[side] = row[f].at[side]

OfferAccepted(e) ==
  /\ row[e.id].status = "approved"
  /\ offerLeft[e.id][e.n] # 0
  /\ InForce(e.id, "recipient") /\ InForce(e.id, "policy")

ApplyOffer(e) ==
  /\ row' = [row EXCEPT ![e.id].status = "offered", ![e.id].offer = e.n]
  /\ inbox' = Send(inbox, "issuer", Message("authorize", e.id, e.n))
  /\ UNCHANGED payload

SubmitAccepted(e) ==
  /\ row[e.id].status = "offered" /\ row[e.id].left # 0
  /\ e.n = row[e.id].offer
  /\ InForce(e.id, "issuer")

ApplySubmit(e) ==
  /\ row' = [row EXCEPT ![e.id].status = "available"]
  /\ payload' = payload \cup {e.id}
  /\ inbox' = Send(inbox, "recipient", Message("deliver", e.id, e.n))

FaultyStoredCompletes(e) ==
  \/ /\ row[e.id].status \in {"available", "uncertain"}
     /\ row' = [row EXCEPT ![e.id].status = IF @ = "uncertain" THEN "expired" ELSE "completed"]
     /\ payload' = payload \ {e.id}
     /\ UNCHANGED inbox
  \/ /\ row[e.id].status \notin {"available", "uncertain"}
     /\ UNCHANGED <<row, payload, inbox>>

ApplyStored(e) ==
  \/ /\ row[e.id].status \in {"available", "uncertain"}
     /\ row' = [row EXCEPT ![e.id].status = IF @ = "uncertain" THEN "expired"
                                            ELSE "recipient_consumed"]
     /\ payload' = payload \ {e.id}
     /\ UNCHANGED inbox
  \/ /\ row[e.id].status \notin {"available", "uncertain"}
     /\ UNCHANGED <<row, payload, inbox>>

\* A result for a closed fulfillment is evidence only.
ApplyConsumed(e) ==
  \/ /\ row[e.id].status \in {"available", "recipient_consumed", "uncertain"}
     /\ row' = [row EXCEPT ![e.id].status = "completed"]
     /\ payload' = payload \ {e.id}
     /\ UNCHANGED inbox
  \/ /\ row[e.id].status \notin {"available", "recipient_consumed", "uncertain"}
     /\ UNCHANGED <<row, payload, inbox>>

ApplyFailed(e) ==
  \/ /\ row[e.id].status \in Active \ {"awaiting_approval"}
     /\ Close(e.id, "failed")
  \/ /\ row[e.id].status \notin Active \ {"awaiting_approval"}
     /\ UNCHANGED <<row, payload, inbox>>

\* An event that cannot apply is discarded, acknowledged and not recorded.
Accepted(e) ==
  /\ enabled /\ New(e) /\ Known(e)
  /\ e.kind = "offer" => OfferAccepted(e)
  /\ e.kind = "submit" => SubmitAccepted(e)

RecordFulfillmentEvent(e) ==
  \/ /\ Accepted(e)
     /\ \/ e.kind = "offer" /\ ApplyOffer(e)
        \/ e.kind = "submit" /\ ApplySubmit(e)
        \/ e.kind = "stored" /\ ApplyStored(e)
        \/ e.kind = "consumed" /\ ApplyConsumed(e)
        \/ e.kind = "failed" /\ ApplyFailed(e)
     /\ recorded' = recorded \cup {e}
  \/ /\ ~Accepted(e)
     /\ UNCHANGED <<store, inbox>>

-----------------------------------------------------------------------------
(* Disturbances, each counted.                                             *)

Fault(kind) ==
  /\ kind \in plan.faults /\ plan.left > 0
  /\ plan' = [plan EXCEPT !.faults = IF plan.left = 1 THEN {} ELSE @ \ {kind},
                          !.left = @ - 1]

NoFault == UNCHANGED plan

\* The relay sends the oldest event; the acknowledgement may be lost.
SendEvent(s) ==
  /\ outbox[s] # <<>> /\ asked[s] = 0
  /\ RecordFulfillmentEvent(Head(outbox[s]))
  /\ \/ outbox' = [outbox EXCEPT ![s] = Tail(@)] /\ NoFault
     \/ Fault("lost") /\ UNCHANGED outbox
  /\ UNCHANGED <<settings, sweep, relayed, asked, known, book, history>>

\* queue_fulfillment_result: one event per key; the queue may be full.
Queued(s, e) == IF \E i \in DOMAIN outbox[s] : outbox[s][i] = e THEN outbox
                ELSE Send(outbox, s, e)

\* reject_fulfillment: a full queue drops the report.
Reject(s, f) ==
  \/ outbox' = Queued(s, Message("failed", f, 0)) /\ NoFault
  \/ Fault("full") /\ UNCHANGED outbox

\* flush_fulfillment_reports, over the entries e in the order of their ids.
HeldReports(e) ==
  LET upTo[n \in 0..MaxId] ==
        IF n = 0 THEN <<>> ELSE upTo[n - 1] \o (IF n \in Ids THEN e[n].held ELSE <<>>)
  IN  upTo[MaxId]

Flush(e) ==
  /\ entry' = [f \in Ids |-> [e[f] EXCEPT !.held = <<>>]]
  /\ outbox' = [outbox EXCEPT !["recipient"] = @ \o HeldReports(e)]

-----------------------------------------------------------------------------
(* The recipient's broker.                                                 *)

\* maintain_fulfillments: an unread credential goes at the deadline, and an entry
\* when nothing depends on it any more.
Unread(f) == entry[f].phase = "stored" /\ row[f].left = 0

PurgedDest == IF \E f \in Ids : Unread(f) THEN Empty ELSE dest

PurgedEntry(f) ==
  LET kept == IF Unread(f) THEN [entry[f] EXCEPT !.phase = "failed"] ELSE entry[f]
      holds == kept.phase \in {"stored", "consumed"} /\ PurgedDest # Empty
  IN  IF row[f].left = 0 /\ ~holds /\ kept.held = <<>> THEN NoEntry ELSE kept

PurgedBook == [f \in Ids |-> PurgedEntry(f)]

\* fulfillment_owner, 0 for none.
Owner(e, d) ==
  LET holding == {f \in Ids : e[f].phase \in {"stored", "consumed"}}
  IN  IF d = Empty \/ holding = {} THEN 0 ELSE Least(holding)

\* fulfillment_party_check.
Matches(f, s) == known[s] = [policy |-> row[f].at.policy, party |-> row[f].at[s]]

Entries(e) == Cardinality({f \in Ids : e[f].phase # "none"})

OfferRefused(f, e, d) ==
  \/ row[f].left = 0 \/ ~Matches(f, "recipient")
  \/ \E g \in Ids : e[g].phase = "offered" /\ offerLeft[g][e[g].offer] # 0
  \/ d # Empty /\ (Owner(e, d) = 0 \/ Owner(e, d) # row[f].prior)
  \/ Entries(e) >= MaxEntries

Done(s) == relayed' = [relayed EXCEPT ![s] = @ + 1] /\ UNCHANGED asked

Ask(s, f) == asked' = [asked EXCEPT ![s] = f] /\ UNCHANGED relayed

MintOffer(f, e, d) ==
  LET n == minted[f] + 1
  IN  /\ n \in Mints
      /\ entry' = [e EXCEPT ![f] = [NoEntry EXCEPT !.phase = "offered", !.offer = n,
                                                   !.replaces = Owner(e, d)]]
      /\ minted' = [minted EXCEPT ![f] = n]
      /\ offerLeft' = [offerLeft EXCEPT ![f][n] = Least({OfferTtl, row[f].left})]

Tombstoned(s, f) == f \in tombs[s]

AuthorizeRecipient(f) ==
  LET e == PurgedBook
      d == PurgedDest
  IN  \/ /\ Tombstoned("recipient", f)
         /\ Done("recipient") /\ NoFault
         /\ UNCHANGED <<outbox, book>>
      \/ /\ ~Tombstoned("recipient", f) /\ e[f].phase # "none"
         /\ entry' = e /\ dest' = d
         /\ Ask("recipient", f) /\ NoFault
         /\ UNCHANGED <<outbox, sealed, tombs, source, minted, offerLeft>>
      \/ /\ ~Tombstoned("recipient", f) /\ e[f].phase = "none" /\ OfferRefused(f, e, d)
         /\ entry' = e /\ dest' = d
         /\ Reject("recipient", f) /\ Done("recipient")
         /\ UNCHANGED <<sealed, tombs, source, minted, offerLeft>>
      \/ /\ ~Tombstoned("recipient", f) /\ e[f].phase = "none" /\ ~OfferRefused(f, e, d)
         /\ MintOffer(f, e, d) /\ dest' = d
         /\ Ask("recipient", f) /\ NoFault
         /\ UNCHANGED <<outbox, sealed, tombs, source>>

FaultyDeliveryRefused(f, e, d) ==
  \/ offerLeft[f][e[f].offer] = 0 \/ row[f].left = 0
  \/ ~Matches(f, "recipient")

\* What is attested must still hold, and the destination be free, before the one-use
\* key is spent.
DeliveryRefused(f, e, d) ==
  \/ offerLeft[f][e[f].offer] = 0 \/ row[f].left = 0
  \/ ~Matches(f, "recipient")
  \/ d # Empty /\ (Owner(e, d) = 0 \/ Owner(e, d) # e[f].replaces)

\* The credential is opened and stored; the report is queued, or held when the queue
\* is full.
Stored(f, e) ==
  LET old == e[f].replaces
      report == Message("stored", f, 0)
      after(held) == [g \in Ids |->
        IF g = f THEN [e[f] EXCEPT !.phase = "stored", !.receipt = TRUE, !.held = held]
        ELSE IF g = old THEN [e[g] EXCEPT !.phase = "replaced"] ELSE e[g]]
  IN  /\ dest' = f
      /\ opened' = [opened EXCEPT ![f] = @ + 1]
      /\ \/ entry' = after(<<>>) /\ outbox' = Queued("recipient", report) /\ NoFault
         \/ entry' = after(<<report>>) /\ Fault("full") /\ UNCHANGED outbox

FaultyPlaintextRefused(f, e, d) ==
  /\ opened' = [opened EXCEPT ![f] = @ + 1]
  /\ entry' = e /\ dest' = d
  /\ Reject("recipient", f)

\* The key is spent by the open, but the destination's profile refuses the plaintext.
PlaintextRefused(f, e, d) ==
  /\ opened' = [opened EXCEPT ![f] = @ + 1]
  /\ entry' = [e EXCEPT ![f].phase = "failed"] /\ dest' = d
  /\ Reject("recipient", f)

ApplyDelivery(f, n) ==
  LET e == PurgedBook
      d == PurgedDest
      own == e[f].phase # "none" /\ e[f].offer = n
  IN  /\ Done("recipient")
      /\ UNCHANGED <<sealed, tombs, source, minted, offerLeft>>
      /\ \/ /\ Tombstoned("recipient", f)
            /\ NoFault /\ UNCHANGED <<outbox, entry, dest, opened>>
         \/ /\ ~Tombstoned("recipient", f) /\ ~own
            /\ Reject("recipient", f)
            /\ entry' = e /\ dest' = d /\ UNCHANGED opened
         \/ /\ ~Tombstoned("recipient", f) /\ own /\ e[f].receipt
            /\ Flush(e) /\ NoFault
            /\ dest' = d /\ UNCHANGED opened
         \/ /\ ~Tombstoned("recipient", f) /\ own /\ ~e[f].receipt /\ e[f].phase # "offered"
            /\ NoFault
            /\ entry' = e /\ dest' = d /\ UNCHANGED <<outbox, opened>>
         \/ /\ ~Tombstoned("recipient", f) /\ own /\ e[f].phase = "offered"
            /\ DeliveryRefused(f, e, d)
            /\ Reject("recipient", f)
            /\ entry' = [e EXCEPT ![f].phase = "failed"] /\ dest' = d /\ UNCHANGED opened
         \/ /\ ~Tombstoned("recipient", f) /\ own /\ e[f].phase = "offered"
            /\ ~DeliveryRefused(f, e, d)
            /\ Stored(f, e) \/ PlaintextRefused(f, e, d)

\* retire_fulfillment: an unread credential is removed, a read one stays.
RevokeRecipient(f) ==
  /\ entry' = [entry EXCEPT ![f] = IF @.phase = "consumed" THEN [@ EXCEPT !.held = <<>>]
                                                           ELSE NoEntry]
  /\ dest' = IF entry[f].phase = "stored" THEN Empty ELSE dest

\* note_fulfillment_read: the first read of the credential is reported, or the report
\* held while the queue is full.
NoteRead(f, e) ==
  LET report == Message("consumed", f, 0)
  IN  \/ /\ entry' = [e EXCEPT ![f].phase = "consumed"]
         /\ outbox' = Queued("recipient", report) /\ NoFault
      \/ /\ Fault("full")
         /\ entry' = [e EXCEPT ![f].phase = "consumed", ![f].held = Append(@, report)]
         /\ UNCHANGED outbox

\* process_loader and process_systemd_credential.
LoaderRead ==
  LET e == PurgedBook
      d == PurgedDest
      unread == {f \in Ids : e[f].phase = "stored"}
  IN  /\ d # Empty
      /\ dest' = d
      /\ read' = read \cup ({d} \cap Ids)
      /\ \/ /\ unread = {}
            /\ entry' = e /\ NoFault /\ UNCHANGED outbox
         \/ /\ unread # {}
            /\ NoteRead(Least(unread), e)
      /\ UNCHANGED <<store, settings, sweep, relay, known, sealed, tombs, source, minted,
                     offerLeft, opened, covered>>

-----------------------------------------------------------------------------
(* The issuer's broker.                                                    *)

PurgedSealed == [f \in Ids |-> IF row[f].left = 0 THEN 0 ELSE sealed[f]]

SealRefused(f, n) ==
  \/ row[f].left = 0 \/ offerLeft[f][n] = 0
  \/ ~Matches(f, "issuer")
  \/ Cardinality({g \in Ids : PurgedSealed[g] # 0}) >= MaxEntries
  \/ ~source

AuthorizeIssuer(f, n) ==
  /\ UNCHANGED <<entry, tombs, dest, source, minted, offerLeft>>
  /\ \/ /\ Tombstoned("issuer", f)
        /\ Done("issuer") /\ NoFault /\ UNCHANGED <<outbox, sealed>>
     \/ /\ ~Tombstoned("issuer", f) /\ PurgedSealed[f] # 0
        /\ sealed' = PurgedSealed
        /\ Ask("issuer", f) /\ NoFault /\ UNCHANGED outbox
     \/ /\ ~Tombstoned("issuer", f) /\ PurgedSealed[f] = 0 /\ SealRefused(f, n)
        /\ sealed' = PurgedSealed
        /\ Reject("issuer", f) /\ Done("issuer")
     \/ /\ ~Tombstoned("issuer", f) /\ PurgedSealed[f] = 0 /\ ~SealRefused(f, n)
        /\ sealed' = [PurgedSealed EXCEPT ![f] = n]
        /\ Ask("issuer", f) /\ NoFault /\ UNCHANGED outbox

-----------------------------------------------------------------------------
(* The node relay.                                                         *)

\* revoke_fulfillment in either broker.
ApplyRevocation(s, f) ==
  /\ tombs' = [tombs EXCEPT ![s] = @ \cup {f}]
  /\ \/ s = "recipient" /\ RevokeRecipient(f) /\ UNCHANGED sealed
     \/ s = "issuer" /\ sealed' = [sealed EXCEPT ![f] = 0] /\ UNCHANGED <<entry, dest>>
  /\ Done(s) /\ NoFault
  /\ UNCHANGED <<outbox, source, minted, offerLeft>>

\* A policy snapshot or a registration.
ApplySettings(s, doc) ==
  /\ known' = [known EXCEPT ![s] = IF doc.kind = "policy" THEN [@ EXCEPT !.policy = doc.n]
                                                          ELSE [@ EXCEPT !.party = doc.n]]
  /\ Done(s) /\ NoFault
  /\ UNCHANGED <<outbox, book>>

\* process_inbox_document, for the next document of the relay's batch.
RelayDocument(s) ==
  /\ asked[s] = 0 /\ relayed[s] < Len(inbox[s])
  /\ LET doc == inbox[s][relayed[s] + 1]
     IN  \/ /\ doc.kind = "authorize" /\ UNCHANGED <<known, opened>>
            /\ \/ s = "recipient" /\ AuthorizeRecipient(doc.id)
               \/ s = "issuer" /\ AuthorizeIssuer(doc.id, doc.n)
         \/ doc.kind = "deliver" /\ ApplyDelivery(doc.id, doc.n) /\ UNCHANGED known
         \/ doc.kind = "revoke" /\ ApplyRevocation(s, doc.id) /\ UNCHANGED <<known, opened>>
         \/ /\ doc.kind \in {"policy", "registration"}
            /\ ApplySettings(s, doc) /\ UNCHANGED opened
  /\ UNCHANGED <<store, settings, sweep, inbox, read, covered>>

\* fulfillment_event: the offer or the submission, while it can still be used.
EventOf(s, f) ==
  CASE s = "recipient" /\ entry[f].phase = "offered" /\ offerLeft[f][entry[f].offer] # 0 ->
         {Message("offer", f, entry[f].offer)}
    [] s = "issuer" /\ sealed[f] # 0 /\ row[f].left # 0 ->
         {Message("submit", f, sealed[f])}
    [] OTHER -> {}

\* Outbox::insert_batch refuses a second body under one key.
KeyFree(s, e) ==
  \A i \in DOMAIN outbox[s] : outbox[s][i].kind # e.kind \/ outbox[s][i].id # e.id

RequestEvent(s) ==
  /\ asked[s] # 0
  /\ LET free == {e \in EventOf(s, asked[s]) : KeyFree(s, e)}
     IN  outbox' = IF free = {} THEN outbox ELSE Send(outbox, s, CHOOSE e \in free : TRUE)
  /\ asked' = [asked EXCEPT ![s] = 0]
  /\ relayed' = [relayed EXCEPT ![s] = @ + 1]
  /\ UNCHANGED <<store, settings, sweep, inbox, known, book, plan, history>>

\* The next poll acknowledges what was relayed.
Poll(s) ==
  /\ asked[s] = 0 /\ relayed[s] # 0
  /\ inbox' = [inbox EXCEPT ![s] = SubSeq(@, relayed[s] + 1, Len(@))]
  /\ relayed' = [relayed EXCEPT ![s] = 0]
  /\ UNCHANGED <<store, settings, sweep, asked, outbox, known, book, plan, history>>

\* PULL_EVENTS maintains the book and retries held results.
PullEvents ==
  /\ asked["recipient"] = 0
  /\ PurgedBook # entry \/ HeldReports(entry) # <<>>
  /\ Flush(PurgedBook) /\ dest' = PurgedDest
  /\ UNCHANGED <<store, settings, sweep, relay, known, sealed, tombs, source, minted, offerLeft,
                 plan, history>>

-----------------------------------------------------------------------------
(* The environment.                                                        *)

\* The book, the credentials and the tombstones are in memory; the queue is not.
BrokerRestart(s) ==
  /\ Fault("broker")
  /\ tombs' = [tombs EXCEPT ![s] = {}]
  /\ \/ /\ s = "recipient"
        /\ entry' = [f \in Ids |-> NoEntry] /\ dest' = Empty
        /\ UNCHANGED <<sealed, source>>
     \/ /\ s = "issuer"
        /\ sealed' = [f \in Ids |-> 0] /\ source' = FALSE
        /\ UNCHANGED <<entry, dest>>
  /\ asked' \in {asked, [asked EXCEPT ![s] = 0]}
  /\ UNCHANGED <<store, settings, sweep, inbox, relayed, outbox, known, minted, offerLeft,
                 history>>

RelayRestart(s) ==
  /\ Fault("relay")
  /\ relayed' = [relayed EXCEPT ![s] = 0]
  /\ asked' = [asked EXCEPT ![s] = 0]
  /\ UNCHANGED <<store, settings, sweep, inbox, outbox, known, book, history>>

\* A credential reaches the end of its own lifetime.
CredentialExpires ==
  /\ Fault("lifetime")
  /\ \/ dest # Empty /\ dest' = Empty /\ UNCHANGED source
     \/ source /\ source' = FALSE /\ UNCHANGED dest
  /\ UNCHANGED <<store, settings, sweep, relay, outbox, known, entry, sealed, tombs, minted,
                 offerLeft, history>>

\* provision_sealed writes the destination whatever it holds, and tells no fulfillment.
ProvisionSealed ==
  /\ Fault("provision")
  /\ dest' = Other
  /\ covered' = covered \cup {f \in Ids : entry[f].phase \in {"stored", "consumed"}}
  /\ UNCHANGED <<store, settings, sweep, relay, outbox, known, entry, sealed, tombs, source,
                 minted, offerLeft, opened, read>>

ProvisionSource ==
  /\ ~source /\ source' = TRUE
  /\ UNCHANGED <<store, settings, sweep, relay, outbox, known, entry, sealed, tombs, dest,
                 minted, offerLeft, plan, history>>

ChangePolicy ==
  /\ Fault("policy")
  /\ authority' = [authority EXCEPT !["policy"] = @ + 1]
  /\ document' \in Documents
  /\ inbox' = SendBoth(inbox, Message("policy", 0, authority["policy"] + 1))
  /\ UNCHANGED <<store, enabled, sweep, relayed, asked, outbox, known, book, history>>

\* A workload is registered again (version above 0) or disabled (0).
ChangeParty(s) ==
  /\ Fault("party") /\ authority[s] # 0
  /\ \E v \in {0, authority[s] + 1} :
       /\ authority' = [authority EXCEPT ![s] = v]
       /\ inbox' = Send(inbox, s, Message("registration", 0, v))
  /\ UNCHANGED <<store, document, enabled, sweep, relayed, asked, outbox, known, book, history>>

\* The controller restarts with the feature switched off.
Disable ==
  /\ Fault("disable") /\ enabled
  /\ enabled' = FALSE
  /\ UNCHANGED <<store, document, authority, sweep, relay, outbox, known, book, history>>

Tick ==
  /\ row' = [f \in Ids |-> [row[f] EXCEPT !.left = Before(@)]]
  /\ offerLeft' = [f \in Ids |-> [n \in Mints |-> Before(offerLeft[f][n])]]
  /\ <<row, offerLeft>>' # <<row, offerLeft>>
  /\ UNCHANGED <<payload, recorded, settings, sweep, relay, outbox, known, entry, sealed, tombs,
                 dest, source, minted, plan, history>>

Sweep == SweepClose \/ \E f \in Ids : SweepRead(f)

Next ==
  \/ \E f \in Ids, o \in Requesters, p \in Ids \cup {0} : Create(f, o, p)
  \/ \E f \in Ids, o \in Approvers, v \in {"approved", "rejected"} : Decide(f, o, v)
  \/ \E f \in Ids : PruneFulfillments(f)
  \/ \E f \in Ids : RevokeFulfillment(f)
  \/ Sweep
  \/ \E s \in Sides : SendEvent(s)
  \/ \E s \in Sides : RelayDocument(s)
  \/ \E s \in Sides : RequestEvent(s)
  \/ \E s \in Sides : Poll(s)
  \/ PullEvents
  \/ LoaderRead
  \/ \E s \in Sides : BrokerRestart(s)
  \/ \E s \in Sides : RelayRestart(s)
  \/ CredentialExpires
  \/ ProvisionSealed
  \/ ProvisionSource
  \/ ChangePolicy
  \/ \E s \in Sides : ChangeParty(s)
  \/ Disable
  \/ Tick

Spec == Init /\ [][Next]_vars

\* Time passes and the controller's sweep task keeps running.
FairSpec == Spec /\ WF_vars(Tick) /\ WF_vars(Sweep)

-----------------------------------------------------------------------------

\* A fulfillment the controller calls completed is one whose credential the recipient
\* unit read through the loader: what note_fulfillment_read reports is true, whatever is
\* lost, resent, replaced or restarted.  Only a destination that root provisioned while
\* the fulfillment was in force there (provision_sealed) makes it untrue: the loader
\* reads root's credential, and the fulfillment's entry is reported.
CompletedMeansRead ==
  \A f \in Ids : row[f].status = "completed" => f \in read \cup covered

\* The ciphertext of a fulfillment is opened at most once, whatever is delivered again,
\* minted again or lost in a restart.
OpenedOnce == \A f \in Ids : opened[f] <= 1

\* A delivery of f takes the place of another live credential.
Overwrites(f) == dest # f /\ dest' = f /\ dest # Empty

\* A delivery overwrites a live credential only when its terms name the fulfillment that
\* put it there (apply_delivery, fulfillment_owner), or the one whose credential root has
\* since provisioned over: the broker's book still gives the destination to it.
NeverOverwritten ==
  [][\A f \in Ids : Overwrites(f) =>
       \/ row[f].prior = dest
       \/ dest = Other /\ row[f].prior \in covered]_vars

\* "A live credential from any other source is never overwritten"
\* (docs/product/cross-workload-fulfillment.md): a delivery overwrites only what the
\* fulfillment named in its terms put there.
OtherSourcesKept == [][\A f \in Ids : Overwrites(f) => row[f].prior = dest]_vars

\* The recipient's slot is not held for ever: every fulfillment is closed in the end, or
\* uncertain and waiting for an operator.
EveryFulfillmentEnds ==
  []<>(\A f \in Ids : row[f].status \notin Active \ {"uncertain"})
=============================================================================
