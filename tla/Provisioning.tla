---------------------------- MODULE Provisioning ----------------------------
(***************************************************************************)
(* Source collection for a browser grant.  The broker of the node mints a  *)
(* one-use encryption key and signs an offer for it (broker                *)
(* provisioning.rs); the relay carries the offer to the controller (node   *)
(* provisioning_relay.rs), which records it under the administrator's      *)
(* source binding (store/provisioning.rs); the named owner creates a link, *)
(* reads the offer and submits one ciphertext (routes/provisioning.rs,     *)
(* store/provisioning_links.rs); the relay carries the signed delivery     *)
(* back and the broker opens it once.                                      *)
(*                                                                         *)
(* A request of an operator is two steps, the route's authentication and   *)
(* the transaction of the store; everything else is one step per handler.  *)
(* Definitions named Faulty... are not part of the specification: each is  *)
(* the named definition with one plausible bug, which a property excludes. *)
(***************************************************************************)
EXTENDS Naturals, Sequences, FiniteSets

CONSTANTS
    Grants,        \* browser grants of one workload and one resource
    Operators,     \* people with an account
    Roles,         \* [Operators -> set of roles the account may be given]
    Decider,       \* [Grants -> Operators]: who decides an approval
    Dests,         \* (unit, credential) destinations
    Values,        \* plaintext Sources
    Keys,          \* idempotency keys of the link route
    MaxOffers,     \* MAX_OFFERS of the broker's book
    OfferLife,     \* browser_offer_lifetime
    GrantLife,     \* lifetime of a grant
    \* Bounds of the instance
    MaxTime, MaxBindings,
    MaxCalls,      \* requests between route and transaction at a time
    MaxFaults,     \* disturbances of a behaviour, see Disturbed
    Scenarios      \* which grants a behaviour has, and how many disturbances

ASSUME ProvisioningAssumption == OfferLife \in Nat /\ GrantLife \in Nat

VARIABLES
    now,           \* controller time, which the broker's anchor follows
    account,       \* [Operators -> role and session generation]
    call,          \* [Operators -> the authenticated request, or None]
    form,          \* [Operators -> the offer the browser form has read]
    binding,       \* fleet_source_bindings row of the resource
    node,          \* nodes row: key version, rotation pending
    grant,         \* [Grants -> grants row]
    offers,        \* [Grants -> fleet_provisioning_offers row, or None]
    link,          \* [Grants -> fleet_provisioning_links row, or None]
    receipt,       \* [Grants -> fleet_provisioning_receipts row, or None]
    inbox,         \* unacknowledged inbox documents of the node, in order
    relay,         \* memory of the relay: head applied, grants published
    outbox,        \* [Grants -> offer event in the relay's outbox, or None]
    broker,        \* key version, destination of the resource in the catalog
    lease,         \* [Grants -> original process and accepted grant]
    book,          \* [Grants -> PendingOffer, or None]
    minted,        \* history: every offer the broker signed anew
    stored,        \* history: every Source put into the credential store
    authors,       \* history: who wrote each version of the binding
    faults         \* disturbances so far

controller == <<binding, node, grant, offers, link, receipt>>
people == <<account, call, form>>
brokerVars == <<broker, lease, book, minted, stored>>
vars == <<now, controller, people, inbox, relay, outbox, brokerVars, authors, faults>>

None == [none |-> TRUE]

\* A ciphertext is what the form sealed: the recipient key (one per offer)
\* and the plaintext.  Anything else does not open.
Garbled == [offer |-> 0, value |-> "garbled"]

Init ==
    /\ now = 0
    /\ account = [o \in Operators |-> [role |-> "admin", session |-> 0]]
    /\ call = [o \in Operators |-> None]
    /\ form = [o \in Operators |-> 0]
    /\ binding = [version |-> 0, dest |-> CHOOSE d \in Dests : TRUE, by |-> "nobody"]
    /\ node = [version |-> 1, rotating |-> FALSE]
    /\ \E d \in {"allow", "pending_approval"}, s \in Scenarios :
        /\ grant = [g \in Grants |->
            [status |-> IF g \in s.grants THEN "none" ELSE "unused",
             expires |-> 0, decision |-> d]]
        /\ faults = MaxFaults - s.faults
    /\ offers = [g \in Grants |-> None]
    /\ link = [g \in Grants |-> None]
    /\ receipt = [g \in Grants |-> None]
    /\ inbox = <<>>
    /\ relay = [done |-> FALSE, published |-> {}]
    /\ outbox = [g \in Grants |-> None]
    /\ \E d \in Dests : broker = [version |-> 1, dest |-> d]
    /\ lease = [g \in Grants |-> "none"]
    /\ book = [g \in Grants |-> None]
    /\ minted = <<>>
    /\ stored = <<>>
    /\ authors = <<>>

\* What disturbs a collection: a session or grant ends, a process ends or
\* restarts, the node's key rotates, a reply is lost.  A behaviour of the
\* instance has at most MaxFaults of these, in any combination.
Disturbed == faults < MaxFaults /\ faults' = faults + 1

-----------------------------------------------------------------------------
(* The controller: bindings, the authority check, offers, links, receipts. *)

\* A session ends (logout, removal, password change) or the role changes,
\* which also ends it; the person signs in again with a new session.  Between
\* requests nothing holds on to a session, so only a request notices.
EndSession(o) ==
    /\ Disturbed
    /\ call[o] # None
    /\ \E r \in Roles[o] :
        account' = [account EXCEPT ![o] = [role |-> r, session |-> @.session + 1]]
    /\ UNCHANGED <<now, controller, call, form, inbox, relay, outbox, brokerVars,
                   authors>>

\* NODE_SELECT: the node is enrolled and neither rotates nor is revoked.
NodeSettled == ~node.rotating

\* The administrator's optimistic update; an update whose expected version
\* is not the row's changes nothing.
SetSourceBinding(o, d) ==
    /\ account[o].role = "admin"
    /\ NodeSettled
    /\ binding.version < MaxBindings
    /\ binding' = [version |-> binding.version + 1, dest |-> d, by |-> o]
    /\ authors' = Append(authors, o)
    /\ UNCHANGED <<now, node, grant, offers, link, receipt, people, inbox, relay,
                   outbox, brokerVars, faults>>

\* The operation is granted (module Operations) and its grant is queued.
IssueGrant(g) ==
    /\ grant[g].status = "none"
    /\ grant' = [grant EXCEPT ![g].status = "issued", ![g].expires = now + GrantLife]
    /\ lease' = [lease EXCEPT ![g] = "waiting"]
    /\ inbox' = Append(inbox, [kind |-> "grant", grant |-> g])
    /\ UNCHANGED <<now, binding, node, offers, link, receipt, people, relay, outbox,
                   broker, book, minted, stored, authors, faults>>

\* The grant ends at the controller: consumed, revoked, fenced, or its
\* policy or registration version is replaced.
CloseGrant(g) ==
    /\ Disturbed
    /\ grant[g].status = "issued"
    /\ grant' = [grant EXCEPT ![g].status = "closed"]
    /\ UNCHANGED <<now, binding, node, offers, link, receipt, people, inbox, relay,
                   outbox, brokerVars, authors>>

\* CONTEXT_SELECT: the original grant and its operation are still current
\* and the resource has a source binding.
Context(g) ==
    /\ NodeSettled
    /\ grant[g].status = "issued"
    /\ now < grant[g].expires
    /\ binding.version > 0

\* verify_browser_recipient_offer: the offer is the enrolled key's, current,
\* and names the configured destination.
OfferVerifies(offer) ==
    /\ offer.version = node.version
    /\ offer.dest = binding.dest
    /\ now < offer.expires

\* The named Source owner: whoever approved the operation, or, when policy
\* allowed it outright, the administrator who wrote the binding.
IsOwner(g, o, role) ==
    CASE grant[g].decision = "pending_approval" ->
            Decider[g] = o /\ role \in {"admin", "operator"}
      [] grant[g].decision = "allow" -> binding.by = o /\ role = "admin"

FaultyOfferCurrent(g) == OfferVerifies(offers[g].offer)

\* The recorded offer still verifies and was recorded under this very
\* version of the binding.
OfferCurrent(g) ==
    /\ OfferVerifies(offers[g].offer)
    /\ offers[g].binding = binding.version

\* authority!: every acting route re-establishes this in its transaction.
Authority(g, o, role) ==
    /\ Context(g)
    /\ IsOwner(g, o, role)
    /\ offers[g] # None
    /\ OfferCurrent(g)

\* session_live!: the session the route authenticated is still the session.
SessionLive(o) == call[o].account = account[o]

\* named_operator: administrators and operators may call the routes.
NamedOperator(o) == account[o].role \in {"admin", "operator"}

\* check_capability: a capability exists for a link and for nothing else; it
\* can be handed on by whoever created the link.
Capability(g) == link[g] # None

\* A route has authenticated its caller, whose session goes with the request,
\* and goes on to its transaction.
Begin(o, request) ==
    /\ call[o] = None
    /\ Cardinality({p \in Operators : call[p] # None}) < MaxCalls
    /\ NamedOperator(o)
    /\ call' = [call EXCEPT ![o] = request]
    /\ UNCHANGED <<now, controller, account, form, inbox, relay, outbox, brokerVars,
                   authors, faults>>

\* A link is asked for by operation; without a grant it is not found.
BeginLink(o, g, k) ==
    /\ grant[g].status \in {"issued", "closed"}
    /\ Begin(o, [kind |-> "link", account |-> account[o], grant |-> g, key |-> k])

\* A submission is a ciphertext the form sealed to the offer it has read, or
\* bytes that only look like one.
BeginSubmit(o, g) ==
    /\ Capability(g)
    /\ \E c \in {[offer |-> form[o], value |-> v] : v \in Values} \cup {Garbled} :
        /\ form[o] # 0
        /\ Begin(o, [kind |-> "submit", account |-> account[o], grant |-> g, cipher |-> c])

\* A key of this operator already names another link.
KeyReused(o, k) ==
    \E h \in Grants : link[h] # None /\ link[h].by = o /\ link[h].key = k

\* create_provisioning_link: one immutable link per grant; a retry with the
\* same key finds it, anything else conflicts.
CreateLink(o) ==
    /\ call[o] # None /\ call[o].kind = "link"
    /\ LET g == call[o].grant IN
        link' = IF /\ SessionLive(o)
                   /\ Authority(g, o, call[o].account.role)
                   /\ link[g] = None
                   /\ ~KeyReused(o, call[o].key)
                THEN [link EXCEPT ![g] = [by |-> o, key |-> call[o].key,
                                          offer |-> offers[g].offer.id,
                                          expires |-> offers[g].offer.expires]]
                ELSE link
    /\ call' = [call EXCEPT ![o] = None]
    /\ UNCHANGED <<now, binding, node, grant, offers, receipt, account, form, inbox,
                   relay, outbox, brokerVars, authors, faults>>

\* provisioning_metadata is ready for the link's operator while nothing has
\* been submitted and the authority holds.
MetadataReady(o, g) ==
    /\ link[g].by = o
    /\ receipt[g] = None
    /\ Authority(g, o, account[o].role)
    /\ now < link[g].expires

\* read_metadata: the form learns the offer.  Only reads, so in one step.
ReadMetadata(o, g) ==
    /\ NamedOperator(o)
    /\ Capability(g)
    /\ MetadataReady(o, g)
    /\ form' = [form EXCEPT ![o] = offers[g].offer.id]
    /\ UNCHANGED <<now, controller, account, call, inbox, relay, outbox, brokerVars,
                   authors, faults>>

\* The first valid ciphertext for a link; a receipt ends the collection.
MaySubmit(o, g) ==
    /\ link[g].by = o
    /\ SessionLive(o)
    /\ receipt[g] = None
    /\ Authority(g, o, call[o].account.role)
    /\ now < link[g].expires

\* submit_provisioning: the receipt and the signed delivery commit together.
SubmitProvisioning(o) ==
    /\ call[o] # None /\ call[o].kind = "submit"
    /\ LET g == call[o].grant
           c == call[o].cipher
       IN IF MaySubmit(o, g)
          THEN /\ receipt' = [receipt EXCEPT ![g] =
                    [by |-> o, cipher |-> c, offer |-> offers[g].offer.id]]
               /\ inbox' = Append(inbox, [kind |-> "delivery", grant |-> g,
                                          offer |-> offers[g].offer, cipher |-> c])
          ELSE UNCHANGED <<receipt, inbox>>
    /\ call' = [call EXCEPT ![o] = None]
    /\ UNCHANGED <<now, binding, node, grant, offers, link, account, form, relay,
                   outbox, brokerVars, authors, faults>>

\* record_browser_recipient_offer.  A row for the grant makes the event a
\* duplicate or a conflict; an offer without authority is rejected; each is
\* answered, and only a recorded offer changes the tables.
RecordOffer(g) ==
    /\ outbox[g] # None
    /\ ~node.rotating
    /\ outbox[g].version = node.version
    /\ offers' = IF offers[g] = None /\ Context(g) /\ OfferVerifies(outbox[g])
                 THEN [offers EXCEPT ![g] = [offer |-> outbox[g],
                                             binding |-> binding.version]]
                 ELSE offers
    /\ \/ /\ outbox' = [outbox EXCEPT ![g] = None]
          /\ UNCHANGED faults
       \/ Disturbed /\ UNCHANGED outbox      \* the answer is lost
    /\ UNCHANGED <<now, binding, node, grant, link, receipt, people, inbox, relay,
                   brokerVars, authors>>

-----------------------------------------------------------------------------
(* The node's key rotation, told by its three visible moments.             *)

StageRotation ==
    /\ Disturbed
    /\ ~node.rotating
    /\ node' = [node EXCEPT !.rotating = TRUE]
    /\ UNCHANGED <<now, binding, grant, offers, link, receipt, people, inbox, relay,
                   outbox, brokerVars, authors>>

RotateBroker ==
    /\ node.rotating
    /\ broker.version = node.version
    /\ broker' = [broker EXCEPT !.version = @ + 1]
    /\ UNCHANGED <<now, controller, people, inbox, relay, outbox, lease, book, minted,
                   stored, authors, faults>>

CompleteRotation ==
    /\ node.rotating
    /\ broker.version = node.version + 1
    /\ node' = [version |-> broker.version, rotating |-> FALSE]
    /\ UNCHANGED <<now, binding, grant, offers, link, receipt, people, inbox, relay,
                   outbox, brokerVars, authors, faults>>

-----------------------------------------------------------------------------
(* The broker.                                                             *)

\* browser_offer_candidate: an accepted, unexpired grant whose original
\* process is still alive.
Candidate(g) == lease[g] = "live" /\ now < grant[g].expires

FaultyPurged(b) ==
    [g \in Grants |-> IF b[g] # None /\ now >= b[g].offer.expires THEN None ELSE b[g]]

\* BrowserOfferBook::purge: an entry stays until the deadline of its grant,
\* spent or expired as it may be.
Purged(b) ==
    [g \in Grants |-> IF b[g] # None /\ now >= grant[g].expires THEN None ELSE b[g]]

Entries(b) == {g \in Grants : b[g] # None}

\* A new offer lives no longer than its grant.
NewOffer(g) ==
    [id |-> Len(minted) + 1, grant |-> g, version |-> broker.version,
     dest |-> broker.dest,
     expires |-> IF now + OfferLife < grant[g].expires
                 THEN now + OfferLife ELSE grant[g].expires]

NewEntry(offer) ==
    [offer |-> offer, attempted |-> FALSE, key |-> "held", accepted |-> None]

\* The retry of a live, untouched offer returns it as it was signed.
Reusable(e) ==
    /\ e.offer.version = broker.version
    /\ now < e.offer.expires
    /\ ~e.attempted
    /\ e.offer.dest = broker.dest

\* mint_browser_offer: the offer answered for g, or None when refused.
Minted(g, b) ==
    IF ~Candidate(g) THEN None
    ELSE IF b[g] # None THEN (IF Reusable(b[g]) THEN b[g].offer ELSE None)
    ELSE IF Cardinality(Entries(b)) >= MaxOffers THEN None
    ELSE NewOffer(g)

\* The book after BROWSER_OFFER_EVENT for g.
BookAfter(g) ==
    IF ~Candidate(g) THEN book
    ELSE LET b == Purged(book)
             o == Minted(g, b)
         IN IF b[g] = None /\ o # None THEN [b EXCEPT ![g] = NewEntry(o)] ELSE b

\* BrowserOfferBook::maintain, run with every purge of credentials.
Maintain ==
    /\ book' = LET b == Purged(book) IN
        [g \in Grants |-> IF b[g] # None /\ ~Candidate(g)
                          THEN [b[g] EXCEPT !.attempted = TRUE, !.key = "gone"]
                          ELSE b[g]]
    /\ book' # book
    /\ UNCHANGED <<now, controller, people, inbox, relay, outbox, broker, lease, minted,
                   stored, authors, faults>>

\* The delivery names the node's current key and the entry's own offer.
Matches(e, d) ==
    /\ d.offer.version = broker.version
    /\ e # None
    /\ e.offer = d.offer

\* admit_browser_source up to the key: what is refused before it leaves the
\* one attempt untouched.
MayOpen(e, d) ==
    /\ ~e.attempted
    /\ Candidate(d.grant)
    /\ e.offer.dest = broker.dest
    /\ now < e.offer.expires

Opens(e, d) == e.key = "held" /\ d.cipher.offer = e.offer.id

\* The attempt is spent before the key is tried, and the key with it; only
\* a Source that was stored leaves its digest behind.
Spent(e, d) ==
    [e EXCEPT !.attempted = TRUE, !.key = "gone",
              !.accepted = IF Opens(e, d) THEN d ELSE @]

\* PROVISION_SOURCE: stored, already stored, or denied.
Admit(d) ==
    LET g == d.grant
        e == book[g]
    IN IF Matches(e, d) /\ e.accepted # d /\ MayOpen(e, d)
       THEN /\ book' = [book EXCEPT ![g] = Spent(e, d)]
            /\ stored' = IF Opens(e, d)
                         THEN Append(stored, [grant |-> g, offer |-> e.offer,
                                              cipher |-> d.cipher, dest |-> broker.dest])
                         ELSE stored
       ELSE UNCHANGED <<book, stored>>

\* The original process ends, the grant is consumed or revoked, or the
\* broker's policy moves on.
EndLease(g) ==
    /\ Disturbed
    /\ lease[g] \in {"waiting", "live"}
    /\ lease' = [lease EXCEPT ![g] = "ended"]
    /\ UNCHANGED <<now, controller, people, inbox, relay, outbox, broker, book, minted,
                   stored, authors>>

\* The broker restarts: offers, keys and leases are process memory, and the
\* catalogue is read anew.
RestartBroker ==
    /\ Disturbed
    /\ \E d \in Dests : broker' = [broker EXCEPT !.dest = d]
    /\ lease' = [g \in Grants |-> IF lease[g] = "none" THEN "none" ELSE "ended"]
    /\ book' = [g \in Grants |-> None]
    /\ UNCHANGED <<now, controller, people, inbox, relay, outbox, minted, stored,
                   authors>>

-----------------------------------------------------------------------------
(* The relay.                                                              *)

Applied == relay' = [relay EXCEPT !.done = TRUE]

\* A fault during an exchange: the broker did its part, the relay heard
\* nothing and leaves the document unacknowledged.
Lost == Disturbed /\ UNCHANGED <<relay, outbox>>

\* process_inbox_document and request_offer: the grant is applied, then the
\* broker is asked for the offer unless this process has asked before.  A
\* refusal, or an outbox that holds another body under the key, is final.
RelayGrant ==
    /\ inbox # <<>> /\ ~relay.done
    /\ Head(inbox).kind = "grant"
    /\ LET g == Head(inbox).grant IN
        \/ /\ lease[g] = "waiting"
           /\ lease' = [lease EXCEPT ![g] = "live"]
           /\ UNCHANGED <<relay, outbox, book, minted, faults>>
        \/ /\ lease[g] # "waiting"
           /\ UNCHANGED lease
           /\ IF g \in relay.published
              THEN Applied /\ UNCHANGED <<outbox, book, minted, faults>>
              ELSE LET o == Minted(g, Purged(book)) IN
                   /\ book' = BookAfter(g)
                   /\ minted' = IF o # None /\ Purged(book)[g] = None
                                THEN Append(minted, o) ELSE minted
                   /\ \/ /\ relay' = [done |-> TRUE,
                                      published |-> relay.published \cup {g}]
                         /\ outbox' = IF o # None /\ outbox[g] = None
                                      THEN [outbox EXCEPT ![g] = o] ELSE outbox
                         /\ UNCHANGED faults
                      \/ Lost
    /\ UNCHANGED <<now, controller, people, inbox, broker, stored, authors>>

FaultyAnswered(d) == Matches(book[d.grant], d)

\* Whether an answer of PROVISION_SOURCE lets the relay acknowledge the
\* document: stored, already stored and refused all do.
Answered(d) == TRUE

\* relay_delivery.
RelayDelivery ==
    /\ inbox # <<>> /\ ~relay.done
    /\ Head(inbox).kind = "delivery"
    /\ Admit(Head(inbox))
    /\ \/ /\ Answered(Head(inbox))
          /\ Applied
          /\ UNCHANGED <<outbox, faults>>
       \/ Lost
    /\ UNCHANGED <<now, controller, people, inbox, broker, lease, minted, authors>>

\* The next poll acknowledges the applied document.
Acknowledge ==
    /\ relay.done
    /\ inbox' = Tail(inbox)
    /\ relay' = [relay EXCEPT !.done = FALSE]
    /\ UNCHANGED <<now, controller, people, outbox, brokerVars, authors, faults>>

\* The relay restarts: the outbox is durable, its memory is not, and an
\* applied document that was not acknowledged is polled again.
RestartRelay ==
    /\ Disturbed
    /\ relay' = [done |-> FALSE, published |-> {}]
    /\ UNCHANGED <<now, controller, people, inbox, outbox, brokerVars, authors>>

\* Time starts with the first grant: before it nothing has a deadline.
Tick ==
    /\ now < MaxTime
    /\ \E g \in Grants : grant[g].status \in {"issued", "closed"}
    /\ now' = now + 1
    /\ UNCHANGED <<controller, people, inbox, relay, outbox, brokerVars, authors, faults>>

Relay == RelayGrant \/ RelayDelivery \/ Acknowledge

Next ==
    \/ Relay \/ RestartRelay \/ RestartBroker \/ Maintain \/ Tick
    \/ StageRotation \/ RotateBroker \/ CompleteRotation
    \/ \E g \in Grants : IssueGrant(g) \/ CloseGrant(g) \/ EndLease(g) \/ RecordOffer(g)
    \/ \E o \in Operators :
        \/ EndSession(o) \/ CreateLink(o) \/ SubmitProvisioning(o)
        \/ \E d \in Dests : SetSourceBinding(o, d)
        \/ \E g \in Grants :
            \/ ReadMetadata(o, g) \/ BeginSubmit(o, g)
            \/ \E k \in Keys : BeginLink(o, g, k)

Spec == Init /\ [][Next]_vars

\* The relay's channel loop never stops for good: it retries an unanswered
\* exchange for ever, and the losses of an instance are bounded.
FairSpec == Spec /\ WF_vars(Relay)

-----------------------------------------------------------------------------
(* Properties.                                                             *)

\* The owner of a grant's Source, had the binding been at version v: who
\* approved the operation, or who wrote that version.
OwnerAt(g, v) == IF grant[g].decision = "allow" THEN authors[v] ELSE Decider[g]

\* Every Source in the credential store is the one ciphertext the controller
\* has a receipt for, sealed to the offer recorded for the grant, kept under
\* the destination of that offer, and submitted by the person named as owner
\* under the binding version the offer was recorded with
\* (store/provisioning_links.rs authority_core!, admit_browser_source).
StoredForOwner ==
    \A i \in DOMAIN stored :
        LET s == stored[i] IN
        /\ receipt[s.grant] # None
        /\ receipt[s.grant].cipher = s.cipher
        /\ offers[s.grant].offer = s.offer
        /\ s.dest = s.offer.dest
        /\ receipt[s.grant].by = OwnerAt(s.grant, offers[s.grant].binding)

\* However often a delivery is replayed, the broker puts a Source into the
\* store at most once for a grant (admit_browser_source: "Exact successful
\* retry is a receipt acknowledgement and neither stores nor renews Source").
StoredOnce ==
    \A i, j \in DOMAIN stored : stored[i].grant = stored[j].grant => i = j

\* The store holds for each grant what its owner handed in, once
\* (admit_browser_source).
StoredAsCollected == StoredForOwner /\ StoredOnce

\* The broker signs one offer for a grant and never a second, whatever is
\* retried, restarted or left to expire (BrowserOfferBook::purge: "a retry
\* cannot mint a fresh key or extend collection within that grant").
OneOfferPerGrant ==
    \A i, j \in DOMAIN minted : minted[i].grant = minted[j].grant => i = j

\* A document the broker refuses is acknowledged all the same, so nothing
\* blocks the documents queued behind it (relay_delivery).
InboxDrains == <>[](inbox = <<>>)
=============================================================================
