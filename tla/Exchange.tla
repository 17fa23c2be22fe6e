------------------------------ MODULE Exchange ------------------------------
(***************************************************************************)
(* Secret exchange between two workloads: the requester opens an exchange  *)
(* under the policy in force, possibly after a named operator approved it; *)
(* the one allowed fulfiller reserves it, submits ciphertext; the          *)
(* requester takes it once; the requester or an issuer administrator may   *)
(* revoke it.  Models routes/exchanges.rs and routes/admin_approvals.rs of *)
(* crates/blindpass-controller over store/exchanges.rs and the policy      *)
(* document of store/mod.rs.                                               *)
(*                                                                         *)
(* A handler is split at its database transactions.  conn[c] holds exactly *)
(* what the handler on connection c still needs; everything else may       *)
(* change between two of its steps.  app.rs cancels a handler after        *)
(* RequestTimeout, and a client may leave at any step.                     *)
(*                                                                         *)
(* Lifetimes are kept as expires_at - now, in ticks; a row is live while   *)
(* its `left` is positive.  Definitions named Faulty... are not part of    *)
(* the specification: each is the named definition with one plausible bug, *)
(* which a property excludes.                                              *)
(***************************************************************************)
EXTENDS ExchangePolicy

CONSTANTS
  Ids,             \* exchange identifiers (random, used once)
  Agents,          \* authenticated workloads
  Admins,          \* those whose token carries the issuer-administrator claim
  Terms,           \* what may be asked: requester, fulfiller, secret, purpose
  Values,          \* ciphertexts a fulfiller may submit
  Operators,       \* signed-in local operators with an approver's role
  Keys,            \* Idempotency-Key headers
  Conns,           \* requests the server may be serving at once
  Documents,       \* policy documents an administrator may send
  SubmittedTtl, RevokedTtl, ApprovalTtl, KeyTtl,
  Grace,           \* retention grace of the sweeper
  RequestTimeout,  \* cancellation of a handler
  Scenarios        \* agents, values, handlers, documents with the one local
                   \* configuration seeds, request lifetime and bound on versions

ASSUME LifetimeAssumption ==
  /\ SubmittedTtl \in Nat \ {0}  /\ RevokedTtl \in Nat \ {0}
  /\ ApprovalTtl \in Nat \ {0}   /\ KeyTtl \in Nat \ {0}

\* 10 seconds against a grace of 60: a row that a running handler has read cannot
\* expire, be swept and be created anew before the handler is cancelled.
ASSUME TimeoutAssumption ==
  RequestTimeout \in Nat \ {0} /\ Grace \in Nat /\ RequestTimeout <= Grace

ASSUME NamesAssumption ==
  /\ NoOne \notin Ids
  /\ \A doc \in Documents : DOMAIN doc.rules \subseteq Nat
  /\ Terms \subseteq [requester : Agents, fulfiller : Agents, secret : STRING, purpose : STRING]

ASSUME ScenarioAssumption ==
  /\ Admins \subseteq Agents
  /\ \A s \in Scenarios :
       /\ s.agents \subseteq Agents /\ s.values \subseteq Values /\ s.conns \subseteq Conns
       /\ s.documents \subseteq Documents /\ s.first \in s.documents
       /\ s.ttl \in Nat \ {0} /\ s.versions \in Nat

VARIABLES
  scene,      \* the scenario, fixed at the start
  ex,         \* the exchanges table
  token,      \* the fulfillment token given out for each exchange
  approvals,  \* the approvals table, by reference
  keys,       \* the idempotency_keys table, by operator and key
  policy,     \* version and content of the policy document
  conn,       \* the handler running on each connection
  age,        \* ticks the handler on each connection has been running
  fenced,     \* controller_clock.fenced_at is set
  issued,     \* history: terms and decision each exchange was opened with
  granted,    \* history: approval rows at the moment an operator approved them
  told,       \* history: ciphertexts acknowledged to their submitter
  revoked,    \* history: exchanges reported revoked
  delivered,  \* history: ciphertexts sent, in order, with their receiver
  lapsed,     \* history: ticks since what an open exchange rests on was in force
  used        \* history: ticks since a key decided an approval

exchangeVars == <<ex, token>>
approvalVars == <<approvals, keys>>
handlerVars == <<conn, age>>
history == <<issued, granted, told, revoked, delivered, lapsed, used>>
vars == <<scene, exchangeVars, approvalVars, policy, handlerVars, fenced, history>>

-----------------------------------------------------------------------------
(* Rows, references, handlers *)

NoExchange ==
  [status |-> "absent", terms |-> NoOne, decision |-> NoOne, by |-> NoOne,
   left |-> 0, payload |-> NoOne]

NoToken == [hash |-> NoOne, left |-> 0]

NoApproval ==
  [status |-> "absent", terms |-> NoOne, rule |-> NoOne, approvers |-> {},
   approverRings |-> {}, left |-> 0, by |-> NoOne]

NotIssued == [opened |-> FALSE, terms |-> NoOne, decision |-> NoDecision]

NoLapse == [rule |-> 0, approval |-> 0]

\* Nothing tells longer lapses apart.
Capped(n) == IF n <= RequestTimeout THEN n ELSE RequestTimeout + 1

NoKey == [reference |-> NoOne, verdict |-> NoOne, left |-> 0]

Live(row) == row.status # "absent" /\ row.left > 0

Visible(row) == IF Live(row) THEN row.status ELSE "gone"

\* A rule may name its own reference; otherwise it is a hash of terms and rule.
Reference(decision, terms) ==
  IF decision.reference = NoOne THEN <<terms, decision.rule>> ELSE decision.reference

References ==
  LET rules == UNION {{doc.rules[n] : n \in DOMAIN doc.rules} : doc \in Documents}
  IN  ({r.reference : r \in rules} \ {NoOne}) \cup (Terms \X {r.id : r \in rules})

Idle == [at |-> "idle"]

At(c, step) == conn[c].at = step

\* The handler on c starts, goes on holding `call`, or ends.
Open(c, call) ==
  /\ At(c, "idle")
  /\ conn' = [conn EXCEPT ![c] = call]
  /\ UNCHANGED age

Hold(c, call) == conn' = [conn EXCEPT ![c] = call] /\ UNCHANGED age

Close(c) == conn' = [conn EXCEPT ![c] = Idle] /\ age' = [age EXCEPT ![c] = 0]

-----------------------------------------------------------------------------

Init ==
  /\ scene \in Scenarios
  /\ ex = [i \in Ids |-> NoExchange]
  /\ token = [i \in Ids |-> NoToken]
  /\ approvals = [r \in References |-> NoApproval]
  /\ keys = [k \in Operators \X Keys |-> NoKey]
  /\ policy = [version |-> 1, doc |-> scene.first]
  /\ conn = [c \in Conns |-> Idle]
  /\ age = [c \in Conns |-> 0]
  /\ fenced = FALSE
  /\ issued = [i \in Ids |-> NotIssued]
  /\ granted = {}
  /\ told = [i \in Ids |-> {}]
  /\ revoked = {}
  /\ delivered = [i \in Ids |-> <<>>]
  /\ lapsed = [i \in Ids |-> NoLapse]
  /\ used = [k \in Operators \X Keys |-> KeyTtl]

(***************************************************************************)
(* Opening and reserving an exchange.  Both handlers resolve the policy:   *)
(* the document is read and evaluated; under a pending_approval rule the   *)
(* approval is read next, and requested when there is none.  A handler     *)
(* with id NoOne is opening an exchange.                                   *)
(***************************************************************************)

\* POST /exchange, authenticated as the requester of its terms.
CreateBegin(c, terms) ==
  /\ Open(c, [at |-> "policy", id |-> NoOne, who |-> terms.requester, terms |-> terms,
              hash |-> NoOne, decision |-> NoDecision])
  /\ UNCHANGED <<exchangeVars, approvalVars, policy, scene, fenced, history>>

\* POST /exchange/fulfill: the token is verified and its exchange read; the terms
\* are resolved again with the caller as the fulfiller.
Reservable(row, who) ==
  row.status = "pending" /\ Live(row) /\ row.decision.allowed = who

FulfilRead(c, who, i) ==
  /\ ~fenced
  /\ token[i].left > 0
  /\ Reservable(ex[i], who)
  /\ Open(c, [at |-> "policy", id |-> i, who |-> who,
              terms |-> [ex[i].terms EXCEPT !.fulfiller = who],
              hash |-> PolicyHash(ex[i].decision), decision |-> NoDecision])
  /\ UNCHANGED <<exchangeVars, approvalVars, policy, scene, fenced, history>>

\* What a resolved decision must satisfy: fulfilling also asks that it is the
\* decision of the row and of the token.
FaultyAdmitsAnyHash(call, decision) ==
  decision.mode = "allow" /\ (call.id # NoOne => decision.allowed = call.who)

Admits(call, decision) ==
  /\ decision.mode = "allow"
  /\ call.id # NoOne =>
       /\ decision.allowed = call.who
       /\ PolicyHash(decision) = call.hash
       /\ PolicyHash(decision) = token[call.id].hash

Proceed(c, decision) ==
  IF Admits(conn[c], decision)
    THEN Hold(c, [conn[c] EXCEPT !.at = IF conn[c].id = NoOne THEN "insert" ELSE "reserve",
                                 !.decision = decision])
    ELSE Close(c)

PolicyDocument == policy.doc

ResolvePolicy(c) ==
  LET decision == Evaluate(PolicyDocument, conn[c].terms) IN
    /\ At(c, "policy")
    /\ ~fenced
    /\ IF decision.mode = "pending_approval"
         THEN Hold(c, [conn[c] EXCEPT !.at = "approval", !.decision = decision])
         ELSE Proceed(c, decision)
    /\ UNCHANGED <<exchangeVars, approvalVars, policy, scene, fenced, history>>

\* An approval counts for the terms and the rule it was requested for; it turns
\* the decision into an "allow" naming the operator.
FaultyAppliesShared(row, terms, decision) == Live(row) /\ row.terms = terms

Applies(row, terms, decision) ==
  Live(row) /\ row.terms = terms /\ row.rule = decision.rule

Approved(row, terms, decision) ==
  [decision EXCEPT !.mode = "allow", !.allowed = terms.fulfiller,
                   !.reference = Reference(decision, terms),
                   !.reason = <<"approved by", row.by>>]

ResolveApproval(c) ==
  LET call == conn[c]
      row == approvals[Reference(call.decision, call.terms)]
  IN /\ At(c, "approval")
     /\ ~fenced
     /\ IF Applies(row, call.terms, call.decision)
          THEN IF row.status = "approved"
                 THEN Proceed(c, Approved(row, call.terms, call.decision))
                 ELSE Close(c)
          ELSE Hold(c, [call EXCEPT !.at = "request"])
     /\ UNCHANGED <<exchangeVars, approvalVars, policy, scene, fenced, history>>

\* INSERT ... ON CONFLICT DO NOTHING; the caller is told to wait for an approval.
Requested(terms, decision) ==
  [status |-> "pending", terms |-> terms, rule |-> decision.rule,
   approvers |-> decision.approvers, approverRings |-> decision.approverRings,
   left |-> ApprovalTtl, by |-> NoOne]

RequestApproval(c) ==
  LET call == conn[c]
      ref == Reference(call.decision, call.terms)
  IN /\ At(c, "request")
     /\ ~fenced
     /\ approvals' = IF approvals[ref].status = "absent"
                       THEN [approvals EXCEPT ![ref] = Requested(call.terms, call.decision)]
                       ELSE approvals
     /\ Close(c)
     /\ UNCHANGED <<exchangeVars, keys, policy, scene, fenced, history>>

\* The INSERT of create_exchange.
CreateInsert(c, i) ==
  LET call == conn[c] IN
    /\ At(c, "insert")
    /\ ~fenced
    /\ ~issued[i].opened
    /\ ex' = [ex EXCEPT ![i] = [status |-> "pending", terms |-> call.terms,
                                decision |-> call.decision, by |-> NoOne,
                                left |-> scene.ttl, payload |-> NoOne]]
    /\ issued' = [issued EXCEPT ![i] = [opened |-> TRUE, terms |-> call.terms,
                                        decision |-> call.decision]]
    /\ Hold(c, [at |-> "created", id |-> i])
    /\ UNCHANGED <<token, approvalVars, policy, scene, fenced, granted, told, revoked, delivered,
                   lapsed, used>>

\* The row is read back, the token signed with its deadline, and both answered.
CreateReply(c) ==
  LET i == conn[c].id IN
    /\ At(c, "created")
    /\ ~fenced
    /\ token' = IF Live(ex[i])
                  THEN [token EXCEPT ![i] = [hash |-> PolicyHash(issued[i].decision),
                                             left |-> ex[i].left]]
                  ELSE token
    /\ Close(c)
    /\ UNCHANGED <<ex, approvalVars, policy, scene, fenced, history>>

\* The UPDATE of reserve_exchange, and the answer.
Reserved(row, who) == [row EXCEPT !.status = "reserved", !.by = who]

Reserve(c) ==
  LET i == conn[c].id  who == conn[c].who IN
    /\ At(c, "reserve")
    /\ ~fenced
    /\ ex' = IF Reservable(ex[i], who) THEN [ex EXCEPT ![i] = Reserved(ex[i], who)] ELSE ex
    /\ Close(c)
    /\ UNCHANGED <<token, approvalVars, policy, scene, fenced, history>>

(***************************************************************************)
(* Submission, retrieval, revocation.                                      *)
(***************************************************************************)

\* POST /exchange/submit/:id
Submittable(row, who) == row.status = "reserved" /\ Live(row) /\ row.by = who

Submitted(row, value) ==
  [row EXCEPT !.status = "submitted", !.payload = value, !.left = SubmittedTtl]

SubmitRead(c, who, i, value) ==
  /\ ~fenced
  /\ Submittable(ex[i], who)
  /\ Open(c, [at |-> "submit", id |-> i, who |-> who, value |-> value])
  /\ UNCHANGED <<exchangeVars, approvalVars, policy, scene, fenced, history>>

SubmitWrite(c) ==
  LET call == conn[c] IN
    /\ At(c, "submit")
    /\ ~fenced
    /\ IF Submittable(ex[call.id], call.who)
         THEN /\ ex' = [ex EXCEPT ![call.id] = Submitted(@, call.value)]
              /\ Hold(c, [call EXCEPT !.at = "submitted"])
         ELSE Close(c) /\ UNCHANGED ex
    /\ UNCHANGED <<token, approvalVars, policy, scene, fenced, history>>

\* The row is read back: gone (retrieved or expired already) answers a failure
\* although the submission was committed.
SubmitReply(c) ==
  LET call == conn[c] IN
    /\ At(c, "submitted")
    /\ ~fenced
    /\ told' = IF Live(ex[call.id])
                 THEN [told EXCEPT ![call.id] = @ \cup {call.value}]
                 ELSE told
    /\ Close(c)
    /\ UNCHANGED <<exchangeVars, approvalVars, policy, scene, fenced, issued, granted, revoked,
                   delivered, lapsed, used>>

\* GET /exchange/retrieve/:id
FaultyConsumableRevoked(row, who) == Live(row) /\ row.terms.requester = who

Consumable(row, who) ==
  row.status = "submitted" /\ Live(row) /\ row.terms.requester = who

Taken(row) == NoExchange

RetrieveRead(c, who, i) ==
  /\ ~fenced
  /\ Visible(ex[i]) = "submitted"
  /\ ex[i].terms.requester = who
  /\ Open(c, [at |-> "retrieve", id |-> i, who |-> who])
  /\ UNCHANGED <<exchangeVars, approvalVars, policy, scene, fenced, history>>

RetrieveConsume(c) ==
  LET call == conn[c] IN
    /\ At(c, "retrieve")
    /\ ~fenced
    /\ IF Consumable(ex[call.id], call.who)
         THEN /\ ex' = [ex EXCEPT ![call.id] = Taken(@)]
              /\ Hold(c, [at |-> "consumed", id |-> call.id, who |-> call.who,
                          value |-> ex[call.id].payload])
         ELSE Close(c) /\ UNCHANGED ex
    /\ UNCHANGED <<token, approvalVars, policy, scene, fenced, history>>

RetrieveReply(c) ==
  LET call == conn[c] IN
    /\ At(c, "consumed")
    /\ delivered' = [delivered EXCEPT ![call.id] =
                       Append(@, [to |-> call.who, value |-> call.value])]
    /\ Close(c)
    /\ UNCHANGED <<exchangeVars, approvalVars, policy, scene, fenced, issued, granted, told, revoked,
                   lapsed, used>>

\* DELETE /exchange/revoke/:id, by the requester or by an issuer administrator.
MayRevoke(row, who) == who = row.terms.requester \/ who \in Admins

Revocable(row, who) == Live(row) /\ MayRevoke(row, who)

Revoked(row) ==
  [row EXCEPT !.status = "revoked", !.payload = NoOne,
              !.left = IF row.status = "revoked" THEN @ ELSE RevokedTtl]

RevokeRead(c, who, i) ==
  /\ ~fenced
  /\ Revocable(ex[i], who)
  /\ ex[i].status # "revoked"
  /\ Open(c, [at |-> "revoke", id |-> i, who |-> who])
  /\ UNCHANGED <<exchangeVars, approvalVars, policy, scene, fenced, history>>

\* A row already revoked is answered at once.
RevokeAgain(who, i) ==
  /\ ~fenced
  /\ Revocable(ex[i], who)
  /\ ex[i].status = "revoked"
  /\ revoked' = revoked \cup {i}
  /\ UNCHANGED <<exchangeVars, approvalVars, policy, scene, handlerVars, fenced, issued, granted, told,
                 delivered, lapsed, used>>

RevokeWrite(c) ==
  LET call == conn[c] IN
    /\ At(c, "revoke")
    /\ ~fenced
    /\ IF Revocable(ex[call.id], call.who)
         THEN /\ ex' = [ex EXCEPT ![call.id] = Revoked(@)]
              /\ Hold(c, [call EXCEPT !.at = "revoked"])
         ELSE Close(c) /\ UNCHANGED ex
    /\ UNCHANGED <<token, approvalVars, policy, scene, fenced, history>>

RevokeReply(c) ==
  LET i == conn[c].id IN
    /\ At(c, "revoked")
    /\ ~fenced
    /\ revoked' = IF Live(ex[i]) THEN revoked \cup {i} ELSE revoked
    /\ Close(c)
    /\ UNCHANGED <<exchangeVars, approvalVars, policy, scene, fenced, issued, granted, told, delivered,
                   lapsed, used>>

(***************************************************************************)
(* History of what an open exchange rests on: how long the policy document *)
(* has no longer yielded its decision, and how long the approval its       *)
(* decision names has been gone.                                           *)
(***************************************************************************)

ByApproval(decision) == decision.reason[1] = "approved by"

YieldedBy(decision, doc, terms) ==
  LET d == Evaluate(doc, terms) IN
    IF ByApproval(decision)
      THEN /\ d.mode = "pending_approval"
           /\ PolicyHash(Approved([by |-> decision.reason[2]], terms, d)) = PolicyHash(decision)
      ELSE PolicyHash(d) = PolicyHash(decision)

BackedBy(decision, table, terms) ==
  ByApproval(decision) =>
    LET row == table[decision.reference] IN
      /\ Applies(row, terms, decision)
      /\ row.status = "approved"
      /\ row.by = decision.reason[2]

\* The history after a step of n ticks that leaves this document and this table.
Lapse(doc, table, n) ==
  [i \in Ids |->
     IF Visible(ex[i]) # "pending" THEN NoLapse
     ELSE [rule |-> IF YieldedBy(ex[i].decision, doc, ex[i].terms) THEN 0
                    ELSE Capped(lapsed[i].rule + n),
           approval |-> IF BackedBy(ex[i].decision, table, ex[i].terms) THEN 0
                        ELSE Capped(lapsed[i].approval + n)]]

(***************************************************************************)
(* Operators: deciding approvals and replacing the policy document.        *)
(***************************************************************************)

Assigned(row, op) == op \in row.approvers /\ row.approverRings = {}

DecideRead(c, op, ref, verdict, key) ==
  /\ ~fenced
  /\ Live(approvals[ref])
  /\ Assigned(approvals[ref], op)
  /\ Open(c, [at |-> "decide", who |-> op, reference |-> ref, verdict |-> verdict, key |-> key])
  /\ UNCHANGED <<exchangeVars, approvalVars, policy, scene, fenced, history>>

Decidable(row) == row.status = "pending" /\ Live(row)

\* The fleet console decides exchange approvals too, by the same rules.
DecideUnified(c, op, ref, verdict, key) == DecideRead(c, op, ref, verdict, key)

FaultyRemembered(call) == NoKey

Remembered(call) == [reference |-> call.reference, verdict |-> call.verdict, left |-> KeyTtl]

\* One transaction.  A live key row replays or refuses; one that expired but was
\* not swept yet makes the INSERT of the key fail and rolls everything back.
Decide(call) ==
  LET k == <<call.who, call.key>>
      row == [approvals[call.reference] EXCEPT !.status = call.verdict, !.by = call.who]
  IN /\ approvals' = [approvals EXCEPT ![call.reference] = row]
     /\ keys' = [keys EXCEPT ![k] = Remembered(call)]
     /\ used' = [used EXCEPT ![k] = 0]
     /\ granted' = IF call.verdict = "approved" THEN granted \cup {row} ELSE granted

DecideWrite(c) ==
  LET call == conn[c] IN
     /\ At(c, "decide")
     /\ ~fenced
     /\ IF keys[<<call.who, call.key>>] = NoKey /\ Decidable(approvals[call.reference])
          THEN Decide(call)
          ELSE UNCHANGED <<approvalVars, used, granted>>
     /\ lapsed' = Lapse(policy.doc, approvals', 0)
     /\ Close(c)
     /\ UNCHANGED <<exchangeVars, policy, scene, fenced, issued, told, revoked, delivered>>

\* A valid document replaces the version the administrator based it on.
ReplaceDocument(doc) == policy' = [version |-> policy.version + 1, doc |-> doc]

ReplacePolicy(doc) ==
  /\ ~fenced
  /\ policy.version < scene.versions
  /\ ValidPolicy(doc)
  /\ ReplaceDocument(doc)
  /\ lapsed' = Lapse(doc, approvals, 0)
  /\ UNCHANGED <<exchangeVars, approvalVars, scene, handlerVars, fenced, issued, granted, told,
                 revoked, delivered, used>>

(***************************************************************************)
(* Lost connections, time, the sweeper, clock fences.                      *)
(***************************************************************************)

Drop(c) ==
  /\ ~At(c, "idle")
  /\ Close(c)
  /\ UNCHANGED <<exchangeVars, approvalVars, policy, scene, fenced, history>>

\* Nothing tells lifetimes below -Grace apart.
Older(row) ==
  IF row.status # "absent" /\ row.left > -Grace THEN [row EXCEPT !.left = @ - 1] ELSE row

TimedOut(c) == ~At(c, "idle") /\ age[c] >= RequestTimeout

Tick ==
  /\ ex' = [i \in Ids |-> Older(ex[i])]
  /\ token' = [i \in Ids |-> IF token[i].left > 0 THEN [token[i] EXCEPT !.left = @ - 1]
                                                  ELSE token[i]]
  /\ approvals' = [r \in References |-> Older(approvals[r])]
  /\ keys' = [k \in Operators \X Keys |->
                IF keys[k].left > 0 THEN [keys[k] EXCEPT !.left = @ - 1] ELSE keys[k]]
  /\ conn' = [c \in Conns |-> IF TimedOut(c) THEN Idle ELSE conn[c]]
  /\ age' = [c \in Conns |-> IF At(c, "idle") \/ TimedOut(c) THEN 0 ELSE age[c] + 1]
  /\ lapsed' = Lapse(policy.doc, approvals, 1)
  /\ used' = [k \in Operators \X Keys |-> IF used[k] < KeyTtl THEN used[k] + 1 ELSE used[k]]
  /\ UNCHANGED <<policy, scene, fenced, issued, granted, told, revoked, delivered>>

Overdue(row) == row.status # "absent" /\ row.left <= -Grace

SweepExchanges ==
  /\ ~fenced
  /\ \E i \in Ids : Overdue(ex[i])
  /\ ex' = [i \in Ids |-> IF Overdue(ex[i]) THEN NoExchange ELSE ex[i]]
  /\ UNCHANGED <<token, approvalVars, policy, scene, handlerVars, fenced, history>>

SweepApprovals ==
  /\ ~fenced
  /\ \E r \in References : Overdue(approvals[r])
  /\ approvals' = [r \in References |-> IF Overdue(approvals[r]) THEN NoApproval
                                                                ELSE approvals[r]]
  /\ UNCHANGED <<exchangeVars, keys, policy, scene, handlerVars, fenced, history>>

SpentKey(row) == row # NoKey /\ row.left <= 0

SweepKeys ==
  /\ ~fenced
  /\ \E k \in Operators \X Keys : SpentKey(keys[k])
  /\ keys' = [k \in Operators \X Keys |-> IF SpentKey(keys[k]) THEN NoKey ELSE keys[k]]
  /\ UNCHANGED <<exchangeVars, approvals, policy, scene, handlerVars, fenced, history>>

\* A clock regression closes every store call and keeps the rows.
ClockFence ==
  /\ ~fenced
  /\ fenced' = TRUE
  /\ UNCHANGED <<exchangeVars, approvalVars, policy, scene, handlerVars, history>>

\* A new boot identity also deletes what depends on the clock, except approvals
\* already decided.
RestartFence ==
  /\ ~fenced
  /\ fenced' = TRUE
  /\ ex' = [i \in Ids |-> NoExchange]
  /\ approvals' = [r \in References |-> IF approvals[r].status = "pending" THEN NoApproval
                                                                          ELSE approvals[r]]
  /\ keys' = [k \in Operators \X Keys |-> NoKey]
  /\ used' = [k \in Operators \X Keys |-> KeyTtl]
  /\ UNCHANGED <<token, policy, scene, handlerVars, issued, granted, told, revoked, delivered, lapsed>>

\* `reconcile-clock`, run while the controller is stopped.
ReconcileClock ==
  /\ fenced
  /\ fenced' = FALSE
  /\ ex' = [i \in Ids |-> NoExchange]
  /\ approvals' = [r \in References |->
                     IF approvals[r].status \in {"pending", "approved"} THEN NoApproval
                                                                        ELSE approvals[r]]
  /\ keys' = [k \in Operators \X Keys |-> NoKey]
  /\ used' = [k \in Operators \X Keys |-> KeyTtl]
  /\ conn' = [c \in Conns |-> Idle]
  /\ age' = [c \in Conns |-> 0]
  /\ UNCHANGED <<token, policy, scene, issued, granted, told, revoked, delivered, lapsed>>

-----------------------------------------------------------------------------

ExchangeCall(c) ==
  \/ \E terms \in Terms : CreateBegin(c, terms)
  \/ \E who \in scene.agents, i \in Ids :
       \/ FulfilRead(c, who, i)
       \/ \E value \in scene.values : SubmitRead(c, who, i, value)
       \/ RetrieveRead(c, who, i)
       \/ RevokeRead(c, who, i)

ExchangeStep(c) ==
  \/ ResolvePolicy(c) \/ ResolveApproval(c) \/ RequestApproval(c)
  \/ \E i \in Ids : CreateInsert(c, i)
  \/ CreateReply(c) \/ Reserve(c) \/ SubmitWrite(c) \/ SubmitReply(c)
  \/ RetrieveConsume(c) \/ RetrieveReply(c) \/ RevokeWrite(c) \/ RevokeReply(c)
  \/ Drop(c)

Deciding(c) ==
  \/ \E op \in Operators, ref \in References, verdict \in {"approved", "rejected"}, key \in Keys :
       \/ DecideRead(c, op, ref, verdict, key)
       \/ DecideUnified(c, op, ref, verdict, key)
  \/ DecideWrite(c)

Sweep == SweepExchanges \/ SweepApprovals \/ SweepKeys

Next ==
  \/ \E c \in scene.conns : ExchangeCall(c) \/ ExchangeStep(c) \/ Deciding(c)
  \/ \E who \in scene.agents, i \in Ids : RevokeAgain(who, i)
  \/ \E doc \in scene.documents : ReplacePolicy(doc)
  \/ Tick \/ Sweep \/ ClockFence \/ RestartFence \/ ReconcileClock

Spec == Init /\ [][Next]_vars

-----------------------------------------------------------------------------

\* The ciphertext of an exchange leaves the controller at most once, only to the
\* requester, and it is the one whose submitter was told 201
\* (consume_exchange, submit_exchange).
DeliveredOnceToRequester ==
  \A i \in Ids :
    /\ Len(delivered[i]) <= 1
    /\ \A n \in 1 .. Len(delivered[i]) :
         /\ delivered[i][n].to = issued[i].terms.requester
         /\ told[i] \subseteq {delivered[i][n].value}

\* Whoever is told that an exchange is revoked can rely on it: its ciphertext was
\* not delivered and no handler is about to (revoke_exchange against
\* consume_exchange and submit_exchange).
RevokedNeverDelivered ==
  \A i \in revoked :
    /\ delivered[i] = <<>>
    /\ \A c \in Conns : ~(At(c, "consumed") /\ conn[c].id = i)

\* An exchange opened on the strength of an approval had one: an operator the rule
\* assigns approved exactly these terms under exactly this rule, even when
\* several terms share one approval reference (resolve_policy_for_exchange).
ApprovedByAssigned ==
  \A i \in Ids :
    issued[i].opened /\ ByApproval(issued[i].decision) =>
      \E row \in granted :
        /\ row.by = issued[i].decision.reason[2]
        /\ Assigned(row, row.by)
        /\ row.terms = issued[i].terms
        /\ row.rule = issued[i].decision.rule

\* An exchange is reserved only while the decision it was opened under is the one
\* in force, give or take the time one request may take: once the policy document
\* was replaced by one that decides otherwise, or the approval lapsed, longer ago
\* than that, fulfilment is refused (fulfill_exchange).
ReservedInForce ==
  [][\A i \in Ids :
       ex[i].status = "pending" /\ ex'[i].status = "reserved" =>
         lapsed[i].rule <= RequestTimeout /\ lapsed[i].approval <= RequestTimeout]_vars

\* A retry with a remembered Idempotency-Key never decides anything, not even a
\* newer approval that carries the same reference.
RetryDecidesNothing ==
  [][\A k \in Operators \X Keys : used'[k] = 0 /\ used[k] # 0 => used[k] >= KeyTtl]_vars

\* What requester, fulfiller and whoever revokes are promised together: one
\* delivery, to the requester, of the acknowledged ciphertext, and none after a
\* revocation was answered (consume_exchange, submit_exchange, revoke_exchange).
DeliveredAsPromised == DeliveredOnceToRequester /\ RevokedNeverDelivered
=============================================================================
