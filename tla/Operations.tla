----------------------------- MODULE Operations -----------------------------
(***************************************************************************)
(* Operations on a fleet node: a broker-signed request becomes an          *)
(* operation under the fleet policy, possibly joins an approval group a    *)
(* named operator decides, receives one signed grant, and ends completed,  *)
(* refused, revoked or uncertain.  Models the controller's                 *)
(* store/operation_approvals.rs, store/grants.rs, store/authorization.rs,  *)
(* store/workload_authority.rs, store/workload_cancellation.rs,            *)
(* store/fleet_lifecycle.rs and the parts of store/fleet.rs and            *)
(* store/node_channel.rs that touch operations, with the handlers of       *)
(* routes/authorization.rs, routes/browser_intent.rs and routes/node.rs.   *)
(* The node's broker appears as the table of grants it holds and the       *)
(* reports it still has to send.                                           *)
(*                                                                         *)
(* One node and one registered workload; an element of Ops is a broker     *)
(* request and the operation made from it.  Every store function is one    *)
(* transaction, hence one step; a handler that runs several is held in     *)
(* conn[c] between them, and may be dropped there.  Deadlines are kept as  *)
(* the ticks left.  Definitions named Faulty... carry one plausible bug    *)
(* each and are not part of the specification.                             *)
(***************************************************************************)
EXTENDS Naturals, FiniteSets

CONSTANTS
  Ops,          \* broker requests, and the operations created from them
  Operators,    \* signed-in fleet operators
  Workload,     \* the workload, as the requester of its own browser sessions
  Conns,        \* requests the controller may be serving at once
  NoOne,
  RequestedTtl, \* ttl_seconds of a request
  ApprovalTtl,  \* approval_ttl_seconds
  Scenarios     \* the fleets considered

ASSUME OperationsAssumption ==
  /\ RequestedTtl \in Nat \ {0} /\ ApprovalTtl \in Nat \ {0}
  /\ NoOne \notin Operators /\ NoOne \notin Ops /\ Workload \notin Operators
  /\ NoOne # Workload

\* fleet policy validation: a pending_approval rule names its approvers.
IsRule(r) ==
  /\ r.decision \in {"allow", "pending_approval", "deny"}
  /\ r.approvers \subseteq Operators
  /\ r.decision = "pending_approval" => r.approvers # {}

ASSUME ScenariosAssumption ==
  \A f \in Scenarios :
    /\ f.ops \subseteq Ops /\ f.conns \subseteq Conns
    /\ f.requester \in [f.ops -> Operators] /\ f.operators \subseteq Operators
    /\ f.browser \in BOOLEAN /\ f.online \in BOOLEAN
    /\ f.first \in f.rules /\ \A r \in f.rules : IsRule(r)
    /\ f.ceilings \subseteq Nat \ {0} /\ f.ceilings # {}
    /\ f.limit \in Nat \ {0} /\ f.versions \in Nat

VARIABLES
  fleet,     \* the scenario, fixed at the start
  op,        \* the operations table
  group,     \* the operation_approvals table, by the operation that opened it
  grant,     \* the grants table, by operation
  grantDoc,  \* the grant's signed document in the node inbox
  revDoc,    \* the tombstone and its signed revocation in the node inbox
  closed,    \* operations whose OperationClosed document was queued
  withdrawn, \* requests with a recorded operation_cancel event
  policy, workload, node,
  conn,      \* the handler on each connection
  broker,    \* what the broker knows of each grant
  reports,   \* operation results in the broker's event queue
  outcomes,  \* revocation outcomes in the broker's event queue
  consent,   \* history: who approved an operation, and whether it was shown
  minted     \* history: grants issued, and the policy version of the last

tables == <<op, group, grant>>
documents == <<grantDoc, revDoc, closed>>
authority == <<policy, workload, node>>
brokerVars == <<broker, reports, outcomes>>
history == <<consent, minted>>
vars == <<fleet, tables, documents, withdrawn, authority, conn, brokerVars, history>>

-----------------------------------------------------------------------------
(* A fleet: the requests, the operator who asks for each, the operators who *)
(* decide and the handlers, the                                             *)
(* registered consumption mode, the rules its policy may hold for the       *)
(* action and the one it starts with, the local ceilings an administrator   *)
(* may register, the size of an approval group (10 in the code), the        *)
(* administrative acts that happen, whether the node polls at all, and the  *)
(* bound on policy versions and registrations.                              *)

BrowserMode == fleet.browser

Acts == fleet.acts

NoOp == [status |-> "absent", by |-> NoOne, decision |-> NoOne, version |-> 0,
         ttl |-> 0, left |-> 0, group |-> NoOne]

NoGroup == [status |-> "absent", members |-> {}, version |-> 0, left |-> 0,
            scope |-> NoOne, approvers |-> {}, by |-> NoOne]

NoGrant == [status |-> "none", left |-> 0, used |-> FALSE, outcome |-> NoOne]

NoConsent == [by |-> NoOne, shown |-> FALSE]

Idle == [at |-> "idle"]

At(c, step) == conn[c].at = step

Goto(c, call) == conn' = [conn EXCEPT ![c] = call]

Least(m, n) == IF m <= n THEN m ELSE n

Before(n) == IF n = 0 THEN 0 ELSE n - 1

\* Requests not yet granted, and grants whose authority is still out.
Ungranted == {o \in Ops : op[o].status \in {"requested", "awaiting"}}

Outstanding == {o \in Ops : grant[o].status \in {"issued", "delivered"}}

Expired(S) == {o \in S : grant[o].left = 0}

Live(S) == S \ Expired(S)

\* operation rows after those of S moved to a status, and grants likewise.
OpsTo(S, status) ==
  [o \in Ops |-> IF o \in S THEN [op[o] EXCEPT !.status = status] ELSE op[o]]

GrantsTo(S, status) ==
  [o \in Ops |-> IF o \in S THEN [grant[o] EXCEPT !.status = status] ELSE grant[o]]

PendingGroups(S) == {op[o].group : o \in S} \cap {g \in Ops : group[g].status = "pending"}

GroupsExpired(G) ==
  [g \in Ops |-> IF g \in G THEN [group[g] EXCEPT !.status = "expired", !.version = @ + 1]
                            ELSE group[g]]

Awaiting(G) == {o \in Ops : op[o].status = "awaiting" /\ op[o].group \in G}

\* enqueue_node_document of a signed revocation for each grant of S.
RevocationsQueued(S) == [o \in Ops |-> IF o \in S THEN "queued" ELSE revDoc[o]]

Running(S) == {o \in S : op[o].status \in {"granted", "executing"}}

-----------------------------------------------------------------------------

Init ==
  /\ fleet \in Scenarios
  /\ op = [o \in Ops |-> NoOp]
  /\ group = [o \in Ops |-> NoGroup]
  /\ grant = [o \in Ops |-> NoGrant]
  /\ grantDoc = [o \in Ops |-> "none"]
  /\ revDoc = [o \in Ops |-> "none"]
  /\ closed = {}
  /\ withdrawn = {}
  /\ policy = [version |-> 1, rule |-> fleet.first]
  /\ workload \in [status : {"active"}, identity : {1}, ceiling : fleet.ceilings]
  /\ node = [status |-> "active", rotating |-> FALSE]
  /\ conn = [c \in Conns |-> Idle]
  /\ broker = [o \in Ops |-> "none"]
  /\ reports = [o \in Ops |-> {}]
  /\ outcomes = [o \in Ops |-> NoOne]
  /\ consent = [o \in Ops |-> NoConsent]
  /\ minted = [o \in Ops |-> [count |-> 0, version |-> 0]]

(***************************************************************************)
(* expire_fleet_state, run by the periodic maintenance pass, by the list   *)
(* handlers and by the browser intent handler: groups past their deadline  *)
(* end with their members, requests past theirs are denied, grants past    *)
(* theirs expire, and tombstones without a document are signed.            *)
(***************************************************************************)

ExpiredGroups == {g \in Ops : group[g].status = "pending" /\ group[g].left = 0}

Overdue == Awaiting(ExpiredGroups) \cup {o \in Ungranted : op[o].left = 0}

FaultyAfterExpiryFailed(o) ==
  CASE o \in Overdue -> "denied"
    [] o \in Expired(Outstanding) /\ op[o].status = "granted" -> "failed"
    [] op[o].status = "executing" /\ grant[o].left = 0
         /\ (o \in Outstanding \/ ~BrowserMode) -> "uncertain"
    [] OTHER -> op[o].status

\* An operation whose grant was never delivered failed; one that may have run is
\* uncertain, and so is native execution unconfirmed at its grant's deadline.
AfterExpiry(o) ==
  CASE o \in Overdue -> "denied"
    [] o \in Expired(Outstanding) /\ op[o].status = "granted" ->
         IF grant[o].status = "issued" THEN "failed" ELSE "uncertain"
    [] op[o].status = "executing" /\ grant[o].left = 0
         /\ (o \in Outstanding \/ ~BrowserMode) -> "uncertain"
    [] OTHER -> op[o].status

FaultySignPendingTombstones == UNCHANGED revDoc

SignPendingTombstones ==
  revDoc' = [o \in Ops |-> IF revDoc[o] = "unsigned" /\ node.status = "active"
                             THEN "queued" ELSE revDoc[o]]

\* Closures go to active nodes only.
Close(S) == closed' = IF node.status = "active" THEN closed \cup S ELSE closed

ExpireFleetState ==
  /\ op' = [o \in Ops |-> [op[o] EXCEPT !.status = AfterExpiry(o)]]
  /\ group' = GroupsExpired(ExpiredGroups)
  /\ grant' = GrantsTo(Expired(Outstanding), "expired")
  /\ Close(Overdue)
  /\ SignPendingTombstones
  /\ UNCHANGED <<grantDoc, withdrawn, authority, brokerVars, history, fleet>>

Expire == ExpireFleetState /\ UNCHANGED conn

\* The list handlers run the same pass before they read.
ListOperations == Expire

ListGrants == Expire

ListApprovals == Expire

(***************************************************************************)
(* Creating an operation.                                                  *)
(***************************************************************************)

\* What create_operation reads before its transaction: the registration, the
\* policy rule, and from them the decision, the ttl and the deadline.
Intent(o, by) ==
  LET ttl == Least(RequestedTtl, workload.ceiling) IN
    [at |-> "create", op |-> o, by |-> by, rule |-> policy.rule, version |-> policy.version,
     identity |-> workload.identity, ttl |-> ttl,
     left |-> IF policy.rule.decision = "pending_approval" THEN ApprovalTtl ELSE ttl]

Decidable(rule) == rule.decision = "pending_approval" => rule.approvers # {}

CreateRead(c, o, who) ==
  /\ At(c, "idle")
  /\ workload.status = "active" /\ node.status = "active"
  /\ Decidable(policy.rule)
  /\ Goto(c, Intent(o, who))
  /\ UNCHANGED <<tables, documents, withdrawn, authority, brokerVars, history, fleet>>

\* A handler that goes on to issue the grants of S.
Issuing(S, by) ==
  [at |-> "ensure", todo |-> S, drafts |-> [o \in Ops |-> NoOne], by |-> by]

Resume(o, by) ==
  IF op[o].decision = "allow" /\ op[o].status = "requested" /\ op[o].by = by
    THEN Issuing({o}, by) ELSE Idle

\* A browser intent first runs the expiry pass, then looks for its operation.
IntentBegin(c, o) ==
  /\ BrowserMode
  /\ At(c, "idle")
  /\ op[o].by = Workload \/ (node.status = "active" /\ ~node.rotating)
  /\ ExpireFleetState
  /\ Goto(c, [at |-> "intent", op |-> o])

IntentRead(c) ==
  LET o == conn[c].op IN
    /\ At(c, "intent")
    /\ Goto(c, IF op[o].by = Workload THEN Resume(o, Workload)
               ELSE IF /\ op[o].status = "absent" /\ workload.status = "active"
                       /\ node.status = "active" /\ ~node.rotating /\ Decidable(policy.rule)
                 THEN Intent(o, Workload) ELSE Idle)
    /\ UNCHANGED <<tables, documents, withdrawn, authority, brokerVars, history, fleet>>

\* The transaction re-validates what was read.
Current(call) ==
  /\ policy.version = call.version
  /\ call.left > 0
  /\ workload.status = "active" /\ node.status = "active"
  /\ workload.identity = call.identity
  /\ workload.ceiling >= call.ttl

Scope(call) == [version |-> call.version, rule |-> call.rule, identity |-> call.identity]

Joinable(call) ==
  {g \in Ops : /\ group[g].status = "pending" /\ group[g].left > 0
               /\ group[g].scope = Scope(call)
               /\ Cardinality(group[g].members) < fleet.limit}

\* create_or_extend_approval: a pending group of the same scope with room, or a
\* new one.
GroupFor(call) ==
  IF call.rule.decision # "pending_approval" THEN {NoOne}
  ELSE IF Joinable(call) # {} THEN Joinable(call) ELSE {call.op}

Joined(g, call) ==
  IF g = NoOne THEN group
  ELSE [group EXCEPT ![g] =
          IF g \in Joinable(call)
            THEN [group[g] EXCEPT !.members = group[g].members \cup {call.op},
                                  !.version = group[g].version + 1]
            ELSE [status |-> "pending", members |-> {call.op}, version |-> 1,
                  left |-> call.left, scope |-> Scope(call),
                  approvers |-> call.rule.approvers, by |-> NoOne]]

FirstStatus(decision) ==
  CASE decision = "allow" -> "requested"
    [] decision = "pending_approval" -> "awaiting"
    [] OTHER -> "denied"

\* insert_operation.
NewOperation(call, g) ==
  [status |-> FirstStatus(call.rule.decision), by |-> call.by,
   decision |-> call.rule.decision, version |-> call.version,
   ttl |-> call.ttl, left |-> call.left, group |-> g]

\* The row, its place in a group, and the closure of a refused request.
Create(call) ==
  \E g \in GroupFor(call) :
    /\ op' = [op EXCEPT ![call.op] = NewOperation(call, g)]
    /\ group' = Joined(g, call)
    /\ Close(IF call.rule.decision = "deny" THEN {call.op} ELSE {})

CreateCommit(c) ==
  LET call == conn[c]  o == call.op IN
    /\ At(c, "create")
    /\ IF op[o].status # "absent"
         THEN /\ Goto(c, Resume(o, call.by))
              /\ UNCHANGED <<op, group, closed>>
         ELSE IF o \in withdrawn \/ ~Current(call)
         THEN Goto(c, Idle) /\ UNCHANGED <<op, group, closed>>
         ELSE /\ Create(call)
              /\ Goto(c, IF call.rule.decision = "allow" THEN Issuing({o}, call.by) ELSE Idle)
    /\ UNCHANGED <<grant, grantDoc, revDoc, withdrawn, authority, brokerVars, history, fleet>>

(***************************************************************************)
(* Issuing grants: ensure_operation_grants reads each operation and drafts *)
(* its grant, issue_operation_grants commits all drafts or none.           *)
(***************************************************************************)

\* The draft is signed for the registration read now; an allowed browser request
\* keeps its original deadline.
Draft(o) ==
  LET ttl == Least(op[o].ttl, workload.ceiling) IN
    [left |-> IF op[o].by = Workload /\ op[o].decision = "allow"
                THEN Least(ttl, op[o].left) ELSE ttl,
     identity |-> workload.identity, ceiling |-> workload.ceiling]

\* A stale browser intent runs the expiry pass before it answers.
GiveUp(c) == Goto(c, IF conn[c].by = Workload THEN [at |-> "settle"] ELSE Idle)

Advance(c, todo, drafts) ==
  Goto(c, IF todo # {} THEN [conn[c] EXCEPT !.todo = todo, !.drafts = drafts]
          ELSE IF \A o \in Ops : drafts[o] = NoOne THEN Idle
          ELSE [at |-> "issue", drafts |-> drafts, by |-> conn[c].by])

EnsureRead(c) ==
  /\ At(c, "ensure")
  /\ \E o \in conn[c].todo :
       LET rest == conn[c].todo \ {o}  drafts == conn[c].drafts IN
         IF op[o].status = "granted" THEN Advance(c, rest, drafts)
         ELSE IF /\ op[o].status = "requested"
                 /\ workload.status = "active" /\ node.status = "active"
           THEN Advance(c, rest, [drafts EXCEPT ![o] = Draft(o)])
         ELSE GiveUp(c)
  /\ UNCHANGED <<tables, documents, withdrawn, authority, brokerVars, history, fleet>>

\* grant_matches_context.  The row's version is left out: a row is "requested" under
\* one version only.  So is the recipient key: a rotation ends every request.
Matches(o, draft) ==
  /\ op[o].left > 0 /\ draft.left > 0
  /\ op[o].version = policy.version
  /\ draft.identity = workload.identity /\ draft.ceiling = workload.ceiling
  /\ workload.status = "active" /\ node.status = "active" /\ ~node.rotating
  /\ op[o].group # NoOne => group[op[o].group].status = "approved"

\* Issued only while every drafted operation is requested.
AllRequested(S) == \A o \in S : op[o].status = "requested"

\* insert_grant.
NewGrant(draft) == [NoGrant EXCEPT !.status = "issued", !.left = draft.left]

\* Rows, operations and signed documents of all drafts, together.
Grant(S, drafts) ==
  /\ op' = [o \in Ops |-> IF o \in S
                            THEN [op[o] EXCEPT !.status = "granted", !.left = drafts[o].left]
                            ELSE op[o]]
  /\ grant' = [o \in Ops |-> IF o \in S THEN NewGrant(drafts[o]) ELSE grant[o]]
  /\ grantDoc' = [o \in Ops |-> IF o \in S THEN "queued" ELSE grantDoc[o]]
  /\ minted' = [o \in Ops |-> IF o \in S THEN [count |-> minted[o].count + 1,
                                               version |-> policy.version]
                                         ELSE minted[o]]

Issue(c) ==
  LET drafts == conn[c].drafts
      S == {o \in Ops : drafts[o] # NoOne}
  IN
  /\ At(c, "issue")
  /\ IF \A o \in S : op[o].status = "granted"
       THEN Goto(c, Idle) /\ UNCHANGED <<op, grant, grantDoc, closed, minted>>
     ELSE IF ~AllRequested(S)
       THEN GiveUp(c) /\ UNCHANGED <<op, grant, grantDoc, closed, minted>>
     ELSE IF \E o \in S : ~Matches(o, drafts[o])
       THEN /\ op' = OpsTo(S, "denied")
            /\ Close({o \in S : op[o].by = Workload})
            /\ GiveUp(c)
            /\ UNCHANGED <<grant, grantDoc, minted>>
     ELSE /\ Grant(S, drafts)
          /\ Goto(c, Idle)
          /\ UNCHANGED closed
  /\ UNCHANGED <<group, revDoc, withdrawn, authority, brokerVars, consent, fleet>>

IntentSettle(c) == At(c, "settle") /\ ExpireFleetState /\ Goto(c, Idle)

(***************************************************************************)
(* Approval groups.                                                        *)
(***************************************************************************)

\* The operator is shown a pending group and decides exactly what was shown.
DecideRead(c, who, g) ==
  /\ At(c, "idle")
  /\ group[g].status = "pending"
  /\ Goto(c, [at |-> "decide", group |-> g, who |-> who, members |-> group[g].members,
              version |-> group[g].version])
  /\ UNCHANGED <<tables, documents, withdrawn, authority, brokerVars, history, fleet>>

FaultyAsShownPending(call) == group[call.group].status = "pending" /\ call.members # {}

AsShown(call) ==
  /\ group[call.group].status = "pending"
  /\ group[call.group].version = call.version
  /\ group[call.group].members = call.members
  /\ call.members # {}

\* Named by the rule, and the requester of no member, past members included.
MayDecide(who, g) ==
  /\ who \in group[g].approvers
  /\ ~ \E o \in Ops : op[o].group = g /\ op[o].by = who

\* Every member must still be what the group was opened for.
InForce(g) ==
  /\ group[g].left > 0
  /\ \A o \in group[g].members :
       /\ op[o].version = policy.version /\ op[o].status = "awaiting" /\ op[o].left > 0
       /\ op[o].group = g
  /\ workload.status = "active" /\ node.status = "active"

\* Approved members are requested, with their own lifetime from now on.
Approved(S) ==
  [o \in Ops |-> IF o \in S THEN [op[o] EXCEPT !.status = "requested", !.left = op[o].ttl]
                ELSE op[o]]

DecideCommit(c, verdict) ==
  LET call == conn[c]  g == call.group  members == Awaiting({g}) IN
    /\ At(c, "decide")
    /\ IF ~AsShown(call) \/ ~MayDecide(call.who, g)
         THEN Goto(c, Idle) /\ UNCHANGED <<op, group, closed, consent>>
       ELSE IF ~InForce(g)
         THEN /\ group' = GroupsExpired({g})
              /\ op' = OpsTo(members, "denied")
              /\ Close(members)
              /\ Goto(c, Idle)
              /\ UNCHANGED consent
       ELSE /\ group' = [group EXCEPT ![g].status = verdict, ![g].version = @ + 1,
                                      ![g].by = call.who]
            /\ IF verdict = "approved"
                 THEN /\ op' = Approved(members)
                      /\ consent' = [o \in Ops |-> IF o \in members
                                       THEN [by |-> call.who, shown |-> o \in call.members]
                                       ELSE consent[o]]
                      /\ Goto(c, Issuing(group[g].members, NoOne))
                      /\ UNCHANGED closed
                 ELSE /\ op' = OpsTo(members, "denied")
                      /\ Close(members)
                      /\ Goto(c, Idle)
                      /\ UNCHANGED consent
    /\ UNCHANGED <<grant, grantDoc, revDoc, withdrawn, authority, brokerVars, minted, fleet>>

\* The decider repeats an approval, with the key and the group first sent.
DecideReplay(c, g) ==
  /\ At(c, "idle")
  /\ group[g].status = "approved"
  /\ Goto(c, Issuing(group[g].members, NoOne))
  /\ UNCHANGED <<tables, documents, withdrawn, authority, brokerVars, history, fleet>>

FaultyLeftInGroup(g, o) == group

\* A member that leaves a pending group; an emptied group ends.
Left(g, o) ==
  IF g = NoOne \/ group[g].status # "pending" THEN group
  ELSE LET rest == group[g].members \ {o} IN
    [group EXCEPT ![g].members = rest, ![g].version = @ + 1,
                  ![g].status = IF rest = {} THEN "expired" ELSE @]

CancelAwaiting(o) ==
  /\ op[o].status = "awaiting"
  /\ op' = OpsTo({o}, "cancelled")
  /\ group' = Left(op[o].group, o)
  /\ Close({o})
  /\ UNCHANGED <<grant, grantDoc, revDoc, withdrawn, authority, conn, brokerVars, history, fleet>>

(***************************************************************************)
(* Withdrawing authority.                                                  *)
(***************************************************************************)

\* revoke_grant: an active grant of a running operation, with its tombstone.
Revocable(o) ==
  /\ o \in Live(Outstanding)
  /\ op[o].status \in {"granted", "executing"}

RevokeInStore(o) ==
  /\ grant' = GrantsTo({o}, "revoked")
  /\ op' = OpsTo({o}, "revoked")
  /\ revDoc' = RevocationsQueued({o})

RevokeGrant(o) ==
  /\ Revocable(o)
  /\ RevokeInStore(o)
  /\ UNCHANGED <<group, grantDoc, closed, withdrawn, authority, conn, brokerVars, history, fleet>>

\* An operator revokes a grant, or cancels an operation.
DeleteGrant(o) == RevokeGrant(o)

CancelOperation(o) == CancelAwaiting(o) \/ RevokeGrant(o)

\* The workload cancels its browser request through the broker.
CancelInStore(o) ==
  LET revoke == {o} \cap {x \in Ops : grant[x].status \notin {"none", "revoked"}} IN
    /\ op' = IF op[o].status \in {"requested", "awaiting"} THEN OpsTo({o}, "cancelled")
             ELSE IF op[o].status \in {"granted", "executing", "uncertain"}
             THEN OpsTo({o}, "revoked") ELSE op
    /\ group' = IF op[o].status = "awaiting" THEN Left(op[o].group, o) ELSE group
    /\ grant' = GrantsTo(revoke, "revoked")
    /\ revDoc' = RevocationsQueued(revoke)
    /\ closed' = closed \cup {o}

\* Recorded once, by the key of its event.
WorkloadCancel(o) ==
  /\ BrowserMode
  /\ o \notin withdrawn
  /\ withdrawn' = withdrawn \cup {o}
  /\ CancelInStore(o)
  /\ UNCHANGED <<grantDoc, authority, conn, brokerVars, history, fleet>>

\* retire_workload_authority.
Retire ==
  LET ends == Ungranted IN
    /\ grant' = GrantsTo(Outstanding, "revoked")
    /\ op' = [o \in Ops |-> IF o \in Running(Outstanding)
                              THEN [op[o] EXCEPT !.status = "revoked"]
                            ELSE IF o \in ends THEN [op[o] EXCEPT !.status = "cancelled"]
                            ELSE op[o]]
    /\ group' = GroupsExpired(PendingGroups(Awaiting(Ops)))
    /\ revDoc' = RevocationsQueued(Outstanding)
    /\ Close(ends)

RevokeWorkload ==
  /\ "workload" \in Acts
  /\ workload.status = "active"
  /\ workload' = [workload EXCEPT !.status = "revoked"]
  /\ Retire
  /\ UNCHANGED <<grantDoc, withdrawn, policy, node, conn, brokerVars, history, fleet>>

\* A changed unit, account or mode retires; a changed ceiling does not.
UpdateWorkload(ceiling, identity) ==
  /\ "workload" \in Acts
  /\ workload.status = "active" /\ node.status = "active"
  /\ identity <= fleet.versions
  /\ workload' = [workload EXCEPT !.ceiling = ceiling, !.identity = identity]
  /\ IF identity # workload.identity THEN Retire ELSE UNCHANGED <<tables, revDoc, closed>>
  /\ UNCHANGED <<grantDoc, withdrawn, policy, node, conn, brokerVars, history, fleet>>

ReplacePolicy(rule) ==
  /\ "policy" \in Acts
  /\ policy.version < fleet.versions
  /\ policy' = [version |-> policy.version + 1, rule |-> rule]
  /\ UNCHANGED <<tables, documents, withdrawn, workload, node, conn, brokerVars, history, fleet>>

\* cancel_node_operations ends every ungranted request, without closures.
NodeEnds(o, next) ==
  CASE o \in Running(Live(Outstanding)) -> "revoked"
    [] o \in Ungranted -> "cancelled"
    [] OTHER -> next

\* A node's grants are revoked, or expired when their deadline has passed.
NodeCancels(next) ==
  /\ op' = [o \in Ops |-> [op[o] EXCEPT !.status = NodeEnds(o, next[o])]]
  /\ group' = GroupsExpired(PendingGroups(Awaiting(Ops)))
  /\ grant' = [o \in Ops |->
                 IF o \in Live(Outstanding) THEN [grant[o] EXCEPT !.status = "revoked"]
                 ELSE IF o \in Outstanding THEN [grant[o] EXCEPT !.status = "expired"]
                 ELSE grant[o]]
  /\ revDoc' = RevocationsQueued(Live(Outstanding))

\* An operation whose grant had expired failed.
AfterRevocation(o) == IF o \in Running(Expired(Outstanding)) THEN "failed" ELSE op[o].status

RevokeNode ==
  /\ "node" \in Acts
  /\ node.status = "active"
  /\ NodeCancels([o \in Ops |-> AfterRevocation(o)])
  /\ node' = [node EXCEPT !.status = "revoked"]
  /\ workload' = [workload EXCEPT !.status = "revoked"]
  /\ UNCHANGED <<grantDoc, closed, withdrawn, policy, conn, brokerVars, history, fleet>>

\* Key rotation expires overdue grants and leaves their operations as they are.
RotateKey ==
  /\ "rotate" \in Acts
  /\ node.status = "active" /\ ~node.rotating
  /\ NodeCancels([o \in Ops |-> op[o].status])
  /\ node' = [node EXCEPT !.rotating = TRUE]
  /\ UNCHANGED <<grantDoc, closed, withdrawn, policy, workload, conn, brokerVars, history, fleet>>

RotationDone ==
  /\ node.rotating
  /\ node' = [node EXCEPT !.rotating = FALSE]
  /\ UNCHANGED <<tables, documents, withdrawn, policy, workload, conn, brokerVars, history, fleet>>

\* fence_purge, after a restart on an untrusted clock or at reconciliation:
\* tombstones are left for the next maintenance pass to sign.
FencePurge ==
  /\ "fence" \in Acts
  /\ group' = GroupsExpired({g \in Ops : group[g].status = "pending"})
  /\ op' = [o \in Ops |-> IF o \in Ungranted THEN [op[o] EXCEPT !.status = "denied"]
                          ELSE IF o \in Outstanding /\ op[o].status = "granted"
                          THEN [op[o] EXCEPT !.status = "revoked"]
                          ELSE op[o]]
  /\ grant' = GrantsTo(Outstanding, "revoked")
  /\ revDoc' = [o \in Ops |-> IF o \in Outstanding THEN "unsigned" ELSE revDoc[o]]
  /\ UNCHANGED <<grantDoc, closed, withdrawn, authority, conn, brokerVars, history, fleet>>

(***************************************************************************)
(* The node channel.  A document is queued, sent with the answer of a poll *)
(* (again at every poll until acknowledged), handled by the broker, and    *)
(* acknowledged by a later poll; any answer may be lost.                   *)
(***************************************************************************)

Sent(doc) == [o \in Ops |-> IF doc[o] = "queued" THEN "sent" ELSE doc[o]]

Acked(doc) == [o \in Ops |-> IF doc[o] = "handled" THEN "acked" ELSE doc[o]]

\* Polling marks the grants it carries delivered, in the same transaction.
Poll(ack) ==
  /\ fleet.online
  /\ grantDoc' = Sent(IF ack THEN Acked(grantDoc) ELSE grantDoc)
  /\ revDoc' = Sent(IF ack THEN Acked(revDoc) ELSE revDoc)
  /\ grant' = [o \in Ops |-> IF grant[o].status = "issued" /\ grantDoc'[o] = "sent"
                               THEN [grant[o] EXCEPT !.status = "delivered"] ELSE grant[o]]
  /\ UNCHANGED <<op, group, closed, withdrawn, authority, conn, brokerVars, history, fleet>>

\* A new node session queues revocations again until their outcome is known.
OpenSession ==
  /\ \E o \in Ops : revDoc[o] = "acked" /\ grant[o].outcome = NoOne
  /\ revDoc' = [o \in Ops |-> IF revDoc[o] = "acked" /\ grant[o].outcome = NoOne
                                THEN "queued" ELSE revDoc[o]]
  /\ UNCHANGED <<tables, grantDoc, closed, withdrawn, authority, conn, brokerVars, history, fleet>>

\* accept_grant: refused when overdue, settled before, or unlike the broker's own
\* policy and registration.
ReceiveGrant(o) ==
  /\ grantDoc[o] \in {"sent", "handled"}
  /\ grantDoc' = [grantDoc EXCEPT ![o] = "handled"]
  /\ broker' \in {broker} \cup
       (IF broker[o] = "none" /\ grant[o].left > 0
          THEN {[broker EXCEPT ![o] = "held"]} ELSE {})
  /\ UNCHANGED <<tables, revDoc, closed, withdrawn, authority, conn, reports, outcomes, history, fleet>>

\* apply_grant_revocation: the tombstone and the outcome it reports.
ReceiveRevocation(o) ==
  /\ revDoc[o] \in {"sent", "handled"}
  /\ grantDoc[o] # "sent"
  /\ revDoc' = [revDoc EXCEPT ![o] = "handled"]
  /\ outcomes' = [outcomes EXCEPT ![o] =
                    IF @ # NoOne THEN @
                    ELSE IF broker[o] = "held" THEN "revoked_before_consumption"
                    ELSE IF broker[o] = "used" THEN "already_consumed" ELSE "not_received"]
  /\ broker' = [broker EXCEPT ![o] = IF @ = "used" THEN "used" ELSE "dead"]
  /\ UNCHANGED <<tables, grantDoc, closed, withdrawn, authority, conn, reports, history, fleet>>

\* The broker reports "uncertain", consumes the grant, acts, reports "completed".
Announce(o) ==
  /\ broker[o] = "held" /\ grant[o].left > 0
  /\ "uncertain" \notin reports[o]
  /\ reports' = [reports EXCEPT ![o] = @ \cup {"uncertain"}]
  /\ UNCHANGED <<tables, documents, withdrawn, authority, conn, broker, outcomes, history, fleet>>

\* A refused consumption withdraws the report, before it can be sent.
Withdraw(o) ==
  /\ broker[o] = "held" /\ reports[o] = {"uncertain"}
  /\ ~BrowserMode /\ ~grant[o].used
  /\ reports' = [reports EXCEPT ![o] = {}]
  /\ UNCHANGED <<tables, documents, withdrawn, authority, conn, broker, outcomes, history, fleet>>

Consume(o) ==
  /\ broker[o] = "held" /\ grant[o].left > 0
  /\ "uncertain" \in reports[o]
  /\ broker' = [broker EXCEPT ![o] = "used"]
  /\ UNCHANGED <<tables, documents, withdrawn, authority, conn, reports, outcomes, history, fleet>>

Complete(o) ==
  /\ broker[o] = "used" /\ "completed" \notin reports[o]
  /\ reports' = [reports EXCEPT ![o] = @ \cup {"completed"}]
  /\ UNCHANGED <<tables, documents, withdrawn, authority, conn, broker, outcomes, history, fleet>>

\* Restart, expiry or a changed registration: accepted grants are kept in memory.
Forget(o) ==
  /\ broker[o] = "held"
  /\ broker' = [broker EXCEPT ![o] = "none"]
  /\ UNCHANGED <<tables, documents, withdrawn, authority, conn, reports, outcomes, history, fleet>>

\* reconcile_node_operation_result, for a report that stays queued until its
\* acknowledgement arrives.
AfterResult(status, result) ==
  CASE result = "completed" /\ status \in {"granted", "executing", "uncertain"} -> "completed"
    [] result = "uncertain" /\ status = "granted" -> "executing"
    [] OTHER -> status

ApplyResult(o, result) ==
  /\ result \in reports[o]
  /\ op' = [op EXCEPT ![o].status = AfterResult(@, result)]
  /\ grant' = [grant EXCEPT ![o].used = TRUE,
                            ![o].status = IF o \in Outstanding THEN "consumed" ELSE @]
  /\ UNCHANGED <<group, documents, withdrawn, authority, conn, brokerVars, history, fleet>>

\* apply_grant_revocation_outcome: for a revoked grant, once.
ApplyOutcome(o) ==
  /\ outcomes[o] # NoOne
  /\ grant[o].status = "revoked" /\ grant[o].outcome = NoOne
  /\ grant' = [grant EXCEPT ![o].outcome = outcomes[o],
                            ![o].used = @ \/ outcomes[o] = "already_consumed"]
  /\ UNCHANGED <<op, group, documents, withdrawn, authority, conn, brokerVars, history, fleet>>

-----------------------------------------------------------------------------

Drop(c) ==
  /\ ~At(c, "idle")
  /\ Goto(c, Idle)
  /\ UNCHANGED <<tables, documents, withdrawn, authority, brokerVars, history, fleet>>

AgedDraft(draft) == IF draft = NoOne THEN NoOne ELSE [draft EXCEPT !.left = Before(@)]

AgedCall(call) ==
  IF call.at = "create" THEN [call EXCEPT !.left = Before(@)]
  ELSE IF call.at \in {"ensure", "issue"}
  THEN [call EXCEPT !.drafts = [o \in Ops |-> AgedDraft(call.drafts[o])]]
  ELSE call

Tick ==
  /\ op' = [o \in Ops |-> [op[o] EXCEPT !.left = Before(@)]]
  /\ group' = [g \in Ops |-> [group[g] EXCEPT !.left = Before(@)]]
  /\ grant' = [o \in Ops |-> [grant[o] EXCEPT !.left = Before(@)]]
  /\ conn' = [c \in Conns |-> AgedCall(conn[c])]
  /\ UNCHANGED <<documents, withdrawn, authority, brokerVars, history, fleet>>

ControllerStep ==
  \/ Expire
  \/ ListOperations \/ ListGrants \/ ListApprovals
  \/ \E c \in fleet.conns :
       \/ \E o \in fleet.ops : CreateRead(c, o, fleet.requester[o])
       \/ \E o \in fleet.ops : IntentBegin(c, o)
       \/ IntentRead(c)
       \/ CreateCommit(c)
       \/ EnsureRead(c)
       \/ Issue(c)
       \/ IntentSettle(c)
       \/ \E who \in fleet.operators, g \in Ops : DecideRead(c, who, g)
       \/ \E verdict \in {"approved", "rejected"} : DecideCommit(c, verdict)
       \/ \E g \in Ops : DecideReplay(c, g)
       \/ Drop(c)
  \/ \E o \in fleet.ops : CancelOperation(o) \/ DeleteGrant(o) \/ WorkloadCancel(o)

AdminStep ==
  \/ RevokeWorkload
  \/ \E ceiling \in fleet.ceilings, identity \in {workload.identity, workload.identity + 1} :
       UpdateWorkload(ceiling, identity)
  \/ \E rule \in fleet.rules : ReplacePolicy(rule)
  \/ RevokeNode
  \/ RotateKey
  \/ RotationDone
  \/ FencePurge

ChannelStep ==
  \/ \E ack \in BOOLEAN : Poll(ack)
  \/ OpenSession
  \/ \E o \in Ops : \/ ReceiveGrant(o)
                    \/ ReceiveRevocation(o)
                    \/ Announce(o)
                    \/ Withdraw(o)
                    \/ Consume(o)
                    \/ Complete(o)
                    \/ Forget(o)
                    \/ \E result \in {"uncertain", "completed"} : ApplyResult(o, result)
                    \/ ApplyOutcome(o)

Next == ControllerStep \/ AdminStep \/ ChannelStep \/ Tick

Spec == Init /\ [][Next]_vars

\* Time passes and main.rs runs the maintenance pass periodically; a running node
\* polls, acknowledges, and hands documents and events on.
FairSpec ==
  /\ Spec
  /\ WF_vars(Tick) /\ WF_vars(Expire)
  /\ WF_vars(Poll(TRUE))
  /\ WF_vars(\E o \in Ops : ReceiveGrant(o))
  /\ WF_vars(\E o \in Ops : ReceiveRevocation(o))
  /\ WF_vars(\E o \in Ops : ApplyOutcome(o))

-----------------------------------------------------------------------------

\* A grant stands for exactly one authorisation: it was issued once, under the policy
\* version that decided its operation, and where that decision asked for an approval,
\* a named operator who did not request the operation approved it having been shown
\* it (decide_operation_approval, issue_operation_grants).
Authorised ==
  \A o \in Ops : minted[o].count > 0 =>
    /\ minted[o] = [count |-> 1, version |-> op[o].version]
    /\ op[o].decision \in {"allow", "pending_approval"}
    /\ op[o].decision = "pending_approval" =>
         /\ consent[o].shown
         /\ consent[o].by \in group[op[o].group].approvers
         /\ consent[o].by # op[o].by

\* The tables tell the same story, whoever moved them last: an operation and its grant
\* agree, a request that awaits approval is a member of its own pending group, and a
\* member of a pending group has not been granted, cancelled or moved elsewhere, though
\* its own deadline may have denied it.  A leftover member makes a group undecidable, a
\* lost one can never be approved.
TablesAgree ==
  \A o \in Ops :
    /\ op[o].status \in {"absent", "requested", "awaiting", "denied", "cancelled"} =>
         grant[o] = NoGrant
    /\ op[o].status = "granted" => grant[o].status \in {"issued", "delivered", "expired"}
    /\ op[o].status = "executing" =>
         grant[o].status \in {"consumed", "expired"} /\ grant[o].used
    /\ op[o].status = "completed" => grant[o].used
    /\ op[o].status = "revoked" => grant[o].status = "revoked"
    /\ grant[o].status \in {"issued", "delivered"} => op[o].status = "granted"
    /\ op[o].status = "awaiting" =>
         /\ op[o].group \in Ops
         /\ group[op[o].group].status = "pending" /\ o \in group[op[o].group].members
    /\ group[o].status = "pending" =>
         /\ Cardinality(group[o].members) <= fleet.limit
         /\ \A x \in group[o].members :
              op[x].group = o /\ op[x].status \in {"awaiting", "denied"}

\* Of a node it still trusts, the controller never reports as not executed what the
\* broker executed: "denied", "cancelled" and "failed" mean the broker did not consume a
\* grant ("one that may have run is uncertain", expire_fleet_state).  revoke_node ends
\* the operations of its node by their deadline alone.
NotExecutedIsTrue ==
  node.status = "active" =>
    \A o \in Ops : op[o].status \in {"denied", "cancelled", "failed"} => broker[o] # "used"

\* Native operations that have reached neither a final status nor "uncertain".
Unsettled ==
  {o \in Ops : /\ ~BrowserMode
               /\ op[o].status \in {"requested", "awaiting", "granted", "executing"}}

\* The maintenance pass finds granted operations through grants that are outstanding.
Stranded(o) == op[o].status = "granted" /\ grant[o].status = "expired"

\* Every native operation ends without anybody's help (expire_fleet_state, run by the
\* maintenance task), except one whose grant a key rotation found past its deadline:
\* stage_node_key_rotation sets that grant to expired and leaves the operation granted.
EveryOperationEnds == Unsettled # {} ~> \A o \in Unsettled : Stranded(o)

\* Nothing else sets a grant to expired and leaves its operation granted.
OnlyRotationStrands ==
  [][\A o \in Ops : Stranded(o)' => Stranded(o) \/ (node'.rotating /\ ~node.rotating)]_vars

Unreported == {o \in Ops : grant[o].status = "revoked" /\ grant[o].outcome = NoOne}

\* A revocation of a connected node's grant is reported back by the broker, also when
\* the clock fence wrote its tombstone unsigned.
RevocationsReported ==
  (fleet.online /\ Unreported # {}) ~> (Unreported = {} \/ node.status # "active")

\* What was begun comes to its end and is accounted for, natively and at the node
\* (run_maintenance, deliver, apply_grant_revocation_outcome).
WorkEnds == EveryOperationEnds /\ OnlyRotationStrands /\ RevocationsReported
=============================================================================
