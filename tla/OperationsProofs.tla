-------------------------- MODULE OperationsProofs --------------------------
(***************************************************************************)
(* Proofs about Operations for any number of requests, operators and       *)
(* handlers at once, every fleet and every lifetime.                       *)
(***************************************************************************)
EXTENDS Operations, FiniteSetTheorems, TLAPS

-----------------------------------------------------------------------------
(* What the tables and the handlers hold.                                  *)

Rules == UNION {f.rules : f \in Scenarios}

People == Operators \cup {Workload, NoOne}

OpRows ==
  [status : {"absent", "requested", "awaiting", "denied", "cancelled", "granted", "executing",
             "completed", "revoked", "failed", "uncertain"},
   by : People, decision : {"allow", "pending_approval", "deny", NoOne}, version : Nat,
   ttl : Nat, left : Nat, group : Ops \cup {NoOne}]

GroupRows ==
  [status : {"absent", "pending", "approved", "rejected", "expired"}, members : SUBSET Ops,
   version : Nat, left : Nat, scope : [version : Nat, rule : Rules, identity : Nat] \cup {NoOne},
   approvers : SUBSET Operators, by : People]

GrantRows ==
  [status : {"none", "issued", "delivered", "consumed", "expired", "revoked"}, left : Nat,
   used : BOOLEAN,
   outcome : {NoOne, "revoked_before_consumption", "already_consumed", "not_received"}]

TablesTyped ==
  /\ op \in [Ops -> OpRows]
  /\ group \in [Ops -> GroupRows]
  /\ grant \in [Ops -> GrantRows]

DocumentStates == {"none", "unsigned", "queued", "sent", "handled", "acked"}

ChannelTyped ==
  /\ grantDoc \in [Ops -> DocumentStates] /\ revDoc \in [Ops -> DocumentStates]
  /\ broker \in [Ops -> {"none", "held", "used", "dead"}]
  /\ reports \in [Ops -> SUBSET {"uncertain", "completed"}]
  /\ outcomes \in [Ops -> {NoOne, "revoked_before_consumption", "already_consumed", "not_received"}]

AuthorityTyped ==
  /\ fleet \in Scenarios
  /\ policy \in [version : Nat, rule : fleet.rules]
  /\ workload \in [status : {"active", "revoked"}, identity : Nat, ceiling : fleet.ceilings]
  /\ node \in [status : {"active", "revoked"}, rotating : BOOLEAN]

HistoryTyped ==
  /\ consent \in [Ops -> [by : People, shown : BOOLEAN]]
  /\ minted \in [Ops -> [count : Nat, version : Nat]]

Drafts == [left : Nat, identity : Nat, ceiling : Nat]
DraftTables == [Ops -> Drafts \cup {NoOne}]

IdleCalls == [at : {"idle", "settle"}]
IntentCalls == [at : {"intent"}, op : Ops]
CreateCalls ==
  [at : {"create"}, op : Ops, by : People, rule : Rules, version : Nat, identity : Nat, ttl : Nat, left : Nat]
EnsureCalls == [at : {"ensure"}, todo : SUBSET Ops, drafts : DraftTables, by : People]
IssueCalls == [at : {"issue"}, drafts : DraftTables, by : People]
DecideCalls == [at : {"decide"}, group : Ops, who : Operators, members : SUBSET Ops, version : Nat]

Calls == IdleCalls \cup IntentCalls \cup CreateCalls \cup EnsureCalls \cup IssueCalls \cup DecideCalls

Typed == TablesTyped /\ ChannelTyped /\ AuthorityTyped /\ HistoryTyped /\ conn \in [Conns -> Calls]

GrantsAgree ==
  \A o \in Ops :
    /\ op[o].status \in {"absent", "requested", "awaiting", "denied", "cancelled"} =>
         grant[o] = NoGrant
    /\ op[o].status = "granted" => grant[o].status \in {"issued", "delivered", "expired"}
    /\ op[o].status = "executing" =>
         grant[o].status \in {"consumed", "expired"} /\ grant[o].used
    /\ op[o].status = "completed" => grant[o].used
    /\ op[o].status = "revoked" => grant[o].status = "revoked"
    /\ grant[o].status \in {"issued", "delivered"} => op[o].status = "granted"

MembersAgree ==
  \A o \in Ops :
    /\ op[o].status = "awaiting" =>
         /\ op[o].group \in Ops
         /\ group[op[o].group].status = "pending" /\ o \in group[op[o].group].members
    /\ group[o].status = "pending" =>
         /\ Cardinality(group[o].members) <= fleet.limit
         /\ \A x \in group[o].members :
              op[x].group = o /\ op[x].status \in {"awaiting", "denied"}

\* The members of a group are finitely many; a group is opened with the operation it is
\* named after, and an operation's group has been opened.
GroupsSound ==
  \A o \in Ops :
    /\ IsFiniteSet(group[o].members)
    /\ op[o].status = "absent" => group[o].status = "absent"
    /\ op[o].group \in Ops => group[op[o].group].status # "absent"

Consented(o) ==
  /\ op[o].group \in Ops
  /\ consent[o].shown
  /\ consent[o].by \in group[op[o].group].approvers
  /\ consent[o].by # op[o].by

\* What may be granted was allowed, or approved by one who may.
DecisionsSound ==
  \A o \in Ops :
    /\ op[o].status = "awaiting" => op[o].decision = "pending_approval"
    /\ op[o].status \notin {"absent", "awaiting", "denied", "cancelled"} =>
         \/ op[o].decision = "allow"
         \/ op[o].decision = "pending_approval" /\ Consented(o)

Ungrantable == {"absent", "requested", "awaiting", "denied", "cancelled"}

\* A grant is issued once; nothing about it is on its way before.
GrantsSound ==
  \A o \in Ops :
    /\ minted[o].count = IF grant[o].status = "none" THEN 0 ELSE 1
    /\ grant[o].status # "none" => minted[o].version = op[o].version
    /\ grant[o].status = "none" <=> op[o].status \in Ungrantable
    /\ grant[o].status = "none" =>
         grantDoc[o] = "none" /\ revDoc[o] = "none" /\ broker[o] = "none" /\ reports[o] = {}
    /\ grant[o].status = "issued" => grantDoc[o] = "queued"
    /\ grantDoc[o] = "queued" => broker[o] \notin {"held", "used"}

\* What failed while the node was trusted was not used, and no longer can be.
FailuresSound ==
  node.status = "active" =>
    \A o \in Ops : op[o].status = "failed" => broker[o] # "used" /\ grant[o].left = 0

IInv ==
  /\ Typed /\ GrantsAgree /\ MembersAgree
  /\ GroupsSound /\ DecisionsSound /\ GrantsSound /\ FailuresSound

LEMMA TablesParts == TablesAgree <=> GrantsAgree /\ MembersAgree
BY DEF TablesAgree, GrantsAgree, MembersAgree

\* What GrantsAgree says of one operation, after a step.
AgreesThen(o) ==
  /\ op'[o].status \in {"absent", "requested", "awaiting", "denied", "cancelled"} => grant'[o] = NoGrant
  /\ op'[o].status = "granted" => grant'[o].status \in {"issued", "delivered", "expired"}
  /\ op'[o].status = "executing" => grant'[o].status \in {"consumed", "expired"} /\ grant'[o].used
  /\ op'[o].status = "completed" => grant'[o].used
  /\ op'[o].status = "revoked" => grant'[o].status = "revoked"
  /\ grant'[o].status \in {"issued", "delivered"} => op'[o].status = "granted"

LEMMA AgreeingThen == ASSUME \A o \in Ops : AgreesThen(o) PROVE GrantsAgree'
BY DEF AgreesThen, GrantsAgree

-----------------------------------------------------------------------------
(* Handlers.                                                               *)

LEMMA FleetTyped ==
  ASSUME AuthorityTyped
  PROVE  /\ fleet.rules \subseteq Rules /\ fleet.ceilings \subseteq Nat \ {0} /\ fleet.limit \in Nat \ {0}
         /\ fleet.ops \subseteq Ops /\ fleet.conns \subseteq Conns /\ fleet.operators \subseteq Operators
         /\ \A o \in fleet.ops : fleet.requester[o] \in Operators
         /\ workload.ceiling \in Nat /\ workload.identity \in Nat /\ policy.version \in Nat
         /\ policy.rule \in Rules
         /\ \A r \in Rules : r.decision \in {"allow", "pending_approval", "deny"} /\ r.approvers \subseteq Operators
<1>1. fleet.rules \subseteq Rules /\ fleet \in Scenarios
  BY DEF AuthorityTyped, Rules
<1>2. \A r \in Rules : r.decision \in {"allow", "pending_approval", "deny"} /\ r.approvers \subseteq Operators
  BY ScenariosAssumption DEF Rules, IsRule
<1>3. /\ fleet.ceilings \subseteq Nat \ {0} /\ fleet.limit \in Nat \ {0}
      /\ fleet.ops \subseteq Ops /\ fleet.conns \subseteq Conns /\ fleet.operators \subseteq Operators
      /\ fleet.requester \in [fleet.ops -> Operators]
  BY <1>1, ScenariosAssumption
<1>4. workload.ceiling \in Nat /\ workload.identity \in Nat /\ policy.version \in Nat /\ policy.rule \in Rules
  BY <1>1, <1>3 DEF AuthorityTyped
<1> QED
  BY <1>1, <1>2, <1>3, <1>4

LEMMA GotoTyped ==
  ASSUME conn \in [Conns -> Calls], NEW c, NEW call \in Calls, Goto(c, call)
  PROVE  conn' \in [Conns -> Calls]
BY DEF Goto

LEMMA CallsApart ==
  ASSUME NEW call \in Calls
  PROVE  /\ call.at = "intent" => call \in IntentCalls
         /\ call.at = "create" => call \in CreateCalls
         /\ call.at = "ensure" => call \in EnsureCalls
         /\ call.at = "issue" => call \in IssueCalls
         /\ call.at = "decide" => call \in DecideCalls
         /\ call.at \in {"idle", "settle"} => call \in IdleCalls
         /\ call.at \in {"idle", "settle", "intent", "create", "ensure", "issue", "decide"}
BY DEF Calls, IdleCalls, IntentCalls, CreateCalls, EnsureCalls, IssueCalls, DecideCalls

LEMMA IdleTyped == Idle \in Calls /\ [at |-> "settle"] \in Calls
BY DEF Idle, Calls, IdleCalls

LEMMA LeastTyped ==
  ASSUME NEW m \in Nat, NEW n \in Nat
  PROVE  Least(m, n) \in Nat /\ Before(m) \in Nat
BY DEF Least, Before

LEMMA IntentTyped ==
  ASSUME AuthorityTyped, NEW o \in Ops, NEW by \in People
  PROVE  Intent(o, by) \in Calls
<1>1. /\ workload.ceiling \in Nat /\ workload.identity \in Nat /\ policy.version \in Nat /\ policy.rule \in Rules
  BY FleetTyped
<1>2. Least(RequestedTtl, workload.ceiling) \in Nat /\ ApprovalTtl \in Nat
  BY <1>1, LeastTyped, OperationsAssumption
<1>3. Intent(o, by) \in CreateCalls
  BY <1>1, <1>2 DEF Intent, CreateCalls
<1> QED
  BY <1>3 DEF Calls

LEMMA IssuingTyped ==
  ASSUME NEW S \in SUBSET Ops, NEW by \in People
  PROVE  Issuing(S, by) \in Calls
<1>1. [o \in Ops |-> NoOne] \in DraftTables
  BY DEF DraftTables
<1>2. Issuing(S, by) \in EnsureCalls
  BY <1>1 DEF Issuing, EnsureCalls
<1> QED
  BY <1>2 DEF Calls

LEMMA ResumeTyped ==
  ASSUME NEW o \in Ops, NEW by \in People
  PROVE  Resume(o, by) \in Calls
<1>1. Issuing({o}, by) \in Calls
  BY IssuingTyped
<1> QED
  BY <1>1, IdleTyped DEF Resume

LEMMA GiveUpTyped ==
  ASSUME conn \in [Conns -> Calls], NEW c, GiveUp(c)
  PROVE  conn' \in [Conns -> Calls]
BY GotoTyped, IdleTyped DEF GiveUp

LEMMA AdvanceTyped ==
  ASSUME conn \in [Conns -> Calls], NEW c \in Conns, conn[c].at = "ensure",
         NEW todo \in SUBSET Ops, NEW drafts \in DraftTables, Advance(c, todo, drafts)
  PROVE  conn' \in [Conns -> Calls]
<1>1. conn[c] \in EnsureCalls
  BY CallsApart
<1>2. [conn[c] EXCEPT !.todo = todo, !.drafts = drafts] \in EnsureCalls
  BY <1>1 DEF EnsureCalls
<1>3. [at |-> "issue", drafts |-> drafts, by |-> conn[c].by] \in IssueCalls
  BY <1>1 DEF EnsureCalls, IssueCalls
<1>4. [conn[c] EXCEPT !.todo = todo, !.drafts = drafts] \in Calls
      /\ [at |-> "issue", drafts |-> drafts, by |-> conn[c].by] \in Calls
  BY <1>2, <1>3 DEF Calls
<1> QED
  BY <1>4, GotoTyped, IdleTyped DEF Advance

LEMMA DraftTyped ==
  ASSUME AuthorityTyped, TablesTyped, NEW o \in Ops
  PROVE  Draft(o) \in Drafts
<1>1. workload.ceiling \in Nat /\ workload.identity \in Nat /\ op[o].ttl \in Nat /\ op[o].left \in Nat
  BY FleetTyped DEF TablesTyped, OpRows
<1>2. Least(op[o].ttl, workload.ceiling) \in Nat
  BY <1>1, LeastTyped
<1>3. Least(Least(op[o].ttl, workload.ceiling), op[o].left) \in Nat
  BY <1>1, <1>2, LeastTyped
<1> QED
  BY <1>1, <1>2, <1>3 DEF Draft, Drafts

\* Handlers that read: nothing but the handler moves.
Reads(c) ==
  \/ \E o \in fleet.ops : CreateRead(c, o, fleet.requester[o])
  \/ IntentRead(c) \/ EnsureRead(c)
  \/ \E who \in fleet.operators, g \in Ops : DecideRead(c, who, g)
  \/ \E g \in Ops : DecideReplay(c, g)
  \/ Drop(c)

LEMMA ReadsTyped ==
  ASSUME Typed, NEW c \in fleet.conns, Reads(c)
  PROVE  /\ UNCHANGED <<tables, documents, withdrawn, authority, brokerVars, history, fleet>>
         /\ conn' \in [Conns -> Calls]
<1>9. UNCHANGED <<tables, documents, withdrawn, authority, brokerVars, history, fleet>>
  BY DEF Reads, CreateRead, IntentRead, EnsureRead, DecideRead, DecideReplay, Drop
<1> SUFFICES conn' \in [Conns -> Calls]
  BY <1>9
<1>1. TablesTyped /\ AuthorityTyped /\ conn \in [Conns -> Calls] /\ c \in Conns
  BY FleetTyped DEF Typed
<1>2. ASSUME NEW o \in fleet.ops, CreateRead(c, o, fleet.requester[o])
      PROVE  conn' \in [Conns -> Calls]
  <2>1. o \in Ops /\ fleet.requester[o] \in People
    BY <1>1, FleetTyped DEF People
  <2> QED
    BY <1>1, <1>2, <2>1, IntentTyped, GotoTyped DEF CreateRead
<1>3. CASE IntentRead(c)
  <2>1. conn[c].op \in Ops /\ Workload \in People
    BY <1>1, <1>3, CallsApart DEF IntentRead, At, IntentCalls, People
  <2>2. Resume(conn[c].op, Workload) \in Calls /\ Intent(conn[c].op, Workload) \in Calls
    BY <1>1, <2>1, ResumeTyped, IntentTyped
  <2> QED
    BY <1>1, <1>3, <2>2, IdleTyped, GotoTyped DEF IntentRead
<1>4. CASE EnsureRead(c)
  <2>1. conn[c] \in EnsureCalls /\ conn[c].at = "ensure"
    BY <1>1, <1>4, CallsApart DEF EnsureRead, At
  <2> DEFINE drafts == conn[c].drafts
  <2>2. drafts \in DraftTables /\ conn[c].todo \in SUBSET Ops
    BY <2>1 DEF EnsureCalls
  <2>3. PICK o \in conn[c].todo :
          \/ Advance(c, conn[c].todo \ {o}, drafts)
          \/ Advance(c, conn[c].todo \ {o}, [drafts EXCEPT ![o] = Draft(o)])
          \/ GiveUp(c)
    BY <1>4 DEF EnsureRead
  <2>4. [drafts EXCEPT ![o] = Draft(o)] \in DraftTables
    <3>1. Draft(o) \in Drafts
      BY <1>1, <2>2, DraftTyped
    <3> QED
      BY <2>2, <3>1 DEF DraftTables
  <2>5. conn[c].todo \ {o} \in SUBSET Ops
    BY <2>2
  <2> HIDE DEF drafts
  <2> QED
    BY <1>1, <2>1, <2>2, <2>3, <2>4, <2>5, AdvanceTyped, GiveUpTyped
<1>5. ASSUME NEW who \in fleet.operators, NEW g \in Ops, DecideRead(c, who, g)
      PROVE  conn' \in [Conns -> Calls]
  <2>1. group[g].members \in SUBSET Ops /\ group[g].version \in Nat /\ who \in Operators
    BY <1>1, FleetTyped DEF TablesTyped, GroupRows
  <2>2. [at |-> "decide", group |-> g, who |-> who, members |-> group[g].members,
         version |-> group[g].version] \in DecideCalls
    BY <2>1 DEF DecideCalls
  <2> QED
    BY <1>1, <1>5, <2>2, GotoTyped DEF DecideRead, Calls
<1>6. ASSUME NEW g \in Ops, DecideReplay(c, g)
      PROVE  conn' \in [Conns -> Calls]
  <2>1. group[g].members \in SUBSET Ops /\ NoOne \in People
    BY <1>1 DEF TablesTyped, GroupRows, People
  <2> QED
    BY <1>1, <1>6, <2>1, IssuingTyped, GotoTyped DEF DecideReplay
<1>7. CASE Drop(c)
  BY <1>1, <1>7, IdleTyped, GotoTyped DEF Drop
<1> QED
  BY <1>2, <1>3, <1>4, <1>5, <1>6, <1>7 DEF Reads

-----------------------------------------------------------------------------
(* Rows.                                                                   *)

OpStatuses ==
  {"absent", "requested", "awaiting", "denied", "cancelled", "granted", "executing",
   "completed", "revoked", "failed", "uncertain"}

\* p is the operations table with other statuses and deadlines.
Steady(p) ==
  /\ p \in [Ops -> OpRows]
  /\ \A o \in Ops : /\ p[o].by = op[o].by /\ p[o].decision = op[o].decision
                    /\ p[o].version = op[o].version /\ p[o].group = op[o].group

LEMMA RowTo ==
  ASSUME NEW r \in OpRows, NEW s \in OpStatuses
  PROVE  LET q == [r EXCEPT !.status = s]
         IN /\ q \in OpRows /\ q.status = s /\ q.by = r.by /\ q.decision = r.decision
            /\ q.version = r.version /\ q.group = r.group /\ q.left = r.left
BY DEF OpRows, OpStatuses

LEMMA OpsToYields ==
  ASSUME TablesTyped, NEW S, NEW s \in OpStatuses
  PROVE  /\ Steady(OpsTo(S, s))
         /\ \A o \in Ops : OpsTo(S, s)[o].status = IF o \in S THEN s ELSE op[o].status
<1>1. \A o \in Ops : op[o] \in OpRows
  BY DEF TablesTyped
<1>2. \A o \in Ops : OpsTo(S, s)[o] = IF o \in S THEN [op[o] EXCEPT !.status = s] ELSE op[o]
  BY DEF OpsTo
<1>3. \A o \in Ops :
        /\ OpsTo(S, s)[o] \in OpRows
        /\ OpsTo(S, s)[o].status = IF o \in S THEN s ELSE op[o].status
        /\ OpsTo(S, s)[o].by = op[o].by /\ OpsTo(S, s)[o].decision = op[o].decision
        /\ OpsTo(S, s)[o].version = op[o].version /\ OpsTo(S, s)[o].group = op[o].group
  <2> TAKE o \in Ops
  <2>1. CASE o \in S
    <3> DEFINE q == [op[o] EXCEPT !.status = s]
    <3>1. OpsTo(S, s)[o] = q
      BY <1>2, <2>1
    <3>2. /\ q \in OpRows /\ q.status = s /\ q.by = op[o].by /\ q.decision = op[o].decision
          /\ q.version = op[o].version /\ q.group = op[o].group
      BY <1>1, RowTo
    <3> HIDE DEF q
    <3> QED
      BY <2>1, <3>1, <3>2
  <2>2. CASE o \notin S
    BY <1>1, <1>2, <2>2
  <2> QED
    BY <2>1, <2>2
<1>4. OpsTo(S, s) \in [Ops -> OpRows]
  <2>1. OpsTo(S, s) = [o \in Ops |-> OpsTo(S, s)[o]]
    BY DEF OpsTo
  <2> QED
    BY <1>3, <2>1
<1> QED
  BY <1>3, <1>4 DEF Steady

\* A table in which every status is given by f.
LEMMA StatusesYield ==
  ASSUME TablesTyped, NEW f \in [Ops -> OpStatuses], NEW p,
         p = [o \in Ops |-> [op[o] EXCEPT !.status = f[o]]]
  PROVE  Steady(p) /\ \A o \in Ops : p[o].status = f[o]
<1>1. \A o \in Ops : op[o] \in OpRows /\ f[o] \in OpStatuses
  BY DEF TablesTyped
<1>2. \A o \in Ops : p[o] = [op[o] EXCEPT !.status = f[o]]
  OBVIOUS
<1>3. \A o \in Ops :
        /\ p[o] \in OpRows /\ p[o].status = f[o] /\ p[o].by = op[o].by /\ p[o].decision = op[o].decision
        /\ p[o].version = op[o].version /\ p[o].group = op[o].group
  <2> TAKE o \in Ops
  <2> DEFINE q == [op[o] EXCEPT !.status = f[o]]
  <2>1. p[o] = q
    BY <1>2
  <2>2. /\ q \in OpRows /\ q.status = f[o] /\ q.by = op[o].by /\ q.decision = op[o].decision
        /\ q.version = op[o].version /\ q.group = op[o].group
    BY <1>1, RowTo
  <2> HIDE DEF q
  <2> QED
    BY <2>1, <2>2
<1>4. p \in [Ops -> OpRows]
  <2>1. p = [o \in Ops |-> p[o]]
    OBVIOUS
  <2> QED
    BY <1>3, <2>1
<1> QED
  BY <1>3, <1>4 DEF Steady

GrantStatuses == {"none", "issued", "delivered", "consumed", "expired", "revoked"}

\* h is the grants table with other statuses.
GrantsSteady(h) ==
  /\ h \in [Ops -> GrantRows]
  /\ \A o \in Ops : /\ h[o].left = grant[o].left /\ h[o].used = grant[o].used
                    /\ h[o].status = grant[o].status => h[o] = grant[o]

LEMMA GrantTo ==
  ASSUME NEW r \in GrantRows, NEW s \in GrantStatuses
  PROVE  LET q == [r EXCEPT !.status = s]
         IN /\ q \in GrantRows /\ q.status = s /\ q.left = r.left /\ q.used = r.used
            /\ (s = r.status => q = r)
BY DEF GrantRows, GrantStatuses

LEMMA GrantsToYields ==
  ASSUME TablesTyped, NEW S, NEW s \in GrantStatuses
  PROVE  /\ GrantsSteady(GrantsTo(S, s))
         /\ \A o \in Ops : GrantsTo(S, s)[o].status = IF o \in S THEN s ELSE grant[o].status
<1>1. \A o \in Ops : grant[o] \in GrantRows
  BY DEF TablesTyped
<1>2. \A o \in Ops : GrantsTo(S, s)[o] = IF o \in S THEN [grant[o] EXCEPT !.status = s] ELSE grant[o]
  BY DEF GrantsTo
<1>3. \A o \in Ops :
        /\ GrantsTo(S, s)[o] \in GrantRows
        /\ GrantsTo(S, s)[o].status = IF o \in S THEN s ELSE grant[o].status
        /\ GrantsTo(S, s)[o].left = grant[o].left /\ GrantsTo(S, s)[o].used = grant[o].used
        /\ GrantsTo(S, s)[o].status = grant[o].status => GrantsTo(S, s)[o] = grant[o]
  <2> TAKE o \in Ops
  <2>1. CASE o \in S
    <3> DEFINE q == [grant[o] EXCEPT !.status = s]
    <3>1. GrantsTo(S, s)[o] = q
      BY <1>2, <2>1
    <3>2. /\ q \in GrantRows /\ q.status = s /\ q.left = grant[o].left /\ q.used = grant[o].used
          /\ (s = grant[o].status => q = grant[o])
      BY <1>1, GrantTo
    <3> HIDE DEF q
    <3> QED
      BY <2>1, <3>1, <3>2
  <2>2. CASE o \notin S
    BY <1>1, <1>2, <2>2
  <2> QED
    BY <2>1, <2>2
<1>4. GrantsTo(S, s) \in [Ops -> GrantRows]
  <2>1. GrantsTo(S, s) = [o \in Ops |-> GrantsTo(S, s)[o]]
    BY DEF GrantsTo
  <2> QED
    BY <1>3, <2>1
<1> QED
  BY <1>3, <1>4 DEF GrantsSteady

\* a is the groups table with groups that ended or lost members.
GroupsSteady(a) ==
  /\ a \in [Ops -> GroupRows]
  /\ \A g \in Ops : /\ a[g].approvers = group[g].approvers
                    /\ a[g].members \subseteq group[g].members
                    /\ a[g].status = "absent" <=> group[g].status = "absent"
                    /\ a[g].status = "pending" => group[g].status = "pending"

LEMMA GroupsExpiredYields ==
  ASSUME TablesTyped, NEW G, \A g \in Ops : g \in G => group[g].status = "pending"
  PROVE  /\ GroupsSteady(GroupsExpired(G))
         /\ \A g \in Ops : /\ GroupsExpired(G)[g].status = IF g \in G THEN "expired" ELSE group[g].status
                           /\ GroupsExpired(G)[g].members = group[g].members
<1> DEFINE a == GroupsExpired(G)
<1>1. \A g \in Ops : group[g] \in GroupRows /\ group[g].version \in Nat
  BY DEF TablesTyped, GroupRows
<1>2. \A g \in Ops : a[g] = IF g \in G THEN [group[g] EXCEPT !.status = "expired", !.version = group[g].version + 1]
                                       ELSE group[g]
  BY DEF GroupsExpired
<1>3. a = [g \in Ops |-> a[g]]
  BY DEF GroupsExpired
<1> HIDE DEF a
<1>4. \A g \in Ops :
        /\ a[g] \in GroupRows /\ a[g].approvers = group[g].approvers /\ a[g].members = group[g].members
        /\ a[g].status = IF g \in G THEN "expired" ELSE group[g].status
  <2> TAKE g \in Ops
  <2>1. CASE g \in G
    <3> DEFINE r == [group[g] EXCEPT !.status = "expired"]
    <3>1. a[g] = [r EXCEPT !.version = group[g].version + 1]
      BY <1>2, <2>1
    <3>2. r \in GroupRows /\ r.approvers = group[g].approvers /\ r.members = group[g].members /\ r.status = "expired"
      BY <1>1 DEF GroupRows
    <3>3. group[g].version + 1 \in Nat
      BY <1>1
    <3> HIDE DEF r
    <3> QED
      BY <2>1, <3>1, <3>2, <3>3 DEF GroupRows
  <2>2. CASE g \notin G
    BY <1>1, <1>2, <2>2
  <2> QED
    BY <2>1, <2>2
<1>5. a \in [Ops -> GroupRows]
  BY <1>3, <1>4
<1> QED
  BY <1>4, <1>5 DEF GroupsSteady, a

\* a is the groups table once o has left the group g.
WithoutMember(a, g, o) ==
  /\ GroupsSteady(a)
  /\ \A h \in Ops : /\ a[h].members = IF h = g THEN group[g].members \ {o} ELSE group[h].members
                    /\ a[h].status = IF h = g /\ group[g].members \ {o} = {} THEN "expired"
                                     ELSE group[h].status

LEMMA LeftYields ==
  ASSUME TablesTyped, NEW g \in Ops, group[g].status = "pending", NEW o
  PROVE  WithoutMember(Left(g, o), g, o)
<1> DEFINE a == Left(g, o)
<1> DEFINE rest == group[g].members \ {o}
<1> DEFINE s == IF rest = {} THEN "expired" ELSE group[g].status
<1>1. \A h \in Ops : group[h] \in GroupRows
  BY DEF TablesTyped
<1>2. a = [group EXCEPT ![g].members = rest, ![g].version = group[g].version + 1, ![g].status = s]
  BY OperationsAssumption DEF Left
<1>3. rest \in SUBSET Ops /\ s \in {"pending", "expired"} /\ group[g].version + 1 \in Nat
  BY <1>1 DEF GroupRows
<1> HIDE DEF rest, s
<1>4. \A h \in Ops : a[h] = IF h = g THEN [group[g] EXCEPT !.members = rest, !.version = group[g].version + 1, !.status = s]
                             ELSE group[h]
  BY <1>2 DEF TablesTyped
<1>5. a = [h \in Ops |-> a[h]]
  BY <1>2 DEF TablesTyped
<1> HIDE DEF a
<1>6. /\ a[g] \in GroupRows /\ a[g].approvers = group[g].approvers /\ a[g].members = rest /\ a[g].status = s
  <2> DEFINE r == [group[g] EXCEPT !.members = rest]
  <2> DEFINE q == [r EXCEPT !.version = group[g].version + 1]
  <2>1. r \in GroupRows /\ r.approvers = group[g].approvers /\ r.members = rest
    BY <1>1, <1>3 DEF GroupRows
  <2>2. a[g] = [q EXCEPT !.status = s]
    BY <1>4
  <2> HIDE DEF r
  <2>3. q \in GroupRows /\ q.approvers = group[g].approvers /\ q.members = rest
    BY <1>3, <2>1 DEF GroupRows
  <2> HIDE DEF q
  <2> QED
    BY <1>3, <2>2, <2>3 DEF GroupRows
<1>7. \A h \in Ops : h # g => a[h] = group[h]
  BY <1>4
<1>8. a \in [Ops -> GroupRows]
  BY <1>1, <1>5, <1>6, <1>7
<1>9. \A h \in Ops : /\ a[h].members = IF h = g THEN rest ELSE group[h].members
                     /\ a[h].status = IF h = g /\ rest = {} THEN "expired" ELSE group[h].status
                     /\ a[h].approvers = group[h].approvers
  BY <1>6, <1>7 DEF s
<1>10. GroupsSteady(a)
  BY <1>8, <1>9 DEF GroupsSteady, rest
<1> QED
  BY <1>9, <1>10 DEF rest, a, WithoutMember

-----------------------------------------------------------------------------
(* Steps of the controller that issue nothing.                             *)

LEMMA MembersKeep ==
  ASSUME IInv, Steady(op'), GroupsSteady(group'), UNCHANGED fleet,
         \A o \in Ops : op'[o].status = "awaiting" =>
           /\ op[o].status = "awaiting"
           /\ group'[op[o].group].status = "pending" /\ o \in group'[op[o].group].members,
         \A g \in Ops : group'[g].status = "pending" =>
           \A x \in group'[g].members : op'[x].status \in {"awaiting", "denied"}
  PROVE  MembersAgree'
<1>1. MembersAgree /\ GroupsSound /\ TablesTyped
  BY DEF IInv, Typed
<1>2. ASSUME NEW o \in Ops, op'[o].status = "awaiting"
      PROVE  /\ op'[o].group \in Ops
             /\ group'[op'[o].group].status = "pending" /\ o \in group'[op'[o].group].members
  BY <1>1, <1>2 DEF MembersAgree, Steady
<1>3. ASSUME NEW g \in Ops, group'[g].status = "pending"
      PROVE  /\ Cardinality(group'[g].members) <= fleet'.limit
             /\ \A x \in group'[g].members : op'[x].group = g /\ op'[x].status \in {"awaiting", "denied"}
  <2>1. group[g].status = "pending" /\ group'[g].members \subseteq group[g].members
    BY <1>3 DEF GroupsSteady
  <2>2. /\ Cardinality(group[g].members) <= fleet.limit /\ IsFiniteSet(group[g].members)
        /\ group[g].members \subseteq Ops /\ \A x \in group[g].members : op[x].group = g
    BY <1>1, <2>1 DEF MembersAgree, GroupsSound, TablesTyped, GroupRows
  <2>3. /\ Cardinality(group'[g].members) <= Cardinality(group[g].members)
        /\ IsFiniteSet(group'[g].members)
    BY <2>1, <2>2, FS_Subset
  <2>4. /\ Cardinality(group'[g].members) \in Nat /\ Cardinality(group[g].members) \in Nat
        /\ fleet.limit \in Nat
    BY <2>2, <2>3, FS_CardinalityType, FleetTyped DEF IInv, Typed
  <2>5. Cardinality(group'[g].members) <= fleet'.limit
    BY <2>2, <2>3, <2>4
  <2> QED
    BY <1>3, <2>1, <2>2, <2>5 DEF Steady
<1> QED
  BY <1>2, <1>3 DEF MembersAgree

\* How the rows of one operation may move when nothing is issued or approved.
Moved(o) ==
  /\ \/ op'[o].status = op[o].status
     \/ op'[o].status \in {"denied", "cancelled"}
     \/ /\ op[o].status \notin {"absent", "awaiting", "denied", "cancelled"}
        /\ op'[o].status \notin {"absent", "awaiting"}
  /\ op[o].status \in Ungrantable <=> op'[o].status \in Ungrantable
  /\ grant'[o].status = "none" <=> grant[o].status = "none"
  /\ grant'[o].left = grant[o].left
  /\ grant'[o].status = "issued" => grant[o].status = "issued"
  /\ revDoc'[o] # "none" => revDoc[o] # "none" \/ grant[o].status # "none"
  /\ node'.status = "active" /\ op'[o].status = "failed" =>
       op[o].status = "failed" \/ (grant[o].status = "issued" /\ grant[o].left = 0)

LEMMA TablesStep ==
  ASSUME IInv, Steady(op'), GroupsSteady(group'), grant' \in [Ops -> GrantRows],
         UNCHANGED <<grantDoc, brokerVars, history, fleet>>, AuthorityTyped', conn' \in [Conns -> Calls],
         node'.status = "active" => node.status = "active",
         revDoc' \in [Ops -> DocumentStates],
         \A o \in Ops : Moved(o),
         GrantsAgree', MembersAgree'
  PROVE  IInv'
<1>1. Typed /\ GroupsSound /\ DecisionsSound /\ GrantsSound /\ FailuresSound
  BY DEF IInv
<1>2. Typed'
  BY <1>1 DEF Typed, TablesTyped, ChannelTyped, HistoryTyped, Steady, GroupsSteady, brokerVars, history
<1>3. GroupsSound'
  <2>1. \A o \in Ops : IsFiniteSet(group'[o].members)
    BY <1>1, FS_Subset DEF GroupsSound, GroupsSteady
  <2>2. \A o \in Ops : op'[o].status = "absent" => group'[o].status = "absent"
    BY <1>1 DEF GroupsSound, GroupsSteady, Moved
  <2>3. \A o \in Ops : op'[o].group \in Ops => group'[op'[o].group].status # "absent"
    BY <1>1 DEF GroupsSound, GroupsSteady, Steady
  <2> QED
    BY <2>1, <2>2, <2>3 DEF GroupsSound
<1>4. DecisionsSound'
  <2>1. \A o \in Ops : Consented(o) => Consented(o)'
    BY DEF Consented, Steady, GroupsSteady, history
  <2> QED
    BY <1>1, <2>1 DEF DecisionsSound, Moved, Steady
<1>5. GrantsSound'
  BY <1>1 DEF GrantsSound, Moved, Steady, Ungrantable, brokerVars, history
<1>6. FailuresSound'
  BY <1>1 DEF FailuresSound, GrantsSound, Moved, brokerVars
<1> QED
  BY <1>2, <1>3, <1>4, <1>5, <1>6 DEF IInv

\* The tables stay as they are.
LEMMA TablesStill ==
  ASSUME IInv, UNCHANGED <<tables, grantDoc, brokerVars, history, fleet>>,
         AuthorityTyped', conn' \in [Conns -> Calls], node'.status = "active" => node.status = "active",
         revDoc' \in [Ops -> DocumentStates],
         \A o \in Ops : revDoc'[o] # "none" => revDoc[o] # "none"
  PROVE  IInv'
<1>1. Typed /\ GrantsAgree /\ MembersAgree
  BY DEF IInv
<1>2. Steady(op') /\ GroupsSteady(group') /\ grant' \in [Ops -> GrantRows]
  BY <1>1 DEF Typed, TablesTyped, Steady, GroupsSteady, tables
<1>3. \A o \in Ops : Moved(o)
  BY DEF Moved, tables
<1>4. GrantsAgree' /\ MembersAgree'
  BY <1>1 DEF GrantsAgree, MembersAgree, tables
<1> QED
  BY <1>2, <1>3, <1>4, TablesStep

LEMMA ReadsKeep == ASSUME IInv, NEW c \in fleet.conns, Reads(c) PROVE IInv'
<1>1. Typed
  BY DEF IInv
<1>2. /\ UNCHANGED <<tables, documents, withdrawn, authority, brokerVars, history, fleet>>
      /\ conn' \in [Conns -> Calls]
  BY <1>1, ReadsTyped
<1> QED
  BY <1>1, <1>2, TablesStill DEF Typed, ChannelTyped, AuthorityTyped, documents, authority

LEMMA ExpiryYields ==
  ASSUME IInv, NEW o \in Ops
  PROVE  /\ AfterExpiry(o) \in OpStatuses
         /\ o \in Overdue => op[o].status \in {"requested", "awaiting"} /\ AfterExpiry(o) = "denied"
         /\ o \notin Overdue => \/ AfterExpiry(o) = op[o].status
                                \/ /\ op[o].status = "granted" /\ o \in Expired(Outstanding)
                                   /\ AfterExpiry(o) = IF grant[o].status = "issued" THEN "failed" ELSE "uncertain"
                                \/ op[o].status = "executing" /\ AfterExpiry(o) = "uncertain"
         /\ o \in Expired(Outstanding) /\ op[o].status = "granted" =>
              AfterExpiry(o) = IF grant[o].status = "issued" THEN "failed" ELSE "uncertain"
<1>1. op[o].status \in OpStatuses
  BY DEF IInv, Typed, TablesTyped, OpRows, OpStatuses
<1>2. o \in Overdue => op[o].status \in {"requested", "awaiting"}
  BY DEF Overdue, Awaiting, Ungranted
<1> QED
  BY <1>1, <1>2 DEF AfterExpiry, OpStatuses

LEMMA ExpiryKeeps == ASSUME IInv, ExpireFleetState, conn' \in [Conns -> Calls] PROVE IInv'
<1>1. Typed /\ TablesTyped /\ ChannelTyped /\ AuthorityTyped /\ GrantsAgree /\ MembersAgree /\ GrantsSound
  BY DEF IInv, Typed
<1>2. /\ op' = [o \in Ops |-> [op[o] EXCEPT !.status = AfterExpiry(o)]]
      /\ group' = GroupsExpired(ExpiredGroups)
      /\ grant' = GrantsTo(Expired(Outstanding), "expired")
      /\ revDoc' = [o \in Ops |-> IF revDoc[o] = "unsigned" /\ node.status = "active" THEN "queued" ELSE revDoc[o]]
      /\ UNCHANGED <<grantDoc, withdrawn, authority, brokerVars, history, fleet>>
  BY DEF ExpireFleetState, SignPendingTombstones
<1>3. Steady(op') /\ \A o \in Ops : op'[o].status = AfterExpiry(o)
  <2> DEFINE f == [o \in Ops |-> AfterExpiry(o)]
  <2>1. f \in [Ops -> OpStatuses] /\ \A o \in Ops : f[o] = AfterExpiry(o)
    BY ExpiryYields
  <2>2. op' = [o \in Ops |-> [op[o] EXCEPT !.status = f[o]]]
    BY <1>2
  <2> HIDE DEF f
  <2>3. Steady(op') /\ \A o \in Ops : op'[o].status = f[o]
    BY <1>1, <2>1, <2>2, StatusesYield
  <2> QED
    BY <2>1, <2>3
<1>4. /\ GrantsSteady(grant')
      /\ \A o \in Ops : grant'[o].status = IF o \in Expired(Outstanding) THEN "expired" ELSE grant[o].status
  BY <1>1, <1>2, GrantsToYields DEF GrantStatuses
<1>5. /\ GroupsSteady(group')
      /\ \A g \in Ops : /\ group'[g].status = IF g \in ExpiredGroups THEN "expired" ELSE group[g].status
                        /\ group'[g].members = group[g].members
  BY <1>1, <1>2, GroupsExpiredYields DEF ExpiredGroups
<1>6. revDoc' \in [Ops -> DocumentStates] /\ \A o \in Ops : revDoc'[o] # "none" => revDoc[o] # "none"
  BY <1>1, <1>2 DEF ChannelTyped, DocumentStates
<1>7. \A o \in Ops : o \in Expired(Outstanding) => grant[o].status \in {"issued", "delivered"} /\ grant[o].left = 0
  BY DEF Expired, Outstanding
<1>8. GrantsAgree'
  <2> SUFFICES ASSUME NEW o \in Ops
               PROVE  /\ op'[o].status \in {"absent", "requested", "awaiting", "denied", "cancelled"} =>
                           grant'[o] = NoGrant
                      /\ op'[o].status = "granted" => grant'[o].status \in {"issued", "delivered", "expired"}
                      /\ op'[o].status = "executing" =>
                           grant'[o].status \in {"consumed", "expired"} /\ grant'[o].used
                      /\ op'[o].status = "completed" => grant'[o].used
                      /\ op'[o].status = "revoked" => grant'[o].status = "revoked"
                      /\ grant'[o].status \in {"issued", "delivered"} => op'[o].status = "granted"
    BY DEF GrantsAgree
  <2>1. grant[o].status \in {"issued", "delivered"} => op[o].status = "granted"
    BY <1>1 DEF GrantsAgree
  <2>2. o \notin Expired(Outstanding) => grant'[o] = grant[o]
    BY <1>4 DEF GrantsSteady
  <2>3. grant'[o].used = grant[o].used
    BY <1>4 DEF GrantsSteady
  <2> QED
    BY <1>1, <1>3, <1>4, <1>7, <2>1, <2>2, <2>3, ExpiryYields DEF GrantsAgree
<1>9. \A o \in Ops : Moved(o)
  <2> TAKE o \in Ops
  <2>1. grant'[o].left = grant[o].left
    BY <1>4 DEF GrantsSteady
  <2>2. grant[o].status \in {"issued", "delivered"} => op[o].status = "granted"
    BY <1>1 DEF GrantsAgree
  <2>3. \/ op'[o].status = op[o].status
        \/ op'[o].status = "denied" /\ op[o].status \in {"requested", "awaiting"}
        \/ op[o].status \in {"granted", "executing"} /\ op'[o].status \in {"failed", "uncertain"}
    BY <1>3, ExpiryYields
  <2>4. op'[o].status = "failed" => op[o].status = "failed" \/ (grant[o].status = "issued" /\ grant[o].left = 0)
    BY <1>3, <1>7, ExpiryYields
  <2> QED
    BY <1>4, <1>6, <1>7, <2>1, <2>3, <2>4 DEF Moved, Ungrantable
<1>10. MembersAgree'
  <2>1. ASSUME NEW o \in Ops, op'[o].status = "awaiting"
        PROVE  /\ op[o].status = "awaiting"
               /\ group'[op[o].group].status = "pending" /\ o \in group'[op[o].group].members
    <3>1. op[o].status = "awaiting" /\ o \notin Overdue
      BY <1>3, <2>1, ExpiryYields
    <3>2. op[o].group \in Ops /\ group[op[o].group].status = "pending" /\ o \in group[op[o].group].members
      BY <1>1, <3>1 DEF MembersAgree
    <3>3. op[o].group \notin ExpiredGroups
      BY <3>1 DEF Overdue, Awaiting
    <3> QED
      BY <1>5, <3>1, <3>2, <3>3
  <2>2. ASSUME NEW g \in Ops, group'[g].status = "pending", NEW x \in group'[g].members
        PROVE  op'[x].status \in {"awaiting", "denied"}
    <3>1. x \in Ops /\ x \in group[g].members /\ group[g].status = "pending"
      BY <1>1, <1>5, <2>2 DEF TablesTyped, GroupRows
    <3>2. op[x].status \in {"awaiting", "denied"}
      BY <1>1, <3>1 DEF MembersAgree
    <3> QED
      BY <1>3, <3>1, <3>2, ExpiryYields
  <2> QED
    BY <1>2, <1>3, <1>5, <2>1, <2>2, MembersKeep
<1> QED
  BY <1>1, <1>2, <1>3, <1>4, <1>5, <1>6, <1>8, <1>9, <1>10, TablesStep DEF AuthorityTyped, authority, GrantsSteady

\* A member leaves its pending group.
LEMMA LeaveKeeps ==
  ASSUME IInv, NEW o \in Ops, op[o].status = "awaiting",
         op' = OpsTo({o}, "cancelled"), group' = Left(op[o].group, o),
         UNCHANGED <<grant, grantDoc, revDoc, authority, conn, brokerVars, history, fleet>>
  PROVE  IInv'
<1>1. Typed /\ TablesTyped /\ ChannelTyped /\ AuthorityTyped /\ GrantsAgree /\ MembersAgree
  BY DEF IInv, Typed
<1>2. /\ op[o].status = "awaiting" /\ op' = OpsTo({o}, "cancelled") /\ group' = Left(op[o].group, o)
      /\ UNCHANGED <<grant, grantDoc, revDoc, authority, conn, brokerVars, history, fleet>>
  OBVIOUS
<1> DEFINE g == op[o].group
<1>3. g \in Ops /\ group[g].status = "pending" /\ o \in group[g].members
  BY <1>1, <1>2 DEF MembersAgree
<1>4. Steady(op') /\ \A x \in Ops : op'[x].status = IF x \in {o} THEN "cancelled" ELSE op[x].status
  BY <1>1, <1>2, OpsToYields DEF OpStatuses
<1>5. /\ GroupsSteady(group')
      /\ \A h \in Ops : /\ group'[h].members = IF h = g THEN group[g].members \ {o} ELSE group[h].members
                        /\ group'[h].status = IF h = g /\ group[g].members \ {o} = {} THEN "expired"
                                              ELSE group[h].status
  <2>1. group' = Left(g, o) /\ TablesTyped /\ g \in Ops /\ group[g].status = "pending"
    BY <1>1, <1>2, <1>3
  <2> HIDE DEF g
  <2> QED
    <3>1. WithoutMember(group', g, o)
      BY <2>1, LeftYields
    <3> QED
      BY <3>1 DEF WithoutMember
<1> HIDE DEF g
<1>6. GrantsAgree'
  <2> SUFFICES ASSUME NEW x \in Ops PROVE AgreesThen(x)
    BY AgreeingThen
  <2>1. grant'[x] = grant[x]
    BY <1>2
  <2>2. CASE x = o
    <3>1. grant[o] = NoGrant /\ NoGrant.status = "none" /\ op'[o].status = "cancelled"
      BY <1>1, <1>2, <1>4 DEF GrantsAgree, NoGrant
    <3> QED
      BY <2>1, <2>2, <3>1 DEF AgreesThen
  <2>3. CASE x # o
    <3>1. op'[x].status = op[x].status
      BY <1>4, <2>3
    <3> QED
      BY <1>1, <2>1, <3>1, SMTT(30) DEF GrantsAgree, AgreesThen
  <2> QED
    BY <2>2, <2>3
<1>7. \A x \in Ops : Moved(x)
  BY <1>2, <1>4 DEF Moved, Ungrantable
<1>8. MembersAgree'
  <2>1. ASSUME NEW x \in Ops, op'[x].status = "awaiting"
        PROVE  /\ op[x].status = "awaiting"
               /\ group'[op[x].group].status = "pending" /\ x \in group'[op[x].group].members
    <3>1. op[x].status = "awaiting" /\ x # o
      BY <1>4, <2>1
    <3>2. op[x].group \in Ops /\ group[op[x].group].status = "pending" /\ x \in group[op[x].group].members
      BY <1>1, <3>1 DEF MembersAgree
    <3> QED
      BY <1>5, <3>1, <3>2
  <2>2. ASSUME NEW h \in Ops, group'[h].status = "pending", NEW x \in group'[h].members
        PROVE  op'[x].status \in {"awaiting", "denied"}
    <3>1. x \in Ops /\ x \in group[h].members /\ group[h].status = "pending"
      BY <1>1, <1>5, <2>2 DEF TablesTyped, GroupRows, GroupsSteady
    <3>2. op[x].status \in {"awaiting", "denied"} /\ op[x].group = h
      BY <1>1, <3>1 DEF MembersAgree
    <3>3. x # o
      BY <1>5, <2>2, <3>2 DEF g
    <3> QED
      BY <1>4, <3>1, <3>2, <3>3
  <2> QED
    BY <1>2, <1>4, <1>5, <2>1, <2>2, MembersKeep
<1> QED
  BY <1>1, <1>2, <1>4, <1>5, <1>6, <1>7, <1>8, TablesStep DEF Typed, TablesTyped, ChannelTyped, AuthorityTyped, authority

LEMMA RevocationsYield ==
  ASSUME Typed, NEW S
  PROVE  /\ RevocationsQueued(S) \in [Ops -> DocumentStates]
         /\ \A o \in Ops : RevocationsQueued(S)[o] # "none" => revDoc[o] # "none" \/ o \in S
BY DEF RevocationsQueued, Typed, ChannelTyped, DocumentStates

LEMMA CancelKeeps == ASSUME IInv, NEW o \in Ops, CancelAwaiting(o) PROVE IInv'
<1>1. /\ op[o].status = "awaiting" /\ op' = OpsTo({o}, "cancelled") /\ group' = Left(op[o].group, o)
      /\ UNCHANGED <<grant, grantDoc, revDoc, authority, conn, brokerVars, history, fleet>>
  BY DEF CancelAwaiting
<1> QED
  BY <1>1, LeaveKeeps

\* One operation ends outside its group.
LEMMA EndKeeps ==
  ASSUME IInv, NEW o \in Ops, NEW s \in {"cancelled", "revoked", "completed", "failed"},
         NEW R \in SUBSET {o}, \A x \in R : grant[x].status # "none",
         op' = OpsTo({o}, s), grant' = GrantsTo(R, "revoked"), revDoc' = RevocationsQueued(R),
         s = "cancelled" => op[o].status = "requested",
         s \in {"completed", "failed"} => op[o].status = s,
         s = "revoked" => /\ op[o].status \in {"granted", "executing", "uncertain", "revoked"}
                          /\ R = {o} \/ grant[o].status = "revoked",
         UNCHANGED <<group, grantDoc, authority, conn, brokerVars, history, fleet>>
  PROVE  IInv'
<1>1. Typed /\ TablesTyped /\ ChannelTyped /\ AuthorityTyped /\ GrantsAgree /\ MembersAgree /\ GrantsSound
  BY DEF IInv, Typed
<1>2. /\ op[o].status \in {"requested", "granted", "executing", "uncertain", "revoked", "completed", "failed"}
      /\ s \in OpStatuses
      /\ \A x \in R : x = o
  BY DEF OpStatuses
<1>3. Steady(op') /\ \A x \in Ops : op'[x].status = IF x \in {o} THEN s ELSE op[x].status
  BY <1>1, <1>2, OpsToYields
<1>4. /\ GrantsSteady(grant')
      /\ \A x \in Ops : grant'[x].status = IF x \in R THEN "revoked" ELSE grant[x].status
  BY <1>1, GrantsToYields DEF GrantStatuses
<1>5. GroupsSteady(group')
  BY <1>1 DEF GroupsSteady, TablesTyped
<1>6. revDoc' \in [Ops -> DocumentStates] /\ \A x \in Ops : revDoc'[x] # "none" => revDoc[x] # "none" \/ x \in R
  BY <1>1, RevocationsYield
<1>7. GrantsAgree'
  <2> SUFFICES ASSUME NEW x \in Ops PROVE AgreesThen(x)
    BY AgreeingThen
  <2>1. grant'[x].used = grant[x].used /\ (x \notin R => grant'[x] = grant[x])
    BY <1>4 DEF GrantsSteady
  <2>2. CASE x # o
    <3>1. op'[x].status = op[x].status /\ grant'[x] = grant[x]
      BY <1>2, <1>3, <2>1, <2>2
    <3> QED
      BY <1>1, <3>1, SMTT(30) DEF GrantsAgree, AgreesThen
  <2>3. CASE x = o /\ s = "cancelled"
    <3>1. grant[o] = NoGrant /\ NoGrant.status = "none" /\ op'[o].status = "cancelled"
      BY <1>1, <1>3, <2>3 DEF GrantsAgree, NoGrant
    <3>2. o \notin R
      BY <3>1
    <3> QED
      BY <2>1, <2>3, <3>1, <3>2 DEF AgreesThen
  <2>4. CASE x = o /\ s = "revoked"
    <3>1. op'[o].status = "revoked" /\ grant'[o].status = "revoked"
      BY <1>3, <1>4, <2>4
    <3> QED
      BY <2>4, <3>1 DEF AgreesThen
  <2>5. CASE x = o /\ s \in {"completed", "failed"}
    <3>1. op'[o].status = op[o].status /\ op[o].status \in {"completed", "failed"}
      BY <1>3, <2>5
    <3>2. /\ grant[o].status \notin {"issued", "delivered"}
          /\ op[o].status = "completed" => grant[o].used
      BY <1>1, <3>1 DEF GrantsAgree
    <3> QED
      BY <1>4, <2>1, <2>5, <3>1, <3>2 DEF AgreesThen
  <2> QED
    BY <2>2, <2>3, <2>4, <2>5
<1>8. \A x \in Ops : Moved(x)
  <2> TAKE x \in Ops
  <2>1. grant'[x].left = grant[x].left
    BY <1>4 DEF GrantsSteady
  <2>2. CASE x \notin R
    BY <1>2, <1>3, <1>4, <1>6, <2>1, <2>2 DEF Moved, Ungrantable
  <2>3. CASE x \in R
    BY <1>1, <1>2, <1>3, <1>4, <2>1, <2>3 DEF Moved, Ungrantable, GrantsSound
  <2> QED
    BY <2>2, <2>3
<1>9. MembersAgree'
  <2>1. ASSUME NEW g \in Ops, group'[g].status = "pending", NEW x \in group'[g].members
        PROVE  op'[x].status \in {"awaiting", "denied"}
    <3>1. x \in Ops /\ op[x].status \in {"awaiting", "denied"}
      BY <1>1, <2>1 DEF MembersAgree, TablesTyped, GroupRows
    <3> QED
      BY <1>2, <1>3, <3>1
  <2>2. ASSUME NEW x \in Ops, op'[x].status = "awaiting"
        PROVE  /\ op[x].status = "awaiting"
               /\ group'[op[x].group].status = "pending" /\ x \in group'[op[x].group].members
    <3>1. op[x].status = "awaiting"
      BY <1>2, <1>3, <2>2
    <3> QED
      BY <1>1, <3>1 DEF MembersAgree
  <2> QED
    BY <1>3, <1>5, <2>1, <2>2, MembersKeep
<1> QED
  BY <1>1, <1>3, <1>4, <1>5, <1>6, <1>7, <1>8, <1>9, TablesStep
     DEF Typed, AuthorityTyped, authority, GrantsSteady

LEMMA RevokeKeeps == ASSUME IInv, NEW o \in Ops, RevokeGrant(o) PROVE IInv'
<1>1. /\ op[o].status \in {"granted", "executing"} /\ grant[o].status \in {"issued", "delivered"}
      /\ grant' = GrantsTo({o}, "revoked") /\ op' = OpsTo({o}, "revoked") /\ revDoc' = RevocationsQueued({o})
      /\ UNCHANGED <<group, grantDoc, authority, conn, brokerVars, history, fleet>>
  BY DEF RevokeGrant, Revocable, RevokeInStore, Live, Outstanding
<1> DEFINE R == {o}
<1>2. /\ R \in SUBSET {o} /\ R = {o} /\ \A x \in R : grant[x].status # "none"
      /\ grant' = GrantsTo(R, "revoked") /\ op' = OpsTo({o}, "revoked") /\ revDoc' = RevocationsQueued(R)
  BY <1>1
<1> HIDE DEF R
<1> QED
  BY <1>1, <1>2, EndKeeps

LEMMA WorkloadCancelKeeps == ASSUME IInv, NEW o \in Ops, WorkloadCancel(o) PROVE IInv'
<1>1. Typed /\ TablesTyped /\ ChannelTyped /\ AuthorityTyped /\ GrantsAgree /\ MembersAgree /\ GrantsSound
  BY DEF IInv, Typed
<1> DEFINE R == {o} \cap {x \in Ops : grant[x].status \notin {"none", "revoked"}}
<1>2. /\ op' = IF op[o].status \in {"requested", "awaiting"} THEN OpsTo({o}, "cancelled")
               ELSE IF op[o].status \in {"granted", "executing", "uncertain"}
               THEN OpsTo({o}, "revoked") ELSE op
      /\ group' = IF op[o].status = "awaiting" THEN Left(op[o].group, o) ELSE group
      /\ grant' = GrantsTo(R, "revoked") /\ revDoc' = RevocationsQueued(R)
      /\ UNCHANGED <<grantDoc, authority, conn, brokerVars, history, fleet>>
  BY DEF WorkloadCancel, CancelInStore
<1>3. /\ R \in SUBSET {o} /\ \A x \in R : x = o /\ grant[o].status \notin {"none", "revoked"}
      /\ R # {o} => R = {} /\ grant[o].status \in {"none", "revoked"}
  OBVIOUS
<1> HIDE DEF R
<1>4. R = {} => grant' = grant /\ revDoc' = revDoc
  BY <1>1, <1>2 DEF GrantsTo, RevocationsQueued, TablesTyped, ChannelTyped
<1>5. op[o].status \in Ungrantable <=> grant[o].status = "none"
  BY <1>1 DEF GrantsSound
<1>6. CASE op[o].status = "awaiting"
  BY <1>2, <1>3, <1>4, <1>5, <1>6, LeaveKeeps DEF Ungrantable
<1>7. CASE op[o].status = "requested"
  BY <1>2, <1>3, <1>7, EndKeeps
<1>8. CASE op[o].status \in {"granted", "executing", "uncertain"}
  BY <1>2, <1>3, <1>5, <1>8, EndKeeps DEF Ungrantable
<1>9. CASE op[o].status \in {"completed", "failed"}
  <2>1. op' = OpsTo({o}, op[o].status)
    BY <1>1, <1>2, <1>9 DEF OpsTo, TablesTyped, OpRows
  <2> QED
    BY <1>2, <1>3, <1>9, <2>1, EndKeeps
<1>10. CASE op[o].status \in {"absent", "denied", "cancelled", "revoked"}
  <2>1. grant[o].status \in {"none", "revoked"}
    BY <1>1, <1>5, <1>10 DEF GrantsAgree, Ungrantable
  <2>2. R = {}
    BY <1>3, <2>1
  <2>3. UNCHANGED <<tables, grantDoc, revDoc, authority, conn, brokerVars, history, fleet>>
    BY <1>2, <1>4, <1>10, <2>2 DEF tables
  <2> QED
    BY <1>1, <2>3, TablesStill DEF Typed, ChannelTyped, AuthorityTyped, authority
<1>11. op[o].status \in OpStatuses
  BY <1>1 DEF TablesTyped, OpRows, OpStatuses
<1> QED
  BY <1>6, <1>7, <1>8, <1>9, <1>10, <1>11 DEF OpStatuses

\* Authority is withdrawn from every operation at once: requests end, their groups expire,
\* and the grants that are out are revoked, or expired.
LEMMA EndingKeeps ==
  ASSUME IInv, Steady(op'), GroupsSteady(group'), GrantsSteady(grant'),
         UNCHANGED <<grantDoc, brokerVars, history, fleet>>, AuthorityTyped', conn' \in [Conns -> Calls],
         node'.status = "active" => node.status = "active",
         revDoc' \in [Ops -> DocumentStates],
         \A o \in Ops : revDoc'[o] # "none" => revDoc[o] # "none" \/ o \in Outstanding,
         \A g \in Ops : group'[g].status = "pending" => g \notin PendingGroups(Awaiting(Ops)),
         \A o \in Ops : o \in Ungranted => op'[o].status \in {"denied", "cancelled"},
         \A o \in Ops : o \notin Ungranted /\ o \notin Outstanding => op'[o].status = op[o].status,
         \A o \in Ops : o \in Outstanding =>
           \/ op'[o].status = "revoked" /\ grant'[o].status = "revoked"
           \/ op'[o].status = "granted" /\ grant'[o].status = "expired"
           \/ op'[o].status = "failed" /\ grant'[o].status = "expired" /\ node'.status # "active",
         \A o \in Ops : o \notin Outstanding => grant'[o].status = grant[o].status
  PROVE  IInv'
<1>1. Typed /\ TablesTyped /\ GrantsAgree /\ MembersAgree /\ GrantsSound
  BY DEF IInv, Typed
<1>2. \A o \in Ops : /\ o \in Ungranted <=> op[o].status \in {"requested", "awaiting"}
                     /\ o \in Outstanding <=> grant[o].status \in {"issued", "delivered"}
                     /\ o \in Outstanding => op[o].status = "granted"
                     /\ o \in Ungranted => o \notin Outstanding
  BY <1>1 DEF Ungranted, Outstanding, GrantsAgree
<1>3. GrantsAgree'
  <2> SUFFICES ASSUME NEW o \in Ops PROVE AgreesThen(o)
    BY AgreeingThen
  <2>1. grant'[o].used = grant[o].used /\ (o \notin Outstanding => grant'[o] = grant[o])
    BY DEF GrantsSteady
  <2>2. CASE o \in Outstanding
    BY <2>2 DEF AgreesThen
  <2>3. CASE o \in Ungranted
    <3>1. grant[o] = NoGrant /\ NoGrant.status = "none"
      BY <1>1, <1>2, <2>3 DEF GrantsAgree, NoGrant
    <3> QED
      BY <1>2, <2>1, <2>3, <3>1 DEF AgreesThen
  <2>4. CASE o \notin Outstanding /\ o \notin Ungranted
    BY <1>1, <2>1, <2>4 DEF GrantsAgree, AgreesThen
  <2> QED
    BY <2>2, <2>3, <2>4
<1>4. \A o \in Ops : Moved(o)
  <2> TAKE o \in Ops
  <2>1. grant'[o].left = grant[o].left
    BY DEF GrantsSteady
  <2>2. CASE o \in Outstanding
    BY <1>2, <2>1, <2>2 DEF Moved, Ungrantable
  <2>3. CASE o \in Ungranted
    BY <1>2, <2>1, <2>3 DEF Moved, Ungrantable
  <2>4. CASE o \notin Outstanding /\ o \notin Ungranted
    BY <1>2, <2>1, <2>4 DEF Moved
  <2> QED
    BY <2>2, <2>3, <2>4
<1>5. MembersAgree'
  <2>1. \A o \in Ops : op'[o].status # "awaiting"
    BY <1>2
  <2>2. ASSUME NEW g \in Ops, group'[g].status = "pending", NEW x \in group'[g].members
        PROVE  op'[x].status \in {"awaiting", "denied"}
    <3>1. /\ group[g].status = "pending" /\ x \in group[g].members /\ x \in Ops
          /\ op[x].group = g /\ op[x].status \in {"awaiting", "denied"}
      BY <1>1, <2>2 DEF GroupsSteady, MembersAgree, TablesTyped, GroupRows
    <3>2. x \notin Awaiting(Ops)
      BY <2>2, <3>1 DEF PendingGroups
    <3>3. op[x].status = "denied"
      BY <3>1, <3>2 DEF Awaiting
    <3> QED
      BY <1>2, <3>1, <3>3
  <2> QED
    BY <2>1, <2>2, MembersKeep
<1> QED
  BY <1>3, <1>4, <1>5, TablesStep DEF GrantsSteady

LEMMA RetireKeeps ==
  ASSUME IInv, Retire, UNCHANGED <<grantDoc, brokerVars, history, fleet, conn, node>>, AuthorityTyped'
  PROVE  IInv'
<1>1. Typed /\ TablesTyped /\ ChannelTyped /\ GrantsAgree /\ conn' \in [Conns -> Calls]
  BY DEF IInv, Typed
<1>2. /\ grant' = GrantsTo(Outstanding, "revoked")
      /\ op' = [o \in Ops |-> IF o \in Running(Outstanding) THEN [op[o] EXCEPT !.status = "revoked"]
                              ELSE IF o \in Ungranted THEN [op[o] EXCEPT !.status = "cancelled"] ELSE op[o]]
      /\ group' = GroupsExpired(PendingGroups(Awaiting(Ops)))
      /\ revDoc' = RevocationsQueued(Outstanding)
  BY DEF Retire
<1>3. \A o \in Ops : /\ o \in Ungranted => o \notin Outstanding
                     /\ o \in Outstanding <=> o \in Running(Outstanding)
  BY <1>1 DEF Ungranted, Outstanding, GrantsAgree, Running
<1> DEFINE f == [o \in Ops |-> IF o \in Outstanding THEN "revoked" ELSE IF o \in Ungranted THEN "cancelled"
                               ELSE op[o].status]
<1>4. Steady(op') /\ \A o \in Ops : op'[o].status = f[o]
  <2>1. \A o \in Ops : op[o] \in OpRows /\ op[o].status \in OpStatuses /\ op[o] = [op[o] EXCEPT !.status = op[o].status]
    BY <1>1 DEF TablesTyped, OpRows, OpStatuses
  <2>2. f \in [Ops -> OpStatuses]
    BY <2>1 DEF OpStatuses
  <2>3. op' = [o \in Ops |-> [op[o] EXCEPT !.status = f[o]]]
    BY <1>2, <1>3, <2>1
  <2> HIDE DEF f
  <2> QED
    BY <1>1, <2>2, <2>3, StatusesYield
<1>5. \A o \in Ops : op'[o].status = IF o \in Outstanding THEN "revoked" ELSE IF o \in Ungranted THEN "cancelled"
                                      ELSE op[o].status
  BY <1>4
<1> HIDE DEF f
<1>6. /\ GrantsSteady(grant')
      /\ \A o \in Ops : grant'[o].status = IF o \in Outstanding THEN "revoked" ELSE grant[o].status
  BY <1>1, <1>2, GrantsToYields DEF GrantStatuses
<1>7. /\ GroupsSteady(group')
      /\ \A g \in Ops : group'[g].status = "pending" => g \notin PendingGroups(Awaiting(Ops))
  <2>1. \A g \in Ops : g \in PendingGroups(Awaiting(Ops)) => group[g].status = "pending"
    BY DEF PendingGroups
  <2> QED
    BY <1>1, <1>2, <2>1, GroupsExpiredYields
<1>8. /\ revDoc' \in [Ops -> DocumentStates]
      /\ \A o \in Ops : revDoc'[o] # "none" => revDoc[o] # "none" \/ o \in Outstanding
  BY <1>1, <1>2, RevocationsYield
<1> QED
  BY <1>1, <1>3, <1>4, <1>5, <1>6, <1>7, <1>8, EndingKeeps

LEMMA NodeCancelsYields ==
  ASSUME IInv, NEW next \in [Ops -> OpStatuses], NodeCancels(next),
         UNCHANGED <<grantDoc, brokerVars, history, fleet, conn>>, AuthorityTyped',
         node'.status = "active" => node.status = "active",
         \A o \in Ops : o \notin Outstanding => next[o] = op[o].status,
         \A o \in Ops : o \in Outstanding => next[o] = "granted" \/ (next[o] = "failed" /\ node'.status # "active")
  PROVE  IInv'
<1>1. Typed /\ TablesTyped /\ ChannelTyped /\ GrantsAgree /\ conn' \in [Conns -> Calls]
  BY DEF IInv, Typed
<1>2. /\ op' = [o \in Ops |-> [op[o] EXCEPT !.status = NodeEnds(o, next[o])]]
      /\ group' = GroupsExpired(PendingGroups(Awaiting(Ops)))
      /\ grant' = [o \in Ops |->
                     IF o \in Live(Outstanding) THEN [grant[o] EXCEPT !.status = "revoked"]
                     ELSE IF o \in Outstanding THEN [grant[o] EXCEPT !.status = "expired"]
                     ELSE grant[o]]
      /\ revDoc' = RevocationsQueued(Live(Outstanding))
  BY DEF NodeCancels
<1>3. \A o \in Ops : /\ o \in Ungranted => o \notin Outstanding
                     /\ o \in Live(Outstanding) => o \in Outstanding
                     /\ o \in Running(Live(Outstanding)) <=> o \in Live(Outstanding)
  BY <1>1 DEF Ungranted, Outstanding, GrantsAgree, Running, Live, Expired
<1>4. Steady(op') /\ \A o \in Ops : op'[o].status = NodeEnds(o, next[o])
  <2> DEFINE f == [o \in Ops |-> NodeEnds(o, next[o])]
  <2>1. f \in [Ops -> OpStatuses] /\ \A o \in Ops : f[o] = NodeEnds(o, next[o])
    BY DEF NodeEnds, OpStatuses
  <2>2. op' = [o \in Ops |-> [op[o] EXCEPT !.status = f[o]]]
    BY <1>2
  <2> HIDE DEF f
  <2>3. Steady(op') /\ \A o \in Ops : op'[o].status = f[o]
    BY <1>1, <2>1, <2>2, StatusesYield, SMTT(30)
  <2> QED
    BY <2>1, <2>3
<1>5. \A o \in Ops : op'[o].status = IF o \in Live(Outstanding) THEN "revoked"
                                      ELSE IF o \in Ungranted THEN "cancelled" ELSE next[o]
  BY <1>3, <1>4 DEF NodeEnds
<1>6. /\ GrantsSteady(grant')
      /\ \A o \in Ops : grant'[o].status = IF o \in Live(Outstanding) THEN "revoked"
                                            ELSE IF o \in Outstanding THEN "expired" ELSE grant[o].status
  <2>1. \A o \in Ops : grant[o] \in GrantRows
    BY <1>1 DEF TablesTyped
  <2>2. \A o \in Ops :
          /\ o \in Live(Outstanding) => grant'[o] = [grant[o] EXCEPT !.status = "revoked"]
          /\ o \notin Live(Outstanding) /\ o \in Outstanding => grant'[o] = [grant[o] EXCEPT !.status = "expired"]
          /\ o \notin Outstanding => grant'[o] = grant[o]
    BY <1>2, <1>3
  <2>3. \A o \in Ops :
          /\ grant'[o] \in GrantRows /\ grant'[o].left = grant[o].left /\ grant'[o].used = grant[o].used
          /\ grant'[o].status = grant[o].status => grant'[o] = grant[o]
          /\ grant'[o].status = IF o \in Live(Outstanding) THEN "revoked"
                                ELSE IF o \in Outstanding THEN "expired" ELSE grant[o].status
    <3> TAKE o \in Ops
    <3> DEFINE r == [grant[o] EXCEPT !.status = "revoked"]
    <3> DEFINE e == [grant[o] EXCEPT !.status = "expired"]
    <3>1. /\ r \in GrantRows /\ r.status = "revoked" /\ r.left = grant[o].left /\ r.used = grant[o].used
          /\ ("revoked" = grant[o].status => r = grant[o])
      BY <2>1, GrantTo DEF GrantStatuses
    <3>2. /\ e \in GrantRows /\ e.status = "expired" /\ e.left = grant[o].left /\ e.used = grant[o].used
          /\ ("expired" = grant[o].status => e = grant[o])
      BY <2>1, GrantTo DEF GrantStatuses
    <3>3. /\ o \in Live(Outstanding) => grant'[o] = r
          /\ o \notin Live(Outstanding) /\ o \in Outstanding => grant'[o] = e
          /\ o \notin Outstanding => grant'[o] = grant[o]
      BY <2>2
    <3> HIDE DEF r, e
    <3> QED
      BY <1>3, <2>1, <3>1, <3>2, <3>3
  <2>4. grant' = [o \in Ops |-> grant'[o]]
    BY <1>2
  <2>5. grant' \in [Ops -> GrantRows]
    BY <2>3, <2>4
  <2> QED
    BY <2>3, <2>5 DEF GrantsSteady
<1>7. /\ GroupsSteady(group')
      /\ \A g \in Ops : group'[g].status = "pending" => g \notin PendingGroups(Awaiting(Ops))
  <2>1. \A g \in Ops : g \in PendingGroups(Awaiting(Ops)) => group[g].status = "pending"
    BY DEF PendingGroups
  <2> QED
    BY <1>1, <1>2, <2>1, GroupsExpiredYields
<1>8. /\ revDoc' \in [Ops -> DocumentStates]
      /\ \A o \in Ops : revDoc'[o] # "none" => revDoc[o] # "none" \/ o \in Outstanding
  BY <1>1, <1>2, <1>3, RevocationsYield
<1> QED
  BY <1>1, <1>3, <1>4, <1>5, <1>6, <1>7, <1>8, EndingKeeps

LEMMA FencePurgeKeeps == ASSUME IInv, FencePurge PROVE IInv'
<1>1. Typed /\ TablesTyped /\ ChannelTyped /\ AuthorityTyped /\ GrantsAgree
  BY DEF IInv, Typed
<1>2. /\ grant' = GrantsTo(Outstanding, "revoked")
      /\ op' = [o \in Ops |-> IF o \in Ungranted THEN [op[o] EXCEPT !.status = "denied"]
                              ELSE IF o \in Outstanding /\ op[o].status = "granted"
                              THEN [op[o] EXCEPT !.status = "revoked"] ELSE op[o]]
      /\ group' = GroupsExpired({g \in Ops : group[g].status = "pending"})
      /\ revDoc' = [o \in Ops |-> IF o \in Outstanding THEN "unsigned" ELSE revDoc[o]]
      /\ UNCHANGED <<grantDoc, authority, conn, brokerVars, history, fleet>>
  BY DEF FencePurge
<1>3. \A o \in Ops : /\ o \in Ungranted => o \notin Outstanding
                     /\ o \in Outstanding => op[o].status = "granted"
  BY <1>1 DEF Ungranted, Outstanding, GrantsAgree
<1> DEFINE f == [o \in Ops |-> IF o \in Outstanding THEN "revoked" ELSE IF o \in Ungranted THEN "denied"
                               ELSE op[o].status]
<1>4. Steady(op') /\ \A o \in Ops : op'[o].status = f[o]
  <2>1. \A o \in Ops : op[o] \in OpRows /\ op[o].status \in OpStatuses /\ op[o] = [op[o] EXCEPT !.status = op[o].status]
    BY <1>1 DEF TablesTyped, OpRows, OpStatuses
  <2>2. f \in [Ops -> OpStatuses]
    BY <2>1 DEF OpStatuses
  <2>3. op' = [o \in Ops |-> [op[o] EXCEPT !.status = f[o]]]
    BY <1>2, <1>3, <2>1
  <2> HIDE DEF f
  <2> QED
    BY <1>1, <2>2, <2>3, StatusesYield
<1>5. \A o \in Ops : op'[o].status = IF o \in Outstanding THEN "revoked" ELSE IF o \in Ungranted THEN "denied"
                                      ELSE op[o].status
  BY <1>4
<1> HIDE DEF f
<1>6. /\ GrantsSteady(grant')
      /\ \A o \in Ops : grant'[o].status = IF o \in Outstanding THEN "revoked" ELSE grant[o].status
  BY <1>1, <1>2, GrantsToYields DEF GrantStatuses
<1>7. GroupsSteady(group') /\ \A g \in Ops : group'[g].status # "pending"
  <2> DEFINE G == {g \in Ops : group[g].status = "pending"}
  <2>1. group' = GroupsExpired(G) /\ \A g \in Ops : g \in G <=> group[g].status = "pending"
    BY <1>2
  <2> HIDE DEF G
  <2> QED
    BY <1>1, <2>1, GroupsExpiredYields
<1>8. /\ revDoc' \in [Ops -> DocumentStates]
      /\ \A o \in Ops : revDoc'[o] # "none" => revDoc[o] # "none" \/ o \in Outstanding
  BY <1>1, <1>2 DEF ChannelTyped, DocumentStates
<1>9. conn' \in [Conns -> Calls] /\ AuthorityTyped' /\ node' = node
  BY <1>1, <1>2 DEF Typed, AuthorityTyped, authority
<1> QED
  BY <1>1, <1>2, <1>3, <1>4, <1>5, <1>6, <1>7, <1>8, <1>9, EndingKeeps

-----------------------------------------------------------------------------
(* Administration.                                                         *)

LEMMA AdminKeeps == ASSUME IInv, AdminStep PROVE IInv'
<1>1. /\ Typed /\ TablesTyped /\ ChannelTyped /\ AuthorityTyped /\ GrantsAgree
      /\ conn \in [Conns -> Calls] /\ revDoc \in [Ops -> DocumentStates]
  BY DEF IInv, Typed, ChannelTyped
<1>2. /\ fleet \in Scenarios /\ policy \in [version : Nat, rule : fleet.rules]
      /\ workload \in [status : {"active", "revoked"}, identity : Nat, ceiling : fleet.ceilings]
      /\ node \in [status : {"active", "revoked"}, rotating : BOOLEAN]
  BY <1>1 DEF AuthorityTyped
<1>3. CASE RevokeWorkload
  <2>1. /\ Retire /\ UNCHANGED <<grantDoc, brokerVars, history, fleet, conn, node, policy>>
        /\ workload' = [workload EXCEPT !.status = "revoked"]
    BY <1>3 DEF RevokeWorkload
  <2>2. AuthorityTyped'
    BY <1>2, <2>1 DEF AuthorityTyped
  <2> QED
    BY <2>1, <2>2, RetireKeeps
<1>4. ASSUME NEW ceiling \in fleet.ceilings, NEW identity \in {workload.identity, workload.identity + 1},
             UpdateWorkload(ceiling, identity)
      PROVE  IInv'
  <2>1. /\ Retire \/ UNCHANGED <<tables, revDoc, closed>>
        /\ UNCHANGED <<grantDoc, brokerVars, history, fleet, conn, node, policy>>
        /\ workload' = [workload EXCEPT !.ceiling = ceiling, !.identity = identity]
    BY <1>4 DEF UpdateWorkload
  <2>2. identity \in Nat
    BY <1>2
  <2>3. workload' \in [status : {"active", "revoked"}, identity : Nat, ceiling : fleet.ceilings]
    <3> DEFINE w == [workload EXCEPT !.ceiling = ceiling]
    <3>1. w \in [status : {"active", "revoked"}, identity : Nat, ceiling : fleet.ceilings]
      BY <1>2
    <3>2. workload' = [w EXCEPT !.identity = identity]
      BY <2>1
    <3> HIDE DEF w
    <3> QED
      BY <2>2, <3>1, <3>2
  <2>4. AuthorityTyped'
    BY <1>2, <2>1, <2>3 DEF AuthorityTyped
  <2>5. CASE Retire
    BY <2>1, <2>4, <2>5, RetireKeeps
  <2>6. CASE UNCHANGED <<tables, revDoc, closed>>
    BY <1>1, <2>1, <2>4, <2>6, TablesStill
  <2> QED
    BY <2>1, <2>5, <2>6
<1>5. ASSUME NEW rule \in fleet.rules, ReplacePolicy(rule) PROVE IInv'
  <2>1. /\ policy' = [version |-> policy.version + 1, rule |-> rule]
        /\ UNCHANGED <<tables, documents, workload, node, conn, brokerVars, history, fleet>>
    BY <1>5 DEF ReplacePolicy
  <2>2. policy' \in [version : Nat, rule : fleet.rules]
    BY <1>2, <2>1
  <2>3. AuthorityTyped'
    BY <1>2, <2>1, <2>2 DEF AuthorityTyped
  <2> QED
    BY <1>1, <2>1, <2>3, TablesStill DEF documents
<1>6. CASE RevokeNode
  <2> DEFINE next == [o \in Ops |-> AfterRevocation(o)]
  <2>1. /\ NodeCancels(next) /\ UNCHANGED <<grantDoc, policy, conn, brokerVars, history, fleet>>
        /\ node' = [node EXCEPT !.status = "revoked"] /\ workload' = [workload EXCEPT !.status = "revoked"]
    BY <1>6 DEF RevokeNode
  <2>2. AuthorityTyped' /\ node'.status = "revoked"
    BY <1>2, <2>1 DEF AuthorityTyped
  <2>3. \A o \in Ops : /\ next[o] \in OpStatuses
                       /\ o \notin Outstanding => next[o] = op[o].status
                       /\ o \in Outstanding => next[o] \in {"granted", "failed"}
    <3> TAKE o \in Ops
    <3>1. op[o].status \in OpStatuses /\ (o \in Outstanding => op[o].status = "granted")
      BY <1>1 DEF TablesTyped, OpRows, OpStatuses, GrantsAgree, Outstanding
    <3>2. o \in Running(Expired(Outstanding)) => o \in Outstanding
      BY DEF Running, Expired
    <3> QED
      BY <3>1, <3>2 DEF AfterRevocation, OpStatuses
  <2>4. next = [o \in Ops |-> next[o]]
    OBVIOUS
  <2> HIDE DEF next
  <2>5. next \in [Ops -> OpStatuses]
    BY <2>3, <2>4
  <2> QED
    BY <2>1, <2>2, <2>3, <2>5, NodeCancelsYields
<1>7. CASE RotateKey
  <2> DEFINE next == [o \in Ops |-> op[o].status]
  <2>1. /\ NodeCancels(next) /\ UNCHANGED <<grantDoc, policy, workload, conn, brokerVars, history, fleet>>
        /\ node' = [node EXCEPT !.rotating = TRUE] /\ node.status = "active"
    BY <1>7 DEF RotateKey
  <2>2. AuthorityTyped'
    BY <1>2, <2>1 DEF AuthorityTyped
  <2>3. \A o \in Ops : /\ next[o] \in OpStatuses /\ next[o] = op[o].status
                       /\ o \in Outstanding => next[o] = "granted"
    BY <1>1 DEF TablesTyped, OpRows, OpStatuses, GrantsAgree, Outstanding
  <2>4. next = [o \in Ops |-> next[o]]
    OBVIOUS
  <2> HIDE DEF next
  <2>5. next \in [Ops -> OpStatuses]
    BY <2>3, <2>4
  <2> QED
    BY <2>1, <2>2, <2>3, <2>5, NodeCancelsYields
<1>8. CASE RotationDone
  <2>1. /\ node' = [node EXCEPT !.rotating = FALSE]
        /\ UNCHANGED <<tables, documents, policy, workload, conn, brokerVars, history, fleet>>
    BY <1>8 DEF RotationDone
  <2>2. AuthorityTyped' /\ node'.status = node.status
    BY <1>2, <2>1 DEF AuthorityTyped
  <2> QED
    BY <1>1, <2>1, <2>2, TablesStill DEF documents
<1> QED
  BY <1>3, <1>4, <1>5, <1>6, <1>7, <1>8, FencePurgeKeeps DEF AdminStep

-----------------------------------------------------------------------------
(* The node channel.                                                       *)

\* Documents and the broker move; a grant may become delivered.
LEMMA ChannelKeeps ==
  ASSUME IInv, UNCHANGED <<op, group, authority, conn, history, fleet>>, GrantsSteady(grant'), ChannelTyped',
         \A o \in Ops : \/ grant'[o].status = grant[o].status
                        \/ grant[o].status = "issued" /\ grant'[o].status = "delivered",
         \A o \in Ops : grant[o].status = "none" =>
           grantDoc'[o] = "none" /\ revDoc'[o] = "none" /\ broker'[o] = "none" /\ reports'[o] = {},
         \A o \in Ops : grant'[o].status = "issued" => grantDoc'[o] = "queued",
         \A o \in Ops : grantDoc'[o] = "queued" => broker'[o] \notin {"held", "used"},
         \A o \in Ops : broker'[o] = "used" => broker[o] = "used" \/ grant[o].left # 0
  PROVE  IInv'
<1>1. Typed /\ GrantsAgree /\ MembersAgree /\ GroupsSound /\ DecisionsSound /\ GrantsSound /\ FailuresSound
  BY DEF IInv
<1>2. \A o \in Ops : /\ grant'[o].left = grant[o].left /\ grant'[o].used = grant[o].used
                     /\ grant'[o].status = grant[o].status => grant'[o] = grant[o]
  BY DEF GrantsSteady
<1>3. Typed'
  BY <1>1 DEF Typed, TablesTyped, AuthorityTyped, HistoryTyped, GrantsSteady, authority, history
<1>4. GrantsAgree'
  <2> SUFFICES ASSUME NEW o \in Ops PROVE AgreesThen(o)
    BY AgreeingThen
  <2>1. CASE grant'[o].status = grant[o].status
    BY <1>1, <1>2, <2>1 DEF GrantsAgree, AgreesThen
  <2>2. CASE grant[o].status = "issued" /\ grant'[o].status = "delivered"
    <3>1. op'[o].status = "granted"
      BY <1>1, <2>2 DEF GrantsAgree
    <3> QED
      BY <2>2, <3>1 DEF AgreesThen
  <2> QED
    BY <2>1, <2>2
<1>5. MembersAgree' /\ GroupsSound' /\ DecisionsSound'
  BY <1>1 DEF MembersAgree, GroupsSound, DecisionsSound, Consented, history
<1>6. GrantsSound'
  BY <1>1 DEF GrantsSound, history
<1>7. FailuresSound'
  BY <1>1, <1>2 DEF FailuresSound, authority
<1> QED
  BY <1>3, <1>4, <1>5, <1>6, <1>7 DEF IInv

LEMMA PollKeeps == ASSUME IInv, NEW ack \in BOOLEAN, Poll(ack) PROVE IInv'
<1>1. Typed /\ TablesTyped /\ ChannelTyped /\ GrantsSound
  BY DEF IInv, Typed
<1>2. /\ grantDoc' = Sent(IF ack THEN Acked(grantDoc) ELSE grantDoc)
      /\ revDoc' = Sent(IF ack THEN Acked(revDoc) ELSE revDoc)
      /\ grant' = [o \in Ops |-> IF grant[o].status = "issued" /\ grantDoc'[o] = "sent"
                                   THEN [grant[o] EXCEPT !.status = "delivered"] ELSE grant[o]]
      /\ UNCHANGED <<op, group, authority, conn, brokerVars, history, fleet>>
  BY DEF Poll
<1> DEFINE polled(d) == Sent(IF ack THEN Acked(d) ELSE d)
<1>3. ASSUME NEW d \in [Ops -> DocumentStates]
      PROVE  /\ polled(d) \in [Ops -> DocumentStates]
             /\ \A o \in Ops : /\ d[o] = "none" => polled(d)[o] = "none"
                               /\ d[o] = "queued" => polled(d)[o] = "sent"
                               /\ polled(d)[o] # "queued"
  BY DEF Sent, Acked, DocumentStates
<1>4. grantDoc' = polled(grantDoc) /\ revDoc' = polled(revDoc)
  BY <1>2
<1> HIDE DEF polled
<1>5. /\ grantDoc' \in [Ops -> DocumentStates] /\ revDoc' \in [Ops -> DocumentStates]
      /\ \A o \in Ops : /\ grantDoc[o] = "none" => grantDoc'[o] = "none"
                        /\ revDoc[o] = "none" => revDoc'[o] = "none"
                        /\ grantDoc[o] = "queued" => grantDoc'[o] = "sent"
                        /\ grantDoc'[o] # "queued"
  BY <1>1, <1>3, <1>4 DEF ChannelTyped
<1> DEFINE S == {o \in Ops : grant[o].status = "issued" /\ grantDoc'[o] = "sent"}
<1>6. grant' = GrantsTo(S, "delivered") /\ \A o \in Ops : o \in S <=> grant[o].status = "issued"
  BY <1>1, <1>2, <1>5 DEF GrantsTo, GrantsSound
<1> HIDE DEF S
<1>7. GrantsSteady(grant') /\ \A o \in Ops : grant'[o].status = IF o \in S THEN "delivered" ELSE grant[o].status
  BY <1>1, <1>6, GrantsToYields DEF GrantStatuses
<1>8. ChannelTyped'
  BY <1>1, <1>2, <1>5 DEF ChannelTyped, brokerVars
<1> QED
  BY <1>1, <1>2, <1>5, <1>6, <1>7, <1>8, ChannelKeeps DEF GrantsSound, brokerVars

\* The broker's own steps, and a new session.
BrokerStep(o) ==
  \/ ReceiveGrant(o) \/ ReceiveRevocation(o) \/ Announce(o) \/ Withdraw(o)
  \/ Consume(o) \/ Complete(o) \/ Forget(o)

LEMMA BrokerKeeps == ASSUME IInv, NEW o \in Ops, BrokerStep(o) PROVE IInv'
<1>1. Typed /\ TablesTyped /\ ChannelTyped /\ GrantsSound
  BY DEF IInv, Typed
<1>2. UNCHANGED <<tables, authority, conn, history, fleet>>
  BY DEF BrokerStep, ReceiveGrant, ReceiveRevocation, Announce, Withdraw, Consume, Complete, Forget, brokerVars
<1>3. GrantsSteady(grant') /\ grant' = grant /\ UNCHANGED <<op, group, authority, conn, history, fleet>>
  BY <1>1, <1>2 DEF GrantsSteady, TablesTyped, tables
<1>4. grant[o].status = "none" => grantDoc[o] = "none" /\ revDoc[o] = "none" /\ broker[o] = "none" /\ reports[o] = {}
  BY <1>1 DEF GrantsSound
<1> SUFFICES /\ ChannelTyped' /\ grant[o].status # "none"
             /\ \A x \in Ops : x # o => /\ grantDoc'[x] = grantDoc[x] /\ revDoc'[x] = revDoc[x]
                                        /\ broker'[x] = broker[x] /\ reports'[x] = reports[x]
             /\ grantDoc[o] = "queued" <=> grantDoc'[o] = "queued"
             /\ grantDoc'[o] = "queued" => broker'[o] \notin {"held", "used"}
             /\ grant[o].status = "issued" => grantDoc'[o] = "queued"
             /\ broker'[o] = "used" => broker[o] = "used" \/ grant[o].left # 0
  BY <1>1, <1>3, ChannelKeeps DEF GrantsSound
<1>5. CASE ReceiveGrant(o)
  <2>1. /\ grantDoc[o] \in {"sent", "handled"} /\ grantDoc' = [grantDoc EXCEPT ![o] = "handled"]
        /\ broker' = broker \/ broker' = [broker EXCEPT ![o] = "held"]
        /\ UNCHANGED <<revDoc, reports, outcomes>>
    BY <1>5 DEF ReceiveGrant
  <2> QED
    BY <1>1, <1>4, <2>1 DEF ChannelTyped, DocumentStates, GrantsSound
<1>6. CASE ReceiveRevocation(o)
  <2>1. /\ revDoc[o] \in {"sent", "handled"} /\ revDoc' = [revDoc EXCEPT ![o] = "handled"]
        /\ outcomes' = [outcomes EXCEPT ![o] =
                          IF outcomes[o] # NoOne THEN outcomes[o]
                          ELSE IF broker[o] = "held" THEN "revoked_before_consumption"
                          ELSE IF broker[o] = "used" THEN "already_consumed" ELSE "not_received"]
        /\ broker' = [broker EXCEPT ![o] = IF broker[o] = "used" THEN "used" ELSE "dead"]
        /\ UNCHANGED <<grantDoc, reports>>
    BY <1>6 DEF ReceiveRevocation
  <2>2. /\ revDoc' \in [Ops -> DocumentStates]
        /\ outcomes' \in [Ops -> {NoOne, "revoked_before_consumption", "already_consumed", "not_received"}]
        /\ broker' \in [Ops -> {"none", "held", "used", "dead"}]
    BY <1>1, <2>1 DEF ChannelTyped, DocumentStates
  <2>3. broker'[o] = "used" <=> broker[o] = "used"
    BY <1>1, <2>1 DEF ChannelTyped
  <2>4. broker'[o] # "held"
    BY <1>1, <2>1 DEF ChannelTyped
  <2> QED
    BY <1>1, <1>4, <2>1, <2>2, <2>3, <2>4 DEF ChannelTyped, GrantsSound
<1>7. CASE Announce(o) \/ Withdraw(o) \/ Complete(o)
  <2>1. /\ broker[o] \in {"held", "used"} /\ UNCHANGED <<grantDoc, revDoc, broker, outcomes>>
        /\ \/ reports' = [reports EXCEPT ![o] = reports[o] \cup {"uncertain"}]
           \/ reports' = [reports EXCEPT ![o] = {}]
           \/ reports' = [reports EXCEPT ![o] = reports[o] \cup {"completed"}]
    BY <1>7 DEF Announce, Withdraw, Complete, documents
  <2>2. reports' \in [Ops -> SUBSET {"uncertain", "completed"}] /\ \A x \in Ops : x # o => reports'[x] = reports[x]
    BY <1>1, <2>1 DEF ChannelTyped
  <2> QED
    BY <1>1, <1>4, <2>1, <2>2 DEF ChannelTyped, GrantsSound
<1>8. CASE Consume(o)
  <2>1. /\ broker[o] = "held" /\ grant[o].left > 0 /\ broker' = [broker EXCEPT ![o] = "used"]
        /\ UNCHANGED <<grantDoc, revDoc, reports, outcomes>>
    BY <1>8 DEF Consume, documents
  <2>2. grant[o].left # 0
    BY <1>1, <2>1 DEF TablesTyped, GrantRows
  <2>3. broker' \in [Ops -> {"none", "held", "used", "dead"}] /\ \A x \in Ops : x # o => broker'[x] = broker[x]
    BY <1>1, <2>1 DEF ChannelTyped
  <2> QED
    BY <1>1, <1>4, <2>1, <2>2, <2>3 DEF ChannelTyped, GrantsSound
<1>9. CASE Forget(o)
  <2>1. /\ broker[o] = "held" /\ broker' = [broker EXCEPT ![o] = "none"]
        /\ UNCHANGED <<grantDoc, revDoc, reports, outcomes>>
    BY <1>9 DEF Forget, documents
  <2>2. /\ broker' \in [Ops -> {"none", "held", "used", "dead"}] /\ broker'[o] = "none"
        /\ \A x \in Ops : x # o => broker'[x] = broker[x]
    BY <1>1, <2>1 DEF ChannelTyped
  <2> QED
    BY <1>1, <1>4, <2>1, <2>2 DEF ChannelTyped, GrantsSound
<1> QED
  BY <1>5, <1>6, <1>7, <1>8, <1>9 DEF BrokerStep

LEMMA SessionKeeps == ASSUME IInv, OpenSession PROVE IInv'
<1>1. Typed /\ ChannelTyped /\ AuthorityTyped
  BY DEF IInv, Typed
<1>2. /\ revDoc' = [o \in Ops |-> IF revDoc[o] = "acked" /\ grant[o].outcome = NoOne THEN "queued" ELSE revDoc[o]]
      /\ UNCHANGED <<tables, grantDoc, authority, conn, brokerVars, history, fleet>>
  BY DEF OpenSession
<1>3. revDoc' \in [Ops -> DocumentStates] /\ \A o \in Ops : revDoc'[o] # "none" => revDoc[o] # "none"
  BY <1>1, <1>2 DEF ChannelTyped, DocumentStates
<1> QED
  BY <1>1, <1>2, <1>3, TablesStill DEF Typed, AuthorityTyped, authority

\* The tables move for one operation that is a member of no pending group.
LEMMA SettledKeeps ==
  ASSUME IInv, NEW o \in Ops, NEW r \in OpRows, NEW h \in GrantRows,
         op' = [op EXCEPT ![o] = r], grant' = [grant EXCEPT ![o] = h],
         r.by = op[o].by, r.decision = op[o].decision, r.version = op[o].version, r.group = op[o].group,
         UNCHANGED <<group, documents, authority, conn, brokerVars, history, fleet>>,
         op[o].status \notin {"absent", "awaiting", "denied", "cancelled", "requested"},
         r.status \notin {"absent", "awaiting", "denied", "cancelled", "requested"},
         AgreesThen(o), Moved(o)
  PROVE  IInv'
<1>1. /\ Typed /\ TablesTyped /\ AuthorityTyped /\ ChannelTyped /\ GrantsAgree /\ MembersAgree
      /\ op \in [Ops -> OpRows] /\ grant \in [Ops -> GrantRows]
  BY DEF IInv, Typed, TablesTyped
<1>2. op' \in [Ops -> OpRows] /\ grant' \in [Ops -> GrantRows]
  BY <1>1
<1>3. op'[o] = r /\ grant'[o] = h /\ \A x \in Ops : x # o => op'[x] = op[x] /\ grant'[x] = grant[x]
  BY <1>1
<1>4. Steady(op') /\ GroupsSteady(group')
  BY <1>1, <1>2, <1>3 DEF Steady, GroupsSteady, TablesTyped
<1>5. GrantsAgree'
  <2> SUFFICES ASSUME NEW x \in Ops, x # o PROVE AgreesThen(x)
    BY AgreeingThen
  <2> QED
    BY <1>1, <1>3 DEF GrantsAgree, AgreesThen
<1>6. \A x \in Ops : Moved(x)
  <2> SUFFICES ASSUME NEW x \in Ops, x # o PROVE Moved(x)
    OBVIOUS
  <2> QED
    BY <1>3 DEF Moved, documents, authority
<1>7. MembersAgree'
  <2>1. ASSUME NEW g \in Ops, group'[g].status = "pending", NEW x \in group'[g].members
        PROVE  op'[x].status \in {"awaiting", "denied"}
    <3>1. x \in Ops /\ op[x].status \in {"awaiting", "denied"}
      BY <1>1, <2>1 DEF MembersAgree, TablesTyped, GroupRows
    <3> QED
      BY <1>3, <3>1
  <2>2. ASSUME NEW x \in Ops, op'[x].status = "awaiting"
        PROVE  /\ op[x].status = "awaiting"
               /\ group'[op[x].group].status = "pending" /\ x \in group'[op[x].group].members
    <3>1. x # o /\ op[x].status = "awaiting"
      BY <1>3, <2>2
    <3> QED
      BY <1>1, <3>1 DEF MembersAgree
  <2> QED
    BY <1>4, <2>1, <2>2, MembersKeep
<1> QED
  BY <1>1, <1>2, <1>4, <1>5, <1>6, <1>7, TablesStep DEF Typed, AuthorityTyped, ChannelTyped, authority, documents

LEMMA ResultKeeps ==
  ASSUME IInv, NEW o \in Ops, NEW result \in {"uncertain", "completed"}, ApplyResult(o, result)
  PROVE  IInv'
<1>1. Typed /\ TablesTyped /\ GrantsAgree /\ GrantsSound /\ op[o] \in OpRows /\ grant[o] \in GrantRows
  BY DEF IInv, Typed, TablesTyped
<1>2. /\ result \in reports[o]
      /\ op' = [op EXCEPT ![o].status = AfterResult(op[o].status, result)]
      /\ grant' = [grant EXCEPT ![o].used = TRUE, ![o].status = IF o \in Outstanding THEN "consumed" ELSE grant[o].status]
      /\ UNCHANGED <<group, documents, authority, conn, brokerVars, history, fleet>>
  BY DEF ApplyResult
<1>3. op[o].status \notin Ungrantable /\ op[o].status \in OpStatuses
  BY <1>1, <1>2 DEF GrantsSound, OpRows, OpStatuses
<1> DEFINE s == AfterResult(op[o].status, result)
<1> DEFINE t == IF o \in Outstanding THEN "consumed" ELSE grant[o].status
<1> DEFINE r == [op[o] EXCEPT !.status = s]
<1> DEFINE u == [grant[o] EXCEPT !.used = TRUE]
<1> DEFINE h == [u EXCEPT !.status = t]
<1>4. /\ s \in OpStatuses /\ s \notin Ungrantable
      /\ s # "granted"
      /\ s \in {"revoked", "failed", "uncertain"} => op[o].status = s
      /\ s = "executing" => op[o].status \in {"granted", "executing"}
  BY <1>3 DEF AfterResult, OpStatuses, Ungrantable
<1>5. /\ t \in GrantStatuses /\ t \notin {"issued", "delivered"}
      /\ grant[o].status \notin {"issued", "delivered"} => t = grant[o].status
      /\ grant[o].status \in {"issued", "delivered"} => t = "consumed"
  BY <1>1 DEF GrantRows, GrantStatuses, Outstanding
<1>6. op' = [op EXCEPT ![o] = r]
  BY <1>1, <1>2 DEF TablesTyped
<1>7. grant' = [grant EXCEPT ![o] = h]
  BY <1>1, <1>2 DEF TablesTyped
<1> HIDE DEF s, t
<1>8. /\ r \in OpRows /\ r.status = s /\ r.by = op[o].by /\ r.decision = op[o].decision
      /\ r.version = op[o].version /\ r.group = op[o].group
  BY <1>1, <1>4, RowTo
<1> HIDE DEF r
<1>9. u \in GrantRows /\ u.used = TRUE /\ u.left = grant[o].left
  BY <1>1 DEF GrantRows
<1> HIDE DEF u
<1>10. h \in GrantRows /\ h.status = t /\ h.used = TRUE /\ h.left = grant[o].left
  BY <1>5, <1>9 DEF GrantRows, GrantStatuses
<1> HIDE DEF h
<1>11. op'[o].status = s /\ grant'[o] = h
  BY <1>1, <1>6, <1>7, <1>8 DEF TablesTyped
<1>12. AgreesThen(o)
  <2>1. op[o].status = "revoked" => grant[o].status = "revoked"
    BY <1>1 DEF GrantsAgree
  <2>2. op[o].status = "granted" => grant[o].status \in {"issued", "delivered", "expired"}
    BY <1>1 DEF GrantsAgree
  <2>3. op[o].status = "executing" => grant[o].status \in {"consumed", "expired"}
    BY <1>1 DEF GrantsAgree
  <2> QED
    BY <1>4, <1>5, <1>10, <1>11, <2>1, <2>2, <2>3 DEF AgreesThen, Ungrantable
<1>13. Moved(o)
  <2>1. grant[o].status # "none" /\ t # "none"
    BY <1>1, <1>3, <1>5 DEF GrantsSound
  <2> QED
    BY <1>2, <1>3, <1>4, <1>5, <1>10, <1>11, <2>1 DEF Moved, Ungrantable, documents
<1> QED
  BY <1>2, <1>3, <1>4, <1>6, <1>7, <1>8, <1>10, <1>12, <1>13, SettledKeeps DEF Ungrantable

LEMMA OutcomeKeeps == ASSUME IInv, NEW o \in Ops, ApplyOutcome(o) PROVE IInv'
<1>1. Typed /\ TablesTyped /\ ChannelTyped /\ GrantsAgree /\ GrantsSound /\ op[o] \in OpRows /\ grant[o] \in GrantRows
  BY DEF IInv, Typed, TablesTyped
<1>2. /\ grant[o].status = "revoked" /\ op' = op
      /\ grant' = [grant EXCEPT ![o].outcome = outcomes[o],
                                ![o].used = grant[o].used \/ outcomes[o] = "already_consumed"]
      /\ UNCHANGED <<group, documents, authority, conn, brokerVars, history, fleet>>
  BY DEF ApplyOutcome
<1>3. op[o].status \notin Ungrantable /\ op[o].status # "granted"
  BY <1>1, <1>2 DEF GrantsSound, GrantsAgree
<1> DEFINE u == [grant[o] EXCEPT !.outcome = outcomes[o]]
<1> DEFINE b == grant[o].used \/ outcomes[o] = "already_consumed"
<1> DEFINE h == [u EXCEPT !.used = b]
<1>4. op' = [op EXCEPT ![o] = op[o]]
  BY <1>1, <1>2 DEF TablesTyped
<1>5. grant' = [grant EXCEPT ![o] = h]
  BY <1>1, <1>2 DEF TablesTyped
<1>6. u \in GrantRows /\ u.status = "revoked" /\ u.left = grant[o].left
  BY <1>1, <1>2 DEF GrantRows, ChannelTyped
<1>7. b \in BOOLEAN /\ (grant[o].used => b)
  BY <1>1 DEF GrantRows
<1> HIDE DEF u, b
<1>8. h \in GrantRows /\ h.status = "revoked" /\ h.left = grant[o].left /\ h.used = b
  BY <1>6, <1>7 DEF GrantRows
<1> HIDE DEF h
<1>9. grant'[o] = h
  BY <1>1, <1>5 DEF TablesTyped
<1>10. AgreesThen(o)
  <2>1. op[o].status # "executing" /\ (op[o].status = "completed" => grant[o].used)
    BY <1>1, <1>2 DEF GrantsAgree
  <2> QED
    BY <1>2, <1>3, <1>7, <1>8, <1>9, <2>1 DEF AgreesThen, Ungrantable
<1>11. Moved(o)
  BY <1>2, <1>8, <1>9 DEF Moved, documents
<1> QED
  BY <1>1, <1>2, <1>3, <1>4, <1>5, <1>8, <1>10, <1>11, SettledKeeps DEF Ungrantable

LEMMA ChannelStepKeeps == ASSUME IInv, ChannelStep PROVE IInv'
<1>1. CASE \E ack \in BOOLEAN : Poll(ack)
  BY <1>1, PollKeeps
<1>2. CASE OpenSession
  BY <1>2, SessionKeeps
<1>3. ASSUME NEW o \in Ops, BrokerStep(o) PROVE IInv'
  BY <1>3, BrokerKeeps
<1>4. ASSUME NEW o \in Ops, NEW result \in {"uncertain", "completed"}, ApplyResult(o, result) PROVE IInv'
  BY <1>4, ResultKeeps
<1>5. ASSUME NEW o \in Ops, ApplyOutcome(o) PROVE IInv'
  BY <1>5, OutcomeKeeps
<1> QED
  BY <1>1, <1>2, <1>3, <1>4, <1>5 DEF ChannelStep, BrokerStep

-----------------------------------------------------------------------------
(* Issuing grants.                                                         *)

\* The handler moves, and nothing else.
LEMMA HandlerKeeps ==
  ASSUME IInv, UNCHANGED <<tables, grantDoc, revDoc, authority, brokerVars, history, fleet>>,
         conn' \in [Conns -> Calls]
  PROVE  IInv'
<1>1. Typed
  BY DEF IInv
<1> QED
  BY <1>1, TablesStill DEF Typed, ChannelTyped, AuthorityTyped, authority

LEMMA GrantKeeps ==
  ASSUME IInv, NEW S \in SUBSET Ops, NEW drafts \in DraftTables, \A o \in S : drafts[o] # NoOne,
         AllRequested(S), \A o \in S : Matches(o, drafts[o]), Grant(S, drafts),
         UNCHANGED <<group, revDoc, authority, brokerVars, consent, fleet>>, conn' \in [Conns -> Calls]
  PROVE  IInv'
<1>1. /\ Typed /\ TablesTyped /\ ChannelTyped /\ AuthorityTyped /\ HistoryTyped
      /\ GrantsAgree /\ MembersAgree /\ GroupsSound /\ DecisionsSound /\ GrantsSound /\ FailuresSound
  BY DEF IInv, Typed
<1>2. /\ op' = [o \in Ops |-> IF o \in S THEN [op[o] EXCEPT !.status = "granted", !.left = drafts[o].left] ELSE op[o]]
      /\ grant' = [o \in Ops |-> IF o \in S THEN NewGrant(drafts[o]) ELSE grant[o]]
      /\ grantDoc' = [o \in Ops |-> IF o \in S THEN "queued" ELSE grantDoc[o]]
      /\ minted' = [o \in Ops |-> IF o \in S THEN [count |-> minted[o].count + 1, version |-> policy.version]
                                              ELSE minted[o]]
  BY DEF Grant
<1>3. \A o \in S : /\ o \in Ops /\ op[o].status = "requested" /\ op[o].version = policy.version
                   /\ drafts[o].left \in Nat
  BY DEF AllRequested, Matches, DraftTables, Drafts
<1>4. \A o \in S : /\ grant[o].status = "none" /\ minted[o].count = 0 /\ broker[o] = "none"
                   /\ revDoc[o] = "none" /\ reports[o] = {}
  <2>1. \A o \in S : grant[o].status = "none"
    BY <1>1, <1>3 DEF GrantsSound, Ungrantable
  <2> QED
    BY <1>1, <1>3, <2>1 DEF GrantsSound
<1>5. \A o \in S : /\ op'[o] \in OpRows /\ op'[o].status = "granted" /\ op'[o].by = op[o].by
                   /\ op'[o].decision = op[o].decision /\ op'[o].version = op[o].version /\ op'[o].group = op[o].group
  <2> TAKE o \in S
  <2> DEFINE q == [op[o] EXCEPT !.status = "granted"]
  <2>1. /\ q \in OpRows /\ q.status = "granted" /\ q.by = op[o].by /\ q.decision = op[o].decision
        /\ q.version = op[o].version /\ q.group = op[o].group
    <3>1. op[o] \in OpRows /\ "granted" \in OpStatuses
      BY <1>1, <1>3 DEF TablesTyped, OpStatuses
    <3> QED
      BY <3>1, RowTo
  <2>2. op'[o] = [q EXCEPT !.left = drafts[o].left]
    BY <1>2, <1>3
  <2> HIDE DEF q
  <2> QED
    BY <1>3, <2>1, <2>2 DEF OpRows
<1>6. \A o \in Ops : o \notin S => /\ op'[o] = op[o] /\ grant'[o] = grant[o] /\ grantDoc'[o] = grantDoc[o]
                                    /\ minted'[o] = minted[o]
  BY <1>2
<1>7. \A o \in S : /\ grant'[o] \in GrantRows /\ grant'[o].status = "issued" /\ grantDoc'[o] = "queued"
                   /\ minted'[o] = [count |-> 1, version |-> op[o].version]
                   /\ minted'[o].count = 1 /\ minted'[o].version = op[o].version
  <2> TAKE o \in S
  <2>1. grant'[o] = [status |-> "issued", left |-> drafts[o].left, used |-> FALSE, outcome |-> NoOne]
    BY <1>2, <1>3 DEF NewGrant, NoGrant
  <2>2. minted'[o] = [count |-> 0 + 1, version |-> op[o].version] /\ grantDoc'[o] = "queued"
    BY <1>2, <1>3, <1>4
  <2> QED
    BY <1>3, <2>1, <2>2 DEF GrantRows
<1>8. Typed'
  <2>1. op' \in [Ops -> OpRows]
    <3>1. op' = [o \in Ops |-> op'[o]]
      BY <1>2
    <3>2. \A o \in Ops : op'[o] \in OpRows
      BY <1>1, <1>5, <1>6 DEF TablesTyped
    <3> QED
      BY <3>1, <3>2
  <2>2. grant' \in [Ops -> GrantRows]
    <3>1. grant' = [o \in Ops |-> grant'[o]]
      BY <1>2
    <3>2. \A o \in Ops : grant'[o] \in GrantRows
      BY <1>1, <1>6, <1>7 DEF TablesTyped
    <3> QED
      BY <3>1, <3>2
  <2>3. minted' \in [Ops -> [count : Nat, version : Nat]]
    <3>1. minted' = [o \in Ops |-> minted'[o]]
      BY <1>2
    <3>2. \A o \in Ops : op[o].version \in Nat
      BY <1>1 DEF TablesTyped, OpRows
    <3>3. ASSUME NEW o \in Ops PROVE minted'[o] \in [count : Nat, version : Nat]
      <4>1. CASE o \in S
        <5> DEFINE v == op[o].version
        <5>1. minted'[o] = [count |-> 1, version |-> v] /\ v \in Nat /\ 1 \in Nat
          BY <1>7, <3>2, <4>1
        <5> HIDE DEF v
        <5> QED
          BY <5>1
      <4>2. CASE o \notin S
        BY <1>1, <1>6, <4>2 DEF HistoryTyped
      <4> QED
        BY <4>1, <4>2
    <3> QED
      BY <3>1, <3>3
  <2>4. grantDoc' \in [Ops -> DocumentStates]
    BY <1>1, <1>2 DEF ChannelTyped, DocumentStates
  <2> QED
    BY <1>1, <2>1, <2>2, <2>3, <2>4
       DEF Typed, TablesTyped, ChannelTyped, AuthorityTyped, HistoryTyped, authority, brokerVars
<1>9. GrantsAgree'
  <2> SUFFICES ASSUME NEW o \in Ops PROVE AgreesThen(o)
    BY AgreeingThen
  <2>1. CASE o \in S
    BY <1>5, <1>7, <2>1 DEF AgreesThen
  <2>2. CASE o \notin S
    BY <1>1, <1>6, <2>2 DEF GrantsAgree, AgreesThen
  <2> QED
    BY <2>1, <2>2
<1>10. MembersAgree'
  <2>1. \A o \in Ops : /\ op'[o].group = op[o].group
                       /\ op'[o].status = op[o].status \/ (op[o].status = "requested" /\ op'[o].status = "granted")
    BY <1>3, <1>5, <1>6
  <2>2. \A g \in Ops : group[g].members \subseteq Ops
    BY <1>1 DEF TablesTyped, GroupRows
  <2>3. ASSUME NEW o \in Ops, op'[o].status = "awaiting"
        PROVE  /\ op'[o].group \in Ops
               /\ group'[op'[o].group].status = "pending" /\ o \in group'[op'[o].group].members
    BY <1>1, <2>1, <2>3 DEF MembersAgree
  <2>4. ASSUME NEW g \in Ops, group'[g].status = "pending"
        PROVE  /\ Cardinality(group'[g].members) <= fleet'.limit
               /\ \A x \in group'[g].members : op'[x].group = g /\ op'[x].status \in {"awaiting", "denied"}
    BY <1>1, <2>1, <2>2, <2>4 DEF MembersAgree
  <2> QED
    BY <2>3, <2>4 DEF MembersAgree
<1>11. GroupsSound'
  BY <1>1, <1>5, <1>6 DEF GroupsSound
<1>12. DecisionsSound'
  <2>1. \A o \in Ops : Consented(o) => Consented(o)'
    BY <1>5, <1>6 DEF Consented
  <2>2. \A o \in Ops : o \in S => op[o].decision = "allow" \/ (op[o].decision = "pending_approval" /\ Consented(o))
    BY <1>1, <1>3 DEF DecisionsSound
  <2> QED
    BY <1>1, <1>5, <1>6, <2>1, <2>2 DEF DecisionsSound
<1>13. GrantsSound'
  <2> SUFFICES ASSUME NEW o \in Ops
               PROVE  /\ minted'[o].count = IF grant'[o].status = "none" THEN 0 ELSE 1
                      /\ grant'[o].status # "none" => minted'[o].version = op'[o].version
                      /\ grant'[o].status = "none" <=> op'[o].status \in Ungrantable
                      /\ grant'[o].status = "none" =>
                           grantDoc'[o] = "none" /\ revDoc'[o] = "none" /\ broker'[o] = "none" /\ reports'[o] = {}
                      /\ grant'[o].status = "issued" => grantDoc'[o] = "queued"
                      /\ grantDoc'[o] = "queued" => broker'[o] \notin {"held", "used"}
    BY DEF GrantsSound
  <2>1. CASE o \in S
    <3>1. grant'[o].status = "issued" /\ op'[o].status = "granted" /\ op'[o].version = op[o].version
      BY <1>5, <1>7, <2>1
    <3>2. broker'[o] = "none" /\ grantDoc'[o] = "queued" /\ minted'[o].count = 1 /\ minted'[o].version = op[o].version
      BY <1>4, <1>7, <2>1 DEF brokerVars
    <3> QED
      BY <3>1, <3>2 DEF Ungrantable
  <2>2. CASE o \notin S
    BY <1>1, <1>6, <2>2 DEF GrantsSound, brokerVars
  <2> QED
    BY <2>1, <2>2
<1>14. FailuresSound'
  BY <1>1, <1>5, <1>6 DEF FailuresSound, authority, brokerVars
<1> QED
  BY <1>8, <1>9, <1>10, <1>11, <1>12, <1>13, <1>14 DEF IInv

LEMMA IssueKeeps == ASSUME IInv, NEW c \in fleet.conns, Issue(c) PROVE IInv'
<1>1. /\ Typed /\ TablesTyped /\ ChannelTyped /\ AuthorityTyped /\ GrantsAgree /\ MembersAgree
      /\ conn \in [Conns -> Calls] /\ c \in Conns
  BY FleetTyped DEF IInv, Typed
<1> DEFINE drafts == conn[c].drafts
<1> DEFINE S == {o \in Ops : drafts[o] # NoOne}
<1>2. conn[c] \in IssueCalls /\ UNCHANGED <<group, revDoc, withdrawn, authority, brokerVars, consent, fleet>>
  BY <1>1, CallsApart DEF Issue, At
<1>3. drafts \in DraftTables /\ S \in SUBSET Ops /\ \A o \in S : drafts[o] # NoOne
  BY <1>2 DEF IssueCalls
<1>4. \/ Goto(c, Idle) /\ UNCHANGED <<op, grant, grantDoc, closed, minted>>
      \/ GiveUp(c) /\ UNCHANGED <<op, grant, grantDoc, closed, minted>>
      \/ AllRequested(S) /\ op' = OpsTo(S, "denied") /\ GiveUp(c) /\ UNCHANGED <<grant, grantDoc, minted>>
      \/ AllRequested(S) /\ (\A o \in S : Matches(o, drafts[o])) /\ Grant(S, drafts) /\ Goto(c, Idle)
  BY DEF Issue
<1>5. conn' \in [Conns -> Calls]
  BY <1>1, <1>4, GotoTyped, IdleTyped, GiveUpTyped
<1> HIDE DEF drafts, S
<1>6. CASE UNCHANGED <<op, grant, grantDoc, closed, minted>>
  BY <1>2, <1>5, <1>6, HandlerKeeps DEF tables, history
<1>7. CASE AllRequested(S) /\ op' = OpsTo(S, "denied") /\ UNCHANGED <<grant, grantDoc, minted>>
  <2>1. Steady(op') /\ \A o \in Ops : op'[o].status = IF o \in S THEN "denied" ELSE op[o].status
    BY <1>1, <1>7, OpsToYields DEF OpStatuses
  <2>2. \A o \in S : op[o].status = "requested"
    BY <1>7 DEF AllRequested
  <2>3. GroupsSteady(group')
    BY <1>1, <1>2 DEF GroupsSteady, TablesTyped
  <2>4. GrantsAgree'
    <3> SUFFICES ASSUME NEW o \in Ops PROVE AgreesThen(o)
      BY AgreeingThen
    <3>1. grant'[o] = grant[o]
      BY <1>7
    <3>2. CASE o \in S
      <4>1. grant[o] = NoGrant /\ NoGrant.status = "none"
        BY <1>1, <2>2, <3>2 DEF GrantsAgree, NoGrant
      <4> QED
        BY <2>1, <3>1, <3>2, <4>1 DEF AgreesThen
    <3>3. CASE o \notin S
      BY <1>1, <2>1, <3>1, <3>3 DEF GrantsAgree, AgreesThen
    <3> QED
      BY <3>2, <3>3
  <2>5. \A o \in Ops : Moved(o)
    BY <1>2, <1>7, <2>1, <2>2 DEF Moved, Ungrantable, authority
  <2>6. MembersAgree'
    <3>1. ASSUME NEW g \in Ops, group'[g].status = "pending", NEW x \in group'[g].members
          PROVE  op'[x].status \in {"awaiting", "denied"}
      <4>1. x \in Ops /\ op[x].status \in {"awaiting", "denied"}
        BY <1>1, <1>2, <3>1 DEF MembersAgree, TablesTyped, GroupRows
      <4> QED
        BY <2>1, <4>1
    <3>2. ASSUME NEW x \in Ops, op'[x].status = "awaiting"
          PROVE  /\ op[x].status = "awaiting"
                 /\ group'[op[x].group].status = "pending" /\ x \in group'[op[x].group].members
      <4>1. op[x].status = "awaiting"
        BY <2>1, <3>2
      <4> QED
        BY <1>1, <1>2, <4>1 DEF MembersAgree
    <3> QED
      BY <1>2, <2>1, <2>3, <3>1, <3>2, MembersKeep
  <2>7. grant' \in [Ops -> GrantRows] /\ AuthorityTyped' /\ node' = node /\ revDoc' \in [Ops -> DocumentStates]
    BY <1>1, <1>2, <1>7 DEF TablesTyped, AuthorityTyped, ChannelTyped, authority
  <2> QED
    BY <1>2, <1>5, <1>7, <2>1, <2>3, <2>4, <2>5, <2>6, <2>7, TablesStep DEF history
<1>8. CASE AllRequested(S) /\ (\A o \in S : Matches(o, drafts[o])) /\ Grant(S, drafts)
  BY <1>2, <1>3, <1>5, <1>8, GrantKeeps
<1> QED
  BY <1>4, <1>6, <1>7, <1>8

-----------------------------------------------------------------------------
(* Creating an operation.                                                  *)

\* The group an operation joins or opens, and the groups table after that.
LEMMA JoinedYields ==
  ASSUME IInv, NEW call \in CreateCalls, op[call.op].status = "absent",
         call.rule.decision = "pending_approval", NEW g \in GroupFor(call)
  PROVE  /\ g \in Ops /\ Joined(g, call) \in [Ops -> GroupRows]
         /\ \A h \in Ops : h # g => Joined(g, call)[h] = group[h]
         /\ Joined(g, call)[g].status = "pending"
         /\ call.op \in Joined(g, call)[g].members /\ IsFiniteSet(Joined(g, call)[g].members)
         /\ Cardinality(Joined(g, call)[g].members) <= fleet.limit
         /\ \/ /\ group[g].status = "pending" /\ Joined(g, call)[g].approvers = group[g].approvers
               /\ Joined(g, call)[g].members = group[g].members \cup {call.op}
            \/ g = call.op /\ group[g].status = "absent" /\ Joined(g, call)[g].members = {call.op}
<1>1. /\ Typed /\ TablesTyped /\ AuthorityTyped /\ GroupsSound /\ group \in [Ops -> GroupRows]
  BY DEF IInv, Typed, TablesTyped
<1> DEFINE o == call.op
<1> DEFINE J == Joined(g, call)
<1>2. /\ o \in Ops /\ call.rule \in Rules /\ call.version \in Nat /\ call.identity \in Nat /\ call.left \in Nat
      /\ call.rule.approvers \subseteq Operators
  BY <1>1, FleetTyped DEF CreateCalls
<1>3. group[o].status = "absent"
  BY <1>1, <1>2 DEF GroupsSound
<1>4. Scope(call) \in [version : Nat, rule : Rules, identity : Nat]
  BY <1>2 DEF Scope
<1>5. g \in Ops /\ (g \in Joinable(call) \/ g = o) /\ g # NoOne
  BY <1>2, OperationsAssumption DEF GroupFor, Joinable
<1> DEFINE row == IF g \in Joinable(call)
                    THEN [group[g] EXCEPT !.members = group[g].members \cup {o}, !.version = group[g].version + 1]
                    ELSE [status |-> "pending", members |-> {o}, version |-> 1, left |-> call.left,
                          scope |-> Scope(call), approvers |-> call.rule.approvers, by |-> NoOne]
<1>6. J = [group EXCEPT ![g] = row]
  <2>1. J = [group EXCEPT ![g] =
               IF g \in Joinable(call)
                 THEN [group[g] EXCEPT !.members = group[g].members \cup {o}, !.version = group[g].version + 1]
                 ELSE [status |-> "pending", members |-> {o}, version |-> 1, left |-> call.left,
                       scope |-> Scope(call), approvers |-> call.rule.approvers, by |-> NoOne]]
    <3>1. CASE g \in Joinable(call)
      BY <1>1, <1>5, <3>1 DEF Joined
    <3>2. CASE g \notin Joinable(call)
      BY <1>1, <1>5, <3>2 DEF Joined
    <3> QED
      BY <3>1, <3>2
  <2> QED
    BY <2>1
<1>7. CASE g \in Joinable(call)
  <2>1. /\ group[g].status = "pending" /\ Cardinality(group[g].members) < fleet.limit
        /\ group[g] \in GroupRows /\ IsFiniteSet(group[g].members)
    BY <1>1, <1>5, <1>7 DEF Joinable, GroupsSound
  <2> DEFINE m == group[g].members \cup {o}
  <2> DEFINE r == [group[g] EXCEPT !.members = m]
  <2>2. row = [r EXCEPT !.version = group[g].version + 1]
    BY <1>7
  <2>3. m \in SUBSET Ops /\ group[g].version + 1 \in Nat
    BY <1>2, <2>1 DEF GroupRows
  <2>4. /\ IsFiniteSet(m) /\ Cardinality(m) <= fleet.limit
    <3>1. /\ IsFiniteSet(m)
          /\ Cardinality(m) = IF o \in group[g].members THEN Cardinality(group[g].members)
                              ELSE Cardinality(group[g].members) + 1
      BY <2>1, FS_AddElement
    <3>2. Cardinality(group[g].members) \in Nat /\ fleet.limit \in Nat
      BY <1>1, <2>1, FS_CardinalityType, FleetTyped
    <3> QED
      BY <2>1, <3>1, <3>2
  <2>5. o \in m /\ m = group[g].members \cup {o}
    OBVIOUS
  <2> HIDE DEF m
  <2>6. r \in GroupRows /\ r.members = m /\ r.status = "pending" /\ r.approvers = group[g].approvers
    BY <2>1, <2>3 DEF GroupRows
  <2> HIDE DEF r, row
  <2>7. row \in GroupRows /\ row.members = m /\ row.status = "pending" /\ row.approvers = group[g].approvers
    BY <2>2, <2>3, <2>6 DEF GroupRows
  <2>8. J \in [Ops -> GroupRows] /\ J[g] = row /\ \A h \in Ops : h # g => J[h] = group[h]
    BY <1>1, <1>5, <1>6, <2>7
  <2> HIDE DEF J
  <2>9. /\ J[g].status = "pending" /\ o \in J[g].members /\ IsFiniteSet(J[g].members)
        /\ Cardinality(J[g].members) <= fleet.limit
        /\ J[g].members = group[g].members \cup {o} /\ J[g].approvers = group[g].approvers
    BY <2>4, <2>5, <2>7, <2>8
  <2> QED
    BY <1>5, <2>1, <2>8, <2>9 DEF J
<1>8. CASE g \notin Joinable(call)
  <2>1. row = [status |-> "pending", members |-> {o}, version |-> 1, left |-> call.left,
               scope |-> Scope(call), approvers |-> call.rule.approvers, by |-> NoOne]
    BY <1>8
  <2>2. IsFiniteSet({o}) /\ Cardinality({o}) = 1
    BY FS_Singleton
  <2>3. 1 <= fleet.limit
    BY <1>1, FleetTyped
  <2>4. {o} \in SUBSET Ops /\ call.rule.approvers \in SUBSET Operators /\ NoOne \in People /\ 1 \in Nat
    BY <1>2 DEF People
  <2> DEFINE sc == Scope(call)
  <2> DEFINE ap == call.rule.approvers
  <2> HIDE DEF row, sc, ap
  <2>5. row \in GroupRows /\ row.members = {o} /\ row.status = "pending"
    <3>1. /\ row = [status |-> "pending", members |-> {o}, version |-> 1, left |-> call.left,
                    scope |-> sc, approvers |-> ap, by |-> NoOne]
          /\ sc \in [version : Nat, rule : Rules, identity : Nat] /\ ap \in SUBSET Operators
      BY <1>4, <2>1, <2>4 DEF sc, ap
    <3> QED
      BY <1>2, <2>4, <3>1 DEF GroupRows
  <2>6. J \in [Ops -> GroupRows] /\ J[g] = row /\ \A h \in Ops : h # g => J[h] = group[h]
    BY <1>1, <1>5, <1>6, <2>5
  <2> HIDE DEF J
  <2>7. /\ J[g].status = "pending" /\ o \in J[g].members /\ IsFiniteSet(J[g].members)
        /\ Cardinality(J[g].members) <= fleet.limit /\ J[g].members = {o}
    BY <2>2, <2>3, <2>5, <2>6
  <2>8. g = o
    BY <1>5, <1>8
  <2> QED
    BY <1>3, <1>5, <2>6, <2>7, <2>8 DEF J
<1> QED
  BY <1>7, <1>8

LEMMA CreateKeeps ==
  ASSUME IInv, NEW call \in CreateCalls, op[call.op].status = "absent", Create(call),
         UNCHANGED <<grant, grantDoc, revDoc, authority, brokerVars, history, fleet>>, conn' \in [Conns -> Calls]
  PROVE  IInv'
<1>1. /\ Typed /\ TablesTyped /\ ChannelTyped /\ AuthorityTyped /\ HistoryTyped
      /\ GrantsAgree /\ MembersAgree /\ GroupsSound /\ DecisionsSound /\ GrantsSound /\ FailuresSound
  BY DEF IInv, Typed
<1> DEFINE o == call.op
<1> DEFINE d == call.rule.decision
<1>2. /\ o \in Ops /\ call.by \in People /\ call.version \in Nat /\ call.ttl \in Nat /\ call.left \in Nat
      /\ d \in {"allow", "pending_approval", "deny"}
  BY <1>1, FleetTyped DEF CreateCalls
<1>3. PICK g \in GroupFor(call) :
        op' = [op EXCEPT ![o] = NewOperation(call, g)] /\ group' = Joined(g, call)
  BY DEF Create
<1>4. d # "pending_approval" => g = NoOne /\ group' = group
  BY <1>3 DEF GroupFor, Joined
<1>5. d = "pending_approval" =>
        /\ g \in Ops /\ group' \in [Ops -> GroupRows] /\ \A h \in Ops : h # g => group'[h] = group[h]
        /\ group'[g].status = "pending" /\ o \in group'[g].members /\ IsFiniteSet(group'[g].members)
        /\ Cardinality(group'[g].members) <= fleet.limit
        /\ \/ /\ group[g].status = "pending" /\ group'[g].approvers = group[g].approvers
              /\ group'[g].members = group[g].members \cup {o}
           \/ g = o /\ group[g].status = "absent" /\ group'[g].members = {o}
  <2> SUFFICES ASSUME d = "pending_approval"
               PROVE  /\ g \in Ops /\ group' \in [Ops -> GroupRows] /\ \A h \in Ops : h # g => group'[h] = group[h]
                      /\ group'[g].status = "pending" /\ o \in group'[g].members /\ IsFiniteSet(group'[g].members)
                      /\ Cardinality(group'[g].members) <= fleet.limit
                      /\ \/ /\ group[g].status = "pending" /\ group'[g].approvers = group[g].approvers
                            /\ group'[g].members = group[g].members \cup {o}
                         \/ g = o /\ group[g].status = "absent" /\ group'[g].members = {o}
    OBVIOUS
  <2>1. group' = Joined(g, call)
    BY <1>3
  <2> QED
    BY <2>1, JoinedYields
<1> DEFINE s == FirstStatus(d)
<1> DEFINE r == NewOperation(call, g)
<1>6. /\ d = "allow" => s = "requested"
      /\ d = "pending_approval" => s = "awaiting"
      /\ d = "deny" => s = "denied"
      /\ s \in {"requested", "awaiting", "denied"}
  BY <1>2 DEF FirstStatus
<1>7. g \in Ops \cup {NoOne} /\ (g \in Ops => d = "pending_approval")
  BY <1>2, <1>4, <1>5, OperationsAssumption
<1>8. r = [status |-> s, by |-> call.by, decision |-> d, version |-> call.version,
           ttl |-> call.ttl, left |-> call.left, group |-> g]
  BY DEF NewOperation
<1> HIDE DEF d, s, r
<1>9. r \in OpRows /\ r.status = s /\ r.decision = d /\ r.group = g
  BY <1>2, <1>6, <1>7, <1>8 DEF OpRows
<1>10. op' \in [Ops -> OpRows] /\ op'[o] = r /\ \A x \in Ops : x # o => op'[x] = op[x]
  BY <1>1, <1>2, <1>3, <1>9 DEF TablesTyped, r
<1>11. group' \in [Ops -> GroupRows]
  BY <1>1, <1>4, <1>5 DEF TablesTyped
<1>12. group[o].status = "absent" /\ \A x \in Ops : op[x].group # o
  BY <1>1, <1>2 DEF GroupsSound
<1>13. grant[o] = NoGrant /\ grant[o].status = "none"
  <2>1. op[o].status = "absent"
    OBVIOUS
  <2>2. grant[o] = NoGrant
    BY <1>1, <1>2, <2>1 DEF GrantsAgree
  <2>3. NoGrant.status = "none"
    BY DEF NoGrant
  <2> QED
    BY <2>2, <2>3
<1> HIDE DEF o
<1>20. Typed'
  BY <1>1, <1>10, <1>11 DEF Typed, TablesTyped, ChannelTyped, AuthorityTyped, HistoryTyped, authority, brokerVars, history
<1>21. GrantsAgree'
  <2> SUFFICES ASSUME NEW x \in Ops PROVE AgreesThen(x)
    BY AgreeingThen
  <2>1. CASE x = o
    BY <1>6, <1>9, <1>10, <1>13, <2>1 DEF AgreesThen
  <2>2. CASE x # o
    BY <1>1, <1>10, <2>2 DEF GrantsAgree, AgreesThen
  <2> QED
    BY <2>1, <2>2
<1>22. MembersAgree'
  <2>1. ASSUME NEW x \in Ops, op'[x].status = "awaiting"
        PROVE  /\ op'[x].group \in Ops
               /\ group'[op'[x].group].status = "pending" /\ x \in group'[op'[x].group].members
    <3>1. CASE x = o
      <4>1. d = "pending_approval" /\ op'[x].group = g
        BY <1>2, <1>6, <1>9, <1>10, <2>1, <3>1
      <4> QED
        BY <1>5, <3>1, <4>1
    <3>2. CASE x # o
      <4>1. /\ op'[x] = op[x] /\ op[x].group \in Ops
            /\ group[op[x].group].status = "pending" /\ x \in group[op[x].group].members
        BY <1>1, <1>10, <2>1, <3>2 DEF MembersAgree
      <4>2. CASE d # "pending_approval"
        BY <1>4, <4>1, <4>2
      <4>3. CASE d = "pending_approval"
        BY <1>5, <4>1, <4>3
      <4> QED
        BY <4>2, <4>3
    <3> QED
      BY <3>1, <3>2
  <2>2. ASSUME NEW h \in Ops, group'[h].status = "pending"
        PROVE  /\ Cardinality(group'[h].members) <= fleet'.limit
               /\ \A x \in group'[h].members : op'[x].group = h /\ op'[x].status \in {"awaiting", "denied"}
    <3>1. ASSUME group[h].status = "pending"
          PROVE  /\ Cardinality(group[h].members) <= fleet.limit
                 /\ \A x \in group[h].members : x # o /\ op'[x].group = h /\ op'[x].status \in {"awaiting", "denied"}
      <4>1. /\ Cardinality(group[h].members) <= fleet.limit
            /\ \A x \in group[h].members : x \in Ops /\ op[x].group = h /\ op[x].status \in {"awaiting", "denied"}
        BY <1>1, <3>1 DEF MembersAgree, TablesTyped, GroupRows
      <4>2. op[o].status = "absent"
        BY DEF o
      <4> QED
        BY <1>10, <4>1, <4>2
    <3>2. CASE d # "pending_approval" \/ h # g
      <4>1. group'[h] = group[h]
        BY <1>4, <1>5, <3>2
      <4> QED
        BY <2>2, <3>1, <4>1
    <3>3. CASE d = "pending_approval" /\ h = g
      <4>1. op'[o].group = g /\ op'[o].status = "awaiting"
        BY <1>6, <1>9, <1>10, <3>3
      <4>2. Cardinality(group'[h].members) <= fleet'.limit
        BY <1>5, <3>3
      <4>3. \A x \in group'[h].members : x = o \/ (group[h].status = "pending" /\ x \in group[h].members)
        BY <1>5, <3>3
      <4> QED
        BY <3>1, <3>3, <4>1, <4>2, <4>3
    <3> QED
      BY <3>2, <3>3
  <2> QED
    BY <2>1, <2>2 DEF MembersAgree
<1>23. GroupsSound'
  <2>1. \A x \in Ops : IsFiniteSet(group'[x].members)
    BY <1>1, <1>2, <1>4, <1>5 DEF GroupsSound
  <2>2. ASSUME NEW x \in Ops, op'[x].status = "absent" PROVE group'[x].status = "absent"
    <3>1. x # o /\ op[x].status = "absent" /\ group[x].status = "absent"
      BY <1>1, <1>6, <1>9, <1>10, <2>2 DEF GroupsSound
    <3> QED
      BY <1>4, <1>5, <3>1
  <2>3. ASSUME NEW x \in Ops, op'[x].group \in Ops PROVE group'[op'[x].group].status # "absent"
    <3>1. CASE x = o
      BY <1>5, <1>7, <1>9, <1>10, <2>3, <3>1
    <3>2. CASE x # o
      <4>1. op'[x] = op[x] /\ group[op[x].group].status # "absent"
        BY <1>1, <1>10, <2>3, <3>2 DEF GroupsSound
      <4> QED
        BY <1>4, <1>5, <2>3, <4>1
    <3> QED
      BY <3>1, <3>2
  <2> QED
    BY <2>1, <2>2, <2>3 DEF GroupsSound
<1>24. DecisionsSound'
  <2>1. ASSUME NEW x \in Ops, x # o, Consented(x) PROVE Consented(x)'
    <3>1. op'[x] = op[x] /\ op[x].group # o
      BY <1>10, <1>12, <2>1
    <3>2. op[x].group \in Ops => group'[op[x].group].approvers = group[op[x].group].approvers
      BY <1>4, <1>5, <3>1
    <3> QED
      BY <2>1, <3>1, <3>2 DEF Consented, history
  <2>2. op'[o].status = "requested" => op'[o].decision = "allow"
    BY <1>2, <1>6, <1>9, <1>10 DEF d
  <2>3. op'[o].status = "awaiting" => op'[o].decision = "pending_approval"
    BY <1>2, <1>6, <1>9, <1>10 DEF d
  <2>4. op'[o].status \in {"requested", "awaiting", "denied"}
    BY <1>6, <1>9, <1>10
  <2> QED
    BY <1>1, <1>10, <2>1, <2>2, <2>3, <2>4 DEF DecisionsSound
<1>25. GrantsSound'
  <2>1. op'[o].status \in Ungrantable
    BY <1>6, <1>9, <1>10 DEF Ungrantable
  <2> QED
    BY <1>1, <1>10, <1>13, <2>1 DEF GrantsSound, brokerVars, history
<1>26. FailuresSound'
  BY <1>1, <1>6, <1>9, <1>10 DEF FailuresSound, authority, brokerVars
<1> QED
  BY <1>20, <1>21, <1>22, <1>23, <1>24, <1>25, <1>26 DEF IInv

LEMMA CreateCommitKeeps == ASSUME IInv, NEW c \in fleet.conns, CreateCommit(c) PROVE IInv'
<1>1. Typed /\ TablesTyped /\ AuthorityTyped /\ conn \in [Conns -> Calls] /\ c \in Conns
  BY FleetTyped DEF IInv, Typed
<1>2. /\ conn[c] \in CreateCalls
      /\ UNCHANGED <<grant, grantDoc, revDoc, withdrawn, authority, brokerVars, history, fleet>>
  BY <1>1, CallsApart DEF CreateCommit, At
<1> DEFINE call == conn[c]
<1>3. call.op \in Ops /\ call.by \in People
  BY <1>2 DEF CreateCalls
<1>4. \/ Goto(c, Resume(call.op, call.by)) /\ UNCHANGED <<op, group, closed>>
      \/ Goto(c, Idle) /\ UNCHANGED <<op, group, closed>>
      \/ /\ op[call.op].status = "absent" /\ Create(call)
         /\ Goto(c, IF call.rule.decision = "allow" THEN Issuing({call.op}, call.by) ELSE Idle)
  BY DEF CreateCommit
<1>5. Resume(call.op, call.by) \in Calls /\ Issuing({call.op}, call.by) \in Calls /\ Idle \in Calls
  BY <1>3, ResumeTyped, IssuingTyped, IdleTyped
<1>6. conn' \in [Conns -> Calls]
  BY <1>1, <1>4, <1>5, GotoTyped
<1>7. CASE UNCHANGED <<op, group, closed>>
  BY <1>2, <1>6, <1>7, HandlerKeeps DEF tables
<1>8. CASE op[call.op].status = "absent" /\ Create(call)
  BY <1>2, <1>6, <1>8, CreateKeeps
<1> QED
  BY <1>4, <1>7, <1>8

-----------------------------------------------------------------------------
(* Deciding a group.                                                       *)

Decided(g, v, who) ==
  [group EXCEPT ![g].status = v, ![g].version = group[g].version + 1, ![g].by = who]

\* a is the groups table once the pending group g has its verdict v.
WithVerdict(a, g, v) ==
  /\ GroupsSteady(a)
  /\ \A h \in Ops : a[h].status = (IF h = g THEN v ELSE group[h].status) /\ a[h].members = group[h].members

LEMMA VerdictYields ==
  ASSUME TablesTyped, NEW g \in Ops, NEW v \in {"approved", "rejected"}, NEW who \in People,
         group[g].status = "pending"
  PROVE  WithVerdict(Decided(g, v, who), g, v)
<1> DEFINE a == Decided(g, v, who)
<1>1. group \in [Ops -> GroupRows] /\ \A h \in Ops : group[h] \in GroupRows /\ group[g].version + 1 \in Nat
  BY DEF TablesTyped, GroupRows
<1> DEFINE r == [group[g] EXCEPT !.status = v]
<1> DEFINE q == [r EXCEPT !.version = group[g].version + 1]
<1> DEFINE w == [q EXCEPT !.by = who]
<1>2. r \in GroupRows /\ r.approvers = group[g].approvers /\ r.members = group[g].members /\ r.status = v
  BY <1>1 DEF GroupRows
<1>3. a = [group EXCEPT ![g] = w]
  BY <1>1 DEF Decided
<1> HIDE DEF a
<1> HIDE DEF r
<1>4. q \in GroupRows /\ q.approvers = group[g].approvers /\ q.members = group[g].members /\ q.status = v
  BY <1>1, <1>2 DEF GroupRows
<1> HIDE DEF q
<1>5. w \in GroupRows /\ w.approvers = group[g].approvers /\ w.members = group[g].members /\ w.status = v
  <2>1. w.approvers = q.approvers /\ w.members = q.members /\ w.status = q.status
    BY <1>4 DEF GroupRows
  <2>2. w \in GroupRows
    BY <1>4 DEF GroupRows
  <2> QED
    BY <1>4, <2>1, <2>2
<1> HIDE DEF w
<1>6. a \in [Ops -> GroupRows] /\ a[g] = w /\ \A h \in Ops : h # g => a[h] = group[h]
  <2>1. a = [group EXCEPT ![g] = w] /\ group \in [Ops -> GroupRows] /\ w \in GroupRows
    BY <1>1, <1>3, <1>5
  <2> QED
    BY <2>1, SMTT(30)
<1>7. GroupsSteady(a)
  BY <1>5, <1>6 DEF GroupsSteady
<1> QED
  BY <1>5, <1>6, <1>7 DEF WithVerdict, a

\* A group ends and its members are denied.
LEMMA DeniedKeeps ==
  ASSUME IInv, NEW g \in Ops, group[g].status = "pending", GroupsSteady(group'),
         NEW v \in {"expired", "rejected"},
         \A h \in Ops : group'[h].status = IF h = g THEN v ELSE group[h].status,
         \A h \in Ops : group'[h].members = group[h].members,
         op' = OpsTo(Awaiting({g}), "denied"),
         UNCHANGED <<grant, grantDoc, revDoc, authority, brokerVars, history, fleet>>, conn' \in [Conns -> Calls]
  PROVE  IInv'
<1>1. Typed /\ TablesTyped /\ ChannelTyped /\ AuthorityTyped /\ GrantsAgree /\ MembersAgree
  BY DEF IInv, Typed
<1>2. Steady(op') /\ \A o \in Ops : op'[o].status = IF o \in Awaiting({g}) THEN "denied" ELSE op[o].status
  BY <1>1, OpsToYields DEF OpStatuses
<1>3. \A o \in Ops : o \in Awaiting({g}) <=> op[o].status = "awaiting" /\ op[o].group = g
  BY DEF Awaiting
<1>4. GrantsAgree'
  <2> SUFFICES ASSUME NEW o \in Ops PROVE AgreesThen(o)
    BY AgreeingThen
  <2>1. CASE o \in Awaiting({g})
    <3>1. grant[o] = NoGrant /\ NoGrant.status = "none"
      BY <1>1, <1>3, <2>1 DEF GrantsAgree, NoGrant
    <3> QED
      BY <1>2, <2>1, <3>1 DEF AgreesThen
  <2>2. CASE o \notin Awaiting({g})
    <3>1. op'[o].status = op[o].status /\ grant'[o] = grant[o]
      BY <1>2, <2>2
    <3> QED
      BY <1>1, <3>1, SMTT(30) DEF GrantsAgree, AgreesThen
  <2> QED
    BY <2>1, <2>2
<1>5. \A o \in Ops : Moved(o)
  BY <1>2, <1>3 DEF Moved, Ungrantable, authority
<1>6. MembersAgree'
  <2>1. ASSUME NEW h \in Ops, group'[h].status = "pending", NEW x \in group'[h].members
        PROVE  op'[x].status \in {"awaiting", "denied"}
    <3>1. x \in Ops /\ op[x].status \in {"awaiting", "denied"}
      BY <1>1, <2>1 DEF MembersAgree, TablesTyped, GroupRows
    <3> QED
      BY <1>2, <3>1
  <2>2. ASSUME NEW x \in Ops, op'[x].status = "awaiting"
        PROVE  /\ op[x].status = "awaiting"
               /\ group'[op[x].group].status = "pending" /\ x \in group'[op[x].group].members
    <3>1. op[x].status = "awaiting" /\ op[x].group # g
      BY <1>2, <1>3, <2>2
    <3>2. op[x].group \in Ops /\ group[op[x].group].status = "pending" /\ x \in group[op[x].group].members
      BY <1>1, <3>1 DEF MembersAgree
    <3> QED
      BY <3>1, <3>2
  <2> QED
    BY <1>2, <2>1, <2>2, MembersKeep
<1>7. grant' \in [Ops -> GrantRows] /\ AuthorityTyped' /\ node' = node /\ revDoc' \in [Ops -> DocumentStates]
  BY <1>1 DEF TablesTyped, AuthorityTyped, ChannelTyped, authority
<1> QED
  BY <1>2, <1>4, <1>5, <1>6, <1>7, TablesStep

\* A pending group is approved, as it was shown.
ApprovedStep(g, who) ==
  /\ op' = Approved(Awaiting({g}))
  /\ consent' = [o \in Ops |-> IF o \in Awaiting({g})
                                THEN [by |-> who, shown |-> o \in group[g].members] ELSE consent[o]]
  /\ GroupsSteady(group')
  /\ \A h \in Ops : /\ group'[h].status = IF h = g THEN "approved" ELSE group[h].status
                    /\ group'[h].members = group[h].members
  /\ UNCHANGED <<grant, grantDoc, revDoc, authority, brokerVars, minted, fleet>>
  /\ conn' \in [Conns -> Calls]

LEMMA ApprovedKeeps ==
  ASSUME IInv, NEW g \in Ops, NEW who \in Operators, group[g].status = "pending", MayDecide(who, g),
         ApprovedStep(g, who)
  PROVE  IInv'
<1>15. /\ GroupsSteady(group')
       /\ \A h \in Ops : /\ group'[h].status = IF h = g THEN "approved" ELSE group[h].status
                         /\ group'[h].members = group[h].members
  BY DEF ApprovedStep
<1>16. /\ UNCHANGED <<grant, grantDoc, revDoc, authority, brokerVars, minted, fleet>>
       /\ conn' \in [Conns -> Calls]
  BY DEF ApprovedStep
<1>1. /\ Typed /\ TablesTyped /\ ChannelTyped /\ AuthorityTyped /\ HistoryTyped
      /\ GrantsAgree /\ MembersAgree /\ GroupsSound /\ DecisionsSound /\ GrantsSound /\ FailuresSound
  BY DEF IInv, Typed
<1> DEFINE S == Awaiting({g})
<1>2. \A o \in Ops : o \in S <=> op[o].status = "awaiting" /\ op[o].group = g
  BY DEF Awaiting
<1>3. \A o \in S : /\ o \in Ops /\ op[o].status = "awaiting" /\ op[o].group = g /\ o \in group[g].members
                   /\ op[o].decision = "pending_approval" /\ op[o].by # who
  <2>1. \A o \in S : o \in Ops /\ op[o].status = "awaiting" /\ op[o].group = g
    BY DEF Awaiting
  <2>2. ASSUME NEW o \in S PROVE o \in group[g].members /\ op[o].decision = "pending_approval"
    <3>1. o \in Ops /\ op[o].status = "awaiting" /\ op[o].group = g
      BY <2>1
    <3>2. o \in group[g].members
      BY <1>1, <3>1 DEF MembersAgree
    <3>3. op[o].decision = "pending_approval"
      BY <1>1, <3>1 DEF DecisionsSound
    <3> QED
      BY <3>2, <3>3
  <2>3. \A o \in S : op[o].by # who
    BY <2>1 DEF MayDecide
  <2> QED
    BY <2>1, <2>2, <2>3
<1>4. /\ op' = [o \in Ops |-> IF o \in S THEN [op[o] EXCEPT !.status = "requested", !.left = op[o].ttl] ELSE op[o]]
      /\ consent' = [o \in Ops |-> IF o \in S THEN [by |-> who, shown |-> o \in group[g].members] ELSE consent[o]]
  BY DEF Approved, ApprovedStep
<1> HIDE DEF S
<1>5. \A o \in Ops : o \notin S => op'[o] = op[o] /\ consent'[o] = consent[o]
  BY <1>4
<1>6. \A o \in S : /\ op'[o] \in OpRows /\ op'[o].status = "requested" /\ op'[o].by = op[o].by
                   /\ op'[o].decision = op[o].decision /\ op'[o].version = op[o].version /\ op'[o].group = op[o].group
  <2> TAKE o \in S
  <2> DEFINE q == [op[o] EXCEPT !.status = "requested"]
  <2>1. op[o] \in OpRows /\ "requested" \in OpStatuses /\ op[o].ttl \in Nat
    BY <1>1, <1>3 DEF TablesTyped, OpStatuses, OpRows
  <2>2. /\ q \in OpRows /\ q.status = "requested" /\ q.by = op[o].by /\ q.decision = op[o].decision
        /\ q.version = op[o].version /\ q.group = op[o].group
    BY <2>1, RowTo
  <2>3. op'[o] = [q EXCEPT !.left = op[o].ttl]
    BY <1>3, <1>4
  <2> HIDE DEF q
  <2> QED
    BY <2>1, <2>2, <2>3 DEF OpRows
<1>7. \A o \in S : consent'[o] \in [by : People, shown : BOOLEAN] /\ consent'[o].by = who /\ consent'[o].shown
  <2> TAKE o \in S
  <2>1. consent'[o] = [by |-> who, shown |-> o \in group[g].members]
    BY <1>3, <1>4
  <2> DEFINE b == o \in group[g].members
  <2>2. b = TRUE
    BY <1>3
  <2>3. consent'[o] = [by |-> who, shown |-> b]
    BY <2>1
  <2> DEFINE r == consent'[o]
  <2>4. who \in People /\ b \in BOOLEAN
    BY DEF People
  <2>5. r = [by |-> who, shown |-> b]
    BY <2>3
  <2> HIDE DEF b, r
  <2>6. r \in [by : People, shown : BOOLEAN]
    BY <2>4, <2>5
  <2>7. r.by = who /\ r.shown = b
    BY <2>5
  <2> QED
    BY <2>2, <2>6, <2>7, Zenon DEF r
<1>8. Typed'
  <2>1. op' \in [Ops -> OpRows]
    <3>1. op' = [o \in Ops |-> op'[o]]
      BY <1>4
    <3>2. \A o \in Ops : op'[o] \in OpRows
      BY <1>1, <1>5, <1>6 DEF TablesTyped
    <3> QED
      BY <3>1, <3>2
  <2>2. consent' \in [Ops -> [by : People, shown : BOOLEAN]]
    <3>1. consent' = [o \in Ops |-> consent'[o]]
      BY <1>4
    <3>2. \A o \in Ops : consent'[o] \in [by : People, shown : BOOLEAN]
      <4> TAKE o \in Ops
      <4>1. CASE o \in S
        BY <1>7, <4>1
      <4>2. CASE o \notin S
        BY <1>1, <1>5, <4>2 DEF HistoryTyped
      <4> QED
        BY <4>1, <4>2
    <3> QED
      BY <3>1, <3>2
  <2> QED
    BY <1>1, <1>15, <1>16, <2>1, <2>2
       DEF Typed, TablesTyped, ChannelTyped, AuthorityTyped, HistoryTyped, GroupsSteady, authority, brokerVars
<1>9. GrantsAgree'
  <2> SUFFICES ASSUME NEW o \in Ops PROVE AgreesThen(o)
    BY AgreeingThen
  <2>1. CASE o \in S
    <3>1. grant[o] = NoGrant /\ NoGrant.status = "none"
      BY <1>1, <1>3, <2>1 DEF GrantsAgree, NoGrant
    <3>2. grant'[o] = grant[o]
      BY <1>16
    <3> QED
      BY <1>6, <2>1, <3>1, <3>2 DEF AgreesThen
  <2>2. CASE o \notin S
    <3>1. op'[o] = op[o] /\ grant'[o] = grant[o]
      BY <1>5, <1>16, <2>2
    <3> QED
      BY <1>1, <3>1 DEF GrantsAgree, AgreesThen
  <2> QED
    BY <2>1, <2>2
<1>10. MembersAgree'
  <2>1. ASSUME NEW h \in Ops, group'[h].status = "pending"
        PROVE  /\ Cardinality(group'[h].members) <= fleet'.limit
               /\ \A x \in group'[h].members : op'[x].group = h /\ op'[x].status \in {"awaiting", "denied"}
    <3>1. h # g /\ group[h].status = "pending" /\ group'[h].members = group[h].members
      BY <1>15, <2>1
    <3>2. /\ Cardinality(group[h].members) <= fleet.limit
          /\ \A x \in group[h].members : x \in Ops /\ op[x].group = h /\ op[x].status \in {"awaiting", "denied"}
      BY <1>1, <3>1 DEF MembersAgree, TablesTyped, GroupRows
    <3>3. \A x \in group[h].members : op'[x] = op[x]
      BY <1>3, <1>5, <3>1, <3>2
    <3> QED
      BY <1>16, <3>1, <3>2, <3>3
  <2>2. ASSUME NEW x \in Ops, op'[x].status = "awaiting"
        PROVE  /\ op'[x].group \in Ops
               /\ group'[op'[x].group].status = "pending" /\ x \in group'[op'[x].group].members
    <3>1. x \notin S /\ op'[x] = op[x]
      BY <1>5, <1>6, <2>2
    <3>2. op[x].group # g
      BY <1>2, <2>2, <3>1
    <3>3. op[x].group \in Ops /\ group[op[x].group].status = "pending" /\ x \in group[op[x].group].members
      BY <1>1, <2>2, <3>1 DEF MembersAgree
    <3> QED
      BY <1>15, <3>1, <3>2, <3>3
  <2> QED
    BY <2>1, <2>2 DEF MembersAgree
<1>11. GroupsSound'
  <2>1. \A o \in Ops : IsFiniteSet(group'[o].members)
    BY <1>1, <1>15 DEF GroupsSound
  <2>2. ASSUME NEW o \in Ops, op'[o].status = "absent" PROVE group'[o].status = "absent"
    <3>1. op[o].status = "absent"
      BY <1>5, <1>6, <2>2
    <3>2. group[o].status = "absent"
      BY <1>1, <3>1 DEF GroupsSound
    <3> QED
      BY <1>15, <3>2
  <2>3. ASSUME NEW o \in Ops, op'[o].group \in Ops PROVE group'[op'[o].group].status # "absent"
    <3>1. op'[o].group = op[o].group
      BY <1>5, <1>6
    <3>2. group[op[o].group].status # "absent"
      BY <1>1, <2>3, <3>1 DEF GroupsSound
    <3> QED
      BY <1>15, <2>3, <3>1, <3>2
  <2> QED
    BY <2>1, <2>2, <2>3 DEF GroupsSound
<1>12. DecisionsSound'
  <2>1. \A h \in Ops : group'[h].approvers = group[h].approvers
    BY <1>15 DEF GroupsSteady
  <2>2. ASSUME NEW o \in S PROVE Consented(o)'
    <3>1. op'[o].group = g /\ op'[o].by # who /\ who \in group'[g].approvers
      <4>1. who \in group[g].approvers
        BY DEF MayDecide
      <4>2. op[o].group = g /\ op[o].by # who /\ op'[o].group = op[o].group /\ op'[o].by = op[o].by
        BY <1>3, <1>6, <2>2
      <4>3. who \in group'[g].approvers
        BY <2>1, <4>1
      <4> QED
        BY <4>2, <4>3
    <3> QED
      BY <1>7, <3>1 DEF Consented
  <2>3. ASSUME NEW o \in Ops, o \notin S, Consented(o) PROVE Consented(o)'
    BY <1>5, <2>1, <2>3 DEF Consented
  <2>4. \A o \in S : op'[o].status = "requested" /\ op'[o].decision = "pending_approval"
    BY <1>3, <1>6
  <2> SUFFICES ASSUME NEW o \in Ops
               PROVE  /\ op'[o].status = "awaiting" => op'[o].decision = "pending_approval"
                      /\ op'[o].status \notin {"absent", "awaiting", "denied", "cancelled"} =>
                           \/ op'[o].decision = "allow"
                           \/ op'[o].decision = "pending_approval" /\ Consented(o)'
    BY DEF DecisionsSound
  <2>5. CASE o \in S
    BY <2>2, <2>4, <2>5
  <2>6. CASE o \notin S
    <3>1. op'[o] = op[o]
      BY <1>5, <2>6
    <3> QED
      BY <1>1, <2>3, <2>6, <3>1 DEF DecisionsSound
  <2> QED
    BY <2>5, <2>6
<1>13. GrantsSound'
  <2>1. \A o \in Ops : op'[o].version = op[o].version /\ (op'[o].status \in Ungrantable <=> op[o].status \in Ungrantable)
    BY <1>3, <1>5, <1>6 DEF Ungrantable
  <2> QED
    BY <1>1, <1>16, <2>1 DEF GrantsSound, brokerVars
<1>14. FailuresSound'
  BY <1>1, <1>5, <1>6, <1>16 DEF FailuresSound, authority, brokerVars
<1> QED
  BY <1>8, <1>9, <1>10, <1>11, <1>12, <1>13, <1>14 DEF IInv

LEMMA DecideKeeps ==
  ASSUME IInv, NEW c \in fleet.conns, NEW verdict \in {"approved", "rejected"}, DecideCommit(c, verdict)
  PROVE  IInv'
<1>1. Typed /\ TablesTyped /\ AuthorityTyped /\ conn \in [Conns -> Calls] /\ c \in Conns
  BY FleetTyped DEF IInv, Typed
<1>2. /\ conn[c] \in DecideCalls
      /\ UNCHANGED <<grant, grantDoc, revDoc, withdrawn, authority, brokerVars, minted, fleet>>
  BY <1>1, CallsApart DEF DecideCommit, At
<1> DEFINE call == conn[c]
<1> DEFINE g == call.group
<1> DEFINE S == Awaiting({g})
<1>3. g \in Ops /\ call.who \in Operators /\ call.who \in People /\ group[g].members \in SUBSET Ops /\ NoOne \in People
  BY <1>1, <1>2 DEF DecideCalls, People, TablesTyped, GroupRows
<1> DEFINE gone == [group EXCEPT ![g].status = verdict, ![g].version = group[g].version + 1, ![g].by = call.who]
<1>4. \/ Goto(c, Idle) /\ UNCHANGED <<op, group, closed, consent>>
      \/ /\ AsShown(call) /\ MayDecide(call.who, g)
         /\ \/ group' = GroupsExpired({g}) /\ op' = OpsTo(S, "denied") /\ Goto(c, Idle) /\ consent' = consent
            \/ /\ verdict = "approved" /\ group' = gone /\ op' = Approved(S)
               /\ consent' = [o \in Ops |-> IF o \in S THEN [by |-> call.who, shown |-> o \in call.members]
                                             ELSE consent[o]]
               /\ Goto(c, Issuing(group[g].members, NoOne))
            \/ verdict = "rejected" /\ group' = gone /\ op' = OpsTo(S, "denied") /\ Goto(c, Idle) /\ consent' = consent
  BY DEF DecideCommit
<1>5. conn' \in [Conns -> Calls]
  <2>1. Issuing(group[g].members, NoOne) \in Calls
    BY <1>3, IssuingTyped
  <2> QED
    BY <1>1, <1>4, <2>1, GotoTyped, IdleTyped
<1>6. CASE UNCHANGED <<op, group, closed, consent>>
  BY <1>2, <1>5, <1>6, HandlerKeeps DEF tables, history
<1>7. AsShown(call) => group[g].status = "pending" /\ call.members = group[g].members
  BY DEF AsShown
<1>8. CASE /\ AsShown(call) /\ group' = GroupsExpired({g}) /\ op' = OpsTo(S, "denied") /\ consent' = consent
  <2> HIDE DEF g, call
  <2>1. /\ GroupsSteady(group') /\ \A h \in Ops : /\ group'[h].status = IF h \in {g} THEN "expired" ELSE group[h].status
                                                  /\ group'[h].members = group[h].members
    BY <1>1, <1>3, <1>7, <1>8, GroupsExpiredYields
  <2>2. \A h \in Ops : group'[h].status = IF h = g THEN "expired" ELSE group[h].status
    BY <2>1
  <2>3. /\ group[g].status = "pending" /\ op' = OpsTo(Awaiting({g}), "denied")
        /\ UNCHANGED <<grant, grantDoc, revDoc, authority, brokerVars, history, fleet>>
    BY <1>2, <1>7, <1>8 DEF history
  <2> HIDE DEF S
  <2> QED
    BY <1>3, <1>5, <2>1, <2>2, <2>3, DeniedKeeps
<1>9. CASE AsShown(call) /\ verdict = "rejected" /\ group' = gone /\ op' = OpsTo(S, "denied") /\ consent' = consent
  <2>1. group' = Decided(g, verdict, call.who)
    BY <1>9 DEF Decided
  <2> HIDE DEF g, call, gone
  <2>2. /\ GroupsSteady(group') /\ \A h \in Ops : /\ group'[h].status = IF h = g THEN verdict ELSE group[h].status
                                                  /\ group'[h].members = group[h].members
    <3>1. TablesTyped /\ g \in Ops /\ call.who \in People /\ group[g].status = "pending"
      BY <1>1, <1>3, <1>7, <1>9
    <3>2. WithVerdict(group', g, verdict)
      BY <2>1, <3>1, VerdictYields
    <3> QED
      BY <3>2 DEF WithVerdict
  <2>3. /\ group[g].status = "pending" /\ op' = OpsTo(Awaiting({g}), "denied")
        /\ \A h \in Ops : group'[h].status = IF h = g THEN "rejected" ELSE group[h].status
        /\ UNCHANGED <<grant, grantDoc, revDoc, authority, brokerVars, history, fleet>>
    BY <1>2, <1>7, <1>9, <2>2 DEF history
  <2> HIDE DEF S
  <2> QED
    BY <1>3, <1>5, <2>2, <2>3, DeniedKeeps
<1>10. CASE /\ AsShown(call) /\ MayDecide(call.who, g) /\ verdict = "approved" /\ group' = gone /\ op' = Approved(S)
            /\ consent' = [o \in Ops |-> IF o \in S THEN [by |-> call.who, shown |-> o \in call.members] ELSE consent[o]]
  <2>1. group' = Decided(g, verdict, call.who)
    BY <1>10 DEF Decided
  <2>2. consent' = [o \in Ops |-> IF o \in Awaiting({g}) THEN [by |-> call.who, shown |-> o \in group[g].members]
                                  ELSE consent[o]]
    BY <1>7, <1>10
  <2> HIDE DEF g, call, gone
  <2>3. /\ GroupsSteady(group') /\ \A h \in Ops : /\ group'[h].status = IF h = g THEN verdict ELSE group[h].status
                                                  /\ group'[h].members = group[h].members
    <3>1. TablesTyped /\ g \in Ops /\ call.who \in People /\ group[g].status = "pending"
      BY <1>1, <1>3, <1>7, <1>10
    <3>2. WithVerdict(group', g, verdict)
      BY <2>1, <3>1, VerdictYields
    <3> QED
      BY <3>2 DEF WithVerdict
  <2> QED
    <3>1. ApprovedStep(g, call.who)
      BY <1>2, <1>5, <1>10, <2>2, <2>3 DEF ApprovedStep
    <3> QED
      BY <1>3, <1>7, <1>10, <3>1, ApprovedKeeps
<1> QED
  BY <1>4, <1>6, <1>8, <1>9, <1>10

-----------------------------------------------------------------------------
(* Time.                                                                   *)

LEMMA AgedTyped == ASSUME NEW call \in Calls PROVE AgedCall(call) \in Calls
<1>1. CASE call.at = "create"
  <2>1. call \in CreateCalls /\ call.left \in Nat
    BY <1>1, CallsApart DEF CreateCalls
  <2> DEFINE n == Before(call.left)
  <2>2. n \in Nat
    BY <2>1, LeastTyped
  <2>3. AgedCall(call) = [call EXCEPT !.left = n]
    BY <1>1 DEF AgedCall
  <2> HIDE DEF n
  <2>4. AgedCall(call) \in CreateCalls
    BY <2>1, <2>2, <2>3 DEF CreateCalls
  <2> QED
    BY <2>4 DEF Calls
<1>2. CASE call.at \in {"ensure", "issue"}
  <2> DEFINE d == [o \in Ops |-> AgedDraft(call.drafts[o])]
  <2>1. call \in EnsureCalls \/ call \in IssueCalls
    BY <1>2, CallsApart
  <2>2. call.drafts \in DraftTables
    BY <2>1 DEF EnsureCalls, IssueCalls
  <2>3. \A o \in Ops : AgedDraft(call.drafts[o]) \in Drafts \cup {NoOne}
    <3> TAKE o \in Ops
    <3>1. CASE call.drafts[o] = NoOne
      BY <3>1 DEF AgedDraft
    <3>2. CASE call.drafts[o] # NoOne
      <4> DEFINE e == call.drafts[o]
      <4>1. e \in Drafts /\ e.left \in Nat
        BY <2>2, <3>2 DEF DraftTables, Drafts
      <4> DEFINE n == Before(e.left)
      <4>2. n \in Nat
        BY <4>1, LeastTyped
      <4>3. AgedDraft(e) = [e EXCEPT !.left = n]
        BY <3>2 DEF AgedDraft
      <4> HIDE DEF e, n
      <4>4. AgedDraft(e) \in Drafts
        BY <4>1, <4>2, <4>3 DEF Drafts
      <4> QED
        BY <4>4 DEF e
    <3> QED
      BY <3>1, <3>2
  <2>4. d \in DraftTables
    BY <2>3 DEF DraftTables
  <2>5. AgedCall(call) = [call EXCEPT !.drafts = d]
    BY <1>2 DEF AgedCall
  <2> HIDE DEF d
  <2>6. AgedCall(call) \in EnsureCalls \/ AgedCall(call) \in IssueCalls
    <3>1. CASE call \in EnsureCalls
      BY <2>4, <2>5, <3>1 DEF EnsureCalls
    <3>2. CASE call \in IssueCalls
      BY <2>4, <2>5, <3>2 DEF IssueCalls
    <3> QED
      BY <2>1, <3>1, <3>2
  <2> QED
    BY <2>6 DEF Calls
<1>3. CASE call.at \notin {"create", "ensure", "issue"}
  BY <1>3 DEF AgedCall
<1> QED
  BY <1>1, <1>2, <1>3

LEMMA TickKeeps == ASSUME IInv, Tick PROVE IInv'
<1>1. /\ Typed /\ TablesTyped /\ ChannelTyped /\ AuthorityTyped /\ HistoryTyped /\ conn \in [Conns -> Calls]
      /\ GrantsAgree /\ MembersAgree /\ GroupsSound /\ DecisionsSound /\ GrantsSound /\ FailuresSound
  BY DEF IInv, Typed
<1>2. /\ op' = [o \in Ops |-> [op[o] EXCEPT !.left = Before(op[o].left)]]
      /\ group' = [g \in Ops |-> [group[g] EXCEPT !.left = Before(group[g].left)]]
      /\ grant' = [o \in Ops |-> [grant[o] EXCEPT !.left = Before(grant[o].left)]]
      /\ conn' = [c \in Conns |-> AgedCall(conn[c])]
      /\ UNCHANGED <<documents, withdrawn, authority, brokerVars, history, fleet>>
  BY DEF Tick
<1>3. /\ op' = [o \in Ops |-> op'[o]] /\ group' = [o \in Ops |-> group'[o]] /\ grant' = [o \in Ops |-> grant'[o]]
      /\ \A o \in Ops : /\ op'[o] = [op[o] EXCEPT !.left = Before(op[o].left)]
                        /\ group'[o] = [group[o] EXCEPT !.left = Before(group[o].left)]
                        /\ grant'[o] = [grant[o] EXCEPT !.left = Before(grant[o].left)]
  BY <1>2
<1>4. \A o \in Ops : /\ op'[o] \in OpRows /\ op'[o].status = op[o].status /\ op'[o].by = op[o].by
                     /\ op'[o].decision = op[o].decision /\ op'[o].version = op[o].version /\ op'[o].group = op[o].group
  <2> TAKE o \in Ops
  <2> DEFINE n == Before(op[o].left)
  <2>1. op[o] \in OpRows /\ op[o].left \in Nat
    BY <1>1 DEF TablesTyped, OpRows
  <2>2. n \in Nat /\ op'[o] = [op[o] EXCEPT !.left = n]
    BY <1>3, <2>1, LeastTyped
  <2> HIDE DEF n
  <2> QED
    BY <2>1, <2>2 DEF OpRows
<1>5. \A o \in Ops : /\ group'[o] \in GroupRows /\ group'[o].status = group[o].status
                     /\ group'[o].members = group[o].members /\ group'[o].approvers = group[o].approvers
  <2> TAKE o \in Ops
  <2> DEFINE n == Before(group[o].left)
  <2>1. group[o] \in GroupRows /\ group[o].left \in Nat
    BY <1>1 DEF TablesTyped, GroupRows
  <2>2. n \in Nat /\ group'[o] = [group[o] EXCEPT !.left = n]
    BY <1>3, <2>1, LeastTyped
  <2> HIDE DEF n
  <2> QED
    BY <2>1, <2>2 DEF GroupRows
<1>6. \A o \in Ops : /\ grant'[o] \in GrantRows /\ grant'[o].status = grant[o].status /\ grant'[o].used = grant[o].used
                     /\ grant[o].left = 0 => grant'[o].left = 0 /\ grant'[o] = grant[o]
  <2> TAKE o \in Ops
  <2> DEFINE n == Before(grant[o].left)
  <2>1. grant[o] \in GrantRows /\ grant[o].left \in Nat
    BY <1>1 DEF TablesTyped, GrantRows
  <2>2. n \in Nat /\ grant'[o] = [grant[o] EXCEPT !.left = n]
    BY <1>3, <2>1, LeastTyped
  <2>3. grant[o].left = 0 => n = grant[o].left
    BY DEF Before
  <2> HIDE DEF n
  <2> QED
    BY <2>1, <2>2, <2>3 DEF GrantRows
<1>7. Typed'
  <2>1. op' \in [Ops -> OpRows] /\ group' \in [Ops -> GroupRows] /\ grant' \in [Ops -> GrantRows]
    BY <1>3, <1>4, <1>5, <1>6
  <2>2. conn' \in [Conns -> Calls]
    <3>1. \A c \in Conns : AgedCall(conn[c]) \in Calls
      BY <1>1, AgedTyped
    <3> QED
      BY <1>2, <3>1
  <2> QED
    BY <1>1, <1>2, <2>1, <2>2
       DEF Typed, TablesTyped, ChannelTyped, AuthorityTyped, HistoryTyped, documents, authority, brokerVars, history
<1>8. GrantsAgree'
  <2> SUFFICES ASSUME NEW o \in Ops PROVE AgreesThen(o)
    BY AgreeingThen
  <2>1. grant[o] = NoGrant => grant'[o] = grant[o]
    <3>1. NoGrant.left = 0
      BY DEF NoGrant
    <3> QED
      BY <1>6, <3>1
  <2> QED
    BY <1>1, <1>4, <1>6, <2>1 DEF GrantsAgree, AgreesThen
<1>9. MembersAgree'
  <2>1. ASSUME NEW o \in Ops, op'[o].status = "awaiting"
        PROVE  /\ op'[o].group \in Ops
               /\ group'[op'[o].group].status = "pending" /\ o \in group'[op'[o].group].members
    <3>1. op[o].group \in Ops /\ group[op[o].group].status = "pending" /\ o \in group[op[o].group].members
      BY <1>1, <1>4, <2>1 DEF MembersAgree
    <3> QED
      BY <1>4, <1>5, <3>1
  <2>2. ASSUME NEW g \in Ops, group'[g].status = "pending"
        PROVE  /\ Cardinality(group'[g].members) <= fleet'.limit
               /\ \A x \in group'[g].members : op'[x].group = g /\ op'[x].status \in {"awaiting", "denied"}
    <3>1. /\ Cardinality(group[g].members) <= fleet.limit
          /\ \A x \in group[g].members : x \in Ops /\ op[x].group = g /\ op[x].status \in {"awaiting", "denied"}
      BY <1>1, <1>5, <2>2 DEF MembersAgree, TablesTyped, GroupRows
    <3> QED
      BY <1>2, <1>4, <1>5, <3>1
  <2> QED
    BY <2>1, <2>2 DEF MembersAgree
<1>10. GroupsSound'
  BY <1>1, <1>4, <1>5 DEF GroupsSound
<1>11. DecisionsSound'
  <2>1. \A o \in Ops : Consented(o) => Consented(o)'
    BY <1>2, <1>4, <1>5 DEF Consented, history
  <2> QED
    BY <1>1, <1>4, <2>1 DEF DecisionsSound
<1>12. GrantsSound'
  BY <1>1, <1>2, <1>4, <1>6 DEF GrantsSound, documents, brokerVars, history
<1>13. FailuresSound'
  BY <1>1, <1>2, <1>4, <1>6 DEF FailuresSound, authority, brokerVars
<1> QED
  BY <1>7, <1>8, <1>9, <1>10, <1>11, <1>12, <1>13 DEF IInv

-----------------------------------------------------------------------------
(* The invariant holds, and what it says.                                  *)

LEMMA InitHolds == ASSUME Init PROVE IInv
<1>1. NoOp \in OpRows /\ NoGroup \in GroupRows /\ NoGrant \in GrantRows
  BY DEF NoOp, NoGroup, NoGrant, OpRows, GroupRows, GrantRows, People
<1>2. /\ \A o \in Ops : op[o] = NoOp /\ group[o] = NoGroup /\ grant[o] = NoGrant
      /\ \A o \in Ops : minted[o] = [count |-> 0, version |-> 0] /\ broker[o] = "none" /\ reports[o] = {}
      /\ \A o \in Ops : grantDoc[o] = "none" /\ revDoc[o] = "none"
  BY DEF Init
<1>3. /\ NoOp.status = "absent" /\ NoOp.group = NoOne /\ NoGroup.status = "absent" /\ NoGroup.members = {}
      /\ NoGrant.status = "none" /\ NoOne \notin Ops
  BY OperationsAssumption DEF NoOp, NoGroup, NoGrant
<1>4. TablesTyped
  BY <1>1 DEF Init, TablesTyped
<1>5. ChannelTyped
  BY DEF Init, ChannelTyped, DocumentStates
<1>6. AuthorityTyped
  <2>1. fleet \in Scenarios /\ fleet.first \in fleet.rules
    BY ScenariosAssumption DEF Init
  <2>2. policy \in [version : Nat, rule : fleet.rules]
    BY <2>1 DEF Init
  <2>3. workload \in [status : {"active", "revoked"}, identity : Nat, ceiling : fleet.ceilings]
    BY DEF Init
  <2>4. node \in [status : {"active", "revoked"}, rotating : BOOLEAN]
    BY DEF Init
  <2> QED
    BY <2>1, <2>2, <2>3, <2>4 DEF AuthorityTyped
<1>7. HistoryTyped
  BY DEF Init, HistoryTyped, NoConsent, People
<1>8. conn \in [Conns -> Calls]
  BY IdleTyped DEF Init
<1>9. GrantsAgree
  BY <1>2, <1>3 DEF GrantsAgree
<1>10. MembersAgree
  BY <1>2, <1>3 DEF MembersAgree
<1>11. GroupsSound
  BY <1>2, <1>3, FS_EmptySet DEF GroupsSound
<1>12. DecisionsSound
  BY <1>2, <1>3 DEF DecisionsSound
<1>13. GrantsSound
  BY <1>2, <1>3 DEF GrantsSound, Ungrantable
<1>14. FailuresSound
  BY <1>2, <1>3 DEF FailuresSound
<1> QED
  BY <1>4, <1>5, <1>6, <1>7, <1>8, <1>9, <1>10, <1>11, <1>12, <1>13, <1>14 DEF IInv, Typed

LEMMA ControllerKeeps == ASSUME IInv, ControllerStep PROVE IInv'
<1>1. Typed /\ AuthorityTyped /\ conn \in [Conns -> Calls]
  BY DEF IInv, Typed
<1>2. CASE Expire
  BY <1>1, <1>2, ExpiryKeeps DEF Expire
<1>3. ASSUME NEW c \in fleet.conns, Reads(c) PROVE IInv'
  BY <1>3, ReadsKeep
<1>4. ASSUME NEW c \in fleet.conns, NEW o \in fleet.ops, IntentBegin(c, o) PROVE IInv'
  <2>1. o \in Ops
    BY <1>1, FleetTyped
  <2>2. [at |-> "intent", op |-> o] \in Calls
    BY <2>1 DEF Calls, IntentCalls
  <2> QED
    BY <1>1, <1>4, <2>2, GotoTyped, ExpiryKeeps DEF IntentBegin
<1>5. ASSUME NEW c \in fleet.conns, IntentSettle(c) PROVE IInv'
  BY <1>1, <1>5, IdleTyped, GotoTyped, ExpiryKeeps DEF IntentSettle
<1>6. ASSUME NEW c \in fleet.conns, CreateCommit(c) PROVE IInv'
  BY <1>6, CreateCommitKeeps
<1>7. ASSUME NEW c \in fleet.conns, Issue(c) PROVE IInv'
  BY <1>7, IssueKeeps
<1>8. ASSUME NEW c \in fleet.conns, NEW verdict \in {"approved", "rejected"}, DecideCommit(c, verdict) PROVE IInv'
  BY <1>8, DecideKeeps
<1>9. ASSUME NEW o \in fleet.ops, CancelOperation(o) \/ DeleteGrant(o) \/ WorkloadCancel(o) PROVE IInv'
  <2>1. o \in Ops
    BY <1>1, FleetTyped
  <2> QED
    BY <1>9, <2>1, CancelKeeps, RevokeKeeps, WorkloadCancelKeeps DEF CancelOperation, DeleteGrant
<1> QED
  BY <1>2, <1>3, <1>4, <1>5, <1>6, <1>7, <1>8, <1>9
     DEF ControllerStep, ListOperations, ListGrants, ListApprovals, Reads

LEMMA StepKeeps == ASSUME IInv, [Next]_vars PROVE IInv'
<1>1. CASE Next
  BY <1>1, ControllerKeeps, AdminKeeps, ChannelStepKeeps, TickKeeps DEF Next
<1>2. CASE UNCHANGED vars
  <2>1. Typed
    BY DEF IInv
  <2>2. UNCHANGED <<tables, grantDoc, revDoc, authority, brokerVars, history, fleet>> /\ conn' \in [Conns -> Calls]
    BY <1>2, <2>1 DEF vars, documents, Typed
  <2> QED
    BY <2>2, HandlerKeeps
<1> QED
  BY <1>1, <1>2

LEMMA InvariantHolds == Spec => []IInv
BY InitHolds, StepKeeps, PTL DEF Spec

\* However many handlers interleave their reads and commits, whatever the administrators
\* change in between and however often the node repeats itself, a grant was issued once,
\* under the policy version that decided its operation, and, where the rule asked for an
\* approval, after a named operator other than the requester approved that very operation
\* having been shown it (create_operation, decide_operation_approval, issue_operation_grants).
THEOREM GrantsAreAuthorised == Spec => []Authorised
<1>1. IInv => Authorised
  <2> SUFFICES ASSUME IInv, NEW o \in Ops, minted[o].count > 0
               PROVE  /\ minted[o] = [count |-> 1, version |-> op[o].version]
                      /\ op[o].decision \in {"allow", "pending_approval"}
                      /\ op[o].decision = "pending_approval" =>
                           /\ consent[o].shown
                           /\ consent[o].by \in group[op[o].group].approvers
                           /\ consent[o].by # op[o].by
    BY DEF Authorised
  <2>1. GrantsSound /\ DecisionsSound /\ minted[o] \in [count : Nat, version : Nat]
    BY DEF IInv, Typed, HistoryTyped
  <2>2. grant[o].status # "none" /\ minted[o].count = 1
    BY <2>1 DEF GrantsSound
  <2>3. minted[o].version = op[o].version /\ op[o].status \notin Ungrantable
    BY <2>1, <2>2 DEF GrantsSound
  <2>4. minted[o] = [count |-> 1, version |-> op[o].version]
    BY <2>1, <2>2, <2>3
  <2>5. op[o].decision = "allow" \/ (op[o].decision = "pending_approval" /\ Consented(o))
    BY <2>1, <2>3 DEF DecisionsSound, Ungrantable
  <2> QED
    BY <2>4, <2>5 DEF Consented
<1> QED
  BY <1>1, InvariantHolds, PTL

\* The operations, grants and operation_approvals tables agree after every transaction of
\* every handler, maintenance pass, retirement, node revocation, key rotation, clock fence
\* and report of the broker, in whatever order they come.
THEOREM TablesStayInAgreement == Spec => []TablesAgree
<1>1. IInv => TablesAgree
  BY TablesParts DEF IInv
<1> QED
  BY <1>1, InvariantHolds, PTL

\* Of an active node the controller never reports denied, cancelled or failed what the broker
\* has executed: expire_fleet_state calls an operation failed only while its grant was never
\* sent, and what was never granted the broker cannot run.
THEOREM NotExecutedHolds == Spec => []NotExecutedIsTrue
<1>1. IInv => NotExecutedIsTrue
  <2> SUFFICES ASSUME IInv, node.status = "active", NEW o \in Ops,
                      op[o].status \in {"denied", "cancelled", "failed"}
               PROVE  broker[o] # "used"
    BY DEF NotExecutedIsTrue
  <2>1. GrantsSound /\ FailuresSound
    BY DEF IInv
  <2>2. CASE op[o].status = "failed"
    BY <2>1, <2>2 DEF FailuresSound
  <2>3. CASE op[o].status \in {"denied", "cancelled"}
    <3>1. grant[o].status = "none"
      BY <2>1, <2>3 DEF GrantsSound, Ungrantable
    <3> QED
      BY <2>1, <3>1 DEF GrantsSound
  <2> QED
    BY <2>2, <2>3
<1> QED
  BY <1>1, InvariantHolds, PTL
=============================================================================
