--------------------------- MODULE ExchangeProofs ---------------------------
(***************************************************************************)
(* Proofs about Exchange for every set of exchanges, workloads, operators, *)
(* connections and policy documents and for all lifetimes.                 *)
(***************************************************************************)
EXTENDS Exchange, WellFoundedInduction, TLAPS

RowFields == {"status", "terms", "decision", "by", "left", "payload"}

Resolving == {"policy", "approval", "request", "insert", "reserve"}

\* The fields a handler's record has at each step.
CallShaped(call) ==
  /\ call.at \in Resolving =>
       DOMAIN call = {"at", "id", "who", "terms", "hash", "decision"} /\ call.id \in Ids \cup {NoOne}
  /\ call.at \in {"submit", "submitted", "consumed"} =>
       DOMAIN call = {"at", "id", "who", "value"}
  /\ call.at \in {"retrieve", "revoke", "revoked"} => DOMAIN call = {"at", "id", "who"}
  /\ call.at \in {"created", "submit", "submitted", "retrieve", "consumed", "revoke", "revoked", "reserve"}
       => call.id \in Ids

\* The tables are functions of their keys, and rows and handlers have their fields.
Shaped ==
  /\ scene \in Scenarios
  /\ DOMAIN ex = Ids /\ DOMAIN conn = Conns /\ DOMAIN issued = Ids
  /\ DOMAIN told = Ids /\ DOMAIN delivered = Ids /\ revoked \subseteq Ids
  /\ \A i \in Ids : DOMAIN ex[i] = RowFields
  /\ \A i \in Ids : issued[i].opened \in BOOLEAN
  /\ \A c \in Conns : CallShaped(conn[c])

LEMMA RowsShaped ==
  ASSUME NEW row, DOMAIN row = RowFields, NEW who, NEW value
  PROVE  /\ DOMAIN NoExchange = RowFields
         /\ DOMAIN Reserved(row, who) = RowFields
         /\ DOMAIN Submitted(row, value) = RowFields
         /\ DOMAIN Revoked(row) = RowFields
         /\ DOMAIN Older(row) = RowFields
BY DEF RowFields, NoExchange, Reserved, Submitted, Revoked, Older

\* Replacing one handler's record by a shaped one.
LEMMA OneCallShaped ==
  ASSUME DOMAIN conn = Conns, \A d \in Conns : CallShaped(conn[d]),
         NEW c \in Conns, NEW call, CallShaped(call), conn' = [conn EXCEPT ![c] = call]
  PROVE  DOMAIN conn' = Conns /\ \A d \in Conns : CallShaped(conn'[d])
OBVIOUS

LEMMA IdleShaped == CallShaped(Idle)
BY DEF CallShaped, Idle, Resolving

-----------------------------------------------------------------------------

\* One delivery was made, to the requester, of what was acknowledged.
SentOnce(sent, requester, values) ==
  \E v : sent = <<[to |-> requester, value |-> v]>> /\ values \subseteq {v}

\* A row's columns agree with what was issued, acknowledged, revoked and sent.
RowAgrees(i) ==
  /\ ex[i].status \in {"absent", "pending", "reserved", "submitted", "revoked"}
  /\ ex[i].status # "absent" =>
       issued[i].opened /\ ex[i].terms = issued[i].terms /\ delivered[i] = <<>>
  /\ ex[i].status \in {"pending", "reserved"} => told[i] = {}
  /\ ex[i].status = "submitted" => told[i] \subseteq {ex[i].payload}
  /\ ~issued[i].opened => told[i] = {} /\ delivered[i] = <<>> /\ i \notin revoked
  /\ i \in revoked => ex[i].status \in {"absent", "revoked"} /\ delivered[i] = <<>>
  /\ delivered[i] # <<>> => SentOnce(delivered[i], issued[i].terms.requester, told[i])

\* A handler past its commit holds what the commit recorded.
CallAgrees(c) ==
  LET call == conn[c] IN
  /\ call.at \in {"created", "submit", "submitted", "retrieve", "consumed", "revoke", "revoked"} =>
       issued[call.id].opened
  /\ call.at = "submitted" =>
       /\ ex[call.id].status \notin {"pending", "reserved"}
       /\ ex[call.id].status = "submitted" => ex[call.id].payload = call.value
  /\ call.at = "consumed" =>
       /\ ex[call.id].status = "absent" /\ delivered[call.id] = <<>> /\ call.id \notin revoked
       /\ call.who = issued[call.id].terms.requester
       /\ told[call.id] \subseteq {call.value}
  /\ call.at = "revoked" => ex[call.id].status \in {"absent", "revoked"}

OneHolder ==
  \A c, d \in Conns : At(c, "consumed") /\ At(d, "consumed") /\ conn[c].id = conn[d].id => c = d

IInv ==
  /\ Shaped
  /\ \A i \in Ids : RowAgrees(i)
  /\ \A c \in Conns : CallAgrees(c)
  /\ OneHolder

\* A step of one handler changes its own record and one exchange only.
Local(c, i) ==
  /\ scene' = scene
  /\ DOMAIN conn' = Conns /\ DOMAIN ex' = Ids /\ DOMAIN issued' = Ids
  /\ DOMAIN told' = Ids /\ DOMAIN delivered' = Ids /\ revoked' \subseteq Ids
  /\ \A d \in Conns \ {c} : conn'[d] = conn[d]
  /\ \A j \in Ids \ {i} :
       /\ ex'[j] = ex[j] /\ issued'[j] = issued[j]
       /\ told'[j] = told[j] /\ delivered'[j] = delivered[j] /\ (j \in revoked' <=> j \in revoked)

LEMMA LocalKeeps ==
  ASSUME IInv, NEW c \in Conns, NEW i \in Ids, Local(c, i),
         CallShaped(conn'[c]), DOMAIN ex'[i] = RowFields, issued'[i].opened \in BOOLEAN,
         RowAgrees(i)', CallAgrees(c)',
         \A d \in Conns \ {c} : conn[d].id = i => CallAgrees(d)',
         conn'[c].at = "consumed" =>
           \A d \in Conns \ {c} : ~(conn[d].at = "consumed" /\ conn[d].id = conn'[c].id)
  PROVE  IInv'
<1>1. Shaped'
  BY DEF IInv, Shaped, Local
<1>2. \A j \in Ids : RowAgrees(j)'
  <2> SUFFICES ASSUME NEW j \in Ids, j # i PROVE RowAgrees(j)'
    OBVIOUS
  <2>1. RowAgrees(j)
    BY DEF IInv
  <2> QED
    BY <2>1 DEF Local, RowAgrees
<1>3. \A d \in Conns : CallAgrees(d)'
  <2> SUFFICES ASSUME NEW d \in Conns, d # c, conn[d].id # i PROVE CallAgrees(d)'
    OBVIOUS
  <2>1. CallAgrees(d) /\ CallShaped(conn[d]) /\ conn'[d] = conn[d]
    BY DEF IInv, Shaped, Local
  <2> DEFINE j == conn[d].id
  <2>2. CASE j \in Ids
    <3>1. ex'[j] = ex[j] /\ issued'[j] = issued[j] /\ told'[j] = told[j] /\ delivered'[j] = delivered[j]
          /\ (j \in revoked' <=> j \in revoked)
      BY <2>2 DEF Local
    <3> QED
      BY <2>1, <3>1 DEF CallAgrees
  <2>3. CASE j \notin Ids
    BY <2>1, <2>3 DEF CallAgrees, CallShaped
  <2> QED
    BY <2>2, <2>3
<1>4. OneHolder'
  BY DEF IInv, OneHolder, At, Local
<1> QED
  BY <1>1, <1>2, <1>3, <1>4 DEF IInv

\* A step that only moves its handler, to a step that holds no ciphertext.
rowVars == <<scene, ex, issued, told, delivered, revoked>>

LEMMA MoveKeeps ==
  ASSUME IInv, NEW c \in Conns, NEW call, UNCHANGED rowVars, conn' = [conn EXCEPT ![c] = call],
         CallShaped(call), call.at \notin {"submitted", "consumed", "revoked"},
         call.at \in {"created", "submit", "retrieve", "revoke"} => issued[call.id].opened
  PROVE  IInv'
<1>1. DOMAIN conn' = Conns /\ conn'[c] = call /\ \A d \in Conns \ {c} : conn'[d] = conn[d]
  BY DEF IInv, Shaped
<1>2. Shaped'
  BY <1>1 DEF IInv, Shaped, rowVars
<1>3. \A j \in Ids : RowAgrees(j)'
  <2> SUFFICES ASSUME NEW j \in Ids PROVE RowAgrees(j)'
    OBVIOUS
  <2>1. RowAgrees(j)
    BY DEF IInv
  <2> QED
    BY <2>1 DEF RowAgrees, rowVars
<1>4. CallAgrees(c)'
  BY <1>1 DEF CallAgrees, rowVars
<1>5. \A d \in Conns \ {c} : CallAgrees(d)'
  <2> SUFFICES ASSUME NEW d \in Conns \ {c} PROVE CallAgrees(d)'
    OBVIOUS
  <2>1. CallAgrees(d) /\ conn'[d] = conn[d]
    BY <1>1 DEF IInv
  <2> QED
    BY <2>1 DEF CallAgrees, rowVars
<1>6. OneHolder'
  BY <1>1 DEF IInv, OneHolder, At
<1> QED
  BY <1>2, <1>3, <1>4, <1>5, <1>6 DEF IInv

LEMMA EndKeeps ==
  ASSUME IInv, NEW c \in Conns, UNCHANGED rowVars, conn' = [conn EXCEPT ![c] = Idle]
  PROVE  IInv'
BY MoveKeeps, IdleShaped DEF Idle

LEMMA SubmitWriteKeeps == ASSUME IInv, NEW c \in Conns, SubmitWrite(c) PROVE IInv'
<1> DEFINE call == conn[c]
<1>0. PICK i \in Ids : i = conn[c].id
  BY DEF IInv, Shaped, CallShaped, SubmitWrite, At
<1>1. call.id = i /\ DOMAIN call = {"at", "id", "who", "value"} /\ call.at = "submit"
      /\ RowAgrees(i) /\ CallAgrees(c) /\ DOMAIN ex[i] = RowFields
  BY <1>0 DEF IInv, Shaped, CallShaped, SubmitWrite, At
<1>2. CASE Submittable(ex[i], call.who)
  <2> DEFINE new == [call EXCEPT !.at = "submitted"]  row == Submitted(ex[i], call.value)
  <2>1. new.at = "submitted" /\ new.id = i /\ new.value = call.value /\ DOMAIN new = DOMAIN call
    BY <1>1
  <2>2. /\ row.status = "submitted" /\ row.terms = ex[i].terms /\ row.payload = call.value
        /\ DOMAIN row = RowFields
    BY <1>1 DEF Submitted, RowFields
  <2>3. ex' = [ex EXCEPT ![i] = row] /\ conn' = [conn EXCEPT ![c] = new]
    BY <1>0, <1>2 DEF SubmitWrite, Hold
  <2> HIDE DEF new, row
  <2>4. Local(c, i) /\ ex'[i] = row /\ conn'[c] = new /\ issued' = issued /\ told' = told /\ revoked' = revoked /\ delivered' = delivered
    BY <1>1, <2>3 DEF Local, SubmitWrite, IInv, Shaped, history
  <2>5. ex[i].status = "reserved"
    BY <1>2 DEF Submittable
  <2>6. RowAgrees(i)'
    BY <1>1, <2>2, <2>4, <2>5 DEF RowAgrees
  <2>7. CallAgrees(c)'
    BY <1>1, <2>1, <2>2, <2>4 DEF CallAgrees
  <2>8. ASSUME NEW d \in Conns \ {c}, conn[d].id = i PROVE CallAgrees(d)'
    <3>1. CallAgrees(d) /\ conn'[d] = conn[d]
      BY <2>4 DEF IInv, Local
    <3> QED
      BY <2>2, <2>4, <2>5, <2>8, <3>1 DEF CallAgrees
  <2>9. CallShaped(conn'[c])
    BY <1>1, <2>1, <2>4 DEF CallShaped, Resolving
  <2> QED
    BY <1>1, <2>1, <2>2, <2>4, <2>6, <2>7, <2>8, <2>9, LocalKeeps DEF IInv, Shaped
<1>3. CASE ~Submittable(ex[i], call.who)
  BY <1>1, <1>3, EndKeeps DEF SubmitWrite, Close, rowVars, history
<1> QED
  BY <1>2, <1>3

LEMMA CallKeeps == ASSUME IInv, NEW c \in Conns, ExchangeCall(c) PROVE IInv'
<1>1. ASSUME NEW terms \in Terms, CreateBegin(c, terms) PROVE IInv'
  <2> DEFINE call == [at |-> "policy", id |-> NoOne, who |-> terms.requester, terms |-> terms,
                      hash |-> NoOne, decision |-> NoDecision]
  <2>1. CallShaped(call) /\ call.at = "policy"
    BY DEF CallShaped, Resolving
  <2>2. conn' = [conn EXCEPT ![c] = call] /\ UNCHANGED rowVars
    BY <1>1 DEF CreateBegin, Open, rowVars, exchangeVars, history
  <2> HIDE DEF call
  <2> QED
    BY <2>1, <2>2, MoveKeeps
<1>2. ASSUME NEW who, NEW i \in Ids, FulfilRead(c, who, i) PROVE IInv'
  <2> DEFINE call == [at |-> "policy", id |-> i, who |-> who,
                      terms |-> [ex[i].terms EXCEPT !.fulfiller = who],
                      hash |-> PolicyHash(ex[i].decision), decision |-> NoDecision]
  <2>1. CallShaped(call) /\ call.at = "policy"
    BY DEF CallShaped, Resolving
  <2>2. conn' = [conn EXCEPT ![c] = call] /\ UNCHANGED rowVars
    BY <1>2 DEF FulfilRead, Open, rowVars, exchangeVars, history
  <2> HIDE DEF call
  <2> QED
    BY <2>1, <2>2, MoveKeeps
<1>3. ASSUME NEW who, NEW i \in Ids, NEW value, SubmitRead(c, who, i, value) PROVE IInv'
  <2> DEFINE call == [at |-> "submit", id |-> i, who |-> who, value |-> value]
  <2>1. CallShaped(call) /\ call.at = "submit" /\ call.id = i
    BY DEF CallShaped, Resolving
  <2>2. conn' = [conn EXCEPT ![c] = call] /\ UNCHANGED rowVars
    BY <1>3 DEF SubmitRead, Open, rowVars, exchangeVars, history
  <2>3. issued[i].opened
    BY <1>3 DEF SubmitRead, Submittable, IInv, RowAgrees
  <2> HIDE DEF call
  <2> QED
    BY <2>1, <2>2, <2>3, MoveKeeps
<1>4. ASSUME NEW who, NEW i \in Ids, RetrieveRead(c, who, i) PROVE IInv'
  <2> DEFINE call == [at |-> "retrieve", id |-> i, who |-> who]
  <2>1. CallShaped(call) /\ call.at = "retrieve" /\ call.id = i
    BY DEF CallShaped, Resolving
  <2>2. conn' = [conn EXCEPT ![c] = call] /\ UNCHANGED rowVars
    BY <1>4 DEF RetrieveRead, Open, rowVars, exchangeVars, history
  <2>3. issued[i].opened
    BY <1>4 DEF RetrieveRead, Visible, Live, IInv, RowAgrees
  <2> HIDE DEF call
  <2> QED
    BY <2>1, <2>2, <2>3, MoveKeeps
<1>5. ASSUME NEW who, NEW i \in Ids, RevokeRead(c, who, i) PROVE IInv'
  <2> DEFINE call == [at |-> "revoke", id |-> i, who |-> who]
  <2>1. CallShaped(call) /\ call.at = "revoke" /\ call.id = i
    BY DEF CallShaped, Resolving
  <2>2. conn' = [conn EXCEPT ![c] = call] /\ UNCHANGED rowVars
    BY <1>5 DEF RevokeRead, Open, rowVars, exchangeVars, history
  <2>3. issued[i].opened
    BY <1>5 DEF RevokeRead, Revocable, Live, IInv, RowAgrees
  <2> HIDE DEF call
  <2> QED
    BY <2>1, <2>2, <2>3, MoveKeeps
<1> QED
  BY <1>1, <1>2, <1>3, <1>4, <1>5 DEF ExchangeCall

\* Continuing with a decision, or ending because it does not admit the call.
LEMMA ProceedKeeps ==
  ASSUME IInv, NEW c \in Conns, conn[c].at \in {"policy", "approval"}, NEW decision,
         Proceed(c, decision), UNCHANGED rowVars
  PROVE  IInv'
<1>1. CASE Admits(conn[c], decision)
  <2> DEFINE call == [conn[c] EXCEPT !.at = IF conn[c].id = NoOne THEN "insert" ELSE "reserve",
                                     !.decision = decision]
  <2>1. conn' = [conn EXCEPT ![c] = call]
    BY <1>1 DEF Proceed, Hold
  <2>2. /\ DOMAIN conn[c] = {"at", "id", "who", "terms", "hash", "decision"}
        /\ conn[c].id \in Ids \cup {NoOne}
    BY DEF IInv, Shaped, CallShaped, Resolving
  <2>3. /\ call.at = IF conn[c].id = NoOne THEN "insert" ELSE "reserve"
        /\ call.id = conn[c].id
        /\ DOMAIN call = DOMAIN conn[c]
    BY <2>2
  <2> HIDE DEF call
  <2>4. CallShaped(call)
    BY <2>2, <2>3 DEF CallShaped, Resolving
  <2> QED
    BY <2>1, <2>3, <2>4, MoveKeeps
<1>2. CASE ~Admits(conn[c], decision)
  BY <1>2, EndKeeps DEF Proceed, Close
<1> QED
  BY <1>1, <1>2

\* Going on from one step of the resolution to the next.
LEMMA ResolvingKeeps ==
  ASSUME IInv, NEW c \in Conns, conn[c].at \in {"policy", "approval"}, NEW call,
         call.at \in {"approval", "request"}, call.id = conn[c].id, DOMAIN call = DOMAIN conn[c],
         UNCHANGED rowVars, conn' = [conn EXCEPT ![c] = call]
  PROVE  IInv'
<1>1. /\ DOMAIN conn[c] = {"at", "id", "who", "terms", "hash", "decision"}
      /\ conn[c].id \in Ids \cup {NoOne}
  BY DEF IInv, Shaped, CallShaped, Resolving
<1>2. CallShaped(call)
  BY <1>1 DEF CallShaped, Resolving
<1> QED
  BY <1>2, MoveKeeps

LEMMA ResolvePolicyKeeps == ASSUME IInv, NEW c \in Conns, ResolvePolicy(c) PROVE IInv'
<1> DEFINE decision == Evaluate(PolicyDocument, conn[c].terms)
           call == [conn[c] EXCEPT !.at = "approval", !.decision = decision]
<1>1. UNCHANGED rowVars /\ conn[c].at = "policy"
  BY DEF ResolvePolicy, At, rowVars, exchangeVars, history
<1>2. Proceed(c, decision) \/ conn' = [conn EXCEPT ![c] = call]
  BY DEF ResolvePolicy, Hold
<1> HIDE DEF decision
<1>3. DOMAIN conn[c] = {"at", "id", "who", "terms", "hash", "decision"}
  BY <1>1 DEF IInv, Shaped, CallShaped, Resolving
<1>4. call.at = "approval" /\ call.id = conn[c].id /\ DOMAIN call = DOMAIN conn[c]
  BY <1>3
<1> HIDE DEF call
<1> QED
  BY <1>1, <1>2, <1>4, ProceedKeeps, ResolvingKeeps

LEMMA ResolveApprovalKeeps == ASSUME IInv, NEW c \in Conns, ResolveApproval(c) PROVE IInv'
<1> DEFINE row == approvals[Reference(conn[c].decision, conn[c].terms)]
           decision == Approved(row, conn[c].terms, conn[c].decision)
           call == [conn[c] EXCEPT !.at = "request"]
<1>1. UNCHANGED rowVars /\ conn[c].at = "approval"
  BY DEF ResolveApproval, At, rowVars, exchangeVars, history
<1>2. \/ Proceed(c, decision)
      \/ conn' = [conn EXCEPT ![c] = Idle]
      \/ conn' = [conn EXCEPT ![c] = call]
  BY DEF ResolveApproval, Close, Hold
<1>3. DOMAIN conn[c] = {"at", "id", "who", "terms", "hash", "decision"}
  BY <1>1 DEF IInv, Shaped, CallShaped, Resolving
<1>4. call.at = "request" /\ call.id = conn[c].id /\ DOMAIN call = DOMAIN conn[c]
  BY <1>3
<1> HIDE DEF decision, call
<1> QED
  BY <1>1, <1>2, <1>4, ProceedKeeps, EndKeeps, ResolvingKeeps

LEMMA CreateInsertKeeps ==
  ASSUME IInv, NEW c \in Conns, NEW i \in Ids, CreateInsert(c, i) PROVE IInv'
<1> DEFINE row == [status |-> "pending", terms |-> conn[c].terms, decision |-> conn[c].decision,
                   by |-> NoOne, left |-> scene.ttl, payload |-> NoOne]
           entry == [opened |-> TRUE, terms |-> conn[c].terms, decision |-> conn[c].decision]
           call == [at |-> "created", id |-> i]
<1>1. /\ ~issued[i].opened /\ ex' = [ex EXCEPT ![i] = row] /\ issued' = [issued EXCEPT ![i] = entry]
      /\ conn' = [conn EXCEPT ![c] = call]
      /\ UNCHANGED <<scene, told, revoked, delivered>>
  BY DEF CreateInsert, Hold
<1>2. row.status = "pending" /\ row.terms = entry.terms /\ DOMAIN row = RowFields
  BY DEF RowFields
<1>3. entry.opened = TRUE /\ call.at = "created" /\ call.id = i
  OBVIOUS
<1> HIDE DEF row, entry, call
<1>4. Local(c, i) /\ ex'[i] = row /\ issued'[i] = entry /\ conn'[c] = call
  BY <1>1 DEF IInv, Shaped, Local
<1>5. RowAgrees(i)'
  <2>1. RowAgrees(i)
    BY DEF IInv
  <2> QED
    BY <1>1, <1>2, <1>3, <1>4, <2>1 DEF RowAgrees
<1>6. CallAgrees(c)' /\ CallShaped(conn'[c])
  BY <1>3, <1>4 DEF CallAgrees, CallShaped, Resolving
<1>7. ASSUME NEW d \in Conns \ {c}, conn[d].id = i PROVE CallAgrees(d)'
  <2>1. CallAgrees(d) /\ conn'[d] = conn[d]
    BY <1>4 DEF IInv, Local
  <2> QED
    BY <1>1, <1>7, <2>1 DEF CallAgrees
<1> QED
  BY <1>2, <1>3, <1>4, <1>5, <1>6, <1>7, LocalKeeps

LEMMA ReserveKeeps == ASSUME IInv, NEW c \in Conns, Reserve(c) PROVE IInv'
<1>0. PICK i \in Ids : i = conn[c].id
  BY DEF IInv, Shaped, CallShaped, Reserve, At
<1>1. CASE Reservable(ex[i], conn[c].who)
  <2> DEFINE row == Reserved(ex[i], conn[c].who)
  <2>1. ex' = [ex EXCEPT ![i] = row] /\ conn' = [conn EXCEPT ![c] = Idle]
        /\ UNCHANGED <<scene, issued, told, revoked, delivered>>
    BY <1>0, <1>1 DEF Reserve, Close, history
  <2>2. row.status = "reserved" /\ row.terms = ex[i].terms /\ DOMAIN row = RowFields
    <3>1. DOMAIN ex[i] = RowFields
      BY DEF IInv, Shaped
    <3> QED
      BY <3>1 DEF Reserved, RowFields
  <2>3. ex[i].status = "pending"
    BY <1>1 DEF Reservable
  <2> HIDE DEF row
  <2>4. Local(c, i) /\ ex'[i] = row /\ conn'[c] = Idle
    BY <2>1 DEF IInv, Shaped, Local
  <2>5. RowAgrees(i)'
    <3>1. RowAgrees(i)
      BY DEF IInv
    <3> QED
      BY <2>1, <2>2, <2>3, <2>4, <3>1 DEF RowAgrees
  <2>6. CallAgrees(c)' /\ CallShaped(conn'[c]) /\ conn'[c].at # "consumed"
    BY <2>4, IdleShaped DEF CallAgrees, Idle
  <2>7. ASSUME NEW d \in Conns \ {c}, conn[d].id = i PROVE CallAgrees(d)'
    <3>1. CallAgrees(d) /\ conn'[d] = conn[d]
      BY <2>4 DEF IInv, Local
    <3> QED
      BY <2>1, <2>2, <2>3, <2>4, <2>7, <3>1 DEF CallAgrees
  <2> QED
    BY <2>1, <2>2, <2>4, <2>5, <2>6, <2>7, LocalKeeps DEF IInv, Shaped
<1>2. CASE ~Reservable(ex[i], conn[c].who)
  BY <1>0, <1>2, EndKeeps DEF Reserve, Close, rowVars, history
<1> QED
  BY <1>1, <1>2

LEMMA SubmitReplyKeeps == ASSUME IInv, NEW c \in Conns, SubmitReply(c) PROVE IInv'
<1>0. PICK i \in Ids : i = conn[c].id
  BY DEF IInv, Shaped, CallShaped, SubmitReply, At
<1>1. CASE Live(ex[i])
  <2>1. told' = [told EXCEPT ![i] = @ \cup {conn[c].value}] /\ conn' = [conn EXCEPT ![c] = Idle]
        /\ UNCHANGED <<scene, ex, issued, revoked, delivered>>
    BY <1>0, <1>1 DEF SubmitReply, Close, exchangeVars
  <2>2. ex[i].status # "absent" /\ RowAgrees(i) /\ CallAgrees(c) /\ conn[c].at = "submitted"
    BY <1>1 DEF Live, IInv, SubmitReply, At
  <2>3. Local(c, i) /\ told'[i] = told[i] \cup {conn[c].value} /\ conn'[c] = Idle
    BY <2>1 DEF IInv, Shaped, Local
  <2>4. RowAgrees(i)'
    BY <1>0, <2>1, <2>2, <2>3 DEF RowAgrees, CallAgrees
  <2>5. CallAgrees(c)' /\ CallShaped(conn'[c]) /\ conn'[c].at # "consumed"
    BY <2>3, IdleShaped DEF CallAgrees, Idle
  <2>6. ASSUME NEW d \in Conns \ {c}, conn[d].id = i PROVE CallAgrees(d)'
    <3>1. CallAgrees(d) /\ conn'[d] = conn[d]
      BY <2>3 DEF IInv, Local
    <3> QED
      BY <2>1, <2>2, <2>6, <3>1 DEF CallAgrees
  <2> QED
    BY <2>1, <2>3, <2>4, <2>5, <2>6, LocalKeeps DEF IInv, Shaped
<1>2. CASE ~Live(ex[i])
  BY <1>0, <1>2, EndKeeps DEF SubmitReply, Close, rowVars, exchangeVars
<1> QED
  BY <1>1, <1>2

LEMMA RetrieveConsumeKeeps == ASSUME IInv, NEW c \in Conns, RetrieveConsume(c) PROVE IInv'
<1>0. PICK i \in Ids : i = conn[c].id
  BY DEF IInv, Shaped, CallShaped, RetrieveConsume, At
<1>1. CASE Consumable(ex[i], conn[c].who)
  <2> DEFINE call == [at |-> "consumed", id |-> i, who |-> conn[c].who, value |-> ex[i].payload]
             row == NoExchange
  <2>1. ex' = [ex EXCEPT ![i] = row] /\ conn' = [conn EXCEPT ![c] = call]
        /\ UNCHANGED <<scene, issued, told, revoked, delivered>>
    BY <1>0, <1>1 DEF RetrieveConsume, Hold, Taken, history
  <2>2. row.status = "absent" /\ DOMAIN row = RowFields
    BY DEF RowFields, NoExchange
  <2>3. /\ call.at = "consumed" /\ call.id = i /\ call.who = conn[c].who
        /\ call.value = ex[i].payload /\ CallShaped(call)
    BY DEF CallShaped, Resolving
  <2>4. RowAgrees(i) /\ ex[i].status = "submitted" /\ ex[i].terms.requester = conn[c].who
    BY <1>1 DEF Consumable, IInv
  <2> HIDE DEF row, call
  <2>5. Local(c, i) /\ ex'[i] = row /\ conn'[c] = call
    BY <2>1 DEF IInv, Shaped, Local
  <2>6. RowAgrees(i)'
    BY <2>1, <2>2, <2>4, <2>5 DEF RowAgrees
  <2>7. CallAgrees(c)'
    BY <2>1, <2>2, <2>3, <2>4, <2>5 DEF CallAgrees, RowAgrees
  <2>8. ASSUME NEW d \in Conns \ {c}, conn[d].id = i
        PROVE  CallAgrees(d)' /\ conn[d].at # "consumed"
    <3>1. CallAgrees(d) /\ conn'[d] = conn[d]
      BY <2>5 DEF IInv, Local
    <3> QED
      BY <2>1, <2>2, <2>4, <2>5, <2>8, <3>1 DEF CallAgrees
  <2> QED
    BY <2>1, <2>2, <2>3, <2>5, <2>6, <2>7, <2>8, LocalKeeps DEF IInv, Shaped
<1>2. CASE ~Consumable(ex[i], conn[c].who)
  BY <1>0, <1>2, EndKeeps DEF RetrieveConsume, Close, rowVars, history
<1> QED
  BY <1>1, <1>2

LEMMA RetrieveReplyKeeps == ASSUME IInv, NEW c \in Conns, RetrieveReply(c) PROVE IInv'
<1>0. PICK i \in Ids : i = conn[c].id
  BY DEF IInv, Shaped, CallShaped, RetrieveReply, At
<1> DEFINE sent == [to |-> conn[c].who, value |-> conn[c].value]
<1>1. delivered' = [delivered EXCEPT ![i] = Append(delivered[i], sent)]
      /\ conn' = [conn EXCEPT ![c] = Idle] /\ UNCHANGED <<scene, ex, issued, told, revoked>>
  BY <1>0 DEF RetrieveReply, Close, exchangeVars
<1>2. RowAgrees(i) /\ CallAgrees(c) /\ conn[c].at = "consumed"
  BY DEF IInv, RetrieveReply, At
<1>3. /\ delivered[i] = <<>> /\ ex[i].status = "absent" /\ issued[i].opened /\ i \notin revoked
      /\ conn[c].who = issued[i].terms.requester /\ told[i] \subseteq {conn[c].value}
  BY <1>0, <1>2 DEF CallAgrees
<1>4. Append(delivered[i], sent) = <<sent>>
  BY <1>3
<1>5. SentOnce(<<sent>>, issued[i].terms.requester, told[i])
  BY <1>3 DEF SentOnce
<1> HIDE DEF sent
<1>6. Local(c, i) /\ delivered'[i] = <<sent>> /\ conn'[c] = Idle
  BY <1>1, <1>4 DEF IInv, Shaped, Local
<1>7. RowAgrees(i)'
  BY <1>1, <1>2, <1>3, <1>5, <1>6 DEF RowAgrees
<1>8. CallAgrees(c)' /\ CallShaped(conn'[c]) /\ conn'[c].at # "consumed"
  BY <1>6, IdleShaped DEF CallAgrees, Idle
<1>9. ASSUME NEW d \in Conns \ {c}, conn[d].id = i PROVE CallAgrees(d)'
  <2>1. CallAgrees(d) /\ conn'[d] = conn[d]
    BY <1>6 DEF IInv, Local
  <2>2. conn[d].at # "consumed"
    BY <1>0, <1>2, <1>9 DEF IInv, OneHolder, At
  <2> QED
    BY <1>1, <1>9, <2>1, <2>2 DEF CallAgrees
<1> QED
  BY <1>1, <1>6, <1>7, <1>8, <1>9, LocalKeeps DEF IInv, Shaped

LEMMA RevokeWriteKeeps == ASSUME IInv, NEW c \in Conns, RevokeWrite(c) PROVE IInv'
<1>0. PICK i \in Ids : i = conn[c].id
  BY DEF IInv, Shaped, CallShaped, RevokeWrite, At
<1>1. CASE Revocable(ex[i], conn[c].who)
  <2> DEFINE call == [conn[c] EXCEPT !.at = "revoked"]  row == Revoked(ex[i])
  <2>1. ex' = [ex EXCEPT ![i] = row] /\ conn' = [conn EXCEPT ![c] = call]
        /\ UNCHANGED <<scene, issued, told, revoked, delivered>>
    BY <1>0, <1>1 DEF RevokeWrite, Hold, history
  <2>2. DOMAIN ex[i] = RowFields /\ DOMAIN conn[c] = {"at", "id", "who"} /\ conn[c].at = "revoke"
    BY DEF IInv, Shaped, CallShaped, RevokeWrite, At
  <2>3. row.status = "revoked" /\ row.terms = ex[i].terms /\ DOMAIN row = RowFields
    BY <2>2 DEF Revoked, RowFields
  <2>4. call.at = "revoked" /\ call.id = i /\ DOMAIN call = {"at", "id", "who"}
    BY <1>0, <2>2
  <2>5. RowAgrees(i) /\ CallAgrees(c) /\ ex[i].status # "absent"
    BY <1>1 DEF Revocable, Live, IInv
  <2> HIDE DEF row, call
  <2>6. Local(c, i) /\ ex'[i] = row /\ conn'[c] = call
    BY <2>1 DEF IInv, Shaped, Local
  <2>7. RowAgrees(i)'
    BY <2>1, <2>3, <2>5, <2>6 DEF RowAgrees
  <2>8. CallAgrees(c)' /\ CallShaped(conn'[c])
    BY <2>1, <2>3, <2>4, <2>5, <2>6 DEF CallAgrees, RowAgrees, CallShaped, Resolving
  <2>9. ASSUME NEW d \in Conns \ {c}, conn[d].id = i PROVE CallAgrees(d)'
    <3>1. CallAgrees(d) /\ conn'[d] = conn[d]
      BY <2>6 DEF IInv, Local
    <3> QED
      BY <2>1, <2>3, <2>5, <2>6, <2>9, <3>1 DEF CallAgrees
  <2> QED
    BY <2>1, <2>3, <2>4, <2>6, <2>7, <2>8, <2>9, LocalKeeps DEF IInv, Shaped
<1>2. CASE ~Revocable(ex[i], conn[c].who)
  BY <1>0, <1>2, EndKeeps DEF RevokeWrite, Close, rowVars, history
<1> QED
  BY <1>1, <1>2

\* Rows that age, expire or are swept, handlers that end, and revocations answered.
LEMMA FadeKeeps ==
  ASSUME IInv, UNCHANGED <<scene, issued, told, delivered>>,
         DOMAIN ex' = Ids, DOMAIN conn' = Conns, revoked' \subseteq Ids,
         \A i \in Ids : /\ DOMAIN ex'[i] = RowFields
                        /\ \/ ex'[i].status = "absent"
                           \/ /\ ex'[i].status = ex[i].status /\ ex'[i].terms = ex[i].terms
                              /\ ex'[i].payload = ex[i].payload,
         \A c \in Conns : conn'[c] = conn[c] \/ conn'[c] = Idle,
         \A i \in Ids : i \in revoked' => i \in revoked \/ ex[i].status = "revoked"
  PROVE  IInv'
<1>1. Shaped'
  BY IdleShaped DEF IInv, Shaped
<1>2. ASSUME NEW i \in Ids PROVE RowAgrees(i)'
  <2>1. RowAgrees(i)
    BY DEF IInv
  <2> QED
    BY <2>1 DEF RowAgrees
<1>3. ASSUME NEW c \in Conns PROVE CallAgrees(c)'
  <2>1. CASE conn'[c] = Idle
    BY <2>1 DEF CallAgrees, Idle
  <2>2. CASE conn'[c] = conn[c]
    <3>1. CallAgrees(c) /\ CallShaped(conn[c])
      BY DEF IInv, Shaped
    <3> DEFINE j == conn[c].id
    <3>2. CASE j \in Ids
      <4>1. \/ ex'[j].status = "absent"
            \/ ex'[j].status = ex[j].status /\ ex'[j].payload = ex[j].payload
        BY <3>2
      <4>2. j \in revoked' => j \in revoked \/ ex[j].status = "revoked"
        BY <3>2
      <4> QED
        BY <2>2, <3>1, <4>1, <4>2 DEF CallAgrees
    <3>3. CASE j \notin Ids
      BY <2>2, <3>1, <3>3 DEF CallAgrees, CallShaped
    <3> QED
      BY <3>2, <3>3
  <2> QED
    BY <2>1, <2>2
<1>4. OneHolder'
  BY DEF IInv, OneHolder, At, Idle
<1> QED
  BY <1>1, <1>2, <1>3, <1>4 DEF IInv

LEMMA AgeKeeps ==
  ASSUME NEW row, DOMAIN row = RowFields
  PROVE  LET older == Older(row) IN
           /\ DOMAIN older = RowFields
           /\ older.status = row.status /\ older.terms = row.terms /\ older.payload = row.payload
BY DEF Older, RowFields

LEMMA NoExchangeFades == DOMAIN NoExchange = RowFields /\ NoExchange.status = "absent"
BY DEF NoExchange, RowFields

\* Steps that leave the exchanges and what was reported of them alone.
LEMMA DecidingKeeps == ASSUME IInv, NEW c \in Conns, Deciding(c) PROVE IInv'
<1>1. ASSUME NEW op, NEW ref, NEW verdict, NEW key, DecideRead(c, op, ref, verdict, key) PROVE IInv'
  <2> DEFINE call == [at |-> "decide", who |-> op, reference |-> ref, verdict |-> verdict, key |-> key]
  <2>1. CallShaped(call) /\ call.at = "decide"
    BY DEF CallShaped, Resolving
  <2>2. conn' = [conn EXCEPT ![c] = call] /\ UNCHANGED rowVars
    BY <1>1 DEF DecideRead, Open, rowVars, exchangeVars, history
  <2> HIDE DEF call
  <2> QED
    BY <2>1, <2>2, MoveKeeps
<1>2. CASE DecideWrite(c)
  BY <1>2, EndKeeps DEF DecideWrite, Close, rowVars, exchangeVars
<1> QED
  BY <1>1, <1>2 DEF Deciding, DecideUnified

LEMMA StepKeeps == ASSUME IInv, NEW c \in Conns, ExchangeStep(c) PROVE IInv'
<1>1. CASE RequestApproval(c)
  BY <1>1, EndKeeps DEF RequestApproval, Close, rowVars, exchangeVars, history
<1>2. CASE CreateReply(c)
  BY <1>2, EndKeeps DEF CreateReply, Close, rowVars, history
<1>3. CASE Drop(c)
  BY <1>3, EndKeeps DEF Drop, Close, rowVars, exchangeVars, history
<1>4. CASE RevokeReply(c)
  <2>0. PICK i \in Ids : i = conn[c].id
    BY <1>4 DEF IInv, Shaped, CallShaped, RevokeReply, At
  <2>1. CASE Live(ex[i])
    <3>1. /\ UNCHANGED <<scene, ex, issued, told, delivered>> /\ revoked' = revoked \cup {i}
          /\ conn' = [conn EXCEPT ![c] = Idle]
      BY <1>4, <2>0, <2>1 DEF RevokeReply, Close, exchangeVars
    <3>2. ex[i].status = "revoked"
      BY <1>4, <2>0, <2>1 DEF RevokeReply, At, IInv, CallAgrees, Live
    <3> QED
      BY <3>1, <3>2, FadeKeeps DEF IInv, Shaped
  <2>2. CASE ~Live(ex[i])
    BY <1>4, <2>0, <2>2, EndKeeps DEF RevokeReply, Close, rowVars, exchangeVars
  <2> QED
    BY <2>1, <2>2
<1> QED
  BY <1>1, <1>2, <1>3, <1>4, ResolvePolicyKeeps, ResolveApprovalKeeps, CreateInsertKeeps, ReserveKeeps,
     SubmitWriteKeeps, SubmitReplyKeeps, RetrieveConsumeKeeps, RetrieveReplyKeeps, RevokeWriteKeeps
  DEF ExchangeStep

LEMMA InitIInv == Init => IInv
<1> SUFFICES ASSUME Init PROVE IInv
  OBVIOUS
<1>1. \A i \in Ids : ex[i] = NoExchange /\ issued[i] = NotIssued /\ told[i] = {} /\ delivered[i] = <<>>
  BY DEF Init
<1>2. \A c \in Conns : conn[c] = Idle
  BY DEF Init
<1>3. NotIssued.opened = FALSE
  BY DEF NotIssued
<1>4. Shaped
  BY <1>1, <1>2, <1>3, IdleShaped, NoExchangeFades DEF Init, Shaped
<1>5. \A i \in Ids : RowAgrees(i)
  BY <1>1, <1>3, NoExchangeFades DEF RowAgrees, Init
<1>6. (\A c \in Conns : CallAgrees(c)) /\ OneHolder
  BY <1>2 DEF CallAgrees, OneHolder, At, Idle
<1> QED
  BY <1>4, <1>5, <1>6 DEF IInv

LEMMA NextIInv == IInv /\ [Next]_vars => IInv'
<1> SUFFICES ASSUME IInv, [Next]_vars PROVE IInv'
  OBVIOUS
<1>0. scene.conns \subseteq Conns
  BY ScenarioAssumption DEF IInv, Shaped
<1>1. ASSUME NEW c \in scene.conns, ExchangeCall(c) \/ ExchangeStep(c) \/ Deciding(c) PROVE IInv'
  BY <1>0, <1>1, CallKeeps, StepKeeps, DecidingKeeps
<1>2. ASSUME NEW who, NEW i \in Ids, RevokeAgain(who, i) PROVE IInv'
  <2>1. /\ UNCHANGED <<scene, ex, conn, issued, told, delivered>> /\ revoked' = revoked \cup {i}
        /\ ex[i].status = "revoked"
    BY <1>2 DEF RevokeAgain, exchangeVars, handlerVars
  <2> QED
    BY <2>1, FadeKeeps DEF IInv, Shaped
<1>3. CASE UNCHANGED <<scene, ex, conn, issued, told, delivered, revoked>>
  BY <1>3, FadeKeeps DEF IInv, Shaped
<1>4. ASSUME NEW doc, ReplacePolicy(doc) PROVE IInv'
  BY <1>3, <1>4 DEF ReplacePolicy, exchangeVars, handlerVars
<1>5. CASE Tick
  <2>1. /\ ex' = [i \in Ids |-> Older(ex[i])] /\ UNCHANGED <<scene, issued, told, delivered, revoked>>
        /\ conn' = [c \in Conns |-> IF TimedOut(c) THEN Idle ELSE conn[c]]
    BY <1>5 DEF Tick
  <2>2. \A i \in Ids : DOMAIN ex[i] = RowFields
    BY DEF IInv, Shaped
  <2>3. /\ DOMAIN ex' = Ids
        /\ \A i \in Ids : /\ DOMAIN ex'[i] = RowFields /\ ex'[i].status = ex[i].status
                          /\ ex'[i].terms = ex[i].terms /\ ex'[i].payload = ex[i].payload
    BY <2>1, <2>2, AgeKeeps
  <2>4. DOMAIN conn' = Conns /\ \A c \in Conns : conn'[c] = conn[c] \/ conn'[c] = Idle
    BY <2>1
  <2> QED
    BY <2>1, <2>3, <2>4, FadeKeeps DEF IInv, Shaped
<1>6. ASSUME /\ DOMAIN ex' = Ids /\ \A i \in Ids : ex'[i] = ex[i] \/ ex'[i] = NoExchange
             /\ DOMAIN conn' = Conns /\ \A c \in Conns : conn'[c] = conn[c] \/ conn'[c] = Idle
             /\ UNCHANGED <<scene, issued, told, delivered, revoked>>
      PROVE  IInv'
  <2>1. \A i \in Ids : /\ DOMAIN ex'[i] = RowFields
                       /\ ex'[i] = ex[i] \/ ex'[i].status = "absent"
    BY <1>6, NoExchangeFades DEF IInv, Shaped
  <2> QED
    BY <1>6, <2>1, FadeKeeps DEF IInv, Shaped
<1>7. CASE Sweep
  <2>1. CASE SweepExchanges
    BY <1>6, <2>1 DEF SweepExchanges, history, handlerVars, IInv, Shaped
  <2>2. CASE SweepApprovals
    BY <1>3, <2>2 DEF SweepApprovals, exchangeVars, history, handlerVars
  <2>3. CASE SweepKeys
    BY <1>3, <2>3 DEF SweepKeys, exchangeVars, history, handlerVars
  <2> QED
    BY <1>7, <2>1, <2>2, <2>3 DEF Sweep
<1>8. CASE ClockFence
  BY <1>3, <1>8 DEF ClockFence, exchangeVars, history, handlerVars
<1>9. CASE RestartFence
  BY <1>6, <1>9 DEF RestartFence, handlerVars, IInv, Shaped
<1>10. CASE ReconcileClock
  BY <1>6, <1>10 DEF ReconcileClock
<1>11. CASE UNCHANGED vars
  BY <1>3, <1>11 DEF vars, exchangeVars, history, handlerVars
<1> QED
  BY <1>1, <1>2, <1>4, <1>5, <1>7, <1>8, <1>9, <1>10, <1>11 DEF Next

\* For every number of exchanges, workloads and concurrent requests, the ciphertext
\* of an exchange leaves the controller at most once, only to its requester, as
\* acknowledged to its fulfiller, and not at all once a revocation was answered
\* (consume_exchange, submit_exchange, revoke_exchange).
THEOREM OneDelivery == Spec => []DeliveredAsPromised
<1>1. IInv => DeliveredAsPromised
  <2> SUFFICES ASSUME IInv PROVE DeliveredAsPromised
    OBVIOUS
  <2>1. ASSUME NEW i \in Ids
        PROVE  /\ Len(delivered[i]) <= 1
               /\ \A n \in 1 .. Len(delivered[i]) :
                    /\ delivered[i][n].to = issued[i].terms.requester
                    /\ told[i] \subseteq {delivered[i][n].value}
    <3>1. CASE delivered[i] = <<>>
      BY <3>1
    <3>2. CASE delivered[i] # <<>>
      <4>1. SentOnce(delivered[i], issued[i].terms.requester, told[i])
        BY <3>2 DEF IInv, RowAgrees
      <4>2. PICK v : /\ delivered[i] = <<[to |-> issued[i].terms.requester, value |-> v]>>
                     /\ told[i] \subseteq {v}
        BY <4>1 DEF SentOnce
      <4> QED
        BY <4>2
    <3> QED
      BY <3>1, <3>2
  <2>2. ASSUME NEW i \in revoked
        PROVE  /\ delivered[i] = <<>>
               /\ \A c \in Conns : ~(At(c, "consumed") /\ conn[c].id = i)
    BY <2>2 DEF IInv, Shaped, RowAgrees, CallAgrees, At
  <2> QED
    BY <2>1, <2>2 DEF DeliveredAsPromised, DeliveredOnceToRequester, RevokedNeverDelivered
<1> QED
  BY <1>1, InitIInv, NextIInv, PTL DEF Spec

-----------------------------------------------------------------------------
(* The decisions exchanges rest on: idempotency keys, the approvals of the *)
(* operators, and the policy an exchange is reserved under.                *)

\* A key that decided something is remembered for KeyTtl from then on.
KeyInv ==
  /\ DOMAIN keys = Operators \X Keys /\ DOMAIN used = Operators \X Keys
  /\ \A k \in Operators \X Keys :
       /\ DOMAIN keys[k] = {"reference", "verdict", "left"}
       /\ keys[k].left \in Nat /\ used[k] \in Nat
       /\ keys[k].left + used[k] >= KeyTtl

LEMMA NextKeyInv ==
  ASSUME KeyInv, [Next]_vars
  PROVE  KeyInv' /\ [\A k \in Operators \X Keys : used'[k] = 0 /\ used[k] # 0 => used[k] >= KeyTtl]_vars
<1> DEFINE Fresh == \A k \in Operators \X Keys : used'[k] = 0 /\ used[k] # 0 => used[k] >= KeyTtl
<1> SUFFICES KeyInv' /\ Fresh
  OBVIOUS
<1>0. DOMAIN NoKey = {"reference", "verdict", "left"} /\ NoKey.left = 0
  BY DEF NoKey
<1>1. CASE UNCHANGED <<keys, used>>
  BY <1>1 DEF KeyInv
<1>2. ASSUME NEW c, DecideWrite(c) PROVE KeyInv' /\ Fresh
  <2> DEFINE call == conn[c]  k == <<call.who, call.key>>
  <2>1. CASE keys[k] = NoKey /\ Decidable(approvals[call.reference])
    <3>1. keys' = [keys EXCEPT ![k] = Remembered(call)] /\ used' = [used EXCEPT ![k] = 0]
      BY <1>2, <2>1 DEF DecideWrite, Decide
    <3>2. DOMAIN Remembered(call) = {"reference", "verdict", "left"} /\ Remembered(call).left = KeyTtl
      BY DEF Remembered
    <3> HIDE DEF call, k
    <3> QED
      BY <1>0, <2>1, <3>1, <3>2, LifetimeAssumption DEF KeyInv
  <2>2. CASE ~(keys[k] = NoKey /\ Decidable(approvals[call.reference]))
    BY <1>1, <1>2, <2>2 DEF DecideWrite, approvalVars
  <2> QED
    BY <2>1, <2>2
<1>3. CASE Tick
  <2>1. /\ keys' = [k \in Operators \X Keys |->
                     IF keys[k].left > 0 THEN [keys[k] EXCEPT !.left = @ - 1] ELSE keys[k]]
        /\ used' = [k \in Operators \X Keys |-> IF used[k] < KeyTtl THEN used[k] + 1 ELSE used[k]]
    BY <1>3 DEF Tick
  <2>2. ASSUME NEW k \in Operators \X Keys
        PROVE  /\ DOMAIN keys'[k] = {"reference", "verdict", "left"}
               /\ keys'[k].left \in Nat /\ used'[k] \in Nat
               /\ keys'[k].left + used'[k] >= KeyTtl
               /\ used'[k] = 0 => used[k] = 0
    <3>1. /\ DOMAIN keys[k] = {"reference", "verdict", "left"} /\ keys[k].left \in Nat /\ used[k] \in Nat
          /\ keys[k].left + used[k] >= KeyTtl
      BY DEF KeyInv
    <3>2. used'[k] = IF used[k] < KeyTtl THEN used[k] + 1 ELSE used[k]
      BY <2>1
    <3>3. CASE keys[k].left > 0
      <4>1. keys'[k] = [keys[k] EXCEPT !.left = @ - 1]
        BY <2>1, <3>3
      <4>2. DOMAIN keys'[k] = DOMAIN keys[k] /\ keys'[k].left = keys[k].left - 1
        BY <3>1, <4>1
      <4> QED
        BY <3>1, <3>2, <3>3, <4>2, LifetimeAssumption
    <3>4. CASE ~(keys[k].left > 0)
      <4>1. keys'[k] = keys[k]
        BY <2>1, <3>4
      <4> QED
        BY <3>1, <3>2, <3>4, <4>1, LifetimeAssumption
    <3> QED
      BY <3>3, <3>4
  <2> QED
    BY <2>1, <2>2 DEF KeyInv
<1>4. CASE SweepKeys
  <2>1. /\ keys' = [k \in Operators \X Keys |-> IF SpentKey(keys[k]) THEN NoKey ELSE keys[k]]
        /\ used' = used
    BY <1>4 DEF SweepKeys, history
  <2> QED
    BY <1>0, <2>1, LifetimeAssumption DEF KeyInv, SpentKey
<1>5. ASSUME keys' = [k \in Operators \X Keys |-> NoKey], used' = [k \in Operators \X Keys |-> KeyTtl]
      PROVE  KeyInv' /\ Fresh
  BY <1>0, <1>5, LifetimeAssumption DEF KeyInv
<1>6. ASSUME NEW c, ExchangeCall(c) PROVE UNCHANGED <<keys, used>>
  BY <1>6 DEF ExchangeCall, CreateBegin, FulfilRead, SubmitRead, RetrieveRead, RevokeRead, approvalVars,
     history
<1>7. ASSUME NEW c, ExchangeStep(c) PROVE UNCHANGED <<keys, used>>
  BY <1>7 DEF ExchangeStep, ResolvePolicy, ResolveApproval, RequestApproval, CreateInsert, CreateReply,
     Reserve, SubmitWrite, SubmitReply, RetrieveConsume, RetrieveReply, RevokeWrite, RevokeReply, Drop,
     approvalVars, history
<1>8. ASSUME NEW c, Deciding(c) PROVE KeyInv' /\ Fresh
  BY <1>1, <1>2, <1>8 DEF Deciding, DecideUnified, DecideRead, approvalVars, history
<1>9. ASSUME NEW who, NEW i, RevokeAgain(who, i) PROVE UNCHANGED <<keys, used>>
  BY <1>9 DEF RevokeAgain, approvalVars
<1>10. ASSUME NEW doc, ReplacePolicy(doc) PROVE UNCHANGED <<keys, used>>
  BY <1>10 DEF ReplacePolicy, approvalVars
<1>11. SweepExchanges \/ SweepApprovals \/ ClockFence \/ UNCHANGED vars => UNCHANGED <<keys, used>>
  BY DEF SweepExchanges, SweepApprovals, ClockFence, vars, approvalVars, history
<1>12. RestartFence \/ ReconcileClock => KeyInv' /\ Fresh
  BY <1>5 DEF RestartFence, ReconcileClock
<1> HIDE DEF Fresh
<1> QED
  BY <1>1, <1>3, <1>4, <1>6, <1>7, <1>8, <1>9, <1>10, <1>11, <1>12 DEF Next, Sweep

\* For all operators, keys and lifetimes, a key that decided an approval decides
\* nothing again before KeyTtl has passed (decide_approval's idempotency_keys).
THEOREM RetriesAreInert == Spec => RetryDecidesNothing
<1>1. Init => KeyInv
  BY LifetimeAssumption DEF Init, KeyInv, NoKey
<1> QED
  BY <1>1, NextKeyInv, PTL DEF Spec, RetryDecidesNothing

-----------------------------------------------------------------------------
(* What evaluating a document yields. *)

DecisionFields ==
  {"mode", "rule", "reason", "reference", "rings", "secret", "allowed", "approvers", "approverRings"}

\* The rule a decision names, and its approval reference, are those of a document.
FromRule(decision) ==
  \E doc \in Documents : \E n \in DOMAIN doc.rules :
    decision.rule = doc.rules[n].id /\ decision.reference = doc.rules[n].reference

LEMMA FirstExists ==
  ASSUME NEW S, S \subseteq Nat, S # {}
  PROVE  \E n \in S : \A m \in S : n <= m
<1>1. PICK n \in S : \A m \in S : ~ (<<m, n>> \in OpToRel(<, Nat))
  BY WFMin, NatLessThanWellFounded
<1>2. \A m \in S : ~(m < n)
  BY <1>1 DEF OpToRel
<1> QED
  BY <1>2

LEMMA EvaluateYields ==
  ASSUME NEW doc \in Documents, NEW terms
  PROVE  LET d == Evaluate(doc, terms) IN
           /\ DOMAIN d = DecisionFields /\ d.reason[1] # "approved by"
           /\ d.mode = "allow" => d.allowed = terms.fulfiller
           /\ d.mode = "pending_approval" => FromRule(d)
<1> DEFINE S == MatchIndices(doc, terms)
           first == CHOOSE n \in S : \A m \in S : n <= m
           d == Evaluate(doc, terms)
<1>1. CASE terms.secret \notin DOMAIN doc.registry \/ S = {}
  <2>1. d = NoDecision
    BY <1>1 DEF Evaluate
  <2> QED
    BY <2>1 DEF NoDecision, DecisionFields
<1>2. CASE ~(terms.secret \notin DOMAIN doc.registry \/ S = {})
  <2>1. d = Decision(doc.rules[first], doc, terms)
    BY <1>2 DEF Evaluate
  <2>2. S \subseteq DOMAIN doc.rules /\ DOMAIN doc.rules \subseteq Nat
    BY NamesAssumption DEF MatchIndices
  <2>3. first \in DOMAIN doc.rules
    <3> HIDE DEF S
    <3>1. \E n \in S : \A m \in S : n <= m
      BY <1>2, <2>2, FirstExists
    <3> QED
      BY <2>2, <3>1
  <2> HIDE DEF first, d
  <2> DEFINE rule == doc.rules[first]
  <2>4. /\ d.mode = rule.mode /\ d.rule = rule.id /\ d.reference = rule.reference
        /\ d.allowed = IF rule.mode = "allow" THEN terms.fulfiller ELSE NoOne
        /\ DOMAIN d = DecisionFields
    BY <2>1 DEF Decision, DecisionFields
  <2>5. d.reason[1] \in {"classified", "stated"}
    BY <2>1 DEF Decision
  <2>6. FromRule(d)
    BY <2>3, <2>4 DEF FromRule
  <2> QED
    BY <2>4, <2>5, <2>6 DEF d
<1> QED
  BY <1>1, <1>2

LEMMA ReferenceKnown ==
  ASSUME NEW decision, FromRule(decision), NEW terms \in Terms
  PROVE  Reference(decision, terms) \in References
<1>0. PICK doc \in Documents : \E n \in DOMAIN doc.rules :
        decision.rule = doc.rules[n].id /\ decision.reference = doc.rules[n].reference
  BY DEF FromRule
<1>1. PICK n \in DOMAIN doc.rules :
        decision.rule = doc.rules[n].id /\ decision.reference = doc.rules[n].reference
  BY <1>0
<1> DEFINE rules == UNION {{dd.rules[m] : m \in DOMAIN dd.rules} : dd \in Documents}
<1>2. doc.rules[n] \in rules
  OBVIOUS
<1>3. References = ({r.reference : r \in rules} \ {NoOne}) \cup (Terms \X {r.id : r \in rules})
  BY DEF References
<1> HIDE DEF rules
<1>4. doc.rules[n].reference \in {r.reference : r \in rules} /\ doc.rules[n].id \in {r.id : r \in rules}
  BY <1>2
<1> QED
  BY <1>1, <1>3, <1>4 DEF Reference

-----------------------------------------------------------------------------
(* The invariant: what approvals, exchanges and handlers rest on. *)

ApprovalFields == {"status", "terms", "rule", "approvers", "approverRings", "left", "by"}

Tables ==
  /\ DOMAIN approvals = References /\ DOMAIN age = Conns /\ DOMAIN lapsed = Ids
  /\ policy.doc \in Documents
  /\ \A r \in References : DOMAIN approvals[r] = ApprovalFields /\ approvals[r].left \in Int
  /\ \A c \in Conns : age[c] \in Nat /\ age[c] <= RequestTimeout
  /\ \A i \in Ids : lapsed[i].rule \in Nat /\ lapsed[i].approval \in Nat

\* An operator the rule assigns approved exactly these terms under this rule.
Vouched(by, terms, rule) ==
  \E row \in granted : row.by = by /\ Assigned(row, row.by) /\ row.terms = terms /\ row.rule = rule

\* What an exchange may be opened with.
Sound(terms, decision) ==
  /\ terms \in Terms /\ decision.allowed = terms.fulfiller
  /\ ByApproval(decision) =>
       decision.reference \in References /\ Vouched(decision.reason[2], terms, decision.rule)

ApprovalSound(r) ==
  approvals[r].status = "approved" => Vouched(approvals[r].by, approvals[r].terms, approvals[r].rule)

OpenedSound(i) ==
  /\ issued[i].opened => Sound(issued[i].terms, issued[i].decision)
  /\ ~issued[i].opened => lapsed[i] = NoLapse
  /\ ex[i].status # "absent" => ex[i].decision = issued[i].decision

\* The history counts from when the decision was last in force.
LapseSound(i) ==
  ex[i].status = "pending" =>
    /\ YieldedBy(ex[i].decision, policy.doc, ex[i].terms) => lapsed[i].rule = 0
    /\ BackedBy(ex[i].decision, approvals, ex[i].terms) => lapsed[i].approval = 0

\* A handler that resolves the policy, and how old what it resolved may be.
ResolveSound(c) ==
  LET call == conn[c] IN
  /\ call.at \in Resolving =>
       /\ call.terms \in Terms
       /\ call.id # NoOne =>
            /\ issued[call.id].opened /\ call.terms = issued[call.id].terms
            /\ call.hash = PolicyHash(issued[call.id].decision)
  /\ call.at \in {"approval", "request"} =>
       DOMAIN call.decision = DecisionFields /\ FromRule(call.decision)
  /\ call.at = "approval" /\ call.id # NoOne /\ ex[call.id].status = "pending" =>
       \A op : PolicyHash(Approved([by |-> op], call.terms, call.decision)) = call.hash
                 => lapsed[call.id].rule <= age[c]
  /\ call.at = "insert" => Sound(call.terms, call.decision)
  /\ call.at = "reserve" /\ ex[call.id].status = "pending" =>
       lapsed[call.id].rule <= age[c] /\ lapsed[call.id].approval <= age[c]

\* A handler that decides has read a row its operator is assigned to, which cannot
\* have been swept since.
DecideSound(c) ==
  LET call == conn[c]  row == approvals[call.reference] IN
  call.at = "decide" =>
    /\ call.reference \in References /\ call.verdict \in {"approved", "rejected"}
    /\ \/ fenced
       \/ row.status # "absent" /\ Assigned(row, call.who) /\ row.left + age[c] >= 1

AInv ==
  /\ Tables
  /\ \A r \in References : ApprovalSound(r)
  /\ \A i \in Ids : OpenedSound(i) /\ LapseSound(i)
  /\ \A c \in Conns : ResolveSound(c) /\ DecideSound(c)

-----------------------------------------------------------------------------
(* What every step leaves of it. *)

\* n ticks or fewer pass; what was issued and granted stays; an exchange that is
\* pending was pending before.
Onward(n) ==
  /\ granted \subseteq granted'
  /\ \A j \in Ids : issued[j].opened =>
       /\ issued'[j] = issued[j]
       /\ ex'[j].status = "pending" =>
            /\ ex[j].status = "pending"
            /\ lapsed'[j].rule <= lapsed[j].rule + n /\ lapsed'[j].approval <= lapsed[j].approval + n

\* Rows that are not overdue stay, and keep the operators they are assigned to.
RowsOnward(n) ==
  \/ fenced'
  \/ /\ ~fenced
     /\ \A r \in References :
          approvals[r].status # "absent" /\ approvals[r].left > -Grace =>
            /\ approvals'[r].status # "absent"
            /\ approvals'[r].approvers = approvals[r].approvers
            /\ approvals'[r].approverRings = approvals[r].approverRings
            /\ approvals'[r].left >= approvals[r].left - n

LEMMA SoundStays ==
  ASSUME granted \subseteq granted', NEW terms, NEW decision, Sound(terms, decision)
  PROVE  Sound(terms, decision)'
BY DEF Sound, Vouched, ByApproval

LEMMA ResolveStays ==
  ASSUME IInv, AInv, Tables', NEW n \in Nat, Onward(n), NEW c \in Conns, conn'[c] = conn[c],
         age'[c] = age[c] + n
  PROVE  ResolveSound(c)'
<1>1. PICK call : call = conn[c]
  OBVIOUS
<1>2. ResolveSound(c) /\ CallShaped(call)
  BY <1>1 DEF AInv, IInv, Shaped
<1>3. CASE call.at \in Resolving /\ call.id # NoOne
  <2>1. PICK i \in Ids : i = call.id
    BY <1>2, <1>3 DEF CallShaped
  <2>2. issued[i].opened /\ issued'[i] = issued[i]
    BY <1>1, <1>2, <1>3, <2>1 DEF ResolveSound, Onward
  <2>3. ex'[i].status = "pending" =>
          /\ ex[i].status = "pending"
          /\ lapsed'[i].rule <= lapsed[i].rule + n /\ lapsed'[i].approval <= lapsed[i].approval + n
    BY <2>2 DEF Onward
  <2>4. /\ lapsed[i].rule \in Nat /\ lapsed[i].approval \in Nat /\ age[c] \in Nat
        /\ lapsed'[i].rule \in Nat /\ lapsed'[i].approval \in Nat
    BY DEF AInv, Tables
  <2>5. call.at = "insert" => Sound(call.terms, call.decision)'
    BY <1>1, <1>2, SoundStays DEF ResolveSound, Onward
  <2>6. ASSUME call.at = "approval", ex'[i].status = "pending", NEW op,
               PolicyHash(Approved([by |-> op], call.terms, call.decision)) = call.hash
        PROVE  lapsed'[i].rule <= age'[c]
    <3>1. lapsed[i].rule <= age[c]
      BY <1>1, <1>2, <1>3, <2>1, <2>3, <2>6 DEF ResolveSound
    <3> QED
      BY <2>3, <2>4, <2>6, <3>1
  <2>7. ASSUME call.at = "reserve", ex'[i].status = "pending"
        PROVE  lapsed'[i].rule <= age'[c] /\ lapsed'[i].approval <= age'[c]
    <3>1. lapsed[i].rule <= age[c] /\ lapsed[i].approval <= age[c]
      BY <1>1, <1>2, <2>1, <2>3, <2>7 DEF ResolveSound
    <3> QED
      BY <2>3, <2>4, <2>7, <3>1
  <2> QED
    BY <1>1, <1>2, <1>3, <2>1, <2>2, <2>5, <2>6, <2>7 DEF ResolveSound
<1>4. CASE ~(call.at \in Resolving /\ call.id # NoOne)
  <2>1. call.at = "insert" => Sound(call.terms, call.decision)'
    BY <1>1, <1>2, SoundStays DEF ResolveSound, Onward
  <2>2. call.at # "reserve"
    BY <1>2, <1>4, NamesAssumption DEF CallShaped, Resolving
  <2> QED
    BY <1>1, <1>2, <1>4, <2>1, <2>2 DEF ResolveSound, Resolving
<1> QED
  BY <1>3, <1>4

LEMMA DecideStays ==
  ASSUME AInv, Tables', NEW n \in Nat, RowsOnward(n), NEW c \in Conns, conn'[c] = conn[c],
         age'[c] = age[c] + n
  PROVE  DecideSound(c)'
<1>1. PICK call : call = conn[c]
  OBVIOUS
<1>2. SUFFICES ASSUME call.at = "decide", ~fenced' PROVE DecideSound(c)'
  BY <1>1 DEF DecideSound, AInv
<1>3. PICK r \in References : r = call.reference
  BY <1>1, <1>2 DEF AInv, DecideSound
<1>4. approvals[r].status # "absent" /\ Assigned(approvals[r], call.who) /\ approvals[r].left + age[c] >= 1
  BY <1>1, <1>2, <1>3 DEF AInv, DecideSound, RowsOnward
<1>5. approvals[r].left \in Int /\ approvals'[r].left \in Int /\ age[c] \in Nat /\ age[c] <= RequestTimeout
  BY DEF AInv, Tables
<1>6. approvals[r].left > -Grace
  BY <1>4, <1>5, TimeoutAssumption
<1>7. /\ approvals'[r].status # "absent" /\ approvals'[r].approvers = approvals[r].approvers
      /\ approvals'[r].approverRings = approvals[r].approverRings
      /\ approvals'[r].left >= approvals[r].left - n
  BY <1>2, <1>4, <1>6 DEF RowsOnward
<1>8. approvals'[r].left + age'[c] >= 1
  BY <1>4, <1>5, <1>7
<1>9. call.verdict \in {"approved", "rejected"}
  BY <1>1, <1>2 DEF AInv, DecideSound
<1> QED
  BY <1>1, <1>3, <1>4, <1>7, <1>8, <1>9 DEF DecideSound, Assigned

LEMMA IdleSound == ASSUME NEW c \in Conns, conn'[c] = Idle PROVE ResolveSound(c)' /\ DecideSound(c)'
BY DEF ResolveSound, DecideSound, Idle, Resolving

LEMMA BackedStays ==
  ASSUME NEW table, NEW new, NEW terms, NEW decision, ByApproval(decision) => decision.reference \in References,
         \A r \in References : Live(new[r]) /\ new[r].status = "approved" =>
           /\ Live(table[r]) /\ table[r].status = "approved" /\ table[r].terms = new[r].terms
           /\ table[r].rule = new[r].rule /\ table[r].by = new[r].by,
         BackedBy(decision, new, terms)
  PROVE  BackedBy(decision, table, terms)
BY DEF BackedBy, Applies

\* Steps of a handler that leave approvals, the document and the history alone.
settled == <<scene, approvals, policy, fenced, granted, lapsed, issued>>

OneHandler(c) ==
  /\ DOMAIN age' = Conns /\ age'[c] \in {0, age[c]}
  /\ \A d \in Conns \ {c} : conn'[d] = conn[d] /\ age'[d] = age[d]

RowsOnly(j) ==
  ex'[j].status # "absent" =>
    /\ ex[j].status # "absent" /\ ex'[j].decision = ex[j].decision /\ ex'[j].terms = ex[j].terms
    /\ ex'[j].status = "pending" => ex[j].status = "pending"

LEMMA HandlerKeeps ==
  ASSUME IInv, AInv, NEW c \in Conns, OneHandler(c), UNCHANGED settled, \A j \in Ids : RowsOnly(j),
         ResolveSound(c)', DecideSound(c)'
  PROVE  AInv'
<1>1. Tables'
  BY TimeoutAssumption DEF AInv, Tables, settled, OneHandler
<1>2. Onward(0) /\ RowsOnward(0)
  BY DEF Onward, RowsOnward, settled, RowsOnly, AInv, Tables
<1>3. ASSUME NEW r \in References PROVE ApprovalSound(r)'
  <2>1. ApprovalSound(r)
    BY DEF AInv
  <2> QED
    BY <2>1 DEF ApprovalSound, settled, Vouched
<1>4. ASSUME NEW i \in Ids PROVE OpenedSound(i)' /\ LapseSound(i)'
  <2>1. OpenedSound(i) /\ LapseSound(i) /\ RowsOnly(i)
    BY DEF AInv
  <2>2. issued'[i] = issued[i] /\ lapsed'[i] = lapsed[i] /\ policy' = policy /\ approvals' = approvals
        /\ granted' = granted
    BY DEF settled
  <2>3. OpenedSound(i)'
    BY <2>1, <2>2, SoundStays DEF OpenedSound, RowsOnly
  <2>4. LapseSound(i)'
    BY <2>1, <2>2 DEF LapseSound, RowsOnly
  <2> QED
    BY <2>3, <2>4
<1>5. ASSUME NEW d \in Conns PROVE ResolveSound(d)' /\ DecideSound(d)'
  <2> SUFFICES ASSUME d # c PROVE ResolveSound(d)' /\ DecideSound(d)'
    OBVIOUS
  <2>1. conn'[d] = conn[d] /\ age'[d] = age[d] + 0
    BY DEF OneHandler, AInv, Tables
  <2> QED
    BY <1>1, <1>2, <2>1, ResolveStays, DecideStays
<1> QED
  BY <1>1, <1>3, <1>4, <1>5 DEF AInv

\* The same for a handler that ends, or holds what neither resolves nor decides.
LEMMA PlainKeeps ==
  ASSUME IInv, AInv, NEW c \in Conns, OneHandler(c), UNCHANGED settled, \A j \in Ids : RowsOnly(j),
         conn'[c].at \notin Resolving \cup {"decide"}
  PROVE  AInv'
<1>1. ResolveSound(c)' /\ DecideSound(c)'
  BY DEF ResolveSound, DecideSound, Resolving
<1> QED
  BY <1>1, HandlerKeeps

LEMMA OpenIsOne ==
  ASSUME IInv, AInv, NEW c \in Conns, NEW call, Open(c, call) \/ Hold(c, call)
  PROVE  OneHandler(c) /\ conn'[c] = call /\ age'[c] = age[c] /\ age' = age
BY DEF Open, Hold, OneHandler, IInv, Shaped, AInv, Tables

LEMMA CloseIsOne ==
  ASSUME IInv, AInv, NEW c \in Conns, Close(c)
  PROVE  OneHandler(c) /\ conn'[c] = Idle /\ Idle.at = "idle"
BY DEF Close, OneHandler, IInv, Shaped, AInv, Tables, Idle

LEMMA SameRows == ASSUME ex' = ex PROVE \A j \in Ids : RowsOnly(j)
BY DEF RowsOnly

LEMMA OneRow ==
  ASSUME IInv, NEW i \in Ids, NEW row, ex' = [ex EXCEPT ![i] = row],
         row.status # "absent" =>
           /\ ex[i].status # "absent" /\ row.decision = ex[i].decision /\ row.terms = ex[i].terms
           /\ row.status # "pending"
  PROVE  \A j \in Ids : RowsOnly(j)
BY DEF RowsOnly, IInv, Shaped

LEMMA CallSound == ASSUME IInv, AInv, NEW c \in Conns, ExchangeCall(c) PROVE AInv'
<1>1. ASSUME NEW terms \in Terms, CreateBegin(c, terms) PROVE AInv'
  <2> DEFINE call == [at |-> "policy", id |-> NoOne, who |-> terms.requester, terms |-> terms,
                      hash |-> NoOne, decision |-> NoDecision]
  <2>1. Open(c, call) /\ UNCHANGED <<ex, settled>>
    BY <1>1 DEF CreateBegin, settled, exchangeVars, approvalVars, history
  <2>2. call.at = "policy" /\ call.id = NoOne /\ call.terms = terms
    OBVIOUS
  <2> HIDE DEF call
  <2>3. ResolveSound(c)' /\ DecideSound(c)'
    BY <2>1, <2>2, OpenIsOne DEF ResolveSound, DecideSound
  <2> QED
    BY <2>1, <2>3, OpenIsOne, SameRows, HandlerKeeps
<1>2. ASSUME NEW who, NEW i \in Ids, FulfilRead(c, who, i) PROVE AInv'
  <2> DEFINE call == [at |-> "policy", id |-> i, who |-> who,
                      terms |-> [ex[i].terms EXCEPT !.fulfiller = who],
                      hash |-> PolicyHash(ex[i].decision), decision |-> NoDecision]
  <2>1. Open(c, call) /\ UNCHANGED <<ex, settled>>
    BY <1>2 DEF FulfilRead, settled, exchangeVars, approvalVars, history
  <2>2. /\ ex[i].status = "pending" /\ ex[i].decision.allowed = who
        /\ issued[i].opened /\ ex[i].terms = issued[i].terms /\ ex[i].decision = issued[i].decision
        /\ Sound(issued[i].terms, issued[i].decision)
    BY <1>2 DEF FulfilRead, Reservable, IInv, RowAgrees, AInv, OpenedSound
  <2>3. [ex[i].terms EXCEPT !.fulfiller = who] = issued[i].terms
    <3>1. issued[i].terms \in [requester : Agents, fulfiller : Agents, secret : STRING, purpose : STRING]
      BY <2>2, NamesAssumption DEF Sound
    <3>2. who = issued[i].terms.fulfiller
      BY <2>2 DEF Sound
    <3> QED
      BY <2>2, <3>1, <3>2
  <2>4. call.at = "policy" /\ call.id = i /\ call.terms = issued[i].terms
        /\ call.hash = PolicyHash(issued[i].decision)
    BY <2>2, <2>3
  <2> HIDE DEF call
  <2>5. ResolveSound(c)' /\ DecideSound(c)'
    <3>1. issued[i].terms \in Terms
      BY <2>2 DEF Sound
    <3> QED
      BY <2>1, <2>2, <2>4, <3>1, OpenIsOne DEF ResolveSound, DecideSound, settled
  <2> QED
    BY <2>1, <2>5, OpenIsOne, SameRows, HandlerKeeps
<1>3. ASSUME NEW who, NEW i \in Ids, NEW value, SubmitRead(c, who, i, value) PROVE AInv'
  <2> DEFINE call == [at |-> "submit", id |-> i, who |-> who, value |-> value]
  <2>1. Open(c, call) /\ UNCHANGED <<ex, settled>> /\ call.at = "submit"
    BY <1>3 DEF SubmitRead, settled, exchangeVars, approvalVars, history
  <2> QED
    BY <2>1, OpenIsOne, SameRows, PlainKeeps DEF Resolving
<1>4. ASSUME NEW who, NEW i \in Ids, RetrieveRead(c, who, i) PROVE AInv'
  <2> DEFINE call == [at |-> "retrieve", id |-> i, who |-> who]
  <2>1. Open(c, call) /\ UNCHANGED <<ex, settled>> /\ call.at = "retrieve"
    BY <1>4 DEF RetrieveRead, settled, exchangeVars, approvalVars, history
  <2> QED
    BY <2>1, OpenIsOne, SameRows, PlainKeeps DEF Resolving
<1>5. ASSUME NEW who, NEW i \in Ids, RevokeRead(c, who, i) PROVE AInv'
  <2> DEFINE call == [at |-> "revoke", id |-> i, who |-> who]
  <2>1. Open(c, call) /\ UNCHANGED <<ex, settled>> /\ call.at = "revoke"
    BY <1>5 DEF RevokeRead, settled, exchangeVars, approvalVars, history
  <2> QED
    BY <2>1, OpenIsOne, SameRows, PlainKeeps DEF Resolving
<1> QED
  BY <1>1, <1>2, <1>3, <1>4, <1>5 DEF ExchangeCall

\* Continuing with a decision that was sound and, for a reservation, in force.
LEMMA ProceedSound ==
  ASSUME IInv, AInv, NEW c \in Conns, conn[c].at \in {"policy", "approval"}, NEW decision,
         Proceed(c, decision), UNCHANGED <<ex, settled>>,
         conn[c].id = NoOne /\ decision.mode = "allow" => Sound(conn[c].terms, decision),
         conn[c].id # NoOne /\ PolicyHash(decision) = conn[c].hash /\ ex[conn[c].id].status = "pending" =>
           lapsed[conn[c].id].rule <= age[c] /\ lapsed[conn[c].id].approval <= age[c]
  PROVE  AInv'
<1>1. CASE Admits(conn[c], decision)
  <2>1. PICK call : /\ Hold(c, call)
                    /\ call = [conn[c] EXCEPT !.at = IF conn[c].id = NoOne THEN "insert" ELSE "reserve",
                                              !.decision = decision]
    BY <1>1 DEF Proceed
  <2>2. /\ DOMAIN conn[c] = {"at", "id", "who", "terms", "hash", "decision"}
        /\ conn[c].at \in Resolving /\ ResolveSound(c)
    BY DEF IInv, AInv, Shaped, CallShaped, Resolving
  <2>3. /\ call.at = IF conn[c].id = NoOne THEN "insert" ELSE "reserve"
        /\ call.id = conn[c].id /\ call.terms = conn[c].terms /\ call.hash = conn[c].hash
        /\ call.decision = decision
    BY <2>1, <2>2
  <2>4. /\ decision.mode = "allow"
        /\ conn[c].id # NoOne => PolicyHash(decision) = conn[c].hash
    BY <1>1 DEF Admits
  <2>5. conn'[c] = call /\ age'[c] = age[c]
    BY <2>1, OpenIsOne
  <2>6. call.id = NoOne => Sound(call.terms, call.decision)'
    BY <2>3, <2>4, SoundStays DEF settled
  <2>7. ResolveSound(c)' /\ DecideSound(c)'
    BY <2>2, <2>3, <2>4, <2>5, <2>6 DEF ResolveSound, DecideSound, settled
  <2> QED
    BY <2>1, <2>7, OpenIsOne, SameRows, HandlerKeeps
<1>2. CASE ~Admits(conn[c], decision)
  <2>1. Close(c)
    BY <1>2 DEF Proceed
  <2> QED
    BY <2>1, CloseIsOne, SameRows, PlainKeeps DEF Resolving
<1> QED
  BY <1>1, <1>2

LEMMA HashFields ==
  ASSUME NEW d, NEW e, PolicyHash(d) = PolicyHash(e)
  PROVE  d.reason = e.reason /\ d.rule = e.rule /\ d.reference = e.reference /\ d.allowed = e.allowed
BY DEF PolicyHash

LEMMA ResolvePolicySound == ASSUME IInv, AInv, NEW c \in Conns, ResolvePolicy(c) PROVE AInv'
<1> DEFINE terms == conn[c].terms  decision == Evaluate(policy.doc, terms)
           call == [conn[c] EXCEPT !.at = "approval", !.decision = decision]
<1>1. UNCHANGED <<ex, settled>> /\ conn[c].at = "policy"
  BY DEF ResolvePolicy, At, settled, exchangeVars, approvalVars, history
<1>2. \/ decision.mode = "pending_approval" /\ Hold(c, call)
      \/ decision.mode # "pending_approval" /\ Proceed(c, decision)
  BY DEF ResolvePolicy, PolicyDocument
<1>3. /\ DOMAIN conn[c] = {"at", "id", "who", "terms", "hash", "decision"}
      /\ conn[c].id \in Ids \cup {NoOne} /\ ResolveSound(c) /\ conn[c].at \in Resolving
  BY <1>1 DEF IInv, AInv, Shaped, CallShaped, Resolving
<1>4. /\ DOMAIN decision = DecisionFields /\ decision.reason[1] # "approved by"
      /\ decision.mode = "allow" => decision.allowed = terms.fulfiller
      /\ decision.mode = "pending_approval" => FromRule(decision)
  BY EvaluateYields DEF AInv, Tables
<1>5. ASSUME NEW i \in Ids, conn[c].id = i
      PROVE  /\ issued[i].opened /\ terms = issued[i].terms
             /\ conn[c].hash = PolicyHash(issued[i].decision)
             /\ ex[i].status = "pending" =>
                  /\ ex[i].terms = terms /\ ex[i].decision = issued[i].decision /\ LapseSound(i)
  BY <1>3, <1>5, NamesAssumption DEF ResolveSound, IInv, RowAgrees, AInv, OpenedSound
<1>6. age[c] \in Nat
  BY DEF AInv, Tables
<1>7. CASE decision.mode = "pending_approval" /\ Hold(c, call)
  <2>1. /\ call.at = "approval" /\ call.id = conn[c].id /\ call.terms = terms
        /\ call.hash = conn[c].hash /\ call.decision = decision
    BY <1>3
  <2>2. ASSUME NEW i \in Ids, conn[c].id = i, ex[i].status = "pending", NEW op,
               PolicyHash(Approved([by |-> op], terms, decision)) = conn[c].hash
        PROVE  lapsed[i].rule <= age[c]
    <3> DEFINE given == Approved([by |-> op], terms, decision)  old == ex[i].decision
    <3>1. given.reason[1] = "approved by" /\ given.reason[2] = op
      <4> DEFINE row == [by |-> op]
      <4>1. given = Approved(row, terms, decision) /\ row.by = op
        OBVIOUS
      <4> HIDE DEF decision, given, row
      <4> QED
        BY <1>4, <4>1 DEF Approved, DecisionFields
    <3>2. PolicyHash(given) = PolicyHash(old)
      BY <1>5, <2>2
    <3>3. ByApproval(old) /\ old.reason[2] = op
      <4> HIDE DEF given, old
      <4> QED
        BY <3>1, <3>2, HashFields DEF ByApproval
    <3>4. YieldedBy(old, policy.doc, terms)
      <4>1. PolicyHash(Approved([by |-> old.reason[2]], terms, decision)) = PolicyHash(old)
        BY <3>2, <3>3
      <4> QED
        BY <1>7, <3>3, <4>1 DEF YieldedBy
    <3> QED
      BY <1>5, <1>6, <2>2, <3>4 DEF LapseSound
  <2> HIDE DEF call, decision
  <2>3. conn'[c] = call /\ age'[c] = age[c]
    BY <1>7, OpenIsOne
  <2>4. ResolveSound(c)' /\ DecideSound(c)'
    BY <1>1, <1>3, <1>4, <1>7, <2>1, <2>2, <2>3 DEF ResolveSound, DecideSound, settled
  <2> QED
    BY <1>1, <1>7, <2>4, OpenIsOne, SameRows, HandlerKeeps
<1>8. CASE decision.mode # "pending_approval" /\ Proceed(c, decision)
  <2>1. ASSUME NEW i \in Ids, conn[c].id = i, ex[i].status = "pending", PolicyHash(decision) = conn[c].hash
        PROVE  lapsed[i].rule <= age[c] /\ lapsed[i].approval <= age[c]
    <3> DEFINE old == ex[i].decision
    <3>1. PolicyHash(decision) = PolicyHash(old)
      BY <1>5, <2>1
    <3>2. ~ByApproval(old)
      <4> HIDE DEF decision, old
      <4> QED
        BY <1>4, <3>1, HashFields DEF ByApproval
    <3>3. YieldedBy(old, policy.doc, terms) /\ BackedBy(old, approvals, terms)
      BY <3>1, <3>2 DEF YieldedBy, BackedBy
    <3> QED
      BY <1>5, <1>6, <2>1, <3>3 DEF LapseSound
  <2>2. decision.mode = "allow" => Sound(terms, decision)
    BY <1>3, <1>4 DEF Sound, ByApproval, ResolveSound
  <2> HIDE DEF decision
  <2> QED
    BY <1>1, <1>3, <1>8, <2>1, <2>2, ProceedSound
<1> QED
  BY <1>2, <1>7, <1>8

LEMMA ResolveApprovalSound == ASSUME IInv, AInv, NEW c \in Conns, ResolveApproval(c) PROVE AInv'
<1> DEFINE terms == conn[c].terms  found == conn[c].decision
           row == approvals[Reference(found, terms)]
           decision == Approved(row, terms, found)
           call == [conn[c] EXCEPT !.at = "request"]
<1>1. UNCHANGED <<ex, settled>> /\ conn[c].at = "approval"
  BY DEF ResolveApproval, At, settled, exchangeVars, approvalVars, history
<1>2. \/ Applies(row, terms, found) /\ row.status = "approved" /\ Proceed(c, decision)
      \/ Close(c)
      \/ Hold(c, call)
  BY DEF ResolveApproval
<1>3. /\ DOMAIN conn[c] = {"at", "id", "who", "terms", "hash", "decision"}
      /\ conn[c].id \in Ids \cup {NoOne} /\ ResolveSound(c) /\ conn[c].at \in Resolving
  BY <1>1 DEF IInv, AInv, Shaped, CallShaped, Resolving
<1>4. /\ terms \in Terms /\ DOMAIN found = DecisionFields /\ FromRule(found)
      /\ Reference(found, terms) \in References
  BY <1>1, <1>3, ReferenceKnown DEF ResolveSound
<1>5. /\ decision.mode = "allow" /\ decision.allowed = terms.fulfiller /\ decision.rule = found.rule
      /\ decision.reference = Reference(found, terms)
      /\ decision.reason[1] = "approved by" /\ decision.reason[2] = row.by
  <2>1. decision = Approved(row, terms, found)
    OBVIOUS
  <2> HIDE DEF decision, row, found, terms
  <2> QED
    BY <1>4, <2>1 DEF Approved, DecisionFields
<1>6. ASSUME NEW i \in Ids, conn[c].id = i
      PROVE  /\ issued[i].opened /\ terms = issued[i].terms
             /\ conn[c].hash = PolicyHash(issued[i].decision)
             /\ ex[i].status = "pending" =>
                  /\ ex[i].terms = terms /\ ex[i].decision = issued[i].decision /\ LapseSound(i)
  BY <1>3, <1>6, NamesAssumption DEF ResolveSound, IInv, RowAgrees, AInv, OpenedSound
<1>7. CASE Applies(row, terms, found) /\ row.status = "approved" /\ Proceed(c, decision)
  <2>1. Sound(terms, decision)
    <3>1. Vouched(row.by, row.terms, row.rule)
      BY <1>4, <1>7 DEF AInv, ApprovalSound
    <3>2. row.terms = terms /\ row.rule = found.rule
      BY <1>7 DEF Applies
    <3> HIDE DEF decision, row, found
    <3> QED
      BY <1>4, <1>5, <3>1, <3>2 DEF Sound
  <2>2. ASSUME NEW i \in Ids, conn[c].id = i, ex[i].status = "pending", PolicyHash(decision) = conn[c].hash
        PROVE  lapsed[i].rule <= age[c] /\ lapsed[i].approval <= age[c]
    <3> DEFINE old == ex[i].decision
    <3>1. PolicyHash(decision) = PolicyHash(old)
      BY <1>6, <2>2
    <3>2. decision = Approved([by |-> row.by], terms, found)
      BY DEF Approved
    <3>3. lapsed[i].rule <= age[c]
      BY <1>1, <1>3, <2>2, <3>2, NamesAssumption DEF ResolveSound
    <3>4. decision.reason = old.reason /\ decision.rule = old.rule /\ decision.reference = old.reference
      <4> HIDE DEF decision, old
      <4> QED
        BY <3>1, HashFields
    <3>5. BackedBy(old, approvals, terms)
      <4> HIDE DEF decision, old
      <4>1. old.reference = Reference(found, terms) /\ old.reason[2] = row.by /\ old.rule = found.rule
        BY <1>5, <3>4
      <4> QED
        BY <1>7, <4>1 DEF BackedBy, Applies
    <3>6. lapsed[i].approval = 0 /\ age[c] \in Nat
      BY <1>6, <2>2, <3>5 DEF LapseSound, AInv, Tables
    <3> QED
      BY <3>3, <3>6
  <2> HIDE DEF decision
  <2> QED
    BY <1>1, <1>3, <1>7, <2>1, <2>2, ProceedSound
<1>8. CASE Close(c)
  BY <1>1, <1>8, CloseIsOne, SameRows, PlainKeeps DEF Resolving
<1>9. CASE Hold(c, call)
  <2>1. /\ call.at = "request" /\ call.id = conn[c].id /\ call.terms = terms
        /\ call.hash = conn[c].hash /\ call.decision = found
    BY <1>3
  <2> HIDE DEF call
  <2>2. conn'[c] = call
    BY <1>9, OpenIsOne
  <2>3. ResolveSound(c)' /\ DecideSound(c)'
    BY <1>1, <1>3, <1>4, <2>1, <2>2 DEF ResolveSound, DecideSound, settled
  <2> QED
    BY <1>1, <1>9, <2>3, OpenIsOne, SameRows, HandlerKeeps
<1> QED
  BY <1>2, <1>7, <1>8, <1>9

\* A step is sound when it leaves sound rows and each handler goes on or is sound anew.
LEMMA StepSound ==
  ASSUME IInv, AInv, Tables', NEW n \in Nat, Onward(n), RowsOnward(n),
         \A r \in References : ApprovalSound(r)', \A i \in Ids : OpenedSound(i)' /\ LapseSound(i)',
         \A c \in Conns : \/ conn'[c] = conn[c] /\ age'[c] = age[c] + n
                          \/ ResolveSound(c)' /\ DecideSound(c)'
  PROVE  AInv'
<1>1. ASSUME NEW c \in Conns PROVE ResolveSound(c)' /\ DecideSound(c)'
  BY ResolveStays, DecideStays
<1> QED
  BY <1>1 DEF AInv

LEMMA CreateInsertSound ==
  ASSUME IInv, AInv, NEW c \in Conns, NEW i \in Ids, CreateInsert(c, i) PROVE AInv'
<1> DEFINE row == [status |-> "pending", terms |-> conn[c].terms, decision |-> conn[c].decision,
                   by |-> NoOne, left |-> scene.ttl, payload |-> NoOne]
           entry == [opened |-> TRUE, terms |-> conn[c].terms, decision |-> conn[c].decision]
           call == [at |-> "created", id |-> i]
<1>1. /\ ~issued[i].opened /\ ex' = [ex EXCEPT ![i] = row] /\ issued' = [issued EXCEPT ![i] = entry]
      /\ Hold(c, call) /\ conn[c].at = "insert"
      /\ UNCHANGED <<scene, approvals, policy, fenced, granted, lapsed>>
  BY DEF CreateInsert, At, approvalVars
<1>2. /\ row.status = "pending" /\ row.terms = entry.terms /\ row.decision = entry.decision
      /\ entry.opened = TRUE /\ call.at = "created"
      /\ entry.terms = conn[c].terms /\ entry.decision = conn[c].decision
  OBVIOUS
<1> HIDE DEF row, entry, call
<1>3. Sound(entry.terms, entry.decision)
  BY <1>1, <1>2 DEF AInv, ResolveSound
<1>4. Tables' /\ OneHandler(c) /\ conn'[c] = call
  BY <1>1, OpenIsOne DEF AInv, Tables
<1>5. /\ issued'[i] = entry /\ ex'[i] = row
      /\ \A j \in Ids \ {i} : issued'[j] = issued[j] /\ ex'[j] = ex[j]
  BY <1>1 DEF IInv, Shaped
<1>6. Onward(0) /\ RowsOnward(0)
  BY <1>1, <1>5 DEF Onward, RowsOnward, AInv, Tables
<1>7. \A r \in References : ApprovalSound(r)'
  BY <1>1 DEF AInv, ApprovalSound, Vouched
<1>8. OpenedSound(i)' /\ LapseSound(i)'
  <2>1. PICK t, d : t = entry.terms /\ d = entry.decision
    OBVIOUS
  <2>2. Sound(t, d)'
    BY <1>1, <1>3, <2>1, SoundStays
  <2>3. OpenedSound(i)'
    BY <1>2, <1>5, <2>1, <2>2 DEF OpenedSound
  <2>4. lapsed[i] = NoLapse
    BY <1>1 DEF AInv, OpenedSound
  <2>5. LapseSound(i)'
    BY <1>1, <2>4 DEF LapseSound, NoLapse
  <2> QED
    BY <2>3, <2>5
<1>9. ASSUME NEW j \in Ids \ {i} PROVE OpenedSound(j)' /\ LapseSound(j)'
  <2>1. OpenedSound(j) /\ LapseSound(j) /\ issued'[j] = issued[j] /\ ex'[j] = ex[j] /\ granted' = granted
        /\ lapsed' = lapsed /\ approvals' = approvals /\ policy' = policy
    BY <1>1, <1>5 DEF AInv
  <2>2. OpenedSound(j)'
    BY <2>1 DEF OpenedSound, Sound, Vouched, ByApproval
  <2>3. LapseSound(j)'
    BY <2>1 DEF LapseSound
  <2> QED
    BY <2>2, <2>3
<1>10. ASSUME NEW d \in Conns
       PROVE  (conn'[d] = conn[d] /\ age'[d] = age[d] + 0) \/ (ResolveSound(d)' /\ DecideSound(d)')
  <2>1. CASE d = c
    BY <1>2, <1>4, <2>1 DEF ResolveSound, DecideSound, Resolving
  <2>2. CASE d # c
    BY <1>4, <2>2 DEF OneHandler, AInv, Tables
  <2> QED
    BY <2>1, <2>2
<1> QED
  BY <1>4, <1>6, <1>7, <1>8, <1>9, <1>10, StepSound

\* Steps that only remove, age or add approvals nobody decided.
Undecided ==
  \A r \in References : Live(approvals'[r]) /\ approvals'[r].status = "approved" =>
    /\ Live(approvals[r]) /\ approvals[r].status = "approved" /\ approvals[r].terms = approvals'[r].terms
    /\ approvals[r].rule = approvals'[r].rule /\ approvals[r].by = approvals'[r].by

LEMMA UndecidedKeeps ==
  ASSUME IInv, AInv, Undecided, UNCHANGED <<policy, lapsed, issued>>, granted \subseteq granted',
         NEW i \in Ids, RowsOnly(i)
  PROVE  OpenedSound(i)' /\ LapseSound(i)'
<1>1. OpenedSound(i) /\ LapseSound(i) /\ RowAgrees(i)
  BY DEF AInv, IInv
<1>2. OpenedSound(i)'
  <2>1. PICK t, d : t = issued[i].terms /\ d = issued[i].decision
    OBVIOUS
  <2> QED
    BY <1>1, <2>1, SoundStays DEF OpenedSound, RowsOnly
<1>3. ASSUME ex'[i].status = "pending", BackedBy(ex'[i].decision, approvals', ex'[i].terms)
      PROVE  BackedBy(ex[i].decision, approvals, ex[i].terms)
  <2>1. ex'[i].decision = ex[i].decision /\ ex'[i].terms = ex[i].terms /\ ex[i].status = "pending"
    BY <1>3 DEF RowsOnly
  <2>2. ByApproval(ex[i].decision) => ex[i].decision.reference \in References
    BY <1>1, <2>1 DEF OpenedSound, Sound, RowAgrees
  <2> QED
    BY <1>3, <2>1, <2>2, BackedStays DEF Undecided
<1>4. LapseSound(i)'
  BY <1>1, <1>3 DEF LapseSound, RowsOnly
<1> QED
  BY <1>2, <1>4

LEMMA RequestApprovalSound == ASSUME IInv, AInv, NEW c \in Conns, RequestApproval(c) PROVE AInv'
<1>0. PICK ref, row : /\ ref = Reference(conn[c].decision, conn[c].terms)
                      /\ row = Requested(conn[c].terms, conn[c].decision)
  OBVIOUS
<1>1. /\ approvals' = IF approvals[ref].status = "absent" THEN [approvals EXCEPT ![ref] = row] ELSE approvals
      /\ Close(c) /\ UNCHANGED <<ex, scene, policy, fenced, granted, lapsed, issued>>
  BY <1>0 DEF RequestApproval, exchangeVars, history
<1>2. row.status = "pending" /\ DOMAIN row = ApprovalFields /\ row.left \in Int
  BY <1>0, LifetimeAssumption DEF Requested, ApprovalFields
<1>3. DOMAIN approvals = References
  BY DEF AInv, Tables
<1>4. /\ DOMAIN approvals' = References
      /\ \A r \in References : approvals'[r] = approvals[r] \/ (approvals[r].status = "absent" /\ approvals'[r] = row)
  BY <1>1, <1>3
<1>5. Tables'
  BY <1>1, <1>2, <1>4, CloseIsOne, TimeoutAssumption DEF AInv, Tables, OneHandler
<1>6. Onward(0) /\ RowsOnward(0)
  BY <1>1, <1>4 DEF Onward, RowsOnward, AInv, Tables
<1>7. \A r \in References : ApprovalSound(r)'
  BY <1>1, <1>2, <1>4 DEF AInv, ApprovalSound, Vouched
<1>8. Undecided
  BY <1>2, <1>4 DEF Undecided
<1>9. \A i \in Ids : OpenedSound(i)' /\ LapseSound(i)'
  BY <1>1, <1>8, SameRows, UndecidedKeeps
<1>10. ASSUME NEW d \in Conns
       PROVE  (conn'[d] = conn[d] /\ age'[d] = age[d] + 0) \/ (ResolveSound(d)' /\ DecideSound(d)')
  BY <1>1, CloseIsOne, IdleSound DEF OneHandler, AInv, Tables
<1> QED
  BY <1>5, <1>6, <1>7, <1>9, <1>10, StepSound

LEMMA ExchangeStepSound == ASSUME IInv, AInv, NEW c \in Conns, ExchangeStep(c) PROVE AInv'
<1>0. ASSUME Close(c), UNCHANGED <<ex, settled>> PROVE AInv'
  BY <1>0, CloseIsOne, SameRows, PlainKeeps DEF Resolving
<1>1. CASE CreateReply(c) \/ Drop(c) \/ SubmitReply(c) \/ RetrieveReply(c) \/ RevokeReply(c)
  BY <1>0, <1>1 DEF CreateReply, Drop, SubmitReply, RetrieveReply, RevokeReply, settled, exchangeVars,
     approvalVars, history
<1>2. CASE Reserve(c)
  <2>0. PICK i \in Ids : i = conn[c].id
    BY <1>2 DEF IInv, Shaped, CallShaped, Reserve, At
  <2>1. CASE Reservable(ex[i], conn[c].who)
    <3>1. PICK row : row = Reserved(ex[i], conn[c].who)
      OBVIOUS
    <3>2. ex' = [ex EXCEPT ![i] = row] /\ Close(c) /\ UNCHANGED settled /\ ex[i].status = "pending"
      BY <1>2, <2>0, <2>1, <3>1 DEF Reserve, Reservable, settled, approvalVars, history
    <3>3. row.status = "reserved" /\ row.decision = ex[i].decision /\ row.terms = ex[i].terms
      <4>1. DOMAIN ex[i] = RowFields
        BY DEF IInv, Shaped
      <4> QED
        BY <3>1, <4>1 DEF Reserved, RowFields
    <3> QED
      BY <3>2, <3>3, CloseIsOne, OneRow, PlainKeeps DEF Resolving
  <2>2. CASE ~Reservable(ex[i], conn[c].who)
    BY <1>0, <1>2, <2>0, <2>2 DEF Reserve, settled, approvalVars, history
  <2> QED
    BY <2>1, <2>2
<1>3. CASE SubmitWrite(c)
  <2>0. PICK i \in Ids : i = conn[c].id
    BY <1>3 DEF IInv, Shaped, CallShaped, SubmitWrite, At
  <2>1. CASE Submittable(ex[i], conn[c].who)
    <3>1. PICK row, call : row = Submitted(ex[i], conn[c].value) /\ call = [conn[c] EXCEPT !.at = "submitted"]
      OBVIOUS
    <3>2. ex' = [ex EXCEPT ![i] = row] /\ Hold(c, call) /\ UNCHANGED settled /\ ex[i].status = "reserved"
      BY <1>3, <2>0, <2>1, <3>1 DEF SubmitWrite, Submittable, settled, approvalVars, history
    <3>3. DOMAIN ex[i] = RowFields /\ DOMAIN conn[c] = {"at", "id", "who", "value"}
      BY <1>3 DEF IInv, Shaped, CallShaped, SubmitWrite, At
    <3>4. row.status = "submitted" /\ row.decision = ex[i].decision /\ row.terms = ex[i].terms
      BY <3>1, <3>3 DEF Submitted, RowFields
    <3>5. call.at = "submitted"
      BY <3>1, <3>3
    <3> QED
      BY <3>2, <3>4, <3>5, OpenIsOne, OneRow, PlainKeeps DEF Resolving
  <2>2. CASE ~Submittable(ex[i], conn[c].who)
    BY <1>0, <1>3, <2>0, <2>2 DEF SubmitWrite, settled, approvalVars, history
  <2> QED
    BY <2>1, <2>2
<1>4. CASE RetrieveConsume(c)
  <2>0. PICK i \in Ids : i = conn[c].id
    BY <1>4 DEF IInv, Shaped, CallShaped, RetrieveConsume, At
  <2>1. CASE Consumable(ex[i], conn[c].who)
    <3>1. PICK call : call = [at |-> "consumed", id |-> i, who |-> conn[c].who, value |-> ex[i].payload]
      OBVIOUS
    <3>2. ex' = [ex EXCEPT ![i] = NoExchange] /\ Hold(c, call) /\ UNCHANGED settled
      BY <1>4, <2>0, <2>1, <3>1 DEF RetrieveConsume, Taken, settled, approvalVars, history
    <3>3. call.at = "consumed"
      BY <3>1
    <3> QED
      BY <3>2, <3>3, NoExchangeFades, OpenIsOne, OneRow, PlainKeeps DEF Resolving
  <2>2. CASE ~Consumable(ex[i], conn[c].who)
    BY <1>0, <1>4, <2>0, <2>2 DEF RetrieveConsume, settled, approvalVars, history
  <2> QED
    BY <2>1, <2>2
<1>5. CASE RevokeWrite(c)
  <2>0. PICK i \in Ids : i = conn[c].id
    BY <1>5 DEF IInv, Shaped, CallShaped, RevokeWrite, At
  <2>1. CASE Revocable(ex[i], conn[c].who)
    <3>1. PICK row, call : row = Revoked(ex[i]) /\ call = [conn[c] EXCEPT !.at = "revoked"]
      OBVIOUS
    <3>2. ex' = [ex EXCEPT ![i] = row] /\ Hold(c, call) /\ UNCHANGED settled /\ ex[i].status # "absent"
      BY <1>5, <2>0, <2>1, <3>1 DEF RevokeWrite, Revocable, Live, settled, approvalVars, history
    <3>3. DOMAIN ex[i] = RowFields /\ DOMAIN conn[c] = {"at", "id", "who"}
      BY <1>5 DEF IInv, Shaped, CallShaped, RevokeWrite, At
    <3>4. row.status = "revoked" /\ row.decision = ex[i].decision /\ row.terms = ex[i].terms
      BY <3>1, <3>3 DEF Revoked, RowFields
    <3>5. call.at = "revoked"
      BY <3>1, <3>3
    <3> QED
      BY <3>2, <3>4, <3>5, OpenIsOne, OneRow, PlainKeeps DEF Resolving
  <2>2. CASE ~Revocable(ex[i], conn[c].who)
    BY <1>0, <1>5, <2>0, <2>2 DEF RevokeWrite, settled, approvalVars, history
  <2> QED
    BY <2>1, <2>2
<1> QED
  BY <1>1, <1>2, <1>3, <1>4, <1>5, ResolvePolicySound, ResolveApprovalSound, RequestApprovalSound,
     CreateInsertSound DEF ExchangeStep

-----------------------------------------------------------------------------
(* Steps that recompute the history. *)

LEMMA LapseYields ==
  ASSUME AInv, NEW doc, NEW table, NEW n \in Nat, lapsed' = Lapse(doc, table, n), NEW i \in Ids
  PROVE  /\ lapsed'[i].rule \in Nat /\ lapsed'[i].approval \in Nat
         /\ lapsed'[i].rule <= lapsed[i].rule + n /\ lapsed'[i].approval <= lapsed[i].approval + n
         /\ ex[i].status = "absent" => lapsed'[i] = NoLapse
         /\ ex[i].status = "pending" /\ YieldedBy(ex[i].decision, doc, ex[i].terms) => lapsed'[i].rule = 0
         /\ ex[i].status = "pending" /\ BackedBy(ex[i].decision, table, ex[i].terms) => lapsed'[i].approval = 0
<1>1. lapsed[i].rule \in Nat /\ lapsed[i].approval \in Nat
  BY DEF AInv, Tables
<1>2. NoLapse.rule = 0 /\ NoLapse.approval = 0
  BY DEF NoLapse
<1>3. \A m \in Nat : Capped(m) \in Nat /\ Capped(m) <= m
  BY TimeoutAssumption DEF Capped
<1>4. CASE Visible(ex[i]) # "pending"
  <2>1. lapsed'[i] = NoLapse
    BY <1>4 DEF Lapse
  <2> QED
    BY <1>1, <1>2, <2>1
<1>5. CASE Visible(ex[i]) = "pending"
  <2> DEFINE yielded == YieldedBy(ex[i].decision, doc, ex[i].terms)
             backed == BackedBy(ex[i].decision, table, ex[i].terms)
             new == [rule |-> IF yielded THEN 0 ELSE Capped(lapsed[i].rule + n),
                     approval |-> IF backed THEN 0 ELSE Capped(lapsed[i].approval + n)]
  <2>1. lapsed'[i] = new
    BY <1>5 DEF Lapse
  <2>2. ex[i].status # "absent"
    BY <1>5 DEF Visible, Live
  <2> HIDE DEF yielded, backed
  <2>3. /\ new.rule = IF yielded THEN 0 ELSE Capped(lapsed[i].rule + n)
        /\ new.approval = IF backed THEN 0 ELSE Capped(lapsed[i].approval + n)
    OBVIOUS
  <2> HIDE DEF new
  <2>4. lapsed[i].rule + n \in Nat /\ lapsed[i].approval + n \in Nat
    BY <1>1
  <2>5. /\ lapsed'[i].rule \in Nat /\ lapsed'[i].approval \in Nat
        /\ lapsed'[i].rule <= lapsed[i].rule + n /\ lapsed'[i].approval <= lapsed[i].approval + n
        /\ yielded => lapsed'[i].rule = 0
        /\ backed => lapsed'[i].approval = 0
    BY <1>1, <1>3, <2>1, <2>3, <2>4
  <2> QED
    BY <2>2, <2>5 DEF yielded, backed
<1> QED
  BY <1>4, <1>5

\* What such a step leaves of an exchange; `table` is the approvals it counts with.
LEMMA RecountKeeps ==
  ASSUME IInv, AInv, NEW doc, NEW table, NEW n \in Nat, lapsed' = Lapse(doc, table, n), policy'.doc = doc,
         issued' = issued, granted \subseteq granted', \A j \in Ids : RowsOnly(j),
         \A r \in References : Live(approvals'[r]) /\ approvals'[r].status = "approved" =>
           /\ Live(table[r]) /\ table[r].status = "approved" /\ table[r].terms = approvals'[r].terms
           /\ table[r].rule = approvals'[r].rule /\ table[r].by = approvals'[r].by
  PROVE  Onward(n) /\ \A i \in Ids : OpenedSound(i)' /\ LapseSound(i)'
<1>1. Onward(n)
  BY LapseYields DEF Onward, RowsOnly
<1>2. ASSUME NEW i \in Ids PROVE OpenedSound(i)' /\ LapseSound(i)'
  <2>1. OpenedSound(i) /\ RowAgrees(i) /\ RowsOnly(i)
    BY DEF AInv, IInv
  <2>2. OpenedSound(i)'
    <3>1. PICK t, d : t = issued[i].terms /\ d = issued[i].decision
      OBVIOUS
    <3>2. ~issued[i].opened => ex[i].status = "absent"
      BY <2>1 DEF RowAgrees
    <3> QED
      BY <2>1, <3>1, <3>2, SoundStays, LapseYields DEF OpenedSound, RowsOnly
  <2>3. ASSUME ex'[i].status = "pending"
        PROVE  /\ ex'[i].decision = ex[i].decision /\ ex'[i].terms = ex[i].terms /\ ex[i].status = "pending"
               /\ ByApproval(ex[i].decision) => ex[i].decision.reference \in References
    BY <2>1, <2>3 DEF RowsOnly, OpenedSound, Sound, RowAgrees
  <2>4. ASSUME ex'[i].status = "pending", BackedBy(ex'[i].decision, approvals', ex'[i].terms)
        PROVE  BackedBy(ex[i].decision, table, ex[i].terms)
    BY <2>3, <2>4, BackedStays
  <2>5. LapseSound(i)'
    BY <2>3, <2>4, LapseYields DEF LapseSound
  <2> QED
    BY <2>2, <2>5
<1> QED
  BY <1>1, <1>2

LEMMA DecidingSound == ASSUME IInv, AInv, NEW c \in Conns, Deciding(c) PROVE AInv'
<1>1. ASSUME NEW op, NEW ref \in References, NEW verdict \in {"approved", "rejected"}, NEW key,
             DecideRead(c, op, ref, verdict, key)
      PROVE  AInv'
  <2>1. PICK call : call = [at |-> "decide", who |-> op, reference |-> ref, verdict |-> verdict, key |-> key]
    OBVIOUS
  <2>2. /\ Open(c, call) /\ UNCHANGED <<ex, settled>> /\ Assigned(approvals[ref], op)
        /\ approvals[ref].status # "absent" /\ approvals[ref].left > 0
    BY <1>1, <2>1 DEF DecideRead, Live, settled, exchangeVars, approvalVars, history
  <2>3. call.at = "decide" /\ call.who = op /\ call.reference = ref /\ call.verdict = verdict
    BY <2>1
  <2>4. conn'[c] = call /\ age'[c] = age[c]
    BY <2>2, OpenIsOne
  <2>5. approvals[ref].left + age[c] >= 1
    BY <2>2 DEF AInv, Tables
  <2>6. ResolveSound(c)' /\ DecideSound(c)'
    BY <2>2, <2>3, <2>4, <2>5 DEF ResolveSound, DecideSound, Resolving, settled
  <2> QED
    BY <2>2, <2>6, OpenIsOne, SameRows, HandlerKeeps
<1>2. CASE DecideWrite(c)
  <2>0. PICK call, table, doc : call = conn[c] /\ table = approvals' /\ doc = policy.doc
    OBVIOUS
  <2>1. /\ lapsed' = Lapse(doc, table, 0) /\ Close(c) /\ ~fenced /\ call.at = "decide"
        /\ UNCHANGED <<ex, policy, scene, fenced, issued>>
    BY <1>2, <2>0 DEF DecideWrite, At, exchangeVars
  <2>2. PICK ref \in References : ref = call.reference
    BY <2>0, <2>1 DEF AInv, DecideSound
  <2>3. /\ call.verdict \in {"approved", "rejected"} /\ approvals[ref].status # "absent"
        /\ Assigned(approvals[ref], call.who)
    BY <2>0, <2>1, <2>2 DEF AInv, DecideSound
  <2>4. PICK row : row = [approvals[ref] EXCEPT !.status = call.verdict, !.by = call.who]
    OBVIOUS
  <2>5. DOMAIN approvals = References /\ DOMAIN approvals[ref] = ApprovalFields /\ approvals[ref].left \in Int
    BY DEF AInv, Tables
  <2>6. /\ DOMAIN row = ApprovalFields /\ row.status = call.verdict /\ row.by = call.who
        /\ row.left = approvals[ref].left /\ row.approvers = approvals[ref].approvers
        /\ row.approverRings = approvals[ref].approverRings
        /\ row.terms = approvals[ref].terms /\ row.rule = approvals[ref].rule
    BY <2>4, <2>5 DEF ApprovalFields
  <2>7. \/ /\ approvals' = [approvals EXCEPT ![ref] = row]
           /\ granted' = IF call.verdict = "approved" THEN granted \cup {row} ELSE granted
        \/ UNCHANGED <<approvals, granted>>
    BY <1>2, <2>0, <2>2, <2>4 DEF DecideWrite, Decide, approvalVars
  <2>8. /\ granted \subseteq granted' /\ DOMAIN approvals' = References
        /\ \A r \in References \ {ref} : approvals'[r] = approvals[r]
        /\ \/ approvals'[ref] = approvals[ref]
           \/ approvals'[ref] = row /\ (row.status = "approved" => row \in granted')
    BY <2>5, <2>6, <2>7
  <2>9. /\ Onward(0) /\ \A i \in Ids : OpenedSound(i)' /\ LapseSound(i)'
    BY <2>0, <2>1, <2>8, SameRows, RecountKeeps
  <2>10. Tables'
    <3>1. \A i \in Ids : lapsed'[i].rule \in Nat /\ lapsed'[i].approval \in Nat
      BY <2>1, LapseYields
    <3>2. DOMAIN lapsed' = Ids
      BY <2>1 DEF Lapse
    <3> QED
      BY <2>1, <2>5, <2>6, <2>8, <3>1, <3>2, CloseIsOne, TimeoutAssumption DEF AInv, Tables, OneHandler
  <2>11. RowsOnward(0)
    BY <2>1, <2>3, <2>5, <2>6, <2>8 DEF RowsOnward, AInv, Tables
  <2>12. ASSUME NEW r \in References PROVE ApprovalSound(r)'
    <3>1. CASE approvals'[r] = approvals[r]
      <4>1. ApprovalSound(r)
        BY DEF AInv
      <4> QED
        BY <2>8, <3>1, <4>1 DEF ApprovalSound, Vouched
    <3>2. CASE approvals'[r] # approvals[r]
      <4>1. r = ref /\ approvals'[r] = row /\ (row.status = "approved" => row \in granted')
        BY <2>8, <3>2
      <4>2. Assigned(row, row.by)
        BY <2>3, <2>6 DEF Assigned
      <4> QED
        BY <4>1, <4>2 DEF ApprovalSound, Vouched
    <3> QED
      BY <3>1, <3>2
  <2>13. ASSUME NEW d \in Conns
         PROVE  (conn'[d] = conn[d] /\ age'[d] = age[d] + 0) \/ (ResolveSound(d)' /\ DecideSound(d)')
    BY <2>1, CloseIsOne, IdleSound DEF OneHandler, AInv, Tables
  <2> QED
    BY <2>9, <2>10, <2>11, <2>12, <2>13, StepSound
<1> QED
  BY <1>1, <1>2 DEF Deciding, DecideUnified

LEMMA ReplaceSound == ASSUME IInv, AInv, NEW doc \in Documents, ReplacePolicy(doc) PROVE AInv'
<1>0. PICK table : table = approvals
  OBVIOUS
<1>1. /\ lapsed' = Lapse(doc, table, 0) /\ policy' = [version |-> policy.version + 1, doc |-> doc]
      /\ UNCHANGED <<ex, approvals, scene, conn, age, fenced, issued, granted>> /\ ~fenced
  BY <1>0 DEF ReplacePolicy, ReplaceDocument, exchangeVars, approvalVars, handlerVars
<1>2. policy'.doc = doc
  BY <1>1
<1>3. Onward(0) /\ \A i \in Ids : OpenedSound(i)' /\ LapseSound(i)'
  BY <1>0, <1>1, <1>2, SameRows, RecountKeeps
<1>4. Tables'
  <2>1. \A i \in Ids : lapsed'[i].rule \in Nat /\ lapsed'[i].approval \in Nat
    BY <1>1, LapseYields
  <2>2. DOMAIN lapsed' = Ids
    BY <1>1 DEF Lapse
  <2> QED
    BY <1>1, <1>2, <2>1, <2>2 DEF AInv, Tables
<1>5. RowsOnward(0)
  BY <1>1 DEF RowsOnward, AInv, Tables
<1>6. \A r \in References : ApprovalSound(r)'
  BY <1>1 DEF AInv, ApprovalSound, Vouched
<1>7. \A c \in Conns : conn'[c] = conn[c] /\ age'[c] = age[c] + 0
  BY <1>1 DEF AInv, Tables
<1> QED
  BY <1>3, <1>4, <1>5, <1>6, <1>7, StepSound

LEMMA OlderApproval ==
  ASSUME NEW row, DOMAIN row = ApprovalFields, row.left \in Int, NEW older, older = Older(row)
  PROVE  /\ DOMAIN older = ApprovalFields /\ older.left \in Int
         /\ older.left >= row.left - 1 /\ older.left <= row.left
         /\ older.status = row.status /\ older.terms = row.terms /\ older.rule = row.rule
         /\ older.by = row.by /\ older.approvers = row.approvers /\ older.approverRings = row.approverRings
BY DEF Older, ApprovalFields

LEMMA OlderExchange ==
  ASSUME NEW row, DOMAIN row = RowFields, NEW older, older = Older(row)
  PROVE  older.status = row.status /\ older.decision = row.decision /\ older.terms = row.terms
BY DEF Older, RowFields

LEMMA TickSound == ASSUME IInv, AInv, Tick PROVE AInv'
<1>0. PICK table, doc : table = approvals /\ doc = policy.doc
  OBVIOUS
<1>1. /\ lapsed' = Lapse(doc, table, 1) /\ ex' = [i \in Ids |-> Older(ex[i])]
      /\ approvals' = [r \in References |-> Older(approvals[r])]
      /\ conn' = [c \in Conns |-> IF TimedOut(c) THEN Idle ELSE conn[c]]
      /\ age' = [c \in Conns |-> IF At(c, "idle") \/ TimedOut(c) THEN 0 ELSE age[c] + 1]
      /\ UNCHANGED <<policy, scene, fenced, issued, granted>>
  BY <1>0 DEF Tick
<1>2. ASSUME NEW r \in References
      PROVE  /\ DOMAIN approvals'[r] = ApprovalFields /\ approvals'[r].left \in Int
             /\ approvals'[r].left >= approvals[r].left - 1 /\ approvals'[r].left <= approvals[r].left
             /\ approvals'[r].status = approvals[r].status /\ approvals'[r].terms = approvals[r].terms
             /\ approvals'[r].rule = approvals[r].rule /\ approvals'[r].by = approvals[r].by
             /\ approvals'[r].approvers = approvals[r].approvers
             /\ approvals'[r].approverRings = approvals[r].approverRings
             /\ approvals[r].left \in Int
  <2>1. DOMAIN approvals[r] = ApprovalFields /\ approvals[r].left \in Int /\ approvals'[r] = Older(approvals[r])
    BY <1>1 DEF AInv, Tables
  <2> QED
    BY <2>1, OlderApproval
<1>3. ASSUME NEW i \in Ids PROVE RowsOnly(i)
  <2>1. DOMAIN ex[i] = RowFields /\ ex'[i] = Older(ex[i])
    BY <1>1 DEF IInv, Shaped
  <2> QED
    BY <2>1, OlderExchange DEF RowsOnly
<1>4. Onward(1) /\ \A i \in Ids : OpenedSound(i)' /\ LapseSound(i)'
  BY <1>0, <1>1, <1>2, <1>3, RecountKeeps DEF Live
<1>5. ASSUME NEW c \in Conns
      PROVE  /\ age'[c] \in Nat /\ age'[c] <= RequestTimeout
             /\ (conn'[c] = conn[c] /\ age'[c] = age[c] + 1) \/ conn'[c] = Idle \/ conn'[c].at = "idle"
  BY <1>1, TimeoutAssumption DEF AInv, Tables, TimedOut, At
<1>6. Tables'
  <2>1. \A i \in Ids : lapsed'[i].rule \in Nat /\ lapsed'[i].approval \in Nat
    BY <1>1, LapseYields
  <2>2. DOMAIN lapsed' = Ids
    BY <1>1 DEF Lapse
  <2> QED
    BY <1>1, <1>2, <1>5, <2>1, <2>2 DEF AInv, Tables
<1>7. RowsOnward(1)
  BY <1>1, <1>2 DEF RowsOnward
<1>8. \A r \in References : ApprovalSound(r)'
  BY <1>1, <1>2 DEF AInv, ApprovalSound, Vouched
<1>9. ASSUME NEW c \in Conns
      PROVE  (conn'[c] = conn[c] /\ age'[c] = age[c] + 1) \/ (ResolveSound(c)' /\ DecideSound(c)')
  <2>1. conn'[c].at = "idle" => ResolveSound(c)' /\ DecideSound(c)'
    BY DEF ResolveSound, DecideSound, Resolving
  <2> QED
    BY <1>5, <2>1, IdleSound
<1> QED
  BY <1>4, <1>6, <1>7, <1>8, <1>9, StepSound

\* Rows that are swept or deleted by a clock fence, and steps that touch none.
LEMMA FadeSound ==
  ASSUME IInv, AInv, UNCHANGED <<policy, lapsed, issued, granted>>,
         DOMAIN approvals' = References, DOMAIN age' = Conns,
         \A i \in Ids : ex'[i] = ex[i] \/ ex'[i] = NoExchange,
         \A r \in References : approvals'[r] = approvals[r] \/ approvals'[r] = NoApproval,
         \/ RowsOnward(0) /\ age' = age /\ conn' = conn
         \/ \A c \in Conns : conn'[c] = Idle /\ age'[c] = 0
  PROVE  AInv'
<1>0. NoApproval.status = "absent" /\ NoApproval.left = 0 /\ DOMAIN NoApproval = ApprovalFields
  BY DEF NoApproval, ApprovalFields
<1>1. Undecided
  BY <1>0 DEF Undecided
<1>2. \A i \in Ids : RowsOnly(i)
  BY NoExchangeFades DEF RowsOnly
<1>3. \A i \in Ids : OpenedSound(i)' /\ LapseSound(i)'
  BY <1>1, <1>2, UndecidedKeeps
<1>4. \A r \in References : ApprovalSound(r)'
  BY <1>0 DEF AInv, ApprovalSound, Vouched
<1>5. Tables'
  BY <1>0, TimeoutAssumption DEF AInv, Tables
<1>6. Onward(0)
  BY <1>2 DEF Onward, RowsOnly, AInv, Tables
<1>7. CASE RowsOnward(0) /\ age' = age /\ conn' = conn
  <2>1. \A c \in Conns : conn'[c] = conn[c] /\ age'[c] = age[c] + 0
    BY <1>7 DEF AInv, Tables
  <2> QED
    BY <1>3, <1>4, <1>5, <1>6, <1>7, <2>1, StepSound
<1>8. CASE \A c \in Conns : conn'[c] = Idle /\ age'[c] = 0
  BY <1>3, <1>4, <1>5, <1>8, IdleSound DEF AInv
<1> QED
  BY <1>7, <1>8

LEMMA InitAInv == Init => AInv
<1> SUFFICES ASSUME Init PROVE AInv
  OBVIOUS
<1>1. /\ \A i \in Ids : ex[i] = NoExchange /\ issued[i] = NotIssued /\ lapsed[i] = NoLapse
      /\ \A r \in References : approvals[r] = NoApproval
      /\ \A c \in Conns : conn[c] = Idle /\ age[c] = 0
  BY DEF Init
<1>2. policy.doc \in Documents
  BY ScenarioAssumption DEF Init
<1>3. /\ NoApproval.status = "absent" /\ NoApproval.left = 0 /\ DOMAIN NoApproval = ApprovalFields
      /\ NotIssued.opened = FALSE /\ NoLapse.rule = 0 /\ NoLapse.approval = 0
  BY DEF NoApproval, ApprovalFields, NotIssued, NoLapse
<1>4. Tables
  BY <1>1, <1>2, <1>3, TimeoutAssumption DEF Tables, Init
<1>5. \A r \in References : ApprovalSound(r)
  BY <1>1, <1>3 DEF ApprovalSound
<1>6. \A i \in Ids : OpenedSound(i) /\ LapseSound(i)
  BY <1>1, <1>3, NoExchangeFades DEF OpenedSound, LapseSound
<1>7. \A c \in Conns : ResolveSound(c) /\ DecideSound(c)
  BY <1>1 DEF ResolveSound, DecideSound, Idle, Resolving
<1> QED
  BY <1>4, <1>5, <1>6, <1>7 DEF AInv

LEMMA NextAInv == ASSUME IInv, AInv, [Next]_vars PROVE AInv'
<1>0. scene.conns \subseteq Conns /\ scene.documents \subseteq Documents
  BY ScenarioAssumption DEF IInv, Shaped
<1>1. ASSUME NEW c \in scene.conns, ExchangeCall(c) \/ ExchangeStep(c) \/ Deciding(c) PROVE AInv'
  BY <1>0, <1>1, CallSound, ExchangeStepSound, DecidingSound
<1>2. ASSUME NEW doc \in scene.documents, ReplacePolicy(doc) PROVE AInv'
  BY <1>0, <1>2, ReplaceSound
<1>3. CASE UNCHANGED <<ex, conn, age, settled>>
  <2>1. RowsOnward(0)
    BY <1>3 DEF RowsOnward, settled, AInv, Tables
  <2> QED
    BY <1>3, <2>1, FadeSound DEF settled, AInv, Tables
<1>4. ASSUME NEW who, NEW i, RevokeAgain(who, i) PROVE AInv'
  BY <1>3, <1>4 DEF RevokeAgain, settled, exchangeVars, approvalVars, handlerVars
<1>5. CASE SweepExchanges
  <2>1. /\ UNCHANGED <<conn, age, settled>> /\ \A i \in Ids : ex'[i] = ex[i] \/ ex'[i] = NoExchange
    BY <1>5 DEF SweepExchanges, settled, approvalVars, handlerVars, history
  <2>2. RowsOnward(0)
    BY <2>1 DEF RowsOnward, settled, AInv, Tables
  <2> QED
    BY <2>1, <2>2, FadeSound DEF settled, AInv, Tables
<1>6. CASE SweepApprovals
  <2>1. /\ UNCHANGED <<ex, conn, age, policy, lapsed, issued, granted, fenced>> /\ ~fenced
        /\ approvals' = [r \in References |-> IF Overdue(approvals[r]) THEN NoApproval ELSE approvals[r]]
    BY <1>6 DEF SweepApprovals, exchangeVars, handlerVars, history
  <2>2. RowsOnward(0)
    BY <2>1, TimeoutAssumption DEF RowsOnward, Overdue, AInv, Tables
  <2> QED
    BY <2>1, <2>2, FadeSound DEF AInv, Tables
<1>7. SweepKeys => AInv'
  BY <1>3 DEF SweepKeys, settled, exchangeVars, handlerVars, history
<1>8. CASE ClockFence
  <2>1. UNCHANGED <<ex, conn, age, policy, lapsed, issued, granted, approvals>> /\ fenced'
    BY <1>8 DEF ClockFence, exchangeVars, approvalVars, handlerVars, history
  <2> QED
    BY <2>1, FadeSound DEF RowsOnward, AInv, Tables
<1>9. CASE RestartFence
  <2>1. /\ UNCHANGED <<conn, age, policy, lapsed, issued, granted>> /\ fenced'
        /\ ex' = [i \in Ids |-> NoExchange]
        /\ approvals' = [r \in References |-> IF approvals[r].status = "pending" THEN NoApproval
                                                                                 ELSE approvals[r]]
    BY <1>9 DEF RestartFence, handlerVars
  <2> QED
    BY <2>1, FadeSound DEF RowsOnward, AInv, Tables
<1>10. CASE ReconcileClock
  <2>1. /\ UNCHANGED <<policy, lapsed, issued, granted>> /\ ex' = [i \in Ids |-> NoExchange]
        /\ approvals' = [r \in References |->
                            IF approvals[r].status \in {"pending", "approved"} THEN NoApproval
                                                                               ELSE approvals[r]]
        /\ conn' = [c \in Conns |-> Idle] /\ age' = [c \in Conns |-> 0]
    BY <1>10 DEF ReconcileClock
  <2> QED
    BY <2>1, FadeSound
<1>11. UNCHANGED vars => AInv'
  BY <1>3 DEF vars, settled, exchangeVars, approvalVars, handlerVars, history
<1> QED
  BY <1>1, <1>2, <1>4, <1>5, <1>6, <1>7, <1>8, <1>9, <1>10, <1>11, TickSound DEF Next, Sweep

\* For all documents, operators and references, shared ones included, an exchange
\* opened on the strength of an approval had one of an assigned operator for exactly
\* its terms and its rule (resolve_policy_for_exchange, decide_approval).
THEOREM ApprovalsAreAssigned == Spec => []ApprovedByAssigned
<1>1. AInv => ApprovedByAssigned
  BY DEF AInv, OpenedSound, Sound, Vouched, ApprovedByAssigned
<1> QED
  BY <1>1, InitIInv, NextIInv, InitAInv, NextAInv, PTL DEF Spec

\* Only a reservation makes a pending exchange reserved.
LEMMA OnlyReserve ==
  ASSUME IInv, [Next]_vars, NEW i \in Ids, ex[i].status = "pending", ex'[i].status = "reserved"
  PROVE  \E c \in Conns : Reserve(c) /\ conn[c].id = i
<1>0. scene.conns \subseteq Conns /\ DOMAIN ex = Ids /\ DOMAIN ex[i] = RowFields
  BY ScenarioAssumption DEF IInv, Shaped
<1>1. ex' # ex
  OBVIOUS
<1>2. ASSUME NEW c \in Conns, ExchangeStep(c) PROVE Reserve(c) /\ conn[c].id = i
  <2>1. CASE ResolvePolicy(c) \/ ResolveApproval(c) \/ RequestApproval(c) \/ CreateReply(c) \/ SubmitReply(c)
             \/ RetrieveReply(c) \/ RevokeReply(c) \/ Drop(c)
    BY <1>1, <2>1 DEF ResolvePolicy, ResolveApproval, RequestApproval, CreateReply, SubmitReply, RetrieveReply,
       RevokeReply, Drop, exchangeVars
  <2>2. ASSUME NEW j, NEW row, ex' = [ex EXCEPT ![j] = row], row.status # "reserved" PROVE FALSE
    BY <1>0, <2>2
  <2>3. ASSUME NEW j \in Ids, CreateInsert(c, j) PROVE FALSE
    <3>1. PICK row : /\ row = [status |-> "pending", terms |-> conn[c].terms, decision |-> conn[c].decision,
                               by |-> NoOne, left |-> scene.ttl, payload |-> NoOne]
                     /\ ex' = [ex EXCEPT ![j] = row]
      BY <2>3 DEF CreateInsert
    <3> QED
      BY <2>2, <3>1
  <2>4. CASE SubmitWrite(c)
    <3>1. PICK j \in Ids : j = conn[c].id
      BY <2>4 DEF IInv, Shaped, CallShaped, SubmitWrite, At
    <3>2. PICK row : row = Submitted(ex[j], conn[c].value) /\ ex' = [ex EXCEPT ![j] = row]
      BY <1>1, <2>4, <3>1 DEF SubmitWrite
    <3>3. row.status = "submitted"
      <4>1. DOMAIN ex[j] = RowFields
        BY DEF IInv, Shaped
      <4> QED
        BY <3>2, <4>1 DEF Submitted, RowFields
    <3> QED
      BY <2>2, <3>2, <3>3
  <2>5. CASE RetrieveConsume(c)
    <3>1. ex' = [ex EXCEPT ![conn[c].id] = NoExchange]
      BY <1>1, <2>5 DEF RetrieveConsume, Taken
    <3> QED
      BY <2>2, <3>1, NoExchangeFades
  <2>6. CASE RevokeWrite(c)
    <3>1. PICK j \in Ids : j = conn[c].id
      BY <2>6 DEF IInv, Shaped, CallShaped, RevokeWrite, At
    <3>2. PICK row : row = Revoked(ex[j]) /\ ex' = [ex EXCEPT ![j] = row]
      BY <1>1, <2>6, <3>1 DEF RevokeWrite
    <3>3. row.status = "revoked"
      <4>1. DOMAIN ex[j] = RowFields
        BY DEF IInv, Shaped
      <4> QED
        BY <3>2, <4>1 DEF Revoked, RowFields
    <3> QED
      BY <2>2, <3>2, <3>3
  <2>7. CASE Reserve(c)
    <3>1. ex' = [ex EXCEPT ![conn[c].id] = Reserved(ex[conn[c].id], conn[c].who)]
      BY <1>1, <2>7 DEF Reserve
    <3> QED
      BY <1>0, <2>7, <3>1
  <2> QED
    BY <1>2, <2>1, <2>3, <2>4, <2>5, <2>6, <2>7 DEF ExchangeStep
<1>3. ASSUME NEW c, ExchangeCall(c) \/ Deciding(c) PROVE FALSE
  <2>1. ExchangeCall(c) => ex' = ex
    BY DEF ExchangeCall, CreateBegin, FulfilRead, SubmitRead, RetrieveRead, RevokeRead, exchangeVars
  <2>2. DecideWrite(c) => ex' = ex
    BY DEF DecideWrite, exchangeVars
  <2>3. \A op, ref, verdict, key : DecideRead(c, op, ref, verdict, key) => ex' = ex
    BY DEF DecideRead, exchangeVars
  <2> QED
    BY <1>1, <1>3, <2>1, <2>2, <2>3 DEF Deciding, DecideUnified
<1>4. /\ \A who, j : ~RevokeAgain(who, j)
      /\ \A doc : ~ReplacePolicy(doc)
      /\ ~SweepApprovals /\ ~SweepKeys /\ ~ClockFence /\ ~UNCHANGED vars
  BY <1>1 DEF RevokeAgain, ReplacePolicy, SweepApprovals, SweepKeys, ClockFence, vars, exchangeVars
<1>5. ~SweepExchanges /\ ~RestartFence /\ ~ReconcileClock
  BY NoExchangeFades DEF SweepExchanges, RestartFence, ReconcileClock
<1>6. ~Tick
  <2>1. Tick => ex'[i] = Older(ex[i])
    BY DEF Tick
  <2> QED
    BY <1>0, <2>1, OlderExchange
<1> QED
  BY <1>0, <1>2, <1>3, <1>4, <1>5, <1>6 DEF Next, Sweep

\* For all documents, approvals and interleavings, an exchange is reserved only under
\* a decision that was in force within the time one request may take
\* (fulfill_exchange, reserve_exchange).
THEOREM ReservationsAreInForce == Spec => ReservedInForce
<1>1. ASSUME IInv, AInv, [Next]_vars
      PROVE  [\A i \in Ids :
                ex[i].status = "pending" /\ ex'[i].status = "reserved" =>
                  lapsed[i].rule <= RequestTimeout /\ lapsed[i].approval <= RequestTimeout]_vars
  <2> SUFFICES ASSUME NEW i \in Ids, ex[i].status = "pending", ex'[i].status = "reserved"
               PROVE  lapsed[i].rule <= RequestTimeout /\ lapsed[i].approval <= RequestTimeout
    OBVIOUS
  <2>1. PICK c \in Conns : Reserve(c) /\ conn[c].id = i
    BY <1>1, OnlyReserve
  <2>2. lapsed[i].rule <= age[c] /\ lapsed[i].approval <= age[c]
    BY <1>1, <2>1 DEF Reserve, At, AInv, ResolveSound
  <2>3. /\ lapsed[i].rule \in Nat /\ lapsed[i].approval \in Nat /\ age[c] \in Nat
        /\ age[c] <= RequestTimeout
    BY <1>1 DEF AInv, Tables
  <2> QED
    BY <2>2, <2>3, TimeoutAssumption
<1> QED
  BY <1>1, InitIInv, NextIInv, InitAInv, NextAInv, PTL DEF Spec, ReservedInForce
=============================================================================
