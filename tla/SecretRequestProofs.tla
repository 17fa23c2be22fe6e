------------------------ MODULE SecretRequestProofs ------------------------
(***************************************************************************)
(* Proofs about SecretRequest for every set of identifiers, agents,        *)
(* submitters and connections and every lifetime.                          *)
(*                                                                         *)
(* DeliveredOnceToRequester and AcknowledgedIsDelivered are not inductive: *)
(* between the DELETE and the answer the only copy of the ciphertext is    *)
(* held by one connection.  IInv says where the one copy is at each moment.*)
(***************************************************************************)
EXTENDS SecretRequest, TLAPS

\* A row's columns agree with what was issued and what was accepted.
RowsAgree ==
  \A i \in Ids :
    /\ requester[i] = NoOne => rows[i].status = "absent"
    /\ rows[i].status # "absent" => rows[i].owner = requester[i]
    /\ rows[i].status = "pending" => accepted[i] = NoOne
    /\ rows[i].status = "submitted" => accepted[i] = rows[i].payload
    /\ requester[i] = NoOne => accepted[i] = NoOne

\* A handler past its commit holds what the commit recorded.
CallAgrees(c) ==
  /\ conn[c].at # "idle" => requester[conn[c].id] # NoOne
  /\ conn[c].at = "stored" => accepted[conn[c].id] = conn[c].by
  /\ conn[c].at = "consumed" =>
       /\ rows[conn[c].id].status = "absent"
       /\ delivered[conn[c].id] = <<>>
       /\ conn[c].by = requester[conn[c].id]
       /\ conn[c].got = accepted[conn[c].id]

CallsAgree == \A c \in Conns : CallAgrees(c)

\* At most one connection holds a request's ciphertext.
OneHolder ==
  \A c, d \in Conns :
    conn[c].at = "consumed" /\ conn[d].at = "consumed" /\ conn[c].id = conn[d].id => c = d

\* Once delivered, the row is gone and the delivery is the accepted ciphertext.
DeliveredAgree ==
  \A i \in Ids :
    delivered[i] # <<>> =>
      /\ requester[i] # NoOne
      /\ rows[i].status = "absent"
      /\ delivered[i] = <<[to |-> requester[i], payload |-> accepted[i]]>>

\* Acknowledged submitters are the accepted one.
ToldAgree == \A i \in Ids : told[i] \subseteq {accepted[i]}

IInv == RowsAgree /\ CallsAgree /\ OneHolder /\ DeliveredAgree /\ ToldAgree

-----------------------------------------------------------------------------

\* The values a deleted row and a finished handler leave behind are well typed.
LEMMA DefaultsTyped == Absent \in Row /\ Idle \in Call /\ CallTyped(Idle)
BY NoOneAssumption DEF Absent, Row, Idle, Call, CallTyped, Steps

\* Changing one connection to a well-typed call keeps all of them well typed.
LEMMA OneConnTyped ==
  ASSUME TypeOK, NEW c \in Conns, NEW call \in Call, CallTyped(call),
         conn' = [conn EXCEPT ![c] = call]
  PROVE  conn' \in [Conns -> Call] /\ \A d \in Conns : CallTyped(conn'[d])
BY DEF TypeOK

\* Changing one row to a well-typed one keeps all of them well typed.
LEMMA OneRowTyped ==
  ASSUME TypeOK, NEW i \in Ids, NEW row \in Row, rows' = [rows EXCEPT ![i] = row]
  PROVE  rows' \in [Ids -> Row]
BY DEF TypeOK

\* Each step of a handler keeps the variables' types.
LEMMA StepTyped == ASSUME TypeOK, NEW c \in Conns, Step(c) PROVE TypeOK'
<1> DEFINE i == conn[c].id
<1>0. conn[c] \in Call /\ CallTyped(conn[c])
  BY DEF TypeOK
<1>1. ASSUME Close(c) PROVE conn' \in [Conns -> Call] /\ \A d \in Conns : CallTyped(conn'[d])
  BY <1>1, DefaultsTyped, OneConnTyped DEF Close
<1>2. CASE SubmitRead(c)
  <2>1. conn' \in [Conns -> Call] /\ \A d \in Conns : CallTyped(conn'[d])
    <3>1. CASE Live(rows[i])
      <4> DEFINE call == [conn[c] EXCEPT !.at = "read", !.owner = rows[i].owner]
      <4>1. i \in Ids /\ rows[i] \in Row
        BY <1>0, <1>2 DEF SubmitRead, At, CallTyped, TypeOK
      <4>2. call \in Call /\ CallTyped(call)
        BY <1>0, <1>2, <4>1 DEF SubmitRead, At, CallTyped, Call, Row, Steps
      <4>3. conn' = [conn EXCEPT ![c] = call]
        BY <1>2, <3>1 DEF SubmitRead, TypeOK
      <4> HIDE DEF call
      <4> QED
        BY <4>2, <4>3, OneConnTyped
    <3>2. CASE ~Live(rows[i])
      BY <1>1, <1>2, <3>2 DEF SubmitRead
    <3> QED
      BY <3>1, <3>2
  <2> QED
    BY <1>2, <2>1 DEF SubmitRead, TypeOK, history
<1>3. CASE SubmitWrite(c)
  <2> DEFINE call(step) == [conn[c] EXCEPT !.at = step]
  <2>1. i \in Ids /\ rows[i] \in Row /\ conn[c].by \in Browsers
    BY <1>0, <1>3 DEF SubmitWrite, At, CallTyped, TypeOK
  <2>2. Submitted(rows[i], conn[c].by) \in Row
    BY <2>1, TtlAssumption DEF Submitted, Row
  <2>3. \A step \in {"stored", "refused"} : call(step) \in Call /\ CallTyped(call(step))
    BY <1>0, <2>1 DEF CallTyped, Call, Steps
  <2>4. \E step \in {"stored", "refused"} : conn' = [conn EXCEPT ![c] = call(step)]
    <3>1. conn' = [conn EXCEPT ![c].at = "stored"] \/ conn' = [conn EXCEPT ![c].at = "refused"]
      BY <1>3 DEF SubmitWrite, Goto
    <3>2. \A step : [conn EXCEPT ![c].at = step] = [conn EXCEPT ![c] = call(step)]
      OBVIOUS
    <3> HIDE DEF call
    <3> QED
      BY <3>1, <3>2
  <2>5. conn' \in [Conns -> Call] /\ \A d \in Conns : CallTyped(conn'[d])
    <3> HIDE DEF call
    <3> QED
      BY <2>3, <2>4, OneConnTyped
  <2>6. rows' \in [Ids -> Row]
    <3> DEFINE row == Submitted(rows[i], conn[c].by)
    <3>1. rows' = [rows EXCEPT ![i] = row] \/ rows' = rows
      BY <1>3 DEF SubmitWrite
    <3>2. row \in Row
      BY <2>2
    <3> HIDE DEF row
    <3> QED
      BY <3>1, <3>2, <2>1, OneRowTyped DEF TypeOK
  <2>7. accepted' \in [Ids -> Browsers \cup {NoOne}]
    BY <1>3, <2>1 DEF SubmitWrite, TypeOK
  <2> QED
    BY <1>3, <2>5, <2>6, <2>7 DEF SubmitWrite, TypeOK
<1>4. CASE SubmitReply(c)
  <2>1. told' \in [Ids -> SUBSET Browsers]
    BY <1>0, <1>4 DEF SubmitReply, At, CallTyped, TypeOK
  <2> QED
    BY <1>1, <1>4, <2>1 DEF SubmitReply, TypeOK
<1>5. CASE SubmitRefused(c)
  BY <1>1, <1>5 DEF SubmitRefused, TypeOK, history
<1>6. CASE RetrieveConsume(c)
  <2>1. i \in Ids /\ rows[i] \in Row
    BY <1>0, <1>6 DEF RetrieveConsume, At, CallTyped, TypeOK
  <2>2. rows' \in [Ids -> Row]
    BY <1>6, <2>1, DefaultsTyped DEF RetrieveConsume, Taken, TypeOK
  <2>3. conn' \in [Conns -> Call] /\ \A d \in Conns : CallTyped(conn'[d])
    <3>1. CASE Consumable(rows[i], conn[c].by)
      <4> DEFINE call == [conn[c] EXCEPT !.at = "consumed", !.got = rows[i].payload]
      <4>1. call \in Call /\ CallTyped(call)
        BY <1>0, <1>6, <2>1 DEF RetrieveConsume, At, CallTyped, Call, Row, Steps
      <4>2. conn' = [conn EXCEPT ![c] = call]
        BY <1>6, <3>1 DEF RetrieveConsume, TypeOK
      <4> HIDE DEF call
      <4> QED
        BY <4>1, <4>2, OneConnTyped
    <3>2. CASE ~Consumable(rows[i], conn[c].by)
      BY <1>1, <1>6, <3>2 DEF RetrieveConsume
    <3> QED
      BY <3>1, <3>2
  <2> QED
    BY <1>6, <2>2, <2>3 DEF RetrieveConsume, TypeOK, history
<1>7. CASE RetrieveReply(c)
  <2> DEFINE d == [to |-> conn[c].by, payload |-> conn[c].got]
  <2>1. d \in Delivery /\ i \in Ids
    BY <1>0, <1>7 DEF RetrieveReply, At, Delivery, Call, CallTyped
  <2>2. delivered' \in [Ids -> Seq(Delivery)]
    <3>1. delivered' = [delivered EXCEPT ![i] = Append(delivered[i], d)]
      BY <1>7, <2>1 DEF RetrieveReply, TypeOK
    <3> HIDE DEF d
    <3> QED
      BY <2>1, <3>1 DEF TypeOK
  <2> QED
    BY <1>1, <1>7, <2>2 DEF RetrieveReply, TypeOK
<1>8. CASE Drop(c)
  BY <1>1, <1>8 DEF Drop, TypeOK, history
<1> QED
  BY <1>2, <1>3, <1>4, <1>5, <1>6, <1>7, <1>8 DEF Step

\* The variables keep their types: every step of every handler writes values of
\* the columns' types.
THEOREM TypeCorrect == Spec => []TypeOK
<1>1. Init => TypeOK
  <2> SUFFICES ASSUME Init PROVE TypeOK
    OBVIOUS
  <2>1. rows \in [Ids -> Row] /\ link \in [Ids -> Int]
    BY DefaultsTyped DEF Init
  <2>2. conn \in [Conns -> Call] /\ \A c \in Conns : CallTyped(conn[c])
    BY DefaultsTyped DEF Init
  <2>3. delivered \in [Ids -> Seq(Delivery)]
    BY DEF Init
  <2> QED
    BY <2>1, <2>2, <2>3 DEF Init, TypeOK
<1>2. TypeOK /\ [Next]_vars => TypeOK'
  <2> SUFFICES ASSUME TypeOK, [Next]_vars PROVE TypeOK'
    OBVIOUS
  <2>1. ASSUME NEW a \in Agents, NEW i \in Ids, CreateRequest(a, i) PROVE TypeOK'
    BY <2>1, TtlAssumption DEF CreateRequest, Opened, Row, TypeOK
  <2>2. ASSUME NEW c \in Conns, NEW step \in {"verified", "seen"}, NEW i \in Ids, NEW who,
               step = "verified" => who \in Browsers, step = "seen" => who \in Agents,
               Open(c, step, i, who)
        PROVE conn' \in [Conns -> Call] /\ \A d \in Conns : CallTyped(conn'[d])
    <3> DEFINE call == [at |-> step, id |-> i, by |-> who, owner |-> NoOne, got |-> NoOne]
    <3>1. call \in Call /\ CallTyped(call)
      BY <2>2 DEF Call, CallTyped, Steps
    <3>2. conn' = [conn EXCEPT ![c] = call]
      BY <2>2 DEF Open
    <3> HIDE DEF call
    <3> QED
      BY <3>1, <3>2, OneConnTyped
  <2>3. ASSUME NEW c \in Conns, NEW b \in Browsers, NEW i \in Ids, SubmitVerify(c, b, i)
        PROVE TypeOK'
    BY <2>2, <2>3 DEF SubmitVerify, TypeOK, history
  <2>4. ASSUME NEW c \in Conns, NEW a \in Agents, NEW i \in Ids, RetrieveRead(c, a, i)
        PROVE TypeOK'
    BY <2>2, <2>4 DEF RetrieveRead, TypeOK, history
  <2>5. ASSUME NEW c \in Conns, Step(c) PROVE TypeOK'
    BY <2>5, StepTyped
  <2>6. CASE Tick
    <3>1. \A i \in Ids : Older(rows[i]) \in Row
      <4> TAKE i \in Ids
      <4>1. rows[i] \in Row
        BY DEF TypeOK
      <4>2. rows[i].left \in Int
        BY <4>1 DEF Row
      <4>3. [rows[i] EXCEPT !.left = rows[i].left - 1] \in Row
        BY <4>1, <4>2 DEF Row
      <4> QED
        BY <4>1, <4>3 DEF Older
    <3>2. rows' \in [Ids -> Row]
      <4>1. \A i \in Ids : rows'[i] = rows[i] \/ rows'[i] = Older(rows[i])
        BY <2>6 DEF Tick
      <4>2. rows' = [i \in Ids |-> rows'[i]]
        BY <2>6 DEF Tick
      <4>3. \A i \in Ids : rows'[i] \in Row
        BY <3>1, <4>1 DEF TypeOK
      <4> QED
        BY <4>2, <4>3
    <3>3. link' \in [Ids -> Int]
      BY <2>6 DEF Tick, TypeOK
    <3>4. age' \in [Ids -> Nat]
      BY <2>6 DEF Tick, TypeOK
    <3> QED
      BY <2>6, <3>2, <3>3, <3>4 DEF Tick, TypeOK
  <2>7. CASE Sweep
    BY <2>7, DefaultsTyped DEF Sweep, TypeOK, history
  <2>8. CASE ClockFence
    BY <2>8 DEF ClockFence, TypeOK, history
  <2>9. CASE RestartFence
    BY <2>9, DefaultsTyped DEF RestartFence, TypeOK, history
  <2>10. CASE ReconcileClock
    <3>1. rows' \in [Ids -> Row]
      BY <2>10, DefaultsTyped DEF ReconcileClock
    <3>2. conn' \in [Conns -> Call] /\ \A d \in Conns : CallTyped(conn'[d])
      BY <2>10, DefaultsTyped DEF ReconcileClock
    <3> QED
      BY <2>10, <3>1, <3>2 DEF ReconcileClock, TypeOK, history
  <2>11. CASE UNCHANGED vars
    BY <2>11 DEF vars, TypeOK
  <2> QED
    BY <2>1, <2>3, <2>4, <2>5, <2>6, <2>7, <2>8, <2>9, <2>10, <2>11 DEF Next
<1> QED
  BY <1>1, <1>2, PTL DEF Spec

-----------------------------------------------------------------------------

\* Deleting rows (sweep, fences, reconciliation) and ageing them keep IInv: only
\* the rows' status can change, and only to absent.
LEMMA RowsFadeKeepsIInv ==
  ASSUME TypeOK, TypeOK', IInv,
         UNCHANGED <<requester, accepted, told, delivered>>,
         conn' = conn \/ conn' = [c \in Conns |-> Idle],
         \A i \in Ids : \/ rows'[i] = Absent
                        \/ /\ rows'[i].status = rows[i].status
                           /\ rows'[i].owner = rows[i].owner
                           /\ rows'[i].payload = rows[i].payload
  PROVE  IInv'
<1>1. RowsAgree'
  BY DEF IInv, RowsAgree, Absent
<1>2. CallsAgree' /\ OneHolder'
  <2>1. CASE conn' = conn
    <3>1. OneHolder'
      BY <2>1 DEF IInv, OneHolder
    <3>2. ASSUME NEW c \in Conns PROVE CallAgrees(c)'
      <4>1. conn[c].at # "idle" => conn[c].id \in Ids
        BY DEF TypeOK, CallTyped
      <4> QED
        BY <2>1, <4>1 DEF IInv, CallsAgree, CallAgrees, Absent
    <3> QED
      BY <3>1, <3>2 DEF CallsAgree
  <2>2. CASE conn' = [c \in Conns |-> Idle]
    BY <2>2 DEF CallsAgree, CallAgrees, OneHolder, Idle
  <2> QED
    BY <2>1, <2>2
<1>3. DeliveredAgree'
  BY DEF IInv, DeliveredAgree, Absent
<1>4. ToldAgree'
  BY DEF IInv, ToldAgree
<1> QED
  BY <1>1, <1>2, <1>3, <1>4 DEF IInv

\* A step that only opens, advances before its commit, or closes a connection
\* keeps IInv.
LEMMA ConnStepKeepsIInv ==
  ASSUME TypeOK, TypeOK', IInv,
         UNCHANGED <<rows, requester, accepted, told, delivered>>,
         NEW c \in Conns,
         \A d \in Conns \ {c} : conn'[d] = conn[d],
         conn'[c].at \notin {"stored", "consumed"},
         conn'[c].at # "idle" => requester[conn'[c].id] # NoOne
  PROVE  IInv'
<1>1. RowsAgree' /\ DeliveredAgree' /\ ToldAgree'
  BY DEF IInv, RowsAgree, DeliveredAgree, ToldAgree
<1>2. CallsAgree'
  BY DEF IInv, CallsAgree, CallAgrees
<1>3. OneHolder'
  BY DEF IInv, OneHolder
<1> QED
  BY <1>1, <1>2, <1>3 DEF IInv

\* IInv is preserved by every step of the specification.
LEMMA IInvInductive == ASSUME TypeOK, TypeOK', IInv, [Next]_vars PROVE IInv'
<1>1. ASSUME NEW a \in Agents, NEW i \in Ids, CreateRequest(a, i) PROVE IInv'
  <2>1. RowsAgree'
    BY <1>1, NoOneAssumption DEF IInv, RowsAgree, CreateRequest, Opened, TypeOK
  <2>2. CallsAgree'
    BY <1>1, NoOneAssumption DEF IInv, CallsAgree, CallAgrees, CreateRequest, TypeOK, CallTyped
  <2>3. OneHolder'
    BY <1>1 DEF IInv, OneHolder, CreateRequest
  <2>4. DeliveredAgree'
    BY <1>1, NoOneAssumption DEF IInv, DeliveredAgree, CreateRequest, TypeOK
  <2>5. ToldAgree'
    BY <1>1 DEF IInv, ToldAgree, CreateRequest
  <2> QED
    BY <2>1, <2>2, <2>3, <2>4, <2>5 DEF IInv
<1>2. ASSUME NEW c \in Conns, NEW b \in Browsers, NEW i \in Ids, SubmitVerify(c, b, i)
      PROVE IInv'
  BY <1>2, ConnStepKeepsIInv DEF SubmitVerify, LinkValid, Open, TypeOK, history
<1>3. ASSUME NEW c \in Conns, NEW a \in Agents, NEW i \in Ids, RetrieveRead(c, a, i)
      PROVE IInv'
  <2>1. requester[i] # NoOne
    BY <1>3 DEF RetrieveRead, Visible, Live, IInv, RowsAgree
  <2> QED
    BY <1>3, <2>1, ConnStepKeepsIInv DEF RetrieveRead, Open, TypeOK, history
<1>4. ASSUME NEW c \in Conns, SubmitRead(c) PROVE IInv'
  <2>1. requester[conn[c].id] # NoOne
    BY <1>4 DEF SubmitRead, At, IInv, CallsAgree, CallAgrees
  <2>2. \/ conn'[c].at = "idle"
        \/ conn'[c].at = "read" /\ conn'[c].id = conn[c].id
    BY <1>4 DEF SubmitRead, Close, Idle, TypeOK, Call
  <2>3. \A d \in Conns \ {c} : conn'[d] = conn[d]
    BY <1>4 DEF SubmitRead, Close, TypeOK
  <2> QED
    BY <1>4, <2>1, <2>2, <2>3, ConnStepKeepsIInv DEF SubmitRead, history
<1>5. ASSUME NEW c \in Conns, SubmitWrite(c) PROVE IInv'
  <2> DEFINE i == conn[c].id  b == conn[c].by
  <2>1. i \in Ids /\ b \in Browsers /\ requester[i] # NoOne
    BY <1>5 DEF SubmitWrite, At, TypeOK, CallTyped, IInv, CallsAgree, CallAgrees
  <2>2. \A d \in Conns \ {c} : conn'[d] = conn[d]
    BY <1>5 DEF SubmitWrite, Goto, TypeOK
  <2>3. CASE Submittable(rows[i], conn[c].owner)
    <3>1. /\ rows' = [rows EXCEPT ![i] = Submitted(rows[i], b)]
          /\ accepted' = [accepted EXCEPT ![i] = b]
          /\ conn'[c].at = "stored" /\ conn'[c].id = i /\ conn'[c].by = b
          /\ UNCHANGED <<requester, told, delivered>>
      BY <1>5, <2>3 DEF SubmitWrite, Goto, TypeOK, Call
    <3>2. rows[i].status = "pending" /\ accepted[i] = NoOne
      BY <2>1, <2>3 DEF Submittable, IInv, RowsAgree
    <3>3. RowsAgree'
      BY <3>1, <3>2, <2>1 DEF IInv, RowsAgree, Submitted, TypeOK
    <3>4. CallsAgree'
      <4> SUFFICES ASSUME NEW d \in Conns PROVE CallAgrees(d)'
        BY DEF CallsAgree
      <4>1. CASE d = c
        BY <4>1, <3>1, <2>1 DEF TypeOK, CallAgrees
      <4>2. CASE d # c /\ conn[d].at = "idle"
        BY <4>2, <2>2 DEF CallAgrees
      <4>3. CASE d # c /\ conn[d].at # "idle"
        <5>1. conn'[d] = conn[d] /\ conn[d].id \in Ids
          BY <4>3, <2>2 DEF TypeOK, CallTyped
        <5>2. conn[d].id = i => conn[d].at \notin {"stored", "consumed"}
          BY <3>2, <2>1, <4>3, NoOneAssumption DEF IInv, CallsAgree, CallAgrees, TypeOK, CallTyped
        <5> QED
          BY <5>1, <5>2, <3>1 DEF IInv, CallsAgree, CallAgrees, TypeOK
      <4> QED
        BY <4>1, <4>2, <4>3
    <3>5. OneHolder'
      BY <3>1, <2>2 DEF IInv, OneHolder
    <3>6. DeliveredAgree'
      BY <3>1, <3>2, <2>1 DEF IInv, DeliveredAgree, TypeOK
    <3>7. ToldAgree'
      BY <3>1, <3>2, <2>1, NoOneAssumption DEF IInv, ToldAgree, TypeOK
    <3> QED
      BY <3>3, <3>4, <3>5, <3>6, <3>7 DEF IInv
  <2>4. CASE ~Submittable(rows[i], conn[c].owner)
    <3>1. /\ conn'[c].at = "refused" /\ conn'[c].id = i
          /\ UNCHANGED <<rows, requester, accepted, told, delivered>>
      BY <1>5, <2>4 DEF SubmitWrite, Goto, TypeOK, Call
    <3> QED
      BY <3>1, <2>1, <2>2, ConnStepKeepsIInv
  <2> QED
    BY <2>3, <2>4
<1>6. ASSUME NEW c \in Conns, SubmitReply(c) PROVE IInv'
  <2> DEFINE i == conn[c].id
  <2>1. i \in Ids /\ accepted[i] = conn[c].by
    BY <1>6 DEF SubmitReply, At, TypeOK, CallTyped, IInv, CallsAgree, CallAgrees
  <2>2. conn'[c].at = "idle" /\ \A d \in Conns \ {c} : conn'[d] = conn[d]
    BY <1>6 DEF SubmitReply, Close, Idle, TypeOK
  <2>3. ToldAgree'
    BY <1>6, <2>1 DEF SubmitReply, IInv, ToldAgree, TypeOK
  <2>4. RowsAgree' /\ DeliveredAgree'
    BY <1>6 DEF SubmitReply, IInv, RowsAgree, DeliveredAgree
  <2>5. CallsAgree'
    BY <1>6, <2>2 DEF SubmitReply, IInv, CallsAgree, CallAgrees
  <2>6. OneHolder'
    BY <2>2 DEF IInv, OneHolder
  <2> QED
    BY <2>3, <2>4, <2>5, <2>6 DEF IInv
<1>7. ASSUME NEW c \in Conns, SubmitRefused(c) \/ Drop(c) PROVE IInv'
  <2>1. conn'[c].at = "idle" /\ \A d \in Conns \ {c} : conn'[d] = conn[d]
    BY <1>7 DEF SubmitRefused, Drop, Close, Idle, TypeOK
  <2> QED
    BY <1>7, <2>1, ConnStepKeepsIInv DEF SubmitRefused, Drop, history
<1>8. ASSUME NEW c \in Conns, RetrieveConsume(c) PROVE IInv'
  <2> DEFINE i == conn[c].id
  <2>1. i \in Ids /\ requester[i] # NoOne
    BY <1>8 DEF RetrieveConsume, At, TypeOK, CallTyped, IInv, CallsAgree, CallAgrees
  <2>2. \A d \in Conns \ {c} : conn'[d] = conn[d]
    BY <1>8 DEF RetrieveConsume, Close, TypeOK
  <2>3. CASE Consumable(rows[i], conn[c].by)
    <3>1. /\ rows' = [rows EXCEPT ![i] = Absent]
          /\ conn'[c].at = "consumed" /\ conn'[c].id = i
          /\ conn'[c].by = conn[c].by /\ conn'[c].got = rows[i].payload
          /\ UNCHANGED <<requester, accepted, told, delivered>>
      BY <1>8, <2>3 DEF RetrieveConsume, Taken, history, TypeOK, Call
    <3>2. /\ rows[i].status = "submitted" /\ conn[c].by = requester[i]
          /\ rows[i].payload = accepted[i]
      BY <2>1, <2>3 DEF Consumable, IInv, RowsAgree
    <3>3. rows'[i].status = "absent" /\ \A j \in Ids \ {i} : rows'[j] = rows[j]
      BY <2>1, <3>1 DEF Absent, TypeOK
    <3>4. RowsAgree'
      BY <3>1, <3>2, <3>3, <2>1 DEF IInv, RowsAgree
    <3>5. delivered[i] = <<>>
      BY <2>1, <3>2 DEF IInv, DeliveredAgree
    <3>6. \A d \in Conns : conn[d].at = "consumed" => conn[d].id # i
      BY <3>2 DEF IInv, CallsAgree, CallAgrees
    <3>7. CallsAgree'
      <4> SUFFICES ASSUME NEW d \in Conns PROVE CallAgrees(d)'
        BY DEF CallsAgree
      <4>1. CASE d = c
        BY <4>1, <3>1, <3>2, <3>3, <3>5, <2>1 DEF CallAgrees
      <4>2. CASE d # c
        <5>1. conn'[d] = conn[d] /\ (conn[d].at # "idle" => conn[d].id \in Ids)
          BY <4>2, <2>2 DEF TypeOK, CallTyped
        <5> QED
          BY <5>1, <3>1, <3>3 DEF IInv, CallsAgree, CallAgrees
      <4> QED
        BY <4>1, <4>2
    <3>8. OneHolder'
      BY <3>1, <3>6, <2>2 DEF IInv, OneHolder
    <3>9. DeliveredAgree' /\ ToldAgree'
      BY <3>1, <3>3, <3>5 DEF IInv, DeliveredAgree, ToldAgree
    <3> QED
      BY <3>4, <3>7, <3>8, <3>9 DEF IInv
  <2>4. CASE ~Consumable(rows[i], conn[c].by)
    <3>1. /\ conn'[c].at = "idle"
          /\ UNCHANGED <<rows, requester, accepted, told, delivered>>
      BY <1>8, <2>4 DEF RetrieveConsume, Close, Idle, history, TypeOK
    <3> QED
      BY <3>1, <2>2, ConnStepKeepsIInv
  <2> QED
    BY <2>3, <2>4
<1>9. ASSUME NEW c \in Conns, RetrieveReply(c) PROVE IInv'
  <2> DEFINE i == conn[c].id
  <2>1. /\ i \in Ids /\ requester[i] # NoOne
        /\ rows[i].status = "absent" /\ delivered[i] = <<>>
        /\ conn[c].by = requester[i] /\ conn[c].got = accepted[i]
    BY <1>9 DEF RetrieveReply, At, TypeOK, CallTyped, IInv, CallsAgree, CallAgrees
  <2>2. conn'[c].at = "idle" /\ \A d \in Conns \ {c} : conn'[d] = conn[d]
    BY <1>9 DEF RetrieveReply, Close, Idle, TypeOK
  <2>3. /\ delivered'[i] = <<[to |-> requester[i], payload |-> accepted[i]]>>
        /\ \A j \in Ids \ {i} : delivered'[j] = delivered[j]
        /\ UNCHANGED <<rows, requester, accepted, told>>
    BY <1>9, <2>1 DEF RetrieveReply, TypeOK
  <2>4. RowsAgree' /\ ToldAgree'
    BY <2>3 DEF IInv, RowsAgree, ToldAgree
  <2>5. DeliveredAgree'
    BY <2>1, <2>3 DEF IInv, DeliveredAgree
  <2>6. \A d \in Conns \ {c} : conn[d].at = "consumed" => conn[d].id # i
    BY <1>9 DEF RetrieveReply, At, IInv, OneHolder
  <2>7. CallsAgree'
    <3> SUFFICES ASSUME NEW d \in Conns PROVE CallAgrees(d)'
      BY DEF CallsAgree
    <3>1. CASE d = c
      BY <3>1, <2>2 DEF CallAgrees
    <3>2. CASE d # c
      <4>1. conn'[d] = conn[d] /\ (conn[d].at # "idle" => conn[d].id \in Ids)
        BY <3>2, <2>2 DEF TypeOK, CallTyped
      <4> QED
        BY <3>2, <4>1, <2>3, <2>6 DEF IInv, CallsAgree, CallAgrees
    <3> QED
      BY <3>1, <3>2
  <2>8. OneHolder'
    BY <2>2 DEF IInv, OneHolder
  <2> QED
    BY <2>4, <2>5, <2>7, <2>8 DEF IInv
<1>10. CASE Tick
  <2>1. \A i \in Ids : /\ rows'[i].status = rows[i].status
                       /\ rows'[i].owner = rows[i].owner
                       /\ rows'[i].payload = rows[i].payload
    BY <1>10 DEF Tick, Older, TypeOK, Row
  <2> QED
    BY <1>10, <2>1, RowsFadeKeepsIInv DEF Tick
<1>11. CASE Sweep
  BY <1>11, RowsFadeKeepsIInv DEF Sweep, history
<1>12. CASE ClockFence
  BY <1>12, RowsFadeKeepsIInv DEF ClockFence, history
<1>13. CASE RestartFence
  BY <1>13, RowsFadeKeepsIInv DEF RestartFence, history
<1>14. CASE ReconcileClock
  BY <1>14, RowsFadeKeepsIInv DEF ReconcileClock, history
<1>15. CASE UNCHANGED vars
  BY <1>15, RowsFadeKeepsIInv DEF vars
<1> QED
  BY <1>1, <1>2, <1>3, <1>4, <1>5, <1>6, <1>7, <1>8, <1>9, <1>10, <1>11, <1>12, <1>13,
     <1>14, <1>15 DEF Next, Step

\* The one-use guarantee of secret requests, for any number of agents, submitters,
\* connections and requests: one delivery at most, to the requester, of the
\* ciphertext whose submitter was acknowledged.
THEOREM OneUseDelivery == Spec => []DeliveredAsPromised
<1>1. Init => IInv
  BY DEF Init, IInv, RowsAgree, CallsAgree, CallAgrees, OneHolder, DeliveredAgree, ToldAgree, Absent, Idle
<1>2. TypeOK /\ TypeOK' /\ IInv /\ [Next]_vars => IInv'
  BY IInvInductive
<1>3. IInv => DeliveredAsPromised
  <2> SUFFICES ASSUME IInv PROVE DeliveredAsPromised
    OBVIOUS
  <2>1. ASSUME NEW i \in Ids
        PROVE  /\ Len(delivered[i]) <= 1
               /\ \A n \in 1 .. Len(delivered[i]) : /\ delivered[i][n].to = requester[i]
                                                    /\ delivered[i][n].payload = accepted[i]
    <3>1. CASE delivered[i] = <<>>
      BY <3>1
    <3>2. CASE delivered[i] # <<>>
      <4> DEFINE d == [to |-> requester[i], payload |-> accepted[i]]
      <4>1. delivered[i] = <<d>>
        BY <3>2 DEF IInv, DeliveredAgree
      <4>2. d.to = requester[i] /\ d.payload = accepted[i]
        OBVIOUS
      <4> HIDE DEF d
      <4>3. Len(delivered[i]) = 1 /\ delivered[i][1] = d
        BY <4>1
      <4> QED
        BY <4>2, <4>3
    <3> QED
      BY <3>1, <3>2
  <2>2. ASSUME NEW i \in Ids PROVE \A b \in told[i] : b = accepted[i]
    BY DEF IInv, ToldAgree
  <2>3. DeliveredOnceToRequester
    BY <2>1 DEF DeliveredOnceToRequester
  <2>4. AcknowledgedIsDelivered
    BY <2>1, <2>2, Zenon DEF AcknowledgedIsDelivered, IInv, ToldAgree
  <2> QED
    BY <2>3, <2>4 DEF DeliveredAsPromised
<1> QED
  BY <1>1, <1>2, <1>3, TypeCorrect, PTL DEF Spec

-----------------------------------------------------------------------------

\* Why ciphertext cannot outlive RequestTtl + SubmittedTtl: a pending row's age
\* and remaining time add up to RequestTtl, and it is submitted while some of
\* that time is left.
AgesAgree ==
  \A i \in Ids :
    /\ requester[i] = NoOne => rows[i].status = "absent" /\ age[i] = 0
    /\ rows[i].status = "pending" => age[i] + rows[i].left = RequestTtl
    /\ rows[i].status = "submitted" => age[i] + rows[i].left < RequestTtl + SubmittedTtl

\* Every step but Tick, CreateRequest and SubmitWrite keeps a row or deletes it.
LEMMA RowsKeptOrDeleted ==
  ASSUME TypeOK, [Next]_vars,
         ~Tick,
         \A a \in Agents, i \in Ids : ~CreateRequest(a, i),
         \A c \in Conns : ~SubmitWrite(c)
  PROVE  /\ \A i \in Ids : rows'[i] = rows[i] \/ rows'[i] = Absent
         /\ UNCHANGED <<age, requester>>
<1>1. CASE \E c \in Conns : RetrieveConsume(c)
  BY <1>1 DEF RetrieveConsume, TypeOK, Taken, history
<1>2. CASE Sweep \/ RestartFence \/ ReconcileClock
  BY <1>2 DEF Sweep, RestartFence, ReconcileClock, history
<1>3. CASE \E c \in Conns : \/ SubmitRead(c) \/ SubmitReply(c) \/ SubmitRefused(c)
                            \/ RetrieveReply(c) \/ Drop(c)
  BY <1>3 DEF SubmitRead, SubmitReply, SubmitRefused, RetrieveReply, Drop, history
<1>4. CASE \E c \in Conns, i \in Ids : \/ \E b \in Browsers : SubmitVerify(c, b, i)
                                       \/ \E a \in Agents : RetrieveRead(c, a, i)
  BY <1>4 DEF SubmitVerify, RetrieveRead, history
<1>5. CASE ClockFence \/ UNCHANGED vars
  BY <1>5 DEF ClockFence, vars, history
<1> QED
  BY <1>1, <1>2, <1>3, <1>4, <1>5 DEF Next, Step

LEMMA AgesAgreeInductive == ASSUME TypeOK, AgesAgree, [Next]_vars PROVE AgesAgree'
<1> USE TtlAssumption
<1>1. CASE Tick
  BY <1>1 DEF Tick, Older, AgesAgree, TypeOK, Row
<1>2. ASSUME NEW a \in Agents, NEW i \in Ids, CreateRequest(a, i) PROVE AgesAgree'
  BY <1>2, NoOneAssumption DEF CreateRequest, Opened, AgesAgree, TypeOK, Row
<1>3. ASSUME NEW c \in Conns, SubmitWrite(c) PROVE AgesAgree'
  <2> DEFINE i == conn[c].id
  <2>1. i \in Ids
    BY <1>3 DEF SubmitWrite, At, TypeOK, CallTyped
  <2>2. CASE Submittable(rows[i], conn[c].owner)
    <3>1. rows[i].status = "pending" /\ rows[i].left > 0
      BY <2>2 DEF Submittable, Live
    <3>2. age[i] \in Int /\ rows[i].left \in Int /\ age[i] + rows[i].left = RequestTtl
      BY <2>1, <3>1 DEF AgesAgree, TypeOK, Row
    <3>3. /\ rows'[i].status = "submitted"
          /\ rows'[i].left = SubmittedTtl
          /\ age' = age /\ requester' = requester
          /\ \A j \in Ids \ {i} : rows'[j] = rows[j]
      BY <1>3, <2>1, <2>2 DEF SubmitWrite, Submitted, TypeOK
    <3>4. requester[i] # NoOne
      BY <2>1, <3>1 DEF AgesAgree
    <3> QED
      BY <2>1, <3>1, <3>2, <3>3, <3>4 DEF AgesAgree
  <2>3. CASE ~Submittable(rows[i], conn[c].owner)
    BY <1>3, <2>3 DEF SubmitWrite, AgesAgree
  <2> QED
    BY <2>2, <2>3
<1>4. CASE /\ ~Tick
           /\ \A a \in Agents, i \in Ids : ~CreateRequest(a, i)
           /\ \A c \in Conns : ~SubmitWrite(c)
  <2>1. /\ \A i \in Ids : rows'[i] = rows[i] \/ rows'[i] = Absent
        /\ UNCHANGED <<age, requester>>
    BY <1>4, RowsKeptOrDeleted
  <2> QED
    BY <2>1 DEF AgesAgree, Absent
<1> QED
  BY <1>1, <1>2, <1>3, <1>4

\* However late ciphertext is submitted, and whatever the interleaving, it is
\* readable for less than RequestTtl + SubmittedTtl after the request was opened.
THEOREM BoundedLifetime == Spec => []LifetimeBounded
<1>1. Init => AgesAgree
  <2> SUFFICES ASSUME Init, NEW i \in Ids
               PROVE  rows[i].status = "absent" /\ age[i] = 0
    BY DEF AgesAgree
  <2> QED
    BY DEF Init, Absent
<1>2. TypeOK /\ AgesAgree /\ [Next]_vars => AgesAgree'
  BY AgesAgreeInductive
<1>3. TypeOK /\ AgesAgree => LifetimeBounded
  <2> SUFFICES ASSUME TypeOK, AgesAgree, NEW i \in Ids, Live(rows[i])
               PROVE  age[i] + rows[i].left < RequestTtl + SubmittedTtl
    BY DEF LifetimeBounded
  <2>1. rows[i].status \in {"pending", "submitted"} /\ age[i] \in Int /\ rows[i].left \in Int
    BY DEF TypeOK, Row, Live
  <2> QED
    BY <2>1, TtlAssumption DEF AgesAgree
<1> QED
  BY <1>1, <1>2, <1>3, TypeCorrect, PTL DEF Spec

\* No step revives a request: status reads only move from pending to submitted to
\* gone, so a submission or a retrieval that was under way when the request
\* expired or was purged has no effect.
THEOREM NeverRevived == Spec => NoResurrection
<1> DEFINE Forward(i) == requester[i] # NoOne =>
                           \/ Visible(rows'[i]) = Visible(rows[i])
                           \/ Visible(rows'[i]) = "gone"
                           \/ Visible(rows[i]) = "pending" /\ Visible(rows'[i]) = "submitted"
<1>1. ASSUME TypeOK, [Next]_vars, NEW i \in Ids PROVE Forward(i)
  <2>1. CASE Tick
    BY <1>1, <2>1 DEF Tick, Older, Visible, Live, TypeOK, Row
  <2>2. ASSUME NEW a \in Agents, NEW j \in Ids, CreateRequest(a, j) PROVE Forward(i)
    BY <1>1, <2>2 DEF CreateRequest, TypeOK
  <2>3. ASSUME NEW c \in Conns, SubmitWrite(c) PROVE Forward(i)
    <3> DEFINE j == conn[c].id
    <3>1. CASE j = i /\ Submittable(rows[i], conn[c].owner)
      <4>1. Visible(rows[i]) = "pending"
        BY <3>1 DEF Submittable, Visible, Live
      <4>2. rows'[i] = Submitted(rows[i], conn[c].by)
        BY <1>1, <2>3, <3>1 DEF SubmitWrite, TypeOK
      <4>3. Visible(rows'[i]) = "submitted"
        BY <4>2, TtlAssumption DEF Submitted, Visible, Live
      <4> QED
        BY <4>1, <4>3
    <3>2. CASE ~(j = i /\ Submittable(rows[i], conn[c].owner))
      <4>1. rows'[i] = rows[i]
        BY <1>1, <2>3, <3>2 DEF SubmitWrite, TypeOK
      <4> QED
        BY <4>1
    <3> QED
      BY <3>1, <3>2
  <2>4. CASE /\ ~Tick
             /\ \A a \in Agents, j \in Ids : ~CreateRequest(a, j)
             /\ \A c \in Conns : ~SubmitWrite(c)
    <3>1. rows'[i] = rows[i] \/ rows'[i] = Absent
      BY <1>1, <2>4, RowsKeptOrDeleted
    <3> QED
      BY <3>1 DEF Visible, Live, Absent
  <2> QED
    BY <2>1, <2>2, <2>3, <2>4
<1>2. TypeOK /\ [Next]_vars => [\A i \in Ids : Forward(i)]_vars
  BY <1>1
<1> QED
  BY <1>2, TypeCorrect, PTL DEF Spec, NoResurrection
=============================================================================
