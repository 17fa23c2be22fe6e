--------------------------- MODULE SecretRequest ---------------------------
(***************************************************************************)
(* The one-use secret request of the controller: an agent opens a request, *)
(* a browser holding the signed link submits ciphertext, the agent takes   *)
(* the ciphertext once.  Models crates/blindpass-controller/src/           *)
(* routes/secrets.rs over the secret_requests table of store/mod.rs.       *)
(*                                                                         *)
(* Each HTTP handler is split at its database transactions: `conn` holds   *)
(* what a handler has read so far, and any other handler, the sweeper, the *)
(* clock or a clock fence may run between two of its steps.  A connection  *)
(* may be dropped at any step, before or after the commit.                 *)
(*                                                                         *)
(* Definitions named Faulty... are not part of the specification: each is  *)
(* the named definition with one plausible bug, which a property excludes. *)
(*                                                                         *)
(* Time is kept as remaining lifetime (expires_at - now) in ticks, so the  *)
(* clock itself is unbounded.  A row is live while `left` is positive.     *)
(***************************************************************************)
EXTENDS Integers, Sequences

CONSTANTS
  Ids,           \* request identifiers (random, used once)
  Agents,        \* authenticated workloads
  Browsers,      \* submitters; a submitter stands for its ciphertext
  Conns,         \* HTTP connections the server may be serving at once
  NoOne,         \* the absent value of every optional column
  RequestTtl,    \* request_ttl_seconds
  SubmittedTtl,  \* submitted_ttl_seconds
  Grace          \* retention grace of the sweeper

ASSUME TtlAssumption ==
  /\ RequestTtl \in Nat \ {0}
  /\ SubmittedTtl \in Nat \ {0}
  /\ Grace \in Nat \ {0}

ASSUME NoOneAssumption == NoOne \notin Ids \cup Agents \cup Browsers

VARIABLES
  rows,       \* the secret_requests table
  link,       \* remaining lifetime of the signed metadata and submit links
  conn,       \* the handler running on each connection
  fenced,     \* controller_clock.fenced_at is set
  requester,  \* history: the agent each identifier was issued to
  accepted,   \* history: the submitter whose ciphertext was committed last
  told,       \* history: 201 answers given to submitters
  delivered,  \* history: the ciphertexts sent to agents, in order
  age         \* history: ticks since the row was inserted

vars == <<rows, link, conn, fenced, requester, accepted, told, delivered, age>>

Absent == [status |-> "absent", owner |-> NoOne, left |-> 0, payload |-> NoOne]

Idle == [at |-> "idle", id |-> NoOne, by |-> NoOne, owner |-> NoOne, got |-> NoOne]

Live(row) == row.status # "absent" /\ row.left > 0

\* What a status read answers: rows past their deadline read as gone.
Visible(row) == IF Live(row) THEN row.status ELSE "gone"

\* A handler enters or leaves a step.
At(c, step) == conn[c].at = step

Goto(c, step) == conn' = [conn EXCEPT ![c].at = step]

Close(c) == conn' = [conn EXCEPT ![c] = Idle]

Open(c, step, i, who) ==
  /\ At(c, "idle")
  /\ conn' = [conn EXCEPT ![c] = [at |-> step, id |-> i, by |-> who,
                                  owner |-> NoOne, got |-> NoOne]]

history == <<requester, accepted, told, delivered, age>>

-----------------------------------------------------------------------------

Init ==
  /\ rows = [i \in Ids |-> Absent]
  /\ link = [i \in Ids |-> -1]
  /\ conn = [c \in Conns |-> Idle]
  /\ fenced = FALSE
  /\ requester = [i \in Ids |-> NoOne]
  /\ accepted = [i \in Ids |-> NoOne]
  /\ told = [i \in Ids |-> {}]
  /\ delivered = [i \in Ids |-> <<>>]
  /\ age = [i \in Ids |-> 0]

\* The row of create_secret_request_with_expiry.
Opened(a) == [status |-> "pending", owner |-> a, left |-> RequestTtl, payload |-> NoOne]

\* POST /secret/request: one INSERT of a pending row, then both browser links
\* are signed with the row's deadline.
CreateRequest(a, i) ==
  /\ ~fenced
  /\ requester[i] = NoOne
  /\ rows' = [rows EXCEPT ![i] = Opened(a)]
  /\ link' = [link EXCEPT ![i] = RequestTtl]
  /\ requester' = [requester EXCEPT ![i] = a]
  /\ UNCHANGED <<conn, fenced, accepted, told, delivered, age>>

\* verify_browser_payload refuses a link only once its deadline has passed.
LinkValid(i) == requester[i] # NoOne /\ link[i] >= 0

\* POST /secret/submit/:id, first: the signed link is checked against the clock.
SubmitVerify(c, b, i) ==
  /\ LinkValid(i)
  /\ Open(c, "verified", i, b)
  /\ UNCHANGED <<rows, link, fenced, history>>

\* Then the row's metadata is read for the requester it belongs to.
SubmitRead(c) ==
  /\ At(c, "verified")
  /\ ~fenced
  /\ IF Live(rows[conn[c].id])
       THEN conn' = [conn EXCEPT ![c].at = "read", ![c].owner = rows[conn[c].id].owner]
       ELSE Close(c)
  /\ UNCHANGED <<rows, link, fenced, history>>

\* The UPDATE of submit_secret_request: which row it applies to, and what it writes.
FaultySubmittableTwice(row, owner) == Live(row) /\ row.owner = owner

FaultySubmittableLate(row, owner) == row.status = "pending" /\ row.owner = owner

Submittable(row, owner) == row.status = "pending" /\ Live(row) /\ row.owner = owner

FaultySubmittedExtends(row, b) ==
  [status |-> "submitted", owner |-> row.owner, left |-> row.left + SubmittedTtl,
   payload |-> b]

Submitted(row, b) ==
  [status |-> "submitted", owner |-> row.owner, left |-> SubmittedTtl, payload |-> b]

SubmitWrite(c) ==
  /\ At(c, "read")
  /\ ~fenced
  /\ LET i == conn[c].id  b == conn[c].by IN
       IF Submittable(rows[i], conn[c].owner)
         THEN /\ rows' = [rows EXCEPT ![i] = Submitted(rows[i], b)]
              /\ accepted' = [accepted EXCEPT ![i] = b]
              /\ Goto(c, "stored")
         ELSE /\ Goto(c, "refused")
              /\ UNCHANGED <<rows, accepted>>
  /\ UNCHANGED <<link, fenced, requester, told, delivered, age>>

\* The 201 answer reaches the submitter.
SubmitReply(c) ==
  /\ At(c, "stored")
  /\ told' = [told EXCEPT ![conn[c].id] = @ \cup {conn[c].by}]
  /\ Close(c)
  /\ UNCHANGED <<rows, link, fenced, requester, accepted, delivered, age>>

\* The UPDATE matched nothing: request_status chooses between the 409 and the
\* 410 answer.
SubmitRefused(c) ==
  /\ At(c, "refused")
  /\ ~fenced
  /\ Close(c)
  /\ UNCHANGED <<rows, link, fenced, history>>

\* GET /secret/retrieve/:id, first: request_status as the calling agent.
RetrieveRead(c, a, i) ==
  /\ ~fenced
  /\ rows[i].owner = a
  /\ Visible(rows[i]) = "submitted"
  /\ Open(c, "seen", i, a)
  /\ UNCHANGED <<rows, link, fenced, history>>

\* Then the DELETE ... RETURNING of consume_secret_request.
Consumable(row, a) == row.status = "submitted" /\ Live(row) /\ row.owner = a

Taken(row) == Absent

RetrieveConsume(c) ==
  /\ At(c, "seen")
  /\ ~fenced
  /\ LET i == conn[c].id IN
       IF Consumable(rows[i], conn[c].by)
         THEN /\ rows' = [rows EXCEPT ![i] = Taken(rows[i])]
              /\ conn' = [conn EXCEPT ![c].at = "consumed", ![c].got = rows[i].payload]
         ELSE /\ Close(c)
              /\ UNCHANGED rows
  /\ UNCHANGED <<link, fenced, history>>

\* The ciphertext reaches the agent, after the commit.
RetrieveReply(c) ==
  /\ At(c, "consumed")
  /\ delivered' = [delivered EXCEPT ![conn[c].id] =
                     Append(@, [to |-> conn[c].by, payload |-> conn[c].got])]
  /\ Close(c)
  /\ UNCHANGED <<rows, link, fenced, requester, accepted, told, age>>

\* The client disconnects, the process stops, or a store call fails: the
\* handler's answer is lost, whatever it had already committed.
Drop(c) ==
  /\ ~At(c, "idle")
  /\ Close(c)
  /\ UNCHANGED <<rows, link, fenced, history>>

\* One tick of the clock.  Nothing tells lifetimes below -Grace apart.
Older(row) == IF row.left > -Grace THEN [row EXCEPT !.left = @ - 1] ELSE row

Tick ==
  /\ rows' = [i \in Ids |-> IF rows[i].status = "absent" THEN rows[i] ELSE Older(rows[i])]
  /\ link' = [i \in Ids |-> IF link[i] >= 0 THEN link[i] - 1 ELSE link[i]]
  /\ age' = [i \in Ids |-> IF rows[i].status # "absent" /\ rows[i].left > -Grace
                             THEN age[i] + 1 ELSE age[i]]
  /\ UNCHANGED <<conn, fenced, requester, accepted, told, delivered>>

\* The sweeper's DELETE on secret_requests.
FaultyOverduePendingKept(row) == row.status = "submitted" /\ row.left <= -Grace

Overdue(row) == row.status # "absent" /\ row.left <= -Grace

Sweep ==
  /\ ~fenced
  /\ \E i \in Ids : Overdue(rows[i])
  /\ rows' = [i \in Ids |-> IF Overdue(rows[i]) THEN Absent ELSE rows[i]]
  /\ UNCHANGED <<link, conn, fenced, history>>

\* A clock regression is found: the durable fence closes every store call but
\* keeps the rows.
ClockFence ==
  /\ ~fenced
  /\ fenced' = TRUE
  /\ UNCHANGED <<rows, link, conn, history>>

\* The boot identity changed: the same transaction fences and deletes every row.
RestartFence ==
  /\ ~fenced
  /\ fenced' = TRUE
  /\ rows' = [i \in Ids |-> Absent]
  /\ UNCHANGED <<link, conn, history>>

\* `reconcile-clock`, run by an operator while the controller is stopped.
ReconcileClock ==
  /\ fenced
  /\ fenced' = FALSE
  /\ rows' = [i \in Ids |-> Absent]
  /\ conn' = [c \in Conns |-> Idle]
  /\ UNCHANGED <<link, history>>

Step(c) ==
  \/ SubmitRead(c) \/ SubmitWrite(c) \/ SubmitReply(c) \/ SubmitRefused(c)
  \/ RetrieveConsume(c) \/ RetrieveReply(c) \/ Drop(c)

Next ==
  \/ \E a \in Agents, i \in Ids : CreateRequest(a, i)
  \/ \E c \in Conns, b \in Browsers, i \in Ids : SubmitVerify(c, b, i)
  \/ \E c \in Conns, a \in Agents, i \in Ids : RetrieveRead(c, a, i)
  \/ \E c \in Conns : Step(c)
  \/ Tick \/ Sweep \/ ClockFence \/ RestartFence \/ ReconcileClock

Spec == Init /\ [][Next]_vars

\* Time passes and the sweep task of `serve` keeps its 30-second schedule.
FairSpec == Spec /\ WF_vars(Tick) /\ WF_vars(Sweep)

-----------------------------------------------------------------------------

Steps == {"idle", "verified", "read", "stored", "refused", "seen", "consumed"}

Row == [status : {"absent", "pending", "submitted"}, owner : Agents \cup {NoOne},
        left : Int, payload : Browsers \cup {NoOne}]

Delivery == [to : Agents, payload : Browsers \cup {NoOne}]

Call == [at : Steps, id : Ids \cup {NoOne}, by : Agents \cup Browsers \cup {NoOne},
         owner : Agents \cup {NoOne}, got : Browsers \cup {NoOne}]

CallTyped(call) ==
  /\ call.at # "idle" => call.id \in Ids
  /\ call.at \in {"verified", "read", "stored", "refused"} => call.by \in Browsers
  /\ call.at \in {"seen", "consumed"} => call.by \in Agents

\* The type of every variable; in particular no column holds a value its SQL
\* type or CHECK constraint would refuse.
TypeOK ==
  /\ rows \in [Ids -> Row]
  /\ link \in [Ids -> Int]
  /\ conn \in [Conns -> Call]
  /\ \A c \in Conns : CallTyped(conn[c])
  /\ fenced \in BOOLEAN
  /\ requester \in [Ids -> Agents \cup {NoOne}]
  /\ accepted \in [Ids -> Browsers \cup {NoOne}]
  /\ told \in [Ids -> SUBSET Browsers]
  /\ delivered \in [Ids -> Seq(Delivery)]
  /\ age \in [Ids -> Nat]

\* A request's ciphertext leaves the controller at most once, and only to the
\* agent that opened the request: concurrent retrievals, lost answers and
\* retries never yield a second copy (consume_secret_request).
DeliveredOnceToRequester ==
  \A i \in Ids :
    /\ Len(delivered[i]) <= 1
    /\ \A n \in 1 .. Len(delivered[i]) : delivered[i][n].to = requester[i]

\* The submitter who was told 201 is the one whose ciphertext the agent
\* receives: of two racing submissions, the loser is never acknowledged and
\* never replaces the winner's ciphertext (submit_secret_request).
AcknowledgedIsDelivered ==
  \A i \in Ids :
    /\ told[i] \subseteq {accepted[i]}
    /\ \A n \in 1 .. Len(delivered[i]) :
         \A b \in told[i] : delivered[i][n].payload = b

\* What submitter and requester are promised together (submit, retrieve).
DeliveredAsPromised == DeliveredOnceToRequester /\ AcknowledgedIsDelivered

\* Ciphertext is readable for less than RequestTtl + SubmittedTtl after the
\* request was opened, however late it was submitted.
LifetimeBounded ==
  \A i \in Ids : Live(rows[i]) => age[i] + rows[i].left < RequestTtl + SubmittedTtl

\* What status reads answer never goes back: submitted never reads as pending
\* again, and a request that expired, was taken or was purged stays gone (a late
\* submission cannot revive it).
NoResurrection ==
  [][\A i \in Ids :
       requester[i] # NoOne =>
         \/ Visible(rows'[i]) = Visible(rows[i])
         \/ Visible(rows'[i]) = "gone"
         \/ Visible(rows[i]) = "pending" /\ Visible(rows'[i]) = "submitted"]_vars

\* Ciphertext does not stay at rest: every row is eventually deleted, unless a
\* clock fence stopped the sweeper (sweep_expired).
EventuallyErased ==
  \A i \in Ids : rows[i].status # "absent" ~> (rows[i].status = "absent" \/ fenced)

=============================================================================
