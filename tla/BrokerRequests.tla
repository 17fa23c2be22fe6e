--------------------------- MODULE BrokerRequests ---------------------------
(***************************************************************************)
(* The broker's own record of the operations its workload asked for: who   *)
(* owns a request, retry keys, withdrawal and cancellation, closures, the  *)
(* bounded table of owners and its reclamation, and the durable snapshot   *)
(* they share with the event queue.  Models operation_request.rs,          *)
(* owner_retention.rs, original_workload.rs and the request part of lib.rs *)
(* and control.rs of the broker.                                           *)
(*                                                                         *)
(* Every handler runs under the state lock and is one action; a handler    *)
(* that writes twice may fail at either write.  A write replaces the whole *)
(* snapshot: it succeeds, fails before the rename ("lost") or fails after  *)
(* it ("torn": published, but reported as failed).  There is one workload, *)
(* whose unit may restart (a new invocation) and whose processes may exit. *)
(* A result or a closure is two events that are queued together; they are  *)
(* one event of weight two here.  The controller is seen through what it   *)
(* received and what it closed; browser sessions through their journal     *)
(* record and their actor (module BrowserSession has the detail).          *)
(* Definitions named Faulty... carry one plausible bug each and are not    *)
(* part of the specification.                                              *)
(***************************************************************************)
EXTENDS Naturals, FiniteSets, FiniteSetsExt, Functions, TLC

CONSTANTS
  None,        \* an input without a retry key
  Batch,       \* EVICTION_BATCH, 64 in the code
  QueueMax,    \* MAX_BROKER_AUDIT_EVENTS, 10 000 in the code
  MaxLeases,   \* MAX_ORIGINAL_WORKLOAD_LEASES, 16 in the code
  MaxEvents,   \* bound on event keys
  MaxRecipes,  \* bound on settings changes
  Scenarios    \* what the workload asks for ([mode, key]), MAX_OPERATION_RECORDS (4096 in
               \* the code), and bounds on event keys, unit restarts, settings changes,
               \* failed writes and crashes; whether the controller grants

ASSUME BrokerRequestsAssumption ==
  /\ {Batch, QueueMax, MaxLeases, MaxEvents, MaxRecipes} \subseteq Nat \ {0}
  /\ \A s \in Scenarios :
      /\ \A i \in s.inputs : i.mode \in {"browser", "native"}
      /\ s.limit \in Nat \ {0} /\ s.events <= MaxEvents /\ s.recipes <= MaxRecipes

VARIABLES
  mem,       \* owners, closures, queue and overflow flag in memory
  disk,      \* the snapshot of them on disk
  fenced,    \* pending_state_fenced
  leases,    \* original_workload_leases
  actors,    \* stage of the browser actor of a request
  published, \* closures this process has published
  journal,   \* the session journal's record of a request's session
  invocation, exited,  \* the unit's invocation; requests whose process has exited
  recipe,    \* version of the registration, policy and catalog entry
  grants,    \* requests whose unused grant the broker holds
  received,  \* events the controller has recorded
  closedBy,  \* requests the controller has closed
  drawn,     \* history: retry key and way of entry of each event key
  stopped,   \* history: requests whose cancellation reached the broker
  promised,  \* history: withdrawals and cancellations answered OK
  faults, crashes,
  scene      \* the scenario
vars == <<mem, disk, fenced, leases, actors, published, journal, invocation, exited,
          recipe, grants, received, closedBy, drawn, stopped, promised, faults, crashes,
          scene>>
session == <<actors, published, journal>>
world == <<invocation, exited, recipe, grants, received, closedBy, crashes, scene>>

Events == 1..MaxEvents
Fresh == Cardinality(DOMAIN drawn) + 1

(* Owner.binding: the recipe a browser request was admitted with, a        *)
(* Withdrawal before admission, or NoBinding for a native request.         *)
NoBinding == 0
Withdrawal == MaxRecipes + 1
BeforeAdmission(m, e) == m.owners[e].binding = Withdrawal
Owner(input, binding, cancel) ==
    [mode |-> input.mode, key |-> input.key, invocation |-> invocation,
     binding |-> binding, cancel |-> cancel, acked |-> FALSE]
Own(m, e, owner) == [m EXCEPT !.owners = (e :> owner) @@ @]
Owners(m) == DOMAIN m.owners
IsClosed(m, e) == e \in DOMAIN m.closures
Cancelled(m, e) == m.owners[e].cancel

(* An event of the queue.  A request and a cancellation name the request;  *)
(* the provisional and the closing result name its grant only.             *)
Event(kind, e) == [kind |-> kind, key |-> e]
Weight(v) == IF v.kind \in {"uncertain", "closed"} THEN 2 ELSE 1
Size(q) == MapThenSumSet(Weight, q)
Room(m) == IF Size(m.queue) >= QueueMax THEN 0 ELSE QueueMax - Size(m.queue)
References(m) == {v.key : v \in {w \in m.queue : w.kind \in {"request", "cancel"}}}
Add(m, vs) == [m EXCEPT !.queue = @ \cup vs]

-----------------------------------------------------------------------------
(* The snapshot.                                                           *)

(* What the reader of the snapshot requires of its records; the writer     *)
(* runs the reader on what it is about to write.                           *)
OwnersLoad(m) ==
    /\ \A e \in Owners(m) :
        LET o == m.owners[e] IN
        /\ o.acked => o.cancel
        /\ o.cancel => o.mode = "browser"
        /\ o.binding # NoBinding => o.mode = "browser"
        /\ o.binding = Withdrawal => o.cancel /\ ~o.acked
    /\ \A e, f \in Owners(m) :
        e # f /\ m.owners[e].key = m.owners[f].key => m.owners[e].key = None
    /\ Cardinality(Owners(m)) <= scene.limit
ClosuresLoad(m) ==
    /\ DOMAIN m.closures \subseteq Owners(m)
    /\ \A e \in DOMAIN m.closures :
        m.closures[e] = "completed" =>
            /\ m.owners[e].binding \notin {NoBinding, Withdrawal}
            /\ ~m.owners[e].cancel
Fits(m) == Size(m.queue) <= QueueMax
Loads(m) == OwnersLoad(m) /\ ClosuresLoad(m) /\ Fits(m)

(* persist_pending_node_events writes m over the snapshot `from`.          *)
Write(from, m, outcome) ==
    /\ outcome = "ok" => Loads(m)
    /\ outcome # "ok" /\ Loads(m) => faults < scene.faults
    /\ outcome = "torn" => Loads(m)
    /\ disk' = IF outcome = "lost" THEN from ELSE m
    /\ fenced' = (outcome # "ok")
    /\ faults' = IF outcome # "ok" /\ faults < scene.faults THEN faults + 1 ELSE faults
Outcomes == {"ok", "lost", "torn"}

(* A write whose failure leaves memory as the handler made it, and one     *)
(* whose failure puts it back.                                             *)
Persist(m, outcome) == mem' = m /\ Write(disk, m, outcome)
PersistOrRestore(m, outcome) ==
    /\ mem' = IF outcome = "ok" THEN m ELSE mem
    /\ Write(disk, m, outcome)

-----------------------------------------------------------------------------
(* Retention of owners.                                                    *)

(* owner_is_terminal: every one of its six conditions.                     *)
Terminal(m, e) ==
    /\ ~BeforeAdmission(m, e)
    /\ IsClosed(m, e)
    /\ Cancelled(m, e) => m.owners[e].acked
    /\ e \notin leases /\ actors[e] # "ready" /\ journal[e] # "open"
    /\ e \notin References(m)

Full(m) == Cardinality(Owners(m)) >= scene.limit

Evicted(m, S) ==
    [m EXCEPT !.owners = Restrict(@, DOMAIN @ \ S), !.closures = Restrict(@, DOMAIN @ \ S)]

(* Up to n of the terminal owners.  The code takes the oldest; after a     *)
(* restart the order is that of the random keys, so any of them may go.    *)
Evictions(m, n) ==
    LET T == {e \in Owners(m) : Terminal(m, e)} IN
    {Evicted(m, S) : S \in {V \in SUBSET T :
        Cardinality(V) = IF Cardinality(T) < n THEN Cardinality(T) ELSE n}} \ {m}

(* ensure_operation_owner_capacity: the memory admission goes on with.  A  *)
(* batch that was evicted has been written before.                         *)
After(m) == IF m = mem THEN disk ELSE m
RoomMade == IF Full(mem) THEN Evictions(mem, Batch) ELSE {mem}

(* The write of the eviction failed: the tables are put back.              *)
CapacityFails ==
    \E m \in RoomMade \ {mem}, outcome \in Outcomes \ {"ok"} : PersistOrRestore(m, outcome)

(* prune_crowded_owners, from the tick.                                    *)
PruneCrowdedOwners ==
    /\ Full(mem)
    /\ \E m \in Evictions(mem, scene.limit), outcome \in Outcomes : PersistOrRestore(m, outcome)
    /\ UNCHANGED <<leases, session, drawn, stopped, promised, world>>

-----------------------------------------------------------------------------
(* Cancellation.                                                           *)

FaultyRelayable(m) ==
    {e \in Owners(m) : /\ Cancelled(m, e) /\ ~m.owners[e].acked /\ ~IsClosed(m, e)
                       /\ ~BeforeAdmission(m, e)
                       /\ Event("cancel", e) \notin m.queue}

(* The cancellations still to be relayed.                                  *)
Relayable(m) ==
    {e \in Owners(m) : /\ Cancelled(m, e) /\ ~m.owners[e].acked
                       /\ ~BeforeAdmission(m, e)
                       /\ Event("cancel", e) \notin m.queue}

(* queue_pending_cancellations: as many as there is room for.              *)
WithCancellations(m) ==
    LET C == Relayable(m)
        n == IF Cardinality(C) < Room(m) THEN Cardinality(C) ELSE Room(m)
    IN {Add(m, {Event("cancel", e) : e \in S}) : S \in {V \in SUBSET C : Cardinality(V) = n}}

Stop(m, e) == [m EXCEPT !.owners[e].cancel = TRUE]

(* cancel_browser_operation, for a caller that owns the request: the stop  *)
(* and the queued event stay in memory when the write fails.               *)
Cancel(e, outcome) ==
    /\ mem.owners[e].binding # NoBinding /\ ~IsClosed(mem, e)
    /\ \E m \in WithCancellations(Stop(mem, e)) : Persist(m, outcome)
    /\ stopped' = stopped \cup {e}

Answered(e, outcome) == promised' = IF outcome = "ok" THEN promised \cup {e} ELSE promised

(* "cancel:" by the invocation that made the request.                      *)
CancelOperation(e) ==
    /\ e \in Owners(mem) /\ mem.owners[e].invocation = invocation /\ ~BeforeAdmission(mem, e)
    /\ \E outcome \in Outcomes : Cancel(e, outcome) /\ Answered(e, outcome)
    /\ UNCHANGED <<leases, session, world, drawn>>

(* find_browser_request_key                                                *)
WithKey(k) == {e \in Owners(mem) : k # None /\ mem.owners[e].key = k}

Draw(input, how) ==
    drawn' = (Fresh :> [key |-> input.key, how |-> how]) @@ drawn

(* "cancel-key:" for a key no request has used: the withdrawal takes a     *)
(* slot of the table, and stays in memory when its write fails.            *)
Withdraw(input) ==
    /\ input.key # None /\ WithKey(input.key) = {} /\ Fresh <= scene.events
    /\ \/ /\ CapacityFails /\ UNCHANGED <<drawn, promised>>
       \/ \E m \in RoomMade, outcome \in Outcomes :
            LET w == Own(m, Fresh, Owner(input, Withdrawal, TRUE)) IN
            /\ Draw(input, "withdrawal")
            /\ mem' = w
            /\ Write(After(m), w, outcome)
            /\ Answered(Fresh, outcome)
    /\ UNCHANGED <<leases, session, world, stopped>>

(* "cancel-key:" for a key in use: a withdrawal is written again, an       *)
(* admitted request is cancelled.  Another invocation is denied.           *)
WithdrawAgain(e) ==
    /\ e \in Owners(mem) /\ mem.owners[e].key # None
    /\ mem.owners[e].invocation = invocation /\ BeforeAdmission(mem, e)
    /\ \E outcome \in Outcomes : Persist(mem, outcome) /\ Answered(e, outcome)
    /\ UNCHANGED <<leases, session, world, drawn, stopped>>

-----------------------------------------------------------------------------
(* Admission: process_workload_owned and process_workload for "request:".  *)

(* flag_audit_overflow, when the queue is at its limit.                    *)
FlagOverflow ==
    /\ ~mem.overflow
    /\ \E outcome \in Outcomes : PersistOrRestore([mem EXCEPT !.overflow = TRUE], outcome)

(* RequestInput::parse: only a browser request carries a retry key.        *)
Parses(input) == input.key # None => input.mode = "browser"

(* A retry key in use draws no event: the caller gets the first one's key, *)
(* or a refusal, and nothing changes.  A fresh browser request needs a     *)
(* free lease.                                                             *)
MayAsk(input) ==
    /\ Parses(input) /\ WithKey(input.key) = {}
    /\ input.mode = "browser" => Cardinality(leases) < MaxLeases
    /\ ~fenced /\ Fresh <= scene.events

RequestRefused(input) ==
    /\ MayAsk(input)
    /\ IF Room(mem) = 0 THEN FlagOverflow ELSE CapacityFails
    /\ UNCHANGED <<leases, session, world, drawn, stopped, promised>>

Binding(input) == IF input.mode = "browser" THEN recipe ELSE NoBinding
Requested(m, input) ==
    Add(Own(m, Fresh, Owner(input, Binding(input), FALSE)), {Event("request", Fresh)})

(* The event and its owner are written together, or taken back.  When the  *)
(* process is gone before its lease is captured the request is cancelled.  *)
Request(input) ==
    /\ MayAsk(input) /\ Room(mem) > 0
    /\ Draw(input, "request")
    /\ \E m \in RoomMade : LET r == Requested(m, input) IN
        \/ \E outcome \in Outcomes :
            /\ mem' = IF outcome = "ok" THEN r ELSE m
            /\ Write(After(m), r, outcome)
            /\ leases' = IF outcome = "ok" /\ input.mode = "browser"
                         THEN leases \cup {Fresh} ELSE leases
            /\ UNCHANGED stopped
        \/ /\ input.mode = "browser"
           /\ \E c \in WithCancellations(Stop(r, Fresh)), outcome \in Outcomes :
                mem' = c /\ Write(r, c, outcome)
           /\ stopped' = stopped \cup {Fresh}
           /\ UNCHANGED leases
    /\ UNCHANGED <<session, world, promised>>

(* The process that made the request exits; the unit restarts.             *)
ProcessExits(e) ==
    /\ e \in leases \ exited
    /\ exited' = exited \cup {e}
    /\ UNCHANGED <<mem, disk, fenced, faults, leases, session, drawn, stopped, promised,
                   invocation, recipe, grants, received, closedBy, crashes, scene>>
UnitRestarts ==
    /\ invocation < scene.invocations
    /\ invocation' = invocation + 1 /\ exited' = exited \cup leases
    /\ UNCHANGED <<mem, disk, fenced, faults, leases, session, drawn, stopped, promised,
                   recipe, grants, received, closedBy, crashes, scene>>

(* reap_original_workload_leases, each 100 ms: one lease of its loop.      *)
Reap(e) ==
    /\ e \in leases /\ leases' = leases \ {e}
    /\ \/ /\ e \notin Owners(mem) \/ IsClosed(mem, e) \/ Cancelled(mem, e)
          /\ UNCHANGED <<mem, disk, fenced, faults, stopped>>
       \/ /\ e \in exited /\ e \in Owners(mem) /\ ~Cancelled(mem, e)
          /\ \E outcome \in Outcomes : Cancel(e, outcome)
    /\ UNCHANGED <<session, world, drawn, promised>>

-----------------------------------------------------------------------------
(* The browser session of a request.                                       *)

(* authorize_browser_request_owner and authorize_browser_grant: asked      *)
(* before the grant is consumed, before each handoff and for each status.  *)
Authorised(e) ==
    /\ e \in Owners(mem) /\ mem.owners[e].binding = recipe
    /\ ~IsClosed(mem, e) /\ ~Cancelled(mem, e)
    /\ e \in leases
    /\ ~fenced

(* operation_status: what the workload is told of its request.             *)
Status(e) ==
    IF e \notin Owners(mem) THEN "unknown"
    ELSE IF IsClosed(mem, e) THEN "closed"
    ELSE IF Cancelled(mem, e) THEN "cancelling"
    ELSE IF actors[e] = "ready" /\ Authorised(e) THEN "ready"
    ELSE IF e \in grants /\ Authorised(e) THEN "granted"
    ELSE "pending"

OpenRecords == {e \in Events : journal[e] = "open"}

(* prepare_browser_login: the journal reserves, the provisional result is  *)
(* queued and the grant consumed.  When the queue write or the consumption *)
(* fails the reservation stays, for recovery to clear.                     *)
Dispatch(e) ==
    /\ e \in grants /\ Authorised(e) /\ e \notin exited
    /\ OpenRecords = {} /\ journal[e] = "none"
    /\ IF Room(mem) < 2
       THEN FlagOverflow /\ UNCHANGED <<grants, actors, journal>>
       ELSE /\ journal' = [journal EXCEPT ![e] = "open"]
            /\ \E outcome \in Outcomes :
                 PersistOrRestore(Add(mem, {Event("uncertain", e)}), outcome)
            /\ actors' = IF fenced' THEN actors ELSE [actors EXCEPT ![e] = "login"]
            /\ grants' = IF fenced' THEN grants ELSE grants \ {e}
    /\ UNCHANGED <<leases, published, drawn, stopped, promised, invocation, exited, recipe,
                   received, closedBy, crashes, scene>>

Quiet == UNCHANGED <<mem, disk, fenced, faults, leases, drawn, stopped, promised, world>>

(* authorize_browser_handoff, then, later and unasked, browser_ready.      *)
Handoff(e) ==
    /\ actors[e] = "login" /\ Authorised(e)
    /\ actors' = [actors EXCEPT ![e] = "handed"]
    /\ UNCHANGED <<published, journal>> /\ Quiet
Ready(e) ==
    /\ actors[e] = "handed"
    /\ actors' = [actors EXCEPT ![e] = "ready"]
    /\ UNCHANGED <<published, journal>> /\ Quiet

(* The actor withdraws: at the deadline, or with an error, which cancels.  *)
ActorStops(e) ==
    /\ actors[e] \in {"login", "handed", "ready"}
    /\ actors' = [actors EXCEPT ![e] = IF @ = "login" THEN "failed" ELSE "cleanup"]
    /\ \/ actors[e] = "ready" /\ UNCHANGED <<mem, disk, fenced, faults, stopped>>
       \/ /\ e \in Owners(mem) /\ \E outcome \in Outcomes : Cancel(e, outcome)
       \/ /\ e \notin Owners(mem) \/ IsClosed(mem, e)
          /\ UNCHANGED <<mem, disk, fenced, faults, stopped>>
    /\ UNCHANGED <<leases, published, journal, drawn, promised, world>>

(* The local closure of a cleaned-up session: never over a cancellation    *)
(* or a signed closure.  A revoked session counts as cancelled.            *)
Marked(e, status) ==
    IF e \in Owners(mem) /\ ~Cancelled(mem, e) /\ ~IsClosed(mem, e)
    THEN [mem EXCEPT !.closures = (e :> status) @@ @] ELSE mem

(* publish_browser_closure_inner over the closures of m, done or not.      *)
Publish(m, e, done) ==
    LET p == Add(m, {Event("closed", e)})
        room == p.queue = mem.queue \/ Room(mem) >= 2
    IN \/ (done = (room /\ p = mem)) /\ (~room \/ p = mem)
          /\ UNCHANGED <<mem, disk, fenced, faults>>
       \/ /\ room /\ p # mem
          /\ \E outcome \in Outcomes :
              done = (outcome = "ok") /\ PersistOrRestore(p, outcome)

(* The lease is gone whatever the publication returns.                     *)
PublishClosure(e, done) ==
    /\ leases' = leases \ {e}
    /\ \E status \in {"completed", "cancelled"} : Publish(Marked(e, status), e, done)

Unwritten == UNCHANGED <<mem, disk, fenced, faults, leases>>

(* The actor's reconciliation, which may fail, then                        *)
(* finish_browser_operation for a session that logged in and an owner that *)
(* is still there.  One that failed may or may not have logged in.         *)
FinishActor(e) ==
    /\ actors[e] \in {"cleanup", "failed"}
    /\ actors' = [actors EXCEPT ![e] = "none"]
    /\ \/ Unwritten /\ UNCHANGED journal
       \/ actors[e] = "failed" /\ Unwritten /\ journal' = [journal EXCEPT ![e] = "void"]
       \/ /\ journal' = [journal EXCEPT ![e] = "closed"]
          /\ IF e \in Owners(mem) THEN \E done \in BOOLEAN : PublishClosure(e, done)
             ELSE Unwritten
    /\ UNCHANGED <<published, drawn, stopped, promised, world>>

(* The record of a reservation without an actor, closed by recover_pending *)
(* and, when a session was journaled, published without marking its owner. *)
Recover(e) ==
    /\ journal[e] = "open" /\ actors[e] = "none"
    /\ \/ Unwritten /\ journal' = [journal EXCEPT ![e] = "void"]
       \/ /\ journal' = [journal EXCEPT ![e] = "closed"] /\ UNCHANGED leases
          /\ \E done \in BOOLEAN : Publish(mem, e, done)
    /\ UNCHANGED <<actors, published, drawn, stopped, promised, world>>

(* retry_browser_closures: one record of its loop, each 5 s.               *)
RetryClosure(e) ==
    /\ journal[e] = "closed" /\ e \notin published
    /\ \E done \in BOOLEAN :
        /\ PublishClosure(e, done)
        /\ published' = IF done THEN published \cup {e} ELSE published
    /\ UNCHANGED <<actors, journal, drawn, stopped, promised, world>>

-----------------------------------------------------------------------------
(* The relay and the controller.                                           *)

(* queue_overflow_event_if_possible                                        *)
WithOverflow(m) ==
    IF m.overflow /\ Room(m) > 0
    THEN [Add(m, {Event("overflow", 0)}) EXCEPT !.overflow = FALSE] ELSE m

(* PULL_EVENTS: a failed write is retried first, and nothing leaves while  *)
(* it fails.                                                               *)
PullEvents ==
    /\ \/ /\ fenced /\ \E outcome \in Outcomes \ {"ok"} : Persist(mem, outcome)
          /\ UNCHANGED received
       \/ /\ fenced => Loads(mem)
          /\ LET d == IF fenced THEN mem ELSE disk
                 m == WithOverflow(mem)
             IN \/ /\ m # mem
                   /\ \E outcome \in Outcomes \ {"ok"} : mem' = mem /\ Write(d, m, outcome)
                   /\ UNCHANGED received
                \/ \E c \in WithCancellations(m), outcome \in Outcomes :
                    /\ c = m => outcome = "ok"
                    /\ mem' = c /\ Write(IF m = mem THEN d ELSE m, c, outcome)
                    /\ received' = IF outcome = "ok" THEN received \cup c.queue ELSE received
    /\ UNCHANGED <<leases, session, drawn, stopped, promised, invocation, exited, recipe,
                   grants, closedBy, crashes, scene>>

Acknowledged(m, vs) ==
    [m EXCEPT !.queue = @ \ vs,
              !.owners = [e \in DOMAIN @ |->
                  IF Event("cancel", e) \in vs THEN [@[e] EXCEPT !.acked = TRUE] ELSE @[e]]]

(* Of the events it recorded, those the controller is asked about later.   *)
Lasting(v) == v.kind \in {"request", "cancel"}

(* acknowledge_node_events: up to three writes, all of it taken back when  *)
(* one fails.                                                              *)
AckEvents ==
    LET vs == mem.queue \cap received
        a == Acknowledged(mem, vs)
        m == WithOverflow(a)
    IN /\ vs # {}
       /\ \E c \in WithCancellations(m) :
            \/ mem' = c /\ Write(disk, c, "ok") /\ received' = received \ {v \in vs : ~Lasting(v)}
            \/ \E d \in {disk, m}, outcome \in Outcomes \ {"ok"} :
                (d = m => m # a) /\ mem' = mem /\ Write(d, c, outcome) /\ UNCHANGED received
       /\ UNCHANGED <<leases, session, drawn, stopped, promised, invocation, exited, recipe,
                      grants, closedBy, crashes, scene>>

(* A grant for a received request; refused while a write is outstanding.   *)
ReceiveGrant(e) ==
    /\ scene.grants /\ Event("request", e) \in received /\ e \notin closedBy /\ ~fenced
    /\ e \notin grants /\ journal[e] = "none" /\ e \in Owners(mem)
    /\ mem.owners[e].binding = recipe
    /\ grants' = grants \cup {e}
    /\ UNCHANGED <<mem, disk, fenced, faults, leases, session, drawn, stopped, promised,
                   invocation, exited, recipe, received, closedBy, crashes, scene>>

(* The signed closure of a received request (rejected, expired, denied or  *)
(* cancelled) arrives, possibly again.                                     *)
ReceiveClosure(e) ==
    /\ Event("request", e) \in received
    /\ closedBy' = closedBy \cup {e}
    /\ IF e \in Owners(mem)
       THEN /\ leases' = leases \ {e}
            /\ \E outcome \in Outcomes :
                Persist([mem EXCEPT !.closures = (e :> "signed") @@ @], outcome)
       ELSE UNCHANGED <<mem, disk, fenced, faults, leases>>
    /\ UNCHANGED <<session, drawn, stopped, promised, invocation, exited, recipe, grants,
                   received, crashes, scene>>

(* A new registration, policy or catalog entry.                            *)
ChangeSettings ==
    /\ recipe < scene.recipes /\ recipe' = recipe + 1
    /\ UNCHANGED <<mem, disk, fenced, faults, leases, session, drawn, stopped, promised,
                   invocation, exited, grants, received, closedBy, crashes, scene>>

FaultyKept == {e \in DOMAIN disk.owners :
                  disk.owners[e].invocation = invocation /\ e \notin exited}

(* Leases are kernel handles of this process: none survives a restart.     *)
Kept == {}

(* configure_grant_storage and sync_unresolved after a crash.              *)
Restart ==
    /\ crashes < scene.crashes /\ crashes' = crashes + 1
    /\ mem' = disk /\ fenced' = FALSE
    /\ leases' = Kept /\ published' = {} /\ actors' = [e \in Events |-> "none"]
    /\ UNCHANGED <<disk, faults, journal, drawn, stopped, promised, invocation, exited,
                   recipe, grants, received, closedBy, scene>>

-----------------------------------------------------------------------------
Init ==
    /\ mem = [owners |-> <<>>, closures |-> <<>>, queue |-> {}, overflow |-> FALSE]
    /\ disk = mem /\ fenced = FALSE
    /\ leases = {} /\ published = {}
    /\ actors = [e \in Events |-> "none"] /\ journal = [e \in Events |-> "none"]
    /\ invocation = 1 /\ exited = {} /\ recipe = 1 /\ grants = {}
    /\ received = {} /\ closedBy = {}
    /\ drawn = <<>> /\ stopped = {} /\ promised = {}
    /\ faults = 0 /\ crashes = 0
    /\ scene \in Scenarios

Next ==
    \/ \E i \in scene.inputs : Request(i) \/ RequestRefused(i) \/ Withdraw(i)
    \/ \E e \in Events :
        \/ CancelOperation(e) \/ WithdrawAgain(e) \/ ProcessExits(e) \/ Reap(e)
        \/ Dispatch(e) \/ Handoff(e) \/ Ready(e) \/ ActorStops(e) \/ FinishActor(e)
        \/ Recover(e) \/ RetryClosure(e) \/ ReceiveGrant(e) \/ ReceiveClosure(e)
    \/ UnitRestarts \/ ChangeSettings \/ PruneCrowdedOwners
    \/ PullEvents \/ AckEvents \/ Restart

(* The relay polls and posts for ever, and the disk fails finitely often.  *)
FairSpec == Init /\ [][Next]_vars /\ WF_vars(PullEvents) /\ WF_vars(AckEvents)

-----------------------------------------------------------------------------
(* A cancellation is never undone: a request whose cancellation reached    *)
(* the broker (even one answered with a storage error, even after a crash  *)
(* that lost the flag) passes no authority check and is not offered to its *)
(* workload again, and a key whose withdrawal was answered OK is never     *)
(* admitted afterwards.                                                    *)
CancelStands ==
    /\ \A e \in stopped : ~Authorised(e) /\ Status(e) \notin {"ready", "granted"}
    /\ \A e \in promised, f \in DOMAIN drawn :
        f > e /\ drawn[e].how = "withdrawal" /\ drawn[f].key = drawn[e].key
            => drawn[f].how = "withdrawal"

(* A retry never becomes a second live request: of two requests with one   *)
(* key that reached the controller, the earlier is closed by it or its     *)
(* session has ended, across failed writes, restarts and eviction.         *)
NoTwins ==
    \A e, f \in DOMAIN drawn :
        /\ e < f /\ drawn[e].key = drawn[f].key /\ drawn[e].key # None
        /\ {Event("request", e), Event("request", f)} \subseteq received
        => e \in closedBy \/ journal[e] = "closed"

(* What the broker holds is always something its own reader accepts; a     *)
(* record it refuses would fence the broker for good and stop its restart. *)
SnapshotReadable == Loads(mem) /\ Loads(disk)

(* A cancellation answered OK reaches the controller, also when the queue  *)
(* was full, a write failed or the broker restarted.                       *)
CancellationDelivered ==
    \A e \in Events :
        (e \in promised /\ drawn[e].how = "request") ~> (Event("cancel", e) \in received)

(* What a workload may rely on, once the broker has answered it            *)
(* (process_browser_request, cancel_request, commit_snapshot).             *)
RequestsStand == CancelStands /\ NoTwins /\ SnapshotReadable
=============================================================================
