------------------------------ MODULE Recovery ------------------------------
(***************************************************************************)
(* The evidence a restored controller needs before it may serve.  While    *)
(* the record is recovering, every broker the authority still trusts       *)
(* reports what it knows (grants/report.rs, recovery_relay.rs) against a   *)
(* challenge of the authority (recovery_authority/receipts.rs); the        *)
(* restored copy applies each covered report (store/recovery/application.rs); *)
(* an operator decides the quarantined items, waives brokers that cannot   *)
(* report and completes the review (store/recovery/review.rs); the         *)
(* administrator attests that the source is stopped and activates.         *)
(*                                                                         *)
(* Reports arrive over HTTP and review commands over the admin socket of   *)
(* the same process, concurrently.  Completing a review is three steps:    *)
(* the status it reads, its local transaction, the authority's record.     *)
(***************************************************************************)
EXTENDS Ownership

CONSTANTS
    Nodes,          \* brokers the authority knows
    Pages,          \* pages of a report
    Scenarios       \* initial states: what is known and what is to happen

VARIABLES
    trust,          \* broker_trust: [Nodes -> state and revision]
    broker,         \* [Nodes -> epoch it obeyed, pinned epoch, grant, coverage]
    observed,       \* broker_observations: [Nodes -> epoch]
    challenge,      \* recovery_challenges: [Nodes -> row of the last recovery, or None]
    decided,        \* recovery_review_decisions of each epoch: {<<epoch, item>>}
    waived,         \* recovery_node_waivers: {<<epoch, node>>}
    complete,       \* recovery_review_complete: epochs, and (history) what was read
    stops,          \* recovery_source_stop: epochs
    review          \* the completion under way, or None

evidence == <<trust, broker, observed, challenge, decided, waived, complete, stops, review>>
vars == <<ownershipVars, evidence, scenario>>

MaxOf(S) == CHOOSE m \in S : \A x \in S : x <= m

EarlierWrite ==
    [epoch |-> 1, revision |-> 0, by |-> 0, at |-> Source, served |-> TRUE, seen |-> {},
     retired |-> FALSE, stray |-> FALSE]

Init ==
    /\ scenario \in Scenarios
    /\ ledger = [epoch |-> 1, revision |-> 1, phase |-> "fenced"]
    /\ used = {} /\ activations = {}
    /\ proc = [p \in Procs |-> None]
    \* A scenario of a restore may start after a write the backup lacks.
    /\ commits = IF scenario.lost THEN <<EarlierWrite>> ELSE <<>>
    /\ root = [r \in Roots |-> IF r = Source THEN Copy(1, DOMAIN commits) ELSE None]
    /\ backup = IF scenario.lost THEN [epoch |-> 1, log |-> {}] ELSE None
    /\ packages = {} /\ starts = 0 /\ faults = 0
    /\ trust = [n \in Nodes |-> [state |-> scenario.trust[n], revision |-> 1]]
    /\ broker = scenario.broker
    /\ observed = [n \in Nodes |-> 1]
    /\ challenge = [n \in Nodes |-> None]
    /\ decided = {} /\ waived = {} /\ complete = {} /\ stops = {}
    /\ review = None

-----------------------------------------------------------------------------
(* The ledger's side. *)

\* reserve_recovery: beyond the ledger's epoch, beyond what the operator says
\* was observed, and beyond every observation of the authority.
Reserve(said) ==
    /\ ledger.phase = "fenced"
    /\ Stopped
    /\ Transition(MaxOf({ledger.epoch, said} \cup {observed[n] : n \in Nodes}) + 1,
                  "recovering")
    /\ UNCHANGED <<used, activations, proc, copies, commits, starts, faults, evidence>>

Covered(n) ==
    /\ challenge[n] # None
    /\ challenge[n].epoch = ledger.epoch /\ challenge[n].revision = ledger.revision
    /\ challenge[n].state = "covered"

\* review_incomplete of recovery_activation_gaps.
Reviewed == \E c \in complete : c.epoch = ledger.epoch

\* node_uncovered of recovery_activation_gaps.
NodesAccounted ==
    \A n \in Nodes : trust[n].state = "active" =>
        Covered(n) \/ <<ledger.epoch, n>> \in waived

\* attest_source_stop: nothing holds the guard.
AttestSourceStop ==
    /\ ledger.phase = "recovering" /\ ~Guarded /\ Stopped
    /\ ledger.epoch \notin stops
    /\ stops' = stops \cup {ledger.epoch}
    /\ UNCHANGED <<ownershipVars, trust, broker, observed, challenge, decided, waived,
                   complete, review>>

\* activate_recovery: no gap is left.
ActivateRecovery ==
    /\ ledger.phase = "recovering" /\ Stopped
    /\ ledger.epoch \in stops /\ Reviewed /\ NodesAccounted
    /\ Transition(ledger.epoch, "active")
    /\ activations' = activations \cup {ledger.epoch}
    /\ UNCHANGED <<used, proc, copies, commits, starts, faults, evidence>>

\* publish_broker_trust: an active holder revokes a node.
RevokeTrust(p, n) ==
    /\ proc[p] # None /\ proc[p].stage = "open" /\ Check(proc[p])
    /\ proc[p].rec.phase = "active" /\ ~proc[p].latch
    /\ trust[n].state = "active"
    /\ trust' = [trust EXCEPT ![n] = [state |-> "revoked", revision |-> @.revision + 1]]
    /\ UNCHANGED <<ownershipVars, broker, observed, challenge, decided, waived, complete,
                   stops, review>>

-----------------------------------------------------------------------------
(* Reports, received by the recovering process. *)

\* recovery_boundary: the process holds the recovering record, and its copy
\* was invalidated for exactly that record.
Boundary(q) ==
    /\ q.job = "serve" /\ q.stage = "open" /\ q.rec.phase = "recovering" /\ Check(q)
    /\ root[q.at].recovery.phase = "invalidated"
    /\ root[q.at].recovery.target = q.rec.epoch
    /\ root[q.at].recovery.revision = q.rec.revision

\* recovery_receipt_scope: the snapshot it was built from is authenticated.
SnapshotBound(q) == root[q.at].recovery.bound

Recovering(p) == proc[p] # None /\ Boundary(proc[p]) /\ SnapshotBound(proc[p])

\* open_recovery_challenge: one row for a recovery and a node, trusted or
\* revoked, that the authority knows.
OpenChallenge(p, n) ==
    /\ Recovering(p)
    /\ trust[n].state # "unknown"
    /\ challenge[n] # None => challenge[n].epoch # ledger.epoch
    /\ challenge' = [challenge EXCEPT ![n] =
        [epoch |-> ledger.epoch, revision |-> ledger.revision,
         trust |-> trust[n].revision, pages |-> 0, saw |-> 0, intent |-> FALSE,
         state |-> "collecting"]]
    /\ UNCHANGED <<ownershipVars, trust, broker, observed, decided, waived, complete,
                   stops, review>>

\* The row is collecting for the live record under the node's present trust.
Collecting(p, n) ==
    /\ Recovering(p)
    /\ challenge[n] # None
    /\ challenge[n].state = "collecting"
    /\ challenge[n].epoch = ledger.epoch /\ challenge[n].revision = ledger.revision
    /\ challenge[n].trust = trust[n].revision

\* recovery_page: before it takes the snapshot it reports, the broker pins
\* the recovery's epoch, and from then on obeys no grant of an earlier one.
BrokerPins(p, n) ==
    /\ Collecting(p, n)
    /\ broker[n].pin < ledger.epoch
    /\ broker' = [broker EXCEPT ![n].pin = ledger.epoch]
    /\ UNCHANGED <<ownershipVars, trust, observed, challenge, decided, waived, complete,
                   stops, review>>

ReportFenced(n) == broker[n].pin >= ledger.epoch

\* stage_recovery_page: the next page of one manifest; what the broker has
\* seen is kept, and never falls.  A page sent again changes nothing.
StagePage(p, n) ==
    LET c == challenge[n]
        saw == IF c.pages = 0 THEN broker[n].seen ELSE c.saw
        intent == IF c.pages = 0 THEN broker[n].grant = "consumed" ELSE c.intent
    IN  /\ Collecting(p, n)
        /\ c.pages < Pages
        /\ ReportFenced(n)
        /\ saw >= observed[n]
        /\ observed' = [observed EXCEPT ![n] = saw]
        /\ challenge' = [challenge EXCEPT ![n].pages = @ + 1, ![n].saw = saw,
                                         ![n].intent = intent]
        /\ UNCHANGED <<ownershipVars, trust, broker, decided, waived, complete, stops, review>>

FaultyOutcome(n) ==
    IF broker[n].covers THEN "covered" ELSE "incomplete"

\* finish_recovery_challenge.
Outcome(n) ==
    IF MaxOf({observed[n], challenge[n].saw}) >= ledger.epoch THEN "rebase_required"
    ELSE IF broker[n].covers THEN "covered" ELSE "incomplete"

FinishReport(p, n) ==
    /\ Collecting(p, n)
    /\ challenge[n].pages = Pages
    /\ challenge' = [challenge EXCEPT ![n].state = Outcome(n)]
    /\ UNCHANGED <<ownershipVars, trust, broker, observed, decided, waived, complete,
                   stops, review>>

\* read_covered_recovery_report: every page of a covered report.
Readable(n) == Covered(n) /\ challenge[n].pages = Pages

\* apply_recovery_report: the grants the controller cannot reconcile become
\* items of the review.  Repeating it changes nothing.
ApplyReport(p, n) ==
    /\ Recovering(p)
    /\ Readable(n)
    /\ n \notin root[proc[p].at].applied
    /\ root' = [root EXCEPT ![proc[p].at].applied = @ \cup {n}]
    /\ UNCHANGED <<ledger, used, activations, proc, packages, backup, commits, starts,
                   faults, evidence>>

\* A broker pins the epoch of a document the serving controller signed.
BrokerSees(n) ==
    \E j \in DOMAIN commits :
        /\ commits[j].served /\ commits[j].epoch > broker[n].pin
        /\ broker' = [broker EXCEPT ![n].seen = commits[j].epoch, ![n].pin = commits[j].epoch]
        /\ UNCHANGED <<ownershipVars, trust, observed, challenge, decided, waived, complete,
                       stops, review>>

\* The broker consumes a grant of the source that the backup does not know.
ConsumeGrant(n) ==
    /\ broker[n].grant = "held" /\ broker[n].pin = 1
    /\ broker' = [broker EXCEPT ![n].grant = "consumed"]
    /\ UNCHANGED <<ownershipVars, trust, observed, challenge, decided, waived, complete,
                   stops, review>>

-----------------------------------------------------------------------------
(* The operator's review. *)

\* review_item_rows: what the snapshot held, and unreconciled grants of the
\* reports applied.
Items(r) == {"snapshot"} \cup {n \in root[r].applied : challenge[n].intent}

Undecided(r) == {i \in Items(r) : <<ledger.epoch, i>> \notin decided}

\* Decisions and waivers close when the review is complete.
ReviewOpen == ~Reviewed

Decide(p, i) ==
    /\ Recovering(p)
    /\ i \in Undecided(proc[p].at)
    /\ ReviewOpen
    /\ decided' = decided \cup {<<ledger.epoch, i>>}
    /\ UNCHANGED <<ownershipVars, trust, broker, observed, challenge, waived, complete,
                   stops, review>>

\* waive_recovery_node: the waiver and the revocation of trust are one
\* transaction, refused once the node has reported or the review is complete.
Waive(p, n) ==
    /\ Recovering(p)
    /\ ReviewOpen
    /\ trust[n].state # "unknown"
    /\ ~Covered(n) /\ <<ledger.epoch, n>> \notin waived
    /\ waived' = waived \cup {<<ledger.epoch, n>>}
    /\ trust' = [trust EXCEPT ![n] =
        IF @.state = "active" THEN [state |-> "revoked", revision |-> @.revision + 1] ELSE @]
    /\ UNCHANGED <<ownershipVars, broker, observed, challenge, decided, complete, stops, review>>

\* complete_recovery_review reads the status: nothing undecided, every node
\* accounted for.  Reports are applied and waivers recorded while it runs.
CompleteRead(p) ==
    /\ Recovering(p)
    /\ review = None /\ ReviewOpen
    /\ Undecided(proc[p].at) = {} /\ NodesAccounted
    /\ review' = [by |-> proc[p].id, stage |-> "read", count |-> 0,
                  waived |-> {n \in Nodes : <<ledger.epoch, n>> \in waived},
                  applied |-> root[proc[p].at].applied]
    /\ UNCHANGED <<ownershipVars, trust, broker, observed, challenge, decided, waived,
                   complete, stops>>

\* The items are counted, and the waived nodes of the status are revoked in
\* the copy.
CompleteSync(p) ==
    /\ Recovering(p)
    /\ review # None /\ review.by = proc[p].id /\ review.stage = "read"
    /\ root' = [root EXCEPT ![proc[p].at].revoked = @ \cup review.waived]
    /\ review' = [review EXCEPT !.stage = "synced", !.count = Cardinality(Items(proc[p].at))]
    /\ UNCHANGED <<ledger, used, activations, proc, packages, backup, commits, starts,
                   faults, trust, broker, observed, challenge, decided, waived, complete, stops>>

\* The authority records the completion if it holds as many decisions.
CompleteRecord(p) ==
    /\ Recovering(p)
    /\ review # None /\ review.by = proc[p].id /\ review.stage = "synced"
    /\ complete' = IF Cardinality({d \in decided : d[1] = ledger.epoch}) = review.count
                   THEN complete \cup {[epoch |-> ledger.epoch, waived |-> review.waived,
                                        applied |-> review.applied]}
                   ELSE complete
    /\ review' = None
    /\ UNCHANGED <<ownershipVars, trust, broker, observed, challenge, decided, waived, stops>>

\* A command dies with its process, or with the process's hold.
CompleteLost ==
    /\ review # None
    /\ ~\E p \in Procs : Recovering(p) /\ proc[p].id = review.by
    /\ review' = None
    /\ UNCHANGED <<ownershipVars, trust, broker, observed, challenge, decided, waived,
                   complete, stops>>

-----------------------------------------------------------------------------
EvidenceStep(p) ==
    \/ \E n \in Nodes :
        \/ OpenChallenge(p, n) \/ BrokerPins(p, n) \/ StagePage(p, n) \/ FinishReport(p, n) \/ ApplyReport(p, n)
        \/ Waive(p, n) \/ RevokeTrust(p, n)
    \/ \E i \in Nodes \cup {"snapshot"} : Decide(p, i)
    \/ CompleteRead(p) \/ CompleteSync(p) \/ CompleteRecord(p)

AuthorityStep ==
    \/ \E e \in scenario.said : Reserve(e)
    \/ AttestSourceStop \/ ActivateRecovery \/ CompleteLost
    \/ \E n \in Nodes : BrokerSees(n) \/ ConsumeGrant(n)

Next ==
    /\ UNCHANGED scenario
    /\ \/ OwnershipStep /\ UNCHANGED evidence
       \/ AuthorityStep
       \/ \E p \in Procs : EvidenceStep(p)

Spec == Init /\ [][Next]_vars

\* The monitor of a process ticks every second, and a fenced operation is
\* dropped by the select that waits for the fence.
FairMonitor(p) == Monitor(p) /\ UNCHANGED <<evidence, scenario>>
FairDrop(p) == Drop(p) /\ UNCHANGED <<evidence, scenario>>

FairSpec == Spec /\ \A p \in Procs : WF_vars(FairMonitor(p)) /\ WF_vars(FairDrop(p))

-----------------------------------------------------------------------------
(* Properties. *)

\* Recovery is activated only beyond what any broker still trusted has seen,
\* so that no document of the restored controller repeats an epoch and
\* sequence a broker has already obeyed, and a restored copy serves only
\* under an activation that was recorded for its epoch: fencing a recovering
\* record and activating it plainly does not open it.  A recovery is activated
\* only after a review that covered what its completion read: each broker
\* waived by then is revoked in the restored copy, and each grant a broker
\* still trusted has consumed, which the copy cannot reconcile, has a decision,
\* however late it was consumed, if the broker's report was applied by then
\* (activate, complete_recovery_review).  A report or a waiver that arrives
\* while the completion runs is not covered: nothing in review.rs excludes it.
RestoredSafely ==
    [][/\ \A e \in activations' \ activations :
            /\ \A n \in Nodes : trust[n].state = "active" => broker[n].seen < e
            /\ \E c \in complete :
                /\ c.epoch = e
                /\ c.waived \subseteq root[Restored].revoked
                /\ \A n \in c.applied :
                    trust[n].state = "active" /\ broker[n].grant = "consumed"
                        => <<e, n>> \in decided
       /\ \A j \in DOMAIN commits' \ DOMAIN commits :
            commits'[j].served /\ commits'[j].at = Restored =>
                commits'[j].epoch \in activations]_vars

\* A process whose record has been superseded does not keep the guard: it
\* gives it up, unless a database outcome is uncertain, when only its exit
\* may.
GuardFreed ==
    \A p \in Procs :
        (proc[p] # None /\ proc[p].link /\ proc[p].rec # ledger)
            ~> (proc[p] = None \/ ~proc[p].link \/ proc[p].uncertain \/ proc[p].rec = ledger)
=============================================================================
