--------------------------- MODULE GrantVerifier ---------------------------
(***************************************************************************)
(* The broker's grant verifier: signed controller time, accepted grants,   *)
(* the journal of consumed grants, the journal of revocation tombstones,   *)
(* the settings (policy and workload registration) a grant is bound to,    *)
(* and the queue of events for the controller.  Models                     *)
(* crates/blindpass-broker/src/grants.rs with the parts of lib.rs and      *)
(* control.rs that call it.                                                *)
(*                                                                         *)
(* Every file is a field of `disk`.  A write succeeds ("ok"), fails        *)
(* leaving the old contents ("lost"), or fails after the new contents      *)
(* reached the disk ("kept": the flush or the directory sync failed, and   *)
(* so did the repair).  The broker may stop between any two writes; a torn *)
(* record is cut off at the next start, which is the "lost" case.  The     *)
(* state lock makes every other handler atomic.                            *)
(*                                                                         *)
(* The documents that withdraw authority wholesale (policy, registration)  *)
(* share one version, `settings`; a version under which the controller     *)
(* issues nothing also stands for the revocation of the node.  There is    *)
(* one issuer epoch and one recipient key.  0 stands for an absent time.   *)
(*                                                                         *)
(* Definitions named Faulty... are not part of the specification: each is  *)
(* the named definition with one plausible bug, which a property excludes. *)
(***************************************************************************)
EXTENDS Integers, FiniteSets

CONSTANTS
  Grants,       \* grant identifiers
  Ttl,          \* expires_at_ms - issued_at_ms
  Ceiling,      \* the local ceiling of policy and registration
  ReplyDelay,   \* MAX_TIME_REPLY_DELAY_MS
  DocumentAge,  \* MAX_DOCUMENT_AGE_MS
  Tolerance,    \* CLOCK_ROLLBACK_TOLERANCE_MS
  Retention,    \* GRANT_REPLAY_RETENTION_MS and TOMBSTONE_RETENTION_MS
  MaxTime,      \* bound: ticks of the boot clock
  MaxLag,       \* bound: how far the controller clock is set back in all
  MaxSettings,  \* bound: versions of policy and registration
  MaxFailures,  \* bound: handlers with a failed write
  MaxCrashes    \* bound: crashes

ASSUME DurationAssumption ==
  /\ Ttl \in Nat \ {0} /\ Ceiling \in Nat \ {0} /\ MaxLag \in Nat
  /\ ReplyDelay \in Nat /\ DocumentAge \in Nat /\ Tolerance \in Nat

\* Both journals keep a record longer than the clock rollback that is tolerated.
ASSUME RetentionAssumption == Retention \in Nat /\ Tolerance <= Retention

\* The controller, which fences itself when its own clock is set back, never answers with a clock
\* that is behind by more than the 24 hours of the retention.
ASSUME SetBackAssumption == MaxLag <= Retention

VARIABLES
  boot,        \* the broker host's boot-time clock
  lag,         \* how far the controller's clock is behind it
  stamps,      \* by age, the times the controller can have put on a reply under way
  issued,      \* issued_at_ms of each signed grant document
  under,       \* the settings version each grant document names
  retain,      \* retain_until_ms of each signed revocation document
  up,          \* the broker is running
  trusted,     \* trusted_time
  highest,     \* highest_controller_time_ms
  accepted,    \* deadline_boottime_ms of each accepted grant
  retired,     \* grants dropped since the start
  consumed,    \* the consumption journal as read or written last
  tombstones,  \* revocations in force
  outcome,     \* the first observed result of each revocation
  acked,       \* outcomes the controller has acknowledged
  unpersisted, \* tombstones whose append has not succeeded
  settings,    \* the settings in force
  unsaved,     \* unpersisted_documents is not empty
  events,      \* pending_node_events
  deferred,    \* deferred_revocation_outcomes
  fenced,      \* pending_state_fenced
  job,         \* the step of the consumption that holds the state lock
  disk,        \* the files
  spent,       \* history: grants whose consumption was recorded
  acts,        \* history: how often the broker acted on each grant
  told,        \* history: withdrawals the relay was told are applied
  heard,       \* history: what the controller received
  forgotten,   \* history: tombstones in force only in memory when the broker stopped
  faults       \* history: failed handlers and crashes so far, for the bounds

documents == <<issued, under, retain>>
clocks == <<boot, lag, stamps>>
timing == <<trusted, highest>>
journals == <<consumed, tombstones, outcome, acked, unpersisted>>
queue == <<events, deferred, fenced>>
history == <<spent, acts, told, heard, forgotten, faults>>
vars == <<documents, clocks, up, timing, accepted, retired, journals, settings, unsaved,
          queue, job, disk, history>>

Writes == {"ok", "lost", "kept"}

\* A handler fails at the first failed write; failures are counted up to the bound.
Attempt(w) ==
  /\ w # "ok" => faults.writes < MaxFailures
  /\ faults' = IF w = "ok" THEN faults ELSE [faults EXCEPT !.writes = @ + 1]

\* What is on disk after a write of `new` over `old`.
Stored(w, old, new) == IF w = "lost" THEN old ELSE new

Least(a, b) == IF a < b THEN a ELSE b

\* The controller's clock, and the expiry of a grant in it.
Clock == boot - lag
Expiry(g) == issued[g] + Ttl

Now == [age \in 0..ReplyDelay |-> IF age = 0 THEN {Clock} ELSE {}]
NoTime == [signed |-> 0, estimate |-> 0, received |-> 0]
NoEvents == [results |-> {}, outcomes |-> [g \in Grants |-> "none"]]

\* read_locked and synchronize: the consumption journal is its file, less a torn record.
RecordsOnDisk == disk.consumed

\* RevocationJournal::open: an acknowledgement counts only beside a recorded outcome.
RevocationsOnDisk ==
  [tombstones |-> disk.tombstones, outcome |-> disk.outcome,
   acked |-> {g \in disk.acked : disk.outcome[g] # "none"}]

\* No consumption holds the state lock.
Quiet == \A g \in Grants : job[g] = "idle"
Idle == up /\ Quiet

\* persistence_fenced
Fenced == fenced \/ unsaved \/ unpersisted # {}

Init ==
  /\ boot = 1 /\ lag = 0 /\ stamps = Now
  /\ issued = [g \in Grants |-> 0]
  /\ under = [g \in Grants |-> 0]
  /\ retain = [g \in Grants |-> 0]
  /\ up = TRUE
  /\ trusted = NoTime /\ highest = 0
  /\ accepted = [g \in Grants |-> 0]
  /\ retired = {} /\ consumed = {} /\ tombstones = {} /\ acked = {} /\ unpersisted = {}
  /\ outcome = [g \in Grants |-> "none"]
  /\ settings = 1 /\ unsaved = FALSE
  /\ events = NoEvents /\ deferred = [g \in Grants |-> "none"] /\ fenced = FALSE
  /\ job = [g \in Grants |-> "idle"]
  /\ disk = [highest |-> 0, consumed |-> {}, tombstones |-> {},
             outcome |-> [g \in Grants |-> "none"], acked |-> {}, settings |-> 1,
             events |-> NoEvents]
  /\ spent = {} /\ acts = [g \in Grants |-> 0]
  /\ told = [revoked |-> {}, settings |-> 1] /\ forgotten = {}
  /\ heard = NoEvents /\ faults = [writes |-> 0, crashes |-> 0]

-----------------------------------------------------------------------------
(***************************************************************************)
(* The controller and the clocks: external to the broker.  The steps of a  *)
(* consumption after its first read neither a clock nor a document, so the *)
(* environment is taken to move before or after them.                      *)
(***************************************************************************)

Tick ==
  /\ Quiet /\ boot < MaxTime
  /\ boot' = boot + 1
  /\ stamps' = [age \in 0..ReplyDelay |-> IF age = 0 THEN {Clock + 1} ELSE stamps[age - 1]]
  /\ UNCHANGED <<documents, lag, up, timing, accepted, retired, journals, settings, unsaved,
                 queue, job, disk, history>>

\* The controller's clock is set back (beyond the tolerance, too).
SetBack ==
  /\ Quiet /\ lag < MaxLag /\ Clock > 1
  /\ lag' = lag + 1
  /\ stamps' = [stamps EXCEPT ![0] = @ \cup {Clock - 1}]
  /\ UNCHANGED <<documents, boot, up, timing, accepted, retired, journals, settings, unsaved,
                 queue, job, disk, history>>

\* A grant is signed once, under some version of the settings.
Issue(g, v) ==
  /\ Quiet /\ issued[g] = 0
  /\ issued' = [issued EXCEPT ![g] = Clock]
  /\ under' = [under EXCEPT ![g] = v]
  /\ UNCHANGED <<retain, clocks, up, timing, accepted, retired, journals, settings,
                 unsaved, queue, job, disk, history>>

\* revocation_envelope: the tombstone outlives the grant by the retention.
Revoke(g) ==
  /\ Quiet /\ issued[g] # 0 /\ retain[g] = 0
  /\ retain' = [retain EXCEPT ![g] = (IF Clock > Expiry(g) THEN Clock ELSE Expiry(g)) + Retention]
  /\ UNCHANGED <<issued, under, clocks, up, timing, accepted, retired, journals,
                 settings, unsaved, queue, job, disk, history>>

-----------------------------------------------------------------------------
(***************************************************************************)
(* Signed controller time.                                                 *)
(***************************************************************************)

\* The signed replies to a challenge sent since the broker started and since it took the last
\* reply, which answered the challenge of then.  The controller stamps the arrival of the challenge and its reply; `late` is the part of the
\* round trip, bounded by ReplyDelay, that the controller does not account for.  The reply was
\* stamped at most that long ago.
Replies ==
  UNION {{[late |-> late, time |-> t] : t \in UNION {stamps[age] : age \in 0..late}} :
           late \in {d \in 0..ReplyDelay : stamps[d] # {}}}

\* The part of the round trip that the controller did not hold counts as elapsed.
FaultyEstimate(p) == p.time

Estimate(p) == p.time + p.late

\* No rollback beyond the tolerance; the delay is bounded in Replies.
Plausible(p) ==
  /\ trusted.received # 0 =>
       Estimate(p) >= trusted.signed + (boot - trusted.received) - Tolerance
  /\ p.time + Tolerance >= highest

\* The consumption records and the tombstones that are kept at controller time t.
FaultyKeptRecords(S, t) == {g \in S : Expiry(g) > t}

KeptRecords(S, t) == {g \in S : Expiry(g) + Retention > t}

KeptTombstones(S, t) == {g \in S : retain[g] > t}

\* Accepted grants that are dropped when time t is received.
Overdue(t) == {g \in Grants : accepted[g] # 0 /\ (Expiry(g) <= t \/ accepted[g] <= boot)}

Drop(S) ==
  /\ accepted' = [g \in Grants |-> IF g \in S THEN 0 ELSE accepted[g]]
  /\ retired' = retired \cup S

\* outcomes.retain: the entries of f for members of S.
OnlyFor(f, S) == [g \in Grants |-> IF g \in S THEN f[g] ELSE "none"]

\* write_trusted_time
MarkFile(w, high) == Stored(w, disk.highest, high)

\* GrantJournal::rewrite: the journal without the records past their retention.
Compacted(w, t) == Stored(w, RecordsOnDisk, KeptRecords(RecordsOnDisk, t))

\* compact_acknowledgements: the file of acknowledged outcomes, for the tombstones kept.
CompactedAcks(w, kept) == Stored(w, disk.acked, acked \cap kept)

\* The acknowledgements (wA) and then the tombstones (wT) are rewritten.
CompactedRevocations(files, kept, wA, wT) ==
  [files EXCEPT
     !.acked = CompactedAcks(wA, kept),
     !.tombstones = Stored(wT, @, kept),
     !.outcome = Stored(wT, @, OnlyFor(outcome, kept))]

\* accept_time_reply refuses an implausible reply, which changes nothing.  Any other is
\* persisted, the three journals are pruned and overdue grants dropped: writes 1 to 4.  The
\* write that fails ends the handler (5: none does).  The consumption journal is read again
\* when its file has changed.
AcceptTimeReply(reply, failed, w) ==
  LET t == reply.time
      high == IF highest > t THEN highest ELSE t
      keptT == KeptTombstones(tombstones, t)
      prunes == keptT # tombstones
      write(n) == IF n < failed THEN "ok" ELSE IF n = failed THEN w ELSE "lost"
  IN
  /\ Idle /\ Plausible(reply)
  /\ failed = 5 <=> w = "ok"
  /\ failed \in {3, 4} => prunes
  /\ Attempt(w)
  /\ stamps' = Now
  /\ LET files == [disk EXCEPT !.highest = MarkFile(write(1), high),
                               !.consumed = Compacted(write(2), t)]
     IN  disk' = IF prunes THEN CompactedRevocations(files, keptT, write(3), write(4))
                           ELSE files
  /\ consumed' = CASE failed = 1 -> consumed
                   [] failed = 2 -> RecordsOnDisk
                   [] OTHER -> KeptRecords(RecordsOnDisk, t)
  /\ IF failed = 5 /\ prunes
       THEN /\ tombstones' = keptT
            /\ outcome' = OnlyFor(outcome, keptT)
            /\ acked' = acked \cap keptT
            /\ unpersisted' = {}
       ELSE UNCHANGED <<tombstones, outcome, acked, unpersisted>>
  /\ IF failed = 5
       THEN /\ Drop(Overdue(Estimate(reply)))
            /\ highest' = high
            /\ trusted' = [signed |-> t, estimate |-> Estimate(reply), received |-> boot]
       ELSE UNCHANGED <<accepted, retired, highest, trusted>>
  /\ UNCHANGED <<documents, boot, lag, up, settings, unsaved, queue, job,
                 spent, acts, told, heard, forgotten>>

\* trusted_controller_time_ms
HasTime == trusted.received # 0 /\ boot - trusted.received <= ReplyDelay

TrustedTime == trusted.estimate + (boot - trusted.received)

-----------------------------------------------------------------------------
(***************************************************************************)
(* Grants: acceptance, and the consumption that a workload asks for.  The  *)
(* consumption keeps the state lock from its first step to its last; the   *)
(* steps are the writes between which the broker may stop.                 *)
(***************************************************************************)

\* missing_grant_denial: the identifier is settled.
Settled(g) == g \in consumed \cup tombstones \cup retired

\* accept_grant behind the fence of the Grant document.  A refusal changes nothing here: its
\* audit event is left out.
AcceptGrant(g) ==
  /\ Idle /\ issued[g] # 0 /\ ~Fenced
  /\ HasTime
  /\ accepted[g] = 0 /\ ~Settled(g)
  /\ TrustedTime < Expiry(g)
  /\ under[g] = settings
  /\ issued[g] <= TrustedTime /\ TrustedTime - issued[g] <= DocumentAge
  /\ accepted' = [accepted EXCEPT ![g] = boot + Least(Expiry(g) - TrustedTime, Ceiling)]
  /\ UNCHANGED <<documents, clocks, up, timing, retired, journals, settings, unsaved, queue,
                 job, disk, history>>

\* persist_pending_node_events with the rollback of its callers: `new` is queued or `old`
\* remains, and a failed write raises the fence.
SaveEvents(w, new, old) ==
  /\ events' = IF w = "ok" THEN new ELSE old
  /\ disk' = [disk EXCEPT !.events = Stored(w, @, new)]
  /\ fenced' = (w # "ok")

\* queue_operation_result: the queue with an uncertain result of g.
Announced(g) == [events EXCEPT !.results = @ \cup {<<g, "uncertain">>}]

\* validate_consumption, for the workload the grant names.
Consumable(g) == accepted[g] # 0 /\ under[g] = settings /\ boot < accepted[g]

\* process_workload, "consume:": the result is queued as uncertain before anything is consumed.
ConsumeStart(g, w) ==
  /\ Idle /\ ~Fenced /\ HasTime
  /\ Consumable(g)
  /\ Attempt(w)
  /\ SaveEvents(w, Announced(g), events)
  /\ job' = [job EXCEPT ![g] = IF w = "ok" THEN "queued" ELSE "idle"]
  /\ UNCHANGED <<documents, clocks, up, timing, accepted, retired, journals, settings, unsaved,
                 deferred, spent, acts, told, heard, forgotten>>

\* consume goes on when the append succeeded, and only then.
FaultyAfterAppend(w) == "recorded"

AfterAppend(w) == IF w = "ok" THEN "recorded" ELSE "refused"

\* GrantJournal::record refuses a grant on record, and otherwise appends it.  After a failed
\* append the memory may or may not have been synchronised with the file or extended.
ConsumeRecord(g, w) ==
  /\ job[g] = "queued"
  /\ IF g \in RecordsOnDisk
       THEN /\ w = "ok"
            /\ consumed' = RecordsOnDisk
            /\ job' = [job EXCEPT ![g] = "refused"]
            /\ UNCHANGED <<accepted, disk, spent>>
       ELSE /\ disk' = [disk EXCEPT !.consumed = Stored(w, @, @ \cup {g})]
            /\ job' = [job EXCEPT ![g] = AfterAppend(w)]
            /\ IF w = "ok"
                 THEN /\ consumed' = RecordsOnDisk \cup {g}
                      /\ accepted' = [accepted EXCEPT ![g] = 0]
                      /\ spent' = spent \cup {g}
                 ELSE /\ consumed' \in {consumed, RecordsOnDisk, disk'.consumed}
                      /\ UNCHANGED <<accepted, spent>>
  /\ Attempt(w)
  /\ UNCHANGED <<documents, clocks, up, timing, retired, tombstones, outcome, acked,
                 unpersisted, settings, unsaved, queue, acts, told, heard, forgotten>>

\* withdraw_pending_events: nothing was consumed, the provisional result goes.
Withdraw(g, w) ==
  LET kept == [events EXCEPT !.results = @ \ {<<g, "uncertain">>}] IN
  /\ job[g] = "refused"
  /\ Attempt(w)
  /\ SaveEvents(w, kept, kept)
  /\ job' = [job EXCEPT ![g] = "idle"]
  /\ UNCHANGED <<documents, clocks, up, timing, accepted, retired, journals, settings, unsaved,
                 deferred, spent, acts, told, heard, forgotten>>

\* noop_marker::create_in: the act itself; when it fails it may have happened or not.
ActOnGrant(g) ==
  /\ job[g] = "recorded"
  /\ \/ /\ acts' = [acts EXCEPT ![g] = @ + 1]
        /\ job' = [job EXCEPT ![g] = "acted"]
     \/ /\ acts' \in {acts, [acts EXCEPT ![g] = @ + 1]}
        /\ job' = [job EXCEPT ![g] = "idle"]
  /\ UNCHANGED <<documents, clocks, up, timing, accepted, retired, journals, settings, unsaved,
                 queue, disk, spent, told, heard, forgotten, faults>>

\* update_operation_result: the queued result becomes "completed".
Complete(g, w) ==
  /\ job[g] = "acted"
  /\ Attempt(w)
  /\ SaveEvents(w, [events EXCEPT !.results = (@ \ {<<g, "uncertain">>}) \cup {<<g, "completed">>}],
                events)
  /\ job' = [job EXCEPT ![g] = "idle"]
  /\ UNCHANGED <<documents, clocks, up, timing, accepted, retired, journals, settings, unsaved,
                 deferred, spent, acts, told, heard, forgotten>>

-----------------------------------------------------------------------------
(***************************************************************************)
(* Controller documents that withdraw authority.  They take effect in      *)
(* memory before they are written, and in any state of the fence.          *)
(***************************************************************************)

NoOutcomes == [g \in Grants |-> "none"]

\* revocation_outcome: the outcome on record, or what a revocation changes now.
RevocationOutcome(g) ==
  CASE outcome[g] # "none" -> outcome[g]
    [] outcome[g] = "none" /\ accepted[g] # 0 -> "revoked_before_consumption"
    [] outcome[g] = "none" /\ accepted[g] = 0 /\ g \in consumed -> "already_consumed"
    [] OTHER -> "not_received"

\* The queue with the deferred outcomes moved into it.
WithOutcomes(e, d) ==
  [e EXCEPT !.outcomes = [g \in Grants |-> IF d[g] # "none" THEN d[g] ELSE @[g]]]

\* RevocationJournal::record: in force at once, and owed to the file until the append (w)
\* has succeeded.
RecordTombstone(g, result, w) ==
  /\ tombstones' = tombstones \cup {g}
  /\ outcome' = [outcome EXCEPT ![g] = result]
  /\ unpersisted' = IF w = "ok" THEN unpersisted \ {g} ELSE unpersisted \cup {g}

\* apply_grant_revocation: retire, append the tombstone (wT) and queue the outcome (wE).  When
\* the queue cannot be saved the outcome stays deferred and the overflow flag is saved (wF),
\* which rewrites the old queue and may lift the fence; a flag that is set is not saved again
\* ("lost").  The relay is told OK only for a durable tombstone.
ApplyRevocation(g, wT, wE, wF) ==
  LET new == g \notin tombstones
      appends == new \/ g \in unpersisted
      result == RevocationOutcome(g)
      queues == /\ new \/ g \notin acked
                /\ events.outcomes[g] = "none" /\ deferred[g] = "none"
      waiting == [deferred EXCEPT ![g] = result]
      all == WithOutcomes(events, waiting)
      flags == queues /\ wE # "ok"
  IN
  /\ Idle /\ retain[g] # 0
  /\ ~appends => wT = "ok"
  /\ ~queues => wE = "ok"
  /\ ~flags => wF = "ok"
  /\ Attempt(IF wT = "ok" THEN wE ELSE wT)
  /\ Drop({h \in {g} : accepted[h] # 0})
  /\ RecordTombstone(g, result, wT)
  /\ events' = IF queues /\ wE = "ok" THEN all ELSE events
  /\ deferred' = CASE ~queues -> deferred
                   [] queues /\ wE = "ok" -> NoOutcomes
                   [] OTHER -> waiting
  /\ fenced' = IF queues THEN flags /\ wF # "ok" ELSE fenced
  /\ disk' = [disk EXCEPT
       !.tombstones = IF appends THEN Stored(wT, @, @ \cup {g}) ELSE @,
       !.outcome[g] = IF appends THEN Stored(wT, @, result) ELSE @,
       !.events = LET queued == IF queues THEN Stored(wE, @, all) ELSE @
                  IN  IF flags THEN Stored(wF, queued, events) ELSE queued]
  /\ told' = IF wT = "ok" THEN [told EXCEPT !.revoked = @ \cup {g}] ELSE told
  /\ UNCHANGED <<documents, clocks, up, timing, consumed, acked, settings, unsaved, job,
                 spent, acts, heard, forgotten>>

\* apply_fleet_policy and apply_fleet_registration with persist_or_fence: a newer version
\* retires the accepted grants at once.
ApplySettings(v, w) ==
  /\ Idle /\ v > settings
  /\ Attempt(w)
  /\ Drop({g \in Grants : accepted[g] # 0 /\ under[g] # v})
  /\ settings' = v
  /\ unsaved' = (w # "ok")
  /\ disk' = [disk EXCEPT !.settings = Stored(w, @, v)]
  /\ told' = IF w = "ok" THEN [told EXCEPT !.settings = v] ELSE told
  /\ UNCHANGED <<documents, clocks, up, timing, journals, queue, job, spent, acts, heard,
                 forgotten>>

\* The version in force again: `changed` is false, nothing is written, the answer is OK.
RepeatSettings ==
  /\ Idle /\ told.settings < settings
  /\ told' = [told EXCEPT !.settings = settings]
  /\ UNCHANGED <<documents, clocks, up, timing, accepted, retired, journals, settings, unsaved,
                 queue, job, disk, spent, acts, heard, forgotten, faults>>

\* retry_pending_persistence, which begins the handling of every document and every pull of
\* events.  Each of its writes may fail, so a handler taken without this action is one whose
\* retry failed.
RetryEvents(w) ==
  /\ Idle /\ fenced
  /\ Attempt(w)
  /\ SaveEvents(w, events, events)
  /\ UNCHANGED <<documents, clocks, up, timing, accepted, retired, journals, settings, unsaved,
                 deferred, job, spent, acts, told, heard, forgotten>>

RetrySettings(w) ==
  /\ Idle /\ unsaved
  /\ Attempt(w)
  /\ unsaved' = (w # "ok")
  /\ disk' = [disk EXCEPT !.settings = Stored(w, @, settings)]
  /\ UNCHANGED <<documents, clocks, up, timing, accepted, retired, journals, settings, queue,
                 job, spent, acts, told, heard, forgotten>>

RetryTombstone(g, w) ==
  /\ Idle /\ g \in unpersisted
  /\ Attempt(w)
  /\ unpersisted' = IF w = "ok" THEN unpersisted \ {g} ELSE unpersisted
  /\ disk' = [disk EXCEPT !.tombstones = Stored(w, @, @ \cup {g}),
                          !.outcome[g] = Stored(w, @, outcome[g])]
  /\ UNCHANGED <<documents, clocks, up, timing, accepted, retired, consumed, tombstones,
                 outcome, acked, settings, unsaved, queue, job, spent, acts, told, heard,
                 forgotten>>

-----------------------------------------------------------------------------
(***************************************************************************)
(* Events on their way to the controller, and their acknowledgement.  The  *)
(* controller may acknowledge late and more than once.                     *)
(***************************************************************************)

\* An uncertain result left over from an earlier run reads like any other.
Reads(r) == IF r[2] = "stray" THEN <<r[1], "uncertain">> ELSE r

\* PULL_EVENTS: refused behind the fence of the queue; deferred outcomes are queued first.
PullEvents(w) ==
  LET all == WithOutcomes(events, deferred) IN
  /\ Idle /\ ~fenced
  /\ IF deferred = NoOutcomes
       THEN w = "ok" /\ UNCHANGED <<queue, disk>>
       ELSE /\ SaveEvents(w, all, events)
            /\ deferred' = IF w = "ok" THEN NoOutcomes ELSE deferred
  /\ Attempt(w)
  /\ heard' = IF w # "ok" THEN heard
              ELSE [WithOutcomes(heard, all.outcomes) EXCEPT
                      !.results = @ \cup {Reads(r) : r \in all.results}]
  /\ UNCHANGED <<documents, clocks, up, timing, accepted, retired, journals, settings, unsaved,
                 job, spent, acts, told, forgotten>>

\* restore_revocation_outcomes: outcomes on record, not acknowledged and not queued.
Restored(out, ack, e, d) ==
  [g \in Grants |->
     IF out[g] # "none" /\ g \notin ack /\ e.outcomes[g] = "none" THEN out[g] ELSE d[g]]

\* acknowledge_node_events, after the journal has recorded the acknowledged outcomes `ack`:
\* the events `rest` remain, the deferred outcomes join them, and the queue is saved.
SaveAcknowledged(w, rest, ack) ==
  /\ SaveEvents(w, WithOutcomes(rest, Restored(outcome, ack, rest, deferred)), events)
  /\ deferred' = IF w = "ok" THEN NoOutcomes ELSE deferred

AckResult(r, w) ==
  /\ Idle /\ r \in events.results /\ Reads(r) \in heard.results
  /\ Attempt(w)
  /\ SaveAcknowledged(w, [events EXCEPT !.results = @ \ {r}], acked)
  /\ UNCHANGED <<documents, clocks, up, timing, accepted, retired, journals, settings, unsaved,
                 job, spent, acts, told, heard, forgotten>>

\* The acknowledgement of an outcome is appended to the journal (wA) before its event goes.
AckOutcome(g, wA, w) ==
  /\ Idle /\ events.outcomes[g] # "none" /\ heard.outcomes[g] # "none"
  /\ wA # "ok" => w = "lost"
  /\ Attempt(w)
  /\ LET rest == [events EXCEPT !.outcomes[g] = "none"]
         ack == IF outcome[g] # "none" THEN acked \cup {g} ELSE acked
         onDisk == Stored(wA, disk.acked, disk.acked \cup (ack \ acked))
         all == WithOutcomes(rest, Restored(outcome, ack, rest, deferred))
     IN
     /\ ack = acked => wA = "ok"
     /\ IF wA = "ok"
          THEN /\ acked' = ack
               /\ events' = IF w = "ok" THEN all ELSE events
               /\ deferred' = IF w = "ok" THEN NoOutcomes ELSE deferred
               /\ fenced' = (w # "ok")
               /\ disk' = [disk EXCEPT !.acked = onDisk, !.events = Stored(w, @, all)]
          ELSE /\ disk' = [disk EXCEPT !.acked = onDisk]
               /\ UNCHANGED <<acked, queue>>
  /\ UNCHANGED <<documents, clocks, up, timing, accepted, retired, consumed, tombstones,
                 outcome, unpersisted, settings, unsaved, job, spent, acts, told, heard,
                 forgotten>>

-----------------------------------------------------------------------------
(***************************************************************************)
(* The broker process.                                                     *)
(***************************************************************************)

\* The process stops between two writes; its memory is gone.
Crash ==
  /\ up /\ faults.crashes < MaxCrashes
  /\ faults' = [faults EXCEPT !.crashes = @ + 1]
  /\ up' = FALSE
  /\ trusted' = NoTime /\ highest' = 0
  /\ accepted' = [g \in Grants |-> 0] /\ retired' = {}
  /\ consumed' = {} /\ tombstones' = {} /\ acked' = {} /\ unpersisted' = {}
  /\ outcome' = NoOutcomes
  /\ unsaved' = FALSE
  /\ events' = NoEvents /\ deferred' = NoOutcomes /\ fenced' = FALSE
  /\ job' = [g \in Grants |-> "idle"]
  /\ forgotten' = forgotten \cup (unpersisted \ disk.tombstones)
  /\ UNCHANGED <<documents, clocks, settings, disk, spent, acts, told, heard>>

\* configure_grant_storage and restore_controller_documents: the files are read, outcomes that
\* are on record but not queued are queued again, and a failure to save them ends the start.
Restart(w) ==
  LET read == [disk.events EXCEPT
                 !.results = {IF r[2] = "uncertain" THEN <<r[1], "stray">> ELSE r : r \in @}]
      file == RevocationsOnDisk
      missing == Restored(file.outcome, file.acked, read, NoOutcomes)
      all == WithOutcomes(read, missing)
  IN
  /\ ~up
  /\ missing = NoOutcomes => w = "ok"
  /\ Attempt(w)
  /\ disk' = [disk EXCEPT !.events = Stored(w, read, all)]
  /\ IF w = "ok"
       THEN /\ up' = TRUE
            /\ stamps' = Now
            /\ highest' = disk.highest
            /\ consumed' = RecordsOnDisk
            /\ tombstones' = file.tombstones /\ outcome' = file.outcome
            /\ acked' = file.acked
            /\ settings' = disk.settings
            /\ events' = all
       ELSE UNCHANGED <<up, stamps, highest, consumed, tombstones, outcome, acked, settings, events>>
  /\ UNCHANGED <<documents, boot, lag, trusted, accepted, retired, unpersisted, unsaved,
                 deferred, fenced, job, spent, acts, told, heard, forgotten>>

Next ==
  \/ Tick \/ SetBack
  \/ \E g \in Grants : Revoke(g) \/ AcceptGrant(g) \/ ActOnGrant(g)
  \/ \E g \in Grants, v \in 1..MaxSettings : Issue(g, v)
  \/ RepeatSettings \/ Crash
  \/ \E w \in Writes :
       \/ \E reply \in Replies, failed \in 1..5 : AcceptTimeReply(reply, failed, w)
       \/ \E v \in 2..MaxSettings : ApplySettings(v, w)
       \/ RetryEvents(w) \/ RetrySettings(w) \/ PullEvents(w) \/ Restart(w)
       \/ \E g \in Grants :
            \/ ConsumeStart(g, w) \/ ConsumeRecord(g, w) \/ Withdraw(g, w) \/ Complete(g, w)
            \/ RetryTombstone(g, w)
            \/ \E wE, wF \in Writes : ApplyRevocation(g, w, wE, wF)
            \/ \E wA \in Writes : AckOutcome(g, wA, w)
            \/ \E status \in {"stray", "uncertain", "completed"} : AckResult(<<g, status>>, w)

Spec == Init /\ [][Next]_vars

-----------------------------------------------------------------------------
(***************************************************************************)
(* Properties.                                                             *)
(***************************************************************************)

\* The state of each grant as the controller sees it.
ContractState ==
  [g \in Grants |-> IF g \in spent THEN "spent"
                    ELSE IF g \in told.revoked THEN "dead"
                    ELSE IF up /\ accepted[g] # 0 THEN "held" ELSE "none"]

\* The broker keeps its contract with the controller across crashes, failed writes, journal
\* compaction and a controller clock that is set back (GrantJournal::record and prune,
\* RevocationJournal::record and prune, accept_time_reply).
Contract == INSTANCE GrantContract WITH state <- ContractState

OneUseContract == Contract!ContractSpec

\* When the broker decides to consume, the grant has not expired by the controller's own clock,
\* its revocation has not been answered as applied, and no newer settings are on disk
\* (accept_time_reply's estimate, accept_grant, persistence_fenced).
AuthorityInForce ==
  [][\A g \in Grants : job[g] = "idle" /\ job'[g] = "queued" =>
       /\ Clock < Expiry(g)
       /\ g \notin told.revoked
       /\ under[g] = disk.settings]_vars

\* What the broker acted on is reported: a result is in the durable queue or has reached the
\* controller; and a result is "completed" only when the broker acted (process_workload).
UsedIsReported ==
  \A g \in Grants :
    LET reported == {r[2] : r \in {q \in disk.events.results \cup heard.results : q[1] = g}} IN
    /\ acts[g] > 0 => reported # {}
    /\ "completed" \in reported => acts[g] = 1

\* An outcome that reached the controller is true: a grant reported as revoked before its
\* consumption is never spent, and one reported as never received is not spent unless the
\* record of its consumption was past its retention when the revocation came.  The exception
\* is a broker that stopped while the tombstone was in memory only (revocation_outcome,
\* apply_grant_revocation, GrantJournal::prune).
OutcomeTrue ==
  \A g \in spent \ forgotten :
    /\ heard.outcomes[g] # "revoked_before_consumption"
    /\ heard.outcomes[g] = "not_received" => Expiry(g) + Retention <= boot

\* The controller can rely on what it hears: nothing used goes unreported and no outcome
\* turns out false (process_workload, revocation_outcome).
ReportsTrue == UsedIsReported /\ OutcomeTrue
=============================================================================
