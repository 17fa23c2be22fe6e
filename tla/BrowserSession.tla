--------------------------- MODULE BrowserSession ---------------------------
(***************************************************************************)
(* Website sessions of the broker (session_journal.rs,                     *)
(* browser_coordinator.rs).  A dispatcher thread reserves an operation in  *)
(* the session journal, consumes its grant and starts an actor; the actor  *)
(* has a private helper log in, journals the login, has a workload browser *)
(* import the cookies, and cleans all of it up.  What an actor leaves      *)
(* unfinished, or a crash of the broker cuts off, recovery of the          *)
(* dispatcher closes.                                                      *)
(*                                                                         *)
(* The journal is a memory copy and a snapshot on disk.  Helper, browser   *)
(* and website session live outside the broker and survive its crash.      *)
(* Definitions named Faulty... are not part of the specification: each is  *)
(* the named definition with one plausible bug, which a property excludes. *)
(***************************************************************************)
EXTENDS Naturals, FiniteSets

CONSTANTS
    Ops,           \* browser operations, each with a grant of its own
    LoginWindow,   \* 120 s: from reservation to the last start of a helper
    HelperLife,    \* 60 s: RuntimeMaxSec of a helper unit
    SessionMax,    \* 30 min: website session and browser unit
    Retention,     \* 24 h: RETENTION_MS of a closed record
    GrantLife,     \* 120 s: longest life of a grant for a browser session
    \* Bounds of the instance
    MaxTime,
    Scenarios      \* sets of a behaviour: operations, when their grants are
                   \* issued, their website accounts (a workload unit excludes
                   \* the same way), number of failures, operations that are
                   \* already ready

\* A grant lives shorter than the record of its operation is kept, and the
\* sessions that exist at the start have accounts of their own.
ASSUME BrowserSessionAssumption ==
    /\ {LoginWindow, HelperLife, SessionMax, Retention} \subseteq Nat \ {0}
    /\ {GrantLife, MaxTime} \subseteq Nat /\ GrantLife <= Retention
    /\ \A s \in Scenarios :
         /\ s.failures \in Nat /\ s.ops \subseteq Ops /\ s.ready \subseteq Ops
         /\ \A o \in Ops : s.granted[o] \in Nat
         /\ \A o, p \in s.ready : s.account[o] = s.account[p] => o = p

VARIABLES
    now,           \* signed controller time
    scenario,      \* the scenario of this behaviour, fixed
    candidate,     \* operations with an unused grant and an original process
    mem, disk,     \* [Ops -> SessionRecord]: journal in memory, state.json
    fenced,        \* a write failed: no transition until one succeeds
    permit,        \* live HelperSourcePermits
    actor,         \* [Ops -> local state of run_actor and of its slot]
    started,       \* startup_recovered
    terminated,    \* operations whose processes are known stopped
    pass,          \* recovery pass of the dispatcher thread
    published,     \* operations whose closure is queued for the controller
    helper,        \* [Ops -> private helper unit]
    site,          \* [Ops -> end of the live website session, or 0]
    browser,       \* [Ops -> workload browser unit]
    failures       \* crashes, failed writes and failed calls that may follow

records == <<mem, disk, fenced, permit>>
journal == <<records, failures>>
world == <<helper, site, browser>>
dispatcher == <<started, terminated, pass>>
vars == <<now, scenario, candidate, journal, actor, dispatcher, published, world>>

-----------------------------------------------------------------------------
(* Records of the journal.  due is original_deadline_ms, which is set with *)
(* the revoke handle; 0 stands for None.                                   *)

Account == scenario.account

NoRecord == [state |-> "none", born |-> 0, helper |-> FALSE, handle |-> FALSE,
             due |-> 0, browser |-> FALSE, closed |-> 0]
Unfinished == {"reserved", "active", "revoking", "blocked"}
Pending == {o \in Ops : mem[o].state \in Unfinished}

ReleaseAfter == LoginWindow + SessionMax + HelperLife

Reserved == [NoRecord EXCEPT !.state = "reserved", !.born = now]
InWindow(r) == now - r.born <= LoginWindow
HelperPending(r) == r.state = "reserved" /\ ~r.helper /\ ~r.handle /\ InWindow(r)
LoginPending(r) == r.state = "reserved" /\ ~r.handle /\ r.helper /\ InWindow(r)
ActivationPending(r) ==
    r.state = "reserved" /\ r.helper /\ r.handle /\ r.due > now /\ InWindow(r)
\* begin_revoke and reconcile leave a closed record alone, and refuse an
\* operation without one
Revoking(r) == IF r.state \in Unfinished THEN [r EXCEPT !.state = "revoking"] ELSE r
Closed(r) ==
    [r EXCEPT !.state = "closed", !.closed = now, !.handle = FALSE,
              !.browser = FALSE, !.helper = FALSE]
Reconciled(r, revoked, stopped) ==
    IF r.state \notin Unfinished THEN r
    ELSE IF revoked /\ stopped THEN Closed(r) ELSE [r EXCEPT !.state = "blocked"]
FaultyExpired(r) == r.state \in Unfinished \ {"blocked"} /\ now >= r.born + ReleaseAfter
Expired(r) == r.state \in Unfinished /\ now >= r.born + ReleaseAfter

\* admission_blocked and the refusals of reserve
Admitted(o) ==
    /\ mem[o].state = "none"
    /\ \A p \in Pending : Account[p] # Account[o]

\* What parse_record and load demand of a snapshot
WellFormed(r) ==
    /\ r.born # 0 /\ r.born <= now
    /\ (r.state = "closed") <=> (r.closed # 0)
    /\ r.due # 0 => r.due > r.born
    /\ IF r.state = "closed" THEN ~r.handle /\ ~r.browser /\ ~r.helper
       ELSE /\ (r.due # 0) <=> r.handle
            /\ r.browser => r.handle
            /\ r.state \in {"reserved", "active"} /\ r.handle => r.helper
            /\ r.state = "active" => r.handle /\ r.browser
Loads(j) ==
    /\ \A o \in Ops : j[o].state # "none" => WellFormed(j[o])
    /\ \A o, p \in Ops : o # p /\ j[o].state \in Unfinished /\ j[p].state \in Unfinished
                            => Account[o] # Account[p]

Fails == failures > 0 /\ failures' = failures - 1
MayFail(failing) == IF failing THEN Fails ELSE UNCHANGED failures

\* persist and write_snapshot.  A failure after the rename leaves the new
\* snapshot on disk, one before it the old one; either fences the journal
\* and ends every source permit.
Saved(next, permits) ==
    /\ ~fenced
    /\ mem' = next /\ disk' = next /\ permit' = permits
    /\ UNCHANGED <<fenced, failures>>
NotSaved(base, next) ==
    /\ ~fenced
    /\ Fails
    /\ mem' = next /\ disk' \in {base, next}
    /\ fenced' = TRUE /\ permit' = {}
\* withdraw_helper_source, which precedes the refusal by effective_time of a
\* transition while the journal is fenced or there is no trusted time
Withdrawn(o) == permit \ {o}
Refused(permits) == permit' = permits /\ UNCHANGED <<mem, disk, fenced, failures>>

-----------------------------------------------------------------------------
(* The world outside the broker: units of the runtime manager and the site *)

NoUnit == [at |-> "none", since |-> 0, due |-> 0]
Unit(at) == [at |-> at, since |-> now, due |-> 0]
Alive(u) == u.at \notin {"none", "dead"}
Killed(u) == IF Alive(u) THEN [u EXCEPT !.at = "dead", !.since = 0] ELSE u
Outlived(u, life) == IF u.since + life < now + 1 THEN Killed(u) ELSE u
StopAll ==
    /\ helper' = [o \in Ops |-> Killed(helper[o])]
    /\ browser' = [o \in Ops |-> Killed(browser[o])]

\* revoke_session ends the session of the handle, revoke_account every one
SiteWithout(who) == [o \in Ops |-> IF o \in who THEN 0 ELSE site[o]]
SameAccount(o) == {p \in Ops : Account[p] = Account[o]}

\* The helper has the credential and completes its login on the website
HelperLogsIn(o) ==
    /\ helper[o].at = "armed"
    /\ helper' = [helper EXCEPT ![o].at = "answered", ![o].due = now + SessionMax]
    /\ site' = [site EXCEPT ![o] = now + SessionMax]
    /\ UNCHANGED <<now, scenario, candidate, journal, actor, dispatcher, published, browser>>

\* Units end with RuntimeMaxSec, sessions at the deadline of the website
Tick ==
    /\ now < MaxTime
    /\ now' = now + 1
    /\ helper' = [o \in Ops |-> Outlived(helper[o], HelperLife)]
    /\ browser' = [o \in Ops |-> Outlived(browser[o], SessionMax)]
    /\ site' = [o \in Ops |-> IF site[o] > now THEN site[o] ELSE 0]
    /\ UNCHANGED <<scenario, candidate, journal, actor, dispatcher, published>>

-----------------------------------------------------------------------------
(* The actor of an operation: run_actor.  Each step is one call of it; the *)
(* failure of a call before its effect is ActorFails.                      *)

NoActor == [at |-> "none", attempted |-> FALSE, identified |-> FALSE,
            revoker |-> FALSE, session |-> FALSE, connected |-> FALSE,
            stopped |-> FALSE, revoked |-> FALSE]
Working == {"authority", "journal", "send", "reply", "connect", "activate",
            "guard", "import", "ready"}
Running == {o \in Ops : actor[o].at \notin {"none", "leaving"}}
Counted == {o \in Ops : actor[o].at # "none"}

Goes(o, at) == actor' = [actor EXCEPT ![o].at = at]
\* handoff(): the grant is authorised and the deadline has not passed
Handoff(o) == now < mem[o].born + LoginWindow
Outside == <<now, scenario, candidate, dispatcher, published>>

\* Authority lost, deadline passed, or a call of the stage answers an error
ActorFails(o) ==
    /\ actor[o].at \in Working
    /\ Goes(o, "withdraw")
    /\ UNCHANGED <<Outside, journal, world>>

\* Administrator preflight, then begin_private_login, which may fail with the
\* helper started but not proved
BeginPrivateLogin(o) ==
    /\ actor[o].at = "authority" /\ Handoff(o)
    /\ \/ /\ actor' = [actor EXCEPT ![o].at = "journal", ![o].revoker = TRUE,
                                    ![o].attempted = TRUE, ![o].identified = TRUE]
          /\ helper' = [helper EXCEPT ![o] = Unit("waiting")]
          /\ UNCHANGED failures
       \/ /\ Fails
          /\ actor' = [actor EXCEPT ![o].at = "withdraw", ![o].revoker = TRUE,
                                    ![o].attempted = TRUE]
          /\ \E u \in {NoUnit, Unit("waiting")} : helper' = [helper EXCEPT ![o] = u]
    /\ UNCHANGED <<Outside, records, site, browser>>

\* helper_source_permit, given once the helper is durable
Permitted(o) == permit \union {o}
WithHelper(o) == [mem EXCEPT ![o].helper = TRUE]
FaultyRecordHelper(o) ==
    /\ actor[o].at = "journal" /\ HelperPending(mem[o])
    /\ ~fenced /\ mem' = WithHelper(o) /\ permit' = Permitted(o)
    /\ Goes(o, "send")
    /\ UNCHANGED <<Outside, disk, fenced, failures, world>>
RecordHelper(o) ==
    /\ actor[o].at = "journal" /\ HelperPending(mem[o])
    /\ \/ Saved(WithHelper(o), Permitted(o)) /\ Goes(o, "send")
       \/ NotSaved(disk, WithHelper(o)) /\ Goes(o, "withdraw")
    /\ UNCHANGED <<Outside, world>>

\* request_guarded: the permit stands and the grant is still authorised
SourceAuthorised(o) == o \in permit /\ Handoff(o)
SendSource(o) ==
    /\ actor[o].at = "send" /\ SourceAuthorised(o)
    /\ helper[o].at = "waiting"
    /\ helper' = [helper EXCEPT ![o].at = "armed"]
    /\ Goes(o, "reply")
    /\ UNCHANGED <<Outside, journal, site, browser>>

WithLogin(o) == [mem EXCEPT ![o].handle = TRUE, ![o].due = helper[o].due]
\* validate_session: a session of the recipe with an end within its limit
ValidReply(due) == due > now /\ due <= now + SessionMax
StageReply(o) ==
    /\ actor[o].at = "reply" /\ o \in permit
    /\ ValidReply(helper[o].due) /\ LoginPending(mem[o])
    /\ \/ /\ Saved(WithLogin(o), Withdrawn(o))
          /\ actor' = [actor EXCEPT ![o].at = "connect", ![o].session = TRUE]
       \/ NotSaved(disk, WithLogin(o)) /\ Goes(o, "withdraw")
    /\ UNCHANGED <<Outside, world>>

\* The supervisor's channel, prepare and prove; either of these may fail with the browser already started
PrepareBrowser(o) ==
    /\ actor[o].at = "connect" /\ Handoff(o)
    /\ \/ /\ actor' = [actor EXCEPT ![o].at = "activate", ![o].connected = TRUE]
          /\ browser' = [browser EXCEPT ![o] = Unit("running")]
          /\ UNCHANGED failures
       \/ /\ Fails
          /\ actor' = [actor EXCEPT ![o].at = "withdraw", ![o].connected = TRUE]
          /\ \E u \in {NoUnit, Unit("running")} : browser' = [browser EXCEPT ![o] = u]
    /\ UNCHANGED <<Outside, records, helper, site>>

Activated(o) == [mem EXCEPT ![o].state = "active", ![o].browser = TRUE]
Activate(o) ==
    /\ actor[o].at = "activate" /\ Handoff(o) /\ ActivationPending(mem[o])
    /\ \/ Saved(Activated(o), permit) /\ Goes(o, "guard")
       \/ NotSaved(disk, Activated(o)) /\ Goes(o, "withdraw")
    /\ UNCHANGED <<Outside, world>>

GuardContext(o) ==
    /\ actor[o].at = "guard" /\ Handoff(o)
    /\ ~fenced /\ mem[o].state = "active"
    /\ Goes(o, "import")
    /\ UNCHANGED <<Outside, journal, world>>

\* import; a failure of it or of publish afterwards ends the ready stage
ImportCookies(o) ==
    /\ actor[o].at = "import" /\ browser[o].at = "running" /\ now < mem[o].due
    /\ browser' = [browser EXCEPT ![o].at = "imported"]
    /\ Goes(o, "ready")
    /\ UNCHANGED <<Outside, journal, helper, site>>

\* Cleanup starts: public authority withdrawn, the operation cancelled, and
\* begin_revoke, whose result is ignored.
WithdrawContext(o) ==
    /\ actor[o].at = "withdraw"
    /\ Goes(o, "stop helper")
    /\ \/ Saved([mem EXCEPT ![o] = Revoking(@)], Withdrawn(o))
       \/ o \in Pending /\ NotSaved(disk, [mem EXCEPT ![o] = Revoking(@)])
       \/ Refused(Withdrawn(o))
    /\ UNCHANGED <<Outside, world>>

TerminateHelper(o) ==
    /\ actor[o].at = "stop helper"
    /\ \E done \in IF actor[o].identified THEN BOOLEAN ELSE {~actor[o].attempted} :
          /\ MayFail(actor[o].identified /\ ~done)
          /\ actor' = [actor EXCEPT ![o].at = "revoke", ![o].stopped = done]
          /\ helper' = IF actor[o].identified /\ done
                       THEN [helper EXCEPT ![o] = Killed(@)] ELSE helper
    /\ UNCHANGED <<Outside, records, site, browser>>

\* By handle when the login was journaled, for the whole account otherwise;
\* a reply may be lost
RevokeWebsite(o) ==
    /\ actor[o].at = "revoke"
    /\ \E done \in BOOLEAN, ended \in BOOLEAN :
          /\ done => ended /\ actor[o].revoker
          /\ ended => actor[o].revoker
          /\ MayFail(actor[o].revoker /\ ~done)
          /\ actor' = [actor EXCEPT ![o].at = "stop browser", ![o].revoked = done]
          /\ site' = IF ended THEN SiteWithout(IF actor[o].session THEN {o} ELSE SameAccount(o))
                     ELSE site
    /\ UNCHANGED <<Outside, records, helper, browser>>

TerminateBrowser(o) ==
    /\ actor[o].at = "stop browser"
    /\ \E done \in IF actor[o].connected THEN BOOLEAN ELSE {TRUE} :
          /\ MayFail(~done)
          /\ actor' = [actor EXCEPT ![o].at = "reconcile", ![o].stopped = @ /\ done]
          /\ browser' = IF done THEN [browser EXCEPT ![o] = Killed(@)] ELSE browser
    /\ UNCHANGED <<Outside, records, helper, site>>

\* closed_record: only a durable closure of a journaled login is reported
Reportable(j, o) == ~fenced /\ j[o].state = "closed" /\ j[o].due # 0

\* publish_browser_closure: the event pair has deterministic keys, so that
\* queueing it again changes nothing
Queued(who) == published' = published \union who
ReconciledBy(o) ==
    [mem EXCEPT ![o] = Reconciled(@, actor[o].revoked, actor[o].stopped)]
\* finish_browser_operation may be refused: the event queue is full or its
\* write fails; retry_browser_closures queues the closure later
ReconcileActor(o) ==
    /\ actor[o].at = "reconcile"
    /\ Goes(o, "leaving")
    /\ \/ /\ Saved(ReconciledBy(o), Withdrawn(o))
          /\ \/ actor[o].session /\ Reportable(mem', o) /\ Queued({o})
             \/ UNCHANGED published
       \/ o \in Pending /\ NotSaved(disk, ReconciledBy(o)) /\ UNCHANGED published
       \/ Refused(Withdrawn(o)) /\ UNCHANGED published
    /\ UNCHANGED <<now, scenario, candidate, dispatcher, world>>

\* ActorSlot::drop removes the running mark first, then the count
DropSlot(o) ==
    /\ actor[o].at = "leaving"
    /\ actor' = [actor EXCEPT ![o] = NoActor]
    /\ UNCHANGED <<Outside, journal, world>>

-----------------------------------------------------------------------------
(* The dispatcher thread.                                                  *)

NoPass == [todo |-> {}, at |-> "idle", op |-> "none", revoked |-> FALSE]
Between == pass = NoPass

\* browser_dispatch_candidates: the grant is unused, valid and authorised
Dispatchable(o) ==
    /\ o \in candidate
    /\ scenario.granted[o] <= now /\ now < scenario.granted[o] + GrantLife
\* The actor's thread; one that cannot be spawned drops the slot
Launch(o) == Goes(o, "authority") \/ UNCHANGED actor

\* prepare_browser_login: reserve, queue the provisional result and consume
\* the grant, which may be refused and leaves a record without an actor
Prepare(o) ==
    LET next == [mem EXCEPT ![o] = Reserved] IN
    \/ Saved(next, permit) /\ candidate' = candidate \ {o} /\ Launch(o)
    \/ (Saved(next, permit) \/ NotSaved(disk, next)) /\ UNCHANGED <<candidate, actor>>

Dispatch(o) ==
    /\ started /\ Between /\ ~fenced
    /\ Dispatchable(o) /\ Admitted(o)
    /\ Prepare(o)
    /\ UNCHANGED <<now, scenario, dispatcher, published, world>>

\* prune, then release_expired and the closures of what it released
Pruned == [o \in Ops |-> IF mem[o].closed # 0 /\ now >= mem[o].closed + Retention
                         THEN NoRecord ELSE mem[o]]
Released(j) == [o \in Ops |-> IF Expired(j[o]) THEN Closed(j[o]) ELSE j[o]]
Maintain ==
    /\ Between
    /\ Released(Pruned) # mem
    /\ \/ /\ Saved(Released(Pruned), {o \in permit : ~Expired(mem[o])})
          /\ \E some \in SUBSET {o \in Ops : Expired(mem[o]) /\ Reportable(mem', o)} :
                Queued(some)
       \/ Pruned # mem /\ NotSaved(disk, Pruned) /\ UNCHANGED published
       \/ Released(Pruned) # Pruned /\ NotSaved(Pruned, Released(Pruned)) /\ UNCHANGED published
    /\ UNCHANGED <<now, scenario, candidate, actor, dispatcher, world>>

TryUnfence ==
    /\ Between /\ fenced
    /\ disk' = mem /\ fenced' = FALSE
    /\ UNCHANGED <<Outside, mem, permit, failures, actor, world>>

RetryBrowserClosures ==
    /\ Between
    /\ \E o \in Ops \ published : Reportable(mem, o)
    /\ Queued({o \in Ops : Reportable(mem, o)})
    /\ UNCHANGED <<now, scenario, candidate, journal, actor, dispatcher, world>>

\* Class-wide stop before the first actor of this broker process
StartupRecovery ==
    /\ ~started
    /\ started' = TRUE
    /\ terminated' = terminated \union Pending
    /\ StopAll
    /\ UNCHANGED <<now, scenario, candidate, journal, actor, pass, published, site>>

\* No actor is counted: stop every unit, and what is pending is terminated
RecoverFull ==
    /\ started /\ Between /\ Pending # {} /\ Counted = {}
    /\ StopAll
    /\ terminated' = terminated \union Pending
    /\ pass' = [NoPass EXCEPT !.todo = Pending]
    /\ UNCHANGED <<now, scenario, candidate, journal, actor, started, published, site>>

\* Actors are running: only revoke for the records that belong to none
FaultyRecoverLight ==
    /\ started /\ Between /\ Counted # {} /\ Pending \ Running # {}
    /\ pass' = [NoPass EXCEPT !.todo = Pending \ Running]
    /\ terminated' = terminated \union (Pending \ Running)
    /\ UNCHANGED <<now, scenario, candidate, journal, actor, started, published, world>>
RecoverLight ==
    /\ started /\ Between /\ Counted # {} /\ Pending \ Running # {}
    /\ pass' = [NoPass EXCEPT !.todo = Pending \ Running]
    /\ UNCHANGED <<now, scenario, candidate, journal, actor, started, terminated, published, world>>

NextRecord(o) == [NoPass EXCEPT !.todo = pass.todo \ {o}]
\* The record is backing off, or browser_recovery_input finds no recipe,
\* trusted time or administrator credential, or the journal is fenced
RecoverSkip(o) ==
    /\ pass.at = "idle" /\ o \in pass.todo
    /\ pass' = NextRecord(o)
    /\ UNCHANGED <<now, scenario, candidate, journal, actor, started, terminated,
                   published, world>>

RecoverBegin(o) ==
    /\ pass.at = "idle" /\ o \in pass.todo
    /\ LET next == [mem EXCEPT ![o] = Revoking(@)] IN
          \/ /\ Saved(next, Withdrawn(o))
             /\ pass' = [pass EXCEPT !.at = "revoke", !.op = o]
          \/ o \in Pending /\ NotSaved(disk, next) /\ pass' = NextRecord(o)
    /\ UNCHANGED <<now, scenario, candidate, actor, started, terminated, published, world>>

RecoverRevoke ==
    /\ pass.at = "revoke"
    /\ \E done, ended \in BOOLEAN :
          /\ done => ended
          /\ MayFail(~done)
          /\ pass' = [pass EXCEPT !.at = "reconcile", !.revoked = done]
          /\ site' = IF ended THEN SiteWithout(SameAccount(pass.op)) ELSE site
    /\ UNCHANGED <<now, scenario, candidate, records, actor, started, terminated,
                   published, helper, browser>>

RecoverReconcile ==
    /\ pass.at = "reconcile"
    /\ pass' = NextRecord(pass.op)
    /\ LET o == pass.op
           next == [mem EXCEPT ![o] = Reconciled(@, pass.revoked, o \in terminated)]
       IN \/ /\ Saved(next, Withdrawn(o))
             /\ \/ Reportable(mem', o) /\ Queued({o})
                \/ UNCHANGED published
          \/ o \in Pending /\ NotSaved(disk, next) /\ UNCHANGED published
          \/ Refused(Withdrawn(o)) /\ UNCHANGED published
    /\ UNCHANGED <<now, scenario, candidate, actor, started, terminated, world>>

\* The broker dies; open_at of the next process loads the snapshot and marks
\* every unfinished record uncertain.  Original processes are not restored.
Reopened ==
    [o \in Ops |-> IF disk[o].state \in Unfinished
                   THEN [disk[o] EXCEPT !.state = "blocked"] ELSE disk[o]]
Restart ==
    /\ Fails
    /\ Loads(disk)
    /\ mem' = Reopened /\ disk' = Reopened
    /\ fenced' = FALSE /\ permit' = {} /\ candidate' = {}
    /\ actor' = [o \in Ops |-> NoActor]
    /\ started' = FALSE /\ terminated' = {} /\ pass' = NoPass
    /\ UNCHANGED <<now, scenario, published, world>>

-----------------------------------------------------------------------------
\* An operation whose actor has reached the ready stage at time 1
ReadyRecord == [NoRecord EXCEPT !.state = "active", !.born = 1, !.helper = TRUE,
                                !.handle = TRUE, !.due = 1 + SessionMax, !.browser = TRUE]
ReadyActor == [NoActor EXCEPT !.at = "ready", !.revoker = TRUE, !.attempted = TRUE,
                              !.identified = TRUE, !.session = TRUE, !.connected = TRUE]
Initially(there, absent) ==
    [o \in Ops |-> IF o \in scenario.ready THEN there ELSE absent]

Init ==
    /\ now = 1
    /\ scenario \in Scenarios
    /\ failures = scenario.failures /\ candidate = scenario.ops \ scenario.ready
    /\ mem = Initially(ReadyRecord, NoRecord) /\ disk = mem
    /\ fenced = FALSE /\ permit = {}
    /\ actor = Initially(ReadyActor, NoActor)
    /\ started = (scenario.ready # {}) /\ terminated = {} /\ pass = NoPass
    /\ published = {}
    /\ helper = Initially([at |-> "answered", since |-> 1, due |-> 1 + SessionMax], NoUnit)
    /\ site = Initially(1 + SessionMax, 0)
    /\ browser = Initially([at |-> "imported", since |-> 1, due |-> 0], NoUnit)

ActorStep(o) ==
    \/ ActorFails(o) \/ BeginPrivateLogin(o) \/ RecordHelper(o)
    \/ SendSource(o) \/ StageReply(o) \/ PrepareBrowser(o)
    \/ Activate(o) \/ GuardContext(o) \/ ImportCookies(o)
    \/ WithdrawContext(o) \/ TerminateHelper(o) \/ RevokeWebsite(o)
    \/ TerminateBrowser(o) \/ ReconcileActor(o) \/ DropSlot(o)
RecoverStep ==
    (\E o \in Ops : RecoverSkip(o) \/ RecoverBegin(o)) \/ RecoverRevoke \/ RecoverReconcile
DispatcherStep ==
    \/ \E o \in Ops : Dispatch(o)
    \/ Maintain \/ TryUnfence \/ RetryBrowserClosures \/ StartupRecovery
    \/ RecoverFull \/ RecoverLight \/ RecoverStep

Next ==
    \/ \E o \in Ops : ActorStep(o) \/ HelperLogsIn(o)
    \/ DispatcherStep \/ Tick \/ Restart

Spec == Init /\ [][Next]_vars

(* The dispatcher thread runs its loop for as long as the broker lives: it *)
(* finishes a pass, and between passes its scheduled duties come round     *)
(* however often it recovers, hence strong fairness.  Nothing is assumed   *)
(* of actors, helpers or the website.                                      *)
FairSpec ==
    /\ Spec /\ WF_vars(Tick) /\ WF_vars(RecoverStep)
    /\ SF_vars(Maintain) /\ SF_vars(TryUnfence) /\ SF_vars(RetryBrowserClosures)

-----------------------------------------------------------------------------
Gone(o) == ~Alive(helper[o]) /\ site[o] = 0 /\ ~Alive(browser[o])

(* A closed record frees its account, so when it is closed (by an actor,   *)
(* by recovery after a crash, or by release_expired without any revoke)    *)
(* neither its helper nor its browser nor its website session is alive:    *)
(* two operations never share an account (session_journal.rs, reserve,     *)
(* reconcile, release_expired).  And the controller is told so only when   *)
(* it is durable, also when the write of the closure failed or the broker  *)
(* restarted from the older snapshot.                                      *)
AccountExclusive ==
    /\ \A o \in Ops : mem[o].state = "closed" => Gone(o)
    /\ \A o, p \in Ops : o # p /\ Account[o] = Account[p] => Gone(o) \/ Gone(p)
    /\ \A o \in published : disk[o].state \in {"closed", "none"} /\ Gone(o)

(* Whatever exists outside the broker is named by an unfinished record on  *)
(* disk, so a broker that dies at any moment finds it again: the helper    *)
(* before it gets the credential, the browser before it gets the cookies;  *)
(* and the snapshot that names them is one that load accepts.              *)
JournaledFirst ==
    /\ Loads(disk)
    /\ \A o \in Ops :
        /\ helper[o].at \in {"armed", "answered"} \/ site[o] # 0 => disk[o].helper
        /\ browser[o].at = "imported" => disk[o].browser /\ disk[o].handle

(* No reservation holds its account for ever, whatever the website, the    *)
(* helper or the actor do: its record is closed, and does not stay closed  *)
(* unreported when a session was journaled.  It may be gone unreported:    *)
(* prune drops it after its retention without asking whether the closure   *)
(* was published (session_journal.rs, prune, release_expired).             *)
AccountFreed ==
    \A o \in Ops :
        o \in Pending ~> \/ mem[o].state = "none"
                         \/ mem[o].state = "closed" /\ (mem[o].due # 0 => o \in published)
=============================================================================
