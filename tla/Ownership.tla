----------------------------- MODULE Ownership -----------------------------
(***************************************************************************)
(* Who may serve a controller's state.  An independent ledger, one row of  *)
(* epoch, revision and phase (deploy/controller/recovery-authority.sql),   *)
(* says which copy of the database may be served; a controller process     *)
(* holds the ledger's guard row through one connection for as long as it   *)
(* runs (recovery_authority.rs), checks the row around every database      *)
(* boundary (store/mod.rs run_owned), and each start consumes a revision.  *)
(* A handoff (handoff.rs) moves the state to another root, with a marker   *)
(* that retires the source and one that admits the destination once; a     *)
(* restore (restore.rs, store/recovery.rs) builds a copy from a backup     *)
(* under a new epoch.                                                      *)
(*                                                                         *)
(* A copy is its epoch, its markers and the set of writes it contains.     *)
(* One step per call that another process or an administrator can come     *)
(* between; the evidence that a restored copy needs before it may serve is *)
(* in module Recovery.  Definitions named Faulty... are not part of the    *)
(* specification: each is the named definition with one plausible bug,     *)
(* which a property excludes.                                              *)
(***************************************************************************)
EXTENDS Naturals, Sequences, FiniteSets, TLC

CONSTANTS
    Procs,          \* controller processes and maintenance commands
    Source,         \* the root the state starts in
    Destinations,   \* roots an import may publish
    Restored        \* root (or empty target database) of a restore

VARIABLES
    ledger,         \* recovery_authority row: epoch, revision, phase
    used,           \* active_process rows: revisions a start has consumed
    activations,    \* recovery_activations rows: epochs activated
    proc,           \* [Procs -> process, or None]
    root,           \* [Roots -> copy of the state, or None]
    packages,       \* exported archives and whether their receipt exists
    backup,         \* an ordinary backup, or None
    commits,        \* history: every served write
    starts, faults, \* processes started, connections lost
    scenario        \* what is run in this behaviour, and its bounds

copies == <<root, packages, backup>>
ownershipVars == <<ledger, used, activations, proc, copies, commits, starts, faults>>

None == [none |-> TRUE]
Roots == {Source, Restored} \cup Destinations

NoMarker == [kind |-> "none", revision |-> 0, attempted |-> FALSE]
NoRecovery == [target |-> 0, revision |-> 0, phase |-> "none", bound |-> FALSE]
Copy(epoch, log) ==
    [epoch |-> epoch, log |-> log, marker |-> NoMarker, recovery |-> NoRecovery,
     published |-> TRUE, applied |-> {}, revoked |-> {}, stray |-> FALSE]

-----------------------------------------------------------------------------
(* The ledger. *)

\* The guard row is locked by the transaction of a process's connection.
Guarded == \E p \in Procs : proc[p] # None /\ proc[p].link

\* protect_recovery_authority: a transition raises the revision by one; only
\* a fence is allowed while the guard is held.
Transition(epoch, phase) ==
    /\ ledger.revision < scenario.revisions
    /\ phase # "fenced" => ~Guarded
    /\ ledger' = [epoch |-> epoch, revision |-> ledger.revision + 1, phase |-> phase]

\* What the procedures ask of the administrator: run a command only once the
\* previous controller is stopped.  A connection that is lost frees the guard
\* at once; the process notices at its next check, at most a second later.
\* A maintenance command that lost it has ended.
Stopped ==
    \A p \in Procs : proc[p] # None =>
        proc[p].link \/ (proc[p].job = "serve" /\ proc[p].fenced /\ proc[p].ops = 0)

ActivatePlain ==
    /\ ledger.phase \in {"fenced", "active"}
    /\ Stopped
    /\ Transition(ledger.epoch, "active")
    /\ UNCHANGED <<used, activations, proc, copies, commits, starts, faults>>

FencePlain ==
    /\ ledger.phase \in {"active", "recovering"}
    /\ Transition(ledger.epoch, "fenced")
    /\ UNCHANGED <<used, activations, proc, copies, commits, starts, faults>>

-----------------------------------------------------------------------------
(* A process and its hold on the guard. *)

\* check: the live connection still reads the record it claimed.
Check(q) == q.link /\ ~q.fenced /\ q.rec = ledger

FaultyKeepsConnection(q) == q.link

\* A fenced process gives its connection up once admitted work has ended,
\* unless a database outcome is uncertain: then only its exit does.
KeepsConnection(q) == q.link /\ ~(q.fenced /\ q.ops = 0 /\ ~q.uncertain)
SetProc(p, q) == proc' = [proc EXCEPT ![p] = [q EXCEPT !.link = KeepsConnection(q)]]

\* fence: the latch is never reset.
Fence(p) == SetProc(p, [proc[p] EXCEPT !.fenced = TRUE])

\* register_active_process: an active revision admits one start, for ever.
RegisterActive ==
    /\ ledger.phase = "active" => ledger.revision \notin used
    /\ used' = IF ledger.phase = "active" THEN used \cup {ledger.revision} ELSE used

\* What each command and the server ask of the record they read.
JobAllowed(job, r) ==
    /\ job \in {"export", "abort", "import", "maintain"} => ledger.phase = "fenced" /\ Stopped
    /\ job = "restore" => ledger.phase = "recovering" /\ Stopped
    /\ job = "serve" => /\ ledger.phase \in {"active", "recovering"}
                        /\ root[r] # None /\ root[r].published

\* claim_process: the guard is free and the record is the one just read.
Claim(p, job, r) ==
    /\ proc[p] = None
    /\ starts < scenario.starts
    /\ ~Guarded
    /\ JobAllowed(job, r)
    /\ RegisterActive
    /\ starts' = starts + 1
    /\ proc' = [proc EXCEPT ![p] =
        [job |-> job, at |-> r, id |-> starts + 1, rec |-> ledger, link |-> TRUE,
         fenced |-> FALSE, ops |-> 0, uncertain |-> FALSE, stage |-> "claimed",
         latch |-> FALSE, saved |-> {}]]
    /\ UNCHANGED <<ledger, activations, copies, commits, faults>>

\* The monitor, or any other check, finds the record moved or the connection
\* gone.
Monitor(p) ==
    /\ proc[p] # None
    /\ ~proc[p].fenced
    /\ ~Check(proc[p])
    /\ Fence(p)
    /\ UNCHANGED <<ledger, used, activations, copies, commits, starts, faults>>

\* The connection to the authority is lost; the process does not know yet.
Disconnect(p) ==
    /\ proc[p] # None /\ proc[p].link
    /\ faults < scenario.faults
    /\ faults' = faults + 1
    /\ proc' = [proc EXCEPT ![p].link = FALSE]
    /\ UNCHANGED <<ledger, used, activations, copies, commits, starts>>

-----------------------------------------------------------------------------
(* Serving. *)

\* A write in the copy: it holds every earlier write of that copy.
Land(p) ==
    LET q == proc[p]
        n == Len(commits) + 1
    IN  /\ commits' = Append(commits,
            [epoch |-> q.rec.epoch, revision |-> q.rec.revision, by |-> q.id,
             at |-> q.at, served |-> q.rec.phase = "active", seen |-> root[q.at].log,
             retired |-> root[q.at].marker.kind = "source", stray |-> root[q.at].stray])
        /\ root' = [root EXCEPT ![q.at].log = @ \cup {n}]

Retired(r) == root[r].marker.kind = "source"

FaultyDestinationAdmits(r, rec) ==
    LET m == root[r].marker
    IN  m.kind = "destination" => rec.revision > m.revision

\* guard_destination_start: the first active start of an imported root holds
\* the revision after the export, a later attempt any revision beyond it.
DestinationAdmits(r, rec) ==
    LET m == root[r].marker
    IN  m.kind = "destination" =>
            IF m.attempted THEN rec.revision > m.revision + 1
                           ELSE rec.revision = m.revision + 1

\* connect_existing_owned up to the store: refusals fence; the attempt is
\* recorded before the store is touched; opening is counted database work.
\* Nothing asks whether the handoff that staged the root was aborted since:
\* history stray says so.
OpenBegin(p) ==
    LET q == proc[p]
        active == q.rec.phase = "active"
        admitted == ~Retired(q.at) /\ (active => DestinationAdmits(q.at, q.rec))
    IN  /\ q # None
        /\ q.job = "serve" /\ q.stage = "claimed" /\ ~q.fenced
        /\ root' = IF active /\ admitted /\ root[q.at].marker.kind = "destination"
                   THEN [root EXCEPT ![q.at].marker.attempted = TRUE,
                                     ![q.at].stray = @ \/ ~Retired(Source)]
                   ELSE root
        /\ IF admitted /\ Check(q)
           THEN SetProc(p, [q EXCEPT !.stage = "opening", !.ops = IF active THEN 1 ELSE 0])
           ELSE Fence(p)
        /\ UNCHANGED <<ledger, used, activations, packages, backup, commits, starts, faults>>

\* recovery_concluded: a restored copy is served only under the activation of
\* its own epoch.
Concluded(r, rec) ==
    LET v == root[r].recovery
    IN  v.phase = "invalidated" /\ rec.phase = "active" /\ rec.epoch = v.target
            /\ rec.epoch \in activations

\* The store opens: its epoch must be the record's; a recovery that is not
\* concluded latches it; an adopted destination loses its marker.
OpenFinish(p) ==
    LET q == proc[p]
        c == root[q.at]
        latch == c.recovery.phase # "none" /\ ~Concluded(q.at, q.rec)
    IN  /\ q # None
        /\ q.stage = "opening" /\ ~q.fenced
        /\ IF c.epoch = q.rec.epoch
           THEN /\ SetProc(p, [q EXCEPT !.stage = "open", !.ops = 0, !.latch = latch])
                /\ root' = IF q.rec.phase = "active" /\ c.marker.kind = "destination"
                           THEN [root EXCEPT ![q.at].marker = NoMarker] ELSE root
           ELSE SetProc(p, [q EXCEPT !.fenced = TRUE, !.ops = 0]) /\ UNCHANGED root
        /\ UNCHANGED <<ledger, used, activations, packages, backup, commits, starts, faults>>

\* run_owned: not latched, active, checked, the store still at the record's
\* epoch, then counted.
Admit(p) ==
    LET q == proc[p]
    IN  /\ q # None
        /\ q.stage = "open" /\ q.job = "serve"
        /\ ~q.latch /\ q.rec.phase = "active" /\ ~q.fenced
        /\ q.ops = 0 /\ Len(commits) < scenario.commits
        /\ IF Check(q) /\ root[q.at].epoch = q.rec.epoch
           THEN SetProc(p, [q EXCEPT !.ops = 1])
           ELSE Fence(p)
        /\ UNCHANGED <<ledger, used, activations, copies, commits, starts, faults>>

\* The operation commits and is acknowledged, before any fence is noticed.
Commit(p) ==
    LET q == proc[p]
    IN  /\ q # None
        /\ q.stage = "open" /\ q.ops = 1 /\ Len(commits) < scenario.commits
        /\ Land(p)
        /\ SetProc(p, [q EXCEPT !.ops = 0])
        /\ UNCHANGED <<ledger, used, activations, packages, backup, starts, faults>>

\* A fence is noticed first: the future is dropped without acknowledgement,
\* whether or not its write landed.
Drop(p) ==
    LET q == proc[p]
    IN  /\ q # None
        /\ q.fenced /\ q.ops = 1
        /\ SetProc(p, [q EXCEPT !.ops = 0, !.uncertain = TRUE])
        /\ \/ UNCHANGED <<root, commits>>
           \/ q.stage = "open" /\ Len(commits) < scenario.commits /\ Land(p)
        /\ UNCHANGED <<ledger, used, activations, packages, backup, starts, faults>>

\* The process ends, by a signal or a crash; a write in flight may land.  A
\* restore that fails before publication drops what it loaded into an empty
\* database; a crash leaves it there.
Exit(p) ==
    LET q == proc[p]
    IN  /\ q # None
        /\ proc' = [proc EXCEPT ![p] = None]
        /\ \/ UNCHANGED <<root, commits>>
           \/ q.stage = "open" /\ q.ops = 1 /\ Len(commits) < scenario.commits /\ Land(p)
           \/ /\ q.job = "restore" /\ root[q.at] # None /\ ~root[q.at].published
              /\ root' = [root EXCEPT ![q.at] = None] /\ UNCHANGED commits
        /\ UNCHANGED <<ledger, used, activations, packages, backup, starts, faults>>

-----------------------------------------------------------------------------
(* Maintenance of a stopped controller, and the handoff. *)

\* The command is done: the process quiesces and gives the guard up.
Done(p) == proc' = [proc EXCEPT ![p] = None]

Runs(p, job, stage) == proc[p] # None /\ proc[p].job = job /\ proc[p].stage = stage

\* migrate_owned, reconcile_clock_owned: never on a retired source, only on
\* the store the record names.
Maintain(p) ==
    LET q == proc[p]
    IN  /\ Runs(p, "maintain", "claimed")
        /\ root[q.at] # None
        /\ ~Retired(q.at) /\ root[q.at].epoch = q.rec.epoch /\ Check(q)
        /\ Len(commits) < scenario.commits
        /\ Land(p)
        /\ Done(p)
        /\ UNCHANGED <<ledger, used, activations, packages, backup, starts, faults>>

\* export_claimed: seal an archive of the root, or find the open handoff.
ExportSeal(p) ==
    LET q == proc[p]
        m == root[q.at].marker
    IN  /\ Runs(p, "export", "claimed")
        /\ root[q.at] # None
        /\ m.kind = "source" => m.revision = q.rec.revision
        /\ SetProc(p, [q EXCEPT !.stage = IF m.kind = "source" THEN "marked" ELSE "sealed",
                                !.saved = root[q.at].log])
        /\ UNCHANGED <<ledger, used, activations, copies, commits, starts, faults>>

\* The marker retires the source.
ExportMark(p) ==
    LET q == proc[p]
    IN  /\ Runs(p, "export", "sealed")
        /\ Check(q)
        /\ root' = [root EXCEPT ![q.at].marker =
                [kind |-> "source", revision |-> q.rec.revision, attempted |-> FALSE]]
        /\ SetProc(p, [q EXCEPT !.stage = "marked"])
        /\ UNCHANGED <<ledger, used, activations, packages, backup, commits, starts, faults>>

\* ensure_receipt completes the package.
ExportReceipt(p) ==
    LET q == proc[p]
    IN  /\ Runs(p, "export", "marked")
        /\ packages' = packages \cup
            {[epoch |-> root[q.at].epoch, revision |-> q.rec.revision, log |-> q.saved]}
        /\ Done(p)
        /\ UNCHANGED <<ledger, used, activations, root, backup, commits, starts, faults>>

\* abort_claimed: only while the record is the exported one; the package may
\* be removed or kept.
AbortAllowed(r, rec) ==
    root[r].marker.kind = "source" /\ root[r].marker.revision = rec.revision

Abort(p) ==
    LET q == proc[p]
    IN  /\ Runs(p, "abort", "claimed")
        /\ root[q.at] # None
        /\ AbortAllowed(q.at, q.rec) /\ Check(q)
        /\ root' = [root EXCEPT ![q.at].marker = NoMarker]
        /\ packages' \in {packages, {}}
        /\ Done(p)
        /\ UNCHANGED <<ledger, used, activations, backup, commits, starts, faults>>

\* import: the record is still the exported one; the root is new, and is
\* published with its marker.
Import(p) ==
    LET q == proc[p]
    IN  /\ Runs(p, "import", "claimed")
        /\ root[q.at] = None
        /\ \E g \in packages :
            /\ g.epoch = q.rec.epoch /\ g.revision = q.rec.revision
            /\ Check(q)
            /\ root' = [root EXCEPT ![q.at] =
                [Copy(g.epoch, g.log) EXCEPT !.marker =
                    [kind |-> "destination", revision |-> g.revision, attempted |-> FALSE]]]
        /\ Done(p)
        /\ UNCHANGED <<ledger, used, activations, packages, backup, commits, starts, faults>>

-----------------------------------------------------------------------------
(* Restore of a backup into a new copy.  The steps are those of a restore  *)
(* into a database, which are visible if the command dies between them.    *)

\* collect_snapshot_info: what one transaction of the store reads.
Snapshot(r) == [epoch |-> root[r].epoch, log |-> root[r].log]

Backup(r) ==
    /\ backup = None /\ scenario.restores /\ root[r] # None
    /\ backup' = Snapshot(r)
    /\ UNCHANGED <<ledger, used, activations, proc, root, packages, commits, starts, faults>>

\* A restore that died leaves its target behind: the next one takes another.
TargetEmpty(r) == root[r] # None => ~root[r].published

\* The target is empty; the reserved epoch is beyond the backup's.
RestoreLoad(p) ==
    LET q == proc[p]
    IN  /\ Runs(p, "restore", "claimed")
        /\ backup # None /\ q.rec.epoch > backup.epoch
        /\ TargetEmpty(q.at)
        /\ Check(q)
        /\ root' = [root EXCEPT ![q.at] =
                [Copy(backup.epoch, backup.log) EXCEPT !.published = FALSE]]
        /\ SetProc(p, [q EXCEPT !.stage = "loaded"])
        /\ UNCHANGED <<ledger, used, activations, packages, backup, commits, starts, faults>>

\* prepare_recovery commits the row that latches the copy.
PrepareRecovery(p) ==
    LET q == proc[p]
    IN  /\ Runs(p, "restore", "loaded")
        /\ Check(q)
        /\ root' = [root EXCEPT ![q.at].recovery =
                [target |-> q.rec.epoch, revision |-> q.rec.revision,
                 phase |-> "prepared", bound |-> FALSE]]
        /\ SetProc(p, [q EXCEPT !.stage = "prepared"])
        /\ UNCHANGED <<ledger, used, activations, packages, backup, commits, starts, faults>>

\* bind_verified_recovery_snapshot: only while prepared.
BindSnapshot(p) ==
    LET q == proc[p]
    IN  /\ Runs(p, "restore", "prepared")
        /\ Check(q)
        /\ root' = [root EXCEPT ![q.at].recovery.bound = TRUE]
        /\ SetProc(p, [q EXCEPT !.stage = "bound"])
        /\ UNCHANGED <<ledger, used, activations, packages, backup, commits, starts, faults>>

\* invalidate_recovery: one transaction moves the epoch, ends what the
\* snapshot had open, and marks the row.
InvalidateRecovery(p) ==
    LET q == proc[p]
    IN  /\ Runs(p, "restore", "bound")
        /\ Check(q)
        /\ root' = [root EXCEPT ![q.at].epoch = q.rec.epoch,
                                ![q.at].recovery.phase = "invalidated"]
        /\ SetProc(p, [q EXCEPT !.stage = "invalidated"])
        /\ UNCHANGED <<ledger, used, activations, packages, backup, commits, starts, faults>>

PublishRestored(p) ==
    LET q == proc[p]
    IN  /\ Runs(p, "restore", "invalidated")
        /\ Check(q)
        /\ root' = [root EXCEPT ![q.at].published = TRUE]
        /\ Done(p)
        /\ UNCHANGED <<ledger, used, activations, packages, backup, commits, starts, faults>>

-----------------------------------------------------------------------------
\* Processes are interchangeable: a start takes any free one.
FreeProc == CHOOSE p \in Procs : (\E x \in Procs : proc[x] = None) => proc[p] = None

Step(p) ==
    \/ p = FreeProc /\ \E c \in scenario.commands : Claim(p, c[1], c[2])
    \/ Monitor(p) \/ Disconnect(p) \/ Exit(p)
    \/ OpenBegin(p) \/ OpenFinish(p) \/ Admit(p) \/ Commit(p) \/ Drop(p)
    \/ Maintain(p) \/ ExportSeal(p) \/ ExportMark(p) \/ ExportReceipt(p)
    \/ Abort(p) \/ Import(p)
    \/ RestoreLoad(p) \/ PrepareRecovery(p) \/ BindSnapshot(p)
    \/ InvalidateRecovery(p) \/ PublishRestored(p)

OwnershipStep ==
    \/ ActivatePlain \/ FencePlain
    \/ \E r \in Roots : Backup(r)
    \/ \E p \in Procs : Step(p)

-----------------------------------------------------------------------------
(* Properties. *)

Earlier(i, j) == i < j /\ commits[i].served /\ commits[j].served

\* The state has one history: a served write is made to a copy that holds
\* every write already served under its epoch, none is made under an epoch
\* once a later one has been served, one process alone serves a revision of
\* the ledger, and a retired source is written no more, not even by
\* maintenance.  This is what the guard, the revision a start consumes, the
\* two handoff markers and the epoch of a restore are for, across connections
\* lost, exits in the middle of an export, import, start or restore, and an
\* administrator who fences and activates at any time.  Only a destination
\* staged before an abort and started before the source (guard_destination_start)
\* writes a history of its own, and it too keeps to epochs and revisions.
OneLineage ==
    \A j \in DOMAIN commits :
        /\ ~commits[j].retired
        /\ \A i \in DOMAIN commits : Earlier(i, j) =>
            /\ commits[i].epoch <= commits[j].epoch
            /\ commits[i].epoch = commits[j].epoch =>
                i \in commits[j].seen \/ commits[i].stray \/ commits[j].stray
            /\ commits[i].revision = commits[j].revision => commits[i].by = commits[j].by

\* "Two sequential holders are kept apart by the exact authority revision"
\* (handoff.rs) and "a destination root staged before the abort can no longer
\* start" (docs/deploy/handoff.md): under one epoch a served write is made to
\* a copy that holds every write served before it.
HoldersApart ==
    \A i, j \in DOMAIN commits :
        Earlier(i, j) /\ commits[i].epoch = commits[j].epoch => i \in commits[j].seen
=============================================================================
