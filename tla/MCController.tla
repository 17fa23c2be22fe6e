---------------------------- MODULE MCController ----------------------------
(***************************************************************************)
(* The secret requests of a controller, and the ownership and recovery of  *)
(* the database they are in.  The two share no state, and a behaviour is   *)
(* one of the part it starts with: the other stands still.                 *)
(***************************************************************************)
EXTENDS SecretRequest

CONSTANTS
  Parts,                                               \* the parts to check
  Procs, Source, Destinations, Restored, Nodes, Pages  \* of Recovery

VARIABLES
  part,
  ledger, used, activations, proc, root, packages, backup, commits, starts, faults, scenario,
  trust, broker, observed, challenge, decided, waived, complete, stops, review

databaseVars ==
  <<ledger, used, activations, proc, root, packages, backup, commits, starts, faults, scenario,
    trust, broker, observed, challenge, decided, waived, complete, stops, review>>
mcVars == <<part, vars, databaseVars>>

-----------------------------------------------------------------------------
(* Recovery: a handoff to two destinations with an abort, under lost       *)
(* connections; and the recovery of a source whose backup lacks a write,   *)
(* with two brokers, one of which may hold an unreconciled grant, have     *)
(* seen a later epoch or be unable to cover the backup.                    *)

Broker(seen, grant, covers) ==
  [seen |-> seen, pin |-> seen, grant |-> grant, covers |-> covers]
Plain == Broker(1, "none", TRUE)
Fleet(b) == [n \in Nodes |-> IF n = "n1" THEN b ELSE Plain]

Alone(state) == [n \in Nodes |-> IF n = "n1" THEN state ELSE "unknown"]

Handoff(to, most, losses) ==
  [commands |-> {<<"serve", r>> : r \in {Source} \cup to}
      \cup {<<"export", Source>>, <<"abort", Source>>, <<"maintain", Source>>}
      \cup {<<"import", r>> : r \in to},
   revisions |-> 4, starts |-> most, commits |-> 2, faults |-> losses,
   restores |-> FALSE, lost |-> FALSE, said |-> {}, broker |-> Fleet(Plain),
   trust |-> Alone("unknown")]

Moved == Handoff(Destinations, 4, 1)

\* Both destinations are started, one after the other.
InTurn ==
  [Handoff(Destinations, 5, 0) EXCEPT
      !.commands = {<<"serve", r>> : r \in Destinations}
          \cup {<<"export", Source>>} \cup {<<"import", r>> : r \in Destinations}]

Restore(b, known) ==
  [commands |-> {<<"serve", r>> : r \in {Source, Restored}} \cup {<<"restore", Restored>>},
   revisions |-> 4, starts |-> 3, commits |-> 2, faults |-> 0,
   restores |-> TRUE, lost |-> TRUE, said |-> {1}, broker |-> Fleet(b),
   trust |-> known]

Short(s) ==
  [s EXCEPT !.revisions = 3, !.commands = {<<"serve", Restored>>, <<"restore", Restored>>}]

Recoveries ==
  {\* Two destinations and a lost connection; one destination and an abort after its import.
   Moved, InTurn, Handoff({"d1"}, 5, 0),
   \* A broker beyond the reserved epoch: this recovery can only be given up.
   Short(Restore(Broker(3, "none", TRUE), Alone("active"))),
   \* A broker that consumes a lost grant, with a revoked one beside it.
   [Short(Restore(Broker(1, "held", TRUE), [Alone("active") EXCEPT !["n2"] = "revoked"]))
      EXCEPT !.starts = 2],
   \* The source comes back; the broker's history does not reach the backup.
   Restore(Broker(1, "none", FALSE), Alone("active")),
   \* The backup is taken while the source serves.
   [Restore(Plain, Alone("active")) EXCEPT !.lost = FALSE, !.revisions = 3]}

Database == INSTANCE Recovery WITH Scenarios <- Recoveries

-----------------------------------------------------------------------------
(* The two side by side.                                                   *)

\* A step of one part, which leaves the other as it is.
OfRequests == part = "requests" /\ UNCHANGED <<part, databaseVars>>
OfDatabase == part = "database" /\ UNCHANGED <<part, vars>>

MCInit ==
  /\ part \in Parts
  /\ Init
  /\ Database!Init /\ (part # "database" => scenario = Moved)

MCNext == (OfRequests /\ Next) \/ (OfDatabase /\ Database!Next)

\* The fairness of each part, in the behaviours of that part.
MCFairSpec ==
  /\ MCInit /\ [][MCNext]_mcVars
  /\ WF_mcVars(OfRequests /\ Tick) /\ WF_mcVars(OfRequests /\ Sweep)
  /\ \A p \in Procs : /\ WF_mcVars(OfDatabase /\ Database!FairMonitor(p))
                      /\ WF_mcVars(OfDatabase /\ Database!FairDrop(p))

-----------------------------------------------------------------------------
(* The properties of Ownership and Recovery, which explain them.           *)

\* The state has one history: served writes, epochs and revisions follow each other in one
\* line, but for a destination staged before an abort (guard, start and handoff markers).
OneLineage == Database!OneLineage

\* Recovery is activated beyond what any trusted broker has seen and after a review of what
\* its completion read, and a restored copy serves only then (activate, complete_recovery_review).
RestoredSafely == Database!RestoredSafely

\* A process whose record has been superseded gives up the guard, unless a database
\* outcome is uncertain (the monitor of AuthorityGuard).
GuardFreed == Database!GuardFreed

\* "Two sequential holders are kept apart by the exact authority revision" (handoff.rs): under
\* one epoch a served write is made to a copy that holds every write served before it.
HoldersApart == Database!HoldersApart
=============================================================================
