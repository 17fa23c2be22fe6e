--------------------------- MODULE MCNodeChannel ---------------------------
(***************************************************************************)
(* The channel of a node, and the settings of the fleet it carries.  The   *)
(* two models share no state, and a behaviour is one of the part it starts *)
(* with: the other stands still.                                           *)
(***************************************************************************)
EXTENDS NodeChannel

CONSTANTS Workloads, Units, RuleSets, Conns, None, w1  \* of FleetSettings

VARIABLES
  part,
  policy, workload, node, conn, documents, passed, confirmed, settings, disk, unsaved, held,
  refused, lost, edits, left

settingsVars ==
  <<policy, workload, node, conn, documents, passed, confirmed, settings, disk, unsaved, held,
    refused, lost, edits, left>>
mcVars == <<part, vars, settingsVars>>

\* Two enrolments for one name; and a busy broker, under two disturbances.
Busy == [enrolments |-> {1}, events |-> {1, 2}, docs |-> 2, faults |-> 2]
MCScenes == {Busy, [enrolments |-> {1, 2}, events |-> {2}, docs |-> 1, faults |-> 1]}

-----------------------------------------------------------------------------
(* Settings: a node that is enrolled while handlers run, and one that      *)
(* already has a workload.                                                 *)

Calm == [node |-> "active", registered |-> {}, acts |-> {}, calls |-> 0, breaks |-> 0,
         faults |-> 0]

\* A first registration and a policy change race the approval of the node.
Arriving == [Calm EXCEPT !.node = "enrolling", !.acts = {"create", "policy", "grant"},
                         !.calls = 3]

\* Two workloads move between two units, with a break or a restart and failed writes.
Moving == [Calm EXCEPT !.registered = {w1}, !.acts = {"create", "update", "revoke"},
                       !.calls = 3, !.breaks = 1, !.faults = 2]

\* Grants are issued while the settings they are bound to change.
Granting == [Calm EXCEPT !.registered = {w1}, !.acts = {"create", "update", "policy", "grant"},
                         !.calls = 3]

\* The node is revoked under the handlers' feet.
Leaving == [Calm EXCEPT !.registered = {w1}, !.acts = {"update", "policy", "grant", "node"},
                        !.calls = 2, !.breaks = 1, !.faults = 1]

\* A first registration and its grant, with two failed writes and a restart.
Unwritten == [Calm EXCEPT !.acts = {"create", "grant"}, !.calls = 3, !.breaks = 1, !.faults = 2]

Fleets == {Arriving, Moving, Granting, Leaving, Unwritten}

Settings == INSTANCE FleetSettings WITH
  Scenarios <- Fleets, inbox <- documents, acked <- confirmed, broker <- settings

ASSUME ScenariosAssumption == Settings!FleetSettingsAssumption

-----------------------------------------------------------------------------
(* The two side by side.                                                   *)

\* A step of one part, which leaves the other as it is.
OfChannel == part = "channel" /\ UNCHANGED <<part, settingsVars>>
OfSettings == part = "settings" /\ UNCHANGED <<part, vars>>

MCInit ==
  /\ part \in {"channel", "settings"}
  /\ Init /\ (part # "channel" => scene = Busy)
  /\ Settings!Init /\ (part # "settings" => left = Arriving)

MCNext == (OfChannel /\ Next) \/ (OfSettings /\ Settings!Next)

\* The fairness of each part, in the behaviours of that part.
MCFairSpec ==
  /\ MCInit /\ [][MCNext]_mcVars
  /\ WF_mcVars(OfChannel /\ Round /\ UNCHANGED scene)
  /\ WF_mcVars(OfSettings /\ Settings!ApplySettings(TRUE))
  /\ WF_mcVars(OfSettings /\ Settings!ReceiveGrant)
  /\ WF_mcVars(OfSettings /\ Settings!Acknowledge)

-----------------------------------------------------------------------------
(* The properties of FleetSettings, which explains them.                   *)

\* Controller and broker mean the same by the settings they hold, but for settings a restart
\* lost while their write was owed (commit_workload, apply_fleet_registration, accept_grant).
SettingsSound == Settings!SettingsSound

\* Every queued document is handed over, but behind a grant whose first settings a restart
\* lost while their write was owed (run_channel_session).
SettingsDrain == Settings!InboxDrains
=============================================================================
