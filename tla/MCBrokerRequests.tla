-------------------------- MODULE MCBrokerRequests --------------------------
(***************************************************************************)
(* Instance of BrokerRequests.  A behaviour is one of the scenarios.       *)
(***************************************************************************)
EXTENDS BrokerRequests

Browser(k) == [mode |-> "browser", key |-> k]
Native == [mode |-> "native", key |-> None]

Plain ==
    [inputs |-> {Browser("k")}, limit |-> 1, events |-> 2, invocations |-> 1,
     recipes |-> 1, faults |-> 0, crashes |-> 0, grants |-> TRUE]

MCScenarios ==
    {\* A table of one: a retry needs an eviction.  A session and a crash.
     [Plain EXCEPT !.crashes = 1],
     \* A session whose writes fail, beside a native request.
     [Plain EXCEPT !.inputs = @ \cup {Native}, !.limit = 2, !.faults = 1],
     \* No session: failed writes before and after a crash.
     [Plain EXCEPT !.inputs = @ \cup {Native}, !.grants = FALSE, !.faults = 2, !.crashes = 1],
     \* The unit restarts and the settings change.
     [Plain EXCEPT !.limit = 2, !.invocations = 2, !.recipes = 2]}
=============================================================================
