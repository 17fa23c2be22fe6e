----------------------------- MODULE MCOperators -----------------------------
(* Operators with four budgets: accounts administered by two racing       *)
(* administrators, sessions refreshed over time, and passwords guessed     *)
(* from several addresses, with an expiry of the rows or with a reset.     *)
EXTENDS Operators, TLC

MCSids == 1..3

Budget(requests, sessions, ticks, passwords, guesses, lapses) ==
    [requests |-> requests, sessions |-> sessions, ticks |-> ticks,
     passwords |-> passwords, guesses |-> guesses, lapses |-> lapses]

MCScenarios == { Budget(5, 2, 0, 0, 0, 0),
                 Budget(3, 3, 2, 1, 0, 0),
                 Budget(4, 0, 0, 0, 4, 1),
                 Budget(3, 0, 0, 1, 3, 0) }

MCSymmetry == Permutations(Ops) \cup Permutations(Sources)
              \cup Permutations(Calls) \cup Permutations(Tokens)
=============================================================================
