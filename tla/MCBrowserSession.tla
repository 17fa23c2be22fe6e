-------------------------- MODULE MCBrowserSession --------------------------
EXTENDS BrowserSession

\* Every grant is issued at the start
MCGranted == [o \in Ops |-> 1]

\* One operation under up to three failures
MCOne == [account |-> [o \in Ops |-> "a"], ops |-> {"o1"},
          granted |-> MCGranted, failures |-> 3, ready |-> {}]

\* Two on one account, or one next to a ready session of another account
MCTwo ==
    {MCOne,
     [account |-> [o \in Ops |-> "a"], ops |-> Ops,
      granted |-> MCGranted, failures |-> 0, ready |-> {}],
     [account |-> [o \in Ops |-> o], ops |-> Ops,
      granted |-> MCGranted, failures |-> 0, ready |-> {"o2"}]}
=============================================================================
