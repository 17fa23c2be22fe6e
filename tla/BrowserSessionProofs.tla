------------------------ MODULE BrowserSessionProofs ------------------------
(***************************************************************************)
(* Proofs about BrowserSession for every set of operations and accounts,   *)
(* every number of failures and all lifetimes that the assumption admits.  *)
(*                                                                         *)
(* The invariant speaks of one operation at a time: its record in memory r *)
(* and on disk d, its helper unit h, website session s and browser unit b, *)
(* and its actor a, at time t.                                             *)
(***************************************************************************)
EXTENDS BrowserSession, TLAPS

States == {"none", "closed"} \cup Unfinished
SessionRecords ==
  [state : States, born : Nat, helper : BOOLEAN, handle : BOOLEAN, due : Nat,
   browser : BOOLEAN, closed : Nat]
Cleaning == {"withdraw", "stop helper", "revoke", "stop browser", "reconcile", "leaving"}
Actors ==
  [at : {"none"} \cup Working \cup Cleaning, attempted : BOOLEAN, identified : BOOLEAN,
   revoker : BOOLEAN, session : BOOLEAN, connected : BOOLEAN, stopped : BOOLEAN,
   revoked : BOOLEAN]
Units ==
  [at : {"none", "dead", "waiting", "armed", "answered", "running", "imported"},
   since : Nat, due : Nat]
Passes ==
  [todo : SUBSET Ops, at : {"idle", "revoke", "reconcile"}, op : Ops \cup {"none"},
   revoked : BOOLEAN]

\* What the snapshot that names a record must satisfy to be loaded at time t.
Formed(r, t) ==
  /\ r.born # 0 /\ r.born <= t
  /\ (r.state = "closed") <=> (r.closed # 0)
  /\ r.due # 0 => r.due > r.born
  /\ r.state = "closed" => ~r.handle /\ ~r.browser /\ ~r.helper
  /\ r.state # "closed" =>
       /\ (r.due # 0) <=> r.handle
       /\ r.browser => r.handle
       /\ r.state \in {"reserved", "active"} /\ r.handle => r.helper
       /\ r.state = "active" => r.handle /\ r.browser
RecordOk(r, t) ==
  /\ r \in SessionRecords
  /\ r.state = "none" => r = NoRecord
  /\ r.state # "none" => Formed(r, t)

\* A record that is not unfinished stands for nothing outside; an unfinished
\* one names what exists, all of it started inside the login window, so that it
\* ends before the record is released.
Covers(r, h, s, b) ==
  /\ r.state \notin Unfinished => ~Alive(h) /\ s = 0 /\ ~Alive(b)
  /\ Alive(h) => h.since < r.born + LoginWindow
  /\ s # 0 => s < r.born + ReleaseAfter
  /\ Alive(b) => b.since < r.born + LoginWindow
  /\ h.at \in {"armed", "answered"} => r.helper
  /\ s # 0 => r.helper
  /\ b.at = "imported" => r.browser /\ r.handle

\* Units run for at most their lifetime, a session until its end.
WorldOk(h, s, b, t) ==
  /\ h \in Units /\ b \in Units /\ s \in Nat
  /\ Alive(h) => h.since <= t /\ t <= h.since + HelperLife
  /\ Alive(b) => b.since <= t /\ t <= b.since + SessionMax
  /\ s # 0 => t <= s

\* The record of a working actor is the same in memory and on disk, unless it was
\* released after the login window.  An actor that cleaned up without a failure
\* has left nothing.
ActorOk(a, r, d, h, s, b, t) ==
  /\ a \in Actors
  /\ a.at = "none" => a = NoActor
  /\ a.at # "none" /\ ~a.attempted => ~Alive(h)
  /\ a.at \in Working =>
       /\ r.state \in Unfinished => d = r
       /\ r.state \notin Unfinished => t >= r.born + LoginWindow
  /\ a.at = "send" /\ r.state \in Unfinished => r.helper
  /\ a.at = "import" /\ r.state \in Unfinished => r.browser /\ r.handle
  /\ a.at \in {"revoke", "stop browser", "reconcile"} /\ a.stopped => ~Alive(h)
  /\ a.at \in {"stop browser", "reconcile"} /\ a.stopped /\ a.revoked => s = 0
  /\ a.at = "reconcile" /\ a.stopped => ~Alive(b)

\* An operation whose grant, issued at time g, is not consumed: its record never
\* had a login and is not older than the grant.
Unspent(r, t, g) ==
  /\ r.due = 0
  /\ r.state # "none" => t >= g
  /\ r.closed # 0 => r.closed >= g

Local(r, d, h, s, b, a, t) ==
  /\ RecordOk(r, t) /\ Covers(r, h, s, b)
  /\ RecordOk(d, t) /\ Covers(d, h, s, b)
  /\ WorldOk(h, s, b, t)
  /\ ActorOk(a, r, d, h, s, b, t)
Sound(o) == Local(mem[o], disk[o], helper[o], site[o], browser[o], actor[o], now)

Booked(o) ==
  /\ o \in published =>
       /\ mem[o].state \notin Unfinished /\ disk[o].state \notin Unfinished
       /\ o \notin candidate
  /\ o \in candidate =>
       actor[o].at = "none" /\ Unspent(mem[o], now, scenario.granted[o])

\* The dispatcher trusts a stop of the units only for operations that will have
\* no actor again: their grant is spent or ends before the record is pruned.
Stopped(o) ==
  /\ actor[o].at = "none" /\ ~Alive(helper[o]) /\ ~Alive(browser[o])
  /\ o \in candidate => mem[o].state # "none" \/ now >= scenario.granted[o] + GrantLife
Recovering(o) ==
  /\ o \in terminated => Stopped(o)
  /\ o \in pass.todo \/ (pass.at # "idle" /\ o = pass.op) => actor[o].at \in {"none", "leaving"}
  /\ pass.at = "reconcile" /\ pass.revoked /\ pass.op = o /\ o \in terminated => site[o] = 0
  /\ ~started => actor[o].at = "none"

Exclusive(j, account) ==
  \A o, p \in Ops : o # p /\ j[o].state \in Unfinished /\ j[p].state \in Unfinished
                      => account[o] # account[p]

Shaped ==
  /\ now \in Nat \ {0} /\ scenario \in Scenarios
  /\ DOMAIN mem = Ops /\ DOMAIN disk = Ops /\ DOMAIN actor = Ops
  /\ DOMAIN helper = Ops /\ DOMAIN site = Ops /\ DOMAIN browser = Ops
  /\ pass \in Passes /\ (pass.at # "idle" => pass.op \in Ops)
  /\ candidate \subseteq Ops /\ published \subseteq Ops /\ terminated \subseteq Ops
  /\ ~fenced => disk = mem
  /\ ~started => pass = NoPass

IInv ==
  /\ Shaped
  /\ \A o \in Ops : Sound(o) /\ Booked(o) /\ Recovering(o)
  /\ Exclusive(mem, Account) /\ Exclusive(disk, Account)

-----------------------------------------------------------------------------
(* One operation: what each step makes of its local state.                 *)

LEMMA Lifetimes ==
  /\ LoginWindow \in Nat \ {0} /\ HelperLife \in Nat \ {0} /\ SessionMax \in Nat \ {0}
  /\ Retention \in Nat \ {0} /\ GrantLife \in Nat /\ GrantLife <= Retention
  /\ ReleaseAfter \in Nat /\ ReleaseAfter = LoginWindow + SessionMax + HelperLife
  BY BrowserSessionAssumption DEF ReleaseAfter

LEMMA UnitKilled ==
  ASSUME NEW u \in Units
  PROVE  Killed(u) \in Units /\ ~Alive(Killed(u)) /\ Killed(u).at \in {"none", "dead"}
  BY DEF Units, Killed, Alive

\* Whatever ends outside, ends without harm to the records.
LEMMA LessOutside ==
  ASSUME NEW r, NEW d, NEW h, NEW s, NEW b, NEW a, NEW t, Local(r, d, h, s, b, a, t),
         NEW h1 \in {h, Killed(h)}, NEW s1 \in {s, 0}, NEW b1 \in {b, Killed(b)}
  PROVE  Local(r, d, h1, s1, b1, a, t)
<1>1. h \in Units /\ b \in Units /\ s \in Nat
  BY DEF Local, WorldOk
<1>2. /\ h1 \in Units /\ (Alive(h1) => h1 = h) /\ (h1.at \in {"armed", "answered"} => h1 = h)
      /\ b1 \in Units /\ (Alive(b1) => b1 = b) /\ (b1.at = "imported" => b1 = b)
  BY <1>1, UnitKilled
<1>3. ASSUME NEW x, Covers(x, h, s, b) PROVE Covers(x, h1, s1, b1)
  BY <1>2, <1>3 DEF Covers
<1>4. WorldOk(h1, s1, b1, t)
  BY <1>1, <1>2 DEF Local, WorldOk
<1>5. ActorOk(a, r, d, h1, s1, b1, t)
  BY <1>2 DEF Local, ActorOk
<1> QED
  BY <1>3, <1>4, <1>5 DEF Local

LEMMA LocalLogsIn ==
  ASSUME NEW r, NEW d, NEW h, NEW s, NEW b, NEW a, NEW t \in Nat, Local(r, d, h, s, b, a, t),
         h.at = "armed",
         NEW h1 \in Units, h1.at = "answered", h1.since = h.since
  PROVE  Local(r, d, h1, t + SessionMax, b, a, t)
<1>1. Alive(h) /\ Alive(h1) /\ h \in Units
  BY DEF Alive, Local, WorldOk
<1>2. ASSUME NEW x, Covers(x, h, s, b), RecordOk(x, t) PROVE Covers(x, h1, t + SessionMax, b)
  <2>1. x.born \in Nat /\ h.since \in Nat /\ t <= h.since + HelperLife
    BY <1>1, <1>2 DEF Local, WorldOk, RecordOk, SessionRecords, Units
  <2>2. h.since < x.born + LoginWindow /\ x.helper /\ x.state \in Unfinished
    BY <1>1, <1>2 DEF Covers
  <2>3. t + SessionMax < x.born + ReleaseAfter
    BY <2>1, <2>2, Lifetimes
  <2> QED
    BY <1>1, <1>2, <2>2, <2>3 DEF Covers
<1>3. WorldOk(h1, t + SessionMax, b, t)
  BY <1>1, Lifetimes DEF Local, WorldOk
<1>4. ActorOk(a, r, d, h1, t + SessionMax, b, t)
  BY <1>1 DEF Local, ActorOk
<1> QED
  BY <1>2, <1>3, <1>4 DEF Local

LEMMA LocalTick ==
  ASSUME NEW r, NEW d, NEW h, NEW s, NEW b, NEW a, NEW t \in Nat, Local(r, d, h, s, b, a, t),
         Alive(h) => t + 1 <= h.since + HelperLife,
         Alive(b) => t + 1 <= b.since + SessionMax,
         s # 0 => t + 1 <= s
  PROVE  Local(r, d, h, s, b, a, t + 1)
<1>1. ASSUME NEW x, RecordOk(x, t) PROVE RecordOk(x, t + 1)
  BY <1>1 DEF RecordOk, Formed, SessionRecords
<1>2. WorldOk(h, s, b, t + 1)
  BY DEF Local, WorldOk, Units
<1>3. ActorOk(a, r, d, h, s, b, t + 1)
  <2>1. r.born \in Nat
    BY DEF Local, RecordOk, SessionRecords
  <2>2. t >= r.born + LoginWindow => t + 1 >= r.born + LoginWindow
    BY <2>1, Lifetimes
  <2> QED
    BY <2>2, Zenon DEF Local, ActorOk
<1> QED
  BY <1>1, <1>2, <1>3 DEF Local

\* A step of the actor that leaves the records and the outside alone.
LEMMA LocalGoes ==
  ASSUME NEW r, NEW d, NEW h, NEW s, NEW b, NEW a, NEW t, Local(r, d, h, s, b, a, t),
         NEW a1 \in Actors, a1.attempted = a.attempted,
         \/ a.at \in Working /\ a1.at = "withdraw"
         \/ a.at = "guard" /\ a1.at = "import" /\ r.state = "active"
  PROVE  Local(r, d, h, s, b, a1, t)
<1>1. ActorOk(a, r, d, h, s, b, t) /\ RecordOk(r, t)
  BY DEF Local
<1>2. r.state = "active" => r.browser /\ r.handle
  BY <1>1 DEF RecordOk, Formed
<1>3. ActorOk(a1, r, d, h, s, b, t)
  BY <1>1, <1>2 DEF ActorOk, Working
<1> QED
  BY <1>3 DEF Local

LEMMA LocalDrop ==
  ASSUME NEW r, NEW d, NEW h, NEW s, NEW b, NEW a, NEW t, Local(r, d, h, s, b, a, t)
  PROVE  Local(r, d, h, s, b, NoActor, t)
<1>1. NoActor \in Actors /\ NoActor.at = "none"
  BY DEF NoActor, Actors
<1>2. ActorOk(NoActor, r, d, h, s, b, t)
  BY <1>1 DEF ActorOk, Working
<1> QED
  BY <1>2 DEF Local

\* While the login window is open, the record of a working actor is unfinished
\* and durable.
LEMMA InWindowUnfinished ==
  ASSUME NEW r, NEW d, NEW h, NEW s, NEW b, NEW a, NEW t \in Nat, Local(r, d, h, s, b, a, t),
         a.at \in Working, t < r.born + LoginWindow
  PROVE  r.state \in Unfinished /\ d = r /\ r.born \in Nat
<1>1. r.born \in Nat
  BY DEF Local, RecordOk, SessionRecords
<1>2. ~(t >= r.born + LoginWindow)
  BY <1>1, Lifetimes
<1> QED
  BY <1>1, <1>2 DEF Local, ActorOk

\* A unit that is started, or not, within the window.
LEMMA LocalHelper ==
  ASSUME NEW r, NEW d, NEW h, NEW s, NEW b, NEW a, NEW t \in Nat, Local(r, d, h, s, b, a, t),
         a.at \in Working, t < r.born + LoginWindow,
         NEW h1 \in Units, Alive(h1) => h1.at = "waiting" /\ h1.since = t,
         NEW a1 \in Actors, a1.at \in {"journal", "withdraw"}, a1.attempted
  PROVE  Local(r, d, h1, s, b, a1, t)
<1>1. r.state \in Unfinished /\ d = r /\ r.born \in Nat
  BY InWindowUnfinished
<1>2. h1.at \notin {"armed", "answered"}
  BY DEF Alive
<1>3. Covers(r, h1, s, b)
  BY <1>1, <1>2 DEF Local, Covers
<1>4. WorldOk(h1, s, b, t)
  BY Lifetimes DEF Local, WorldOk
<1>5. ActorOk(a1, r, d, h1, s, b, t)
  BY <1>1 DEF ActorOk
<1> QED
  BY <1>1, <1>3, <1>4, <1>5 DEF Local

LEMMA LocalBrowser ==
  ASSUME NEW r, NEW d, NEW h, NEW s, NEW b, NEW a, NEW t \in Nat, Local(r, d, h, s, b, a, t),
         a.at \in Working, t < r.born + LoginWindow,
         NEW b1 \in Units, Alive(b1) => b1.at = "running" /\ b1.since = t,
         NEW a1 \in Actors, a1.at \in {"activate", "withdraw"}, a1.attempted = a.attempted
  PROVE  Local(r, d, h, s, b1, a1, t)
<1>1. r.state \in Unfinished /\ d = r /\ r.born \in Nat
  BY InWindowUnfinished
<1>2. b1.at # "imported"
  BY DEF Alive
<1>3. Covers(r, h, s, b1)
  BY <1>1, <1>2 DEF Local, Covers
<1>4. WorldOk(h, s, b1, t)
  BY Lifetimes DEF Local, WorldOk
<1>5. ActorOk(a1, r, d, h, s, b1, t)
  BY <1>1 DEF ActorOk, Local, Working
<1> QED
  BY <1>1, <1>3, <1>4, <1>5 DEF Local

\* The helper gets the credential, the browser the cookies: both are named on disk.
LEMMA LocalSend ==
  ASSUME NEW r, NEW d, NEW h, NEW s, NEW b, NEW a, NEW t, Local(r, d, h, s, b, a, t),
         a.at = "send", h.at = "waiting",
         NEW h1 \in Units, h1.at = "armed", h1.since = h.since,
         NEW a1 \in Actors, a1.at = "reply", a1.attempted = a.attempted
  PROVE  Local(r, d, h1, s, b, a1, t)
<1>1. Alive(h) /\ Alive(h1) /\ h \in Units
  BY DEF Alive, Local, WorldOk
<1>2. r.state \in Unfinished
  BY <1>1 DEF Local, Covers
<1>3. d = r /\ r.helper
  BY <1>2 DEF Local, ActorOk, Working
<1>4. Covers(r, h1, s, b)
  BY <1>1, <1>2, <1>3 DEF Local, Covers
<1>5. WorldOk(h1, s, b, t)
  BY <1>1 DEF Local, WorldOk
<1>6. ActorOk(a1, r, d, h1, s, b, t)
  BY <1>1, <1>2, <1>3 DEF ActorOk, Local, Working
<1> QED
  BY <1>3, <1>4, <1>5, <1>6 DEF Local

LEMMA LocalImport ==
  ASSUME NEW r, NEW d, NEW h, NEW s, NEW b, NEW a, NEW t, Local(r, d, h, s, b, a, t),
         a.at = "import", b.at = "running",
         NEW b1 \in Units, b1.at = "imported", b1.since = b.since,
         NEW a1 \in Actors, a1.at = "ready", a1.attempted = a.attempted
  PROVE  Local(r, d, h, s, b1, a1, t)
<1>1. Alive(b) /\ Alive(b1) /\ b \in Units
  BY DEF Alive, Local, WorldOk
<1>2. r.state \in Unfinished
  BY <1>1 DEF Local, Covers
<1>3. d = r /\ r.browser /\ r.handle
  BY <1>2 DEF Local, ActorOk, Working
<1>4. Covers(r, h, s, b1)
  BY <1>1, <1>2, <1>3 DEF Local, Covers
<1>5. WorldOk(h, s, b1, t)
  BY <1>1 DEF Local, WorldOk
<1>6. ActorOk(a1, r, d, h, s, b1, t)
  BY <1>1, <1>2, <1>3 DEF ActorOk, Local, Working
<1> QED
  BY <1>3, <1>4, <1>5, <1>6 DEF Local

\* The three steps of cleanup.
Cleans(a, a1, h1, s1, b1) ==
  \/ a.at = "stop helper" /\ a1.at = "revoke" /\ (a1.stopped => ~Alive(h1))
  \/ /\ a.at = "revoke" /\ a1.at = "stop browser" /\ a1.stopped = a.stopped
     /\ (a1.revoked => s1 = 0)
  \/ /\ a.at = "stop browser" /\ a1.at = "reconcile" /\ a1.revoked = a.revoked
     /\ (a1.stopped => a.stopped /\ ~Alive(b1))

LEMMA LocalCleanup ==
  ASSUME NEW r, NEW d, NEW h, NEW s, NEW b, NEW a, NEW t, Local(r, d, h, s, b, a, t),
         NEW h1 \in {h, Killed(h)}, NEW s1 \in {s, 0}, NEW b1 \in {b, Killed(b)},
         NEW a1 \in Actors, a1.attempted = a.attempted,
         Cleans(a, a1, h1, s1, b1)
  PROVE  Local(r, d, h1, s1, b1, a1, t)
<1>1. Local(r, d, h1, s1, b1, a, t)
  BY LessOutside
<1>2. ActorOk(a, r, d, h1, s1, b1, t)
  BY <1>1 DEF Local
<1>3. ActorOk(a1, r, d, h1, s1, b1, t)
  BY <1>2 DEF ActorOk, Working, Cleans
<1> QED
  BY <1>1, <1>3 DEF Local

-----------------------------------------------------------------------------
(* What the transitions of the journal make of a record.                   *)

LEMMA RecordWithHelper ==
  ASSUME NEW r, NEW h, NEW s, NEW b, NEW t, RecordOk(r, t), Covers(r, h, s, b),
         r.state = "reserved", ~r.handle,
         NEW n, n = [r EXCEPT !.helper = TRUE]
  PROVE  RecordOk(n, t) /\ Covers(n, h, s, b) /\ n.helper /\ n.state = "reserved"
<1>1. /\ n \in SessionRecords /\ n.state = "reserved" /\ n.born = r.born /\ n.helper /\ ~n.handle
      /\ n.due = r.due /\ n.browser = r.browser /\ n.closed = r.closed
  BY DEF RecordOk, SessionRecords
<1>2. RecordOk(n, t)
  BY <1>1 DEF RecordOk, Formed
<1>3. Covers(n, h, s, b)
  BY <1>1 DEF Covers
<1> QED
  BY <1>1, <1>2, <1>3

LEMMA RecordWithLogin ==
  ASSUME NEW r, NEW h, NEW s, NEW b, NEW t \in Nat, RecordOk(r, t), Covers(r, h, s, b),
         r.state = "reserved", ~r.handle, r.helper, NEW due \in Nat, due > t,
         NEW n \in SessionRecords, n.state = "reserved", n.born = r.born, n.helper, n.handle,
         n.due = due, n.browser = r.browser, n.closed = r.closed
  PROVE  RecordOk(n, t) /\ Covers(n, h, s, b)
<1>2. r.born \in Nat /\ r.born <= t
  BY DEF RecordOk, SessionRecords, Formed
<1>3. RecordOk(n, t)
  BY <1>2 DEF RecordOk, Formed
<1>4. Covers(n, h, s, b)
  BY DEF Covers
<1> QED
  BY <1>3, <1>4

LEMMA RecordActivated ==
  ASSUME NEW r, NEW h, NEW s, NEW b, NEW t, RecordOk(r, t), Covers(r, h, s, b),
         r.state = "reserved", r.handle, r.helper,
         NEW n, n = [r EXCEPT !.state = "active", !.browser = TRUE]
  PROVE  RecordOk(n, t) /\ Covers(n, h, s, b) /\ n.state = "active"
<1>1. /\ n \in SessionRecords /\ n.state = "active" /\ n.born = r.born /\ n.helper /\ n.handle
      /\ n.due = r.due /\ n.browser /\ n.closed = r.closed
  BY DEF RecordOk, SessionRecords, States, Unfinished
<1>2. RecordOk(n, t)
  BY <1>1 DEF RecordOk, Formed
<1>3. Covers(n, h, s, b)
  BY <1>1 DEF Covers, Unfinished
<1> QED
  BY <1>1, <1>2, <1>3

\* A record under revocation or blocked names what it named.
LEMMA RecordMarked ==
  ASSUME NEW r, NEW h, NEW s, NEW b, NEW t, RecordOk(r, t), Covers(r, h, s, b),
         r.state \in Unfinished, NEW n,
         n = [r EXCEPT !.state = "revoking"] \/ n = [r EXCEPT !.state = "blocked"]
  PROVE  RecordOk(n, t) /\ Covers(n, h, s, b) /\ n.state \in Unfinished /\ n.due = r.due /\ n.closed = r.closed
<1>1. /\ n \in SessionRecords /\ n.state \in {"revoking", "blocked"} /\ n.born = r.born
      /\ n.helper = r.helper /\ n.handle = r.handle
      /\ n.due = r.due /\ n.browser = r.browser /\ n.closed = r.closed
  BY DEF RecordOk, SessionRecords, States, Unfinished
<1>2. RecordOk(n, t)
  BY <1>1 DEF RecordOk, Formed, Unfinished
<1>3. Covers(n, h, s, b)
  BY <1>1 DEF Covers, Unfinished
<1> QED
  BY <1>1, <1>2, <1>3 DEF Unfinished

\* A record is closed only when nothing is left of its operation.
LEMMA RecordClosed ==
  ASSUME NEW r, NEW h, NEW s, NEW b, now \in Nat \ {0}, RecordOk(r, now),
         r.state \in Unfinished, ~Alive(h), s = 0, ~Alive(b)
  PROVE  /\ RecordOk(Closed(r), now) /\ Covers(Closed(r), h, s, b)
         /\ Closed(r).state = "closed" /\ Closed(r).closed = now /\ Closed(r).due = r.due
         /\ Closed(r).born = r.born
<1> DEFINE n == Closed(r)
<1>1. /\ n \in SessionRecords /\ n.state = "closed" /\ n.born = r.born /\ ~n.helper /\ ~n.handle
      /\ n.due = r.due /\ ~n.browser /\ n.closed = now
  BY DEF RecordOk, SessionRecords, States, Closed
<1>2. Formed(r, now)
  BY DEF RecordOk, Unfinished
<1> HIDE DEF n
<1>3. RecordOk(n, now)
  BY <1>1, <1>2 DEF RecordOk, Formed
<1>4. Covers(n, h, s, b)
  BY <1>1 DEF Covers, Alive
<1> QED
  BY <1>1, <1>3, <1>4 DEF n

LEMMA RecordGone ==
  ASSUME NEW h, NEW s, NEW b, NEW t, ~Alive(h), s = 0, ~Alive(b)
  PROVE  RecordOk(NoRecord, t) /\ Covers(NoRecord, h, s, b)
<1>1. NoRecord \in SessionRecords /\ NoRecord.state = "none"
  BY DEF NoRecord, SessionRecords, States
<1>2. "none" \notin Unfinished
  BY DEF Unfinished
<1> QED
  BY <1>1, <1>2 DEF RecordOk, Covers, Alive

LEMMA RecordReserved ==
  ASSUME NEW h, NEW s, NEW b, now \in Nat \ {0}, ~Alive(h), s = 0, ~Alive(b)
  PROVE  /\ RecordOk(Reserved, now) /\ Covers(Reserved, h, s, b)
         /\ Reserved.state = "reserved" /\ Reserved.due = 0 /\ Reserved.closed = 0
<1> DEFINE n == Reserved
<1>1. /\ n \in SessionRecords /\ n.state = "reserved" /\ n.born = now /\ ~n.helper /\ ~n.handle
      /\ n.due = 0 /\ ~n.browser /\ n.closed = 0
  BY DEF Reserved, NoRecord, SessionRecords, States, Unfinished
<1> HIDE DEF n
<1>3. RecordOk(n, now)
  BY <1>1 DEF RecordOk, Formed
<1>4. Covers(n, h, s, b)
  BY <1>1 DEF Covers, Alive
<1> QED
  BY <1>1, <1>3, <1>4 DEF n

\* release_expired: the lifetimes of all that an expired record names have passed.
LEMMA ExpiredIsGone ==
  ASSUME NEW r, NEW h, NEW s, NEW b, NEW t \in Nat, RecordOk(r, t), Covers(r, h, s, b),
         WorldOk(h, s, b, t), t >= r.born + ReleaseAfter
  PROVE  ~Alive(h) /\ s = 0 /\ ~Alive(b)
<1>1. r.born \in Nat /\ h.since \in Nat /\ b.since \in Nat /\ s \in Nat
  BY DEF RecordOk, SessionRecords, WorldOk, Units
<1>2. ~(h.since < r.born + LoginWindow /\ t <= h.since + HelperLife)
  BY <1>1, Lifetimes
<1>3. ~(b.since < r.born + LoginWindow /\ t <= b.since + SessionMax)
  BY <1>1, Lifetimes
<1>4. ~(s < r.born + ReleaseAfter /\ t <= s)
  BY <1>1, Lifetimes
<1> QED
  BY <1>2, <1>3, <1>4 DEF Covers, WorldOk

-----------------------------------------------------------------------------
(* Steps about one operation o: for every other one at most its website    *)
(* session ends.                                                           *)

Frame(o) ==
  /\ UNCHANGED <<now, scenario>>
  /\ candidate' \subseteq candidate /\ published' \subseteq published \cup {o}
  /\ DOMAIN mem' = Ops /\ DOMAIN disk' = Ops /\ DOMAIN actor' = Ops
  /\ DOMAIN helper' = Ops /\ DOMAIN site' = Ops /\ DOMAIN browser' = Ops
  /\ \A p \in Ops \ {o} :
       /\ mem'[p] = mem[p] /\ disk'[p] = disk[p] /\ actor'[p] = actor[p]
       /\ helper'[p] = helper[p] /\ browser'[p] = browser[p] /\ site'[p] \in {site[p], 0}
  /\ ~fenced' => disk' = mem'

\* The operation does not take an account another one has.
Alone(o) ==
  \/ /\ mem'[o].state \in Unfinished => mem[o].state \in Unfinished
     /\ disk'[o].state \in Unfinished => disk[o].state \in Unfinished
  \/ Admitted(o) /\ disk = mem

LEMMA ExclusiveUpdate ==
  ASSUME NEW j, NEW k, NEW account, NEW o \in Ops, Exclusive(j, account),
         \A p \in Ops \ {o} : k[p] = j[p],
         \/ k[o].state \in Unfinished => j[o].state \in Unfinished
         \/ \A p \in Ops \ {o} : j[p].state \in Unfinished => account[p] # account[o]
  PROVE  Exclusive(k, account)
  BY Zenon DEF Exclusive

LEMMA FrameKept ==
  ASSUME IInv, NEW o \in Ops, Frame(o), Alone(o), Sound(o)', Booked(o)'
  PROVE  /\ \A p \in Ops : Sound(p)' /\ Booked(p)'
         /\ Exclusive(mem, Account)' /\ Exclusive(disk, Account)'
<1>1. ASSUME NEW p \in Ops \ {o} PROVE Sound(p)' /\ Booked(p)'
  <2>1. Sound(p) /\ Booked(p)
    BY DEF IInv
  <2>2. Local(mem[p], disk[p], helper[p], site'[p], browser[p], actor[p], now)
    BY <2>1, LessOutside DEF Sound, Frame
  <2>3. Sound(p)'
    BY <2>2 DEF Sound, Frame
  <2>4. Booked(p)'
    BY <2>1 DEF Booked, Frame
  <2> QED
    BY <2>3, <2>4
<1>2. Exclusive(mem', Account)
  <2>0. Exclusive(mem, Account) /\ \A p \in Ops \ {o} : mem'[p] = mem[p]
    BY DEF IInv, Frame
  <2>1. CASE mem'[o].state \in Unfinished => mem[o].state \in Unfinished
    BY <2>0, <2>1, ExclusiveUpdate
  <2>2. CASE Admitted(o)
    <3>1. \A p \in Ops \ {o} : mem[p].state \in Unfinished => Account[p] # Account[o]
      BY <2>2 DEF Admitted, Pending
    <3> QED
      BY <2>0, <3>1, ExclusiveUpdate
  <2> QED
    BY <2>1, <2>2 DEF Alone
<1>3. Exclusive(disk', Account)
  <2>0. Exclusive(disk, Account) /\ \A p \in Ops \ {o} : disk'[p] = disk[p]
    BY DEF IInv, Frame
  <2>1. CASE disk'[o].state \in Unfinished => disk[o].state \in Unfinished
    BY <2>0, <2>1, ExclusiveUpdate
  <2>2. CASE Admitted(o) /\ disk = mem
    <3>1. \A p \in Ops \ {o} : disk[p].state \in Unfinished => Account[p] # Account[o]
      BY <2>2 DEF Admitted, Pending
    <3> QED
      BY <2>0, <3>1, ExclusiveUpdate
  <2> QED
    BY <2>1, <2>2 DEF Alone
<1>4. Account' = Account
  BY DEF Account, Frame
<1> QED
  BY <1>1, <1>2, <1>3, <1>4

\* An operation with an actor is nobody else's.
LEMMA ActorOwns ==
  ASSUME IInv, NEW o \in Ops, actor[o].at \notin {"none", "leaving"}
  PROVE  /\ o \notin candidate /\ o \notin terminated /\ started
         /\ o \notin pass.todo /\ ~(pass.at # "idle" /\ o = pass.op)
  BY DEF IInv, Booked, Recovering, Stopped

ActorFrame(o) == Frame(o) /\ UNCHANGED <<candidate, started, terminated, pass>>

\* A step of the actor of o, shown by what it does to o.
LEMMA ActorStepKept ==
  ASSUME IInv, NEW o \in Ops, actor[o].at \notin {"none", "leaving"}, ActorFrame(o), Sound(o)',
         mem'[o].state \in Unfinished => mem[o].state \in Unfinished,
         disk'[o].state \in Unfinished => disk[o].state \in Unfinished,
         o \in published' => o \in published
                             \/ (mem'[o].state \notin Unfinished /\ disk'[o].state \notin Unfinished)
  PROVE  IInv'
<1>1. /\ o \notin candidate /\ o \notin terminated /\ started
      /\ o \notin pass.todo /\ ~(pass.at # "idle" /\ o = pass.op)
  BY ActorOwns
<1>2. Booked(o)'
  BY <1>1 DEF ActorFrame, Booked, IInv
<1>3. /\ \A p \in Ops : Sound(p)' /\ Booked(p)'
      /\ Exclusive(mem, Account)' /\ Exclusive(disk, Account)'
  BY <1>2, FrameKept DEF ActorFrame, Alone
<1>4. ASSUME NEW p \in Ops PROVE Recovering(p)'
  <2>1. CASE p = o
    BY <1>1, <2>1 DEF ActorFrame, Recovering
  <2>2. CASE p # o
    BY <2>2 DEF ActorFrame, Frame, Recovering, Stopped, IInv
  <2> QED
    BY <2>1, <2>2
<1>5. Shaped'
  BY DEF ActorFrame, Frame, Shaped, IInv
<1> QED
  BY <1>3, <1>4, <1>5 DEF IInv

\* Steps that leave the journal and the closures alone.
LEMMA OutsideStepKept ==
  ASSUME IInv, NEW o \in Ops, actor[o].at \notin {"none", "leaving"},
         UNCHANGED <<Outside, mem, disk, fenced>>, Sound(o)',
         DOMAIN actor' = Ops, DOMAIN helper' = Ops, DOMAIN site' = Ops, DOMAIN browser' = Ops,
         \A p \in Ops \ {o} :
           /\ actor'[p] = actor[p] /\ helper'[p] = helper[p] /\ browser'[p] = browser[p]
           /\ site'[p] \in {site[p], 0}
  PROVE  IInv'
<1>1. ActorFrame(o)
  BY DEF ActorFrame, Frame, Outside, dispatcher, IInv, Shaped
<1>2. mem' = mem /\ disk' = disk /\ published' = published
  BY DEF Outside
<1>3. /\ mem'[o].state \in Unfinished => mem[o].state \in Unfinished
      /\ disk'[o].state \in Unfinished => disk[o].state \in Unfinished
      /\ o \in published' => o \in published
                             \/ (mem'[o].state \notin Unfinished /\ disk'[o].state \notin Unfinished)
  BY <1>2
<1> QED
  BY <1>1, <1>3, ActorStepKept, Zenon

-----------------------------------------------------------------------------
(* Steps of actors that leave the journal alone.                           *)

LEMMA Typed ==
  ASSUME IInv, NEW o \in Ops
  PROVE  /\ Local(mem[o], disk[o], helper[o], site[o], browser[o], actor[o], now)
         /\ actor[o] \in Actors /\ helper[o] \in Units /\ browser[o] \in Units /\ site[o] \in Nat
         /\ mem[o] \in SessionRecords /\ disk[o] \in SessionRecords
         /\ now \in Nat \ {0}
         /\ DOMAIN mem = Ops /\ DOMAIN disk = Ops /\ DOMAIN actor = Ops
         /\ DOMAIN helper = Ops /\ DOMAIN site = Ops /\ DOMAIN browser = Ops
<1>1. Local(mem[o], disk[o], helper[o], site[o], browser[o], actor[o], now)
  BY DEF IInv, Sound
<1>2. Shaped
  BY DEF IInv
<1> QED
  BY <1>1, <1>2 DEF Local, Shaped, ActorOk, WorldOk, RecordOk

LEMMA GoesShape ==
  ASSUME IInv, NEW o \in Ops, NEW x \in Working \cup Cleaning, Goes(o, x)
  PROVE  /\ DOMAIN actor' = Ops /\ \A p \in Ops \ {o} : actor'[p] = actor[p]
         /\ actor'[o] = [actor[o] EXCEPT !.at = x]
         /\ actor'[o] \in Actors /\ actor'[o].at = x /\ actor'[o].attempted = actor[o].attempted
         /\ actor'[o].stopped = actor[o].stopped /\ actor'[o].revoked = actor[o].revoked
<1>1. actor[o] \in Actors /\ DOMAIN actor = Ops
  BY Typed
<1>2. /\ DOMAIN actor' = Ops /\ \A p \in Ops \ {o} : actor'[p] = actor[p]
      /\ actor'[o] = [actor[o] EXCEPT !.at = x]
  BY <1>1 DEF Goes
<1> QED
  BY <1>1, <1>2 DEF Actors

LEMMA KeptActorFails ==
  ASSUME IInv, NEW o \in Ops, ActorFails(o)
  PROVE  IInv'
<1>1. actor[o].at \in Working /\ Goes(o, "withdraw") /\ UNCHANGED <<Outside, mem, disk, fenced, world>>
  BY DEF ActorFails, journal, records
<1>2. "withdraw" \in Working \cup Cleaning /\ actor[o].at \notin {"none", "leaving"}
  BY <1>1 DEF Cleaning, Working
<1>3. Local(mem[o], disk[o], helper[o], site[o], browser[o], actor'[o], now)
  <2>1. /\ Local(mem[o], disk[o], helper[o], site[o], browser[o], actor[o], now)
        /\ actor'[o] \in Actors /\ actor'[o].attempted = actor[o].attempted
        /\ actor'[o].at = "withdraw"
    BY <1>1, <1>2, Typed, GoesShape
  <2> QED
    BY <1>1, <2>1, LocalGoes
<1>4. Sound(o)'
  BY <1>1, <1>3 DEF Sound, Outside, world
<1> QED
  BY <1>1, <1>2, <1>4, Typed, GoesShape, OutsideStepKept DEF world

LEMMA KeptGuardContext ==
  ASSUME IInv, NEW o \in Ops, GuardContext(o)
  PROVE  IInv'
<1>1. /\ actor[o].at = "guard" /\ mem[o].state = "active" /\ Goes(o, "import")
      /\ UNCHANGED <<Outside, mem, disk, fenced, world>>
  BY DEF GuardContext, journal, records
<1>2. "import" \in Working \cup Cleaning /\ actor[o].at \notin {"none", "leaving"}
  BY <1>1 DEF Cleaning, Working
<1>3. Local(mem[o], disk[o], helper[o], site[o], browser[o], actor'[o], now)
  <2>1. /\ Local(mem[o], disk[o], helper[o], site[o], browser[o], actor[o], now)
        /\ actor'[o] \in Actors /\ actor'[o].attempted = actor[o].attempted
        /\ actor'[o].at = "import"
    BY <1>1, <1>2, Typed, GoesShape
  <2> QED
    BY <1>1, <2>1, LocalGoes
<1>4. Sound(o)'
  BY <1>1, <1>3 DEF Sound, Outside, world
<1> QED
  BY <1>1, <1>2, <1>4, Typed, GoesShape, OutsideStepKept DEF world

LEMMA KeptBeginPrivateLogin ==
  ASSUME IInv, NEW o \in Ops, BeginPrivateLogin(o)
  PROVE  IInv'
<1>1. /\ actor[o].at = "authority" /\ now < mem[o].born + LoginWindow
      /\ UNCHANGED <<Outside, mem, disk, fenced, site, browser>>
  BY DEF BeginPrivateLogin, Handoff, records
<1>2. actor[o].at \in Working /\ actor[o].at \notin {"none", "leaving"}
  BY <1>1 DEF Working
<1>3. /\ actor[o] \in Actors /\ DOMAIN actor = Ops /\ now \in Nat
      /\ DOMAIN helper = Ops /\ DOMAIN site = Ops /\ DOMAIN browser = Ops
      /\ Local(mem[o], disk[o], helper[o], site[o], browser[o], actor[o], now)
  BY Typed
<1>4. /\ DOMAIN actor' = Ops /\ \A p \in Ops \ {o} : actor'[p] = actor[p]
      /\ actor'[o] \in Actors /\ actor'[o].at \in {"journal", "withdraw"} /\ actor'[o].attempted
  <2>1. CASE actor' = [actor EXCEPT ![o].at = "journal", ![o].revoker = TRUE,
                                    ![o].attempted = TRUE, ![o].identified = TRUE]
    BY <1>3, <2>1 DEF Actors, Working
  <2>2. CASE actor' = [actor EXCEPT ![o].at = "withdraw", ![o].revoker = TRUE,
                                    ![o].attempted = TRUE]
    BY <1>3, <2>2 DEF Actors, Cleaning
  <2> QED
    BY <2>1, <2>2 DEF BeginPrivateLogin
<1>5. PICK u \in {NoUnit, Unit("waiting")} : helper' = [helper EXCEPT ![o] = u]
  BY DEF BeginPrivateLogin
<1>6. u \in Units /\ (Alive(u) => u.at = "waiting" /\ u.since = now)
  BY <1>3, <1>5 DEF NoUnit, Unit, Units, Alive
<1>7. DOMAIN helper' = Ops /\ helper'[o] = u /\ \A p \in Ops \ {o} : helper'[p] = helper[p]
  BY <1>3, <1>5
<1>8. Local(mem[o], disk[o], u, site[o], browser[o], actor'[o], now)
  BY <1>1, <1>2, <1>3, <1>4, <1>6, LocalHelper
<1>9. Sound(o)'
  BY <1>1, <1>7, <1>8 DEF Sound, Outside
<1> QED
  BY <1>1, <1>2, <1>3, <1>4, <1>7, <1>9, OutsideStepKept

LEMMA KeptPrepareBrowser ==
  ASSUME IInv, NEW o \in Ops, PrepareBrowser(o)
  PROVE  IInv'
<1>1. /\ actor[o].at = "connect" /\ now < mem[o].born + LoginWindow
      /\ UNCHANGED <<Outside, mem, disk, fenced, helper, site>>
  BY DEF PrepareBrowser, Handoff, records
<1>2. actor[o].at \in Working /\ actor[o].at \notin {"none", "leaving"}
  BY <1>1 DEF Working
<1>3. /\ actor[o] \in Actors /\ DOMAIN actor = Ops /\ now \in Nat
      /\ DOMAIN helper = Ops /\ DOMAIN site = Ops /\ DOMAIN browser = Ops
      /\ Local(mem[o], disk[o], helper[o], site[o], browser[o], actor[o], now)
  BY Typed
<1>4. /\ DOMAIN actor' = Ops /\ \A p \in Ops \ {o} : actor'[p] = actor[p]
      /\ actor'[o] \in Actors /\ actor'[o].at \in {"activate", "withdraw"}
      /\ actor'[o].attempted = actor[o].attempted
  <2>1. CASE actor' = [actor EXCEPT ![o].at = "activate", ![o].connected = TRUE]
    BY <1>3, <2>1 DEF Actors, Working
  <2>2. CASE actor' = [actor EXCEPT ![o].at = "withdraw", ![o].connected = TRUE]
    BY <1>3, <2>2 DEF Actors, Cleaning
  <2> QED
    BY <2>1, <2>2 DEF PrepareBrowser
<1>5. PICK u \in {NoUnit, Unit("running")} : browser' = [browser EXCEPT ![o] = u]
  BY DEF PrepareBrowser
<1>6. u \in Units /\ (Alive(u) => u.at = "running" /\ u.since = now)
  BY <1>3, <1>5 DEF NoUnit, Unit, Units, Alive
<1>7. DOMAIN browser' = Ops /\ browser'[o] = u /\ \A p \in Ops \ {o} : browser'[p] = browser[p]
  BY <1>3, <1>5
<1>8. Local(mem[o], disk[o], helper[o], site[o], u, actor'[o], now)
  BY <1>1, <1>2, <1>3, <1>4, <1>6, LocalBrowser
<1>9. Sound(o)'
  BY <1>1, <1>7, <1>8 DEF Sound, Outside
<1> QED
  BY <1>1, <1>2, <1>3, <1>4, <1>7, <1>9, OutsideStepKept

LEMMA KeptSendSource ==
  ASSUME IInv, NEW o \in Ops, SendSource(o)
  PROVE  IInv'
<1>1. /\ actor[o].at = "send" /\ helper[o].at = "waiting" /\ Goes(o, "reply")
      /\ helper' = [helper EXCEPT ![o].at = "armed"]
      /\ UNCHANGED <<Outside, mem, disk, fenced, site, browser>>
  BY DEF SendSource, journal, records
<1>2. "reply" \in Working \cup Cleaning /\ actor[o].at \notin {"none", "leaving"}
  BY <1>1 DEF Working
<1>3. /\ DOMAIN helper = Ops /\ DOMAIN site = Ops /\ DOMAIN browser = Ops /\ helper[o] \in Units
      /\ Local(mem[o], disk[o], helper[o], site[o], browser[o], actor[o], now)
  BY Typed
<1>4. /\ DOMAIN helper' = Ops /\ \A p \in Ops \ {o} : helper'[p] = helper[p]
      /\ helper'[o] \in Units /\ helper'[o].at = "armed" /\ helper'[o].since = helper[o].since
  BY <1>1, <1>3 DEF Units
<1>5. /\ DOMAIN actor' = Ops /\ \A p \in Ops \ {o} : actor'[p] = actor[p]
      /\ actor'[o] \in Actors /\ actor'[o].at = "reply" /\ actor'[o].attempted = actor[o].attempted
  BY <1>1, <1>2, GoesShape
<1>6. Local(mem[o], disk[o], helper'[o], site[o], browser[o], actor'[o], now)
  <2>1. actor[o].at = "send" /\ helper[o].at = "waiting"
    BY <1>1
  <2> QED
    BY <2>1, <1>3, <1>4, <1>5, LocalSend, Zenon
<1>7. Sound(o)'
  BY <1>1, <1>6 DEF Sound, Outside
<1> QED
  BY <1>1, <1>2, <1>3, <1>4, <1>5, <1>7, OutsideStepKept

LEMMA KeptImportCookies ==
  ASSUME IInv, NEW o \in Ops, ImportCookies(o)
  PROVE  IInv'
<1>1. /\ actor[o].at = "import" /\ browser[o].at = "running" /\ Goes(o, "ready")
      /\ browser' = [browser EXCEPT ![o].at = "imported"]
      /\ UNCHANGED <<Outside, mem, disk, fenced, helper, site>>
  BY DEF ImportCookies, journal, records
<1>2. "ready" \in Working \cup Cleaning /\ actor[o].at \notin {"none", "leaving"}
  BY <1>1 DEF Working
<1>3. /\ DOMAIN helper = Ops /\ DOMAIN site = Ops /\ DOMAIN browser = Ops /\ browser[o] \in Units
      /\ Local(mem[o], disk[o], helper[o], site[o], browser[o], actor[o], now)
  BY Typed
<1>4. /\ DOMAIN browser' = Ops /\ \A p \in Ops \ {o} : browser'[p] = browser[p]
      /\ browser'[o] \in Units /\ browser'[o].at = "imported" /\ browser'[o].since = browser[o].since
  BY <1>1, <1>3 DEF Units
<1>5. /\ DOMAIN actor' = Ops /\ \A p \in Ops \ {o} : actor'[p] = actor[p]
      /\ actor'[o] \in Actors /\ actor'[o].at = "ready" /\ actor'[o].attempted = actor[o].attempted
  BY <1>1, <1>2, GoesShape
<1>6. Local(mem[o], disk[o], helper[o], site[o], browser'[o], actor'[o], now)
  <2>1. actor[o].at = "import" /\ browser[o].at = "running"
    BY <1>1
  <2> QED
    BY <2>1, <1>3, <1>4, <1>5, LocalImport, Zenon
<1>7. Sound(o)'
  BY <1>1, <1>6 DEF Sound, Outside
<1> QED
  BY <1>1, <1>2, <1>3, <1>4, <1>5, <1>7, OutsideStepKept

LEMMA KeptTerminateHelper ==
  ASSUME IInv, NEW o \in Ops, TerminateHelper(o)
  PROVE  IInv'
<1>1. actor[o].at = "stop helper" /\ UNCHANGED <<Outside, mem, disk, fenced, site, browser>>
  BY DEF TerminateHelper, records
<1>2. /\ actor[o] \in Actors /\ DOMAIN actor = Ops /\ helper[o] \in Units
      /\ DOMAIN helper = Ops /\ DOMAIN site = Ops /\ DOMAIN browser = Ops
      /\ Local(mem[o], disk[o], helper[o], site[o], browser[o], actor[o], now)
  BY Typed
<1>3. PICK done \in IF actor[o].identified THEN BOOLEAN ELSE {~actor[o].attempted} :
        /\ actor' = [actor EXCEPT ![o].at = "revoke", ![o].stopped = done]
        /\ helper' = IF actor[o].identified /\ done
                     THEN [helper EXCEPT ![o] = Killed(@)] ELSE helper
  BY DEF TerminateHelper
<1>4. done \in BOOLEAN /\ (done => actor[o].identified \/ ~actor[o].attempted)
  BY <1>2, <1>3 DEF Actors
<1>5. /\ DOMAIN actor' = Ops /\ \A p \in Ops \ {o} : actor'[p] = actor[p]
      /\ actor'[o] \in Actors /\ actor'[o].at = "revoke"
      /\ actor'[o].attempted = actor[o].attempted /\ (actor'[o].stopped <=> done)
  BY <1>2, <1>3, <1>4 DEF Actors, Cleaning
<1>6. /\ DOMAIN helper' = Ops /\ \A p \in Ops \ {o} : helper'[p] = helper[p]
      /\ helper'[o] \in {helper[o], Killed(helper[o])}
      /\ actor[o].identified /\ done => helper'[o] = Killed(helper[o])
  BY <1>2, <1>3
<1>7. done => ~Alive(helper'[o])
  <2>1. CASE done /\ actor[o].identified
    BY <1>2, <1>6, <2>1, UnitKilled
  <2>2. CASE done /\ ~actor[o].identified
    <3>1. ~Alive(helper[o])
      BY <1>1, <1>2, <1>4, <2>2 DEF Local, ActorOk
    <3> QED
      BY <1>2, <1>6, <3>1, UnitKilled
  <2> QED
    BY <2>1, <2>2
<1>8. Local(mem[o], disk[o], helper'[o], site[o], browser[o], actor'[o], now)
  <2>1. Cleans(actor[o], actor'[o], helper'[o], site[o], browser[o])
    BY <1>1, <1>5, <1>7 DEF Cleans
  <2>2. /\ helper'[o] \in {helper[o], Killed(helper[o])} /\ site[o] \in {site[o], 0}
        /\ browser[o] \in {browser[o], Killed(browser[o])}
        /\ actor'[o] \in Actors /\ actor'[o].attempted = actor[o].attempted
    BY <1>2, <1>5, <1>6
  <2>3. Local(mem[o], disk[o], helper[o], site[o], browser[o], actor[o], now)
    BY <1>2
  <2> QED
    BY <2>1, <2>2, <2>3, LocalCleanup
<1>9. Sound(o)'
  BY <1>1, <1>8 DEF Sound, Outside
<1> QED
  BY <1>1, <1>2, <1>5, <1>6, <1>9, OutsideStepKept

LEMMA KeptRevokeWebsite ==
  ASSUME IInv, NEW o \in Ops, RevokeWebsite(o)
  PROVE  IInv'
<1>1. actor[o].at = "revoke" /\ UNCHANGED <<Outside, mem, disk, fenced, helper, browser>>
  BY DEF RevokeWebsite, records
<1>2. /\ actor[o] \in Actors /\ DOMAIN actor = Ops
      /\ DOMAIN helper = Ops /\ DOMAIN site = Ops /\ DOMAIN browser = Ops
      /\ Local(mem[o], disk[o], helper[o], site[o], browser[o], actor[o], now)
  BY Typed
<1>3. PICK done \in BOOLEAN, ended \in BOOLEAN :
        /\ done => ended
        /\ actor' = [actor EXCEPT ![o].at = "stop browser", ![o].revoked = done]
        /\ site' = IF ended THEN SiteWithout(IF actor[o].session THEN {o} ELSE SameAccount(o))
                   ELSE site
  BY DEF RevokeWebsite
<1>4. /\ DOMAIN actor' = Ops /\ \A p \in Ops \ {o} : actor'[p] = actor[p]
      /\ actor'[o] \in Actors /\ actor'[o].at = "stop browser"
      /\ actor'[o].attempted = actor[o].attempted /\ actor'[o].stopped = actor[o].stopped
      /\ (actor'[o].revoked <=> done)
  BY <1>2, <1>3 DEF Actors, Cleaning
<1>5. /\ DOMAIN site' = Ops /\ \A p \in Ops : site'[p] \in {site[p], 0}
      /\ done => site'[o] = 0
  <2>1. o \in (IF actor[o].session THEN {o} ELSE SameAccount(o))
    BY DEF SameAccount
  <2> QED
    BY <1>2, <1>3, <2>1 DEF SiteWithout
<1>6. Local(mem[o], disk[o], helper[o], site'[o], browser[o], actor'[o], now)
  <2>1. Cleans(actor[o], actor'[o], helper[o], site'[o], browser[o])
    BY <1>1, <1>4, <1>5 DEF Cleans
  <2>2. /\ helper[o] \in {helper[o], Killed(helper[o])} /\ site'[o] \in {site[o], 0}
        /\ browser[o] \in {browser[o], Killed(browser[o])}
        /\ actor'[o] \in Actors /\ actor'[o].attempted = actor[o].attempted
    BY <1>2, <1>4, <1>5
  <2>3. Local(mem[o], disk[o], helper[o], site[o], browser[o], actor[o], now)
    BY <1>2
  <2> QED
    BY <2>1, <2>2, <2>3, LocalCleanup
<1>7. Sound(o)'
  BY <1>1, <1>6 DEF Sound, Outside
<1> QED
  BY <1>1, <1>2, <1>4, <1>5, <1>7, OutsideStepKept

LEMMA KeptTerminateBrowser ==
  ASSUME IInv, NEW o \in Ops, TerminateBrowser(o)
  PROVE  IInv'
<1>1. actor[o].at = "stop browser" /\ UNCHANGED <<Outside, mem, disk, fenced, helper, site>>
  BY DEF TerminateBrowser, records
<1>2. /\ actor[o] \in Actors /\ DOMAIN actor = Ops /\ browser[o] \in Units
      /\ DOMAIN helper = Ops /\ DOMAIN site = Ops /\ DOMAIN browser = Ops
      /\ Local(mem[o], disk[o], helper[o], site[o], browser[o], actor[o], now)
  BY Typed
<1>3. PICK done \in BOOLEAN :
        /\ actor' = [actor EXCEPT ![o].at = "reconcile", ![o].stopped = @ /\ done]
        /\ browser' = IF done THEN [browser EXCEPT ![o] = Killed(@)] ELSE browser
  BY DEF TerminateBrowser
<1>4. /\ DOMAIN actor' = Ops /\ \A p \in Ops \ {o} : actor'[p] = actor[p]
      /\ actor'[o] \in Actors /\ actor'[o].at = "reconcile"
      /\ actor'[o].attempted = actor[o].attempted /\ actor'[o].revoked = actor[o].revoked
      /\ (actor'[o].stopped => actor[o].stopped /\ done)
  BY <1>2, <1>3 DEF Actors, Cleaning
<1>5. /\ DOMAIN browser' = Ops /\ \A p \in Ops \ {o} : browser'[p] = browser[p]
      /\ browser'[o] \in {browser[o], Killed(browser[o])}
      /\ done => browser'[o] = Killed(browser[o])
  BY <1>2, <1>3
<1>6. Local(mem[o], disk[o], helper[o], site[o], browser'[o], actor'[o], now)
  <2>1. Cleans(actor[o], actor'[o], helper[o], site[o], browser'[o])
    BY <1>1, <1>2, <1>4, <1>5, UnitKilled DEF Cleans
  <2>2. /\ helper[o] \in {helper[o], Killed(helper[o])} /\ site[o] \in {site[o], 0}
        /\ browser'[o] \in {browser[o], Killed(browser[o])}
        /\ actor'[o] \in Actors /\ actor'[o].attempted = actor[o].attempted
    BY <1>2, <1>4, <1>5
  <2>3. Local(mem[o], disk[o], helper[o], site[o], browser[o], actor[o], now)
    BY <1>2
  <2> QED
    BY <2>1, <2>2, <2>3, LocalCleanup
<1>7. Sound(o)'
  BY <1>1, <1>6 DEF Sound, Outside
<1> QED
  BY <1>1, <1>2, <1>4, <1>5, <1>7, OutsideStepKept

\* The helper logs in; if it still can, its operation is neither stopped nor cleaned up.
LEMMA KeptHelperLogsIn ==
  ASSUME IInv, NEW o \in Ops, HelperLogsIn(o)
  PROVE  IInv'
<1>1. /\ helper[o].at = "armed"
      /\ helper' = [helper EXCEPT ![o].at = "answered", ![o].due = now + SessionMax]
      /\ site' = [site EXCEPT ![o] = now + SessionMax]
      /\ UNCHANGED <<now, scenario, candidate, mem, disk, fenced, actor, started, terminated,
                     pass, published, browser>>
  BY DEF HelperLogsIn, journal, records, dispatcher
<1>2. /\ DOMAIN helper = Ops /\ DOMAIN site = Ops /\ helper[o] \in Units /\ now \in Nat
      /\ Local(mem[o], disk[o], helper[o], site[o], browser[o], actor[o], now)
  BY Typed
<1>3. /\ DOMAIN helper' = Ops /\ \A p \in Ops \ {o} : helper'[p] = helper[p]
      /\ helper'[o] \in Units /\ helper'[o].at = "answered" /\ helper'[o].since = helper[o].since
  <2>1. now + SessionMax \in Nat
    BY <1>2, Lifetimes
  <2> QED
    BY <1>1, <1>2, <2>1 DEF Units
<1>4. DOMAIN site' = Ops /\ site'[o] = now + SessionMax /\ \A p \in Ops \ {o} : site'[p] = site[p]
  BY <1>1, <1>2
<1>5. Local(mem[o], disk[o], helper'[o], now + SessionMax, browser[o], actor[o], now)
  BY <1>1, <1>2, <1>3, LocalLogsIn
<1>6. Sound(o)'
  BY <1>1, <1>4, <1>5 DEF Sound
<1>7. Frame(o) /\ Alone(o)
  BY <1>1, <1>3, <1>4 DEF Frame, Alone, IInv, Shaped
<1>8. Booked(o)'
  BY <1>1 DEF IInv, Booked
<1>9. Alive(helper[o])
  BY <1>1 DEF Alive
<1>10. ASSUME NEW p \in Ops PROVE Recovering(p)'
  <2>1. CASE p = o
    BY <1>1, <1>9, <2>1 DEF IInv, Recovering, Stopped
  <2>2. CASE p # o
    BY <1>1, <1>3, <1>4, <2>2 DEF IInv, Recovering, Stopped
  <2> QED
    BY <2>1, <2>2
<1>11. Shaped'
  BY <1>1, <1>3, <1>4 DEF IInv, Shaped
<1> QED
  BY <1>6, <1>7, <1>8, <1>10, <1>11, FrameKept DEF IInv

-----------------------------------------------------------------------------
(* Steps that write the record of o.                                       *)

Wrote(o) ==
  /\ DOMAIN mem' = Ops /\ DOMAIN disk' = Ops
  /\ \A p \in Ops \ {o} : mem'[p] = mem[p] /\ disk'[p] = disk[p]
  /\ disk = mem /\ disk'[o] \in {mem[o], mem'[o]}
  /\ ~fenced' => disk' = mem'

LEMMA WriteShape ==
  ASSUME IInv, NEW o \in Ops, NEW next, NEW permits, DOMAIN next = Ops,
         \A p \in Ops \ {o} : next[p] = mem[p],
         Saved(next, permits) \/ NotSaved(disk, next)
  PROVE  Wrote(o) /\ mem' = next /\ (Saved(next, permits) => disk' = mem' /\ ~fenced')
<1>1. disk = mem /\ DOMAIN disk = Ops
  BY DEF IInv, Shaped, Saved, NotSaved
<1>2. CASE Saved(next, permits)
  BY <1>1, <1>2 DEF Saved, Wrote
<1>3. CASE NotSaved(disk, next)
  <2>1. /\ mem' = next /\ disk' \in {disk, next} /\ fenced' = TRUE /\ ~fenced
    BY <1>3 DEF NotSaved
  <2>2. ~Saved(next, permits)
    BY <2>1 DEF Saved
  <2> QED
    BY <1>1, <2>1, <2>2 DEF Wrote
<1> QED
  BY <1>2, <1>3

\* A write of the actor of o keeps the invariant if the new record is sound.
LEMMA WriteStepKept ==
  ASSUME IInv, NEW o \in Ops, actor[o].at \notin {"none", "leaving"}, Wrote(o),
         UNCHANGED <<now, scenario, candidate, dispatcher, world>>,
         DOMAIN actor' = Ops, \A p \in Ops \ {o} : actor'[p] = actor[p],
         RecordOk(mem'[o], now), Covers(mem'[o], helper[o], site[o], browser[o]),
         ActorOk(actor'[o], mem'[o], disk'[o], helper[o], site[o], browser[o], now),
         mem'[o].state \in Unfinished => mem[o].state \in Unfinished,
         published' \subseteq published \cup {o},
         o \in published' => o \in published
                             \/ (mem'[o].state \notin Unfinished /\ disk'[o].state \notin Unfinished)
  PROVE  IInv'
<1>1. UNCHANGED <<started, terminated, pass, helper, site, browser>>
  BY DEF dispatcher, world
<1>2. /\ Local(mem[o], disk[o], helper[o], site[o], browser[o], actor[o], now)
      /\ DOMAIN helper = Ops /\ DOMAIN site = Ops /\ DOMAIN browser = Ops
  BY Typed
<1>3. Local(mem'[o], disk'[o], helper[o], site[o], browser[o], actor'[o], now)
  BY <1>2 DEF Local, Wrote
<1>4. Sound(o)'
  BY <1>1, <1>3 DEF Sound
<1>5. ActorFrame(o)
  BY <1>1, <1>2 DEF ActorFrame, Frame, Wrote
<1>6. disk'[o].state \in Unfinished => disk[o].state \in Unfinished
  BY DEF Wrote
<1> QED
  BY <1>4, <1>5, <1>6, ActorStepKept

LEMMA KeptRecordHelper ==
  ASSUME IInv, NEW o \in Ops, RecordHelper(o)
  PROVE  IInv'
<1>1. /\ actor[o].at = "journal" /\ mem[o].state = "reserved" /\ ~mem[o].handle
      /\ UNCHANGED <<now, scenario, candidate, dispatcher, world>> /\ published' = published
  BY DEF RecordHelper, HelperPending, Outside
<1>2. /\ Local(mem[o], disk[o], helper[o], site[o], browser[o], actor[o], now)
      /\ DOMAIN mem = Ops /\ mem[o] \in SessionRecords
  BY Typed
<1>3. /\ DOMAIN WithHelper(o) = Ops /\ WithHelper(o)[o] = [mem[o] EXCEPT !.helper = TRUE]
      /\ \A p \in Ops \ {o} : WithHelper(o)[p] = mem[p]
  BY <1>2 DEF WithHelper
<1>4. \/ Saved(WithHelper(o), Permitted(o)) /\ Goes(o, "send")
      \/ NotSaved(disk, WithHelper(o)) /\ Goes(o, "withdraw")
  BY DEF RecordHelper
<1>5. Wrote(o) /\ mem' = WithHelper(o)
      /\ (Saved(WithHelper(o), Permitted(o)) => disk' = mem' /\ ~fenced')
  BY <1>3, <1>4, WriteShape
<1>6. /\ RecordOk(mem'[o], now) /\ Covers(mem'[o], helper[o], site[o], browser[o])
      /\ mem'[o].helper /\ mem'[o].state = "reserved"
  BY <1>1, <1>2, <1>3, <1>5, RecordWithHelper DEF Local
<1>7. /\ DOMAIN actor' = Ops /\ \A p \in Ops \ {o} : actor'[p] = actor[p]
      /\ actor'[o] \in Actors /\ actor'[o].attempted = actor[o].attempted
      /\ \/ actor'[o].at = "send" /\ disk' = mem'
         \/ actor'[o].at = "withdraw"
  <2>1. "send" \in Working \cup Cleaning /\ "withdraw" \in Working \cup Cleaning
    BY DEF Working, Cleaning
  <2> QED
    BY <1>4, <1>5, <2>1, GoesShape
<1>8. ActorOk(actor'[o], mem'[o], disk'[o], helper[o], site[o], browser[o], now)
  BY <1>1, <1>2, <1>6, <1>7 DEF Local, ActorOk, Working, Unfinished
<1>9. actor[o].at \notin {"none", "leaving"} /\ mem[o].state \in Unfinished
  BY <1>1 DEF Unfinished
<1> QED
  BY <1>1, <1>5, <1>6, <1>7, <1>8, <1>9, WriteStepKept

LEMMA KeptStageReply ==
  ASSUME IInv, NEW o \in Ops, StageReply(o)
  PROVE  IInv'
<1>1. /\ actor[o].at = "reply" /\ mem[o].state = "reserved" /\ ~mem[o].handle /\ mem[o].helper
      /\ helper[o].due > now
      /\ UNCHANGED <<now, scenario, candidate, dispatcher, world>> /\ published' = published
  BY DEF StageReply, LoginPending, ValidReply, Outside
<1>2. /\ Local(mem[o], disk[o], helper[o], site[o], browser[o], actor[o], now)
      /\ DOMAIN mem = Ops /\ mem[o] \in SessionRecords /\ actor[o] \in Actors /\ DOMAIN actor = Ops
      /\ now \in Nat /\ helper[o].due \in Nat
  BY Typed DEF Units
<1>3. /\ DOMAIN WithLogin(o) = Ops
      /\ WithLogin(o)[o] = [mem[o] EXCEPT !.handle = TRUE, !.due = helper[o].due]
      /\ \A p \in Ops \ {o} : WithLogin(o)[p] = mem[p]
  BY <1>2 DEF WithLogin
<1>4. \/ /\ Saved(WithLogin(o), Withdrawn(o))
         /\ actor' = [actor EXCEPT ![o].at = "connect", ![o].session = TRUE]
      \/ NotSaved(disk, WithLogin(o)) /\ Goes(o, "withdraw")
  BY DEF StageReply
<1>5. Wrote(o) /\ mem' = WithLogin(o)
      /\ (Saved(WithLogin(o), Withdrawn(o)) => disk' = mem' /\ ~fenced')
  BY <1>3, <1>4, WriteShape
<1>6. /\ RecordOk(mem'[o], now) /\ Covers(mem'[o], helper[o], site[o], browser[o])
      /\ mem'[o].state = "reserved"
  <2>1. RecordOk(mem[o], now) /\ Covers(mem[o], helper[o], site[o], browser[o])
    BY <1>2 DEF Local
  <2> DEFINE n == mem'[o]  due == helper[o].due
  <2>2. n = [mem[o] EXCEPT !.handle = TRUE, !.due = due]
    BY <1>3, <1>5, Zenon
  <2>3. /\ mem[o].state = "reserved" /\ ~mem[o].handle /\ mem[o].helper
        /\ due > now /\ now \in Nat /\ due \in Nat
    BY <1>1, <1>2
  <2> HIDE DEF n, due
  <2>4. /\ n \in SessionRecords /\ n.state = "reserved" /\ n.born = mem[o].born /\ n.helper
        /\ n.handle /\ n.due = due /\ n.browser = mem[o].browser /\ n.closed = mem[o].closed
    BY <1>2, <2>2, <2>3 DEF SessionRecords
  <2>5. RecordOk(n, now) /\ Covers(n, helper[o], site[o], browser[o])
    BY <2>1, <2>3, <2>4, RecordWithLogin
  <2> QED
    BY <2>4, <2>5 DEF n
<1>7. /\ DOMAIN actor' = Ops /\ \A p \in Ops \ {o} : actor'[p] = actor[p]
      /\ actor'[o] \in Actors /\ actor'[o].attempted = actor[o].attempted
      /\ \/ actor'[o].at = "connect" /\ disk' = mem'
         \/ actor'[o].at = "withdraw"
  <2>1. CASE Goes(o, "withdraw")
    <3>1. "withdraw" \in Working \cup Cleaning
      BY DEF Cleaning
    <3> QED
      BY <2>1, <3>1, GoesShape
  <2>2. CASE /\ Saved(WithLogin(o), Withdrawn(o))
             /\ actor' = [actor EXCEPT ![o].at = "connect", ![o].session = TRUE]
    BY <1>2, <1>5, <2>2 DEF Actors, Working
  <2> QED
    BY <1>4, <2>1, <2>2
<1>8. ActorOk(actor'[o], mem'[o], disk'[o], helper[o], site[o], browser[o], now)
  BY <1>1, <1>2, <1>6, <1>7 DEF Local, ActorOk, Working, Unfinished
<1>9. actor[o].at \notin {"none", "leaving"} /\ mem[o].state \in Unfinished
  BY <1>1 DEF Unfinished
<1> QED
  BY <1>1, <1>5, <1>6, <1>7, <1>8, <1>9, WriteStepKept

LEMMA KeptActivate ==
  ASSUME IInv, NEW o \in Ops, Activate(o)
  PROVE  IInv'
<1>1. /\ actor[o].at = "activate" /\ mem[o].state = "reserved" /\ mem[o].handle /\ mem[o].helper
      /\ UNCHANGED <<now, scenario, candidate, dispatcher, world>> /\ published' = published
  BY DEF Activate, ActivationPending, Outside
<1>2. /\ Local(mem[o], disk[o], helper[o], site[o], browser[o], actor[o], now)
      /\ DOMAIN mem = Ops /\ mem[o] \in SessionRecords
  BY Typed
<1>3. /\ DOMAIN Activated(o) = Ops
      /\ Activated(o)[o] = [mem[o] EXCEPT !.state = "active", !.browser = TRUE]
      /\ \A p \in Ops \ {o} : Activated(o)[p] = mem[p]
  BY <1>2 DEF Activated
<1>4. \/ Saved(Activated(o), permit) /\ Goes(o, "guard")
      \/ NotSaved(disk, Activated(o)) /\ Goes(o, "withdraw")
  BY DEF Activate
<1>5. Wrote(o) /\ mem' = Activated(o)
      /\ (Saved(Activated(o), permit) => disk' = mem' /\ ~fenced')
  BY <1>3, <1>4, WriteShape
<1>6. /\ RecordOk(mem'[o], now) /\ Covers(mem'[o], helper[o], site[o], browser[o])
      /\ mem'[o].state = "active"
  <2> DEFINE r == mem[o]  n == mem'[o]  h == helper[o]  s == site[o]  b == browser[o]
  <2>1. /\ RecordOk(r, now) /\ Covers(r, h, s, b)
        /\ r.state = "reserved" /\ r.handle /\ r.helper
    BY <1>1, <1>2 DEF Local
  <2>2. n = [r EXCEPT !.state = "active", !.browser = TRUE]
    BY <1>3, <1>5, Zenon
  <2> HIDE DEF r, n, h, s, b
  <2>3. RecordOk(n, now) /\ Covers(n, h, s, b) /\ n.state = "active"
    BY <2>1, <2>2, RecordActivated, Zenon
  <2> QED
    BY <2>3 DEF n, h, s, b
<1>7. /\ DOMAIN actor' = Ops /\ \A p \in Ops \ {o} : actor'[p] = actor[p]
      /\ actor'[o] \in Actors /\ actor'[o].attempted = actor[o].attempted
      /\ \/ actor'[o].at = "guard" /\ disk' = mem'
         \/ actor'[o].at = "withdraw"
  <2>1. "guard" \in Working \cup Cleaning /\ "withdraw" \in Working \cup Cleaning
    BY DEF Working, Cleaning
  <2> QED
    BY <1>4, <1>5, <2>1, GoesShape
<1>8. ActorOk(actor'[o], mem'[o], disk'[o], helper[o], site[o], browser[o], now)
  BY <1>1, <1>2, <1>6, <1>7 DEF Local, ActorOk, Working, Unfinished
<1>9. actor[o].at \notin {"none", "leaving"} /\ mem[o].state \in Unfinished
  BY <1>1 DEF Unfinished
<1> QED
  BY <1>1, <1>5, <1>6, <1>7, <1>8, <1>9, WriteStepKept

LEMMA RecordRevoking ==
  ASSUME NEW r, NEW h, NEW s, NEW b, NEW t, RecordOk(r, t), Covers(r, h, s, b)
  PROVE  /\ RecordOk(Revoking(r), t) /\ Covers(Revoking(r), h, s, b)
         /\ Revoking(r).state \in Unfinished <=> r.state \in Unfinished
         /\ Revoking(r).due = r.due /\ Revoking(r).closed = r.closed
         /\ Revoking(r).state = "none" <=> r.state = "none"
<1>1. CASE r.state \in Unfinished
  <2>1. Revoking(r) = [r EXCEPT !.state = "revoking"]
    BY <1>1 DEF Revoking
  <2>2. "none" \notin Unfinished
    BY DEF Unfinished
  <2>3. /\ RecordOk(Revoking(r), t) /\ Covers(Revoking(r), h, s, b) /\ Revoking(r).state \in Unfinished
        /\ Revoking(r).due = r.due /\ Revoking(r).closed = r.closed
    BY <1>1, <2>1, RecordMarked, Zenon
  <2> QED
    BY <1>1, <2>2, <2>3
<1>2. CASE r.state \notin Unfinished
  BY <1>2 DEF Revoking
<1> QED
  BY <1>1, <1>2

\* What reconcile makes of a record: it closes it only when nothing is left.
LEMMA RecordReconciled ==
  ASSUME NEW r, NEW n, NEW h, NEW s, NEW b, now \in Nat \ {0}, RecordOk(r, now), Covers(r, h, s, b),
         \/ r.state \notin Unfinished /\ n = r
         \/ r.state \in Unfinished /\ n = Closed(r) /\ ~Alive(h) /\ s = 0 /\ ~Alive(b)
         \/ r.state \in Unfinished /\ n = [r EXCEPT !.state = "blocked"]
  PROVE  /\ RecordOk(n, now) /\ Covers(n, h, s, b)
         /\ n.state \in Unfinished => r.state \in Unfinished
         /\ n.due = r.due /\ n.closed \in {r.closed, now}
         /\ n.state = "none" <=> r.state = "none"
<1>0. "none" \notin Unfinished
  BY DEF Unfinished
<1>1. CASE r.state \notin Unfinished /\ n = r
  BY <1>1
<1>2. CASE r.state \in Unfinished /\ n = Closed(r) /\ ~Alive(h) /\ s = 0 /\ ~Alive(b)
  BY <1>0, <1>2, RecordClosed
<1>3. CASE r.state \in Unfinished /\ n = [r EXCEPT !.state = "blocked"]
  BY <1>0, <1>3, RecordMarked
<1> QED
  BY <1>1, <1>2, <1>3

LEMMA KeptWithdrawContext ==
  ASSUME IInv, NEW o \in Ops, WithdrawContext(o)
  PROVE  IInv'
<1> DEFINE next == [mem EXCEPT ![o] = Revoking(@)]
<1>1. /\ actor[o].at = "withdraw" /\ Goes(o, "stop helper") /\ UNCHANGED <<Outside, world>>
      /\ UNCHANGED <<now, scenario, candidate, dispatcher, world>> /\ published' = published
  BY DEF WithdrawContext, Outside
<1>2. /\ Local(mem[o], disk[o], helper[o], site[o], browser[o], actor[o], now)
      /\ DOMAIN mem = Ops /\ DOMAIN helper = Ops /\ DOMAIN site = Ops /\ DOMAIN browser = Ops
  BY Typed
<1>3. /\ DOMAIN actor' = Ops /\ \A p \in Ops \ {o} : actor'[p] = actor[p]
      /\ actor'[o] \in Actors /\ actor'[o].attempted = actor[o].attempted
      /\ actor'[o].at = "stop helper"
  <2>1. "stop helper" \in Working \cup Cleaning
    BY DEF Cleaning
  <2> QED
    BY <1>1, <2>1, GoesShape
<1>4. ASSUME NEW r, NEW d
      PROVE  ActorOk(actor'[o], r, d, helper[o], site[o], browser[o], now)
  BY <1>1, <1>2, <1>3 DEF Local, ActorOk, Working
<1>5. actor[o].at \notin {"none", "leaving"}
  BY <1>1
<1>6. CASE Saved(next, Withdrawn(o)) \/ NotSaved(disk, next)
  <2>1. DOMAIN next = Ops /\ next[o] = Revoking(mem[o]) /\ \A p \in Ops \ {o} : next[p] = mem[p]
    BY <1>2
  <2> HIDE DEF next
  <2>2. Wrote(o) /\ mem' = next
    BY <1>6, <2>1, WriteShape
  <2>3. /\ RecordOk(mem'[o], now) /\ Covers(mem'[o], helper[o], site[o], browser[o])
        /\ mem'[o].state \in Unfinished => mem[o].state \in Unfinished
    BY <1>2, <2>1, <2>2, RecordRevoking DEF Local
  <2> QED
    BY <1>1, <1>3, <1>4, <1>5, <2>2, <2>3, WriteStepKept
<1>7. CASE Refused(Withdrawn(o))
  <2>1. UNCHANGED <<Outside, mem, disk, fenced, helper, site, browser>>
    BY <1>1, <1>7 DEF Refused, world
  <2>2. Local(mem[o], disk[o], helper[o], site[o], browser[o], actor'[o], now)
    BY <1>2, <1>4 DEF Local
  <2>3. Sound(o)'
    BY <2>1, <2>2 DEF Sound, Outside
  <2> QED
    BY <1>2, <1>3, <1>5, <2>1, <2>3, OutsideStepKept
<1> QED
  BY <1>6, <1>7 DEF WithdrawContext

LEMMA KeptReconcileActor ==
  ASSUME IInv, NEW o \in Ops, ReconcileActor(o)
  PROVE  IInv'
<1>1. /\ actor[o].at = "reconcile" /\ Goes(o, "leaving")
      /\ UNCHANGED <<now, scenario, candidate, dispatcher, world>>
  BY DEF ReconcileActor
<1>2. /\ Local(mem[o], disk[o], helper[o], site[o], browser[o], actor[o], now)
      /\ DOMAIN mem = Ops /\ DOMAIN helper = Ops /\ DOMAIN site = Ops /\ DOMAIN browser = Ops
      /\ actor[o] \in Actors /\ now \in Nat \ {0}
  BY Typed
<1>3. /\ DOMAIN actor' = Ops /\ \A p \in Ops \ {o} : actor'[p] = actor[p]
      /\ actor'[o] \in Actors /\ actor'[o].attempted = actor[o].attempted
      /\ actor'[o].at = "leaving"
  <2>1. "leaving" \in Working \cup Cleaning
    BY DEF Cleaning
  <2> QED
    BY <1>1, <2>1, GoesShape
<1>4. ASSUME NEW r, NEW d
      PROVE  ActorOk(actor'[o], r, d, helper[o], site[o], browser[o], now)
  BY <1>1, <1>2, <1>3 DEF Local, ActorOk, Working
<1>5. actor[o].at \notin {"none", "leaving"}
  BY <1>1
<1>6. CASE Saved(ReconciledBy(o), Withdrawn(o)) \/ NotSaved(disk, ReconciledBy(o))
  <2> DEFINE n == Reconciled(mem[o], actor[o].revoked, actor[o].stopped)
  <2>1. /\ DOMAIN ReconciledBy(o) = Ops /\ ReconciledBy(o)[o] = n
        /\ \A p \in Ops \ {o} : ReconciledBy(o)[p] = mem[p]
    BY <1>2 DEF ReconciledBy
  <2>2. /\ Wrote(o) /\ mem' = ReconciledBy(o)
        /\ (Saved(ReconciledBy(o), Withdrawn(o)) => disk' = mem' /\ ~fenced')
    BY <1>6, <2>1, WriteShape
  <2>3. /\ actor[o].revoked \in BOOLEAN /\ actor[o].stopped \in BOOLEAN
        /\ actor[o].revoked /\ actor[o].stopped =>
             ~Alive(helper[o]) /\ site[o] = 0 /\ ~Alive(browser[o])
    BY <1>1, <1>2 DEF Local, ActorOk, Actors
  <2>4. RecordOk(mem[o], now) /\ Covers(mem[o], helper[o], site[o], browser[o])
    BY <1>2 DEF Local
  <2>5. \/ mem[o].state \notin Unfinished /\ n = mem[o]
        \/ /\ mem[o].state \in Unfinished /\ n = Closed(mem[o])
           /\ ~Alive(helper[o]) /\ site[o] = 0 /\ ~Alive(browser[o])
        \/ mem[o].state \in Unfinished /\ n = [mem[o] EXCEPT !.state = "blocked"]
    BY <2>3, Zenon DEF Reconciled
  <2> HIDE DEF n
  <2>7. /\ RecordOk(n, now) /\ Covers(n, helper[o], site[o], browser[o])
        /\ n.state \in Unfinished => mem[o].state \in Unfinished
    BY <1>2, <2>4, <2>5, RecordReconciled
  <2>6. /\ published' \subseteq published \cup {o}
        /\ o \in published' => o \in published
                               \/ (mem'[o].state \notin Unfinished /\ disk'[o].state \notin Unfinished)
    <3>1. CASE UNCHANGED published
      BY <3>1
    <3>2. CASE Saved(ReconciledBy(o), Withdrawn(o)) /\ Reportable(mem', o) /\ Queued({o})
      <4>1. mem'[o].state = "closed" /\ disk' = mem'
        BY <2>2, <3>2 DEF Reportable
      <4> QED
        BY <3>2, <4>1 DEF Queued, Unfinished
    <3> QED
      BY <3>1, <3>2 DEF ReconcileActor
  <2> QED
    BY <1>1, <1>3, <1>4, <1>5, <2>1, <2>2, <2>6, <2>7, WriteStepKept
<1>7. CASE Refused(Withdrawn(o)) /\ UNCHANGED published
  <2>1. UNCHANGED <<Outside, mem, disk, fenced, helper, site, browser>>
    BY <1>1, <1>7 DEF Refused, world, Outside
  <2>2. Local(mem[o], disk[o], helper[o], site[o], browser[o], actor'[o], now)
    BY <1>2, <1>4 DEF Local
  <2>3. Sound(o)'
    BY <2>1, <2>2 DEF Sound, Outside
  <2> QED
    BY <1>2, <1>3, <1>5, <2>1, <2>3, OutsideStepKept
<1> QED
  BY <1>6, <1>7 DEF ReconcileActor

LEMMA KeptDropSlot ==
  ASSUME IInv, NEW o \in Ops, DropSlot(o)
  PROVE  IInv'
<1>1. /\ actor[o].at = "leaving" /\ actor' = [actor EXCEPT ![o] = NoActor]
      /\ UNCHANGED <<now, scenario, candidate, mem, disk, fenced, started, terminated, pass,
                     published, helper, site, browser>>
  BY DEF DropSlot, Outside, journal, records, dispatcher, world
<1>2. /\ Local(mem[o], disk[o], helper[o], site[o], browser[o], actor[o], now)
      /\ DOMAIN actor = Ops
  BY Typed
<1>3. DOMAIN actor' = Ops /\ actor'[o] = NoActor /\ \A p \in Ops \ {o} : actor'[p] = actor[p]
  BY <1>1, <1>2
<1>4. Sound(o)'
  BY <1>1, <1>2, <1>3, LocalDrop DEF Sound
<1>5. NoActor.at = "none"
  BY DEF NoActor
<1>6. Booked(o)'
  BY <1>1, <1>3, <1>5 DEF IInv, Booked
<1>7. Frame(o) /\ Alone(o)
  BY <1>1, <1>3 DEF Frame, Alone, IInv, Shaped
<1>8. ASSUME NEW p \in Ops PROVE Recovering(p)'
  <2>1. CASE p = o
    BY <1>1, <1>3, <1>5, <2>1 DEF IInv, Recovering, Stopped
  <2>2. CASE p # o
    BY <1>1, <1>3, <2>2 DEF IInv, Recovering, Stopped
  <2> QED
    BY <2>1, <2>2
<1>9. Shaped'
  BY <1>1, <1>3 DEF IInv, Shaped
<1> QED
  BY <1>4, <1>6, <1>7, <1>8, <1>9, FrameKept DEF IInv

-----------------------------------------------------------------------------
(* Recovery of the dispatcher.                                             *)

\* Steps that only end units and sessions.
Shrinks ==
  /\ DOMAIN helper' = Ops /\ DOMAIN site' = Ops /\ DOMAIN browser' = Ops
  /\ \A p \in Ops : /\ helper'[p] \in {helper[p], Killed(helper[p])} /\ site'[p] \in {site[p], 0}
                    /\ browser'[p] \in {browser[p], Killed(browser[p])}

LEMMA ShrinksKept ==
  ASSUME IInv, Shrinks, UNCHANGED <<now, scenario, candidate, mem, disk, fenced, actor, published>>
  PROVE  /\ \A p \in Ops : Sound(p)' /\ Booked(p)'
         /\ Exclusive(mem, Account)' /\ Exclusive(disk, Account)'
<1>1. ASSUME NEW p \in Ops PROVE Sound(p)'
  <2>1. Local(mem[p], disk[p], helper'[p], site'[p], browser'[p], actor[p], now)
    BY Typed, LessOutside DEF Shrinks
  <2> QED
    BY <2>1 DEF Sound
<1>2. ASSUME NEW p \in Ops PROVE Booked(p)'
  BY DEF IInv, Booked
<1>3. Account' = Account
  BY DEF Account
<1> QED
  BY <1>1, <1>2, <1>3 DEF IInv

LEMMA ShrunkUnits ==
  ASSUME IInv, Shrinks, NEW p \in Ops
  PROVE  /\ ~Alive(helper[p]) => ~Alive(helper'[p])
         /\ ~Alive(browser[p]) => ~Alive(browser'[p])
         /\ site[p] = 0 => site'[p] = 0
  BY Typed, UnitKilled DEF Shrinks

LEMMA StopAllShape ==
  ASSUME IInv, StopAll, UNCHANGED site
  PROVE  Shrinks /\ \A p \in Ops : ~Alive(helper'[p]) /\ ~Alive(browser'[p])
<1>1. \A p \in Ops : helper'[p] = Killed(helper[p]) /\ browser'[p] = Killed(browser[p])
  BY DEF StopAll
<1>2. DOMAIN helper' = Ops /\ DOMAIN browser' = Ops /\ DOMAIN site = Ops
  BY DEF StopAll, IInv, Shaped
<1>3. ASSUME NEW p \in Ops PROVE ~Alive(helper'[p]) /\ ~Alive(browser'[p])
  BY <1>1, Typed, UnitKilled
<1> QED
  BY <1>1, <1>2, <1>3 DEF Shrinks

LEMMA KeptStartupRecovery ==
  ASSUME IInv, StartupRecovery
  PROVE  IInv'
<1>1. /\ ~started /\ started' = TRUE /\ terminated' = terminated \union Pending /\ StopAll
      /\ UNCHANGED <<now, scenario, candidate, mem, disk, fenced, actor, pass, published, site>>
  BY DEF StartupRecovery, journal, records
<1>2. Shrinks /\ \A p \in Ops : ~Alive(helper'[p]) /\ ~Alive(browser'[p])
  BY <1>1, StopAllShape
<1>3. pass = NoPass /\ NoPass.at = "idle"
  BY <1>1 DEF IInv, Shaped, NoPass
<1>4. ASSUME NEW p \in Ops PROVE Recovering(p)'
  <2>1. actor[p].at = "none" /\ (p \in terminated => Stopped(p))
    BY <1>1 DEF IInv, Recovering
  <2>2. p \in Pending => mem[p].state # "none"
    BY DEF Pending, Unfinished
  <2>3. p \in terminated' => Stopped(p)'
    BY <1>1, <1>2, <2>1, <2>2 DEF Stopped
  <2> QED
    BY <1>1, <1>3, <2>1, <2>3 DEF Recovering
<1>5. Shaped'
  BY <1>1, <1>2 DEF IInv, Shaped, Shrinks, Pending
<1> QED
  BY <1>1, <1>2, <1>4, <1>5, ShrinksKept DEF IInv

LEMMA KeptRecoverFull ==
  ASSUME IInv, RecoverFull
  PROVE  IInv'
<1>1. /\ started /\ pass = NoPass /\ Counted = {} /\ StopAll
      /\ terminated' = terminated \union Pending /\ pass' = [NoPass EXCEPT !.todo = Pending]
      /\ UNCHANGED <<now, scenario, candidate, mem, disk, fenced, actor, started, published, site>>
  BY DEF RecoverFull, journal, records, Between
<1>2. Shrinks /\ \A p \in Ops : ~Alive(helper'[p]) /\ ~Alive(browser'[p])
  BY <1>1, StopAllShape
<1>3. pass' \in Passes /\ pass'.at = "idle"
  BY <1>1 DEF NoPass, Passes, Pending
<1>4. ASSUME NEW p \in Ops PROVE Recovering(p)'
  <2>1. actor[p].at = "none" /\ (p \in terminated => Stopped(p))
    BY <1>1 DEF IInv, Recovering, Counted
  <2>2. p \in Pending => mem[p].state # "none"
    BY DEF Pending, Unfinished
  <2>3. p \in terminated' => Stopped(p)'
    BY <1>1, <1>2, <2>1, <2>2 DEF Stopped
  <2> QED
    BY <1>1, <1>3, <2>1, <2>3 DEF Recovering
<1>5. Shaped'
  BY <1>1, <1>2, <1>3 DEF IInv, Shaped, Shrinks, Pending
<1> QED
  BY <1>1, <1>2, <1>4, <1>5, ShrinksKept DEF IInv

\* Steps that only change what the pass has left to do.
LEMMA PassKept ==
  ASSUME IInv, started, pass' \in Passes, pass'.at = "idle",
         \A p \in pass'.todo : actor[p].at \in {"none", "leaving"},
         UNCHANGED <<now, scenario, candidate, mem, disk, fenced, actor, started, terminated,
                     published, helper, site, browser>>
  PROVE  IInv'
<1>1. Shrinks
  BY DEF Shrinks, IInv, Shaped
<1>2. ASSUME NEW p \in Ops PROVE Recovering(p)'
  BY DEF IInv, Recovering, Stopped
<1>3. Shaped'
  BY DEF IInv, Shaped
<1> QED
  BY <1>1, <1>2, <1>3, ShrinksKept DEF IInv

LEMMA KeptRecoverLight ==
  ASSUME IInv, RecoverLight
  PROVE  IInv'
<1>1. /\ started /\ pass' = [NoPass EXCEPT !.todo = Pending \ Running]
      /\ UNCHANGED <<now, scenario, candidate, mem, disk, fenced, actor, started, terminated,
                     published, helper, site, browser>>
  BY DEF RecoverLight, journal, records, world
<1>2. pass' \in Passes /\ pass'.at = "idle" /\ pass'.todo = Pending \ Running
  BY <1>1 DEF NoPass, Passes, Pending
<1>3. \A p \in pass'.todo : actor[p].at \in {"none", "leaving"}
  BY <1>2 DEF Running, Pending
<1> QED
  BY <1>1, <1>2, <1>3, PassKept

LEMMA NextRecordShape ==
  ASSUME IInv, NEW o
  PROVE  /\ NextRecord(o) \in Passes /\ NextRecord(o).at = "idle"
         /\ NextRecord(o).todo \subseteq pass.todo /\ pass.todo \subseteq Ops
         /\ \A p \in pass.todo : actor[p].at \in {"none", "leaving"}
<1>1. pass \in Passes
  BY DEF IInv, Shaped
<1>2. pass.todo \subseteq Ops
  BY <1>1 DEF Passes
<1>3. \A p \in pass.todo : actor[p].at \in {"none", "leaving"}
  BY <1>2 DEF IInv, Recovering
<1> QED
  BY <1>2, <1>3 DEF NextRecord, NoPass, Passes

LEMMA PassStarted ==
  ASSUME IInv, pass.todo # {} \/ pass.at # "idle"
  PROVE  started
<1>1. NoPass.todo = {} /\ NoPass.at = "idle"
  BY DEF NoPass
<1> QED
  BY <1>1 DEF IInv, Shaped

LEMMA KeptRecoverSkip ==
  ASSUME IInv, NEW o, RecoverSkip(o)
  PROVE  IInv'
<1>1. /\ o \in pass.todo /\ pass' = NextRecord(o)
      /\ UNCHANGED <<now, scenario, candidate, mem, disk, fenced, actor, started, terminated,
                     published, helper, site, browser>>
  BY DEF RecoverSkip, journal, records, world
<1>2. started
  BY <1>1, PassStarted
<1>3. /\ pass' \in Passes /\ pass'.at = "idle"
      /\ \A p \in pass'.todo : actor[p].at \in {"none", "leaving"}
  BY <1>1, NextRecordShape
<1> QED
  BY <1>1, <1>2, <1>3, PassKept

LEMMA KeptRecoverRevoke ==
  ASSUME IInv, RecoverRevoke
  PROVE  IInv'
<1>1. /\ pass.at = "revoke"
      /\ UNCHANGED <<now, scenario, candidate, mem, disk, fenced, actor, started, terminated,
                     published, helper, browser>>
  BY DEF RecoverRevoke, records
<1>2. PICK done \in BOOLEAN, ended \in BOOLEAN :
        /\ done => ended
        /\ pass' = [pass EXCEPT !.at = "reconcile", !.revoked = done]
        /\ site' = IF ended THEN SiteWithout(SameAccount(pass.op)) ELSE site
  BY DEF RecoverRevoke
<1>3. pass \in Passes /\ pass.op \in Ops /\ DOMAIN site = Ops /\ DOMAIN helper = Ops /\ DOMAIN browser = Ops
  BY <1>1 DEF IInv, Shaped
<1>4. /\ pass' \in Passes /\ pass'.at = "reconcile" /\ pass'.op = pass.op /\ pass'.todo = pass.todo
      /\ (pass'.revoked <=> done)
  BY <1>2, <1>3 DEF Passes
<1>5. DOMAIN site' = Ops /\ (\A p \in Ops : site'[p] \in {site[p], 0}) /\ (done => site'[pass.op] = 0)
  <2>1. pass.op \in SameAccount(pass.op)
    BY <1>3 DEF SameAccount
  <2> QED
    BY <1>2, <1>3, <2>1 DEF SiteWithout
<1>6. Shrinks
  BY <1>1, <1>3, <1>5 DEF Shrinks
<1>7. started
  BY <1>1, PassStarted
<1>8. ASSUME NEW p \in Ops PROVE Recovering(p)'
  <2>1. Recovering(p)
    BY DEF IInv
  <2>2. p \in terminated => Stopped(p)'
    BY <1>1, <2>1 DEF Recovering, Stopped
  <2> QED
    BY <1>1, <1>4, <1>5, <1>7, <2>1, <2>2 DEF Recovering
<1>9. Shaped'
  BY <1>1, <1>3, <1>4, <1>5, <1>7 DEF IInv, Shaped
<1> QED
  BY <1>1, <1>6, <1>8, <1>9, ShrinksKept DEF IInv

\* A write of recovery: no actor works on the record, and it is not made younger.
LEMMA RecoveryWriteKept ==
  ASSUME IInv, NEW o \in Ops, actor[o].at \in {"none", "leaving"}, started, Wrote(o),
         UNCHANGED <<now, scenario, candidate, actor, started, terminated, world>>,
         RecordOk(mem'[o], now), Covers(mem'[o], helper[o], site[o], browser[o]),
         mem'[o].state \in Unfinished => mem[o].state \in Unfinished,
         mem'[o].due = mem[o].due, mem'[o].closed \in {mem[o].closed, now},
         mem'[o].state = "none" <=> mem[o].state = "none",
         published' \subseteq published \cup {o},
         o \in published' => \/ o \in published
                             \/ /\ mem'[o].state \notin Unfinished /\ disk'[o].state \notin Unfinished
                                /\ mem'[o].due # 0,
         pass' \in Passes, pass'.todo \subseteq pass.todo, pass'.at # "reconcile",
         pass'.at # "idle" => pass'.op = o
  PROVE  IInv'
<1>1. UNCHANGED <<helper, site, browser>>
  BY DEF world
<1>2. /\ Local(mem[o], disk[o], helper[o], site[o], browser[o], actor[o], now)
      /\ DOMAIN helper = Ops /\ DOMAIN site = Ops /\ DOMAIN browser = Ops /\ DOMAIN actor = Ops
  BY Typed
<1>3. Local(mem'[o], disk'[o], helper[o], site[o], browser[o], actor[o], now)
  <2>1. ActorOk(actor[o], mem'[o], disk'[o], helper[o], site[o], browser[o], now)
    BY <1>2 DEF Local, ActorOk, Working
  <2> QED
    BY <1>2, <2>1 DEF Local, Wrote
<1>4. Sound(o)'
  BY <1>1, <1>3 DEF Sound
<1>5. Frame(o) /\ Alone(o)
  BY <1>1, <1>2 DEF Frame, Alone, Wrote
<1>6. Booked(o)'
  <2>1. Booked(o)
    BY DEF IInv
  <2>2. disk'[o].state \in Unfinished => disk[o].state \in Unfinished
    BY DEF Wrote
  <2>3. ASSUME o \in candidate PROVE Unspent(mem'[o], now, scenario.granted[o]) /\ o \notin published'
    <3>1. Unspent(mem[o], now, scenario.granted[o]) /\ o \notin published
      BY <2>1, <2>3 DEF Booked
    <3>2. mem'[o].state = "none" => mem'[o].closed = 0
      BY DEF RecordOk, NoRecord
    <3> QED
      BY <3>1, <3>2 DEF Unspent
  <2> QED
    BY <2>1, <2>2, <2>3 DEF Booked
<1>7. ASSUME NEW p \in Ops PROVE Recovering(p)'
  <2>1. Recovering(p)
    BY DEF IInv
  <2>2. mem'[p].state = "none" <=> mem[p].state = "none"
    BY DEF Wrote
  <2>3. p \in terminated => Stopped(p)'
    BY <1>1, <2>1, <2>2 DEF Recovering, Stopped
  <2> QED
    BY <2>1, <2>3 DEF Recovering
<1>8. Shaped'
  BY <1>1, <1>2 DEF IInv, Shaped, Wrote
<1> QED
  BY <1>4, <1>5, <1>6, <1>7, <1>8, FrameKept DEF IInv

LEMMA KeptRecoverBegin ==
  ASSUME IInv, NEW o \in Ops, RecoverBegin(o)
  PROVE  IInv'
<1> DEFINE next == [mem EXCEPT ![o] = Revoking(@)]
<1>1. /\ pass.at = "idle" /\ o \in pass.todo
      /\ UNCHANGED <<now, scenario, candidate, actor, started, terminated, published, world>>
  BY DEF RecoverBegin
<1>2. \/ Saved(next, Withdrawn(o)) /\ pass' = [pass EXCEPT !.at = "revoke", !.op = o]
      \/ NotSaved(disk, next) /\ pass' = NextRecord(o)
  BY DEF RecoverBegin
<1>3. started /\ actor[o].at \in {"none", "leaving"} /\ pass \in Passes
  BY <1>1, PassStarted, NextRecordShape DEF IInv, Shaped
<1>4. /\ Local(mem[o], disk[o], helper[o], site[o], browser[o], actor[o], now)
      /\ DOMAIN mem = Ops
  BY Typed
<1>5. DOMAIN next = Ops /\ next[o] = Revoking(mem[o]) /\ \A p \in Ops \ {o} : next[p] = mem[p]
  BY <1>4
<1> HIDE DEF next
<1>6. Wrote(o) /\ mem' = next
  BY <1>2, <1>5, WriteShape
<1>7. /\ RecordOk(mem'[o], now) /\ Covers(mem'[o], helper[o], site[o], browser[o])
      /\ mem'[o].state \in Unfinished => mem[o].state \in Unfinished
      /\ mem'[o].due = mem[o].due /\ mem'[o].closed \in {mem[o].closed, now}
      /\ mem'[o].state = "none" <=> mem[o].state = "none"
  BY <1>4, <1>5, <1>6, RecordRevoking DEF Local
<1>8. /\ pass' \in Passes /\ pass'.todo \subseteq pass.todo /\ pass'.at # "reconcile"
      /\ pass'.at # "idle" => pass'.op = o
  <2>1. CASE pass' = NextRecord(o)
    BY <2>1, NextRecordShape
  <2>2. CASE pass' = [pass EXCEPT !.at = "revoke", !.op = o]
    BY <1>3, <2>2 DEF Passes
  <2> QED
    BY <1>2, <2>1, <2>2
<1> QED
  BY <1>1, <1>3, <1>6, <1>7, <1>8, RecoveryWriteKept

LEMMA KeptRecoverReconcile ==
  ASSUME IInv, RecoverReconcile
  PROVE  IInv'
<1> DEFINE o == pass.op
           n == Reconciled(mem[o], pass.revoked, o \in terminated)
           next == [mem EXCEPT ![o] = Reconciled(@, pass.revoked, o \in terminated)]
<1>1. /\ pass.at = "reconcile" /\ pass' = NextRecord(o)
      /\ UNCHANGED <<now, scenario, candidate, actor, started, terminated, world>>
  BY DEF RecoverReconcile
<1>2. \/ /\ Saved(next, Withdrawn(o))
         /\ (Reportable(mem', o) /\ Queued({o})) \/ UNCHANGED published
      \/ NotSaved(disk, next) /\ UNCHANGED published
      \/ Refused(Withdrawn(o)) /\ UNCHANGED published
  BY DEF RecoverReconcile
<1>3. o \in Ops /\ pass \in Passes
  BY <1>1 DEF IInv, Shaped
<1>4. started
  BY <1>1, PassStarted
<1>5. /\ pass' \in Passes /\ pass'.todo \subseteq pass.todo /\ pass'.at = "idle"
      /\ \A p \in pass'.todo : actor[p].at \in {"none", "leaving"}
  BY <1>1, NextRecordShape
<1>6. /\ Local(mem[o], disk[o], helper[o], site[o], browser[o], actor[o], now)
      /\ DOMAIN mem = Ops /\ now \in Nat \ {0}
  BY <1>3, Typed
<1>7. /\ actor[o].at \in {"none", "leaving"}
      /\ pass.revoked /\ o \in terminated => ~Alive(helper[o]) /\ site[o] = 0 /\ ~Alive(browser[o])
  <2>1. Recovering(o)
    BY <1>3 DEF IInv
  <2> QED
    BY <1>1, <2>1 DEF Recovering, Stopped
<1>8. DOMAIN next = Ops /\ next[o] = n /\ \A p \in Ops \ {o} : next[p] = mem[p]
  BY <1>3, <1>6
<1>9. /\ RecordOk(n, now) /\ Covers(n, helper[o], site[o], browser[o])
      /\ n.state \in Unfinished => mem[o].state \in Unfinished
      /\ n.due = mem[o].due /\ n.closed \in {mem[o].closed, now}
      /\ n.state = "none" <=> mem[o].state = "none"
  <2>1. \/ mem[o].state \notin Unfinished /\ n = mem[o]
        \/ /\ mem[o].state \in Unfinished /\ n = Closed(mem[o])
           /\ ~Alive(helper[o]) /\ site[o] = 0 /\ ~Alive(browser[o])
        \/ mem[o].state \in Unfinished /\ n = [mem[o] EXCEPT !.state = "blocked"]
    BY <1>7, Zenon DEF Reconciled
  <2>2. RecordOk(mem[o], now) /\ Covers(mem[o], helper[o], site[o], browser[o]) /\ now \in Nat \ {0}
    BY <1>6 DEF Local
  <2> HIDE DEF n, o
  <2> QED
    BY <2>1, <2>2, RecordReconciled
<1> HIDE DEF o, n, next
<1>10. CASE Saved(next, Withdrawn(o)) \/ NotSaved(disk, next)
  <2>1. /\ Wrote(o) /\ mem' = next
        /\ (Saved(next, Withdrawn(o)) => disk' = mem' /\ ~fenced')
    BY <1>3, <1>8, <1>10, WriteShape
  <2>2. /\ published' \subseteq published \cup {o}
        /\ o \in published' => \/ o \in published
                               \/ /\ mem'[o].state \notin Unfinished /\ disk'[o].state \notin Unfinished
                                  /\ mem'[o].due # 0
    <3>1. CASE UNCHANGED published
      BY <3>1
    <3>2. CASE Saved(next, Withdrawn(o)) /\ Reportable(mem', o) /\ Queued({o})
      <4>1. mem'[o].state = "closed" /\ mem'[o].due # 0 /\ disk' = mem'
        BY <2>1, <3>2 DEF Reportable
      <4> QED
        BY <3>2, <4>1 DEF Queued, Unfinished
    <3> QED
      BY <1>2, <3>1, <3>2
  <2>3. mem'[o] = n
    BY <1>8, <2>1
  <2>4. pass'.at # "reconcile" /\ (pass'.at # "idle" => pass'.op = o)
    BY <1>5
  <2> QED
    BY <1>1, <1>3, <1>4, <1>5, <1>7, <1>9, <2>1, <2>2, <2>3, <2>4, RecoveryWriteKept
<1>11. CASE Refused(Withdrawn(o)) /\ UNCHANGED published
  BY <1>1, <1>4, <1>5, <1>11, PassKept DEF Refused, world
<1> QED
  BY <1>2, <1>10, <1>11

LEMMA KeptDispatch ==
  ASSUME IInv, NEW o \in Ops, Dispatch(o)
  PROVE  IInv'
<1> DEFINE next == [mem EXCEPT ![o] = Reserved]
<1>1. /\ started /\ pass = NoPass /\ Admitted(o) /\ o \in candidate
      /\ scenario.granted[o] <= now /\ now < scenario.granted[o] + GrantLife
      /\ UNCHANGED <<now, scenario, started, terminated, pass, published, helper, site, browser>>
  BY DEF Dispatch, Between, Dispatchable, dispatcher, world
<1>2. \/ Saved(next, permit) /\ candidate' = candidate \ {o} /\ Goes(o, "authority")
      \/ /\ Saved(next, permit) \/ NotSaved(disk, next)
         /\ candidate' \subseteq candidate /\ actor' = actor
  BY DEF Dispatch, Prepare, Launch
<1>3. /\ Local(mem[o], disk[o], helper[o], site[o], browser[o], actor[o], now)
      /\ DOMAIN mem = Ops /\ now \in Nat \ {0} /\ DOMAIN actor = Ops /\ actor[o] \in Actors
  BY Typed
<1>4. mem[o].state = "none" /\ ~Alive(helper[o]) /\ site[o] = 0 /\ ~Alive(browser[o])
  BY <1>1, <1>3 DEF Admitted, Local, Covers, Unfinished
<1>5. DOMAIN next = Ops /\ next[o] = Reserved /\ \A p \in Ops \ {o} : next[p] = mem[p]
  BY <1>3
<1> HIDE DEF next
<1>6. /\ Wrote(o) /\ mem' = next
      /\ (Saved(next, permit) => disk' = mem' /\ ~fenced')
  BY <1>2, <1>5, WriteShape
<1>7. /\ RecordOk(mem'[o], now) /\ Covers(mem'[o], helper[o], site[o], browser[o])
      /\ mem'[o].state = "reserved" /\ mem'[o].due = 0 /\ mem'[o].closed = 0
  BY <1>3, <1>4, <1>5, <1>6, RecordReserved
<1>8. actor[o] = NoActor /\ o \notin published
  BY <1>1, <1>3 DEF IInv, Booked, Local, ActorOk
<1>9. /\ DOMAIN actor' = Ops /\ \A p \in Ops \ {o} : actor'[p] = actor[p]
      /\ \/ actor'[o] = actor[o]
         \/ /\ actor'[o] \in Actors /\ actor'[o].at = "authority" /\ disk' = mem'
            /\ o \notin candidate'
  <2>1. "authority" \in Working \cup Cleaning
    BY DEF Working
  <2> QED
    BY <1>2, <1>3, <1>6, <2>1, GoesShape
<1>10. ActorOk(actor'[o], mem'[o], disk'[o], helper[o], site[o], browser[o], now)
  <2>1. CASE actor'[o] = actor[o]
    <3>1. actor'[o].at = "none" /\ actor'[o] \in Actors /\ actor'[o] = NoActor
      BY <1>3, <1>8, <2>1 DEF NoActor
    <3> QED
      BY <3>1 DEF ActorOk, Working
  <2>2. CASE actor'[o] \in Actors /\ actor'[o].at = "authority" /\ disk' = mem'
    BY <1>4, <1>7, <2>2 DEF ActorOk, Working, Unfinished
  <2> QED
    BY <1>9, <2>1, <2>2
<1>11. Sound(o)'
  <2>1. Local(mem'[o], disk'[o], helper[o], site[o], browser[o], actor'[o], now)
    BY <1>3, <1>6, <1>7, <1>10 DEF Local, Wrote
  <2> QED
    BY <1>1, <2>1 DEF Sound
<1>12. Frame(o) /\ Alone(o)
  <2>1. candidate' \subseteq candidate
    BY <1>2
  <2> QED
    BY <1>1, <1>6, <1>9, <2>1 DEF Frame, Alone, Wrote, IInv, Shaped
<1>13. Booked(o)'
  <2>1. Unspent(mem'[o], now, scenario.granted[o])
    BY <1>1, <1>3, <1>7 DEF Unspent
  <2>2. o \in candidate' => actor'[o].at = "none"
    BY <1>8, <1>9 DEF NoActor
  <2> QED
    BY <1>1, <1>8, <2>1, <2>2 DEF Booked
<1>14. o \notin terminated
  <2>1. scenario.granted[o] \in Nat /\ ~(now >= scenario.granted[o] + GrantLife)
    BY <1>1, <1>3, Lifetimes, BrowserSessionAssumption DEF IInv, Shaped
  <2> QED
    BY <1>1, <1>4, <2>1 DEF IInv, Recovering, Stopped
<1>15. NoPass.todo = {} /\ NoPass.at = "idle"
  BY DEF NoPass
<1>16. ASSUME NEW p \in Ops PROVE Recovering(p)'
  <2>1. CASE p = o
    BY <1>1, <1>14, <1>15, <2>1 DEF Recovering
  <2>2. CASE p # o
    <3>1. mem'[p] = mem[p] /\ actor'[p] = actor[p] /\ (p \in candidate' => p \in candidate)
      BY <1>2, <1>6, <1>9, <2>2 DEF Wrote
    <3> QED
      BY <1>1, <1>15, <3>1 DEF IInv, Recovering, Stopped
  <2> QED
    BY <2>1, <2>2
<1>17. Shaped'
  <2>1. candidate' \subseteq candidate
    BY <1>2
  <2> QED
    BY <1>1, <1>6, <1>9, <2>1 DEF IInv, Shaped, Wrote
<1> QED
  BY <1>11, <1>12, <1>13, <1>16, <1>17, FrameKept DEF IInv

-----------------------------------------------------------------------------
(* Maintenance, time, restart.                                             *)

\* What prune and release_expired make of a record.
Maintained(r, n) ==
  \/ n = r
  \/ r.closed # 0 /\ now >= r.closed + Retention /\ n = NoRecord
  \/ Expired(r) /\ n = Closed(r)

LEMMA RecordMaintained ==
  ASSUME NEW r, NEW n, NEW h, NEW s, NEW b, now \in Nat \ {0}, RecordOk(r, now), Covers(r, h, s, b),
         WorldOk(h, s, b, now), Maintained(r, n)
  PROVE  /\ RecordOk(n, now) /\ Covers(n, h, s, b)
         /\ n.state \in Unfinished => n = r
         /\ r.state \in Unfinished /\ n # r => now >= n.born + LoginWindow
         /\ n.born \in {r.born, 0} /\ n.due \in {r.due, 0} /\ n.closed \in {r.closed, 0, now}
         /\ n.closed = now /\ n # r => r.state # "none"
         /\ n.state = "none" =>
              r.state = "none" \/ (r.closed # 0 /\ now >= r.closed + Retention)
<1>0. r \in SessionRecords /\ "none" \notin Unfinished /\ "closed" \notin Unfinished
  BY DEF RecordOk, Unfinished
<1>1. CASE n = r
  BY <1>1
<1>2. CASE r.closed # 0 /\ now >= r.closed + Retention /\ n = NoRecord
  <2>1. r.state \notin Unfinished
    <3>1. r.state # "none" => (r.state = "closed") <=> (r.closed # 0)
      BY DEF RecordOk, Formed
    <3> QED
      BY <1>0, <1>2, <3>1
  <2>2. RecordOk(n, now) /\ Covers(n, h, s, b)
    BY <1>2, <2>1, RecordGone DEF Covers
  <2>3. n.born = 0 /\ n.due = 0 /\ n.closed = 0 /\ n.state = "none"
    BY <1>2 DEF NoRecord
  <2> QED
    BY <1>0, <1>2, <2>1, <2>2, <2>3
<1>3. CASE Expired(r) /\ n = Closed(r)
  <2>1. r.state \in Unfinished /\ now >= r.born + ReleaseAfter /\ r.born \in Nat
    BY <1>0, <1>3 DEF Expired, SessionRecords
  <2>2. ~Alive(h) /\ s = 0 /\ ~Alive(b)
    BY <2>1, ExpiredIsGone
  <2>3. /\ RecordOk(n, now) /\ Covers(n, h, s, b) /\ n.state = "closed" /\ n.closed = now
        /\ n.due = r.due /\ n.born = r.born
    BY <1>3, <2>1, <2>2, RecordClosed
  <2>4. now >= r.born + LoginWindow
    BY <2>1, Lifetimes
  <2> QED
    BY <1>0, <2>1, <2>3, <2>4
<1> QED
  BY <1>1, <1>2, <1>3 DEF Maintained

LEMMA MaintainedJournals ==
  ASSUME IInv, NEW p \in Ops
  PROVE  /\ Maintained(mem[p], Pruned[p]) /\ Maintained(mem[p], Released(Pruned)[p])
         /\ Released(Pruned)[p].state \in Unfinished => Released(Pruned)[p] = Pruned[p]
<1>1. Pruned[p] = mem[p] \/ (/\ mem[p].closed # 0 /\ now >= mem[p].closed + Retention
                             /\ Pruned[p] = NoRecord)
  BY DEF Pruned
<1>2. Released(Pruned)[p] = IF Expired(Pruned[p]) THEN Closed(Pruned[p]) ELSE Pruned[p]
  BY DEF Released
<1>3. ~Expired(NoRecord)
  BY DEF Expired, NoRecord, Unfinished
<1>4. Closed(mem[p]).state = "closed"
  BY Typed DEF Closed, SessionRecords
<1> QED
  BY <1>1, <1>2, <1>3, <1>4 DEF Maintained, Unfinished

\* The three ways a round of maintenance ends, for one operation.
MaintainedAll ==
  /\ disk = mem /\ DOMAIN mem' = Ops /\ DOMAIN disk' = Ops /\ (~fenced' => disk' = mem')
  /\ \A p \in Ops : /\ Maintained(mem[p], mem'[p]) /\ Maintained(mem[p], disk'[p])
                    /\ mem'[p].state \in Unfinished => disk'[p] = mem'[p]

LEMMA MaintainShape ==
  ASSUME IInv, Maintain
  PROVE  MaintainedAll /\ published \subseteq published' /\ published' \subseteq Ops
         /\ \A p \in published' \ published :
              mem'[p].state = "closed" /\ mem'[p].due # 0 /\ disk' = mem'
<1>1. disk = mem /\ DOMAIN mem = Ops /\ published \subseteq Ops
  BY DEF IInv, Shaped, Maintain, Saved, NotSaved
<1>2. DOMAIN Pruned = Ops /\ DOMAIN Released(Pruned) = Ops
  BY DEF Pruned, Released
<1>3. CASE /\ Saved(Released(Pruned), {o \in permit : ~Expired(mem[o])})
           /\ \E some \in SUBSET {o \in Ops : Expired(mem[o]) /\ Reportable(mem', o)} : Queued(some)
  <2>1. mem' = Released(Pruned) /\ disk' = mem'
    BY <1>3 DEF Saved
  <2>2. MaintainedAll
    BY <1>1, <1>2, <2>1, MaintainedJournals DEF MaintainedAll
  <2>3. PICK some \in SUBSET {o \in Ops : Expired(mem[o]) /\ Reportable(mem', o)} : Queued(some)
    BY <1>3
  <2>4. \A p \in some : p \in Ops /\ mem'[p].state = "closed" /\ mem'[p].due # 0
    BY <2>3 DEF Reportable
  <2> QED
    BY <1>1, <2>1, <2>2, <2>3, <2>4 DEF Queued
<1>4. CASE NotSaved(disk, Pruned) /\ UNCHANGED published
  <2>1. mem' = Pruned /\ disk' \in {disk, Pruned} /\ fenced' = TRUE
    BY <1>4 DEF NotSaved
  <2>2. ASSUME NEW p \in Ops
        PROVE  /\ Maintained(mem[p], mem'[p]) /\ Maintained(mem[p], disk'[p])
               /\ mem'[p].state \in Unfinished => disk'[p] = mem'[p]
    <3>1. Maintained(mem[p], Pruned[p]) /\ Maintained(mem[p], mem[p])
      BY MaintainedJournals DEF Maintained
    <3>2. Pruned[p].state \in Unfinished => Pruned[p] = mem[p]
      BY DEF Pruned, NoRecord, Unfinished
    <3> QED
      BY <1>1, <2>1, <3>1, <3>2
  <2> QED
    BY <1>1, <1>2, <1>4, <2>1, <2>2 DEF MaintainedAll
<1>5. CASE NotSaved(Pruned, Released(Pruned)) /\ UNCHANGED published
  <2>1. mem' = Released(Pruned) /\ disk' \in {Pruned, Released(Pruned)} /\ fenced' = TRUE
    BY <1>5 DEF NotSaved
  <2>2. ASSUME NEW p \in Ops
        PROVE  /\ Maintained(mem[p], mem'[p]) /\ Maintained(mem[p], disk'[p])
               /\ mem'[p].state \in Unfinished => disk'[p] = mem'[p]
    BY <2>1, MaintainedJournals
  <2> QED
    BY <1>1, <1>2, <1>5, <2>1, <2>2 DEF MaintainedAll
<1> QED
  BY <1>3, <1>4, <1>5 DEF Maintain

LEMMA KeptMaintain ==
  ASSUME IInv, Maintain
  PROVE  IInv'
<1>1. UNCHANGED <<now, scenario, candidate, actor, started, terminated, pass, helper, site, browser>>
  BY DEF Maintain, dispatcher, world
<1>2. /\ MaintainedAll /\ published \subseteq published' /\ published' \subseteq Ops
      /\ \A p \in published' \ published :
           mem'[p].state = "closed" /\ mem'[p].due # 0 /\ disk' = mem'
  BY MaintainShape
<1>3. now \in Nat \ {0} /\ scenario \in Scenarios
  BY DEF IInv, Shaped
<1>4. ASSUME NEW p \in Ops PROVE Sound(p)' /\ Booked(p)' /\ Recovering(p)'
  <2> DEFINE r == mem[p]  n == mem'[p]  d == disk'[p]
             h == helper[p]  s == site[p]  b == browser[p]  a == actor[p]
             g == scenario.granted[p]
  <2>0. g \in Nat
    BY <1>3, BrowserSessionAssumption
  <2>1. /\ RecordOk(r, now) /\ Covers(r, h, s, b) /\ WorldOk(h, s, b, now)
        /\ ActorOk(a, r, disk[p], h, s, b, now) /\ Booked(p) /\ Recovering(p)
    BY DEF IInv, Sound, Local
  <2>2. Maintained(r, n) /\ Maintained(r, d) /\ (n.state \in Unfinished => d = n)
    BY <1>2 DEF MaintainedAll
  <2>3. /\ RecordOk(n, now) /\ Covers(n, h, s, b)
        /\ n.state \in Unfinished => n = r
        /\ r.state \in Unfinished /\ n # r => now >= n.born + LoginWindow
        /\ n.born \in {r.born, 0} /\ n.due \in {r.due, 0} /\ n.closed \in {r.closed, 0, now}
        /\ n.closed = now /\ n # r => r.state # "none"
        /\ n.state = "none" =>
             r.state = "none" \/ (r.closed # 0 /\ now >= r.closed + Retention)
    <3> HIDE DEF r, n, d, h, s, b
    <3> QED
      BY <1>3, <2>1, <2>2, RecordMaintained
  <2>4. RecordOk(d, now) /\ Covers(d, h, s, b) /\ (d.state \in Unfinished => d = r)
    <3> HIDE DEF r, n, d, h, s, b
    <3> QED
      BY <1>3, <2>1, <2>2, RecordMaintained
  <2>5. r \in SessionRecords
    BY <2>1 DEF RecordOk
  <2>6. (now \in Nat /\ r.born \in Nat) /\ (now >= r.born + LoginWindow /\ n.born \in {r.born, 0}
          => now >= n.born + LoginWindow)
    <3>1. now \in Nat /\ r.born \in Nat
      BY <1>3, <2>5 DEF SessionRecords
    <3> HIDE DEF r, n
    <3> QED
      BY <3>1, Lifetimes
  <2>7. ActorOk(a, n, d, h, s, b, now)
    <3> HIDE DEF r, n, d, h, s, b, a
    <3>1. a.at \in Working /\ n.state \notin Unfinished => now >= n.born + LoginWindow
      BY <2>1, <2>3, <2>6 DEF ActorOk
    <3> QED
      BY <2>1, <2>2, <2>3, <3>1 DEF ActorOk
  <2>8. Sound(p)'
    <3>1. Local(n, d, h, s, b, a, now)
      BY <2>1, <2>3, <2>4, <2>7 DEF Local
    <3> QED
      BY <1>1, <3>1 DEF Sound
  <2>9. ASSUME p \in candidate PROVE a.at = "none" /\ Unspent(n, now, g) /\ p \notin published'
    <3>1. a.at = "none" /\ Unspent(r, now, g) /\ p \notin published
      BY <2>1, <2>9 DEF Booked
    <3>2. n.due = 0
      BY <2>3, <3>1 DEF Unspent
    <3>3. Unspent(n, now, g)
      <4>1. n.state # "none" => r.state # "none"
        <5>1. r.state = "none" => r.closed = 0 /\ ~Expired(r)
          BY <2>1 DEF RecordOk, NoRecord, Expired, Unfinished
        <5> HIDE DEF r, n
        <5> QED
          BY <2>2, <5>1 DEF Maintained, NoRecord
      <4> HIDE DEF r, n, g
      <4> QED
        BY <1>3, <2>0, <2>3, <3>1, <3>2, <4>1 DEF Unspent
    <3> QED
      BY <1>2, <3>1, <3>2, <3>3
  <2>10. Booked(p)'
    <3>1. ASSUME p \in published' PROVE n.state \notin Unfinished /\ d.state \notin Unfinished
      <4>1. CASE p \in published
        BY <2>1, <2>3, <2>4, <4>1 DEF Booked
      <4>2. CASE p \notin published
        BY <1>2, <3>1, <4>2 DEF Unfinished
      <4> QED
        BY <4>1, <4>2
    <3> QED
      BY <1>1, <2>9, <3>1 DEF Booked
  <2>11. ASSUME p \in terminated PROVE Stopped(p)'
    <3>1. Stopped(p)
      BY <2>1, <2>11 DEF Recovering
    <3>2. ASSUME p \in candidate, n.state = "none" PROVE now >= g + GrantLife
      <4>1. CASE r.state = "none"
        BY <3>1, <3>2, <4>1 DEF Stopped
      <4>2. CASE r.closed # 0 /\ now >= r.closed + Retention
        <5>1. r.closed >= g /\ r.closed \in Nat
          BY <2>1, <2>5, <3>2, <4>2 DEF Booked, Unspent, SessionRecords
        <5> HIDE DEF r, g
        <5> QED
          BY <1>3, <2>0, <4>2, <5>1, Lifetimes
      <4> QED
        BY <2>3, <3>2, <4>1, <4>2
    <3> QED
      BY <1>1, <3>1, <3>2 DEF Stopped
  <2>12. Recovering(p)'
    BY <1>1, <2>1, <2>11 DEF Recovering
  <2> QED
    BY <2>8, <2>10, <2>12
<1>5. \A p \in Ops : /\ mem'[p].state \in Unfinished => mem[p].state \in Unfinished
                     /\ disk'[p].state \in Unfinished => disk[p].state \in Unfinished
  <2>1. \A p \in Ops : RecordOk(mem[p], now) /\ Covers(mem[p], helper[p], site[p], browser[p])
                       /\ WorldOk(helper[p], site[p], browser[p], now)
    BY DEF IInv, Sound, Local
  <2>2. ASSUME NEW p \in Ops
        PROVE  /\ mem'[p].state \in Unfinished => mem'[p] = mem[p]
               /\ disk'[p].state \in Unfinished => disk'[p] = mem[p]
    <3>1. Maintained(mem[p], mem'[p]) /\ Maintained(mem[p], disk'[p])
      BY <1>2 DEF MaintainedAll
    <3>2. /\ RecordOk(mem[p], now) /\ Covers(mem[p], helper[p], site[p], browser[p])
          /\ WorldOk(helper[p], site[p], browser[p], now)
      BY <2>1
    <3>3. mem'[p].state \in Unfinished => mem'[p] = mem[p]
      BY <1>3, <3>1, <3>2, RecordMaintained
    <3>4. disk'[p].state \in Unfinished => disk'[p] = mem[p]
      BY <1>3, <3>1, <3>2, RecordMaintained
    <3> QED
      BY <3>3, <3>4
  <2>3. disk = mem
    BY <1>2 DEF MaintainedAll
  <2> QED
    BY <2>2, <2>3
<1>6. Exclusive(mem, Account)' /\ Exclusive(disk, Account)'
  <2>1. Account' = Account
    BY <1>1 DEF Account
  <2>2. Exclusive(mem', Account) /\ Exclusive(disk', Account)
    BY <1>5 DEF IInv, Exclusive
  <2> QED
    BY <2>1, <2>2
<1>7. Shaped'
  BY <1>1, <1>2 DEF IInv, Shaped, MaintainedAll
<1> QED
  BY <1>4, <1>6, <1>7 DEF IInv

LEMMA KeptTryUnfence ==
  ASSUME IInv, TryUnfence
  PROVE  IInv'
<1>1. /\ disk' = mem
      /\ UNCHANGED <<now, scenario, candidate, mem, actor, started, terminated, pass, published,
                     helper, site, browser>>
  BY DEF TryUnfence, Outside, dispatcher, world
<1>2. ASSUME NEW p \in Ops PROVE Sound(p)' /\ Booked(p)' /\ Recovering(p)'
  <2>1. Local(mem[p], disk[p], helper[p], site[p], browser[p], actor[p], now)
    BY Typed
  <2>2. ActorOk(actor[p], mem[p], mem[p], helper[p], site[p], browser[p], now)
    BY <2>1, Zenon DEF Local, ActorOk
  <2>3. Local(mem[p], mem[p], helper[p], site[p], browser[p], actor[p], now)
    BY <2>1, <2>2 DEF Local
  <2>4. Sound(p)'
    BY <1>1, <2>3 DEF Sound
  <2>5. Booked(p)'
    BY <1>1 DEF IInv, Booked
  <2>6. Recovering(p)'
    BY <1>1 DEF IInv, Recovering, Stopped
  <2> QED
    BY <2>4, <2>5, <2>6
<1>3. Exclusive(mem, Account)' /\ Exclusive(disk, Account)'
  BY <1>1 DEF IInv, Account
<1>4. Shaped'
  BY <1>1 DEF IInv, Shaped
<1> QED
  BY <1>2, <1>3, <1>4 DEF IInv

LEMMA KeptRetryBrowserClosures ==
  ASSUME IInv, RetryBrowserClosures
  PROVE  IInv'
<1>1. /\ published' = published \union {o \in Ops : Reportable(mem, o)}
      /\ UNCHANGED <<now, scenario, candidate, mem, disk, fenced, actor, started, terminated, pass,
                     helper, site, browser>>
  BY DEF RetryBrowserClosures, Queued, journal, records, dispatcher, world
<1>2. ASSUME NEW p \in Ops PROVE Sound(p)' /\ Booked(p)' /\ Recovering(p)'
  <2>1. Sound(p) /\ Booked(p) /\ Recovering(p)
    BY DEF IInv
  <2>2. Sound(p)'
    BY <1>1, <2>1 DEF Sound
  <2>3. Booked(p)'
    <3>1. CASE p \in published' /\ p \notin published
      <4>1. mem[p].state = "closed" /\ mem[p].due # 0 /\ disk = mem
        BY <1>1, <3>1 DEF Reportable, IInv, Shaped
      <4>2. p \notin candidate
        BY <2>1, <4>1 DEF Booked, Unspent
      <4> QED
        BY <1>1, <4>1, <4>2 DEF Booked, Unfinished
    <3>2. CASE p \in published' => p \in published
      BY <1>1, <2>1, <3>2 DEF Booked
    <3> QED
      BY <3>1, <3>2
  <2>4. Recovering(p)'
    BY <1>1, <2>1 DEF Recovering, Stopped
  <2> QED
    BY <2>2, <2>3, <2>4
<1>3. Exclusive(mem, Account)' /\ Exclusive(disk, Account)'
  BY <1>1 DEF IInv, Account
<1>4. Shaped'
  BY <1>1 DEF IInv, Shaped
<1> QED
  BY <1>2, <1>3, <1>4 DEF IInv

\* Time ends what has reached its limit.
LEMMA KeptTick ==
  ASSUME IInv, Tick
  PROVE  IInv'
<1>1. /\ now' = now + 1
      /\ helper' = [o \in Ops |-> Outlived(helper[o], HelperLife)]
      /\ browser' = [o \in Ops |-> Outlived(browser[o], SessionMax)]
      /\ site' = [o \in Ops |-> IF site[o] > now THEN site[o] ELSE 0]
      /\ UNCHANGED <<scenario, candidate, mem, disk, fenced, actor, started, terminated, pass, published>>
  BY DEF Tick, journal, records, dispatcher
<1>2. now \in Nat \ {0} /\ scenario \in Scenarios
  BY DEF IInv, Shaped
<1>3. ASSUME NEW p \in Ops PROVE Sound(p)' /\ Booked(p)' /\ Recovering(p)'
  <2> DEFINE h1 == Outlived(helper[p], HelperLife)  b1 == Outlived(browser[p], SessionMax)
             s1 == IF site[p] > now THEN site[p] ELSE 0
             g == scenario.granted[p]
  <2>0. g \in Nat
    BY <1>2, BrowserSessionAssumption
  <2>1. /\ helper[p] \in Units /\ browser[p] \in Units /\ site[p] \in Nat
        /\ Local(mem[p], disk[p], helper[p], site[p], browser[p], actor[p], now)
    BY Typed
  <2>2. /\ h1 \in {helper[p], Killed(helper[p])}
        /\ Alive(h1) => ~(helper[p].since + HelperLife < now + 1) /\ h1 = helper[p]
    BY <2>1, UnitKilled DEF Outlived
  <2>3. /\ b1 \in {browser[p], Killed(browser[p])}
        /\ Alive(b1) => ~(browser[p].since + SessionMax < now + 1) /\ b1 = browser[p]
    BY <2>1, UnitKilled DEF Outlived
  <2>4. s1 \in {site[p], 0} /\ (s1 # 0 => now + 1 <= s1)
    BY <1>2, <2>1
  <2>5. helper[p].since \in Nat /\ browser[p].since \in Nat
    BY <2>1 DEF Units
  <2>6. helper'[p] = h1 /\ browser'[p] = b1 /\ site'[p] = s1
    BY <1>1
  <2> HIDE DEF h1, b1, s1
  <2>7. /\ Alive(h1) => now + 1 <= h1.since + HelperLife
        /\ Alive(b1) => now + 1 <= b1.since + SessionMax
    BY <1>2, <2>2, <2>3, <2>5, Lifetimes
  <2>8. Local(mem[p], disk[p], h1, s1, b1, actor[p], now)
    BY <2>1, <2>2, <2>3, <2>4, LessOutside
  <2>9. Local(mem[p], disk[p], h1, s1, b1, actor[p], now + 1)
    BY <1>2, <2>4, <2>7, <2>8, LocalTick
  <2>10. Sound(p)'
    BY <1>1, <2>6, <2>9 DEF Sound
  <2>11. Booked(p)'
    <3>1. Booked(p)
      BY DEF IInv
    <3>2. Unspent(mem[p], now, g) => Unspent(mem[p], now + 1, g)
      BY <1>2, <2>0 DEF Unspent
    <3> QED
      BY <1>1, <3>1, <3>2 DEF Booked
  <2>12. Recovering(p)'
    <3>1. Recovering(p)
      BY DEF IInv
    <3>2. ~Alive(helper[p]) => ~Alive(h1)
      BY <2>2
    <3>3. ~Alive(browser[p]) => ~Alive(b1)
      BY <2>3
    <3>4. now >= g + GrantLife => now + 1 >= g + GrantLife
      BY <1>2, <2>0, Lifetimes
    <3>5. Stopped(p) => Stopped(p)'
      BY <1>1, <2>6, <3>2, <3>3, <3>4 DEF Stopped
    <3> QED
      BY <1>1, <2>4, <2>6, <3>1, <3>5 DEF Recovering
  <2> QED
    BY <2>10, <2>11, <2>12
<1>4. Exclusive(mem, Account)' /\ Exclusive(disk, Account)'
  BY <1>1 DEF IInv, Account
<1>5. Shaped'
  BY <1>1, <1>2 DEF IInv, Shaped
<1> QED
  BY <1>3, <1>4, <1>5 DEF IInv

\* A new process loads the snapshot: it has no actor, and trusts no record.
LEMMA KeptRestart ==
  ASSUME IInv, Restart
  PROVE  IInv'
<1>1. /\ mem' = Reopened /\ disk' = Reopened /\ fenced' = FALSE /\ candidate' = {}
      /\ actor' = [o \in Ops |-> NoActor]
      /\ started' = FALSE /\ terminated' = {} /\ pass' = NoPass
      /\ UNCHANGED <<now, scenario, published, helper, site, browser>>
  BY DEF Restart, world
<1>2. NoPass \in Passes /\ NoPass.at = "idle" /\ NoPass.todo = {}
  BY DEF NoPass, Passes
<1>3. ASSUME NEW p \in Ops
      PROVE  /\ Sound(p)' /\ Booked(p)' /\ Recovering(p)'
             /\ mem'[p].state \in Unfinished => disk[p].state \in Unfinished
  <2> DEFINE n == Reopened[p]
  <2>1. Local(mem[p], disk[p], helper[p], site[p], browser[p], actor[p], now)
    BY Typed
  <2>2. \/ disk[p].state \in Unfinished /\ n = [disk[p] EXCEPT !.state = "blocked"]
        \/ disk[p].state \notin Unfinished /\ n = disk[p]
    BY DEF Reopened
  <2>3. mem'[p] = n /\ disk'[p] = n /\ actor'[p] = NoActor
    BY <1>1
  <2> HIDE DEF n
  <2>4. /\ RecordOk(n, now) /\ Covers(n, helper[p], site[p], browser[p])
        /\ n.state \in Unfinished <=> disk[p].state \in Unfinished
    BY <2>1, <2>2, RecordMarked DEF Local
  <2>5. NoActor \in Actors /\ NoActor.at = "none"
    BY DEF NoActor, Actors
  <2>6. ActorOk(NoActor, n, n, helper[p], site[p], browser[p], now)
    BY <2>5 DEF ActorOk, Working
  <2>7. Local(n, n, helper[p], site[p], browser[p], NoActor, now)
    BY <2>1, <2>4, <2>6 DEF Local
  <2>8. Sound(p)'
    BY <1>1, <2>3, <2>7 DEF Sound
  <2>9. Booked(p)'
    BY <1>1, <2>3, <2>4 DEF IInv, Booked
  <2>10. Recovering(p)'
    BY <1>1, <1>2, <2>3, <2>5 DEF Recovering
  <2> QED
    BY <2>3, <2>4, <2>8, <2>9, <2>10
<1>4. Exclusive(mem, Account)' /\ Exclusive(disk, Account)'
  <2>1. Account' = Account /\ mem' = disk'
    BY <1>1 DEF Account
  <2>2. Exclusive(mem', Account)
    BY <1>3 DEF IInv, Exclusive
  <2> QED
    BY <2>1, <2>2
<1>5. Shaped'
  BY <1>1, <1>2 DEF IInv, Shaped, Reopened
<1> QED
  BY <1>3, <1>4, <1>5 DEF IInv

-----------------------------------------------------------------------------
(* The invariant holds initially, is kept by every step, and implies what  *)
(* the journal promises.                                                   *)

LEMMA ReadyLocal ==
  Local(ReadyRecord, ReadyRecord, [at |-> "answered", since |-> 1, due |-> 1 + SessionMax],
        1 + SessionMax, [at |-> "imported", since |-> 1, due |-> 0], ReadyActor, 1)
<1> DEFINE h == [at |-> "answered", since |-> 1, due |-> 1 + SessionMax]
           b == [at |-> "imported", since |-> 1, due |-> 0]
           s == 1 + SessionMax
<1>1. /\ s \in Nat /\ s # 0 /\ s > 1 /\ 1 <= s
      /\ 1 < 1 + LoginWindow /\ s < 1 + ReleaseAfter
      /\ 1 <= 1 + HelperLife /\ 1 <= 1 + SessionMax
  BY Lifetimes
<1>2. /\ ReadyRecord \in SessionRecords /\ ReadyRecord.state = "active"
      /\ ReadyRecord.born = 1 /\ ReadyRecord.helper = TRUE /\ ReadyRecord.handle = TRUE
      /\ ReadyRecord.due = s /\ ReadyRecord.browser = TRUE /\ ReadyRecord.closed = 0
  BY <1>1 DEF ReadyRecord, NoRecord, SessionRecords, States, Unfinished
<1>3. ReadyActor \in Actors /\ ReadyActor.at = "ready" /\ ReadyActor.attempted = TRUE
  BY DEF ReadyActor, NoActor, Actors, Working
<1>4. /\ h \in Units /\ h.at = "answered" /\ h.since = 1
      /\ b \in Units /\ b.at = "imported" /\ b.since = 1
  BY <1>1 DEF Units
<1> HIDE DEF h, b, s
<1>5. RecordOk(ReadyRecord, 1)
  BY <1>1, <1>2 DEF RecordOk, Formed
<1>6. Covers(ReadyRecord, h, s, b)
  BY <1>1, <1>2, <1>4 DEF Covers, Unfinished
<1>7. WorldOk(h, s, b, 1)
  BY <1>1, <1>4 DEF WorldOk
<1>8. ActorOk(ReadyActor, ReadyRecord, ReadyRecord, h, s, b, 1)
  BY <1>2, <1>3 DEF ActorOk, Unfinished
<1>9. Local(ReadyRecord, ReadyRecord, h, s, b, ReadyActor, 1)
  BY <1>5, <1>6, <1>7, <1>8 DEF Local
<1> QED
  BY <1>9 DEF h, b, s

LEMMA AbsentLocal == Local(NoRecord, NoRecord, NoUnit, 0, NoUnit, NoActor, 1)
<1>1. /\ NoRecord \in SessionRecords /\ NoRecord.state = "none"
  BY DEF NoRecord, SessionRecords, States
<1>2. NoActor \in Actors /\ NoActor.at = "none"
  BY DEF NoActor, Actors
<1>3. NoUnit \in Units /\ NoUnit.at = "none" /\ ~Alive(NoUnit)
  BY DEF NoUnit, Units, Alive
<1>4. RecordOk(NoRecord, 1)
  BY <1>1 DEF RecordOk
<1>5. Covers(NoRecord, NoUnit, 0, NoUnit)
  BY <1>3 DEF Covers
<1>6. WorldOk(NoUnit, 0, NoUnit, 1)
  BY <1>3 DEF WorldOk
<1>7. ActorOk(NoActor, NoRecord, NoRecord, NoUnit, 0, NoUnit, 1)
  BY <1>2 DEF ActorOk, Working
<1> QED
  BY <1>4, <1>5, <1>6, <1>7 DEF Local

LEMMA InitIInv == Init => IInv
<1> SUFFICES ASSUME Init PROVE IInv
  OBVIOUS
<1>1. /\ scenario \in Scenarios /\ scenario.ops \subseteq Ops /\ scenario.ready \subseteq Ops
      /\ \A o \in Ops : scenario.granted[o] \in Nat
      /\ \A o, p \in scenario.ready : Account[o] = Account[p] => o = p
  BY BrowserSessionAssumption DEF Init, Account
<1>2. ASSUME NEW o \in Ops, o \in scenario.ready
      PROVE  /\ mem[o] = ReadyRecord /\ disk[o] = ReadyRecord /\ actor[o] = ReadyActor
             /\ helper[o] = [at |-> "answered", since |-> 1, due |-> 1 + SessionMax]
             /\ site[o] = 1 + SessionMax
             /\ browser[o] = [at |-> "imported", since |-> 1, due |-> 0]
  BY <1>2, Zenon DEF Init, Initially
<1>3. ASSUME NEW o \in Ops, o \notin scenario.ready
      PROVE  /\ mem[o] = NoRecord /\ disk[o] = NoRecord /\ actor[o] = NoActor
             /\ helper[o] = NoUnit /\ site[o] = 0 /\ browser[o] = NoUnit
  BY <1>3, Zenon DEF Init, Initially
<1>4. /\ now = 1 /\ candidate = scenario.ops \ scenario.ready /\ published = {}
      /\ terminated = {} /\ pass = NoPass /\ disk = mem
      /\ started = (scenario.ready # {})
  BY Zenon DEF Init
<1>5. Shaped
  <2>1. /\ DOMAIN mem = Ops /\ DOMAIN disk = Ops /\ DOMAIN actor = Ops
        /\ DOMAIN helper = Ops /\ DOMAIN site = Ops /\ DOMAIN browser = Ops
    BY Zenon DEF Init, Initially
  <2>2. NoPass \in Passes /\ NoPass.at = "idle" /\ NoPass.todo = {}
    BY DEF NoPass, Passes
  <2> QED
    BY <1>1, <1>4, <2>1, <2>2 DEF Shaped
<1>6. ASSUME NEW o \in Ops PROVE Sound(o)
  <2>1. CASE o \in scenario.ready
    BY <1>2, <1>4, <2>1, ReadyLocal, Zenon DEF Sound
  <2>2. CASE o \notin scenario.ready
    BY <1>3, <1>4, <2>2, AbsentLocal, Zenon DEF Sound
  <2> QED
    BY <2>1, <2>2
<1>7. ASSUME NEW o \in Ops PROVE Booked(o)
  <2>1. o \in candidate => o \notin scenario.ready
    BY <1>4
  <2>2. NoActor.at = "none" /\ NoRecord.due = 0 /\ NoRecord.state = "none" /\ NoRecord.closed = 0
    BY DEF NoActor, NoRecord
  <2> QED
    BY <1>3, <1>4, <2>1, <2>2 DEF Booked, Unspent
<1>8. ASSUME NEW o \in Ops PROVE Recovering(o)
  <2>1. NoPass.todo = {} /\ NoPass.at = "idle" /\ NoActor.at = "none"
    BY DEF NoPass, NoActor
  <2>2. ~started => o \notin scenario.ready
    BY <1>4
  <2> QED
    BY <1>3, <1>4, <2>1, <2>2 DEF Recovering
<1>9. Exclusive(mem, Account)
  <2> SUFFICES ASSUME NEW o \in Ops, NEW p \in Ops, o # p,
                      mem[o].state \in Unfinished, mem[p].state \in Unfinished
               PROVE  Account[o] # Account[p]
    BY DEF Exclusive
  <2>1. NoRecord.state \notin Unfinished
    BY DEF NoRecord, Unfinished
  <2>2. o \in scenario.ready /\ p \in scenario.ready
    BY <1>3, <2>1
  <2> QED
    BY <1>1, <2>2
<1> QED
  BY <1>4, <1>5, <1>6, <1>7, <1>8, <1>9 DEF IInv

LEMMA StutterIInv == IInv /\ UNCHANGED vars => IInv'
  BY DEF IInv, Shaped, Sound, Booked, Recovering, Stopped, Account,
         vars, journal, records, dispatcher, world

LEMMA NextIInv == IInv /\ [Next]_vars => IInv'
<1> SUFFICES ASSUME IInv, [Next]_vars PROVE IInv'
  OBVIOUS
<1>1. CASE UNCHANGED vars
  BY <1>1, StutterIInv
<1>2. ASSUME NEW o \in Ops, ActorStep(o) PROVE IInv'
  BY <1>2, KeptActorFails, KeptBeginPrivateLogin, KeptRecordHelper, KeptSendSource,
     KeptStageReply, KeptPrepareBrowser, KeptActivate, KeptGuardContext, KeptImportCookies,
     KeptWithdrawContext, KeptTerminateHelper, KeptRevokeWebsite, KeptTerminateBrowser,
     KeptReconcileActor, KeptDropSlot, Zenon DEF ActorStep
<1>3. ASSUME NEW o \in Ops, HelperLogsIn(o) PROVE IInv'
  BY <1>3, KeptHelperLogsIn
<1>4. CASE RecoverStep
  BY <1>4, KeptRecoverSkip, KeptRecoverBegin, KeptRecoverRevoke, KeptRecoverReconcile,
     Zenon DEF RecoverStep
<1>5. CASE DispatcherStep
  BY <1>4, <1>5, KeptDispatch, KeptMaintain, KeptTryUnfence, KeptRetryBrowserClosures,
     KeptStartupRecovery, KeptRecoverFull, KeptRecoverLight, Zenon DEF DispatcherStep
<1>6. CASE Tick
  BY <1>6, KeptTick
<1>7. CASE Restart
  BY <1>7, KeptRestart
<1> QED
  BY <1>1, <1>2, <1>3, <1>5, <1>6, <1>7, Zenon DEF Next

\* What is not named by an unfinished record, in memory or on disk, is gone.
LEMMA FinishedGone ==
  ASSUME IInv, NEW o \in Ops,
         mem[o].state \notin Unfinished \/ disk[o].state \notin Unfinished
  PROVE  Gone(o)
  BY DEF IInv, Sound, Local, Covers, Gone

LEMMA ExclusiveWhileJournaled == IInv => AccountExclusive
<1> SUFFICES ASSUME IInv PROVE AccountExclusive
  OBVIOUS
<1>1. ASSUME NEW o \in Ops, mem[o].state = "closed" PROVE Gone(o)
  BY <1>1, FinishedGone DEF Unfinished
<1>2. ASSUME NEW o \in Ops, NEW p \in Ops, o # p, Account[o] = Account[p]
      PROVE  Gone(o) \/ Gone(p)
  <2>1. disk[o].state \notin Unfinished \/ disk[p].state \notin Unfinished
    BY <1>2 DEF IInv, Exclusive
  <2> QED
    BY <2>1, FinishedGone
<1>3. ASSUME NEW o \in published PROVE disk[o].state \in {"closed", "none"} /\ Gone(o)
  <2>1. o \in Ops /\ Booked(o) /\ Sound(o)
    BY DEF IInv, Shaped
  <2>2. disk[o].state \notin Unfinished /\ disk[o].state \in States
    BY <2>1 DEF Booked, Sound, Local, RecordOk, SessionRecords
  <2> QED
    BY <2>1, <2>2, FinishedGone DEF States
<1> QED
  BY <1>1, <1>2, <1>3 DEF AccountExclusive

LEMMA JournalNamesAll == IInv => JournaledFirst
<1> SUFFICES ASSUME IInv PROVE JournaledFirst
  OBVIOUS
<1>1. ASSUME NEW o \in Ops
      PROVE  /\ RecordOk(disk[o], now)
             /\ Covers(disk[o], helper[o], site[o], browser[o])
  BY DEF IInv, Sound, Local
<1>2. ASSUME NEW o \in Ops, disk[o].state # "none" PROVE WellFormed(disk[o])
  <2>1. Formed(disk[o], now)
    BY <1>1, <1>2 DEF RecordOk
  <2> QED
    BY <2>1 DEF Formed, WellFormed
<1>3. Loads(disk)
  BY <1>2 DEF Loads, IInv, Exclusive
<1> QED
  BY <1>1, <1>3 DEF JournaledFirst, Covers

-----------------------------------------------------------------------------
(* For any operations, accounts, failures and lifetimes: a closed record   *)
(* stands for nothing alive, of two operations on one website account at   *)
(* most one has a helper, a session or a browser, and the controller is    *)
(* told of a closure only when the snapshot shows it, whichever way the    *)
(* record was closed (by its actor, by recovery, or by release_expired     *)
(* with no revoke at all) and whichever writes or processes failed.        *)
THEOREM AccountsAreExclusive == Spec => []AccountExclusive
  BY InitIInv, NextIInv, ExclusiveWhileJournaled, PTL DEF Spec

(* For any operations, accounts, failures and lifetimes: the snapshot on   *)
(* disk is one that load accepts, and it names the helper before it holds  *)
(* the credential and the browser before it holds the cookies, so that a   *)
(* broker that dies between any two steps finds both again.                *)
THEOREM JournalPrecedesEffects == Spec => []JournaledFirst
  BY InitIInv, NextIInv, JournalNamesAll, PTL DEF Spec
=============================================================================
