------------------------------ MODULE Operators ------------------------------
(***************************************************************************)
(* Local operators of the controller: the first administrator, sign-in and *)
(* its abuse limits, browser and desktop sessions with their refresh       *)
(* families, password change and reset, and the administration of          *)
(* operators by operators.                                                 *)
(*                                                                         *)
(* Every store function is one transaction and one atomic step.  The HTTP  *)
(* handlers around them are not: a handler checks the session (or the      *)
(* password) in one transaction and acts in a later one, so it is a record *)
(* in call[c] between two steps, other handlers run in between, and it may *)
(* be dropped at any await when the client hangs up (Abandon).             *)
(*                                                                         *)
(* Definitions named Faulty... are not part of the specification: each is  *)
(* the named definition with one plausible bug, which a property excludes. *)
(***************************************************************************)
EXTENDS Integers, FiniteSets

CONSTANTS
    Ops,            \* operator accounts (a username and its random id)
    Tokens,         \* bootstrap tokens the local socket can print
    Sources,        \* client addresses
    Calls,          \* HTTP requests in flight at one time
    Sids,           \* session identifiers: a bound on the sessions ever created
    PairMax,        \* login_account_failures
    TotalMax,       \* login_account_total_failures
    IpMax,          \* login_ip_failures
    TrackedMax,     \* login_tracked_accounts
    Ttl,            \* refresh_token_ttl_seconds
    Absolute,       \* session_absolute_ms
    IdleMax,        \* SESSION_IDLE_MS
    DesktopMax,     \* DESKTOP_ACCESS_MS
    Scenarios       \* budgets of a behaviour: see Init

ASSUME OperatorsAssumption ==
    /\ Sids \subseteq Nat /\ IsFiniteSet(Calls)
    /\ {PairMax, TotalMax, IpMax, TrackedMax} \subseteq Nat \ {0}
    /\ {Ttl, Absolute, IdleMax, DesktopMax} \subseteq Nat \ {0}

VARIABLES
    op,             \* operators: row, or None before creation, Gone after
    token,          \* bootstrap_tokens
    sess,           \* operator_sessions
    now,            \* the database clock
    ipFail,         \* rate_windows: failures per address
    pairFail,       \* rate_windows: failures per account and address
    pairLock,       \* rate_windows: lock rows of account and address
    fail,           \* rate_windows: failures per account
    lock,           \* rate_windows: lock rows per account
    call,           \* handlers in flight
    budget,         \* what the behaviour may still spend (a bound)
    history         \* history variable: bootstraps and answered guesses

rows == <<op, token, sess>>
limits == <<ipFail, pairFail, pairLock, fail, lock>>
vars == <<rows, limits, now, call, budget, history>>

None == [row |-> "none"]
Gone == [row |-> "gone"]
Idle == [pc |-> "idle"]
Roles == {"admin", "viewer"}
Kinds == {"browser", "desktop"}
Pairs == Ops \X Sources

Exists(o) == op[o].row = "live"
ActiveAdmin(o) == Exists(o) /\ op[o].role = "admin"
active_admin_exists == \E o \in Ops : ActiveAdmin(o)
FaultyOtherAdmin(o) == \E p \in Ops : ActiveAdmin(p)
OtherAdmin(o) == \E p \in Ops \ {o} : ActiveAdmin(p)

(* A session row is expired, idle or revoked; a desktop access token also  *)
(* ages out on its own, while its refresh token does not.                  *)
Known(s) == sess[s].row = "live"
NotRevoked(s) == Known(s) /\ ~sess[s].revoked
Fresh(s) == sess[s].exp > now /\ sess[s].seen + IdleMax > now
access_bound(s) == sess[s].kind = "desktop" => sess[s].made + DesktopMax > now
SessionLive(s) == NotRevoked(s) /\ Fresh(s) /\ access_bound(s) /\ Exists(sess[s].op)
Family(f) == {s \in Sids : Known(s) /\ sess[s].family = f}
Unused == {s \in Sids : sess[s] = None}
NextSid == CHOOSE s \in Unused : \A t \in Unused : s <= t
MinOf(S) == CHOOSE x \in S : \A y \in S : x <= y

Row(role, hash, must) == [row |-> "live", role |-> role, hash |-> hash, must |-> must]
Revoke(S) == [s \in Sids |-> IF s \in S THEN [sess[s] EXCEPT !.revoked = TRUE] ELSE sess[s]]
RevokedFamily(s) == Revoke(Family(sess[s].family))
SessionsOf(o) == {s \in Sids : Known(s) /\ sess[s].op = o}

Spend(f) == /\ budget[f] > 0
            /\ budget' = [budget EXCEPT ![f] = @ - 1]
Start(c, r) == call[c] = Idle /\ Spend("requests") /\ call' = [call EXCEPT ![c] = r]
Goto(c, r) == call' = [call EXCEPT ![c] = r]
End(c) == call' = [call EXCEPT ![c] = Idle]
-----------------------------------------------------------------------------
(* The first administrator.  The local socket creates one with a temporary *)
(* password, or prints a token whose holder creates one over HTTP.         *)

Bootstrapped(o, must) ==
    /\ ~active_admin_exists
    /\ op[o] = None
    /\ op' = [op EXCEPT ![o] = Row("admin", 0, must)]
    /\ history' = [history EXCEPT !.bootstraps = @ + 1]

bootstrap_local_operator(o) ==
    /\ Bootstrapped(o, TRUE)
    /\ UNCHANGED <<token, sess, limits, now, call, budget>>

(* A new token deletes every unused one.                                   *)
issue_bootstrap_token(t) ==
    /\ ~active_admin_exists
    /\ token[t] = "none"
    /\ token' = [u \in Tokens |-> IF u = t THEN "live"
                                  ELSE IF token[u] = "live" THEN "gone" ELSE token[u]]
    /\ UNCHANGED <<op, sess, limits, now, call, budget, history>>

ExpireToken(t) ==
    /\ token[t] = "live"
    /\ token' = [token EXCEPT ![t] = "gone"]
    /\ UNCHANGED <<op, sess, limits, now, call, budget, history>>

(* The handler looks the token up, hashes the password on the blocking     *)
(* pool, and only then runs the transaction, which looks again.            *)
bootstrap_token_usable(c, t, o) ==
    /\ token[t] = "live"
    /\ Start(c, [pc |-> "bootstrap", token |-> t, op |-> o])
    /\ UNCHANGED <<rows, limits, now, history>>

bootstrap_operator_with_token(c) ==
    /\ call[c].pc = "bootstrap"
    /\ IF ~active_admin_exists /\ token[call[c].token] = "live" /\ op[call[c].op] = None
       THEN /\ Bootstrapped(call[c].op, FALSE)
            /\ token' = [token EXCEPT ![call[c].token] = "used"]
            /\ Goto(c, [pc |-> "create", op |-> call[c].op, hash |-> 0, kind |-> "browser"])
       ELSE End(c) /\ UNCHANGED <<op, token, history>>
    /\ UNCHANGED <<sess, limits, now, budget>>
-----------------------------------------------------------------------------
(* Sign-in: the gate, the password, the counters, the session.             *)

FaultyLoginBlocked(o, i) == ipFail[i] >= IpMax \/ pairLock[<<o, i>>]
LoginBlocked(o, i) == ipFail[i] >= IpMax \/ lock[o] \/ pairLock[<<o, i>>]

login_block(c, o, i, k) ==
    /\ ~LoginBlocked(o, i)
    /\ Start(c, [pc |-> "read", op |-> o, src |-> i, kind |-> k])
    /\ UNCHANGED <<rows, limits, now, history>>

(* operator_by_username and the verification of the typed password against *)
(* the hash that was read; an unknown account verifies a dummy hash and    *)
(* fails.                                                                  *)
VerifyRight(c) ==
    LET k == call[c] IN
    /\ k.pc = "read"
    /\ Exists(k.op)
    /\ Goto(c, [pc |-> "clear", op |-> k.op, src |-> k.src, kind |-> k.kind,
                hash |-> op[k.op].hash, must |-> op[k.op].must])
    /\ UNCHANGED <<rows, limits, now, budget, history>>

VerifyWrong(c) ==
    LET k == call[c] IN
    /\ k.pc = "read"
    /\ Spend("guesses")
    /\ Goto(c, [pc |-> "pair", op |-> k.op, src |-> k.src, known |-> Exists(k.op)])
    /\ UNCHANGED <<rows, limits, now, history>>

DesktopRefused(k) == k.kind = "desktop" /\ k.must

(* Success deletes the account counter and the rows of the pair, never the *)
(* account lock.  A temporary password opens no desktop session.           *)
clear_login_failures(c) ==
    LET k == call[c] IN
    /\ k.pc = "clear"
    /\ fail' = [fail EXCEPT ![k.op] = 0]
    /\ pairFail' = [pairFail EXCEPT ![<<k.op, k.src>>] = 0]
    /\ pairLock' = [pairLock EXCEPT ![<<k.op, k.src>>] = FALSE]
    /\ history' = [history EXCEPT !.answered[k.op] = 0]
    /\ IF DesktopRefused(k)
       THEN End(c)
       ELSE Goto(c, [pc |-> "create", op |-> k.op, hash |-> k.hash, kind |-> k.kind])
    /\ UNCHANGED <<rows, ipFail, lock, now, budget>>

(* The insert selects the operator by id and by the hash that was          *)
(* verified, so a sign-in cannot outlive a change or a reset it raced.     *)
FaultySameHash(o, h) == Exists(o)
SameHash(o, h) == Exists(o) /\ op[o].hash = h
Min2(a, b) == IF a <= b THEN a ELSE b

create_session(c) ==
    LET k == call[c] IN
    /\ k.pc = "create"
    /\ IF SameHash(k.op, k.hash) /\ budget.sessions > 0 /\ Unused # {}
       THEN /\ Spend("sessions")
            /\ sess' = [sess EXCEPT ![NextSid] =
                    [row |-> "live", op |-> k.op, kind |-> k.kind, family |-> NextSid,
                     made |-> now, exp |-> now + Min2(Ttl, Absolute), seen |-> now,
                     revoked |-> FALSE, pw |-> k.hash]]
       ELSE UNCHANGED <<sess, budget>>
    /\ End(c)
    /\ UNCHANGED <<op, token, limits, now, history>>

(* record_login_failure is a series of transactions: address and pair      *)
(* first, then the account.  Unknown names are tracked only under a cap.   *)
may_track_unknown(p) ==
    pairFail[p] > 0 \/ Cardinality({q \in Pairs : pairFail[q] > 0}) < TrackedMax

record_pair_failure(c) ==
    LET k == call[c]
        p == <<k.op, k.src>>
        tracked == k.known \/ may_track_unknown(p)
    IN
    /\ k.pc = "pair"
    /\ ipFail' = [ipFail EXCEPT ![k.src] = @ + 1]
    /\ pairFail' = [pairFail EXCEPT ![p] =
            IF ~tracked THEN @ ELSE IF @ + 1 >= PairMax THEN 0 ELSE @ + 1]
    /\ pairLock' = [pairLock EXCEPT ![p] = @ \/ (tracked /\ pairFail[p] + 1 >= PairMax)]
    /\ IF tracked THEN Goto(c, [pc |-> "total", op |-> k.op]) ELSE End(c)
    /\ UNCHANGED <<rows, fail, lock, now, budget, history>>

Answered(o) == history' = [history EXCEPT !.answered[o] = @ + 1]

record_total_failure(c) ==
    LET o == call[c].op IN
    /\ call[c].pc = "total"
    /\ fail' = [fail EXCEPT ![o] = @ + 1]
    /\ IF fail[o] + 1 >= TotalMax
       THEN Goto(c, [pc |-> "lock", op |-> o]) /\ UNCHANGED history
       ELSE End(c) /\ Answered(o)
    /\ UNCHANGED <<rows, ipFail, pairFail, pairLock, lock, now, budget>>

record_lock(c) ==
    LET o == call[c].op IN
    /\ call[c].pc = "lock"
    /\ lock' = [lock EXCEPT ![o] = TRUE]
    /\ fail' = [fail EXCEPT ![o] = 0]
    /\ Answered(o)
    /\ End(c)
    /\ UNCHANGED <<rows, ipFail, pairFail, pairLock, now, budget>>

(* A window or a lock row expires.  Locks and counters are independent     *)
(* rows, so they lapse independently.                                      *)
LapseCounter(o) ==
    /\ fail[o] > 0
    /\ Spend("lapses")
    /\ fail' = [fail EXCEPT ![o] = 0]
    /\ history' = [history EXCEPT !.answered[o] = 0]
    /\ UNCHANGED <<rows, ipFail, pairFail, pairLock, lock, now, call>>

LapseLock(o) ==
    /\ lock[o]
    /\ Spend("lapses")
    /\ lock' = [lock EXCEPT ![o] = FALSE]
    /\ history' = [history EXCEPT !.answered[o] = 0]
    /\ UNCHANGED <<rows, ipFail, pairFail, pairLock, fail, now, call>>

LapseSource(i) ==
    /\ Spend("lapses")
    /\ ipFail' = [ipFail EXCEPT ![i] = 0]
    /\ pairFail' = [p \in Pairs |-> IF p[2] = i THEN 0 ELSE pairFail[p]]
    /\ pairLock' = [p \in Pairs |-> IF p[2] = i THEN FALSE ELSE pairLock[p]]
    /\ UNCHANGED <<rows, fail, lock, now, call, history>>
-----------------------------------------------------------------------------
(* Sessions in use.                                                        *)

Touched(s) == [sess EXCEPT ![s].seen = now]

touch_session(s) ==
    /\ SessionLive(s)
    /\ sess[s].seen # now
    /\ sess' = Touched(s)
    /\ UNCHANGED <<op, token, limits, now, call, budget, history>>

(* Whatever the operator still holds can be presented again: also a refresh*)
(* token that was already exchanged, which costs the whole family.         *)
FamilyStart(f) == MinOf({sess[s].made : s \in Family(f)})

Remaining(s) == FamilyStart(sess[s].family) + Absolute - now

Presented(s) == Known(s) /\ Exists(sess[s].op)

RotateRefused(s) ==
    /\ Presented(s)
    /\ sess[s].revoked \/ (Fresh(s) /\ Remaining(s) <= 0)
    /\ sess' = RevokedFamily(s)
    /\ UNCHANGED <<op, token, limits, now, call, budget, history>>

Successor(s) ==
    [sess[s] EXCEPT !.made = now, !.seen = now, !.revoked = FALSE,
                    !.exp = now + Min2(Ttl, Remaining(s))]

(* The desktop route revokes at once a successor of an account whose       *)
(* password became temporary.                                              *)
Temporary(s) == sess[s].kind = "desktop" /\ op[sess[s].op].must

rotate_session(s) ==
    /\ Presented(s)
    /\ NotRevoked(s) /\ Fresh(s) /\ Remaining(s) > 0
    /\ Spend("sessions") /\ Unused # {}
    /\ sess' = [Revoke({s}) EXCEPT
            ![s].seen = now,
            ![NextSid] = [Successor(s) EXCEPT !.revoked = Temporary(s)]]
    /\ UNCHANGED <<op, token, limits, now, call, history>>

logout(s) ==
    /\ SessionLive(s)
    /\ sess' = [Revoke({s}) EXCEPT ![s].seen = now]
    /\ UNCHANGED <<op, token, limits, now, call, budget, history>>

Tick ==
    /\ Spend("ticks")
    /\ now' = now + 1
    /\ UNCHANGED <<rows, limits, call, history>>
-----------------------------------------------------------------------------
(* Password change by the operator: the session, then the verification,    *)
(* then the transaction.                                                   *)

authenticated_session(s) == SessionLive(s) /\ sess[s].kind = "browser"

change_password(c, s) ==
    /\ authenticated_session(s)
    /\ sess' = Touched(s)
    /\ Start(c, [pc |-> "change", op |-> sess[s].op, sid |-> s, hash |-> op[sess[s].op].hash])
    /\ UNCHANGED <<op, token, limits, now, history>>

ChangeStillLive(k) == NotRevoked(k.sid) /\ Fresh(k.sid)

change_operator_password(c) ==
    LET k == call[c] IN
    /\ k.pc = "change"
    /\ IF SameHash(k.op, k.hash) /\ ChangeStillLive(k) /\ budget.passwords > 0
       THEN /\ Spend("passwords")
            /\ op' = [op EXCEPT ![k.op].hash = @ + 1, ![k.op].must = FALSE]
            /\ sess' = [Revoke(SessionsOf(k.op) \ {k.sid}) EXCEPT ![k.sid].pw = k.hash + 1]
       ELSE UNCHANGED <<op, sess, budget>>
    /\ End(c)
    /\ UNCHANGED <<token, limits, now, history>>

(* Administration.  forced_password_change_gate and require_admin read the *)
(* session; the store function runs later, whatever happened to it since.  *)
Acts == [kind : {"create", "role"}, to : Ops, role : Roles]
        \cup [kind : {"delete", "reset"}, to : Ops]

forced_password_change_gate(s) == ~op[sess[s].op].must

require_admin(c, s, a) ==
    /\ authenticated_session(s)
    /\ forced_password_change_gate(s)
    /\ op[sess[s].op].role = "admin"
    /\ sess' = Touched(s)
    /\ Start(c, [pc |-> "act", act |-> a])
    /\ UNCHANGED <<op, token, limits, now, history>>

create_local_operator(a) ==
    /\ op' = IF op[a.to] = None THEN [op EXCEPT ![a.to] = Row(a.role, 0, FALSE)] ELSE op
    /\ UNCHANGED <<sess, limits, budget, history>>

KeepsAdmin(a) == ActiveAdmin(a.to) => OtherAdmin(a.to)

update_local_operator(a) ==
    /\ op' = IF Exists(a.to) /\ (a.role = "admin" \/ KeepsAdmin(a))
             THEN [op EXCEPT ![a.to].role = a.role] ELSE op
    /\ UNCHANGED <<sess, limits, budget, history>>

delete_local_operator(a) ==
    /\ IF Exists(a.to) /\ KeepsAdmin(a)
       THEN /\ op' = [op EXCEPT ![a.to] = Gone]
            /\ sess' = [s \in Sids |-> IF s \in SessionsOf(a.to) THEN Gone ELSE sess[s]]
       ELSE UNCHANGED <<op, sess>>
    /\ UNCHANGED <<limits, budget, history>>

(* A reset is the way out of a lockout: it ends every session and deletes  *)
(* every limiter row of the account.                                       *)
reset_local_operator_password(o) ==
    IF Exists(o) /\ budget.passwords > 0
    THEN /\ Spend("passwords")
         /\ op' = [op EXCEPT ![o].hash = @ + 1, ![o].must = TRUE]
         /\ sess' = Revoke(SessionsOf(o))
         /\ fail' = [fail EXCEPT ![o] = 0]
         /\ lock' = [lock EXCEPT ![o] = FALSE]
         /\ pairFail' = [p \in Pairs |-> IF p[1] = o THEN 0 ELSE pairFail[p]]
         /\ pairLock' = [p \in Pairs |-> IF p[1] = o THEN FALSE ELSE pairLock[p]]
         /\ history' = [history EXCEPT !.answered[o] = 0]
         /\ UNCHANGED ipFail
    ELSE UNCHANGED <<op, sess, limits, budget, history>>

AdminAct(c) ==
    /\ call[c].pc = "act"
    /\ LET a == call[c].act IN
        \/ a.kind = "create" /\ create_local_operator(a)
        \/ a.kind = "role" /\ update_local_operator(a)
        \/ a.kind = "delete" /\ delete_local_operator(a)
        \/ a.kind = "reset" /\ reset_local_operator_password(a.to)
    /\ End(c)
    /\ UNCHANGED <<token, now>>

(* The local socket resets a password without a session.                   *)
SocketReset(o) ==
    /\ Exists(o)
    /\ reset_local_operator_password(o)
    /\ UNCHANGED <<token, now, call>>

(* The client hangs up and the handler is dropped at its current await.    *)
Abandon(c) ==
    /\ call[c] # Idle
    /\ End(c)
    /\ UNCHANGED <<rows, limits, now, budget, history>>
-----------------------------------------------------------------------------
Init ==
    /\ op = [o \in Ops |-> None]
    /\ token = [t \in Tokens |-> "none"]
    /\ sess = [s \in Sids |-> None]
    /\ now = 0
    /\ ipFail = [i \in Sources |-> 0]
    /\ pairFail = [p \in Pairs |-> 0]
    /\ pairLock = [p \in Pairs |-> FALSE]
    /\ fail = [o \in Ops |-> 0]
    /\ lock = [o \in Ops |-> FALSE]
    /\ call = [c \in Calls |-> Idle]
    /\ budget \in Scenarios
    /\ history = [bootstraps |-> 0, answered |-> [o \in Ops |-> 0]]

Bootstrap ==
    \/ \E o \in Ops : bootstrap_local_operator(o)
    \/ \E t \in Tokens : issue_bootstrap_token(t) \/ ExpireToken(t)
    \/ \E c \in Calls, t \in Tokens, o \in Ops : bootstrap_token_usable(c, t, o)
    \/ \E c \in Calls : bootstrap_operator_with_token(c)

SignIn ==
    \/ \E c \in Calls, o \in Ops, i \in Sources, k \in Kinds : login_block(c, o, i, k)
    \/ \E c \in Calls : VerifyRight(c) \/ VerifyWrong(c)
    \/ \E c \in Calls : clear_login_failures(c) \/ create_session(c)
    \/ \E c \in Calls : record_pair_failure(c) \/ record_total_failure(c) \/ record_lock(c)
    \/ \E o \in Ops : LapseCounter(o) \/ LapseLock(o)
    \/ \E i \in Sources : LapseSource(i)

Sessions ==
    \/ \E s \in Sids : touch_session(s) \/ logout(s)
    \/ \E s \in Sids : rotate_session(s) \/ RotateRefused(s)
    \/ \E c \in Calls, s \in Sids : change_password(c, s)
    \/ \E c \in Calls : change_operator_password(c)

Administration ==
    \/ \E c \in Calls, s \in Sids, a \in Acts : require_admin(c, s, a)
    \/ \E c \in Calls : AdminAct(c) \/ Abandon(c)
    \/ \E o \in Ops : SocketReset(o)

Next == Bootstrap \/ SignIn \/ Sessions \/ Administration \/ Tick

Spec == Init /\ [][Next]_vars
-----------------------------------------------------------------------------
(* The instance is set up once and then always has an administrator.  The  *)
(* socket and any number of token holders may race to create the first     *)
(* one, and administrators may demote or delete each other from requests   *)
(* authorised before the other one acted: bootstrap never succeeds twice,  *)
(* because the last active administrator can never be lost.                *)
BootstrappedOnce ==
    /\ history.bootstraps <= 1
    /\ history.bootstraps = 1 => active_admin_exists

(* No session outlives the password it was opened with: a session that is  *)
(* not revoked belongs to an existing operator whose password is still the *)
(* one verified at its sign-in (or was changed from that very session),    *)
(* whatever resets, changes and refreshes ran meanwhile; and an operator   *)
(* with a temporary password holds no desktop session.                     *)
SessionsCurrent ==
    \A s \in Sids : NotRevoked(s) =>
        /\ Exists(sess[s].op)
        /\ sess[s].pw = op[sess[s].op].hash
        /\ sess[s].kind = "desktop" => ~op[sess[s].op].must

(* Refreshing never forks a sign-in nor stretches it: a family has at most *)
(* one session that is not revoked, and none of its sessions expires after *)
(* the absolute lifetime that began at the sign-in.                        *)
FamilyBounded ==
    \A f \in Sids : Family(f) # {} =>
        /\ \A s, t \in Family(f) : ~sess[s].revoked /\ ~sess[t].revoked => s = t
        /\ \A s \in Family(f) : sess[s].exp <= FamilyStart(f) + Absolute

(* However guesses are spread over addresses and raced against each other, *)
(* an account answers at most the total limit of wrong passwords before it *)
(* is locked, plus one for each request that had passed the gate by then.  *)
(* (Counted since the last success, reset or expiry of its rows.)          *)
GuessesBounded ==
    \A o \in Ops : history.answered[o] <= TotalMax - 1 + Cardinality(Calls)

(* A session is worth exactly one sign-in under the password of today      *)
(* (login, refresh, change_password, reset_password).                      *)
SessionsSound == SessionsCurrent /\ FamilyBounded
=============================================================================
