-------------------------- MODULE OperatorsProofs --------------------------
(***************************************************************************)
(* Proofs about Operators for every set of accounts, addresses, requests   *)
(* in flight and sessions, all limits and lifetimes, and any budget.       *)
(***************************************************************************)
EXTENDS Operators, FiniteSetTheorems, WellFoundedInduction, TLAPS

-----------------------------------------------------------------------------
(* Rows. *)

OpRows == [row : {"live"}, role : Roles, hash : Nat, must : BOOLEAN]

SessionRows ==
  [row : {"live"}, op : Ops, kind : Kinds, family : Sids, made : Nat, exp : Int, seen : Nat,
   revoked : BOOLEAN, pw : Nat]

\* What a handler carries between two of its transactions.
CallShape(k) ==
  /\ k.pc \in {"bootstrap", "read", "clear", "create", "pair", "total", "lock", "change"} => k.op \in Ops
  /\ k.pc \in {"read", "clear", "create"} => k.kind \in Kinds
  /\ k.pc \in {"clear", "create", "change"} => k.hash \in Nat
  /\ k.pc = "clear" => k.must \in BOOLEAN
  /\ k.pc = "change" => k.sid \in Sids
  /\ k.pc = "act" => k.act.to \in Ops /\ (k.act.kind \in {"create", "role"} => k.act.role \in Roles)

Shaped ==
  /\ op \in [Ops -> OpRows \cup {None, Gone}]
  /\ sess \in [Sids -> SessionRows \cup {None, Gone}]
  /\ now \in Nat
  /\ DOMAIN call = Calls /\ \A c \in Calls : CallShape(call[c])

USE DEF None, Gone

LEMMA LeastExists ==
  ASSUME NEW S, S \subseteq Nat, S # {}
  PROVE  \E n \in S : \A m \in S : n <= m
<1>1. PICK n \in S : \A m \in S : ~ (<<m, n>> \in OpToRel(<, Nat))
  BY WFMin, NatLessThanWellFounded
<1>2. \A m \in S : ~(m < n)
  BY <1>1 DEF OpToRel
<1> QED
  BY <1>2

LEMMA FirstUnused == ASSUME Unused # {} PROVE NextSid \in Sids /\ sess[NextSid] = None
<1>1. Unused \subseteq Nat /\ Unused \subseteq Sids
  BY OperatorsAssumption DEF Unused
<1>3. \E n \in Unused : \A m \in Unused : n <= m
  BY <1>1, LeastExists
<1>4. NextSid \in Unused
  BY <1>3 DEF NextSid
<1> QED
  BY <1>4 DEF Unused

LEMMA OpTyped ==
  ASSUME Shaped, NEW o \in Ops
  PROVE  (Exists(o) => op[o] \in OpRows) /\ (~Exists(o) => op[o] \in {None, Gone})
BY DEF Shaped, Exists, OpRows

LEMMA SessionTyped ==
  ASSUME Shaped, NEW s \in Sids
  PROVE  (Known(s) => sess[s] \in SessionRows) /\ (~Known(s) => sess[s] \in {None, Gone})
BY DEF Shaped, Known, SessionRows

LEMMA RevokeTyped ==
  ASSUME Shaped, NEW S, S \subseteq Sids, \A s \in S : Known(s)
  PROVE  /\ Revoke(S) \in [Sids -> SessionRows \cup {None, Gone}]
         /\ \A s \in S : /\ Revoke(S)[s] \in SessionRows
                         /\ Revoke(S)[s] = [sess[s] EXCEPT !.revoked = TRUE]
         /\ \A s \in Sids \ S : Revoke(S)[s] = sess[s]
<1>1. \A s \in S : [sess[s] EXCEPT !.revoked = TRUE] \in SessionRows
  BY SessionTyped DEF SessionRows
<1>2. \A s \in Sids : sess[s] \in SessionRows \cup {None, Gone}
  BY DEF Shaped
<1> QED
  BY <1>1, <1>2 DEF Revoke

LEMMA CallMoves ==
  ASSUME Shaped, NEW c \in Calls, NEW r, CallShape(r), call' = [call EXCEPT ![c] = r]
  PROVE  /\ DOMAIN call' = Calls /\ \A d \in Calls : CallShape(call'[d])
         /\ call'[c] = r /\ \A d \in Calls \ {c} : call'[d] = call[d]
BY DEF Shaped

LEMMA IdleShape == CallShape(Idle)
BY DEF CallShape, Idle

LEMMA OpsTyped == Shaped => \A o \in Ops : op[o] \in OpRows \cup {None, Gone}
BY DEF Shaped

\* The rows of accounts: each transaction that writes one leaves a row.
LEMMA RowTyped ==
  ASSUME NEW role \in Roles, NEW must \in BOOLEAN
  PROVE  /\ Row(role, 0, must) \in OpRows /\ Row(role, 0, must).hash = 0 /\ Row(role, 0, must).must = must
         /\ Row(role, 0, must).row = "live" /\ Row(role, 0, must).role = role
BY DEF Row, OpRows

LEMMA InitShaped == Init => Shaped
BY IdleShape DEF Init, Shaped

LEMMA BootstrapShaped == ASSUME Shaped, Bootstrap PROVE Shaped'
<1>1. ASSUME NEW o \in Ops, NEW must \in BOOLEAN, Bootstrapped(o, must)
      PROVE  op' \in [Ops -> OpRows \cup {None, Gone}]
  <2>1. op' = [op EXCEPT ![o] = Row("admin", 0, must)]
    BY <1>1 DEF Bootstrapped
  <2>2. Row("admin", 0, must) \in OpRows
    BY RowTyped DEF Roles
  <2> QED
    BY <2>1, <2>2 DEF Shaped
<1>2. ASSUME NEW o \in Ops, bootstrap_local_operator(o) PROVE Shaped'
  BY <1>1, <1>2 DEF bootstrap_local_operator, Shaped
<1>3. ASSUME NEW t \in Tokens, issue_bootstrap_token(t) \/ ExpireToken(t) PROVE Shaped'
  BY <1>3 DEF issue_bootstrap_token, ExpireToken, Shaped
<1>4. ASSUME NEW c \in Calls, NEW t \in Tokens, NEW o \in Ops, bootstrap_token_usable(c, t, o) PROVE Shaped'
  <2>1. PICK r : r = [pc |-> "bootstrap", token |-> t, op |-> o]
    OBVIOUS
  <2>2. CallShape(r)
    BY <2>1 DEF CallShape
  <2>3. call' = [call EXCEPT ![c] = r] /\ UNCHANGED <<op, sess, now>>
    BY <1>4, <2>1 DEF bootstrap_token_usable, Start, rows
  <2> QED
    BY <2>2, <2>3, CallMoves DEF Shaped
<1>5. ASSUME NEW c \in Calls, bootstrap_operator_with_token(c) PROVE Shaped'
  <2>0. call[c].pc = "bootstrap" /\ call[c].op \in Ops
    BY <1>5 DEF bootstrap_operator_with_token, Shaped, CallShape
  <2>1. PICK r : r = [pc |-> "create", op |-> call[c].op, hash |-> 0, kind |-> "browser"]
    OBVIOUS
  <2>2. CallShape(r)
    BY <2>0, <2>1 DEF CallShape, Kinds
  <2>3. /\ call' = [call EXCEPT ![c] = r] \/ call' = [call EXCEPT ![c] = Idle]
        /\ Bootstrapped(call[c].op, FALSE) \/ UNCHANGED op
        /\ UNCHANGED <<sess, now>>
    BY <1>5, <2>1 DEF bootstrap_operator_with_token, Goto, End
  <2>4. op' \in [Ops -> OpRows \cup {None, Gone}]
    BY <1>1, <2>0, <2>3 DEF Shaped
  <2> QED
    BY <2>2, <2>3, <2>4, CallMoves, IdleShape DEF Shaped
<1> QED
  BY <1>2, <1>3, <1>4, <1>5 DEF Bootstrap

LEMMA SignInShaped == ASSUME Shaped, SignIn PROVE Shaped'
<1>1. ASSUME NEW c \in Calls, NEW o \in Ops, NEW i \in Sources, NEW k \in Kinds, login_block(c, o, i, k)
      PROVE  Shaped'
  <2>1. PICK r : r = [pc |-> "read", op |-> o, src |-> i, kind |-> k]
    OBVIOUS
  <2>2. CallShape(r)
    BY <2>1 DEF CallShape
  <2>3. call' = [call EXCEPT ![c] = r] /\ UNCHANGED <<op, sess, now>>
    BY <1>1, <2>1 DEF login_block, Start, rows
  <2> QED
    BY <2>2, <2>3, CallMoves DEF Shaped
<1>2. ASSUME NEW c \in Calls, VerifyRight(c) PROVE Shaped'
  <2>1. PICK k : k = call[c]
    OBVIOUS
  <2>2. k.pc = "read" /\ k.op \in Ops /\ k.kind \in Kinds /\ op[k.op] \in OpRows
    BY <1>2, <2>1, OpTyped DEF VerifyRight, Shaped, CallShape
  <2>3. PICK r : r = [pc |-> "clear", op |-> k.op, src |-> k.src, kind |-> k.kind,
                hash |-> op[k.op].hash, must |-> op[k.op].must]
    OBVIOUS
  <2>4. CallShape(r)
    BY <2>2, <2>3 DEF CallShape, OpRows
  <2>5. call' = [call EXCEPT ![c] = r] /\ UNCHANGED <<op, sess, now>>
    BY <1>2, <2>1, <2>3 DEF VerifyRight, Goto, rows
  <2> QED
    BY <2>4, <2>5, CallMoves DEF Shaped
<1>3. ASSUME NEW c \in Calls, VerifyWrong(c) PROVE Shaped'
  <2>1. PICK k : k = call[c]
    OBVIOUS
  <2>2. k.pc = "read" /\ k.op \in Ops
    BY <1>3, <2>1 DEF VerifyWrong, Shaped, CallShape
  <2>3. PICK r : r = [pc |-> "pair", op |-> k.op, src |-> k.src, known |-> Exists(k.op)]
    OBVIOUS
  <2>4. CallShape(r)
    BY <2>2, <2>3 DEF CallShape
  <2>5. call' = [call EXCEPT ![c] = r] /\ UNCHANGED <<op, sess, now>>
    BY <1>3, <2>1, <2>3 DEF VerifyWrong, Goto, rows
  <2> QED
    BY <2>4, <2>5, CallMoves DEF Shaped
<1>4. ASSUME NEW c \in Calls, clear_login_failures(c) PROVE Shaped'
  <2>1. PICK k : k = call[c]
    OBVIOUS
  <2>2. k.pc = "clear" /\ k.op \in Ops /\ k.kind \in Kinds /\ k.hash \in Nat
    BY <1>4, <2>1 DEF clear_login_failures, Shaped, CallShape
  <2>3. PICK r : r = [pc |-> "create", op |-> k.op, hash |-> k.hash, kind |-> k.kind]
    OBVIOUS
  <2>4. CallShape(r)
    BY <2>2, <2>3 DEF CallShape
  <2>5. /\ call' = [call EXCEPT ![c] = r] \/ call' = [call EXCEPT ![c] = Idle]
        /\ UNCHANGED <<op, sess, now>>
    BY <1>4, <2>1, <2>3 DEF clear_login_failures, Goto, End, rows
  <2> QED
    BY <2>4, <2>5, CallMoves, IdleShape DEF Shaped
<1>5. ASSUME NEW c \in Calls, create_session(c) PROVE Shaped'
  <2>1. PICK k : k = call[c]
    OBVIOUS
  <2>2. k.pc = "create" /\ k.op \in Ops /\ k.kind \in Kinds /\ k.hash \in Nat
    BY <1>5, <2>1 DEF create_session, Shaped, CallShape
  <2>3. PICK r : r = [row |-> "live", op |-> k.op, kind |-> k.kind, family |-> NextSid,
                     made |-> now, exp |-> now + Min2(Ttl, Absolute), seen |-> now,
                     revoked |-> FALSE, pw |-> k.hash]
    OBVIOUS
  <2>4. /\ call' = [call EXCEPT ![c] = Idle] /\ UNCHANGED <<op, now>>
        /\ (Unused # {} /\ sess' = [sess EXCEPT ![NextSid] = r]) \/ UNCHANGED sess
    BY <1>5, <2>1, <2>3 DEF create_session, End
  <2>5. Unused # {} => r \in SessionRows
    <3>1. now \in Nat /\ now + Min2(Ttl, Absolute) \in Int
      BY OperatorsAssumption DEF Shaped, Min2
    <3> QED
      BY <2>2, <2>3, <3>1, FirstUnused DEF SessionRows
  <2>6. sess' \in [Sids -> SessionRows \cup {None, Gone}]
    BY <2>4, <2>5, FirstUnused DEF Shaped
  <2> QED
    BY <2>4, <2>6, CallMoves, IdleShape DEF Shaped
<1>6. ASSUME NEW c \in Calls, record_pair_failure(c) PROVE Shaped'
  <2>1. PICK k : k = call[c]
    OBVIOUS
  <2>2. k.pc = "pair" /\ k.op \in Ops
    BY <1>6, <2>1 DEF record_pair_failure, Shaped, CallShape
  <2>3. PICK r : r = [pc |-> "total", op |-> k.op]
    OBVIOUS
  <2>4. CallShape(r)
    BY <2>2, <2>3 DEF CallShape
  <2>5. /\ call' = [call EXCEPT ![c] = r] \/ call' = [call EXCEPT ![c] = Idle]
        /\ UNCHANGED <<op, sess, now>>
    BY <1>6, <2>1, <2>3 DEF record_pair_failure, Goto, End, rows
  <2> QED
    BY <2>4, <2>5, CallMoves, IdleShape DEF Shaped
<1>7. ASSUME NEW c \in Calls, record_total_failure(c) \/ record_lock(c) PROVE Shaped'
  <2>1. PICK o : o = call[c].op
    OBVIOUS
  <2>2. o \in Ops
    BY <1>7, <2>1 DEF record_total_failure, record_lock, Shaped, CallShape
  <2>3. PICK r : r = [pc |-> "lock", op |-> o]
    OBVIOUS
  <2>4. CallShape(r)
    BY <2>2, <2>3 DEF CallShape
  <2>5. /\ call' = [call EXCEPT ![c] = r] \/ call' = [call EXCEPT ![c] = Idle]
        /\ UNCHANGED <<op, sess, now>>
    BY <1>7, <2>1, <2>3 DEF record_total_failure, record_lock, Goto, End, rows
  <2> QED
    BY <2>4, <2>5, CallMoves, IdleShape DEF Shaped
<1>8. ASSUME \/ \E o \in Ops : LapseCounter(o) \/ LapseLock(o)
             \/ \E i \in Sources : LapseSource(i)
      PROVE  Shaped'
  BY <1>8 DEF LapseCounter, LapseLock, LapseSource, rows, Shaped
<1> QED
  BY <1>1, <1>2, <1>3, <1>4, <1>5, <1>6, <1>7, <1>8 DEF SignIn

\* What a step may do to a session row that exists before and after it, other than a change
\* of password: the sign-in it stands for stays, and a revocation is final.
Carried(s) ==
  /\ Known(s) /\ Known(s)'
  /\ sess'[s] \in SessionRows
  /\ sess'[s].op = sess[s].op /\ sess'[s].kind = sess[s].kind /\ sess'[s].family = sess[s].family
  /\ sess'[s].made = sess[s].made /\ sess'[s].exp = sess[s].exp /\ sess'[s].pw = sess[s].pw
  /\ sess[s].revoked => sess'[s].revoked

Kept(s) == sess'[s] = sess[s] \/ Carried(s)

SessTyped == sess' \in [Sids -> SessionRows \cup {None, Gone}]

LEMMA TouchKeeps ==
  ASSUME Shaped, NEW s \in Sids, Known(s), sess' = Touched(s)
  PROVE  SessTyped /\ \A t \in Sids : Kept(t)
<1>1. sess[s] \in SessionRows /\ now \in Nat
  BY SessionTyped DEF Shaped
<1>2. PICK r : r = [sess[s] EXCEPT !.seen = now]
  OBVIOUS
<1>3. /\ r \in SessionRows /\ r.row = "live" /\ r.op = sess[s].op /\ r.kind = sess[s].kind
      /\ r.family = sess[s].family /\ r.made = sess[s].made /\ r.exp = sess[s].exp /\ r.pw = sess[s].pw
      /\ r.revoked = sess[s].revoked
  BY <1>1, <1>2 DEF SessionRows
<1>4. sess' = [sess EXCEPT ![s] = r]
  BY <1>2 DEF Touched
<1>5. SessTyped
  BY <1>3, <1>4 DEF Shaped, SessTyped
<1>6. sess'[s] = r /\ \A t \in Sids \ {s} : sess'[t] = sess[t]
  BY <1>4 DEF Shaped
<1>7. Carried(s)
  BY <1>3, <1>6 DEF Carried, Known
<1> QED
  BY <1>5, <1>6, <1>7 DEF Kept

LEMMA RevokeKeeps ==
  ASSUME Shaped, NEW S, S \subseteq Sids, \A s \in S : Known(s), sess' = Revoke(S)
  PROVE  /\ SessTyped /\ \A t \in Sids : Kept(t)
         /\ \A t \in S : sess'[t].revoked
<1>1. ASSUME NEW s \in S PROVE Carried(s) /\ sess'[s].revoked
  <2>1. sess[s] \in SessionRows /\ sess'[s] \in SessionRows /\ sess'[s] = [sess[s] EXCEPT !.revoked = TRUE]
    BY SessionTyped, RevokeTyped
  <2>2. Known(s) /\ Known(s)'
    BY <2>1 DEF Known, SessionRows
  <2> QED
    BY <2>1, <2>2 DEF Carried, SessionRows
<1>2. \A s \in Sids \ S : sess'[s] = sess[s]
  BY RevokeTyped
<1> QED
  BY <1>1, <1>2, RevokeTyped DEF Kept, SessTyped

LEMMA LogoutKeeps ==
  ASSUME Shaped, NEW s \in Sids, Known(s), sess' = [Revoke({s}) EXCEPT ![s].seen = now]
  PROVE  /\ SessTyped /\ \A t \in Sids : Kept(t)
         /\ sess'[s].revoked
<1>1. PICK f : f = Revoke({s})
  OBVIOUS
<1>2. /\ f \in [Sids -> SessionRows \cup {None, Gone}]
      /\ f[s] \in SessionRows /\ f[s] = [sess[s] EXCEPT !.revoked = TRUE] /\ \A t \in Sids \ {s} : f[t] = sess[t]
  BY <1>1, RevokeTyped
<1>3. sess' = [f EXCEPT ![s].seen = now] /\ now \in Nat /\ sess[s] \in SessionRows
  BY <1>1, SessionTyped DEF Shaped
<1>4. PICK r : r = [f[s] EXCEPT !.seen = now]
  OBVIOUS
<1>5. /\ r \in SessionRows /\ r.row = "live" /\ r.op = sess[s].op /\ r.kind = sess[s].kind
      /\ r.family = sess[s].family /\ r.made = sess[s].made /\ r.exp = sess[s].exp /\ r.pw = sess[s].pw
      /\ r.revoked
  BY <1>2, <1>3, <1>4 DEF SessionRows
<1>6. sess' = [f EXCEPT ![s] = r]
  BY <1>3, <1>4
<1>7a. SessTyped
  BY <1>2, <1>5, <1>6 DEF SessTyped
<1>7. sess'[s] = r /\ \A t \in Sids \ {s} : sess'[t] = sess[t]
  BY <1>2, <1>6
<1>8. Carried(s)
  BY <1>5, <1>7 DEF Carried, Known
<1> QED
  BY <1>5, <1>7, <1>7a, <1>8 DEF Kept

\* The sign-in of a family is the first of its sessions.
LEMMA FamilyStartIsLeast ==
  ASSUME Shaped, NEW f, Family(f) # {}
  PROVE  FamilyStart(f) \in Nat /\ (\E s \in Family(f) : FamilyStart(f) = sess[s].made)
         /\ \A s \in Family(f) : FamilyStart(f) <= sess[s].made
<1>1. PICK S : S = {sess[s].made : s \in Family(f)}
  OBVIOUS
<1>2. \A s \in Family(f) : sess[s].made \in Nat
  BY SessionTyped DEF Family, SessionRows
<1>3. S \subseteq Nat /\ S # {}
  BY <1>1, <1>2
<1>4. \E n \in S : \A m \in S : n <= m
  BY <1>3, LeastExists
<1>5. MinOf(S) \in S /\ \A m \in S : MinOf(S) <= m
  BY <1>4 DEF MinOf
<1>6. FamilyStart(f) = MinOf(S)
  BY <1>1 DEF FamilyStart
<1> QED
  BY <1>1, <1>3, <1>5, <1>6

\* The exchange of a session for its successor.
LEMMA RotateMoves ==
  ASSUME Shaped, NEW s \in Sids, rotate_session(s)
  PROVE  /\ SessTyped
         /\ Known(s) /\ ~sess[s].revoked /\ Exists(sess[s].op)
         /\ NextSid \in Sids /\ NextSid # s /\ sess[NextSid] = None
         /\ \A t \in Sids \ {NextSid} : Kept(t)
         /\ sess'[s].revoked
         /\ sess'[NextSid] \in SessionRows
         /\ sess'[NextSid].op = sess[s].op /\ sess'[NextSid].kind = sess[s].kind
         /\ sess'[NextSid].family = sess[s].family /\ sess'[NextSid].pw = sess[s].pw
         /\ sess'[NextSid].made = now /\ sess'[NextSid].exp <= FamilyStart(sess[s].family) + Absolute
         /\ sess'[NextSid].revoked = Temporary(s)
         /\ FamilyStart(sess[s].family) \in Nat
<1>1. PICK n : n = NextSid
  OBVIOUS
<1>2. Known(s) /\ ~sess[s].revoked /\ Exists(sess[s].op) /\ Unused # {}
  BY DEF rotate_session, Presented, NotRevoked
<1>3. n \in Sids /\ sess[n] = None /\ n # s
  BY <1>1, <1>2, FirstUnused DEF Known
<1>4. sess[s] \in SessionRows /\ now \in Nat /\ sess[s].op \in Ops /\ op[sess[s].op] \in OpRows
  BY <1>2, SessionTyped, OpTyped DEF Shaped, SessionRows
<1>5. FamilyStart(sess[s].family) \in Nat
  BY <1>2, FamilyStartIsLeast DEF Family
<1>6. PICK e : e = now + Min2(Ttl, Remaining(s))
  OBVIOUS
<1>7. e \in Int /\ e <= FamilyStart(sess[s].family) + Absolute
  BY <1>4, <1>5, <1>6, OperatorsAssumption DEF Min2, Remaining
<1>8. Temporary(s) \in BOOLEAN
  BY <1>4 DEF Temporary, OpRows
<1>9. PICK r : r = [Successor(s) EXCEPT !.revoked = Temporary(s)]
  OBVIOUS
<1>10. r = [sess[s] EXCEPT !.made = now, !.seen = now, !.exp = e, !.revoked = Temporary(s)]
  BY <1>4, <1>6, <1>9 DEF Successor, SessionRows
<1>11. /\ r \in SessionRows /\ r.op = sess[s].op /\ r.kind = sess[s].kind /\ r.family = sess[s].family
       /\ r.pw = sess[s].pw /\ r.made = now /\ r.exp = e /\ r.revoked = Temporary(s)
  BY <1>4, <1>7, <1>8, <1>10 DEF SessionRows
<1>12. PICK f : f = [Revoke({s}) EXCEPT ![s].seen = now]
  OBVIOUS
<1>13. PICK g : g = Revoke({s})
  OBVIOUS
<1>14. /\ g \in [Sids -> SessionRows \cup {None, Gone}]
       /\ g[s] \in SessionRows /\ g[s] = [sess[s] EXCEPT !.revoked = TRUE] /\ \A t \in Sids \ {s} : g[t] = sess[t]
  BY <1>2, <1>13, RevokeTyped
<1>15. PICK q : q = [g[s] EXCEPT !.seen = now]
  OBVIOUS
<1>16. /\ q \in SessionRows /\ q.row = "live" /\ q.op = sess[s].op /\ q.kind = sess[s].kind
       /\ q.family = sess[s].family /\ q.made = sess[s].made /\ q.exp = sess[s].exp /\ q.pw = sess[s].pw
       /\ q.revoked
  <2>1. sess[s] \in SessionRows /\ now \in Nat
    BY <1>4
  <2>2. q = [sess[s] EXCEPT !.revoked = TRUE, !.seen = now]
    BY <2>1, <1>14, <1>15 DEF SessionRows
  <2> QED
    BY <2>1, <2>2 DEF SessionRows
<1>17. sess' = [[g EXCEPT ![s] = q] EXCEPT ![n] = r]
  BY <1>1, <1>9, <1>13, <1>15 DEF rotate_session
<1>18. /\ SessTyped /\ sess'[s] = q /\ sess'[n] = r
       /\ \A t \in Sids \ {s, n} : sess'[t] = sess[t]
  BY <1>3, <1>11, <1>14, <1>16, <1>17 DEF SessTyped
<1>19. Carried(s)
  BY <1>2, <1>16, <1>18 DEF Carried, Known
<1>20. \A t \in Sids \ {n} : Kept(t)
  BY <1>18, <1>19 DEF Kept
<1> QED
  BY <1>1, <1>2, <1>3, <1>5, <1>7, <1>11, <1>16, <1>18, <1>20

\* A new hash for an account: what a change and a reset leave of its row.
Rehashed(o, must) ==
  /\ Exists(o) /\ op' \in [Ops -> OpRows \cup {None, Gone}]
  /\ op'[o] \in OpRows /\ op'[o].hash = op[o].hash + 1 /\ op'[o].must = must /\ op'[o].role = op[o].role
  /\ \A p \in Ops \ {o} : op'[p] = op[p]

LEMMA RehashMoves ==
  ASSUME Shaped, NEW o \in Ops, Exists(o), NEW must \in BOOLEAN,
         op' = [op EXCEPT ![o].hash = @ + 1, ![o].must = must]
  PROVE  Rehashed(o, must)
<1>1. op[o] \in OpRows
  BY OpTyped
<1>2. PICK r : r = [op[o] EXCEPT !.hash = @ + 1, !.must = must]
  OBVIOUS
<1>3. r \in OpRows /\ r.hash = op[o].hash + 1 /\ r.must = must /\ r.role = op[o].role
  <2>1. PICK q : q = op[o]
    OBVIOUS
  <2>2. PICK h : h = q.hash + 1
    OBVIOUS
  <2>3. q \in OpRows /\ q.hash \in Nat /\ h \in Nat /\ r = [q EXCEPT !.hash = h, !.must = must]
    BY <1>1, <1>2, <2>1, <2>2 DEF OpRows
  <2>4. r \in OpRows /\ r.hash = h /\ r.must = must /\ r.role = q.role
    BY <2>3 DEF OpRows
  <2> QED
    BY <2>1, <2>2, <2>4
<1>4. op' = [op EXCEPT ![o] = r]
  BY <1>1, <1>2 DEF Shaped, OpRows
<1> HIDE DEF None, Gone
<1>5. op' \in [Ops -> OpRows \cup {None, Gone}]
  BY <1>3, <1>4 DEF Shaped
<1>6. op'[o] = r /\ \A p \in Ops \ {o} : op'[p] = op[p]
  BY <1>4 DEF Shaped
<1> QED
  BY <1>3, <1>5, <1>6 DEF Rehashed

\* The change of a password from session w of operator o.
ChangeMade(o, w, h) ==
  /\ SessTyped
  /\ Known(w) /\ ~sess[w].revoked /\ Known(w)' /\ sess'[w] \in SessionRows
  /\ sess'[w].op = sess[w].op /\ sess'[w].kind = sess[w].kind /\ sess'[w].family = sess[w].family
  /\ sess'[w].made = sess[w].made /\ sess'[w].exp = sess[w].exp /\ sess'[w].pw = h + 1
  /\ \A t \in Sids \ {w} : Kept(t)
  /\ \A t \in SessionsOf(o) \ {w} : sess'[t].revoked
  /\ SameHash(o, h)

LEMMA ChangeMoves ==
  ASSUME Shaped, NEW c \in Calls, NEW k, k = call[c], change_operator_password(c)
  PROVE  /\ call' = [call EXCEPT ![c] = Idle] /\ UNCHANGED now
         /\ \/ UNCHANGED <<op, sess>>
            \/ Rehashed(k.op, FALSE) /\ ChangeMade(k.op, k.sid, k.hash)
<1>1. k.op \in Ops /\ k.sid \in Sids /\ k.hash \in Nat /\ k.pc = "change"
  BY DEF change_operator_password, Shaped, CallShape
<1>2. call' = [call EXCEPT ![c] = Idle] /\ UNCHANGED now
  BY DEF change_operator_password, End
<1>3. ASSUME SameHash(k.op, k.hash), ChangeStillLive(k),
             op' = [op EXCEPT ![k.op].hash = @ + 1, ![k.op].must = FALSE],
             sess' = [Revoke(SessionsOf(k.op) \ {k.sid}) EXCEPT ![k.sid].pw = k.hash + 1]
      PROVE  Rehashed(k.op, FALSE) /\ ChangeMade(k.op, k.sid, k.hash)
  <2>1. Exists(k.op) /\ Known(k.sid) /\ ~sess[k.sid].revoked
    BY <1>3 DEF SameHash, ChangeStillLive, NotRevoked
  <2>2. Rehashed(k.op, FALSE)
    BY <1>1, <1>3, <2>1, RehashMoves
  <2>3. PICK w : w = k.sid
    OBVIOUS
  <2>4. PICK S : S = SessionsOf(k.op) \ {w}
    OBVIOUS
  <2>5. S \subseteq Sids /\ (\A s \in S : Known(s)) /\ w \notin S /\ w \in Sids
    BY <1>1, <2>3, <2>4 DEF SessionsOf
  <2>6. PICK g : g = Revoke(S)
    OBVIOUS
  <2>7. /\ g \in [Sids -> SessionRows \cup {None, Gone}]
        /\ \A s \in S : g[s] \in SessionRows /\ g[s] = [sess[s] EXCEPT !.revoked = TRUE]
        /\ \A s \in Sids \ S : g[s] = sess[s]
    BY <2>5, <2>6, RevokeTyped
  <2>8. sess[w] \in SessionRows /\ g[w] = sess[w]
    BY <2>1, <2>3, <2>5, <2>7, SessionTyped
  <2>9. PICK r : r = [sess[w] EXCEPT !.pw = k.hash + 1]
    OBVIOUS
  <2>10. /\ r \in SessionRows /\ r.row = "live" /\ r.op = sess[w].op /\ r.kind = sess[w].kind
         /\ r.family = sess[w].family /\ r.made = sess[w].made /\ r.exp = sess[w].exp /\ r.pw = k.hash + 1
    BY <1>1, <2>8, <2>9 DEF SessionRows
  <2>11. sess' = [g EXCEPT ![w] = r]
    BY <1>3, <2>3, <2>4, <2>6, <2>8, <2>9
  <2>12. SessTyped
    BY <2>7, <2>10, <2>11 DEF SessTyped
  <2>13. sess'[w] = r /\ \A t \in Sids \ {w} : sess'[t] = g[t]
    BY <2>5, <2>7, <2>11
  <2>14. \A t \in S : Carried(t) /\ sess'[t].revoked
    <3> TAKE t \in S
    <3>1. sess[t] \in SessionRows /\ sess'[t] = [sess[t] EXCEPT !.revoked = TRUE] /\ sess'[t] \in SessionRows
      BY <2>5, <2>7, <2>13, SessionTyped
    <3>2. Known(t) /\ Known(t)'
      BY <3>1 DEF Known, SessionRows
    <3> QED
      BY <3>1, <3>2 DEF Carried, SessionRows
  <2>15. \A t \in Sids \ {w} : Kept(t)
    BY <2>7, <2>13, <2>14 DEF Kept
  <2>16. Known(w)'
    BY <2>10, <2>13 DEF Known
  <2>17. \A t \in SessionsOf(k.op) \ {w} : sess'[t].revoked
    BY <2>4, <2>14
  <2>18. ChangeMade(k.op, w, k.hash)
    BY <1>3, <2>1, <2>3, <2>10, <2>12, <2>13, <2>15, <2>16, <2>17 DEF ChangeMade
  <2> QED
    BY <2>2, <2>3, <2>18
<1> QED
  BY <1>2, <1>3 DEF change_operator_password

LEMMA SessionsShaped == ASSUME Shaped, Sessions PROVE Shaped'
<1>1. ASSUME NEW s \in Sids, touch_session(s) \/ logout(s) \/ rotate_session(s) \/ RotateRefused(s) PROVE Shaped'
  <2>1. UNCHANGED <<op, now, call>>
    BY <1>1 DEF touch_session, logout, rotate_session, RotateRefused
  <2>2. CASE touch_session(s)
    BY <2>1, <2>2, TouchKeeps DEF touch_session, SessionLive, NotRevoked, Shaped, SessTyped
  <2>3. CASE logout(s)
    BY <2>1, <2>3, LogoutKeeps DEF logout, SessionLive, NotRevoked, Shaped, SessTyped
  <2>4. CASE rotate_session(s)
    BY <2>1, <2>4, RotateMoves DEF Shaped, SessTyped
  <2>5. CASE RotateRefused(s)
    <3>1. PICK S : S = Family(sess[s].family)
      OBVIOUS
    <3>2. S \subseteq Sids /\ (\A t \in S : Known(t)) /\ sess' = Revoke(S)
      BY <2>5, <3>1 DEF RotateRefused, RevokedFamily, Family
    <3> QED
      BY <2>1, <3>2, RevokeKeeps DEF Shaped, SessTyped
  <2> QED
    BY <1>1, <2>2, <2>3, <2>4, <2>5
<1>2. ASSUME NEW c \in Calls, NEW s \in Sids, change_password(c, s) PROVE Shaped'
  <2>1. Known(s) /\ Exists(sess[s].op) /\ sess' = Touched(s) /\ UNCHANGED <<op, now>>
    BY <1>2 DEF change_password, authenticated_session, SessionLive, NotRevoked
  <2>2. sess[s] \in SessionRows /\ sess[s].op \in Ops /\ op[sess[s].op] \in OpRows
    BY <2>1, SessionTyped, OpTyped DEF SessionRows
  <2>3. PICK r : r = [pc |-> "change", op |-> sess[s].op, sid |-> s, hash |-> op[sess[s].op].hash]
    OBVIOUS
  <2>4. CallShape(r)
    BY <2>2, <2>3 DEF CallShape, OpRows
  <2>5. call' = [call EXCEPT ![c] = r]
    BY <1>2, <2>3 DEF change_password, Start
  <2> QED
    BY <2>1, <2>4, <2>5, CallMoves, TouchKeeps DEF Shaped, SessTyped
<1>3. ASSUME NEW c \in Calls, change_operator_password(c) PROVE Shaped'
  <2>1. /\ call' = [call EXCEPT ![c] = Idle] /\ UNCHANGED now
        /\ \/ UNCHANGED <<op, sess>>
           \/ Rehashed(call[c].op, FALSE) /\ ChangeMade(call[c].op, call[c].sid, call[c].hash)
    BY <1>3, ChangeMoves
  <2>2. SessTyped /\ op' \in [Ops -> OpRows \cup {None, Gone}]
    BY <2>1 DEF Rehashed, ChangeMade, SessTyped, Shaped
  <2> QED
    BY <2>1, <2>2, CallMoves, IdleShape DEF Shaped, SessTyped
<1> QED
  BY <1>1, <1>2, <1>3 DEF Sessions

\* What administration does to the accounts and the sessions.
OpTypedNext == op' \in [Ops -> OpRows \cup {None, Gone}]

Created(o) ==
  /\ op[o] = None /\ op'[o] \in OpRows /\ op'[o].hash = 0 /\ ~op'[o].must
  /\ \A p \in Ops \ {o} : op'[p] = op[p]
  /\ UNCHANGED sess

Reassigned(o) ==
  /\ Exists(o) /\ op'[o] \in OpRows /\ op'[o].hash = op[o].hash /\ op'[o].must = op[o].must
  /\ op'[o].role = "admin" \/ (ActiveAdmin(o) => OtherAdmin(o))
  /\ \A p \in Ops \ {o} : op'[p] = op[p]
  /\ UNCHANGED sess

Deleted(o) ==
  /\ Exists(o) /\ op'[o] = Gone
  /\ ActiveAdmin(o) => OtherAdmin(o)
  /\ \A p \in Ops \ {o} : op'[p] = op[p]
  /\ SessTyped
  /\ \A s \in SessionsOf(o) : sess'[s] = Gone
  /\ \A s \in Sids \ SessionsOf(o) : sess'[s] = sess[s]

WasReset(o) ==
  /\ Rehashed(o, TRUE)
  /\ SessTyped /\ \A s \in Sids : Kept(s)
  /\ \A s \in SessionsOf(o) : sess'[s].revoked

Administered(o) ==
  /\ OpTypedNext
  /\ \/ UNCHANGED <<op, sess>>
     \/ Created(o)
     \/ Reassigned(o)
     \/ Deleted(o)
     \/ WasReset(o)

LEMMA CreateMoves ==
  ASSUME Shaped, NEW a, a.to \in Ops, a.role \in Roles, create_local_operator(a)
  PROVE  Administered(a.to)
<1>1. PICK o : o = a.to
  OBVIOUS
<1>2. PICK r : r = Row(a.role, 0, FALSE)
  OBVIOUS
<1>3. r \in OpRows /\ r.hash = 0 /\ ~r.must
  BY <1>2, RowTyped
<1>4. UNCHANGED sess /\ op' = IF op[o] = None THEN [op EXCEPT ![o] = r] ELSE op
  BY <1>1, <1>2 DEF create_local_operator
<1>5. CASE op[o] = None
  <2> HIDE DEF None, Gone
  <2>1. op' = [op EXCEPT ![o] = r] /\ o \in Ops
    BY <1>1, <1>4, <1>5
  <2>2. OpTypedNext
    BY <1>3, <2>1 DEF Shaped, OpTypedNext
  <2>3. op'[o] = r /\ \A p \in Ops \ {o} : op'[p] = op[p]
    BY <2>1 DEF Shaped
  <2> QED
    BY <1>1, <1>3, <1>4, <1>5, <2>2, <2>3 DEF Administered, Created
<1>6. CASE op[o] # None
  BY <1>1, <1>4, <1>6 DEF Administered, OpTypedNext, Shaped
<1> QED
  BY <1>5, <1>6

LEMMA UpdateMoves ==
  ASSUME Shaped, NEW a, a.to \in Ops, a.role \in Roles, update_local_operator(a)
  PROVE  Administered(a.to)
<1>1. PICK o : o = a.to
  OBVIOUS
<1>2. PICK r : r = [op[o] EXCEPT !.role = a.role]
  OBVIOUS
<1>3. UNCHANGED sess /\ op' = IF Exists(o) /\ (a.role = "admin" \/ KeepsAdmin(a)) THEN [op EXCEPT ![o] = r] ELSE op
  BY <1>1, <1>2 DEF update_local_operator
<1>4. CASE Exists(o) /\ (a.role = "admin" \/ KeepsAdmin(a))
  <2>1. op[o] \in OpRows /\ o \in Ops
    BY <1>1, <1>4, OpTyped
  <2>2. r \in OpRows /\ r.hash = op[o].hash /\ r.must = op[o].must /\ r.role = a.role
    BY <1>2, <2>1 DEF OpRows
  <2> HIDE DEF None, Gone
  <2>3. op' = [op EXCEPT ![o] = r]
    BY <1>3, <1>4
  <2>4. OpTypedNext
    BY <2>2, <2>3 DEF Shaped, OpTypedNext
  <2>5. op'[o] = r /\ \A p \in Ops \ {o} : op'[p] = op[p]
    BY <2>1, <2>3 DEF Shaped
  <2>6. op'[o].role = "admin" \/ (ActiveAdmin(o) => OtherAdmin(o))
    BY <1>1, <1>4, <2>2, <2>5 DEF KeepsAdmin
  <2>7. Reassigned(o)
    BY <1>3, <1>4, <2>2, <2>5, <2>6 DEF Reassigned
  <2> QED
    BY <1>1, <2>4, <2>7 DEF Administered
<1>5. CASE ~(Exists(o) /\ (a.role = "admin" \/ KeepsAdmin(a)))
  BY <1>1, <1>3, <1>5 DEF Administered, OpTypedNext, Shaped
<1> QED
  BY <1>4, <1>5

LEMMA DeleteMoves ==
  ASSUME Shaped, NEW a, a.to \in Ops, delete_local_operator(a)
  PROVE  Administered(a.to)
<1>1. PICK o : o = a.to
  OBVIOUS
<1>2. CASE Exists(o) /\ KeepsAdmin(a)
  <2>1. /\ op' = [op EXCEPT ![o] = Gone] /\ o \in Ops
        /\ sess' = [s \in Sids |-> IF s \in SessionsOf(o) THEN Gone ELSE sess[s]]
    BY <1>1, <1>2 DEF delete_local_operator
  <2>2. Exists(o) /\ (ActiveAdmin(o) => OtherAdmin(o))
    BY <1>1, <1>2 DEF KeepsAdmin
  <2> HIDE DEF None, Gone
  <2>3. OpTypedNext
    BY <2>1 DEF Shaped, OpTypedNext
  <2>4. op'[o] = Gone /\ \A p \in Ops \ {o} : op'[p] = op[p]
    BY <2>1 DEF Shaped
  <2>5. /\ \A s \in SessionsOf(o) : sess'[s] = Gone
        /\ \A s \in Sids \ SessionsOf(o) : sess'[s] = sess[s]
    BY <2>1 DEF SessionsOf
  <2>6. SessTyped
    BY <2>1 DEF Shaped, SessTyped
  <2>7. Deleted(o)
    BY <2>2, <2>4, <2>5, <2>6 DEF Deleted
  <2> QED
    BY <1>1, <2>3, <2>7 DEF Administered
<1>3. CASE ~(Exists(o) /\ KeepsAdmin(a))
  <2>1. UNCHANGED <<op, sess>>
    BY <1>1, <1>3 DEF delete_local_operator
  <2> QED
    BY <1>1, <2>1 DEF Administered, OpTypedNext, Shaped
<1> QED
  BY <1>2, <1>3

LEMMA ResetMoves ==
  ASSUME Shaped, NEW o \in Ops, reset_local_operator_password(o)
  PROVE  Administered(o)
<1>1. CASE Exists(o) /\ budget.passwords > 0
  <2>1. /\ op' = [op EXCEPT ![o].hash = @ + 1, ![o].must = TRUE]
        /\ sess' = Revoke(SessionsOf(o))
    BY <1>1 DEF reset_local_operator_password
  <2>2. Rehashed(o, TRUE)
    BY <1>1, <2>1, RehashMoves
  <2>3. PICK S : S = SessionsOf(o)
    OBVIOUS
  <2>4. S \subseteq Sids /\ (\A s \in S : Known(s)) /\ sess' = Revoke(S)
    BY <2>1, <2>3 DEF SessionsOf
  <2>5. SessTyped /\ (\A s \in Sids : Kept(s)) /\ \A s \in S : sess'[s].revoked
    BY <2>4, RevokeKeeps
  <2>6. WasReset(o) /\ OpTypedNext
    BY <2>2, <2>3, <2>5 DEF WasReset, Rehashed, OpTypedNext
  <2> QED
    BY <2>6 DEF Administered
<1>2. CASE ~(Exists(o) /\ budget.passwords > 0)
  BY <1>2 DEF reset_local_operator_password, Administered, OpTypedNext, Shaped
<1> QED
  BY <1>1, <1>2

LEMMA AdministeredShaped ==
  ASSUME Shaped, NEW o \in Ops, Administered(o), UNCHANGED now,
         UNCHANGED call \/ \E c \in Calls : call' = [call EXCEPT ![c] = Idle]
  PROVE  Shaped'
<1>1. OpTypedNext /\ SessTyped
  BY DEF Administered, Created, Reassigned, Deleted, WasReset, SessTyped, Shaped
<1>2. DOMAIN call' = Calls /\ \A d \in Calls : CallShape(call'[d])
  BY CallMoves, IdleShape DEF Shaped
<1> QED
  BY <1>1, <1>2 DEF Shaped, OpTypedNext, SessTyped

LEMMA ActMoves ==
  ASSUME Shaped, NEW c \in Calls, AdminAct(c)
  PROVE  /\ call' = [call EXCEPT ![c] = Idle] /\ UNCHANGED <<token, now>>
         /\ call[c].act.to \in Ops /\ Administered(call[c].act.to)
<1>1. PICK a : a = call[c].act
  OBVIOUS
<1>2. a.to \in Ops /\ (a.kind \in {"create", "role"} => a.role \in Roles)
  BY <1>1 DEF AdminAct, Shaped, CallShape
<1>3. /\ call' = [call EXCEPT ![c] = Idle] /\ UNCHANGED <<token, now>>
      /\ \/ a.kind = "create" /\ create_local_operator(a)
         \/ a.kind = "role" /\ update_local_operator(a)
         \/ a.kind = "delete" /\ delete_local_operator(a)
         \/ a.kind = "reset" /\ reset_local_operator_password(a.to)
  BY <1>1 DEF AdminAct, End
<1>4. Administered(a.to)
  BY <1>2, <1>3, CreateMoves, UpdateMoves, DeleteMoves, ResetMoves
<1> QED
  BY <1>1, <1>2, <1>3, <1>4

LEMMA AdministrationShaped == ASSUME Shaped, Administration PROVE Shaped'
<1>1. ASSUME NEW c \in Calls, NEW s \in Sids, NEW a \in Acts, require_admin(c, s, a) PROVE Shaped'
  <2>1. Known(s) /\ sess' = Touched(s) /\ UNCHANGED <<op, now>>
    BY <1>1 DEF require_admin, authenticated_session, SessionLive, NotRevoked
  <2>2. PICK r : r = [pc |-> "act", act |-> a]
    OBVIOUS
  <2>3. CallShape(r)
    BY <2>2 DEF CallShape, Acts
  <2>4. call' = [call EXCEPT ![c] = r]
    BY <1>1, <2>2 DEF require_admin, Start
  <2> QED
    BY <2>1, <2>3, <2>4, CallMoves, TouchKeeps DEF Shaped, SessTyped
<1>2. ASSUME NEW c \in Calls, AdminAct(c) PROVE Shaped'
  BY <1>2, ActMoves, AdministeredShaped
<1>3. ASSUME NEW c \in Calls, Abandon(c) PROVE Shaped'
  <2>1. call' = [call EXCEPT ![c] = Idle] /\ UNCHANGED <<op, sess, now>>
    BY <1>3 DEF Abandon, End, rows
  <2> QED
    BY <2>1, CallMoves, IdleShape DEF Shaped
<1>4. ASSUME NEW o \in Ops, SocketReset(o) PROVE Shaped'
  BY <1>4, ResetMoves, AdministeredShaped DEF SocketReset
<1> QED
  BY <1>1, <1>2, <1>3, <1>4 DEF Administration

LEMMA NextShaped == ASSUME Shaped, [Next]_vars PROVE Shaped'
<1>1. CASE UNCHANGED vars
  BY <1>1 DEF vars, rows, Shaped
<1>2. CASE Tick
  BY <1>2 DEF Tick, rows, Shaped
<1> QED
  BY <1>1, <1>2, BootstrapShaped, SignInShaped, SessionsShaped, AdministrationShaped DEF Next
-----------------------------------------------------------------------------
(* Guesses.  While an account is not locked it has answered no more wrong  *)
(* passwords than its counter shows; from the lock on, only the requests   *)
(* that had passed the gate can be answered.                               *)

PastPcs == {"read", "pair", "total", "lock"}
PastGate(o) == {c \in Calls : call[c].pc \in PastPcs /\ call[c].op = o}

CountShape ==
  /\ history \in [bootstraps : Nat, answered : [Ops -> Nat]]
  /\ fail \in [Ops -> Nat]
  /\ lock \in [Ops -> BOOLEAN]

GuessInv(o) ==
  /\ ~lock[o] => history.answered[o] <= fail[o] /\ history.answered[o] <= TotalMax - 1
  /\ lock[o] => history.answered[o] + Cardinality(PastGate(o)) <= TotalMax - 1 + Cardinality(Calls)

\* What a step does to the count of one account.
GuessStep(o) ==
  \/ /\ history'.answered[o] = history.answered[o] /\ fail'[o] = fail[o] /\ lock'[o] = lock[o]
     /\ PastGate(o)' \subseteq PastGate(o) \/ ~lock[o]
  \/ history'.answered[o] = 0
  \/ /\ history'.answered[o] = history.answered[o] /\ fail'[o] = fail[o] + 1 /\ lock'[o] = lock[o]
     /\ PastGate(o)' \subseteq PastGate(o)
  \/ /\ history'.answered[o] = history.answered[o] + 1
     /\ lock'[o] \/ (~lock[o] /\ fail'[o] = fail[o] + 1 /\ fail[o] + 1 < TotalMax)
     /\ \E c \in PastGate(o) : PastGate(o)' \subseteq PastGate(o) \ {c}

LEMMA FewerPast ==
  ASSUME NEW o \in Ops
  PROVE  /\ Cardinality(PastGate(o)) \in Nat /\ Cardinality(Calls) \in Nat
         /\ Cardinality(PastGate(o)) <= Cardinality(Calls)
         /\ Cardinality(PastGate(o)') \in Nat /\ Cardinality(PastGate(o)') <= Cardinality(Calls)
         /\ PastGate(o)' \subseteq PastGate(o) => Cardinality(PastGate(o)') <= Cardinality(PastGate(o))
         /\ (\E c \in PastGate(o) : PastGate(o)' \subseteq PastGate(o) \ {c})
               => Cardinality(PastGate(o)') + 1 <= Cardinality(PastGate(o))
<1>1. PICK P : P = PastGate(o)
  OBVIOUS
<1>2. PICK Q : Q = PastGate(o)'
  OBVIOUS
<1>3. P \subseteq Calls /\ Q \subseteq Calls /\ IsFiniteSet(Calls)
  BY <1>1, <1>2, OperatorsAssumption DEF PastGate
<1>4. /\ IsFiniteSet(P) /\ Cardinality(P) <= Cardinality(Calls)
      /\ IsFiniteSet(Q) /\ Cardinality(Q) <= Cardinality(Calls)
  BY <1>3, FS_Subset
<1>5. Cardinality(P) \in Nat /\ Cardinality(Q) \in Nat /\ Cardinality(Calls) \in Nat
  BY <1>3, <1>4, FS_CardinalityType
<1>6. Q \subseteq P => Cardinality(Q) <= Cardinality(P)
  BY <1>4, FS_Subset
<1>7. ASSUME NEW c \in P, Q \subseteq P \ {c} PROVE Cardinality(Q) + 1 <= Cardinality(P)
  <2>1. IsFiniteSet(P \ {c}) /\ Cardinality(P \ {c}) = Cardinality(P) - 1
    BY <1>4, <1>7, FS_RemoveElement
  <2>2. Cardinality(Q) <= Cardinality(P \ {c})
    BY <1>7, <2>1, FS_Subset
  <2> QED
    BY <1>5, <2>1, <2>2
<1> QED
  BY <1>1, <1>2, <1>4, <1>5, <1>6, <1>7

LEMMA GuessesKept ==
  ASSUME CountShape, CountShape', NEW o \in Ops, GuessInv(o), GuessStep(o)
  PROVE  GuessInv(o)'
<1>1. PICK a : a = history.answered[o]
  OBVIOUS
<1>2. PICK b : b = history'.answered[o]
  OBVIOUS
<1>3. PICK f : f = fail[o]
  OBVIOUS
<1>4. PICK g : g = fail'[o]
  OBVIOUS
<1>5. a \in Nat /\ b \in Nat /\ f \in Nat /\ g \in Nat /\ lock[o] \in BOOLEAN /\ lock'[o] \in BOOLEAN /\ TotalMax \in Nat \ {0}
  BY <1>1, <1>2, <1>3, <1>4, OperatorsAssumption DEF CountShape
<1>6. PICK m : m = Cardinality(PastGate(o))
  OBVIOUS
<1>7. PICK n : n = Cardinality(PastGate(o)')
  OBVIOUS
<1>8. PICK k : k = Cardinality(Calls)
  OBVIOUS
<1>9. /\ m \in Nat /\ n \in Nat /\ k \in Nat /\ m <= k /\ n <= k
      /\ PastGate(o)' \subseteq PastGate(o) => n <= m
      /\ (\E c \in PastGate(o) : PastGate(o)' \subseteq PastGate(o) \ {c}) => n + 1 <= m
  BY <1>6, <1>7, <1>8, FewerPast
<1>10. /\ ~lock[o] => a <= f /\ a <= TotalMax - 1
       /\ lock[o] => a + m <= TotalMax - 1 + k
  BY <1>1, <1>3, <1>6, <1>8 DEF GuessInv
<1>11. \/ b = a /\ g = f /\ lock'[o] = lock[o] /\ (n <= m \/ ~lock[o])
       \/ b = 0
       \/ b = a /\ g = f + 1 /\ lock'[o] = lock[o] /\ n <= m
       \/ /\ b = a + 1 /\ n + 1 <= m
          /\ lock'[o] \/ (~lock[o] /\ g = f + 1 /\ f + 1 < TotalMax)
  BY <1>1, <1>2, <1>3, <1>4, <1>9 DEF GuessStep
<1>12. (~lock'[o] => b <= g /\ b <= TotalMax - 1) /\ (lock'[o] => b + n <= TotalMax - 1 + k)
  BY <1>5, <1>9, <1>10, <1>11
<1> QED
  BY <1>2, <1>4, <1>7, <1>8, <1>12 DEF GuessInv

\* Handlers that stay before or leave the part of the sign-in that ends in an answer.
LEMMA PastShrinks ==
  ASSUME Shaped, NEW c \in Calls, NEW r, call' = [call EXCEPT ![c] = r],
         r.pc \in PastPcs => call[c].pc \in PastPcs /\ r.op = call[c].op
  PROVE  /\ \A o \in Ops : PastGate(o)' \subseteq PastGate(o)
         /\ r.pc \notin PastPcs => \A o \in Ops : PastGate(o)' \subseteq PastGate(o) \ {c}
<1>1. call'[c] = r /\ \A d \in Calls \ {c} : call'[d] = call[d]
  BY DEF Shaped
<1> QED
  BY <1>1 DEF PastGate

LEMMA IdleNotPast == Idle.pc \notin PastPcs
BY DEF Idle, PastPcs

LEMMA AnsweredMoves ==
  ASSUME CountShape, NEW o \in Ops, NEW n \in Nat, history' = [history EXCEPT !.answered[o] = n]
  PROVE  /\ history' \in [bootstraps : Nat, answered : [Ops -> Nat]]
         /\ history'.bootstraps = history.bootstraps
         /\ history'.answered[o] = n /\ \A p \in Ops \ {o} : history'.answered[p] = history.answered[p]
<1>1. PICK h : h = history.answered
  OBVIOUS
<1>2. PICK g : g = [h EXCEPT ![o] = n]
  OBVIOUS
<1>3. h \in [Ops -> Nat] /\ history \in [bootstraps : Nat, answered : [Ops -> Nat]]
  BY <1>1 DEF CountShape
<1>4. g \in [Ops -> Nat] /\ g[o] = n /\ \A p \in Ops \ {o} : g[p] = h[p]
  BY <1>2, <1>3
<1>5. history' = [history EXCEPT !.answered = g]
  BY <1>1, <1>2
<1>6. /\ history' \in [bootstraps : Nat, answered : [Ops -> Nat]]
      /\ history'.bootstraps = history.bootstraps /\ history'.answered = g
  BY <1>3, <1>4, <1>5
<1> QED
  BY <1>1, <1>4, <1>6

Counted == CountShape' /\ (\A o \in Ops : GuessStep(o)) /\ history'.bootstraps = history.bootstraps

LEMMA QuietCounted ==
  ASSUME CountShape, UNCHANGED <<fail, lock, history>>, \A o \in Ops : PastGate(o)' \subseteq PastGate(o)
  PROVE  Counted
BY DEF Counted, CountShape, GuessStep

LEMMA SameCalls == UNCHANGED call => \A o \in Ops : PastGate(o)' \subseteq PastGate(o)
BY DEF PastGate

\* The counter of one account is deleted: by a success, a reset or an expiry.
LEMMA ClearedCounted ==
  ASSUME CountShape, NEW o \in Ops, history' = [history EXCEPT !.answered[o] = 0],
         fail' \in {fail, [fail EXCEPT ![o] = 0]}, lock' \in {lock, [lock EXCEPT ![o] = FALSE]},
         \A p \in Ops : PastGate(p)' \subseteq PastGate(p)
  PROVE  Counted
<1>1. /\ history' \in [bootstraps : Nat, answered : [Ops -> Nat]]
      /\ history'.bootstraps = history.bootstraps
      /\ history'.answered[o] = 0 /\ \A p \in Ops \ {o} : history'.answered[p] = history.answered[p]
  BY AnsweredMoves
<1>2. fail' \in [Ops -> Nat] /\ \A p \in Ops \ {o} : fail'[p] = fail[p]
  BY DEF CountShape
<1>3. lock' \in [Ops -> BOOLEAN] /\ \A p \in Ops \ {o} : lock'[p] = lock[p]
  BY DEF CountShape
<1>4. \A p \in Ops : GuessStep(p)
  BY <1>1, <1>2, <1>3 DEF GuessStep
<1> QED
  BY <1>1, <1>2, <1>3, <1>4 DEF Counted, CountShape

\* One more wrong password is answered.
LEMMA AnswerCounted ==
  ASSUME CountShape, Shaped, NEW c \in Calls, NEW o \in Ops, call[c].op = o, call[c].pc \in PastPcs,
         Answered(o), End(c),
         \/ fail' = [fail EXCEPT ![o] = @ + 1] /\ lock' = lock /\ fail[o] + 1 < TotalMax
         \/ fail' = [fail EXCEPT ![o] = 0] /\ lock' = [lock EXCEPT ![o] = TRUE]
  PROVE  Counted
<1>1. PICK n : n = history.answered[o] + 1
  OBVIOUS
<1>2. n \in Nat /\ history' = [history EXCEPT !.answered[o] = n]
  BY <1>1 DEF CountShape, Answered
<1>3. /\ history' \in [bootstraps : Nat, answered : [Ops -> Nat]]
      /\ history'.bootstraps = history.bootstraps
      /\ history'.answered[o] = n /\ \A p \in Ops \ {o} : history'.answered[p] = history.answered[p]
  BY <1>2, AnsweredMoves
<1>4. fail' \in [Ops -> Nat] /\ \A p \in Ops \ {o} : fail'[p] = fail[p]
  BY DEF CountShape
<1>5. lock' \in [Ops -> BOOLEAN] /\ \A p \in Ops \ {o} : lock'[p] = lock[p]
  BY DEF CountShape
<1>6. lock'[o] \/ (~lock[o] /\ fail'[o] = fail[o] + 1 /\ fail[o] + 1 < TotalMax)
  BY DEF CountShape
<1>7. /\ \A p \in Ops : PastGate(p)' \subseteq PastGate(p)
      /\ PastGate(o)' \subseteq PastGate(o) \ {c} /\ c \in PastGate(o)
  <2>1. call' = [call EXCEPT ![c] = Idle]
    BY DEF End
  <2> QED
    BY <2>1, IdleNotPast, PastShrinks DEF PastGate
<1>8. GuessStep(o)
  BY <1>1, <1>3, <1>6, <1>7 DEF GuessStep
<1>9. \A p \in Ops \ {o} : GuessStep(p)
  BY <1>3, <1>4, <1>5, <1>7 DEF GuessStep
<1> QED
  BY <1>3, <1>4, <1>5, <1>8, <1>9 DEF Counted, CountShape

LEMMA EndShrinks ==
  ASSUME Shaped, NEW c \in Calls, call' = [call EXCEPT ![c] = Idle]
  PROVE  \A o \in Ops : PastGate(o)' \subseteq PastGate(o)
BY IdleNotPast, PastShrinks

LEMMA SignInCounted == ASSUME Shaped, CountShape, SignIn PROVE Counted
<1>1. ASSUME NEW c \in Calls, NEW o \in Ops, NEW i \in Sources, NEW k \in Kinds, login_block(c, o, i, k)
      PROVE  Counted
  <2>1. PICK r : r = [pc |-> "read", op |-> o, src |-> i, kind |-> k]
    OBVIOUS
  <2>2. ~lock[o] /\ call' = [call EXCEPT ![c] = r] /\ UNCHANGED <<fail, lock, history>> /\ r.op = o
    BY <1>1, <2>1 DEF login_block, LoginBlocked, Start, limits
  <2>3. call'[c] = r /\ \A d \in Calls \ {c} : call'[d] = call[d]
    BY <2>2 DEF Shaped
  <2>4. \A p \in Ops \ {o} : PastGate(p)' \subseteq PastGate(p)
    BY <2>2, <2>3 DEF PastGate
  <2>5. \A p \in Ops : GuessStep(p)
    BY <2>2, <2>4 DEF GuessStep
  <2> QED
    BY <2>2, <2>5 DEF Counted, CountShape
<1>2. ASSUME NEW c \in Calls, VerifyRight(c) PROVE Counted
  <2>1. PICK r : r = [pc |-> "clear", op |-> call[c].op, src |-> call[c].src, kind |-> call[c].kind,
                hash |-> op[call[c].op].hash, must |-> op[call[c].op].must]
    OBVIOUS
  <2>2. call' = [call EXCEPT ![c] = r] /\ UNCHANGED <<fail, lock, history>> /\ r.pc \notin PastPcs
    BY <1>2, <2>1 DEF VerifyRight, Goto, limits, PastPcs
  <2> QED
    BY <2>2, PastShrinks, QuietCounted
<1>3. ASSUME NEW c \in Calls, VerifyWrong(c) PROVE Counted
  <2>1. PICK r : r = [pc |-> "pair", op |-> call[c].op, src |-> call[c].src, known |-> Exists(call[c].op)]
    OBVIOUS
  <2>2. /\ call' = [call EXCEPT ![c] = r] /\ UNCHANGED <<fail, lock, history>>
        /\ call[c].pc \in PastPcs /\ r.op = call[c].op
    BY <1>3, <2>1 DEF VerifyWrong, Goto, limits, PastPcs
  <2> QED
    BY <2>2, PastShrinks, QuietCounted
<1>4. ASSUME NEW c \in Calls, clear_login_failures(c) PROVE Counted
  <2>1. PICK k : k = call[c]
    OBVIOUS
  <2>2. k.op \in Ops
    BY <1>4, <2>1 DEF clear_login_failures, Shaped, CallShape
  <2>3. PICK r : r = [pc |-> "create", op |-> k.op, hash |-> k.hash, kind |-> k.kind]
    OBVIOUS
  <2>4. /\ call' = [call EXCEPT ![c] = r] \/ call' = [call EXCEPT ![c] = Idle]
        /\ r.pc \notin PastPcs
        /\ fail' = [fail EXCEPT ![k.op] = 0] /\ lock' = lock /\ history' = [history EXCEPT !.answered[k.op] = 0]
    BY <1>4, <2>1, <2>3 DEF clear_login_failures, Goto, End, PastPcs
  <2>5. \A p \in Ops : PastGate(p)' \subseteq PastGate(p)
    BY <2>4, PastShrinks, EndShrinks
  <2> QED
    BY <2>2, <2>4, <2>5, ClearedCounted
<1>5. ASSUME NEW c \in Calls, create_session(c) PROVE Counted
  <2>1. call' = [call EXCEPT ![c] = Idle] /\ UNCHANGED <<fail, lock, history>>
    BY <1>5 DEF create_session, End, limits
  <2> QED
    BY <2>1, EndShrinks, QuietCounted
<1>6. ASSUME NEW c \in Calls, record_pair_failure(c) PROVE Counted
  <2>1. PICK r : r = [pc |-> "total", op |-> call[c].op]
    OBVIOUS
  <2>2. /\ call' = [call EXCEPT ![c] = r] \/ call' = [call EXCEPT ![c] = Idle]
        /\ UNCHANGED <<fail, lock, history>> /\ call[c].pc \in PastPcs /\ r.op = call[c].op
    BY <1>6, <2>1 DEF record_pair_failure, Goto, End, PastPcs
  <2> QED
    BY <2>2, PastShrinks, EndShrinks, QuietCounted
<1>7. ASSUME NEW c \in Calls, record_total_failure(c) PROVE Counted
  <2>1. PICK o : o = call[c].op
    OBVIOUS
  <2>2. o \in Ops /\ call[c].pc \in PastPcs /\ fail' = [fail EXCEPT ![o] = @ + 1] /\ lock' = lock
    BY <1>7, <2>1 DEF record_total_failure, Shaped, CallShape, PastPcs
  <2>3. CASE fail[o] + 1 >= TotalMax
    <3>1. PICK r : r = [pc |-> "lock", op |-> o]
      OBVIOUS
    <3>2. call' = [call EXCEPT ![c] = r] /\ UNCHANGED history /\ r.op = call[c].op
      BY <1>7, <2>1, <2>3, <3>1 DEF record_total_failure, Goto
    <3>3. \A p \in Ops : PastGate(p)' \subseteq PastGate(p)
      BY <2>2, <3>2, PastShrinks
    <3>4. fail' \in [Ops -> Nat] /\ fail'[o] = fail[o] + 1 /\ \A p \in Ops \ {o} : fail'[p] = fail[p]
      BY <2>2 DEF CountShape
    <3>5. \A p \in Ops : GuessStep(p)
      BY <2>2, <3>2, <3>3, <3>4 DEF GuessStep
    <3> QED
      BY <2>2, <3>2, <3>4, <3>5 DEF Counted, CountShape
  <2>4. CASE ~(fail[o] + 1 >= TotalMax)
    <3>1. Answered(o) /\ End(c)
      BY <1>7, <2>1, <2>4 DEF record_total_failure
    <3>2. fail[o] + 1 < TotalMax
      BY <2>2, <2>4, OperatorsAssumption DEF CountShape
    <3> QED
      BY <2>1, <2>2, <3>1, <3>2, AnswerCounted
  <2> QED
    BY <2>3, <2>4
<1>8. ASSUME NEW c \in Calls, record_lock(c) PROVE Counted
  <2>1. PICK o : o = call[c].op
    OBVIOUS
  <2>2. /\ o \in Ops /\ call[c].pc \in PastPcs /\ Answered(o) /\ End(c)
        /\ fail' = [fail EXCEPT ![o] = 0] /\ lock' = [lock EXCEPT ![o] = TRUE]
    BY <1>8, <2>1 DEF record_lock, Shaped, CallShape, PastPcs
  <2> QED
    BY <2>1, <2>2, AnswerCounted
<1>9. ASSUME NEW o \in Ops, LapseCounter(o) \/ LapseLock(o) PROVE Counted
  <2>1. /\ history' = [history EXCEPT !.answered[o] = 0] /\ UNCHANGED call
        /\ fail' \in {fail, [fail EXCEPT ![o] = 0]} /\ lock' \in {lock, [lock EXCEPT ![o] = FALSE]}
    BY <1>9 DEF LapseCounter, LapseLock
  <2> QED
    BY <2>1, SameCalls, ClearedCounted
<1>10. ASSUME NEW i \in Sources, LapseSource(i) PROVE Counted
  BY <1>10, SameCalls, QuietCounted DEF LapseSource
<1> QED
  BY <1>1, <1>2, <1>3, <1>4, <1>5, <1>6, <1>7, <1>8, <1>9, <1>10 DEF SignIn

LEMMA SessionsCounted == ASSUME Shaped, CountShape, Sessions \/ Tick PROVE Counted
<1>1. ASSUME NEW s \in Sids, touch_session(s) \/ logout(s) \/ rotate_session(s) \/ RotateRefused(s) PROVE Counted
  BY <1>1, SameCalls, QuietCounted DEF touch_session, logout, rotate_session, RotateRefused, limits
<1>2. ASSUME NEW c \in Calls, NEW s \in Sids, change_password(c, s) PROVE Counted
  <2>1. PICK r : r = [pc |-> "change", op |-> sess[s].op, sid |-> s, hash |-> op[sess[s].op].hash]
    OBVIOUS
  <2>2. call' = [call EXCEPT ![c] = r] /\ UNCHANGED <<fail, lock, history>> /\ r.pc \notin PastPcs
    BY <1>2, <2>1 DEF change_password, Start, limits, PastPcs
  <2> QED
    BY <2>2, PastShrinks, QuietCounted
<1>3. ASSUME NEW c \in Calls, change_operator_password(c) PROVE Counted
  <2>1. call' = [call EXCEPT ![c] = Idle] /\ UNCHANGED <<fail, lock, history>>
    BY <1>3 DEF change_operator_password, End, limits
  <2> QED
    BY <2>1, EndShrinks, QuietCounted
<1>4. CASE Tick
  BY <1>4, SameCalls, QuietCounted DEF Tick, limits
<1> QED
  BY <1>1, <1>2, <1>3, <1>4 DEF Sessions

LEMMA AdministrationCounted == ASSUME Shaped, CountShape, Administration PROVE Counted
<1>0. ASSUME NEW o \in Ops, reset_local_operator_password(o), \A p \in Ops : PastGate(p)' \subseteq PastGate(p)
      PROVE  Counted
  <2>1. CASE Exists(o) /\ budget.passwords > 0
    BY <1>0, <2>1, ClearedCounted DEF reset_local_operator_password
  <2>2. CASE ~(Exists(o) /\ budget.passwords > 0)
    BY <1>0, <2>2, QuietCounted DEF reset_local_operator_password, limits
  <2> QED
    BY <2>1, <2>2
<1>1. ASSUME NEW c \in Calls, NEW s \in Sids, NEW a \in Acts, require_admin(c, s, a) PROVE Counted
  <2>1. PICK r : r = [pc |-> "act", act |-> a]
    OBVIOUS
  <2>2. call' = [call EXCEPT ![c] = r] /\ UNCHANGED <<fail, lock, history>> /\ r.pc \notin PastPcs
    BY <1>1, <2>1 DEF require_admin, Start, limits, PastPcs
  <2> QED
    BY <2>2, PastShrinks, QuietCounted
<1>2. ASSUME NEW c \in Calls, AdminAct(c) PROVE Counted
  <2>1. PICK a : a = call[c].act
    OBVIOUS
  <2>2. a.to \in Ops
    BY <1>2, <2>1, ActMoves
  <2>3. \A p \in Ops : PastGate(p)' \subseteq PastGate(p)
    BY <1>2, ActMoves, EndShrinks
  <2>4. \/ create_local_operator(a) \/ update_local_operator(a) \/ delete_local_operator(a)
        \/ reset_local_operator_password(a.to)
    BY <1>2, <2>1 DEF AdminAct
  <2>5. CASE create_local_operator(a) \/ update_local_operator(a) \/ delete_local_operator(a)
    BY <2>3, <2>5, QuietCounted
       DEF create_local_operator, update_local_operator, delete_local_operator, limits
  <2> QED
    BY <1>0, <2>2, <2>3, <2>4, <2>5
<1>3. ASSUME NEW c \in Calls, Abandon(c) PROVE Counted
  BY <1>3, EndShrinks, QuietCounted DEF Abandon, End, limits
<1>4. ASSUME NEW o \in Ops, SocketReset(o) PROVE Counted
  BY <1>0, <1>4, SameCalls DEF SocketReset
<1> QED
  BY <1>1, <1>2, <1>3, <1>4 DEF Administration

\* The first administrator: a step that bootstraps finds no administrator and leaves one.
LEMMA BootstrapMoves ==
  ASSUME Shaped, CountShape, NEW o \in Ops, NEW must \in BOOLEAN, Bootstrapped(o, must),
         UNCHANGED <<fail, lock>>, \A p \in Ops : PastGate(p)' \subseteq PastGate(p)
  PROVE  /\ CountShape' /\ \A p \in Ops : GuessStep(p)
         /\ history'.bootstraps = history.bootstraps + 1 /\ ~active_admin_exists /\ active_admin_exists'
<1>1. /\ history' \in [bootstraps : Nat, answered : [Ops -> Nat]]
      /\ history'.bootstraps = history.bootstraps + 1 /\ history'.answered = history.answered
  BY DEF Bootstrapped, CountShape
<1>2. \A p \in Ops : GuessStep(p)
  BY <1>1 DEF GuessStep
<1>3. PICK r : r = Row("admin", 0, must)
  OBVIOUS
<1>4. r.row = "live" /\ r.role = "admin"
  BY <1>3, RowTyped DEF Roles
<1>5. op'[o] = r
  BY <1>3 DEF Bootstrapped, Shaped
<1>6. active_admin_exists'
  BY <1>4, <1>5 DEF active_admin_exists, ActiveAdmin, Exists
<1> QED
  BY <1>1, <1>2, <1>6 DEF CountShape, Bootstrapped

AdminStep ==
  \/ Counted /\ (active_admin_exists => active_admin_exists')
  \/ /\ CountShape' /\ \A p \in Ops : GuessStep(p)
     /\ history'.bootstraps = history.bootstraps + 1 /\ ~active_admin_exists /\ active_admin_exists'

LEMMA SameAdmins == UNCHANGED op => (active_admin_exists => active_admin_exists')
BY DEF active_admin_exists, ActiveAdmin, Exists

LEMMA AdministeredAdmins ==
  ASSUME Shaped, NEW o \in Ops, Administered(o), active_admin_exists
  PROVE  active_admin_exists'
<1>1. PICK p \in Ops : ActiveAdmin(p)
  BY DEF active_admin_exists
<1>2. CASE UNCHANGED op
  BY <1>2, SameAdmins
<1>3. ASSUME \A q \in Ops \ {o} : op'[q] = op[q], OtherAdmin(o) PROVE active_admin_exists'
  <2>1. PICK q \in Ops \ {o} : ActiveAdmin(q)
    BY <1>3 DEF OtherAdmin
  <2>2. ActiveAdmin(q)'
    BY <1>3, <2>1 DEF ActiveAdmin, Exists
  <2> QED
    BY <2>1, <2>2 DEF active_admin_exists
<1>4. ASSUME \A q \in Ops \ {o} : op'[q] = op[q], p # o PROVE active_admin_exists'
  <2>1. ActiveAdmin(p)'
    BY <1>1, <1>4 DEF ActiveAdmin, Exists
  <2> QED
    BY <2>1 DEF active_admin_exists
<1>5. ASSUME p = o, Created(o) PROVE FALSE
  BY <1>1, <1>5 DEF Created, ActiveAdmin, Exists
<1>6. ASSUME p = o, op'[o] \in OpRows, op'[o].role = "admin" PROVE active_admin_exists'
  BY <1>6 DEF active_admin_exists, ActiveAdmin, Exists, OpRows
<1>7. CASE Created(o)
  BY <1>4, <1>5, <1>7 DEF Created
<1>8. CASE Reassigned(o)
  BY <1>1, <1>3, <1>4, <1>6, <1>8 DEF Reassigned
<1>9. CASE Deleted(o)
  BY <1>1, <1>3, <1>4, <1>9 DEF Deleted
<1>10. CASE WasReset(o)
  BY <1>1, <1>4, <1>6, <1>10 DEF WasReset, Rehashed, ActiveAdmin
<1> QED
  BY <1>2, <1>7, <1>8, <1>9, <1>10 DEF Administered

LEMMA NextCounted == ASSUME Shaped, CountShape, [Next]_vars PROVE AdminStep
<1>1. CASE UNCHANGED vars
  BY <1>1, SameCalls, QuietCounted, SameAdmins DEF vars, rows, limits, AdminStep
<1>2. CASE SignIn
  <2>1. UNCHANGED op
    BY <1>2 DEF SignIn, login_block, VerifyRight, VerifyWrong, clear_login_failures, create_session,
       record_pair_failure, record_total_failure, record_lock, LapseCounter, LapseLock, LapseSource, rows
  <2> QED
    BY <1>2, <2>1, SignInCounted, SameAdmins DEF AdminStep
<1>3. CASE Sessions \/ Tick
  <2>1. Counted
    BY <1>3, SessionsCounted
  <2>2. ASSUME NEW c \in Calls, change_operator_password(c) PROVE active_admin_exists => active_admin_exists'
    <3>1. UNCHANGED op \/ Rehashed(call[c].op, FALSE)
      BY <2>2, ChangeMoves
    <3>2. ASSUME NEW o \in Ops, Rehashed(o, FALSE), NEW p \in Ops, ActiveAdmin(p) PROVE ActiveAdmin(p)'
      BY <3>2 DEF Rehashed, ActiveAdmin, Exists, OpRows
    <3>3. call[c].op \in Ops
      BY <2>2 DEF change_operator_password, Shaped, CallShape
    <3> QED
      BY <3>1, <3>2, <3>3, SameAdmins DEF active_admin_exists
  <2>3. UNCHANGED op \/ \E c \in Calls : change_operator_password(c)
    BY <1>3 DEF Sessions, touch_session, logout, rotate_session, RotateRefused, change_password, Tick, rows
  <2> QED
    BY <2>1, <2>2, <2>3, SameAdmins DEF AdminStep
<1>4. CASE Administration
  <2>1. Counted
    BY <1>4, AdministrationCounted
  <2>2. ASSUME NEW c \in Calls, AdminAct(c) PROVE active_admin_exists => active_admin_exists'
    BY <2>2, ActMoves, AdministeredAdmins
  <2>3. ASSUME NEW o \in Ops, SocketReset(o) PROVE active_admin_exists => active_admin_exists'
    BY <2>3, ResetMoves, AdministeredAdmins DEF SocketReset
  <2>4. \/ UNCHANGED op \/ (\E c \in Calls : AdminAct(c)) \/ \E o \in Ops : SocketReset(o)
    BY <1>4 DEF Administration, require_admin, Abandon, rows
  <2> QED
    BY <2>1, <2>2, <2>3, <2>4, SameAdmins DEF AdminStep
<1>5. CASE Bootstrap
  <2>1. ASSUME NEW o \in Ops, bootstrap_local_operator(o) PROVE AdminStep
    <3>1. Bootstrapped(o, TRUE) /\ UNCHANGED <<fail, lock, call>>
      BY <2>1 DEF bootstrap_local_operator, limits
    <3> QED
      BY <3>1, SameCalls, BootstrapMoves DEF AdminStep
  <2>2. ASSUME NEW t \in Tokens, issue_bootstrap_token(t) \/ ExpireToken(t) PROVE AdminStep
    BY <2>2, SameCalls, QuietCounted, SameAdmins DEF issue_bootstrap_token, ExpireToken, limits, AdminStep
  <2>3. ASSUME NEW c \in Calls, NEW t \in Tokens, NEW o \in Ops, bootstrap_token_usable(c, t, o) PROVE AdminStep
    <3>1. PICK r : r = [pc |-> "bootstrap", token |-> t, op |-> o]
      OBVIOUS
    <3>2. call' = [call EXCEPT ![c] = r] /\ UNCHANGED <<op, fail, lock, history>> /\ r.pc \notin PastPcs
      BY <2>3, <3>1 DEF bootstrap_token_usable, Start, rows, limits, PastPcs
    <3> QED
      BY <3>2, PastShrinks, QuietCounted, SameAdmins DEF AdminStep
  <2>4. ASSUME NEW c \in Calls, bootstrap_operator_with_token(c) PROVE AdminStep
    <3>1. PICK r : r = [pc |-> "create", op |-> call[c].op, hash |-> 0, kind |-> "browser"]
      OBVIOUS
    <3>2. /\ call' = [call EXCEPT ![c] = r] \/ call' = [call EXCEPT ![c] = Idle]
          /\ Bootstrapped(call[c].op, FALSE) \/ UNCHANGED <<op, history>>
          /\ UNCHANGED <<fail, lock>> /\ r.pc \notin PastPcs
      BY <2>4, <3>1 DEF bootstrap_operator_with_token, Goto, End, limits, PastPcs
    <3>3. \A p \in Ops : PastGate(p)' \subseteq PastGate(p)
      BY <3>2, PastShrinks, EndShrinks
    <3>4. call[c].op \in Ops
      BY <2>4 DEF bootstrap_operator_with_token, Shaped, CallShape
    <3>5. CASE Bootstrapped(call[c].op, FALSE)
      BY <3>2, <3>3, <3>4, <3>5, BootstrapMoves DEF AdminStep
    <3>6. CASE UNCHANGED <<op, history>>
      BY <3>2, <3>3, <3>6, QuietCounted, SameAdmins DEF AdminStep
    <3> QED
      BY <3>2, <3>5, <3>6
  <2> QED
    BY <1>5, <2>1, <2>2, <2>3, <2>4 DEF Bootstrap
<1> QED
  BY <1>1, <1>2, <1>3, <1>4, <1>5 DEF Next

LimitInv ==
  /\ Shaped
  /\ CountShape
  /\ history.bootstraps \in {0, 1}
  /\ history.bootstraps = 1 => active_admin_exists
  /\ \A o \in Ops : GuessInv(o)

LEMMA LimitInvariant == Spec => []LimitInv
<1>1. Init => LimitInv
  <2> SUFFICES ASSUME Init PROVE LimitInv
    OBVIOUS
  <2>1. Shaped /\ CountShape /\ history.bootstraps = 0
    BY InitShaped DEF Init, CountShape
  <2>2. \A o \in Ops : history.answered[o] = 0 /\ fail[o] = 0 /\ ~lock[o]
    BY DEF Init
  <2>3. \A o \in Ops : GuessInv(o)
    BY <2>2, OperatorsAssumption DEF GuessInv
  <2> QED
    BY <2>1, <2>3 DEF LimitInv
<1>2. LimitInv /\ [Next]_vars => LimitInv'
  <2> SUFFICES ASSUME LimitInv, [Next]_vars PROVE LimitInv'
    OBVIOUS
  <2>1. Shaped' /\ AdminStep
    BY NextShaped, NextCounted DEF LimitInv
  <2>2. CountShape' /\ \A o \in Ops : GuessStep(o)
    BY <2>1 DEF AdminStep, Counted
  <2>3. \A o \in Ops : GuessInv(o)'
    BY <2>2, GuessesKept DEF LimitInv
  <2>4. history'.bootstraps \in {0, 1} /\ (history'.bootstraps = 1 => active_admin_exists')
    BY <2>1 DEF AdminStep, Counted, LimitInv
  <2> QED
    BY <2>1, <2>2, <2>3, <2>4 DEF LimitInv
<1> QED
  BY <1>1, <1>2, PTL DEF Spec

\* The instance is bootstrapped at most once and then never loses its last active
\* administrator, whoever races whom: bootstrap_operator_with_token looks again inside its
\* transaction, and update/delete_local_operator count the other active administrators.
THEOREM BootstrapHolds == Spec => []BootstrappedOnce
<1>1. LimitInv => BootstrappedOnce
  BY DEF LimitInv, BootstrappedOnce
<1> QED
  BY <1>1, LimitInvariant, PTL

\* The limit of wrong passwords per account holds for any number of addresses and of
\* requests in flight: login_block, record_login_failure and clear_login_failures are
\* separate transactions, and what can pass between them is one answer per request.
THEOREM GuessesHold == Spec => []GuessesBounded
<1>1. LimitInv => GuessesBounded
  <2> SUFFICES ASSUME LimitInv, NEW o \in Ops
               PROVE  history.answered[o] <= TotalMax - 1 + Cardinality(Calls)
    BY DEF GuessesBounded
  <2>1. /\ Cardinality(PastGate(o)) \in Nat /\ Cardinality(Calls) \in Nat
    BY FewerPast
  <2>2. history.answered[o] \in Nat /\ lock[o] \in BOOLEAN /\ TotalMax \in Nat
    BY OperatorsAssumption DEF LimitInv, CountShape
  <2> QED
    BY <2>1, <2>2 DEF LimitInv, GuessInv
<1> QED
  BY <1>1, LimitInvariant, PTL
-----------------------------------------------------------------------------
(* Families.  A family is named after the session of its sign-in, which    *)
(* stays its first one: that row bounds every later one.                   *)

FamilySound(s) ==
  LET f == sess[s].family IN
  /\ Known(f) /\ sess[f].family = f /\ sess[f].op = sess[s].op
  /\ sess[f].made <= sess[s].made /\ sess[s].made <= now
  /\ sess[s].exp <= sess[f].made + Absolute

OneLive ==
  \A s, t \in Sids : /\ Known(s) /\ Known(t) /\ sess[s].family = sess[t].family
                     /\ ~sess[s].revoked /\ ~sess[t].revoked
                     => s = t

FamilyInv == (\A s \in Sids : Known(s) => FamilySound(s)) /\ OneLive

Steady(s) ==
  \/ sess'[s] = sess[s]
  \/ /\ Known(s) /\ Known(s)'
     /\ sess'[s].op = sess[s].op /\ sess'[s].kind = sess[s].kind /\ sess'[s].family = sess[s].family
     /\ sess'[s].made = sess[s].made /\ sess'[s].exp = sess[s].exp
     /\ sess[s].revoked => sess'[s].revoked

LEMMA KeptSteady == ASSUME NEW s, Kept(s) PROVE Steady(s)
BY DEF Kept, Carried, Steady

Opened(n) ==
  /\ n \in Sids /\ sess[n] = None /\ sess'[n] \in SessionRows
  /\ sess'[n].family = n /\ sess'[n].made = now /\ sess'[n].exp <= now + Absolute
  /\ \A t \in Sids \ {n} : sess'[t] = sess[t]

Rotated(s, n) ==
  /\ n \in Sids /\ sess[n] = None /\ n # s /\ Known(s) /\ ~sess[s].revoked /\ sess'[s].revoked
  /\ sess'[n] \in SessionRows
  /\ sess'[n].op = sess[s].op /\ sess'[n].kind = sess[s].kind /\ sess'[n].family = sess[s].family
  /\ sess'[n].pw = sess[s].pw /\ sess'[n].made = now
  /\ sess'[n].exp <= FamilyStart(sess[s].family) + Absolute
  /\ sess'[n].revoked = Temporary(s)
  /\ \A t \in Sids \ {n} : Steady(t)

Dropped(o) ==
  /\ \A s \in SessionsOf(o) : sess'[s] = Gone
  /\ \A s \in Sids \ SessionsOf(o) : sess'[s] = sess[s]

SessStep ==
  \/ \A s \in Sids : Steady(s)
  \/ \E n \in Sids : Opened(n)
  \/ \E s, n \in Sids : Rotated(s, n)
  \/ \E o \in Ops : Dropped(o)

\* The sign-in of a family is its first session.
LEMMA StartIsRoot ==
  ASSUME Shaped, FamilyInv, NEW s \in Sids, Known(s)
  PROVE  /\ sess[s].family \in Sids /\ sess[s].family \in Family(sess[s].family)
         /\ FamilyStart(sess[s].family) = sess[sess[s].family].made
<1>1. PICK f : f = sess[s].family
  OBVIOUS
<1>2. f \in Sids /\ s \in Family(f)
  BY <1>1, SessionTyped DEF SessionRows, Family
<1>3. Known(f) /\ sess[f].family = f
  BY <1>1 DEF FamilyInv, FamilySound
<1>4. f \in Family(f)
  BY <1>2, <1>3 DEF Family
<1>5. \A t \in Family(f) : sess[f].made <= sess[t].made /\ sess[t].made \in Nat
  BY SessionTyped DEF Family, FamilyInv, FamilySound, SessionRows
<1>6. /\ FamilyStart(f) \in Nat /\ (\E t \in Family(f) : FamilyStart(f) = sess[t].made)
      /\ FamilyStart(f) <= sess[f].made
  BY <1>4, FamilyStartIsLeast
<1>7. FamilyStart(f) = sess[f].made
  BY <1>4, <1>5, <1>6
<1> QED
  BY <1>1, <1>2, <1>4, <1>7

LEMMA FamiliesKept ==
  ASSUME Shaped, Shaped', FamilyInv, SessStep, now <= now'
  PROVE  FamilyInv'
<1>0. now \in Nat /\ now' \in Nat /\ Absolute \in Nat
  BY OperatorsAssumption DEF Shaped
<1>1. \A s \in Sids : Known(s) => /\ sess[s] \in SessionRows /\ sess[s].family \in Sids
                                 /\ sess[s].made \in Nat /\ sess[s].exp \in Int
  BY SessionTyped DEF SessionRows
<1>2. \A s \in Sids : Known(s) => FamilySound(s)
  BY DEF FamilyInv
<1>3. OneLive
  BY DEF FamilyInv
<1>4. CASE \A s \in Sids : Steady(s)
  <2>1. ASSUME NEW s \in Sids, Known(s)' PROVE FamilySound(s)'
    <3>1. Known(s) /\ sess'[s].op = sess[s].op /\ sess'[s].family = sess[s].family /\ sess'[s].made = sess[s].made
          /\ sess'[s].exp = sess[s].exp
      BY <1>4, <2>1 DEF Steady, Known
    <3>2. PICK f : f = sess[s].family
      OBVIOUS
    <3>3. /\ f \in Sids /\ Known(f) /\ sess[f].family = f /\ sess[f].op = sess[s].op
          /\ sess[f].made <= sess[s].made /\ sess[s].made <= now
          /\ sess[s].exp <= sess[f].made + Absolute
      BY <1>1, <1>2, <3>1, <3>2 DEF FamilySound
    <3>4. Known(f)' /\ sess'[f].family = f /\ sess'[f].op = sess[f].op /\ sess'[f].made = sess[f].made
      BY <1>4, <3>3 DEF Steady, Known
    <3>5. sess'[s].made <= now'
      BY <1>0, <1>1, <3>1, <3>3
    <3> QED
      BY <3>1, <3>2, <3>3, <3>4, <3>5 DEF FamilySound
  <2>2. OneLive'
    BY <1>3, <1>4 DEF OneLive, Steady, Known
  <2> QED
    BY <2>1, <2>2 DEF FamilyInv
<1>5. ASSUME NEW n \in Sids, Opened(n) PROVE FamilyInv'
  <2>1. /\ ~Known(n) /\ Known(n)' /\ sess'[n].family = n /\ sess'[n].made = now /\ sess'[n].exp <= now + Absolute
        /\ \A t \in Sids \ {n} : sess'[t] = sess[t]
    BY <1>5 DEF Opened, Known, SessionRows
  <2>2. FamilySound(n)'
    BY <1>0, <2>1 DEF FamilySound
  <2>3. ASSUME NEW s \in Sids, s # n, Known(s)' PROVE FamilySound(s)' /\ sess[s].family # n
    <3>1. Known(s) /\ sess'[s] = sess[s]
      BY <2>1, <2>3 DEF Known
    <3>2. PICK f : f = sess[s].family
      OBVIOUS
    <3>3. /\ f \in Sids /\ Known(f) /\ sess[f].family = f /\ sess[f].op = sess[s].op
          /\ sess[f].made <= sess[s].made /\ sess[s].made <= now
          /\ sess[s].exp <= sess[f].made + Absolute /\ sess[s].made \in Nat
      BY <1>1, <1>2, <3>1, <3>2 DEF FamilySound
    <3>4. f # n /\ sess'[f] = sess[f] /\ Known(f)'
      BY <2>1, <3>3 DEF Known
    <3>5. sess[s].made <= now'
      BY <1>0, <3>3
    <3> QED
      BY <3>1, <3>2, <3>3, <3>4, <3>5 DEF FamilySound
  <2>4. OneLive'
    BY <1>3, <2>1, <2>3 DEF OneLive, Known
  <2> QED
    BY <2>2, <2>3, <2>4 DEF FamilyInv
<1>6. ASSUME NEW r \in Sids, NEW n \in Sids, Rotated(r, n) PROVE FamilyInv'
  <2>0. PICK e : e = sess[r].family
    OBVIOUS
  <2>1. /\ ~Known(n) /\ Known(n)' /\ n # r /\ Known(r) /\ ~sess[r].revoked /\ sess'[r].revoked
        /\ sess'[n].family = e /\ sess'[n].op = sess[r].op
        /\ sess'[n].made = now /\ sess'[n].exp <= FamilyStart(e) + Absolute
        /\ \A t \in Sids \ {n} : Steady(t)
    BY <1>6, <2>0 DEF Rotated, Known, SessionRows
  <2>2. /\ e \in Sids /\ Known(e) /\ sess[e].family = e /\ sess[e].op = sess[r].op /\ FamilyStart(e) = sess[e].made
        /\ sess[e].made <= now
    <3>1. /\ e \in Sids /\ Known(e) /\ sess[e].family = e /\ sess[e].op = sess[r].op /\ FamilyStart(e) = sess[e].made
      BY <1>1, <1>2, <2>0, <2>1, StartIsRoot DEF FamilySound
    <3>2. sess[e].made <= now
      BY <1>2, <3>1 DEF FamilySound
    <3> QED
      BY <3>1, <3>2
  <2>3. e # n /\ Known(e)' /\ sess'[e].family = e /\ sess'[e].op = sess[e].op /\ sess'[e].made = sess[e].made
    BY <2>1, <2>2 DEF Steady, Known
  <2>4. FamilySound(n)'
    BY <1>0, <2>1, <2>2, <2>3 DEF FamilySound
  <2>5. ASSUME NEW s \in Sids, s # n, Known(s)'
        PROVE  FamilySound(s)' /\ Known(s) /\ sess'[s].family = sess[s].family /\ (sess[s].revoked => sess'[s].revoked)
    <3>1. Known(s) /\ sess'[s].op = sess[s].op /\ sess'[s].family = sess[s].family /\ sess'[s].made = sess[s].made
          /\ sess'[s].exp = sess[s].exp /\ (sess[s].revoked => sess'[s].revoked)
      BY <2>1, <2>5 DEF Steady, Known
    <3>2. PICK f : f = sess[s].family
      OBVIOUS
    <3>3. /\ f \in Sids /\ Known(f) /\ sess[f].family = f /\ sess[f].op = sess[s].op
          /\ sess[f].made <= sess[s].made /\ sess[s].made <= now
          /\ sess[s].exp <= sess[f].made + Absolute /\ sess[s].made \in Nat
      BY <1>1, <1>2, <3>1, <3>2 DEF FamilySound
    <3>4. f # n /\ Known(f)' /\ sess'[f].family = f /\ sess'[f].op = sess[f].op /\ sess'[f].made = sess[f].made
      BY <2>1, <3>3 DEF Steady, Known
    <3>5. sess'[s].made <= now'
      BY <1>0, <3>1, <3>3
    <3> QED
      BY <3>1, <3>2, <3>3, <3>4, <3>5 DEF FamilySound
  <2>6. ASSUME NEW s \in Sids, s # n, Known(s)', ~sess'[s].revoked PROVE sess'[s].family # e
    <3>1. Known(s) /\ sess'[s].family = sess[s].family /\ ~sess[s].revoked
      BY <2>5, <2>6
    <3>2. s # r
      BY <2>1, <2>6
    <3> QED
      BY <1>3, <2>0, <2>1, <3>1, <3>2 DEF OneLive
  <2>7. OneLive'
    <3> SUFFICES ASSUME NEW s \in Sids, NEW t \in Sids, Known(s)', Known(t)', sess'[s].family = sess'[t].family,
                        ~sess'[s].revoked, ~sess'[t].revoked
                 PROVE  s = t
      BY DEF OneLive
    <3>1. CASE s = n \/ t = n
      BY <2>1, <2>6, <3>1
    <3>2. CASE s # n /\ t # n
      <4>1. Known(s) /\ Known(t) /\ sess[s].family = sess[t].family /\ ~sess[s].revoked /\ ~sess[t].revoked
        BY <2>5, <3>2
      <4> QED
        BY <1>3, <4>1 DEF OneLive
    <3> QED
      BY <3>1, <3>2
  <2> QED
    BY <2>4, <2>5, <2>7 DEF FamilyInv
<1>7. ASSUME NEW o \in Ops, Dropped(o) PROVE FamilyInv'
  <2>1. ASSUME NEW s \in Sids, Known(s)' PROVE FamilySound(s)' /\ sess'[s] = sess[s] /\ Known(s)
    <3>1. s \notin SessionsOf(o) /\ sess'[s] = sess[s] /\ Known(s) /\ sess[s].op # o
      BY <1>7, <2>1 DEF Dropped, SessionsOf, Known
    <3>2. PICK f : f = sess[s].family
      OBVIOUS
    <3>3. /\ f \in Sids /\ Known(f) /\ sess[f].family = f /\ sess[f].op = sess[s].op
          /\ sess[f].made <= sess[s].made /\ sess[s].made <= now
          /\ sess[s].exp <= sess[f].made + Absolute /\ sess[s].made \in Nat
      BY <1>1, <1>2, <3>1, <3>2 DEF FamilySound
    <3>4. f \notin SessionsOf(o) /\ sess'[f] = sess[f] /\ Known(f)'
      BY <1>7, <3>1, <3>3 DEF Dropped, SessionsOf, Known
    <3>5. sess[s].made <= now'
      BY <1>0, <3>3
    <3> QED
      BY <3>1, <3>2, <3>3, <3>4, <3>5 DEF FamilySound
  <2>2. OneLive'
    BY <1>3, <2>1 DEF OneLive
  <2> QED
    BY <2>1, <2>2 DEF FamilyInv
<1> QED
  BY <1>4, <1>5, <1>6, <1>7 DEF SessStep

LEMMA FamiliesBounded == ASSUME Shaped, FamilyInv PROVE FamilyBounded
<1> SUFFICES ASSUME NEW f \in Sids, Family(f) # {}
             PROVE  /\ \A s, t \in Family(f) : ~sess[s].revoked /\ ~sess[t].revoked => s = t
                    /\ \A s \in Family(f) : sess[s].exp <= FamilyStart(f) + Absolute
  BY DEF FamilyBounded
<1>1. \A s, t \in Family(f) : ~sess[s].revoked /\ ~sess[t].revoked => s = t
  BY DEF FamilyInv, OneLive, Family
<1>2. ASSUME NEW s \in Family(f) PROVE sess[s].exp <= FamilyStart(f) + Absolute
  <2>1. s \in Sids /\ Known(s) /\ sess[s].family = f
    BY DEF Family
  <2> QED
    BY <2>1, StartIsRoot DEF FamilyInv, FamilySound
<1> QED
  BY <1>1, <1>2
-----------------------------------------------------------------------------
(* Passwords.  A hash only grows, so a handler that carries the hash it    *)
(* verified can tell whether the account changed since; what it learned    *)
(* with that hash is still true while the hash is.                         *)

CurrentSound(s) ==
  /\ Exists(sess[s].op)
  /\ ~sess[s].revoked => /\ sess[s].pw = op[sess[s].op].hash
                         /\ sess[s].kind = "desktop" => ~op[sess[s].op].must

CurrentInv == \A s \in Sids : Known(s) => CurrentSound(s)

CallSound(k) ==
  /\ k.pc \in {"clear", "create", "change"} =>
        op[k.op] # None /\ (Exists(k.op) => k.hash <= op[k.op].hash)
  /\ k.pc = "clear" /\ SameHash(k.op, k.hash) => k.must = op[k.op].must
  /\ k.pc = "create" /\ SameHash(k.op, k.hash) /\ k.kind = "desktop" => ~op[k.op].must
  /\ k.pc = "change" => sess[k.sid] # None /\ (Known(k.sid) => sess[k.sid].op = k.op)

CallInv == \A c \in Calls : CallSound(call[c])

OpMove(o) ==
  \/ op'[o] = op[o]
  \/ op[o] = None
  \/ op'[o] = Gone
  \/ /\ Exists(o) /\ op'[o] \in OpRows
     /\ \/ op'[o].hash = op[o].hash /\ op'[o].must = op[o].must
        \/ op'[o].hash = op[o].hash + 1

LEMMA CallsKept ==
  ASSUME Shaped, Shaped', NEW k, CallShape(k), CallSound(k), \A o \in Ops : OpMove(o), SessStep
  PROVE  CallSound(k)'
<1>1. ASSUME NEW o \in Ops, NEW h \in Nat, op[o] # None, Exists(o) => h <= op[o].hash
      PROVE  /\ op'[o] # None /\ (Exists(o)' => h <= op'[o].hash)
             /\ SameHash(o, h)' => SameHash(o, h) /\ op'[o].must = op[o].must
  <2>1. Exists(o) => op[o] \in OpRows /\ op[o].hash \in Nat
    BY OpTyped DEF OpRows
  <2>2. \/ op'[o] = op[o]
        \/ op'[o] = Gone
        \/ /\ Exists(o) /\ op'[o] \in OpRows
           /\ \/ op'[o].hash = op[o].hash /\ op'[o].must = op[o].must
              \/ op'[o].hash = op[o].hash + 1
    BY <1>1 DEF OpMove
  <2>3. CASE op'[o] = op[o]
    BY <1>1, <2>3 DEF Exists, SameHash
  <2>4. CASE op'[o] = Gone
    BY <2>4 DEF Exists, SameHash
  <2>5. CASE Exists(o) /\ op'[o] \in OpRows /\ op'[o].hash = op[o].hash /\ op'[o].must = op[o].must
    BY <1>1, <2>1, <2>5 DEF Exists, SameHash, OpRows
  <2>6. CASE Exists(o) /\ op'[o] \in OpRows /\ op'[o].hash = op[o].hash + 1
    <3>1. h <= op[o].hash /\ op[o].hash \in Nat /\ op'[o].row = "live" /\ op'[o].hash # h
      BY <1>1, <2>1, <2>6 DEF OpRows
    <3> QED
      BY <2>6, <3>1 DEF Exists, SameHash
  <2> QED
    BY <2>2, <2>3, <2>4, <2>5, <2>6
<1>2. ASSUME NEW s \in Sids, sess[s] # None, NEW o, Known(s) => sess[s].op = o
      PROVE  sess'[s] # None /\ (Known(s)' => sess'[s].op = o)
  <2>1. CASE Steady(s)
    BY <1>2, <2>1 DEF Steady, Known
  <2>2. CASE sess'[s] = Gone
    BY <2>2 DEF Known
  <2> QED
    BY <1>2, <2>1, <2>2 DEF SessStep, Opened, Rotated, Dropped, Steady
<1>3. CASE k.pc = "clear"
  <2>1. k.op \in Ops /\ k.hash \in Nat
    BY <1>3 DEF CallShape
  <2> QED
    BY <1>1, <1>3, <2>1 DEF CallSound
<1>4. CASE k.pc = "create"
  <2>1. k.op \in Ops /\ k.hash \in Nat
    BY <1>4 DEF CallShape
  <2> QED
    BY <1>1, <1>4, <2>1 DEF CallSound
<1>5. CASE k.pc = "change"
  <2>1. k.op \in Ops /\ k.hash \in Nat /\ k.sid \in Sids
    BY <1>5 DEF CallShape
  <2> QED
    BY <1>1, <1>2, <1>5, <2>1 DEF CallSound
<1>6. CASE k.pc \notin {"clear", "create", "change"}
  BY <1>6 DEF CallSound
<1> QED
  BY <1>3, <1>4, <1>5, <1>6

\* One handler moves to r, the others keep what they carry.
LEMMA CallInvKept ==
  ASSUME Shaped, Shaped', CallInv, \A o \in Ops : OpMove(o), SessStep,
         \/ UNCHANGED call
         \/ \E c \in Calls : \E r : call' = [call EXCEPT ![c] = r] /\ CallSound(r)'
  PROVE  CallInv'
<1>1. ASSUME NEW c \in Calls PROVE \A k : k = call[c] => CallSound(k)'
  BY CallsKept DEF CallInv, Shaped
<1>2. CASE UNCHANGED call
  BY <1>1, <1>2 DEF CallInv
<1>3. ASSUME NEW c \in Calls, NEW r, call' = [call EXCEPT ![c] = r], CallSound(r)' PROVE CallInv'
  <2>1. call'[c] = r /\ \A d \in Calls \ {c} : call'[d] = call[d]
    BY <1>3 DEF Shaped
  <2> QED
    BY <1>1, <1>3, <2>1 DEF CallInv
<1> QED
  BY <1>2, <1>3

LEMMA IdleSound == CallSound(Idle)'
BY DEF CallSound, Idle

\* Sessions that are only touched or revoked, while their accounts stay as they were.
LEMMA CurrentKept ==
  ASSUME Shaped, CurrentInv, \A s \in Sids : Kept(s),
         \A s \in Sids : Known(s) => \/ op'[sess[s].op] = op[sess[s].op]
                                     \/ /\ Exists(sess[s].op)'
                                        /\ sess'[s].revoked \/ (/\ op'[sess[s].op].hash = op[sess[s].op].hash
                                                               /\ op'[sess[s].op].must = op[sess[s].op].must)
  PROVE  CurrentInv'
<1> SUFFICES ASSUME NEW s \in Sids, Known(s)' PROVE CurrentSound(s)'
  BY DEF CurrentInv
<1>1. Known(s) /\ sess'[s].op = sess[s].op /\ sess'[s].kind = sess[s].kind /\ sess'[s].pw = sess[s].pw
      /\ (sess[s].revoked => sess'[s].revoked)
  BY DEF Kept, Carried, Known
<1>2. CurrentSound(s)
  BY <1>1 DEF CurrentInv
<1>3. CASE op'[sess[s].op] = op[sess[s].op]
  BY <1>1, <1>2, <1>3 DEF CurrentSound, Exists
<1>4. CASE /\ Exists(sess[s].op)'
           /\ sess'[s].revoked \/ (/\ op'[sess[s].op].hash = op[sess[s].op].hash
                                  /\ op'[sess[s].op].must = op[sess[s].op].must)
  BY <1>1, <1>2, <1>4 DEF CurrentSound
<1> QED
  BY <1>1, <1>3, <1>4

CallsMove == UNCHANGED call \/ \E c \in Calls : \E r : call' = [call EXCEPT ![c] = r] /\ CallSound(r)'

SoundStep == SessStep /\ now <= now' /\ CurrentInv' /\ CallInv'

SessInv == Shaped /\ FamilyInv /\ CurrentInv /\ CallInv

LEMMA CallsEnd == ASSUME NEW c \in Calls, call' = [call EXCEPT ![c] = Idle] PROVE CallsMove
BY IdleSound DEF CallsMove

LEMMA QuietSound ==
  ASSUME SessInv, Shaped', UNCHANGED op, now <= now', \A s \in Sids : Kept(s), CallsMove
  PROVE  SoundStep
<1>1. SessStep
  BY KeptSteady DEF SessStep
<1>2. \A o \in Ops : OpMove(o)
  BY DEF OpMove
<1>3. CurrentInv'
  BY CurrentKept DEF SessInv
<1>4. CallInv'
  BY <1>1, <1>2, CallInvKept DEF SessInv, CallsMove
<1> QED
  BY <1>1, <1>3, <1>4 DEF SoundStep

LEMMA SameSessions == UNCHANGED sess => \A s \in Sids : Kept(s)
BY DEF Kept

LEMMA SameTime == Shaped /\ UNCHANGED now => now <= now'
BY DEF Shaped

LEMMA BootstrapSound == ASSUME SessInv, Shaped', Bootstrap PROVE SoundStep
<1>0. Shaped
  BY DEF SessInv
<1>1. ASSUME NEW o \in Ops, NEW must \in BOOLEAN, Bootstrapped(o, must), UNCHANGED <<sess, now>>, CallsMove
      PROVE  SoundStep
  <2>1. op[o] = None /\ \A p \in Ops \ {o} : op'[p] = op[p]
    BY <1>0, <1>1 DEF Bootstrapped, Shaped
  <2>2. \A p \in Ops : OpMove(p)
    BY <2>1 DEF OpMove
  <2>3. SessStep
    BY <1>1, SameSessions, KeptSteady DEF SessStep
  <2>4. \A s \in Sids : Known(s) => sess[s].op \in Ops \ {o}
    BY <1>0, <2>1, SessionTyped DEF SessInv, CurrentInv, CurrentSound, Exists, SessionRows
  <2>5. CurrentInv'
    BY <1>0, <1>1, <2>1, <2>4, SameSessions, CurrentKept DEF SessInv
  <2>6. CallInv'
    BY <1>1, <2>2, <2>3, CallInvKept DEF SessInv, CallsMove
  <2> QED
    BY <1>0, <1>1, <2>3, <2>5, <2>6, SameTime DEF SoundStep
<1>2. ASSUME NEW o \in Ops, bootstrap_local_operator(o) PROVE SoundStep
  BY <1>1, <1>2 DEF bootstrap_local_operator, CallsMove
<1>3. ASSUME NEW t \in Tokens, issue_bootstrap_token(t) \/ ExpireToken(t) PROVE SoundStep
  <2>1. UNCHANGED <<op, sess, now, call>>
    BY <1>3 DEF issue_bootstrap_token, ExpireToken
  <2> QED
    BY <1>0, <2>1, SameTime, SameSessions, QuietSound DEF CallsMove
<1>4. ASSUME NEW c \in Calls, NEW t \in Tokens, NEW o \in Ops, bootstrap_token_usable(c, t, o) PROVE SoundStep
  <2>1. PICK r : r = [pc |-> "bootstrap", token |-> t, op |-> o]
    OBVIOUS
  <2>2. CallSound(r)'
    BY <2>1 DEF CallSound
  <2>3. call' = [call EXCEPT ![c] = r] /\ UNCHANGED <<op, sess, now>>
    BY <1>4, <2>1 DEF bootstrap_token_usable, Start, rows
  <2> QED
    BY <1>0, <2>2, <2>3, SameTime, SameSessions, QuietSound DEF CallsMove
<1>5. ASSUME NEW c \in Calls, bootstrap_operator_with_token(c) PROVE SoundStep
  <2>1. PICK o : o = call[c].op
    OBVIOUS
  <2>2. o \in Ops
    BY <1>0, <1>5, <2>1 DEF bootstrap_operator_with_token, Shaped, CallShape
  <2>3. PICK r : r = [pc |-> "create", op |-> o, hash |-> 0, kind |-> "browser"]
    OBVIOUS
  <2>4. UNCHANGED <<sess, now>>
    BY <1>5 DEF bootstrap_operator_with_token
  <2>5. CASE Bootstrapped(o, FALSE) /\ call' = [call EXCEPT ![c] = r]
    <3>1. PICK q : q = Row("admin", 0, FALSE)
      OBVIOUS
    <3>2. q.hash = 0 /\ q \in OpRows
      BY <3>1, RowTyped DEF Roles
    <3>3. op'[o] = q
      BY <1>0, <2>2, <2>5, <3>1 DEF Bootstrapped, Shaped
    <3>4. r.pc = "create" /\ r.op = o /\ r.hash = 0 /\ r.kind = "browser"
      BY <2>3
    <3>5. CallSound(r)'
      BY <3>2, <3>3, <3>4 DEF CallSound, OpRows
    <3>6. CallsMove
      BY <2>5, <3>5 DEF CallsMove
    <3> QED
      BY <1>1, <2>2, <2>4, <2>5, <3>6
  <2>6. CASE UNCHANGED op /\ call' = [call EXCEPT ![c] = Idle]
    BY <1>0, <2>4, <2>6, CallsEnd, SameTime, SameSessions, QuietSound
  <2> QED
    BY <1>5, <2>1, <2>3, <2>5, <2>6 DEF bootstrap_operator_with_token, Goto, End
<1> QED
  BY <1>2, <1>3, <1>4, <1>5 DEF Bootstrap

LEMMA SignInSound == ASSUME SessInv, Shaped', SignIn PROVE SoundStep
<1>0. Shaped /\ CallInv
  BY DEF SessInv
<1>a. ASSUME UNCHANGED <<op, sess, now>>, CallsMove PROVE SoundStep
  BY <1>0, <1>a, SameTime, SameSessions, QuietSound
<1>1. ASSUME NEW c \in Calls, NEW o \in Ops, NEW i \in Sources, NEW k \in Kinds, login_block(c, o, i, k)
      PROVE  SoundStep
  <2>1. PICK r : r = [pc |-> "read", op |-> o, src |-> i, kind |-> k]
    OBVIOUS
  <2>2. CallSound(r)'
    BY <2>1 DEF CallSound
  <2>3. call' = [call EXCEPT ![c] = r] /\ UNCHANGED <<op, sess, now>>
    BY <1>1, <2>1 DEF login_block, Start, rows
  <2> QED
    BY <1>a, <2>2, <2>3 DEF CallsMove
<1>2. ASSUME NEW c \in Calls, VerifyRight(c) PROVE SoundStep
  <2>1. PICK o : o = call[c].op
    OBVIOUS
  <2>2. o \in Ops /\ Exists(o) /\ op[o] \in OpRows
    BY <1>0, <1>2, <2>1, OpTyped DEF VerifyRight, Shaped, CallShape
  <2>3. PICK r : r = [pc |-> "clear", op |-> o, src |-> call[c].src, kind |-> call[c].kind,
                hash |-> op[o].hash, must |-> op[o].must]
    OBVIOUS
  <2>4. call' = [call EXCEPT ![c] = r] /\ UNCHANGED <<op, sess, now>>
    BY <1>2, <2>1, <2>3 DEF VerifyRight, Goto, rows
  <2>5. r.pc = "clear" /\ r.op = o /\ r.hash = op'[o].hash /\ r.must = op'[o].must /\ op'[o] \in OpRows
    BY <2>2, <2>3, <2>4
  <2>6. CallSound(r)'
    BY <2>5 DEF CallSound, OpRows
  <2> QED
    BY <1>a, <2>4, <2>6 DEF CallsMove
<1>3. ASSUME NEW c \in Calls, VerifyWrong(c) PROVE SoundStep
  <2>1. PICK r : r = [pc |-> "pair", op |-> call[c].op, src |-> call[c].src, known |-> Exists(call[c].op)]
    OBVIOUS
  <2>2. CallSound(r)'
    BY <2>1 DEF CallSound
  <2>3. call' = [call EXCEPT ![c] = r] /\ UNCHANGED <<op, sess, now>>
    BY <1>3, <2>1 DEF VerifyWrong, Goto, rows
  <2> QED
    BY <1>a, <2>2, <2>3 DEF CallsMove
<1>4. ASSUME NEW c \in Calls, clear_login_failures(c) PROVE SoundStep
  <2>1. PICK k : k = call[c]
    OBVIOUS
  <2>2. /\ k.pc = "clear" /\ k.op \in Ops /\ k.hash \in Nat /\ k.must \in BOOLEAN
        /\ UNCHANGED <<op, sess, now>> /\ CallSound(k)
    BY <1>0, <1>4, <2>1 DEF clear_login_failures, Shaped, CallShape, rows, CallInv
  <2>3. PICK r : r = [pc |-> "create", op |-> k.op, hash |-> k.hash, kind |-> k.kind]
    OBVIOUS
  <2>4. CASE ~DesktopRefused(k)
    <3>1. call' = [call EXCEPT ![c] = r]
      BY <1>4, <2>1, <2>3, <2>4 DEF clear_login_failures, Goto
    <3>2. r.pc = "create" /\ r.op = k.op /\ r.hash = k.hash /\ r.kind = k.kind
      BY <2>3
    <3>3. op[k.op] # None /\ (Exists(k.op) => k.hash <= op[k.op].hash)
      BY <2>2 DEF CallSound
    <3>4. SameHash(k.op, k.hash) /\ k.kind = "desktop" => ~op[k.op].must
      BY <2>2, <2>4 DEF CallSound, DesktopRefused
    <3>5. CallSound(r)
      BY <3>2, <3>3, <3>4 DEF CallSound
    <3>6. CallSound(r)'
      BY <2>2, <3>2, <3>5 DEF CallSound, SameHash, Exists
    <3> QED
      BY <1>a, <2>2, <3>1, <3>6 DEF CallsMove
  <2>5. CASE DesktopRefused(k)
    BY <1>4, <1>a, <2>1, <2>2, <2>5, CallsEnd DEF clear_login_failures, End
  <2> QED
    BY <2>4, <2>5
<1>5. ASSUME NEW c \in Calls, create_session(c) PROVE SoundStep
  <2>1. PICK k : k = call[c]
    OBVIOUS
  <2>2. /\ k.pc = "create" /\ k.op \in Ops /\ k.kind \in Kinds /\ k.hash \in Nat /\ CallSound(k)
        /\ UNCHANGED <<op, now>> /\ call' = [call EXCEPT ![c] = Idle]
    BY <1>0, <1>5, <2>1 DEF create_session, Shaped, CallShape, CallInv, End
  <2>3. PICK n : n = NextSid
    OBVIOUS
  <2>4. PICK r : r = [row |-> "live", op |-> k.op, kind |-> k.kind, family |-> n,
                     made |-> now, exp |-> now + Min2(Ttl, Absolute), seen |-> now,
                     revoked |-> FALSE, pw |-> k.hash]
    OBVIOUS
  <2>5. CASE UNCHANGED sess
    BY <1>a, <2>2, <2>5, CallsEnd
  <2>6. CASE SameHash(k.op, k.hash) /\ Unused # {} /\ sess' = [sess EXCEPT ![n] = r]
    <3>1. n \in Sids /\ sess[n] = None
      BY <2>3, <2>6, FirstUnused
    <3>2. now \in Nat /\ now + Min2(Ttl, Absolute) \in Int /\ now + Min2(Ttl, Absolute) <= now + Absolute
      BY <1>0, OperatorsAssumption DEF Shaped, Min2
    <3>3. /\ r \in SessionRows /\ r.family = n /\ r.made = now /\ r.exp <= now + Absolute
          /\ r.op = k.op /\ r.kind = k.kind /\ r.pw = k.hash
      BY <2>2, <2>4, <3>1, <3>2 DEF SessionRows
    <3>4. sess'[n] = r /\ \A t \in Sids \ {n} : sess'[t] = sess[t]
      BY <1>0, <2>6, <3>1 DEF Shaped
    <3>5. SessStep
      BY <3>1, <3>3, <3>4 DEF SessStep, Opened
    <3>6. \A o \in Ops : OpMove(o)
      BY <2>2 DEF OpMove
    <3>7. CallInv'
      BY <1>0, <2>2, <3>5, <3>6, CallInvKept, IdleSound
    <3>8. CurrentSound(n)'
      BY <2>2, <2>6, <3>3, <3>4 DEF CurrentSound, SameHash, CallSound, Exists
    <3>9. CurrentInv'
      BY <2>2, <3>4, <3>8 DEF SessInv, CurrentInv, CurrentSound, Exists, Known
    <3> QED
      BY <1>0, <2>2, <3>5, <3>7, <3>9, SameTime DEF SoundStep
  <2> QED
    BY <1>5, <2>1, <2>3, <2>4, <2>5, <2>6 DEF create_session
<1>6. ASSUME NEW c \in Calls, record_pair_failure(c) PROVE SoundStep
  <2>1. PICK r : r = [pc |-> "total", op |-> call[c].op]
    OBVIOUS
  <2>2. CallSound(r)'
    BY <2>1 DEF CallSound
  <2>3. /\ call' = [call EXCEPT ![c] = r] \/ call' = [call EXCEPT ![c] = Idle]
        /\ UNCHANGED <<op, sess, now>>
    BY <1>6, <2>1 DEF record_pair_failure, Goto, End, rows
  <2> QED
    BY <1>a, <2>2, <2>3, CallsEnd DEF CallsMove
<1>7. ASSUME NEW c \in Calls, record_total_failure(c) \/ record_lock(c) PROVE SoundStep
  <2>1. PICK r : r = [pc |-> "lock", op |-> call[c].op]
    OBVIOUS
  <2>2. CallSound(r)'
    BY <2>1 DEF CallSound
  <2>3. /\ call' = [call EXCEPT ![c] = r] \/ call' = [call EXCEPT ![c] = Idle]
        /\ UNCHANGED <<op, sess, now>>
    BY <1>7, <2>1 DEF record_total_failure, record_lock, Goto, End, rows
  <2> QED
    BY <1>a, <2>2, <2>3, CallsEnd DEF CallsMove
<1>8. ASSUME \/ \E o \in Ops : LapseCounter(o) \/ LapseLock(o)
             \/ \E i \in Sources : LapseSource(i)
      PROVE  SoundStep
  <2>1. UNCHANGED <<op, sess, now, call>>
    BY <1>8 DEF LapseCounter, LapseLock, LapseSource, rows
  <2> QED
    BY <1>a, <2>1 DEF CallsMove
<1> QED
  BY <1>1, <1>2, <1>3, <1>4, <1>5, <1>6, <1>7, <1>8 DEF SignIn

LEMMA SessionsSoundStep == ASSUME SessInv, Shaped', Sessions PROVE SoundStep
<1>0. Shaped /\ CallInv /\ CurrentInv
  BY DEF SessInv
<1>a. ASSUME UNCHANGED <<op, now>>, CallsMove, \A s \in Sids : Kept(s) PROVE SoundStep
  BY <1>0, <1>a, SameTime, QuietSound
<1>1. ASSUME NEW s \in Sids, touch_session(s) PROVE SoundStep
  <2>1. Known(s) /\ sess' = Touched(s) /\ UNCHANGED <<op, now, call>>
    BY <1>1 DEF touch_session, SessionLive, NotRevoked
  <2> QED
    BY <1>0, <1>a, <2>1, TouchKeeps DEF CallsMove
<1>2. ASSUME NEW s \in Sids, logout(s) PROVE SoundStep
  <2>1. Known(s) /\ sess' = [Revoke({s}) EXCEPT ![s].seen = now] /\ UNCHANGED <<op, now, call>>
    BY <1>2 DEF logout, SessionLive, NotRevoked
  <2> QED
    BY <1>0, <1>a, <2>1, LogoutKeeps DEF CallsMove
<1>3. ASSUME NEW s \in Sids, RotateRefused(s) PROVE SoundStep
  <2>1. PICK S : S = Family(sess[s].family)
    OBVIOUS
  <2>2. S \subseteq Sids /\ (\A t \in S : Known(t)) /\ sess' = Revoke(S) /\ UNCHANGED <<op, now, call>>
    BY <1>3, <2>1 DEF RotateRefused, RevokedFamily, Family
  <2> QED
    BY <1>0, <1>a, <2>2, RevokeKeeps DEF CallsMove
<1>4. ASSUME NEW s \in Sids, rotate_session(s) PROVE SoundStep
  <2>1. PICK n : n = NextSid
    OBVIOUS
  <2>2. UNCHANGED <<op, now, call>>
    BY <1>4 DEF rotate_session
  <2>3. /\ Known(s) /\ ~sess[s].revoked /\ Exists(sess[s].op)
        /\ n \in Sids /\ n # s /\ sess[n] = None
        /\ \A t \in Sids \ {n} : Kept(t)
        /\ sess'[s].revoked
        /\ sess'[n] \in SessionRows
        /\ sess'[n].op = sess[s].op /\ sess'[n].kind = sess[s].kind
        /\ sess'[n].family = sess[s].family /\ sess'[n].pw = sess[s].pw
        /\ sess'[n].made = now /\ sess'[n].exp <= FamilyStart(sess[s].family) + Absolute
        /\ sess'[n].revoked = Temporary(s)
    BY <1>0, <1>4, <2>1, RotateMoves
  <2>4. Rotated(s, n)
    BY <2>3, KeptSteady DEF Rotated
  <2>5. SessStep
    BY <2>3, <2>4 DEF SessStep
  <2>6. \A o \in Ops : OpMove(o)
    BY <2>2 DEF OpMove
  <2>7. CallInv'
    BY <1>0, <2>2, <2>5, <2>6, CallInvKept
  <2>8. CurrentSound(s)
    BY <1>0, <2>3 DEF CurrentInv
  <2>9. CurrentSound(n)'
    BY <2>2, <2>3, <2>8 DEF CurrentSound, Temporary, Exists
  <2>10. ASSUME NEW t \in Sids, t # n, Known(t)' PROVE CurrentSound(t)'
    <3>1. /\ Known(t) /\ sess'[t].op = sess[t].op /\ sess'[t].kind = sess[t].kind /\ sess'[t].pw = sess[t].pw
          /\ sess[t].revoked => sess'[t].revoked
      BY <2>3, <2>10 DEF Kept, Carried, Known
    <3>2. CurrentSound(t)
      BY <1>0, <3>1 DEF CurrentInv
    <3> QED
      BY <2>2, <3>1, <3>2 DEF CurrentSound, Exists
  <2>11. CurrentInv'
    BY <2>9, <2>10 DEF CurrentInv
  <2> QED
    BY <1>0, <2>2, <2>5, <2>7, <2>11, SameTime DEF SoundStep
<1>5. ASSUME NEW c \in Calls, NEW s \in Sids, change_password(c, s) PROVE SoundStep
  <2>1. PICK o : o = sess[s].op
    OBVIOUS
  <2>2. Known(s) /\ Exists(o) /\ sess' = Touched(s) /\ UNCHANGED <<op, now>>
    BY <1>5, <2>1 DEF change_password, authenticated_session, SessionLive, NotRevoked
  <2>3. o \in Ops /\ op[o] \in OpRows
    BY <1>0, <2>1, <2>2, SessionTyped, OpTyped DEF SessionRows
  <2>4. PICK r : r = [pc |-> "change", op |-> o, sid |-> s, hash |-> op[o].hash]
    OBVIOUS
  <2>5. call' = [call EXCEPT ![c] = r]
    BY <1>5, <2>1, <2>4 DEF change_password, Start
  <2>6. \A t \in Sids : Kept(t)
    BY <1>0, <2>2, TouchKeeps
  <2>7. Known(s)' /\ sess'[s].op = o
    BY <2>1, <2>2, <2>6 DEF Kept, Carried, Known
  <2>8. r.pc = "change" /\ r.op = o /\ r.sid = s /\ r.hash = op'[o].hash /\ op'[o] \in OpRows
    BY <2>2, <2>3, <2>4
  <2>9. CallSound(r)'
    BY <2>7, <2>8 DEF CallSound, OpRows, Known
  <2> QED
    BY <1>a, <2>2, <2>5, <2>6, <2>9 DEF CallsMove
<1>6. ASSUME NEW c \in Calls, change_operator_password(c) PROVE SoundStep
  <2>1. PICK k : k = call[c]
    OBVIOUS
  <2>2. k.pc = "change" /\ k.op \in Ops /\ k.sid \in Sids /\ k.hash \in Nat /\ CallSound(k)
    BY <1>0, <1>6, <2>1 DEF change_operator_password, Shaped, CallShape, CallInv
  <2>3. /\ call' = [call EXCEPT ![c] = Idle] /\ UNCHANGED now
        /\ \/ UNCHANGED <<op, sess>>
           \/ Rehashed(k.op, FALSE) /\ ChangeMade(k.op, k.sid, k.hash)
    BY <1>0, <1>6, <2>1, ChangeMoves
  <2>4. CASE UNCHANGED <<op, sess>>
    BY <1>a, <2>3, <2>4, CallsEnd, SameSessions
  <2>5. CASE Rehashed(k.op, FALSE) /\ ChangeMade(k.op, k.sid, k.hash)
    <3>0. PICK w : w = k.sid
      OBVIOUS
    <3>1. /\ Known(w) /\ ~sess[w].revoked /\ Known(w)' /\ sess'[w] \in SessionRows
          /\ sess'[w].op = sess[w].op /\ sess'[w].kind = sess[w].kind /\ sess'[w].family = sess[w].family
          /\ sess'[w].made = sess[w].made /\ sess'[w].exp = sess[w].exp /\ sess'[w].pw = k.hash + 1
          /\ \A t \in Sids \ {w} : Kept(t)
          /\ \A t \in SessionsOf(k.op) \ {w} : sess'[t].revoked
          /\ op[k.op].hash = k.hash
      BY <2>5, <3>0 DEF ChangeMade, SameHash
    <3>2. /\ op'[k.op] \in OpRows /\ op'[k.op].hash = op[k.op].hash + 1 /\ ~op'[k.op].must
          /\ Exists(k.op) /\ \A p \in Ops \ {k.op} : op'[p] = op[p]
      BY <2>5 DEF Rehashed
    <3>3. SessStep
      BY <3>1, KeptSteady DEF SessStep, Steady
    <3>4. \A o \in Ops : OpMove(o)
      BY <3>2 DEF OpMove
    <3>5. CallInv'
      BY <1>0, <2>3, <3>3, <3>4, CallInvKept, IdleSound
    <3>6. sess[w].op = k.op /\ Exists(k.op)'
      BY <2>2, <3>0, <3>1, <3>2 DEF CallSound, Exists, OpRows
    <3>7. CurrentSound(w)'
      BY <3>1, <3>2, <3>6 DEF CurrentSound
    <3>8. ASSUME NEW t \in Sids, t # w, Known(t)' PROVE CurrentSound(t)'
      <4>1. /\ Known(t) /\ sess'[t].op = sess[t].op /\ sess'[t].kind = sess[t].kind /\ sess'[t].pw = sess[t].pw
            /\ sess[t].revoked => sess'[t].revoked
        BY <3>1, <3>8 DEF Kept, Carried, Known
      <4>2. CurrentSound(t) /\ sess[t].op \in Ops
        BY <1>0, <4>1, SessionTyped DEF CurrentInv, SessionRows
      <4>3. CASE sess[t].op = k.op
        <5>1. sess'[t].revoked
          BY <3>1, <3>8, <4>1, <4>3 DEF SessionsOf
        <5> QED
          BY <3>6, <4>1, <4>3, <5>1 DEF CurrentSound
      <4>4. CASE sess[t].op # k.op
        <5>1. op'[sess[t].op] = op[sess[t].op]
          BY <3>2, <4>2, <4>4
        <5> QED
          BY <4>1, <4>2, <5>1 DEF CurrentSound, Exists
      <4> QED
        BY <4>3, <4>4
    <3>9. CurrentInv'
      BY <3>7, <3>8 DEF CurrentInv
    <3> QED
      BY <1>0, <2>3, <3>3, <3>5, <3>9, SameTime DEF SoundStep
  <2> QED
    BY <2>3, <2>4, <2>5
<1> QED
  BY <1>1, <1>2, <1>3, <1>4, <1>5, <1>6 DEF Sessions

LEMMA AdministeredSound ==
  ASSUME SessInv, Shaped', NEW o \in Ops, Administered(o), UNCHANGED now, CallsMove
  PROVE  SoundStep
<1>0. Shaped /\ CallInv /\ CurrentInv
  BY DEF SessInv
<1>1. now <= now'
  BY <1>0, SameTime
<1>2. ASSUME SessStep, \A p \in Ops : OpMove(p), CurrentInv' PROVE SoundStep
  BY <1>0, <1>1, <1>2, CallInvKept DEF SoundStep, CallsMove
<1>3. \A s \in Sids : Known(s) => sess[s].op \in Ops /\ CurrentSound(s)
  BY <1>0, SessionTyped DEF CurrentInv, SessionRows
<1>4. CASE UNCHANGED <<op, sess>>
  BY <1>1, <1>4, SameSessions, QuietSound
<1>5. CASE Created(o)
  <2>1. op[o] = None /\ (\A p \in Ops \ {o} : op'[p] = op[p]) /\ UNCHANGED sess
    BY <1>5 DEF Created
  <2>2. \A p \in Ops : OpMove(p)
    BY <2>1 DEF OpMove
  <2>3. SessStep
    BY <2>1, SameSessions, KeptSteady DEF SessStep
  <2>4. \A s \in Sids : Known(s) => op'[sess[s].op] = op[sess[s].op]
    BY <1>3, <2>1 DEF CurrentSound, Exists
  <2> QED
    BY <1>0, <1>2, <2>1, <2>2, <2>3, <2>4, SameSessions, CurrentKept
<1>6. CASE Reassigned(o)
  <2>1. /\ Exists(o) /\ op'[o] \in OpRows /\ op'[o].hash = op[o].hash /\ op'[o].must = op[o].must
        /\ (\A p \in Ops \ {o} : op'[p] = op[p]) /\ UNCHANGED sess
    BY <1>6 DEF Reassigned
  <2>2. \A p \in Ops : OpMove(p)
    BY <2>1 DEF OpMove
  <2>3. SessStep
    BY <2>1, SameSessions, KeptSteady DEF SessStep
  <2>4. Exists(o)'
    BY <2>1 DEF Exists, OpRows
  <2>5. CurrentInv'
    BY <1>0, <1>3, <2>1, <2>4, SameSessions, CurrentKept
  <2> QED
    BY <1>2, <2>2, <2>3, <2>5
<1>7. CASE Deleted(o)
  <2>1. /\ op'[o] = Gone /\ \A p \in Ops \ {o} : op'[p] = op[p]
        /\ \A s \in SessionsOf(o) : sess'[s] = Gone
        /\ \A s \in Sids \ SessionsOf(o) : sess'[s] = sess[s]
    BY <1>7 DEF Deleted
  <2>2. \A p \in Ops : OpMove(p)
    BY <2>1 DEF OpMove
  <2>3. SessStep
    BY <2>1 DEF SessStep, Dropped
  <2>4. ASSUME NEW s \in Sids, Known(s)' PROVE CurrentSound(s)'
    <3>1. s \notin SessionsOf(o) /\ sess'[s] = sess[s] /\ Known(s)
      BY <2>1, <2>4 DEF Known
    <3>2. sess[s].op \in Ops \ {o} /\ CurrentSound(s)
      BY <1>3, <3>1 DEF SessionsOf
    <3>3. op'[sess[s].op] = op[sess[s].op]
      BY <2>1, <3>2
    <3> QED
      BY <3>1, <3>2, <3>3 DEF CurrentSound, Exists
  <2>5. CurrentInv'
    BY <2>4 DEF CurrentInv
  <2> QED
    BY <1>2, <2>2, <2>3, <2>5
<1>8. CASE WasReset(o)
  <2>1. /\ Exists(o) /\ op'[o] \in OpRows /\ op'[o].hash = op[o].hash + 1
        /\ \A p \in Ops \ {o} : op'[p] = op[p]
        /\ \A s \in Sids : Kept(s)
        /\ \A s \in SessionsOf(o) : sess'[s].revoked
    BY <1>8 DEF WasReset, Rehashed
  <2>2. \A p \in Ops : OpMove(p)
    BY <2>1 DEF OpMove
  <2>3. SessStep
    BY <2>1, KeptSteady DEF SessStep
  <2>4. Exists(o)'
    BY <2>1 DEF Exists, OpRows
  <2>5. CurrentInv'
    <3>1. ASSUME NEW s \in Sids, Known(s)
          PROVE  \/ op'[sess[s].op] = op[sess[s].op]
                 \/ Exists(sess[s].op)' /\ sess'[s].revoked
      <4>1. sess'[s].op = sess[s].op /\ sess[s].op \in Ops
        BY <1>3, <2>1, <3>1 DEF Kept, Carried
      <4>2. CASE sess[s].op = o
        BY <2>1, <2>4, <3>1, <4>1, <4>2 DEF SessionsOf
      <4>3. CASE sess[s].op # o
        BY <2>1, <4>1, <4>3
      <4> QED
        BY <4>2, <4>3
    <3> QED
      BY <1>0, <2>1, <3>1, CurrentKept
  <2> QED
    BY <1>2, <2>2, <2>3, <2>5
<1> QED
  BY <1>4, <1>5, <1>6, <1>7, <1>8 DEF Administered

LEMMA AdministrationSound == ASSUME SessInv, Shaped', Administration PROVE SoundStep
<1>0. Shaped
  BY DEF SessInv
<1>1. ASSUME NEW c \in Calls, NEW s \in Sids, NEW a \in Acts, require_admin(c, s, a) PROVE SoundStep
  <2>1. Known(s) /\ sess' = Touched(s) /\ UNCHANGED <<op, now>>
    BY <1>1 DEF require_admin, authenticated_session, SessionLive, NotRevoked
  <2>2. PICK r : r = [pc |-> "act", act |-> a]
    OBVIOUS
  <2>3. CallSound(r)'
    BY <2>2 DEF CallSound
  <2>4. call' = [call EXCEPT ![c] = r]
    BY <1>1, <2>2 DEF require_admin, Start
  <2> QED
    BY <1>0, <2>1, <2>3, <2>4, SameTime, TouchKeeps, QuietSound DEF CallsMove
<1>2. ASSUME NEW c \in Calls, AdminAct(c) PROVE SoundStep
  BY <1>0, <1>2, ActMoves, CallsEnd, AdministeredSound
<1>3. ASSUME NEW c \in Calls, Abandon(c) PROVE SoundStep
  <2>1. call' = [call EXCEPT ![c] = Idle] /\ UNCHANGED <<op, sess, now>>
    BY <1>3 DEF Abandon, End, rows
  <2> QED
    BY <1>0, <2>1, CallsEnd, SameTime, SameSessions, QuietSound
<1>4. ASSUME NEW o \in Ops, SocketReset(o) PROVE SoundStep
  BY <1>0, <1>4, ResetMoves, AdministeredSound DEF SocketReset, CallsMove
<1> QED
  BY <1>1, <1>2, <1>3, <1>4 DEF Administration

LEMMA SessInvariant == Spec => []SessInv
<1>1. Init => SessInv
  <2> SUFFICES ASSUME Init PROVE SessInv
    OBVIOUS
  <2>1. Shaped /\ (\A s \in Sids : ~Known(s)) /\ \A c \in Calls : call[c] = Idle
    BY InitShaped DEF Init, Known
  <2>2. CallSound(Idle)
    BY DEF CallSound, Idle
  <2> QED
    BY <2>1, <2>2 DEF SessInv, FamilyInv, OneLive, CurrentInv, CallInv
<1>2. SessInv /\ [Next]_vars => SessInv'
  <2> SUFFICES ASSUME SessInv, [Next]_vars PROVE SessInv'
    OBVIOUS
  <2>1. Shaped /\ Shaped'
    BY NextShaped DEF SessInv
  <2>4. SoundStep
    <3>1. ASSUME UNCHANGED vars PROVE SoundStep
      BY <2>1, <3>1, SameTime, SameSessions, QuietSound DEF vars, rows, CallsMove
    <3>2. ASSUME Tick PROVE SoundStep
      <4>1. UNCHANGED <<op, sess, call>> /\ now <= now'
        BY <2>1, <3>2 DEF Tick, rows, Shaped
      <4> QED
        BY <2>1, <4>1, SameSessions, QuietSound DEF CallsMove
    <3> QED
      BY <2>1, <3>1, <3>2, BootstrapSound, SignInSound, SessionsSoundStep, AdministrationSound DEF Next
  <2>5. FamilyInv'
    BY <2>1, <2>4, FamiliesKept DEF SessInv, SoundStep
  <2> QED
    BY <2>1, <2>4, <2>5 DEF SessInv, SoundStep
<1> QED
  BY <1>1, <1>2, PTL DEF Spec

\* A session is worth one sign-in under the password of today, for any number of accounts,
\* sessions and requests in flight: create_session compares the verified hash inside its
\* transaction, change and reset revoke the other sessions, rotate_session hands the sign-in
\* to exactly one successor within the lifetime of its family.
THEOREM SessionsHold == Spec => []SessionsSound
<1>1. SessInv => SessionsSound
  <2> SUFFICES ASSUME SessInv PROVE SessionsSound
    OBVIOUS
  <2>1. SessionsCurrent
    BY DEF SessInv, CurrentInv, CurrentSound, SessionsCurrent, NotRevoked
  <2>2. FamilyBounded
    BY FamiliesBounded DEF SessInv
  <2> QED
    BY <2>1, <2>2 DEF SessionsSound
<1> QED
  BY <1>1, SessInvariant, PTL
=============================================================================
