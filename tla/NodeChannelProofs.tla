------------------------- MODULE NodeChannelProofs -------------------------
(***************************************************************************)
(* Proofs about NodeChannel for every number of enrolments, events and     *)
(* documents, every size of queue and batch, and any disturbances.         *)
(***************************************************************************)
EXTENDS NodeChannel, FiniteSetTheorems, WellFoundedInduction, TLAPS

-----------------------------------------------------------------------------
(* Filtering a sequence.                                                   *)

LEMMA LeastExists ==
  ASSUME NEW S, S \subseteq Nat, S # {}
  PROVE  \E n \in S : \A m \in S : n <= m
<1>1. PICK n \in S : \A m \in S : ~ (<<m, n>> \in OpToRel(<, Nat))
  BY WFMin, NatLessThanWellFounded
<1>2. \A m \in S : ~(m < n)
  BY <1>1 DEF OpToRel
<1> QED
  BY <1>2

LEMMA Appended ==
  ASSUME NEW T, NEW s \in Seq(T), NEW x \in T
  PROVE  /\ Append(s, x) \in Seq(T) /\ Len(Append(s, x)) = Len(s) + 1
         /\ \A i \in 1..Len(s) : i \in 1..Len(s) + 1 /\ Append(s, x)[i] = s[i]
         /\ Append(s, x)[Len(s) + 1] = x
         /\ Range(Append(s, x)) = Range(s) \cup {x}
<1>1. Append(s, x) \in Seq(T) /\ Len(Append(s, x)) = Len(s) + 1
  OBVIOUS
<1>2. \A i \in 1..Len(s) : i \in 1..Len(s) + 1 /\ Append(s, x)[i] = s[i]
  OBVIOUS
<1>3. Append(s, x)[Len(s) + 1] = x /\ Len(s) + 1 \in 1..Len(s) + 1
  OBVIOUS
<1>4. DOMAIN s = 1..Len(s) /\ DOMAIN Append(s, x) = 1..Len(s) + 1
  BY <1>1
<1>5. \A i \in 1..Len(s) + 1 : i \in 1..Len(s) \/ i = Len(s) + 1
  OBVIOUS
<1>6. Range(Append(s, x)) = Range(s) \cup {x}
  BY <1>2, <1>3, <1>4, <1>5, Zenon DEF Range
<1> QED
  BY <1>1, <1>2, <1>3, <1>6

\* f filters the first n members of q.
Filters(f, n, q, S, T) ==
  /\ f \in [0..n -> Seq(T)]
  /\ f[0] = <<>>
  /\ \A i \in 1..n : f[i] = IF q[i] \in S THEN Append(f[i - 1], q[i]) ELSE f[i - 1]

LEMMA FilterExists ==
  ASSUME NEW T, NEW q \in Seq(T), NEW S
  PROVE  \E f : Filters(f, Len(q), q, S, T)
<1> DEFINE Bad == {n \in 0..Len(q) : ~ \E f : Filters(f, n, q, S, T)}
<1>0. Len(q) \in 0..Len(q) /\ Len(q) \in Nat
  OBVIOUS
<1> SUFFICES ASSUME Bad # {} PROVE FALSE
  BY <1>0, Zenon
<1>1. PICK n \in Bad : \A m \in Bad : n <= m
  <2>1. Bad \subseteq Nat
    OBVIOUS
  <2> HIDE DEF Bad
  <2> QED
    BY <2>1, LeastExists
<1>2. n # 0
  <2>1. Filters([i \in 0..0 |-> <<>>], 0, q, S, T)
    BY DEF Filters
  <2> QED
    BY <2>1
<1>3. n - 1 \in 0..Len(q) /\ n \in 1..Len(q) /\ n - 1 \notin Bad
  BY <1>1, <1>2
<1>4. PICK f : Filters(f, n - 1, q, S, T)
  BY <1>3
<1> DEFINE x == IF q[n] \in S THEN Append(f[n - 1], q[n]) ELSE f[n - 1]
<1> DEFINE g == [i \in 0..n |-> IF i = n THEN x ELSE f[i]]
<1>5. x \in Seq(T)
  BY <1>3, <1>4 DEF Filters
<1>6. g \in [0..n -> Seq(T)]
  <2>1. \A i \in 0..n : i # n => f[i] \in Seq(T)
    BY <1>3, <1>4 DEF Filters
  <2> HIDE DEF x
  <2> QED
    BY <1>5, <2>1
<1>7. g[0] = <<>>
  BY <1>2, <1>3, <1>4 DEF Filters
<1>8. \A i \in 1..n : g[i] = IF q[i] \in S THEN Append(g[i - 1], q[i]) ELSE g[i - 1]
  <2> SUFFICES ASSUME NEW i \in 1..n
               PROVE  g[i] = IF q[i] \in S THEN Append(g[i - 1], q[i]) ELSE g[i - 1]
    OBVIOUS
  <2>1. i \in 0..n /\ i - 1 \in 0..n /\ i - 1 # n
    BY <1>3
  <2>2. g[i - 1] = f[i - 1] /\ g[i] = IF i = n THEN x ELSE f[i]
    <3> HIDE DEF x
    <3> QED
      BY <2>1
  <2> HIDE DEF g
  <2>3. CASE i = n
    BY <2>2, <2>3
  <2>4. CASE i # n
    <3>1. i \in 1..n - 1
      BY <2>4, <1>3
    <3>2. f[i] = IF q[i] \in S THEN Append(f[i - 1], q[i]) ELSE f[i - 1]
      BY <3>1, <1>4 DEF Filters
    <3> QED
      BY <2>2, <2>4, <3>2
  <2> QED
    BY <2>3, <2>4
<1>9. Filters(g, n, q, S, T)
  BY <1>6, <1>7, <1>8 DEF Filters
<1> QED
  BY <1>9, <1>1

\* Keeping(q, S) is a sequence of the members of q that are in S; one that comes before
\* another in q comes before it still.
LEMMA KeepingYields ==
  ASSUME NEW T, NEW q \in Seq(T), NEW S
  PROVE  /\ Keeping(q, S) \in Seq(T)
         /\ Range(Keeping(q, S)) = Range(q) \cap S
         /\ \A i \in 1..Len(Keeping(q, S)) : \E m \in 1..Len(q) :
              /\ Keeping(q, S)[i] = q[m]
              /\ \A l \in 1..m - 1 : q[l] \in S => \E j \in 1..i - 1 : Keeping(q, S)[j] = q[l]
<1> DEFINE Def(f) == f = [i \in 0..Len(q) |->
                            IF i = 0 THEN <<>>
                            ELSE IF q[i] \in S THEN Append(f[i - 1], q[i]) ELSE f[i - 1]]
<1> DEFINE k == CHOOSE f : Def(f)
<1>1. Keeping(q, S) = k[Len(q)]
  BY DEF Keeping
<1>2. PICK f : Filters(f, Len(q), q, S, T)
  BY FilterExists
<1>3. Def(f)
  <2>1. DOMAIN f = 0..Len(q) /\ f = [i \in 0..Len(q) |-> f[i]]
    BY <1>2 DEF Filters
  <2>2. \A i \in 0..Len(q) : f[i] = IF i = 0 THEN <<>>
                            ELSE IF q[i] \in S THEN Append(f[i - 1], q[i]) ELSE f[i - 1]
    <3> TAKE i \in 0..Len(q)
    <3>1. i = 0 \/ i \in 1..Len(q)
      OBVIOUS
    <3>2. f[0] = <<>>
      BY <1>2 DEF Filters
    <3>3. i \in 1..Len(q) => i # 0
      OBVIOUS
    <3>4. i \in 1..Len(q) => f[i] = IF q[i] \in S THEN Append(f[i - 1], q[i]) ELSE f[i - 1]
      BY <1>2, Zenon DEF Filters
    <3> QED
      BY <3>1, <3>2, <3>3, <3>4, Zenon
  <2> QED
    BY <2>1, <2>2, Zenon
<1>4. Def(k)
  <2> HIDE DEF Def
  <2> QED
    BY <1>3
<1>9. \A i \in 0..Len(q) : k[i] = IF i = 0 THEN <<>>
                               ELSE IF q[i] \in S THEN Append(k[i - 1], q[i]) ELSE k[i - 1]
  <2> HIDE DEF k
  <2> QED
    BY <1>4, Zenon
<1> HIDE DEF k, Def
<1> DEFINE Good(n) ==
      /\ k[n] \in Seq(T)
      /\ \A x : x \in Range(k[n]) <=> x \in S /\ \E m \in 1..n : x = q[m]
      /\ \A i \in 1..Len(k[n]) : \E m \in 1..n :
           /\ k[n][i] = q[m]
           /\ \A l \in 1..m - 1 : q[l] \in S => \E j \in 1..i - 1 : k[n][j] = q[l]
<1>5. Good(0)
  <2>1. k[0] = <<>>
    <3>1. 0 \in 0..Len(q)
      OBVIOUS
    <3> QED
      BY <1>9, <3>1, Zenon
  <2> QED
    BY <2>1 DEF Range
<1>6. \A n \in 1..Len(q) : Good(n - 1) => Good(n)
  <2> SUFFICES ASSUME NEW n \in 1..Len(q), Good(n - 1) PROVE Good(n)
    OBVIOUS
  <2>1. k[n] = IF q[n] \in S THEN Append(k[n - 1], q[n]) ELSE k[n - 1]
    <3>1. n \in 0..Len(q) /\ n # 0
      OBVIOUS
    <3> HIDE DEF Good
    <3> QED
      BY <1>9, <3>1, Zenon
  <2>2. CASE q[n] \notin S
    <3>1. k[n] = k[n - 1]
      BY <2>1, <2>2
    <3> QED
      BY <3>1, <2>2
  <2>3. CASE q[n] \in S
    <3>1. k[n] = Append(k[n - 1], q[n])
      BY <2>1, <2>3
    <3>2. /\ k[n] \in Seq(T) /\ Len(k[n]) = Len(k[n - 1]) + 1
          /\ \A i \in 1..Len(k[n - 1]) : k[n][i] = k[n - 1][i]
          /\ k[n][Len(k[n - 1]) + 1] = q[n]
      BY <3>1, Appended
    <3>4. Range(k[n]) = Range(k[n - 1]) \cup {q[n]}
      BY <3>1, Appended
    <3>7. Len(k[n - 1]) \in Nat
      OBVIOUS
    <3>5. \A x : x \in Range(k[n]) <=> x \in S /\ \E m \in 1..n : x = q[m]
      BY <3>4, <2>3
    <3>6. \A i \in 1..Len(k[n]) : \E m \in 1..n :
           /\ k[n][i] = q[m]
           /\ \A l \in 1..m - 1 : q[l] \in S => \E j \in 1..i - 1 : k[n][j] = q[l]
      <4> TAKE i \in 1..Len(k[n])
      <4>1. CASE i # Len(k[n])
        <5>1. i \in 1..Len(k[n - 1]) /\ k[n][i] = k[n - 1][i]
          BY <4>1, <3>2, <3>7
        <5>2. PICK m \in 1..n - 1 :
                /\ k[n - 1][i] = q[m]
                /\ \A l \in 1..m - 1 : q[l] \in S => \E j \in 1..i - 1 : k[n - 1][j] = q[l]
          BY <5>1
        <5>3. \A j \in 1..i - 1 : k[n][j] = k[n - 1][j]
          BY <5>1, <3>2, <3>7
        <5>4. m \in 1..n
          OBVIOUS
        <5>5. \A l \in 1..m - 1 : q[l] \in S => \E j \in 1..i - 1 : k[n][j] = q[l]
          <6> HIDE DEF Good
          <6> TAKE l \in 1..m - 1
          <6> HAVE q[l] \in S
          <6>1. PICK j \in 1..i - 1 : k[n - 1][j] = q[l]
            BY <5>2
          <6>2. k[n][j] = q[l]
            BY <5>3, <6>1
          <6> QED
            BY <6>2
        <5>6. k[n][i] = q[m]
          BY <5>1, <5>2
        <5> QED
          BY <5>4, <5>5, <5>6, Zenon
      <4>2. CASE i = Len(k[n])
        <5>1. k[n][i] = q[n]
          BY <4>2, <3>2
        <5>2. \A l \in 1..n - 1 : q[l] \in S => \E j \in 1..i - 1 : k[n][j] = q[l]
          <6> TAKE l \in 1..n - 1
          <6> HAVE q[l] \in S
          <6>1. q[l] \in Range(k[n - 1])
            OBVIOUS
          <6>2. PICK j \in 1..Len(k[n - 1]) : k[n - 1][j] = q[l]
            BY <6>1 DEF Range
          <6>3. j \in 1..i - 1 /\ k[n][j] = q[l]
            BY <6>2, <4>2, <3>2, <3>7
          <6> QED
            BY <6>3
        <5> QED
          BY <5>1, <5>2
      <4> QED
        BY <4>1, <4>2
    <3> QED
      BY <3>2, <3>5, <3>6
  <2> QED
    BY <2>2, <2>3
<1>7. Good(Len(q))
  <2> DEFINE Bad == {n \in 0..Len(q) : ~ Good(n)}
  <2> HIDE DEF Good
  <2> SUFFICES ASSUME Bad # {} PROVE FALSE
    OBVIOUS
  <2>1. PICK n \in Bad : \A m \in Bad : n <= m
    <3>1. Bad \subseteq Nat
      OBVIOUS
    <3> HIDE DEF Bad
    <3> QED
      BY <3>1, LeastExists
  <2>2. n # 0
    BY <1>5
  <2>3. n \in 1..Len(q) /\ n - 1 \in 0..Len(q) /\ n - 1 \notin Bad
    BY <2>1, <2>2
  <2>4. Good(n - 1)
    BY <2>3
  <2> QED
    BY <2>3, <2>4, <1>6, <2>1
<1>8. Range(k[Len(q)]) = Range(q) \cap S
  <2>1. \A x : x \in Range(q) <=> \E m \in 1..Len(q) : x = q[m]
    BY DEF Range
  <2> QED
    BY <1>7, <2>1
<1> QED
  BY <1>1, <1>7, <1>8
-----------------------------------------------------------------------------
(* What the tables, the relay and the broker hold.                         *)

Kinds == {"request", "audit", "overflow", "rotation", "revocation"}
KeySet == [kind : Kinds, n : Requests \cup Audits \cup Nat]
EventSet == [key : KeySet, sig : Nat]
Statuses == {"none", "active", "revoked"}

EnrolShape ==
  /\ enrol \in [Enrolments -> [status : {"none", "issued", "submitted", "approved", "rejected", "expired"},
                               host : Hosts, lapsed : BOOLEAN]]
  /\ nodes \in [Hosts -> Statuses]

ChannelShape ==
  /\ version \in Nat \ {0} /\ pending \in Nat /\ revoking \in BOOLEAN
  /\ inbox \in Seq({"document", "rotation", "revocation"}) /\ delivered \in Nat /\ high \in Nat
  /\ session \in [key : Nat, live : BOOLEAN, delivered : Nat]
  /\ cursor \in Nat /\ hand \in Seq(Nat)

WorkSet ==
  [step : {"none", "verify", "apply", "audit", "finalize", "record"}, events : Seq(EventSet),
   keys : SUBSET KeySet, version : Nat, pending : Nat, status : Statuses]

BrokerSet ==
  [version : Nat \ {0}, staged : Nat, rotated : BOOLEAN, revoked : BOOLEAN, owes : BOOLEAN,
   acknowledged : BOOLEAN, overflow : BOOLEAN]

EventShape ==
  /\ work \in WorkSet /\ outbox \in Seq(EventSet)
  /\ broker \in BrokerSet /\ queue \in Seq(KeySet)
  /\ IsFiniteSet(emitted)

Shaped == EnrolShape /\ ChannelShape /\ EventShape

\* One host has the name, and no host was approved twice.
EnrolInv ==
  /\ nodes[Broker] = "active" => nodes[Other] # "active"
  /\ \A e \in Enrolments : enrol[e].status = "approved" => nodes[enrol[e].host] # "none"
  /\ \A e, f \in Enrolments :
       enrol[e].status = "approved" /\ enrol[f].status = "approved" /\ e # f
         => enrol[e].host # enrol[f].host

\* Keys of events on their way from the broker to the controller.
InTransit == Range(queue) \cup KeysOf(outbox) \cup KeysOf(work.events)

\* What was handed over follows on what was applied.
HandSound ==
  \A i \in 1..Len(hand) :
    /\ hand[i] \in 1..Len(inbox)
    /\ \A t \in 1..hand[i] - 1 : t \in applied \/ \E j \in 1..i - 1 : hand[j] = t

\* Documents are applied in order, and the revocation is the last of them.
DocInv ==
  /\ delivered <= Len(inbox)
  /\ acked \subseteq applied /\ applied \subseteq 1..Len(inbox)
  /\ \A s \in applied : 1..s \subseteq applied
  /\ cursor # 0 => cursor \in applied
  /\ HandSound
  /\ \A s \in 1..Len(inbox) :
       inbox[s] = "revocation" => s = Len(inbox) /\ nodes[Broker] = "revoked"
  /\ broker.revoked => Len(inbox) \in applied /\ nodes[Broker] = "revoked"
  /\ broker.owes \/ RevocationKey \in InTransit => broker.revoked

Rotations(s) == {r \in 1..s : inbox[r] = "rotation"}

\* The broker is at the version in force or at the one that is pending, as many rotations
\* were sent as there are versions, and only rotations the broker made are reported.
KeyInv ==
  /\ pending = 0 \/ pending = version + 1
  /\ \A v \in retired : v \in Nat /\ v < version
  /\ broker.version = version \/ broker.version = pending
  /\ 1 + Cardinality(Rotations(Len(inbox))) = IF pending = 0 THEN version ELSE pending
  /\ \A k \in InTransit : k.kind = "rotation" => k.n \in 1..broker.version

\* What is acknowledged was recorded or discarded.
EventInv ==
  /\ work.keys \cup answer \subseteq recorded \cup discarded
  /\ work.step \notin {"none", "verify"} => work.events # <<>>
  /\ EventsKept

IInv == Shaped /\ EnrolInv /\ DocInv /\ KeyInv /\ EventInv
-----------------------------------------------------------------------------
(* Events.                                                                 *)

LEMMA KeysTyped ==
  /\ RevocationKey \in KeySet /\ RevocationKey.kind = "revocation"
  /\ \A v \in Nat : /\ RotationKey(v) \in KeySet /\ RotationKey(v).kind = "rotation" /\ RotationKey(v).n = v
                    /\ OverflowKey(v) \in KeySet /\ OverflowKey(v).kind = "overflow"
  /\ \A r \in Requests : Key("request", r) \in KeySet /\ Key("request", r).kind = "request"
  /\ \A a \in Audits : Key("audit", a) \in KeySet /\ Key("audit", a).kind = "audit"
BY DEF KeySet, Kinds, RevocationKey, RotationKey, OverflowKey, Key

LEMMA RangeFinite == ASSUME NEW T, NEW q \in Seq(T) PROVE IsFiniteSet(Range(q))
<1>1. q \in [1..Len(q) -> T] /\ DOMAIN q = 1..Len(q) /\ Len(q) \in Nat
  OBVIOUS
<1>2. q \in Surjection(1..Len(q), Range(q))
  BY <1>1 DEF Surjection, Range
<1>3. IsFiniteSet(1..Len(q))
  BY <1>1, FS_Interval
<1> QED
  BY <1>2, <1>3, FS_Surjection

LEMMA Members == ASSUME NEW T, NEW q \in Seq(T) PROVE Range(q) \subseteq T
<1>1. \A i \in DOMAIN q : q[i] \in T
  OBVIOUS
<1> QED
  BY <1>1, Zenon DEF Range

LEMMA EmptyRange == Range(<<>>) = {} /\ KeysOf(<<>>) = {}
<1>1. DOMAIN <<>> = {}
  OBVIOUS
<1> QED
  BY <1>1, Zenon DEF Range, KeysOf

LEMMA HeadTail ==
  ASSUME NEW T, NEW q \in Seq(T), q # <<>>
  PROVE  /\ Head(q) \in T /\ Head(q) \in Range(q) /\ Tail(q) \in Seq(T)
         /\ Range(Tail(q)) \subseteq Range(q)
<1>1. Len(q) \in Nat /\ Len(q) # 0 /\ DOMAIN q = 1..Len(q)
  OBVIOUS
<1>2. Head(q) = q[1] /\ 1 \in 1..Len(q)
  BY <1>1
<1>3. Head(q) \in T /\ Head(q) \in Range(q)
  BY <1>1, <1>2 DEF Range
<1>4. Tail(q) \in Seq(T) /\ DOMAIN Tail(q) = 1..Len(q) - 1
  BY <1>1
<1>5. \A i \in 1..Len(q) - 1 : i + 1 \in 1..Len(q) /\ Tail(q)[i] = q[i + 1]
  BY <1>1
<1>6. Range(Tail(q)) \subseteq Range(q)
  BY <1>1, <1>4, <1>5, Zenon DEF Range
<1> QED
  BY <1>3, <1>4, <1>6

LEMMA KeysTail ==
  ASSUME NEW q \in Seq(EventSet), q # <<>>
  PROVE  /\ Head(q) \in EventSet /\ Head(q).key \in KeysOf(q) /\ Head(q).key \in KeySet
         /\ Tail(q) \in Seq(EventSet) /\ KeysOf(Tail(q)) \subseteq KeysOf(q)
<1>1. /\ Head(q) \in EventSet /\ Head(q) \in Range(q) /\ Tail(q) \in Seq(EventSet)
      /\ Range(Tail(q)) \subseteq Range(q)
  BY HeadTail
<1>2. Head(q).key \in KeySet
  BY <1>1 DEF EventSet
<1> QED
  BY <1>1, <1>2, Zenon DEF KeysOf

LEMMA TransitTyped == ASSUME EventShape PROVE InTransit \subseteq KeySet
<1>1. \A q \in Seq(EventSet) : KeysOf(q) \subseteq KeySet
  <2> TAKE q \in Seq(EventSet)
  <2>1. Range(q) \subseteq EventSet
    BY Members
  <2> QED
    BY <2>1 DEF KeysOf, EventSet
<1>2. work.events \in Seq(EventSet)
  BY DEF EventShape, WorkSet
<1> QED
  BY <1>1, <1>2, Members DEF InTransit, EventShape

\* What the broker may do to its state b and queue q besides applying documents.
Moves(b, q, c, p) ==
  /\ c \in BrokerSet /\ p \in Seq(KeySet)
  /\ c.version = b.version /\ c.revoked = b.revoked /\ (c.owes => b.owes)
  /\ Range(q) \subseteq Range(p)
  /\ \A k \in Range(p) : \/ k \in Range(q) \/ k.kind \notin {"rotation", "revocation"}
                         \/ k = RevocationKey /\ b.owes
                         \/ k = RotationKey(b.version)
  /\ b.overflow => c.overflow \/ \E k \in Range(p) : k.kind = "overflow"

LEMMA MovesOn ==
  ASSUME NEW b, NEW q, NEW c, NEW p, NEW d, NEW r, Moves(b, q, c, p), Moves(c, p, d, r)
  PROVE  Moves(b, q, d, r)
BY DEF Moves

LEMMA RevocationMoves ==
  ASSUME NEW b \in BrokerSet, NEW q \in Seq(KeySet)
  PROVE  Moves(b, q, QueueRevocation(b, q)[1], QueueRevocation(b, q)[2])
<1>1. Append(q, RevocationKey) \in Seq(KeySet) /\ Range(Append(q, RevocationKey)) = Range(q) \cup {RevocationKey}
  BY Appended, KeysTyped
<1>2. [b EXCEPT !.owes = FALSE] \in BrokerSet
  BY DEF BrokerSet
<1>3. CASE ~(b.owes /\ ~b.acknowledged /\ Len(q) < QueueMax)
  <2>1. QueueRevocation(b, q) = <<b, q>>
    BY <1>3, Zenon DEF QueueRevocation
  <2> QED
    BY <2>1 DEF Moves
<1>4. CASE b.owes /\ ~b.acknowledged /\ Len(q) < QueueMax /\ RevocationKey \in Range(q)
  <2>1. QueueRevocation(b, q) = <<[b EXCEPT !.owes = FALSE], q>>
    BY <1>4, Zenon DEF QueueRevocation
  <2> QED
    BY <2>1, <1>2 DEF Moves, BrokerSet
<1>5. CASE b.owes /\ ~b.acknowledged /\ Len(q) < QueueMax /\ RevocationKey \notin Range(q)
  <2>1. QueueRevocation(b, q) = <<[b EXCEPT !.owes = FALSE], Append(q, RevocationKey)>>
    BY <1>5, Zenon DEF QueueRevocation
  <2> QED
    BY <2>1, <1>1, <1>2, <1>5 DEF Moves, BrokerSet
<1> QED
  BY <1>3, <1>4, <1>5

LEMMA OverflowTyped == ASSUME IsFiniteSet(emitted) PROVE NextOverflow \in KeySet /\ NextOverflow.kind = "overflow"
<1>1. IsFiniteSet({k \in emitted : k.kind = "overflow"})
  BY FS_Subset
<1>2. 1 + Cardinality({k \in emitted : k.kind = "overflow"}) \in Nat
  BY <1>1, FS_CardinalityType
<1> QED
  BY <1>2, KeysTyped DEF NextOverflow

LEMMA OverflowMoves ==
  ASSUME NEW b \in BrokerSet, NEW q \in Seq(KeySet), IsFiniteSet(emitted)
  PROVE  Moves(b, q, QueueOverflow(b, q)[1], QueueOverflow(b, q)[2])
<1>1. NextOverflow \in KeySet /\ NextOverflow.kind = "overflow"
  BY OverflowTyped
<1>2. Append(q, NextOverflow) \in Seq(KeySet) /\ Range(Append(q, NextOverflow)) = Range(q) \cup {NextOverflow}
  BY Appended, <1>1
<1>3. [b EXCEPT !.overflow = FALSE] \in BrokerSet
  BY DEF BrokerSet
<1>4. CASE ~(b.overflow /\ Len(q) < QueueMax)
  <2>1. QueueOverflow(b, q) = <<b, q>>
    BY <1>4, Zenon DEF QueueOverflow
  <2> QED
    BY <2>1 DEF Moves
<1>5. CASE b.overflow /\ Len(q) < QueueMax
  <2>1. QueueOverflow(b, q) = <<[b EXCEPT !.overflow = FALSE], Append(q, NextOverflow)>>
    BY <1>5, Zenon DEF QueueOverflow
  <2> QED
    BY <2>1, <1>1, <1>2, <1>3 DEF Moves, BrokerSet
<1> QED
  BY <1>4, <1>5

LEMMA ReplenishedMoves ==
  ASSUME NEW b \in BrokerSet, NEW q \in Seq(KeySet), IsFiniteSet(emitted)
  PROVE  Moves(b, q, Replenished(b, q)[1], Replenished(b, q)[2])
<1> DEFINE over == QueueOverflow(b, q)
<1>1. Moves(b, q, over[1], over[2])
  BY OverflowMoves
<1>2. over[1] \in BrokerSet /\ over[2] \in Seq(KeySet)
  BY <1>1 DEF Moves
<1>3. Replenished(b, q) = QueueRevocation(over[1], over[2])
  BY Zenon DEF Replenished
<1> HIDE DEF over
<1>4. Moves(over[1], over[2], Replenished(b, q)[1], Replenished(b, q)[2])
  BY <1>2, <1>3, RevocationMoves
<1> QED
  BY <1>1, <1>4, MovesOn

LEMMA RotationMoves ==
  ASSUME NEW b \in BrokerSet, NEW q \in Seq(KeySet)
  PROVE  Moves(b, q, b, QueueRotation(b, q))
<1>1. b.version \in Nat
  BY DEF BrokerSet
<1>2. /\ Append(q, RotationKey(b.version)) \in Seq(KeySet)
      /\ Range(Append(q, RotationKey(b.version))) = Range(q) \cup {RotationKey(b.version)}
  BY Appended, KeysTyped, <1>1
<1>3. QueueRotation(b, q) = q \/ QueueRotation(b, q) = Append(q, RotationKey(b.version))
  BY Zenon DEF QueueRotation
<1> QED
  BY <1>2, <1>3 DEF Moves
-----------------------------------------------------------------------------
(* What a step leaves alone.                                               *)

LEMMA DocKept ==
  ASSUME Shaped, DocInv, UNCHANGED <<inbox, delivered, acked, applied, cursor>>,
         hand' = hand \/ hand' = <<>>,
         nodes[Broker] = "revoked" => nodes'[Broker] = "revoked",
         broker'.revoked = broker.revoked, broker'.owes => broker.owes,
         RevocationKey \in InTransit' => RevocationKey \in InTransit \/ broker.owes
  PROVE  DocInv'
<1>1. HandSound'
  <2>1. CASE hand' = hand
    BY <2>1 DEF HandSound, DocInv
  <2>2. CASE hand' = <<>>
    <3>1. Len(<<>>) = 0 /\ \A i \in 1..0 : FALSE
      OBVIOUS
    <3> QED
      BY <2>2, <3>1 DEF HandSound
  <2> QED
    BY <2>1, <2>2
<1> QED
  BY <1>1 DEF DocInv

LEMMA KeyKept ==
  ASSUME Shaped, KeyInv, UNCHANGED <<version, pending, retired, inbox>>,
         broker'.version = broker.version,
         \A k \in InTransit' : k \in InTransit \/ k.kind # "rotation" \/ k = RotationKey(broker.version)
  PROVE  KeyInv'
<1>1. broker.version \in Nat \ {0}
  BY DEF Shaped, EventShape, BrokerSet
<1>2. RotationKey(broker.version).n = broker.version
  BY KeysTyped, <1>1
<1>3. Rotations(Len(inbox))' = Rotations(Len(inbox))
  BY DEF Rotations
<1>4. \A k \in InTransit' : k.kind = "rotation" => k.n \in 1..broker'.version
  BY <1>1, <1>2 DEF KeyInv
<1> QED
  BY <1>3, <1>4 DEF KeyInv

LEMMA SameTransit ==
  ASSUME UNCHANGED <<queue, outbox>>, work'.events = work.events
  PROVE  InTransit' = InTransit
BY DEF InTransit

LEMMA EnrolKept ==
  ASSUME EnrolShape, EnrolInv, UNCHANGED <<enrol, nodes>>
  PROVE  EnrolShape' /\ EnrolInv'
BY DEF EnrolShape, EnrolInv

LEMMA EventKept ==
  ASSUME Shaped, EventInv, UNCHANGED <<recorded, discarded, host>>, UNCHANGED work \/ work' = NoWork,
         UNCHANGED answer \/ answer' = {}
  PROVE  EventInv'
<1>1. /\ work'.keys \subseteq work.keys
      /\ (work'.step = work.step /\ work'.events = work.events) \/ work'.step = "none"
  BY DEF NoWork
<1>2. EventsKept'
  BY DEF EventInv, EventsKept, host
<1> QED
  BY <1>1, <1>2 DEF EventInv

LEMMA NoWorkTyped == NoWork \in WorkSet /\ NoWork.events = <<>>
<1>1. <<>> \in Seq(EventSet) /\ {} \in SUBSET KeySet
  OBVIOUS
<1> QED
  BY <1>1, Zenon DEF NoWork, WorkSet, Statuses

\* Steps that touch neither events nor documents.
LEMMA AsideKeeps ==
  ASSUME IInv, UNCHANGED <<version, pending, retired, inbox, delivered, acked, high, ingest, outbox, host>>,
         EnrolShape', EnrolInv', revoking' \in BOOLEAN,
         session' \in [key : Nat, live : BOOLEAN, delivered : Nat],
         UNCHANGED cursor, hand' = hand \/ hand' = <<>>,
         UNCHANGED answer \/ answer' = {},
         nodes[Broker] = "revoked" => nodes'[Broker] = "revoked"
  PROVE  IInv'
<1>1. Shaped /\ DocInv /\ KeyInv /\ EventInv
  BY DEF IInv
<1>2. InTransit' = InTransit
  BY SameTransit DEF ingest, host
<1>3. hand' \in Seq(Nat)
  <2>1. hand \in Seq(Nat) /\ <<>> \in Seq(Nat)
    BY <1>1 DEF Shaped, ChannelShape
  <2> QED
    BY <2>1
<1>4. ChannelShape'
  BY <1>1, <1>3 DEF Shaped, ChannelShape
<1>5. EventShape'
  BY <1>1 DEF Shaped, EventShape, ingest, host
<1>6. DocInv'
  BY <1>1, <1>2, DocKept DEF host
<1>7. KeyInv'
  BY <1>1, <1>2, KeyKept DEF host
<1>8. EventInv'
  BY <1>1, EventKept DEF ingest
<1> QED
  BY <1>4, <1>5, <1>6, <1>7, <1>8 DEF IInv, Shaped

-----------------------------------------------------------------------------
(* Enrolment, sessions, disturbances.                                      *)

LEMMA EnrolKeeps == ASSUME IInv, NEW e \in Enrolments, Enrol(e) PROVE IInv'
<1> USE DEF Hosts
<1>1. Shaped /\ EnrolShape /\ EnrolInv
  BY DEF IInv, Shaped
<1> DEFINE Rows == [status : {"none", "issued", "submitted", "approved", "rejected", "expired"},
                    host : Hosts, lapsed : BOOLEAN]
<1>2. enrol \in [Enrolments -> Rows] /\ enrol[e] \in Rows
  BY <1>1 DEF EnrolShape
<1>3. /\ UNCHANGED <<version, pending, retired, revoking, channel, ingest, relay, host, faults>>
      /\ EnrolShape' /\ EnrolInv' /\ (nodes[Broker] = "revoked" => nodes'[Broker] = "revoked")
  <2>1. CASE ApproveEnrollment(e)
    <3> DEFINE h == enrol[e].host
    <3>1. /\ h \in Hosts /\ nodes[h] = "none" /\ nodes' = [nodes EXCEPT ![h] = "active"]
          /\ \A g \in Hosts : nodes[g] # "active"
          /\ enrol[e].status = "submitted"
          /\ enrol' = [enrol EXCEPT ![e].status = "approved"]
      BY <2>1, <1>2 DEF ApproveEnrollment, KeysReused, NameHeld, Decidable
    <3>2. EnrolShape'
      BY <3>1, <1>1, <1>2 DEF EnrolShape, Statuses
    <3>3. /\ \A g \in Hosts : nodes'[g] = IF g = h THEN "active" ELSE nodes[g]
          /\ \A f \in Enrolments : /\ enrol'[f].host = enrol[f].host
                                   /\ enrol'[f].status = IF f = e THEN "approved" ELSE enrol[f].status
                                   /\ enrol[f].host \in Hosts
      BY <3>1, <1>1, <1>2 DEF EnrolShape
    <3>4. EnrolInv'
      BY <3>1, <3>3, <1>1, NodeChannelAssumption DEF EnrolInv
    <3>5. nodes[Broker] = "revoked" => nodes'[Broker] = "revoked"
      BY <3>3, <3>1
    <3>6. UNCHANGED <<version, pending, retired, revoking, channel, ingest, relay, host, faults>>
      BY <2>1 DEF ApproveEnrollment
    <3> QED
      BY <3>2, <3>4, <3>5, <3>6
  <2>2. CASE CreateEnrollment(e) \/ RejectEnrollment(e) \/ Lapse(e) \/ \E h \in Hosts : SubmitEnrollment(e, h)
    <3> DEFINE Open ==
          /\ UNCHANGED <<nodes, version, pending, retired, revoking, channel, ingest, relay, host, faults>>
          /\ enrol[e].status # "approved"
          /\ \E r \in Rows : r.status # "approved" /\ enrol' = [enrol EXCEPT ![e] = r]
    <3>1. Open
      <4>1. CASE CreateEnrollment(e)
        <5>1. enrol' = [enrol EXCEPT ![e] = [enrol[e] EXCEPT !.status = "issued"]]
          BY <4>1 DEF CreateEnrollment
        <5> QED
          BY <4>1, <5>1, <1>2 DEF CreateEnrollment
      <4>2. CASE RejectEnrollment(e)
        BY <4>2, <1>2 DEF RejectEnrollment, Over, NoEnrolment, Decidable
      <4>3. CASE Lapse(e)
        <5>1. enrol' = [enrol EXCEPT ![e] = [enrol[e] EXCEPT !.lapsed = TRUE]]
          BY <4>3 DEF Lapse
        <5> QED
          BY <4>3, <5>1, <1>2 DEF Lapse
      <4>4. ASSUME NEW h \in Hosts, SubmitEnrollment(e, h)
            PROVE  Open
        <5>1. enrol' = [enrol EXCEPT ![e] = [enrol[e] EXCEPT !.status = "submitted", !.host = h]]
          BY <4>4, <1>2 DEF SubmitEnrollment, Submitted
        <5> QED
          BY <4>4, <5>1, <1>2 DEF SubmitEnrollment, MaySubmit, Issued
      <4> QED
        BY <2>2, <4>1, <4>2, <4>3, <4>4
    <3>2. PICK r \in Rows : r.status # "approved" /\ enrol' = [enrol EXCEPT ![e] = r]
      BY <3>1
    <3>3. EnrolShape'
      BY <3>1, <3>2, <1>1, <1>2 DEF EnrolShape
    <3>4. \A f \in Enrolments : enrol'[f] = IF f = e THEN r ELSE enrol[f]
      BY <3>2, <1>2
    <3>5. EnrolInv'
      BY <3>1, <3>2, <3>4, <1>1 DEF EnrolInv
    <3> QED
      BY <3>1, <3>3, <3>5
  <2> QED
    BY <2>1, <2>2 DEF Enrol
<1> QED
  BY <1>1, <1>3, AsideKeeps DEF channel, relay, Shaped, ChannelShape

LEMMA FenceKeeps == ASSUME IInv, FenceClock PROVE IInv'
<1> USE DEF Hosts
<1>1. Shaped /\ EnrolShape /\ EnrolInv
  BY DEF IInv, Shaped
<1>2. /\ enrol' = [e \in Enrolments |-> IF enrol[e].status \in {"issued", "submitted"}
                                      THEN Over("expired") ELSE enrol[e]]
      /\ session' = [session EXCEPT !.live = FALSE]
      /\ UNCHANGED <<nodes, version, pending, retired, revoking, inbox, delivered, acked, high,
                     ingest, relay, host>>
  BY DEF FenceClock
<1>3. Over("expired").status = "expired" /\ Over("expired").host = Other /\ Over("expired").lapsed = FALSE
      /\ Over("expired") \in [status : {"none", "issued", "submitted", "approved", "rejected", "expired"},
                               host : Hosts, lapsed : BOOLEAN]
  BY DEF Over, NoEnrolment
<1>4. EnrolShape'
  BY <1>1, <1>2, <1>3 DEF EnrolShape
<1>5. \A e \in Enrolments : enrol'[e].status = "approved" => enrol'[e] = enrol[e]
  BY <1>2, <1>3
<1>6. EnrolInv'
  BY <1>1, <1>2, <1>5 DEF EnrolInv
<1>7. session' \in [key : Nat, live : BOOLEAN, delivered : Nat]
  BY <1>1, <1>2 DEF Shaped, ChannelShape
<1> QED
  BY <1>1, <1>2, <1>4, <1>6, <1>7, AsideKeeps DEF relay, Shaped, ChannelShape

LEMMA SessionKeeps == ASSUME IInv, RequestChallenge \/ CreateSession PROVE IInv'
<1>1. Shaped /\ EnrolShape /\ EnrolInv
  BY DEF IInv, Shaped
<1>2. /\ UNCHANGED <<controller, inbox, delivered, acked, high, ingest, cursor, hand, answer, outbox, host>>
      /\ session' = session \/ session' = NewSession
  BY DEF RequestChallenge, CreateSession, channel
<1>3. session' \in [key : Nat, live : BOOLEAN, delivered : Nat]
  <2>1. session \in [key : Nat, live : BOOLEAN, delivered : Nat]
    BY <1>1 DEF Shaped, ChannelShape
  <2>2. high \in Nat /\ broker.version \in Nat
    BY <1>1 DEF Shaped, ChannelShape, EventShape, BrokerSet
  <2>3. NewSession \in [key : Nat, live : BOOLEAN, delivered : Nat]
    BY <2>2 DEF NewSession
  <2> QED
    BY <1>2, <2>1, <2>3
<1> QED
  BY <1>1, <1>2, <1>3, AsideKeeps, EnrolKept DEF controller, Shaped, ChannelShape

LEMMA InterruptKeeps == ASSUME IInv, Interrupt \/ RestartRelay PROVE IInv'
<1>1. Shaped /\ EnrolShape /\ EnrolInv /\ DocInv /\ KeyInv /\ EventInv
  BY DEF IInv, Shaped
<1>2. /\ UNCHANGED <<controller, channel, recorded, audited, discarded, outbox, host>>
      /\ work' = NoWork /\ hand' = <<>> /\ answer' = {}
      /\ cursor' = cursor \/ cursor' = 0
  BY DEF Interrupt, RestartRelay, Disconnect
<1>3. InTransit' \subseteq InTransit
  BY <1>2, NoWorkTyped, EmptyRange DEF InTransit, host
<1>4. EnrolShape' /\ EnrolInv'
  BY <1>1, <1>2, EnrolKept DEF controller
<1>5. ChannelShape'
  <2>1. <<>> \in Seq(Nat)
    OBVIOUS
  <2> QED
    BY <1>1, <1>2, <2>1 DEF Shaped, ChannelShape, channel, controller
<1>6. EventShape'
  BY <1>1, <1>2, NoWorkTyped DEF Shaped, EventShape, host
<1>7. DocInv'
  <2>1. HandSound'
    <3>1. Len(<<>>) = 0 /\ \A i \in 1..0 : FALSE
      OBVIOUS
    <3> QED
      BY <1>2, <3>1 DEF HandSound
  <2> QED
    BY <1>1, <1>2, <1>3, <2>1 DEF DocInv, controller, channel, host
<1>8. KeyInv'
  BY <1>1, <1>2, <1>3, KeyKept DEF controller, channel, host
<1>9. EventInv'
  BY <1>1, <1>2, EventKept
<1> QED
  BY <1>4, <1>5, <1>6, <1>7, <1>8, <1>9 DEF IInv, Shaped

-----------------------------------------------------------------------------
(* Operators.                                                              *)

LEMMA InboxGrows ==
  ASSUME IInv, NEW kind \in {"document", "rotation", "revocation"}, inbox' = Append(inbox, kind),
         nodes[Broker] = "active", kind = "revocation" => nodes'[Broker] = "revoked",
         UNCHANGED <<delivered, acked, high, session, ingest, relay, host>>
  PROVE  DocInv'
<1>1. Shaped /\ DocInv
  BY DEF IInv
<1>2. /\ Len(inbox) \in Nat /\ Len(inbox') = Len(inbox) + 1
      /\ \A i \in 1..Len(inbox) : i \in 1..Len(inbox') /\ inbox'[i] = inbox[i]
      /\ inbox'[Len(inbox')] = kind
  BY <1>1, Appended DEF Shaped, ChannelShape
<1>3. InTransit' = InTransit
  BY SameTransit DEF ingest, relay, host
<1>4. HandSound'
  <2>1. HandSound /\ UNCHANGED <<hand, applied>>
    BY <1>1 DEF DocInv, relay, host
  <2> QED
    BY <2>1, <1>2 DEF HandSound
<1>5. ~broker.revoked /\ ~broker.owes /\ RevocationKey \notin InTransit
      /\ \A s \in 1..Len(inbox) : inbox[s] # "revocation"
  BY <1>1 DEF DocInv
<1>6. \A s \in 1..Len(inbox') : inbox'[s] = "revocation" => s = Len(inbox') /\ nodes'[Broker] = "revoked"
  <2> TAKE s \in 1..Len(inbox')
  <2>1. s \in 1..Len(inbox) \/ s = Len(inbox')
    BY <1>2
  <2> QED
    BY <2>1, <1>2, <1>5
<1>7. delivered' <= Len(inbox') /\ applied' \subseteq 1..Len(inbox')
  <2>1. delivered \in Nat /\ delivered <= Len(inbox) /\ applied \subseteq 1..Len(inbox)
    BY <1>1 DEF Shaped, ChannelShape, DocInv
  <2> QED
    BY <1>2, <2>1 DEF host
<1> QED
  BY <1>1, <1>3, <1>4, <1>5, <1>6, <1>7 DEF DocInv, relay, host

LEMMA RotationsFinite ==
  ASSUME ChannelShape, NEW s \in Nat
  PROVE  IsFiniteSet(Rotations(s)) /\ Cardinality(Rotations(s)) \in Nat
<1>1. IsFiniteSet(1..s)
  BY FS_Interval
<1>2. IsFiniteSet(Rotations(s))
  BY <1>1, FS_Subset DEF Rotations
<1> QED
  BY <1>2, FS_CardinalityType

LEMMA RotationsGrow ==
  ASSUME ChannelShape, NEW kind \in {"document", "rotation", "revocation"}, inbox' = Append(inbox, kind)
  PROVE  Cardinality(Rotations(Len(inbox))')
           = Cardinality(Rotations(Len(inbox))) + IF kind = "rotation" THEN 1 ELSE 0
<1>1. /\ Len(inbox) \in Nat /\ Len(inbox') = Len(inbox) + 1
      /\ \A i \in 1..Len(inbox) : i \in 1..Len(inbox') /\ inbox'[i] = inbox[i]
      /\ inbox'[Len(inbox) + 1] = kind
  BY Appended DEF ChannelShape
<1>2. \A i \in 1..Len(inbox') : i \in 1..Len(inbox) \/ i = Len(inbox) + 1
  BY <1>1
<1>3. Len(inbox) + 1 \in 1..Len(inbox') /\ Len(inbox) + 1 \notin 1..Len(inbox)
  BY <1>1
<1>4. IsFiniteSet(Rotations(Len(inbox))) /\ Cardinality(Rotations(Len(inbox))) \in Nat
  BY <1>1, RotationsFinite
<1>5. CASE kind = "rotation"
  <2>1. Rotations(Len(inbox))' = Rotations(Len(inbox)) \cup {Len(inbox) + 1}
    BY <1>1, <1>2, <1>3, <1>5 DEF Rotations
  <2>2. Len(inbox) + 1 \notin Rotations(Len(inbox))
    BY <1>3 DEF Rotations
  <2> QED
    BY <2>1, <2>2, <1>4, <1>5, FS_AddElement
<1>6. CASE kind # "rotation"
  <2>1. Rotations(Len(inbox))' = Rotations(Len(inbox))
    BY <1>1, <1>2, <1>6 DEF Rotations
  <2> QED
    BY <2>1, <1>4, <1>6
<1> QED
  BY <1>5, <1>6

\* A document is sent: what remains to be shown of the step is its keys.
LEMMA SendingKeeps ==
  ASSUME IInv, NEW kind \in {"document", "rotation", "revocation"}, inbox' = Append(inbox, kind),
         nodes[Broker] = "active", kind = "revocation" => nodes'[Broker] = "revoked",
         UNCHANGED <<enrol, version, retired, delivered, acked, high, session, ingest, relay, host>>,
         EnrolShape', EnrolInv', revoking' \in BOOLEAN,
         IF kind = "rotation" THEN pending = 0 /\ pending' = version + 1 ELSE pending' = pending
  PROVE  IInv'
<1>1. Shaped /\ EnrolShape /\ ChannelShape /\ KeyInv /\ EventInv
  BY DEF IInv, Shaped
<1>2. DocInv'
  BY InboxGrows
<1>3. InTransit' = InTransit
  BY SameTransit DEF ingest, relay, host
<1>4. version \in Nat /\ pending \in Nat
  BY <1>1 DEF ChannelShape
<1>5. Cardinality(Rotations(Len(inbox))') = Cardinality(Rotations(Len(inbox))) + IF kind = "rotation" THEN 1 ELSE 0
  BY <1>1, RotationsGrow
<1>6. Cardinality(Rotations(Len(inbox))) \in Nat
  <2>1. Len(inbox) \in Nat
    BY <1>1 DEF ChannelShape
  <2> QED
    BY <2>1, <1>1, RotationsFinite
<1>7. KeyInv'
  <2>1. version # 0 /\ broker.version # 0 /\ broker' = broker
    BY <1>1 DEF ChannelShape, Shaped, EventShape, BrokerSet, host
  <2>2. broker.version = version \/ broker.version = pending'
    BY <1>1, <2>1 DEF KeyInv
  <2>3. 1 + Cardinality(Rotations(Len(inbox))') = IF pending' = 0 THEN version' ELSE pending'
    BY <1>1, <1>4, <1>5, <1>6, <2>1 DEF KeyInv
  <2>4. pending' = 0 \/ pending' = version + 1
    BY <1>1 DEF KeyInv
  <2> QED
    BY <1>1, <1>3, <2>1, <2>2, <2>3, <2>4 DEF KeyInv
<1>8. ChannelShape'
  <2>1. inbox' \in Seq({"document", "rotation", "revocation"})
    BY <1>1, Appended DEF ChannelShape
  <2> QED
    BY <1>1, <1>4, <2>1 DEF ChannelShape, relay
<1>9. EventShape'
  BY <1>1 DEF Shaped, EventShape, ingest, relay, host
<1>10. EventInv'
  BY <1>1, EventKept DEF ingest, relay
<1> QED
  BY <1>2, <1>7, <1>8, <1>9, <1>10 DEF IInv, Shaped

LEMMA OperatorKeeps == ASSUME IInv, Operator PROVE IInv'
<1> USE DEF Hosts
<1>1. Shaped /\ EnrolShape /\ EnrolInv /\ ChannelShape /\ DocInv /\ KeyInv /\ EventInv
  BY DEF IInv, Shaped
<1>2. CASE PublishDocument
  BY <1>1, <1>2, SendingKeeps, EnrolKept DEF PublishDocument, Enqueue, controller, ChannelShape
<1>3. CASE PrepareRotation
  <2>1. /\ UNCHANGED <<controller, channel, ingest, relay, queue, emitted, dropped, applied, faults>>
        /\ broker' = [broker EXCEPT !.staged = broker.version + 1]
    BY <1>3 DEF PrepareRotation
  <2>2. broker \in BrokerSet
    BY <1>1 DEF Shaped, EventShape
  <2>3. /\ broker' \in BrokerSet /\ broker'.version = broker.version /\ broker'.revoked = broker.revoked
        /\ broker'.owes = broker.owes /\ broker'.overflow = broker.overflow
    BY <2>1, <2>2 DEF BrokerSet
  <2>4. InTransit' = InTransit
    BY <2>1, SameTransit DEF ingest, relay
  <2>5. Shaped'
    BY <1>1, <2>1, <2>3 DEF Shaped, EnrolShape, ChannelShape, EventShape, controller, channel, ingest, relay
  <2>6. EnrolInv'
    BY <1>1, <2>1, EnrolKept DEF controller
  <2>7. DocInv'
    BY <1>1, <2>1, <2>3, <2>4, DocKept DEF controller, channel, relay
  <2>8. KeyInv'
    BY <1>1, <2>1, <2>3, <2>4, KeyKept DEF controller, channel
  <2>9. EventInv'
    BY <1>1, <2>1, <2>3 DEF EventInv, EventsKept, ingest, relay
  <2> QED
    BY <2>5, <2>6, <2>7, <2>8, <2>9 DEF IInv
<1>4. CASE StageRotation
  BY <1>1, <1>4, SendingKeeps, EnrolKept DEF StageRotation, MayStage, Enqueue, ChannelShape
<1>5. ASSUME NEW h \in Hosts, RevokeNode(h) PROVE IInv'
  <2>1. /\ nodes[h] = "active" /\ nodes' = [nodes EXCEPT ![h] = "revoked"]
        /\ UNCHANGED <<enrol, version, pending, retired, delivered, acked, high, session,
                       ingest, relay, host, faults>>
        /\ IF h = Broker THEN revoking' = TRUE /\ Enqueue("revocation") ELSE UNCHANGED <<revoking, inbox>>
    BY <1>5 DEF RevokeNode, MayRevoke
  <2>2. EnrolShape'
    BY <1>1, <2>1 DEF EnrolShape, Statuses
  <2>3. \A g \in Hosts : nodes'[g] = IF g = h THEN "revoked" ELSE nodes[g]
    BY <1>1, <2>1 DEF EnrolShape
  <2>4. \A e \in Enrolments : enrol[e].host \in Hosts
    BY <1>1 DEF EnrolShape
  <2>5. EnrolInv'
    BY <1>1, <2>1, <2>3, <2>4 DEF EnrolInv
  <2>6. CASE h = Broker
    BY <2>1, <2>2, <2>3, <2>5, <2>6, SendingKeeps DEF Enqueue
  <2>7. CASE h # Broker
    BY <1>1, <2>1, <2>2, <2>3, <2>5, <2>7, AsideKeeps DEF relay, ChannelShape
  <2> QED
    BY <2>6, <2>7
<1> QED
  BY <1>2, <1>3, <1>4, <1>5 DEF Operator

-----------------------------------------------------------------------------
(* Events.                                                                 *)

\* Steps of the relay, the broker and the events route that only move events.
LEMMA EventStep ==
  ASSUME IInv, UNCHANGED <<controller, channel, cursor, applied>>, hand' = hand \/ hand' = <<>>,
         EventShape', EventInv',
         broker'.version = broker.version, broker'.revoked = broker.revoked, broker'.owes => broker.owes,
         \A k \in InTransit' : \/ k \in InTransit \/ k.kind \notin {"rotation", "revocation"}
                               \/ k = RevocationKey /\ broker.owes
                               \/ k = RotationKey(broker.version)
  PROVE  IInv'
<1>1. Shaped /\ EnrolShape /\ EnrolInv /\ ChannelShape /\ DocInv /\ KeyInv
  BY DEF IInv, Shaped
<1>2. broker.version \in Nat
  BY <1>1 DEF Shaped, EventShape, BrokerSet
<1>3. RevocationKey.kind = "revocation" /\ RotationKey(broker.version).kind = "rotation"
  BY <1>2, KeysTyped
<1>4. EnrolShape' /\ EnrolInv'
  BY <1>1, EnrolKept DEF controller
<1>5. hand' \in Seq(Nat)
  <2>1. hand \in Seq(Nat) /\ <<>> \in Seq(Nat)
    BY <1>1 DEF ChannelShape
  <2> QED
    BY <2>1
<1>6. ChannelShape'
  BY <1>1, <1>5 DEF ChannelShape, controller, channel
<1>7. RevocationKey \in InTransit' => RevocationKey \in InTransit \/ broker.owes
  BY <1>3
<1>8. DocInv'
  BY <1>1, <1>7, DocKept DEF controller, channel
<1>9. \A k \in InTransit' : k \in InTransit \/ k.kind # "rotation" \/ k = RotationKey(broker.version)
  BY <1>3
<1>10. KeyInv'
  BY <1>1, <1>9, KeyKept DEF controller, channel
<1> QED
  BY <1>4, <1>6, <1>8, <1>10 DEF IInv, Shaped

LEMMA EmitKeeps == ASSUME IInv, Emit PROVE IInv'
<1>1. Shaped /\ EventShape /\ EventInv /\ EventsKept
  BY DEF IInv, Shaped, EventInv
<1>2. PICK key \in KeySet :
        /\ key.kind \notin {"rotation", "revocation"}
        /\ Queued(key) \/ Overflow(key)
        /\ UNCHANGED <<controller, channel, ingest, relay, applied, faults>>
  BY KeysTyped DEF Emit, EmitRequest, EmitAudit
<1>3. CASE Queued(key)
  <2>1. /\ queue' = Append(queue, key) /\ emitted' = emitted \cup {key} /\ UNCHANGED <<broker, dropped>>
    BY <1>3 DEF Queued
  <2>2. queue' \in Seq(KeySet) /\ Range(queue') = Range(queue) \cup {key}
    BY <1>1, <2>1, Appended DEF EventShape
  <2>3. EventShape'
    <3>1. IsFiniteSet(emitted')
      BY <1>1, <2>1, FS_AddElement DEF EventShape
    <3> QED
      BY <1>1, <1>2, <2>1, <2>2, <3>1 DEF EventShape, ingest, relay
  <2>4. EventInv'
    <3>1. EventsKept'
      BY <1>1, <1>2, <2>1, <2>2 DEF EventsKept, ingest
    <3> QED
      BY <1>1, <1>2, <3>1 DEF EventInv, ingest, relay
  <2>5. \A k \in InTransit' : k \in InTransit \/ k = key
    BY <1>2, <2>2 DEF InTransit, ingest, relay
  <2> QED
    BY <1>2, <2>1, <2>3, <2>4, <2>5, EventStep DEF relay
<1>4. CASE Overflow(key)
  <2>1. /\ broker' = [broker EXCEPT !.overflow = TRUE] /\ UNCHANGED <<queue, emitted>>
    BY <1>4 DEF Overflow
  <2>2. broker \in BrokerSet
    BY <1>1 DEF EventShape
  <2>3. /\ broker' \in BrokerSet /\ broker'.version = broker.version /\ broker'.revoked = broker.revoked
        /\ broker'.owes = broker.owes /\ broker'.overflow
    BY <2>1, <2>2 DEF BrokerSet
  <2>4. EventShape'
    BY <1>1, <1>2, <2>1, <2>3 DEF EventShape, ingest, relay
  <2>5. EventInv'
    <3>1. EventsKept'
      BY <1>1, <1>2, <2>1, <2>3 DEF EventsKept, ingest
    <3> QED
      BY <1>1, <1>2, <3>1 DEF EventInv, ingest, relay
  <2>6. InTransit' = InTransit
    BY <1>2, <2>1, SameTransit DEF ingest, relay
  <2> QED
    BY <1>2, <2>3, <2>4, <2>5, <2>6, EventStep DEF relay
<1> QED
  BY <1>2, <1>3, <1>4

LEMMA SendKeeps == ASSUME IInv, SendEvents PROVE IInv'
<1>1. Shaped /\ EnrolShape /\ ChannelShape /\ EventShape /\ EventInv
  BY DEF IInv, Shaped
<1>2. /\ UNCHANGED <<controller, channel, recorded, audited, discarded, cursor, outbox, host, faults>>
      /\ hand' = hand \/ hand' = <<>>
      /\ answer' = answer \/ answer' = {}
      /\ UNCHANGED work \/ work' = NewWork
  BY DEF SendEvents, Disconnect
<1>3. CASE UNCHANGED work
  <2>1. InTransit' = InTransit
    BY <1>2, <1>3, SameTransit DEF host
  <2>2. EventShape' /\ EventInv'
    BY <1>1, <1>2, <1>3, EventKept DEF EventShape, host
  <2> QED
    BY <1>2, <2>1, <2>2, EventStep DEF host
<1>4. CASE work' = NewWork
  <2>1. version \in Nat /\ pending \in Nat /\ nodes[Broker] \in Statuses
    BY <1>1 DEF ChannelShape, EnrolShape, Hosts
  <2>2. /\ work'.events = outbox /\ work'.keys = {} /\ work'.step = "verify"
    BY <1>4 DEF NewWork
  <2>3. work' \in WorkSet
    BY <1>1, <1>4, <2>1 DEF NewWork, WorkSet, EventShape
  <2>4. EventShape'
    BY <1>1, <1>2, <2>3 DEF EventShape, host
  <2>5. EventInv'
    <3>1. EventsKept'
      BY <1>1, <1>2 DEF EventInv, EventsKept, host
    <3> QED
      BY <1>1, <1>2, <2>2, <3>1 DEF EventInv
  <2>6. InTransit' \subseteq InTransit
    BY <1>2, <2>2 DEF InTransit, host
  <2> QED
    BY <1>2, <2>4, <2>5, <2>6, EventStep DEF host
<1> QED
  BY <1>2, <1>3, <1>4

\* What the batch may become: part of its events is left, and keys are added from those in S.
Advances(w, S) ==
  /\ w \in WorkSet
  /\ KeysOf(w.events) \subseteq KeysOf(work.events)
  /\ w.keys \subseteq work.keys \cup S
  /\ w.step \notin {"none", "verify"} => w.events # <<>>

LEMMA SettledAdvances ==
  ASSUME EventShape, work.events # <<>>
  PROVE  Advances(Settled(work), {Head(work.events).key})
<1>1. work \in WorkSet /\ work.events \in Seq(EventSet)
  BY DEF EventShape, WorkSet
<1>2. /\ Head(work.events).key \in KeySet /\ Tail(work.events) \in Seq(EventSet)
      /\ KeysOf(Tail(work.events)) \subseteq KeysOf(work.events)
  BY <1>1, KeysTail
<1>3. /\ Settled(work).step = "verify" /\ Settled(work).events = Tail(work.events)
      /\ Settled(work).keys = work.keys \cup {Head(work.events).key}
  BY <1>1 DEF Settled, WorkSet
<1>4. Settled(work) \in WorkSet
  BY <1>1, <1>2 DEF Settled, WorkSet
<1> QED
  BY <1>2, <1>3, <1>4 DEF Advances

LEMMA StoppedAdvances ==
  ASSUME EventShape
  PROVE  Advances(Stopped(work), {})
<1>1. work \in WorkSet /\ <<>> \in Seq(EventSet)
  BY DEF EventShape
<1>2. Stopped(work).step = "verify" /\ Stopped(work).events = <<>> /\ Stopped(work).keys = work.keys
  BY <1>1 DEF Stopped, WorkSet
<1>3. Stopped(work) \in WorkSet
  BY <1>1 DEF Stopped, WorkSet
<1> QED
  BY <1>2, <1>3, EmptyRange DEF Advances

LEMMA StepAdvances ==
  ASSUME EventShape, work.events # <<>>, NEW s \in {"apply", "audit", "finalize", "record"}
  PROVE  Advances([work EXCEPT !.step = s], {})
<1>1. work \in WorkSet
  BY DEF EventShape
<1> QED
  BY <1>1 DEF Advances, WorkSet

\* A step of the events route that changes none of the controller's rows about the node.
LEMMA BatchStep ==
  ASSUME IInv, UNCHANGED <<controller, channel, relay, host>>,
         recorded \subseteq recorded', discarded \subseteq discarded',
         NEW S, S \subseteq recorded' \cup discarded', Advances(work', S)
  PROVE  IInv'
<1>1. Shaped /\ EventShape /\ EventInv
  BY DEF IInv, Shaped
<1>2. EventShape'
  BY <1>1 DEF EventShape, Advances, relay, host
<1>3. EventInv'
  <2>1. EventsKept'
    BY <1>1 DEF EventInv, EventsKept, host
  <2> QED
    BY <1>1, <2>1 DEF EventInv, Advances, relay
<1>4. InTransit' \subseteq InTransit
  BY DEF InTransit, Advances, relay, host
<1> QED
  BY <1>2, <1>3, <1>4, EventStep DEF relay, host

LEMMA VerifyKeeps == ASSUME IInv, VerifyEvent PROVE IInv'
<1>1. EventShape
  BY DEF IInv, Shaped
<1> DEFINE event == Head(work.events)
<1> DEFINE verdict == Verdict(event)
<1>2. /\ work.events # <<>> /\ UNCHANGED <<controller, channel, recorded, audited, relay, host, faults>>
      /\ work' = CASE verdict = "stop" -> Stopped(work)
                   [] verdict = "take" -> [work EXCEPT !.step = FirstStep(event.key)]
                   [] OTHER -> Settled(work)
      /\ discarded' = IF verdict = "discard" THEN Rejected(event.key) ELSE discarded
  BY DEF VerifyEvent
<1>3. verdict = "duplicate" => event.key \in recorded
  BY Zenon DEF Verdict
<1>4. verdict \in {"stop", "duplicate", "discard", "take"}
  BY Zenon DEF Verdict
<1>5. FirstStep(event.key) \in {"apply", "finalize", "record"}
  BY Zenon DEF FirstStep
<1>6. discarded' \subseteq discarded \cup {event.key} /\ discarded \subseteq discarded'
      /\ (verdict = "discard" => event.key \in discarded')
  BY <1>2 DEF Rejected
<1> HIDE DEF verdict, event
<1>7. CASE verdict = "stop"
  BY <1>1, <1>2, <1>6, <1>7, StoppedAdvances, BatchStep
<1>8. CASE verdict = "take"
  <2>1. work' = [work EXCEPT !.step = FirstStep(event.key)]
    BY <1>2, <1>8
  <2>2. Advances(work', {})
    BY <1>1, <1>2, <1>5, <2>1, StepAdvances
  <2> QED
    BY <1>2, <1>6, <2>2, BatchStep
<1>9. CASE verdict \in {"duplicate", "discard"}
  <2>1. work' = Settled(work)
    BY <1>2, <1>9
  <2>2. Advances(work', {event.key})
    BY <1>1, <1>2, <2>1, SettledAdvances DEF event
  <2>3. {event.key} \subseteq recorded' \cup discarded'
    BY <1>2, <1>3, <1>6, <1>9
  <2> QED
    BY <1>2, <1>6, <2>2, <2>3, BatchStep
<1> QED
  BY <1>4, <1>7, <1>8, <1>9

LEMMA AuditKeeps == ASSUME IInv, AuditEvent PROVE IInv'
<1>1. EventShape /\ work.step = "audit" /\ work.events # <<>>
  BY DEF IInv, Shaped, EventInv, AuditEvent
<1>2. work' = [work EXCEPT !.step = "finalize"] /\ UNCHANGED <<controller, channel, recorded, discarded, relay, host>>
  BY DEF AuditEvent
<1>3. Advances(work', {})
  BY <1>1, <1>2, StepAdvances
<1> QED
  BY <1>2, <1>3, BatchStep

LEMMA RecordKeeps == ASSUME IInv, RecordEvent PROVE IInv'
<1>1. EventShape /\ work.step = "record" /\ work.events # <<>>
  BY DEF IInv, Shaped, EventInv, RecordEvent
<1>2. /\ work' = Settled(work) /\ recorded' = recorded \cup {Head(work.events).key}
      /\ UNCHANGED <<controller, channel, discarded, relay, host>>
  BY DEF RecordEvent
<1>3. Advances(work', {Head(work.events).key})
  BY <1>1, <1>2, SettledAdvances
<1> QED
  BY <1>2, <1>3, BatchStep

LEMMA AnswerKeeps == ASSUME IInv, AnswerEvents PROVE IInv'
<1>1. Shaped /\ EventShape /\ EventInv
  BY DEF IInv, Shaped
<1>2. /\ UNCHANGED <<controller, channel, recorded, audited, discarded, cursor, outbox, host, faults>>
      /\ work' = NoWork /\ answer' \subseteq work.keys
      /\ hand' = hand \/ hand' = <<>>
  BY DEF AnswerEvents, Disconnect
<1>3. EventShape'
  BY <1>1, <1>2, NoWorkTyped DEF EventShape, host
<1>4. EventInv'
  <2>1. EventsKept'
    BY <1>1, <1>2 DEF EventInv, EventsKept, host
  <2>2. work'.keys = {} /\ work'.step = "none"
    BY <1>2 DEF NoWork
  <2> QED
    BY <1>1, <1>2, <2>1, <2>2 DEF EventInv
<1>5. InTransit' \subseteq InTransit
  BY <1>2, NoWorkTyped, EmptyRange DEF InTransit, host
<1> QED
  BY <1>2, <1>3, <1>4, <1>5, EventStep DEF host

LEMMA TrimKeeps == ASSUME IInv, TrimOutbox PROVE IInv'
<1>1. Shaped /\ EventShape /\ EventInv
  BY DEF IInv, Shaped
<1>2. /\ UNCHANGED <<controller, channel, ingest, cursor, hand, host>> /\ answer' = {}
      /\ outbox' = Keeping(outbox, {event \in Range(outbox) : event.key \notin answer})
  BY DEF TrimOutbox
<1>3. outbox' \in Seq(EventSet) /\ Range(outbox') \subseteq Range(outbox)
  BY <1>1, <1>2, KeepingYields DEF EventShape
<1>4. EventShape'
  BY <1>1, <1>2, <1>3 DEF EventShape, ingest, host
<1>5. EventInv'
  BY <1>1, <1>2, EventKept DEF ingest
<1>6. InTransit' \subseteq InTransit
  BY <1>2, <1>3 DEF InTransit, KeysOf, ingest, host
<1> QED
  BY <1>2, <1>4, <1>5, <1>6, EventStep DEF host

LEMMA Joined ==
  ASSUME NEW T, NEW q \in Seq(T), NEW r \in Seq(T)
  PROVE  q \o r \in Seq(T) /\ Range(q \o r) \subseteq Range(q) \cup Range(r)
<1>1. q \o r \in Seq(T) /\ Len(q \o r) = Len(q) + Len(r) /\ Len(q) \in Nat /\ Len(r) \in Nat
  OBVIOUS
<1>2. DOMAIN q = 1..Len(q) /\ DOMAIN r = 1..Len(r) /\ DOMAIN (q \o r) = 1..Len(q) + Len(r)
  BY <1>1
<1>3. \A i \in 1..Len(q) + Len(r) :
        \/ i \in 1..Len(q) /\ (q \o r)[i] = q[i]
        \/ i - Len(q) \in 1..Len(r) /\ (q \o r)[i] = r[i - Len(q)]
  BY <1>1
<1>4. Range(q \o r) \subseteq Range(q) \cup Range(r)
  BY <1>2, <1>3, Zenon DEF Range
<1> QED
  BY <1>1, <1>4

LEMMA SignedTyped ==
  ASSUME NEW q \in Seq(KeySet), broker.version \in Nat
  PROVE  Signed(q) \in Seq(EventSet) /\ KeysOf(Signed(q)) \subseteq Range(q)
<1>1. Len(q) \in Nat /\ DOMAIN q = 1..Len(q) /\ \A i \in 1..Len(q) : q[i] \in KeySet
  OBVIOUS
<1>2. \A i \in 1..Len(q) : [key |-> q[i], sig |-> broker.version] \in EventSet
  BY <1>1 DEF EventSet
<1>3. Signed(q) \in [1..Len(q) -> EventSet]
  BY <1>2, Zenon DEF Signed
<1>4. Signed(q) \in Seq(EventSet) /\ DOMAIN Signed(q) = 1..Len(q)
  BY <1>1, <1>3
<1>5. \A i \in 1..Len(q) : Signed(q)[i].key = q[i]
  BY DEF Signed
<1>6. KeysOf(Signed(q)) \subseteq Range(q)
  BY <1>1, <1>4, <1>5, Zenon DEF KeysOf, Range
<1> QED
  BY <1>4, <1>6

\* The broker fills up its queue: nothing of EventsKept is lost.
LEMMA MovesKeep ==
  ASSUME EventShape, EventInv, NEW b, NEW q \in Seq(KeySet), Moves(b, q, broker', queue'),
         b.overflow = broker.overflow,
         Range(queue) \subseteq Range(q) \cup answer,
         emitted' = emitted \cup Range(queue'),
         UNCHANGED <<recorded, discarded, dropped>>
  PROVE  EventsKept' /\ IsFiniteSet(emitted') /\ broker' \in BrokerSet /\ queue' \in Seq(KeySet)
<1>1. broker' \in BrokerSet /\ queue' \in Seq(KeySet)
  BY DEF Moves
<1>2. IsFiniteSet(emitted')
  <2>1. IsFiniteSet(Range(queue'))
    BY <1>1, RangeFinite
  <2> QED
    BY <2>1, FS_Union DEF EventShape
<1>3. EventsKept'
  BY DEF EventInv, EventsKept, Moves
<1> QED
  BY <1>1, <1>2, <1>3

LEMMA PullKeeps == ASSUME IInv, PullEvents PROVE IInv'
<1>1. Shaped /\ EventShape /\ EventInv /\ broker \in BrokerSet /\ queue \in Seq(KeySet) /\ IsFiniteSet(emitted)
  BY DEF IInv, Shaped, EventShape
<1>2. broker.version \in Nat
  BY <1>1 DEF BrokerSet
<1> DEFINE refill == Replenished(broker, queue)
<1> DEFINE events == Signed(queue')
<1>3. /\ broker' = refill[1] /\ queue' = QueueRotation(refill[1], refill[2])
      /\ emitted' = emitted \cup Range(queue')
      /\ UNCHANGED <<controller, channel, ingest, cursor, dropped, applied, faults>>
      /\ hand' = hand \/ hand' = <<>>
      /\ answer' = answer \/ answer' = {}
      /\ outbox' = outbox \/ outbox' = Merged(events)
  BY Zenon DEF PullEvents, Disconnect
<1>4. Moves(broker, queue, broker', queue')
  <2>1. Moves(broker, queue, refill[1], refill[2])
    BY <1>1, ReplenishedMoves
  <2>2. refill[1] \in BrokerSet /\ refill[2] \in Seq(KeySet)
    BY <2>1 DEF Moves
  <2> HIDE DEF refill
  <2>3. Moves(refill[1], refill[2], broker', queue')
    BY <1>3, <2>2, RotationMoves
  <2> QED
    BY <2>1, <2>3, MovesOn
<1> HIDE DEF refill
<1>5. EventsKept' /\ IsFiniteSet(emitted') /\ broker' \in BrokerSet /\ queue' \in Seq(KeySet)
  BY <1>1, <1>3, <1>4, MovesKeep DEF ingest
<1>6. events \in Seq(EventSet) /\ KeysOf(events) \subseteq Range(queue')
  BY <1>2, <1>5, SignedTyped
<1>7. outbox' \in Seq(EventSet) /\ Range(outbox') \subseteq Range(outbox) \cup Range(events)
  <2> DEFINE new == Keeping(events, {e \in Range(events) : e.key \notin KeysOf(outbox)})
  <2>1. outbox \in Seq(EventSet)
    BY <1>1 DEF EventShape
  <2> HIDE DEF events
  <2>2. new \in Seq(EventSet) /\ Range(new) \subseteq Range(events)
    BY <1>6, KeepingYields
  <2>3. Merged(events) = outbox \o new
    BY DEF Merged
  <2> HIDE DEF new
  <2>4. Merged(events) \in Seq(EventSet) /\ Range(Merged(events)) \subseteq Range(outbox) \cup Range(new)
    BY <2>1, <2>2, <2>3, Joined
  <2> QED
    BY <1>3, <2>1, <2>2, <2>4
<1> HIDE DEF events
<1>8. EventShape'
  BY <1>1, <1>3, <1>5, <1>7 DEF EventShape, ingest
<1>9. EventInv'
  BY <1>1, <1>3, <1>5 DEF EventInv, ingest
<1>10. KeysOf(outbox') \subseteq KeysOf(outbox) \cup Range(queue')
  BY <1>6, <1>7, Zenon DEF KeysOf
<1>11. \A k \in InTransit' : k \in InTransit \/ k \in Range(queue')
  BY <1>3, <1>10 DEF InTransit, ingest
<1>12. Range(queue) \subseteq InTransit
  BY DEF InTransit
<1>13. \A k \in InTransit' : \/ k \in InTransit \/ k.kind \notin {"rotation", "revocation"}
                             \/ k = RevocationKey /\ broker.owes
                             \/ k = RotationKey(broker.version)
  BY <1>4, <1>11, <1>12, Zenon DEF Moves
<1>14. broker'.version = broker.version /\ broker'.revoked = broker.revoked /\ (broker'.owes => broker.owes)
  BY <1>4 DEF Moves
<1> QED
  BY <1>3, <1>8, <1>9, <1>13, <1>14, EventStep

LEMMA AckKeeps == ASSUME IInv, RelayAck PROVE IInv'
<1>1. Shaped /\ EventShape /\ EventInv /\ broker \in BrokerSet /\ queue \in Seq(KeySet) /\ IsFiniteSet(emitted)
  BY DEF IInv, Shaped, EventShape
<1> DEFINE b == BrokerAcknowledged
<1>2. /\ broker' = Replenished(b, Left)[1] /\ queue' = Replenished(b, Left)[2]
      /\ emitted' = emitted \cup Range(queue')
      /\ UNCHANGED <<controller, channel, ingest, cursor, hand, answer, outbox, dropped, applied, faults>>
  BY Zenon DEF RelayAck
<1>3. /\ b \in BrokerSet /\ b.version = broker.version /\ b.revoked = broker.revoked
      /\ b.owes => broker.owes
      /\ b.overflow = broker.overflow
  BY <1>1 DEF BrokerAcknowledged, BrokerSet
<1>4. Left \in Seq(KeySet) /\ Range(Left) = Range(queue) \cap (Range(queue) \ answer)
  BY <1>1, KeepingYields DEF Left
<1> HIDE DEF b
<1>5. Moves(b, Left, broker', queue')
  BY <1>1, <1>2, <1>3, <1>4, ReplenishedMoves
<1>6. Range(queue) \subseteq Range(Left) \cup answer
  BY <1>4
<1>7. EventsKept' /\ IsFiniteSet(emitted') /\ broker' \in BrokerSet /\ queue' \in Seq(KeySet)
  BY <1>1, <1>2, <1>3, <1>4, <1>5, <1>6, MovesKeep DEF ingest
<1>8. EventShape'
  BY <1>1, <1>2, <1>7 DEF EventShape, ingest
<1>9. EventInv'
  BY <1>1, <1>2, <1>7 DEF EventInv, ingest
<1>10. \A k \in InTransit' : k \in InTransit \/ k \in Range(queue')
  BY <1>2 DEF InTransit, ingest
<1>11. Range(Left) \subseteq InTransit
  BY <1>4 DEF InTransit
<1>12. \A k \in InTransit' : \/ k \in InTransit \/ k.kind \notin {"rotation", "revocation"}
                             \/ k = RevocationKey /\ broker.owes
                             \/ k = RotationKey(broker.version)
  BY <1>3, <1>5, <1>10, <1>11, Zenon DEF Moves
<1>13. broker'.version = broker.version /\ broker'.revoked = broker.revoked /\ (broker'.owes => broker.owes)
  BY <1>3, <1>5 DEF Moves
<1> QED
  BY <1>2, <1>8, <1>9, <1>12, <1>13, EventStep

LEMMA ApplyEventKeeps == ASSUME IInv, ApplyEvent PROVE IInv'
<1>1. Shaped /\ EnrolShape /\ EnrolInv /\ ChannelShape /\ EventShape /\ DocInv /\ KeyInv /\ EventInv
  BY DEF IInv, Shaped
<1>2. work.events # <<>> /\ work.events \in Seq(EventSet)
  BY <1>1 DEF ApplyEvent, EventInv, EventShape, WorkSet
<1> DEFINE key == Head(work.events).key
<1>3. key \in InTransit /\ key \in KeySet
  BY <1>2, KeysTail DEF InTransit
<1>4. /\ IF Applies(key) THEN work' = [work EXCEPT !.step = "audit"] /\ UNCHANGED discarded
        ELSE work' = Settled(work) /\ discarded' = Rejected(key)
      /\ IF Completes(key) THEN CompleteRotation(key.n) ELSE UNCHANGED <<version, pending, retired, session>>
      /\ UNCHANGED <<enrol, nodes, revoking, inbox, delivered, acked, high, recorded, audited, relay, host, faults>>
  BY DEF ApplyEvent
<1>5. \E S : Advances(work', S) /\ S \subseteq recorded' \cup discarded' /\ discarded \subseteq discarded'
  <2>1. CASE Applies(key)
    <3>1. Advances(work', {})
      BY <1>1, <1>2, <1>4, <2>1, StepAdvances
    <3> QED
      BY <1>4, <2>1, <3>1
  <2>2. CASE ~Applies(key)
    <3>1. Advances(work', {key})
      BY <1>1, <1>2, <1>4, <2>2, SettledAdvances
    <3> QED
      BY <1>4, <2>2, <3>1 DEF Rejected
  <2> QED
    BY <2>1, <2>2
<1>6. PICK S : Advances(work', S) /\ S \subseteq recorded' \cup discarded' /\ discarded \subseteq discarded'
  BY <1>5
<1> HIDE DEF key
<1>7. CASE ~Completes(key)
  BY <1>4, <1>6, <1>7, BatchStep DEF controller, channel
<1>8. CASE Completes(key)
  <2>1. /\ key.kind = "rotation" /\ pending = key.n /\ version' = key.n /\ pending' = 0
        /\ retired' = retired \cup {version} /\ session' = [session EXCEPT !.live = FALSE]
    BY <1>4, <1>8 DEF Completes, CompleteRotation
  <2>2. version \in Nat /\ pending \in Nat /\ broker.version \in Nat \ {0}
    BY <1>1 DEF ChannelShape, EventShape, BrokerSet
  <2>3. pending \in 1..broker.version
    BY <1>1, <1>3, <2>1 DEF KeyInv
  <2>4. pending = version + 1 /\ broker.version = pending
    BY <1>1, <2>2, <2>3 DEF KeyInv
  <2>5. InTransit' \subseteq InTransit
    BY <1>4, <1>6 DEF InTransit, Advances, relay, host
  <2>6. EnrolShape' /\ EnrolInv'
    BY <1>1, <1>4, EnrolKept
  <2>7. ChannelShape'
    <3>1. session' \in [key : Nat, live : BOOLEAN, delivered : Nat]
      BY <1>1, <2>1 DEF ChannelShape
    <3> QED
      BY <1>1, <1>4, <2>1, <2>2, <2>4, <3>1 DEF ChannelShape, relay
  <2>8. EventShape'
    BY <1>1, <1>4, <1>6 DEF EventShape, Advances, relay, host
  <2>9. DocInv'
    BY <1>1, <1>4, <2>5, DocKept DEF relay, host
  <2>10. KeyInv'
    <3>1. Rotations(Len(inbox))' = Rotations(Len(inbox)) /\ broker' = broker
      BY <1>4 DEF Rotations, host
    <3>2. 1 + Cardinality(Rotations(Len(inbox))') = version'
      BY <1>1, <2>1, <2>3, <3>1 DEF KeyInv
    <3>3. \A v \in retired' : v \in Nat /\ v < version'
      BY <1>1, <2>1, <2>2, <2>4 DEF KeyInv
    <3> QED
      BY <1>1, <2>1, <2>4, <2>5, <3>1, <3>2, <3>3 DEF KeyInv
  <2>11. EventInv'
    <3>1. EventsKept'
      BY <1>1, <1>4, <1>6 DEF EventInv, EventsKept, host
    <3> QED
      BY <1>1, <1>4, <1>6, <3>1 DEF EventInv, Advances, relay
  <2> QED
    BY <2>6, <2>7, <2>8, <2>9, <2>10, <2>11 DEF IInv, Shaped
<1> QED
  BY <1>7, <1>8

LEMMA FinalizeKeeps == ASSUME IInv, FinalizeEvent PROVE IInv'
<1>1. Shaped /\ EnrolShape /\ EnrolInv /\ ChannelShape /\ EventShape /\ DocInv /\ KeyInv /\ EventInv
  BY DEF IInv, Shaped
<1>2. work.events # <<>> /\ work.events \in Seq(EventSet)
  BY <1>1 DEF FinalizeEvent, EventInv, EventShape, WorkSet
<1>3. /\ work' = [work EXCEPT !.step = "record"]
      /\ UNCHANGED <<enrol, nodes, version, pending, retired, inbox, delivered, high,
                     recorded, audited, discarded, relay, host, faults>>
  BY DEF FinalizeEvent
<1>4. Advances(work', {})
  BY <1>1, <1>2, <1>3, StepAdvances
<1>5. CASE ~(Head(work.events).key = RevocationKey /\ revoking)
  <2>1. UNCHANGED <<revoking, session, acked>>
    BY <1>5 DEF FinalizeEvent
  <2> QED
    BY <1>3, <1>4, <2>1, BatchStep DEF controller, channel
<1>6. CASE Head(work.events).key = RevocationKey /\ revoking
  <2>1. revoking' = FALSE /\ session' = [session EXCEPT !.live = FALSE] /\ acked' = acked \cup 1..delivered
    BY <1>6 DEF FinalizeEvent
  <2>2. RevocationKey \in InTransit
    BY <1>2, <1>6, KeysTail DEF InTransit
  <2>3. 1..Len(inbox) \subseteq applied
    BY <1>1, <2>2 DEF DocInv
  <2>4. acked' \subseteq applied
    <3>1. delivered <= Len(inbox) /\ delivered \in Nat /\ Len(inbox) \in Nat /\ acked \subseteq applied
      BY <1>1 DEF DocInv, ChannelShape
    <3> QED
      BY <2>1, <2>3, <3>1
  <2>5. InTransit' \subseteq InTransit
    BY <1>3, <1>4 DEF InTransit, Advances, relay, host
  <2>6. EnrolShape' /\ EnrolInv'
    BY <1>1, <1>3, EnrolKept
  <2>7. ChannelShape'
    <3>1. session' \in [key : Nat, live : BOOLEAN, delivered : Nat]
      BY <1>1, <2>1 DEF ChannelShape
    <3> QED
      BY <1>1, <1>3, <2>1, <3>1 DEF ChannelShape, relay
  <2>8. EventShape'
    BY <1>1, <1>3, <1>4 DEF EventShape, Advances, relay, host
  <2>9. DocInv'
    <3>1. HandSound'
      BY <1>1, <1>3 DEF DocInv, HandSound, relay, host
    <3> QED
      BY <1>1, <1>3, <2>4, <2>5, <3>1 DEF DocInv, relay, host
  <2>10. KeyInv'
    BY <1>1, <1>3, <2>5, KeyKept DEF host
  <2>11. EventInv'
    <3>1. EventsKept'
      BY <1>1, <1>3 DEF EventInv, EventsKept, host
    <3> QED
      BY <1>1, <1>3, <1>4, <3>1 DEF EventInv, Advances, relay
  <2> QED
    BY <2>6, <2>7, <2>8, <2>9, <2>10, <2>11 DEF IInv, Shaped
<1> QED
  BY <1>5, <1>6

-----------------------------------------------------------------------------
(* Documents.                                                              *)

\* A poll hands over the first documents that are not acknowledged, without a gap.
LEMMA OutstandingSound ==
  ASSUME ChannelShape, NEW done
  PROVE  /\ Outstanding(done) \in Seq(1..Len(inbox))
         /\ \A i \in 1..Len(Outstanding(done)) : \A t \in 1..Outstanding(done)[i] - 1 :
              t \in done \/ \E j \in 1..i - 1 : Outstanding(done)[j] = t
<1> DEFINE all == [s \in 1..Len(inbox) |-> s]
<1> DEFINE S == 1..Len(inbox) \ done
<1> DEFINE due == Keeping(all, S)
<1> DEFINE rows == SubSeq(due, 1, Lesser(Batch, Len(due)))
<1>1. Len(inbox) \in Nat /\ Batch \in Nat
  BY NodeChannelAssumption DEF ChannelShape
<1>2. all \in Seq(1..Len(inbox)) /\ Len(all) = Len(inbox)
  <2>1. all \in [1..Len(inbox) -> 1..Len(inbox)]
    OBVIOUS
  <2> QED
    BY <1>1, <2>1
<1>3. \A m \in 1..Len(inbox) : all[m] = m
  OBVIOUS
<1>4. Outstanding(done) = rows
  BY Zenon DEF Outstanding
<1> HIDE DEF all
<1>5. /\ due \in Seq(1..Len(inbox))
      /\ \A i \in 1..Len(due) : \E m \in 1..Len(all) :
              /\ due[i] = all[m]
              /\ \A l \in 1..m - 1 : all[l] \in S => \E j \in 1..i - 1 : due[j] = all[l]
  <2> DEFINE T == 1..Len(inbox)
  <2>1. all \in Seq(T)
    BY <1>2
  <2> HIDE DEF S, T
  <2>2. /\ Keeping(all, S) \in Seq(T)
        /\ Range(Keeping(all, S)) = Range(all) \cap S
        /\ \A i \in 1..Len(Keeping(all, S)) : \E m \in 1..Len(all) :
              /\ Keeping(all, S)[i] = all[m]
              /\ \A l \in 1..m - 1 : all[l] \in S => \E j \in 1..i - 1 : Keeping(all, S)[j] = all[l]
    BY <2>1, KeepingYields
  <2> QED
    BY <2>2 DEF T
<1>6. \A i \in 1..Len(due) : \A t \in 1..due[i] - 1 : t \in done \/ \E j \in 1..i - 1 : due[j] = t
  <2> SUFFICES ASSUME NEW i \in 1..Len(due), NEW t \in 1..due[i] - 1, t \notin done
               PROVE  \E j \in 1..i - 1 : due[j] = t
    OBVIOUS
  <2>1. PICK m \in 1..Len(inbox) :
              /\ due[i] = all[m]
              /\ \A l \in 1..m - 1 : all[l] \in S => \E j \in 1..i - 1 : due[j] = all[l]
    BY <1>2, <1>5
  <2> HIDE DEF due
  <2>2. due[i] = m /\ t \in 1..m - 1 /\ t \in 1..Len(inbox)
    BY <1>1, <1>3, <2>1
  <2>3. all[t] = t /\ t \in S
    BY <1>3, <2>2
  <2> QED
    BY <2>1, <2>2, <2>3
<1> HIDE DEF due
<1>7. Lesser(Batch, Len(due)) \in 0..Len(due) /\ Len(due) \in Nat
  BY <1>1, <1>5 DEF Lesser
<1>8. /\ rows \in Seq(1..Len(inbox)) /\ Len(rows) = Lesser(Batch, Len(due))
      /\ \A i \in 1..Lesser(Batch, Len(due)) : rows[i] = due[i]
  BY <1>5, <1>7
<1> HIDE DEF rows
<1>9. \A i \in 1..Len(rows) : rows[i] = due[i] /\ i \in 1..Len(due) /\ \A j \in 1..i - 1 : rows[j] = due[j]
  BY <1>7, <1>8
<1>10. \A i \in 1..Len(rows) : \A t \in 1..rows[i] - 1 : t \in done \/ \E j \in 1..i - 1 : rows[j] = t
  <2> SUFFICES ASSUME NEW i \in 1..Len(rows), NEW t \in 1..rows[i] - 1, t \notin done
               PROVE  \E j \in 1..i - 1 : rows[j] = t
    OBVIOUS
  <2>1. i \in 1..Len(due) /\ t \in 1..due[i] - 1
    BY <1>9
  <2>2. PICK j \in 1..i - 1 : due[j] = t
    BY <1>6, <2>1
  <2> QED
    BY <1>9, <2>2
<1> QED
  BY <1>4, <1>8, <1>10

LEMMA PollKeeps == ASSUME IInv, Poll PROVE IInv'
<1>1. Shaped /\ EnrolShape /\ EnrolInv /\ ChannelShape /\ EventShape /\ DocInv /\ KeyInv /\ EventInv
  BY DEF IInv, Shaped
<1>2. UNCHANGED <<controller, inbox, ingest, cursor, outbox, host, faults>>
  BY DEF Poll
<1>3. CASE ~Authenticated
  <2>1. hand' = <<>> /\ answer' = {} /\ UNCHANGED <<acked, delivered, session, high>>
    BY <1>3 DEF Poll, Disconnect
  <2> QED
    BY <1>1, <1>2, <2>1, AsideKeeps, EnrolKept DEF controller, ChannelShape
<1>4. CASE Authenticated
  <2> DEFINE done == Acknowledge(cursor)
  <2> DEFINE rows == Outstanding(done)
  <2> DEFINE top == IF rows = <<>> THEN 0 ELSE rows[Len(rows)]
  <2>1. /\ acked' = done /\ delivered' = Greater(delivered, top)
        /\ session' = [session EXCEPT !.delivered = Greater(session.delivered, top)]
        /\ high' = Greater(high, top) /\ hand' = rows /\ UNCHANGED answer
    BY <1>4 DEF Poll, Handed
  <2>2. done \subseteq applied
    <3> SUFFICES ASSUME NEW s \in done, s \notin acked PROVE s \in applied
      BY <1>1 DEF DocInv
    <3>1. s \in 1..delivered /\ s <= Lesser(cursor, session.delivered)
      BY DEF Acknowledge
    <3>2. cursor \in Nat /\ session.delivered \in Nat /\ delivered \in Nat
      BY <1>1 DEF ChannelShape
    <3> HIDE DEF done
    <3>3. s \in 1..cursor /\ cursor # 0
      BY <3>1, <3>2 DEF Lesser
    <3> QED
      BY <1>1, <3>3 DEF DocInv
  <2> HIDE DEF done
  <2>3. /\ rows \in Seq(1..Len(inbox))
        /\ \A i \in 1..Len(rows) : \A t \in 1..rows[i] - 1 : t \in done \/ \E j \in 1..i - 1 : rows[j] = t
    BY <1>1, OutstandingSound
  <2> HIDE DEF rows
  <2>4. Len(inbox) \in Nat /\ top \in 0..Len(inbox)
    BY <1>1, <2>3 DEF ChannelShape
  <2> HIDE DEF top
  <2>5. \A i \in 1..Len(rows) : rows[i] \in 1..Len(inbox)
    BY <2>3
  <2>6. HandSound'
    BY <1>2, <2>1, <2>2, <2>3, <2>5, Zenon DEF HandSound, host
  <2>7. rows \in Seq(Nat)
    BY <2>3, <2>4
  <2>8. /\ delivered' \in Nat /\ delivered' <= Len(inbox) /\ high' \in Nat
        /\ session' \in [key : Nat, live : BOOLEAN, delivered : Nat]
    <3>1. delivered \in Nat /\ high \in Nat /\ session.delivered \in Nat /\ delivered <= Len(inbox)
      BY <1>1 DEF ChannelShape, DocInv
    <3>2. Greater(session.delivered, top) \in Nat
      BY <2>4, <3>1 DEF Greater
    <3>3. session' \in [key : Nat, live : BOOLEAN, delivered : Nat]
      BY <1>1, <2>1, <3>2 DEF ChannelShape
    <3>4. Greater(delivered, top) \in Nat /\ Greater(delivered, top) <= Len(inbox) /\ Greater(high, top) \in Nat
      BY <2>4, <3>1 DEF Greater
    <3> QED
      BY <2>1, <3>3, <3>4
  <2>9. EnrolShape' /\ EnrolInv'
    BY <1>1, <1>2, EnrolKept DEF controller
  <2>10. ChannelShape'
    BY <1>1, <1>2, <2>1, <2>7, <2>8 DEF ChannelShape, controller
  <2>11. EventShape'
    BY <1>1, <1>2 DEF EventShape, ingest, host
  <2>12. InTransit' = InTransit
    BY <1>2, SameTransit DEF ingest, host
  <2>13. DocInv'
    BY <1>1, <1>2, <2>1, <2>2, <2>6, <2>8, <2>12 DEF DocInv, controller, host
  <2>14. KeyInv'
    BY <1>1, <1>2, <2>12, KeyKept DEF controller, host
  <2>15. EventInv'
    BY <1>1, <1>2, <2>1, EventKept DEF ingest
  <2> QED
    BY <2>9, <2>10, <2>11, <2>13, <2>14, <2>15 DEF IInv, Shaped
<1> QED
  BY <1>3, <1>4

\* A rotation document the broker accepts names its version or the one that is pending.
LEMMA RotationNames ==
  ASSUME IInv, NEW s \in 1..Len(inbox), RotationApplies(RotationTo(s))
  PROVE  /\ Rotated(RotationTo(s)) \in BrokerSet
         /\ Rotated(RotationTo(s)).version \in {broker.version, pending}
         /\ broker.version <= Rotated(RotationTo(s)).version
         /\ Rotated(RotationTo(s)).version # 0
         /\ Rotated(RotationTo(s)).revoked = broker.revoked
         /\ Rotated(RotationTo(s)).owes = broker.owes
         /\ Rotated(RotationTo(s)).overflow = broker.overflow
<1>1. ChannelShape /\ KeyInv /\ broker \in BrokerSet
  BY DEF IInv, Shaped, EventShape
<1>2. /\ Len(inbox) \in Nat /\ s \in Nat /\ version \in Nat /\ pending \in Nat
      /\ broker.version \in Nat \ {0}
  BY <1>1 DEF ChannelShape, BrokerSet
<1> DEFINE to == RotationTo(s)
<1>3. to = 1 + Cardinality(Rotations(s))
  BY DEF RotationTo, Rotations
<1>4. Cardinality(Rotations(s)) \in Nat /\ Cardinality(Rotations(s)) <= Cardinality(Rotations(Len(inbox)))
  <2>1. Rotations(s) \subseteq Rotations(Len(inbox))
    BY <1>2 DEF Rotations
  <2> QED
    BY <1>1, <1>2, <2>1, RotationsFinite, FS_Subset
<1>5. IsFiniteSet(Rotations(Len(inbox))) /\ Cardinality(Rotations(Len(inbox))) \in Nat
  BY <1>1, <1>2, RotationsFinite
<1>6. to \in Nat /\ to <= IF pending = 0 THEN version ELSE pending
  BY <1>1, <1>3, <1>4, <1>5 DEF KeyInv
<1>7. broker.version = to \/ broker.version + 1 = to
  BY DEF RotationApplies
<1> HIDE DEF to
<1>8. broker.version # to => to = pending
  BY <1>1, <1>2, <1>6, <1>7 DEF KeyInv
<1>9. CASE broker.version = to
  <2>1. Rotated(to) = broker
    BY <1>9 DEF Rotated
  <2> QED
    BY <1>1, <1>2, <2>1 DEF to
<1>10. CASE broker.version # to
  <2>1. Rotated(to) = [broker EXCEPT !.version = to, !.staged = 0, !.rotated = TRUE]
    BY <1>10 DEF Rotated
  <2>2. to \in Nat \ {0} /\ broker.version <= to
    BY <1>2, <1>6, <1>7, <1>10
  <2>3. /\ Rotated(to) \in BrokerSet /\ Rotated(to).version = to /\ Rotated(to).revoked = broker.revoked
        /\ Rotated(to).owes = broker.owes /\ Rotated(to).overflow = broker.overflow
    <3> DEFINE b == [broker EXCEPT !.version = to]
    <3> DEFINE c == [b EXCEPT !.staged = 0]
    <3>1. b \in BrokerSet /\ b.version = to /\ b.revoked = broker.revoked /\ b.owes = broker.owes /\ b.overflow = broker.overflow
      BY <1>1, <2>2 DEF BrokerSet
    <3> HIDE DEF b
    <3>2. c \in BrokerSet /\ c.version = to /\ c.revoked = broker.revoked /\ c.owes = broker.owes /\ c.overflow = broker.overflow
      BY <3>1 DEF BrokerSet
    <3>3. Rotated(to) = [c EXCEPT !.rotated = TRUE]
      BY <2>1 DEF b
    <3> HIDE DEF c
    <3> QED
      BY <3>2, <3>3 DEF BrokerSet
  <2> QED
    BY <1>8, <1>10, <2>2, <2>3 DEF to
<1> QED
  BY <1>9, <1>10

\* What applying document s does to the broker.
Took(s) ==
  /\ broker' \in BrokerSet /\ queue' \in Seq(KeySet)
  /\ broker'.version \in {broker.version, pending} /\ broker.version <= broker'.version
  /\ broker'.revoked <=> broker.revoked \/ inbox[s] = "revocation"
  /\ broker'.owes => broker'.revoked
  /\ \A k \in Range(queue') : k \in Range(queue) \/ k.kind # "rotation" \/ k = RotationKey(broker.version)
  /\ RevocationKey \in Range(queue') => RevocationKey \in Range(queue) \/ broker'.revoked
  /\ EventsKept' /\ IsFiniteSet(emitted')

LEMMA DocumentTaken ==
  ASSUME IInv, NEW s \in 1..Len(inbox), Accepted(s),
         broker' = BrokerAfter(s)[1], queue' = BrokerAfter(s)[2],
         emitted' = emitted \cup Range(queue'), UNCHANGED <<recorded, discarded, dropped>>
  PROVE  Took(s)
<1>1. /\ EventShape /\ EventInv /\ DocInv /\ broker \in BrokerSet /\ queue \in Seq(KeySet)
      /\ IsFiniteSet(emitted) /\ emitted \subseteq Range(queue) \cup recorded \cup discarded
  BY DEF IInv, Shaped, EventShape, EventInv, EventsKept
<1>2. broker.version \in Nat \ {0} /\ (broker.owes => broker.revoked)
  BY <1>1 DEF BrokerSet, DocInv
<1>3. CASE inbox[s] # "revocation"
  <2>1. queue' = queue /\ (broker' = broker \/ (inbox[s] = "rotation" /\ broker' = Rotated(RotationTo(s))))
    BY <1>3, Zenon DEF BrokerAfter
  <2>2. /\ broker' \in BrokerSet /\ broker'.version \in {broker.version, pending}
        /\ broker.version <= broker'.version /\ broker'.revoked = broker.revoked
        /\ broker'.owes = broker.owes /\ broker'.overflow = broker.overflow
    <3>1. CASE broker' = broker
      BY <1>1, <1>2, <3>1
    <3>2. CASE inbox[s] = "rotation" /\ broker' = Rotated(RotationTo(s))
      BY <3>2, RotationNames DEF Accepted
    <3> QED
      BY <2>1, <3>1, <3>2
  <2>3. IsFiniteSet(emitted')
    BY <1>1, <2>1, RangeFinite, FS_Union
  <2>4. EventsKept'
    BY <1>1, <2>1, <2>2 DEF EventInv, EventsKept
  <2> QED
    BY <1>1, <1>2, <1>3, <2>1, <2>2, <2>3, <2>4 DEF Took
<1>4. CASE inbox[s] = "revocation"
  <2> DEFINE b == [broker EXCEPT !.revoked = TRUE, !.owes = ~broker.acknowledged]
  <2>1. /\ b \in BrokerSet /\ b.version = broker.version /\ b.revoked /\ b.overflow = broker.overflow
    BY <1>1 DEF BrokerSet
  <2>2. broker' = QueueRevocation(b, queue)[1] /\ queue' = QueueRevocation(b, queue)[2]
    BY <1>4, Zenon DEF BrokerAfter, Revoked
  <2> HIDE DEF b
  <2>3. Moves(b, queue, broker', queue')
    BY <1>1, <2>1, <2>2, RevocationMoves
  <2>4. EventsKept' /\ IsFiniteSet(emitted') /\ broker' \in BrokerSet /\ queue' \in Seq(KeySet)
    BY <1>1, <2>1, <2>3, MovesKeep
  <2>5. broker'.version = broker.version /\ broker'.revoked
    BY <2>1, <2>3 DEF Moves
  <2>6. \A k \in Range(queue') : k \in Range(queue) \/ k.kind # "rotation" \/ k = RotationKey(broker.version)
    BY <2>1, <2>3, KeysTyped DEF Moves
  <2> QED
    BY <1>2, <1>4, <2>4, <2>5, <2>6 DEF Took
<1> QED
  BY <1>3, <1>4

LEMMA DocumentKeeps == ASSUME IInv, ApplyDocument PROVE IInv'
<1>1. Shaped /\ EnrolShape /\ EnrolInv /\ ChannelShape /\ EventShape /\ DocInv /\ KeyInv /\ EventInv
  BY DEF IInv, Shaped
<1> DEFINE s == Head(hand)
<1>2. hand # <<>> /\ UNCHANGED <<controller, channel, ingest, outbox, dropped, faults>>
  BY DEF ApplyDocument
<1>3. /\ hand \in Seq(Nat) /\ Len(hand) \in Nat /\ Len(hand) # 0 /\ s = hand[1] /\ 1 \in 1..Len(hand)
      /\ Len(inbox) \in Nat /\ cursor \in Nat
  BY <1>1, <1>2 DEF ChannelShape
<1>4. s \in 1..Len(inbox) /\ \A t \in 1..s - 1 : t \in applied
  BY <1>1, <1>3 DEF DocInv, HandSound
<1>5. CASE ~(InOrder(s) /\ Accepted(s))
  <2>1. /\ UNCHANGED <<broker, queue, emitted, applied>> /\ hand' = <<>> /\ answer' = {}
        /\ cursor' = cursor \/ cursor' = 0
    BY <1>5 DEF ApplyDocument, Disconnect
  <2>2. InTransit' = InTransit
    BY <1>2, <2>1, SameTransit DEF ingest
  <2>3. EnrolShape' /\ EnrolInv'
    BY <1>1, <1>2, EnrolKept DEF controller
  <2>4. ChannelShape'
    <3>1. <<>> \in Seq(Nat)
      OBVIOUS
    <3> QED
      BY <1>1, <1>2, <2>1, <3>1 DEF ChannelShape, controller, channel
  <2>5. EventShape'
    BY <1>1, <1>2, <2>1 DEF EventShape, ingest
  <2>6. DocInv'
    <3>1. HandSound'
      <4>1. Len(<<>>) = 0 /\ \A i \in 1..0 : FALSE
        OBVIOUS
      <4> QED
        BY <2>1, <4>1 DEF HandSound
    <3> QED
      BY <1>1, <1>2, <2>1, <2>2, <3>1 DEF DocInv, controller, channel
  <2>7. KeyInv'
    BY <1>1, <1>2, <2>1, <2>2, KeyKept DEF controller, channel
  <2>8. EventInv'
    BY <1>1, <1>2, <2>1, EventKept DEF ingest, host
  <2> QED
    BY <2>3, <2>4, <2>5, <2>6, <2>7, <2>8 DEF IInv, Shaped
<1>6. CASE InOrder(s) /\ Accepted(s)
  <2>1. /\ broker' = BrokerAfter(s)[1] /\ queue' = BrokerAfter(s)[2]
        /\ emitted' = emitted \cup Range(queue')
        /\ cursor' = s /\ applied' = applied \cup {s}
        /\ hand' = <<>> \/ hand' = Tail(hand)
        /\ answer' = answer \/ answer' = {}
    BY <1>6 DEF ApplyDocument, Disconnect
  <2>2. Took(s)
    BY <1>2, <1>4, <1>6, <2>1, DocumentTaken DEF ingest
  <2> HIDE DEF s
  <2>3. hand' \in Seq(Nat) /\ HandSound'
    <3>1. CASE hand' = <<>>
      <4>1. Len(<<>>) = 0 /\ <<>> \in Seq(Nat) /\ \A i \in 1..0 : FALSE
        OBVIOUS
      <4> QED
        BY <3>1, <4>1 DEF HandSound
    <3>2. CASE hand' = Tail(hand)
      <4>1. hand' \in Seq(Nat) /\ Len(hand') = Len(hand) - 1
            /\ \A i \in 1..Len(hand) - 1 : i + 1 \in 1..Len(hand) /\ hand'[i] = hand[i + 1]
        BY <1>3, <3>2
      <4>2. ASSUME NEW i \in 1..Len(hand'), NEW t \in 1..hand'[i] - 1, t \notin applied'
            PROVE  \E j \in 1..i - 1 : hand'[j] = t
        <5>1. i \in 1..Len(hand) - 1 /\ i + 1 \in 1..Len(hand) /\ hand'[i] = hand[i + 1]
          BY <4>1
        <5>2. PICK j \in 1..i + 1 - 1 : hand[j] = t
          BY <1>1, <2>1, <4>2, <5>1 DEF DocInv, HandSound
        <5>3. j # 1
          BY <1>3, <2>1, <4>2, <5>2
        <5>4. j - 1 \in 1..i - 1 /\ j - 1 \in 1..Len(hand) - 1 /\ (j - 1) + 1 = j
          BY <1>3, <5>1, <5>3
        <5>5. hand'[j - 1] = t
          BY <4>1, <5>2, <5>4
        <5> QED
          BY <5>4, <5>5
      <4>3. \A i \in 1..Len(hand') : hand'[i] \in 1..Len(inbox)
        BY <1>1, <4>1 DEF DocInv, HandSound
      <4> QED
        BY <1>2, <4>1, <4>2, <4>3 DEF HandSound, channel
    <3> QED
      BY <2>1, <3>1, <3>2
  <2>4. EnrolShape' /\ EnrolInv'
    BY <1>1, <1>2, EnrolKept DEF controller
  <2>5. ChannelShape'
    BY <1>1, <1>2, <1>4, <2>1, <2>3 DEF ChannelShape, controller, channel
  <2>6. EventShape'
    BY <1>1, <1>2, <2>2 DEF EventShape, Took, ingest
  <2>7. \A k \in InTransit' : k \in InTransit \/ k \in Range(queue')
    BY <1>2 DEF InTransit, ingest
  <2>8. Range(queue) \subseteq InTransit
    BY DEF InTransit
  <2>9. DocInv'
    <3>1. applied' \subseteq 1..Len(inbox) /\ \A u \in applied' : 1..u \subseteq applied'
      BY <1>1, <1>4, <2>1 DEF DocInv
    <3>2. /\ \A u \in 1..Len(inbox) : inbox[u] = "revocation" => u = Len(inbox) /\ nodes[Broker] = "revoked"
          /\ broker.revoked => Len(inbox) \in applied /\ nodes[Broker] = "revoked"
          /\ broker.owes \/ RevocationKey \in InTransit => broker.revoked
          /\ delivered <= Len(inbox) /\ acked \subseteq applied
      BY <1>1 DEF DocInv
    <3>3. broker'.revoked => Len(inbox) \in applied' /\ nodes[Broker] = "revoked"
      BY <1>4, <2>1, <2>2, <3>2 DEF Took
    <3>4. broker'.owes \/ RevocationKey \in InTransit' => broker'.revoked
      BY <2>2, <2>7, <2>8, <3>2 DEF Took
    <3>5. acked' \subseteq applied' /\ cursor' \in applied' /\ UNCHANGED <<inbox, nodes, delivered>>
      BY <1>2, <2>1, <3>2 DEF controller, channel
    <3> QED
      BY <2>3, <3>1, <3>2, <3>3, <3>4, <3>5 DEF DocInv
  <2>10. KeyInv'
    <3>1. UNCHANGED <<version, pending, retired, inbox>>
      BY <1>2 DEF controller, channel
    <3>2. Rotations(Len(inbox))' = Rotations(Len(inbox))
      BY <3>1 DEF Rotations
    <3>3. broker.version \in Nat \ {0} /\ broker'.version \in Nat
      BY <1>1, <2>2 DEF EventShape, BrokerSet, Took
    <3>4. RotationKey(broker.version).n = broker.version
      BY <3>3, KeysTyped
    <3>5. \A k \in InTransit' : k.kind = "rotation" => k.n \in 1..broker.version
      BY <1>1, <2>2, <2>7, <2>8, <3>3, <3>4 DEF KeyInv, Took
    <3>6. \A k \in InTransit' : k.kind = "rotation" => k.n \in 1..broker'.version
      BY <2>2, <3>3, <3>5 DEF Took
    <3>7. broker'.version = version \/ broker'.version = pending
      BY <1>1, <2>2 DEF KeyInv, Took
    <3> QED
      BY <1>1, <3>1, <3>2, <3>6, <3>7 DEF KeyInv
  <2>11. EventInv'
    BY <1>1, <1>2, <2>1, <2>2 DEF EventInv, Took, ingest
  <2> QED
    BY <2>4, <2>5, <2>6, <2>9, <2>10, <2>11 DEF IInv, Shaped
<1> QED
  BY <1>5, <1>6

-----------------------------------------------------------------------------
(* The invariant, and what follows from it.                                *)

LEMMA InitKeeps == ASSUME Init PROVE IInv
<1> USE DEF Init
<1>1. EnrolShape
  BY DEF EnrolShape, NoEnrolment, Hosts, Statuses
<1>2. ChannelShape
  <2>1. <<>> \in Seq(Nat) /\ <<>> \in Seq({"document", "rotation", "revocation"})
    OBVIOUS
  <2>2. NoSession \in [key : Nat, live : BOOLEAN, delivered : Nat]
    BY DEF NoSession
  <2>3. 0 \in Nat /\ 1 \in Nat \ {0} /\ FALSE \in BOOLEAN
    OBVIOUS
  <2> QED
    BY <2>1, <2>2, <2>3, Zenon DEF ChannelShape
<1>3. EventShape
  <2>1. <<>> \in Seq(EventSet) /\ <<>> \in Seq(KeySet)
    OBVIOUS
  <2>2. IsFiniteSet({})
    BY FS_EmptySet
  <2> QED
    BY <2>1, <2>2, NoWorkTyped DEF EventShape, BrokerSet
<1>4. EnrolInv
  BY DEF EnrolInv, NoEnrolment, Hosts
<1>5. InTransit = {}
  BY EmptyRange, NoWorkTyped DEF InTransit
<1>6. Len(<<>>) = 0 /\ \A i \in 1..0 : FALSE
  OBVIOUS
<1>7. DocInv
  <2>1. HandSound
    BY <1>6 DEF HandSound
  <2> QED
    BY <1>5, <1>6, <2>1 DEF DocInv
<1>8. KeyInv
  <2>1. Rotations(Len(inbox)) = {}
    BY <1>6 DEF Rotations
  <2>2. Cardinality(Rotations(Len(inbox))) = 0
    BY <2>1, FS_EmptySet
  <2> QED
    BY <1>5, <2>2 DEF KeyInv
<1>9. EventInv
  BY DEF EventInv, EventsKept, NoWork
<1> QED
  BY <1>1, <1>2, <1>3, <1>4, <1>7, <1>8, <1>9 DEF IInv, Shaped

LEMMA NextKeeps == ASSUME IInv, [Next]_vars PROVE IInv'
<1>1. CASE Next
  <2>1. CASE \E e \in Enrolments : Enrol(e)
    BY <2>1, EnrolKeeps
  <2>2. CASE Operator
    BY <2>2, OperatorKeeps
  <2>3. CASE Emit
    BY <2>3, EmitKeeps
  <2>4. CASE Round
    BY <2>4, SessionKeeps, PollKeeps, DocumentKeeps, PullKeeps, SendKeeps, VerifyKeeps, ApplyEventKeeps,
       AuditKeeps, FinalizeKeeps, RecordKeeps, AnswerKeeps, AckKeeps, TrimKeeps DEF Round
  <2>5. CASE Interrupt \/ RestartRelay
    BY <2>5, InterruptKeeps
  <2>6. CASE FenceClock
    BY <2>6, FenceKeeps
  <2> QED
    BY <1>1, <2>1, <2>2, <2>3, <2>4, <2>5, <2>6 DEF Next
<1>2. CASE UNCHANGED vars
  <2>1. UNCHANGED <<controller, channel, ingest, relay, host>>
    BY <1>2 DEF vars
  <2>2. EnrolShape /\ EnrolInv /\ Shaped /\ ChannelShape
    BY DEF IInv, Shaped
  <2> QED
    BY <2>1, <2>2, AsideKeeps, EnrolKept DEF controller, channel, relay, ChannelShape
<1> QED
  BY <1>1, <1>2

LEMMA Invariance == Spec => []IInv
<1>1. Init => IInv
  BY InitKeeps
<1>2. IInv /\ [Next]_vars => IInv'
  BY NextKeeps
<1> QED
  BY <1>1, <1>2, PTL DEF Spec

\* However many enrolment requests are open for a name, and whichever lapse or are fenced, approval
\* (insert_approved_node) leaves one active node with the name and enrols no key pair twice.
THEOREM EnrolmentsHold == Spec => []EnrolledOnce
<1>1. ASSUME IInv PROVE EnrolledOnce
  <2> DEFINE Active == {h \in Hosts : nodes[h] = "active"}
  <2>1. EnrolInv
    BY <1>1 DEF IInv
  <2>2. \E h : Active \subseteq {h}
    BY <2>1 DEF EnrolInv, Hosts
  <2> HIDE DEF Active
  <2>3. PICK h : Active \subseteq {h}
    BY <2>2
  <2>4. IsFiniteSet({h}) /\ Cardinality({h}) = 1
    BY FS_Singleton
  <2>5. IsFiniteSet(Active) /\ Cardinality(Active) <= Cardinality({h})
    BY <2>3, <2>4, FS_Subset
  <2>6. Cardinality(Active) <= 1
    BY <2>4, <2>5
  <2> QED
    BY <2>1, <2>6 DEF EnrolledOnce, EnrolInv, Active
<1> QED
  BY <1>1, Invariance, PTL

\* With any batch size, any number of documents and any sequence of sessions, lost answers and
\* restarts of the relay, poll_node_inbox and finalize_node_revocation mark only documents the broker
\* applied, and the broker applies documents without a gap (check_inbox_sequence).
THEOREM AcksHold == Spec => []AckedIsApplied
<1>1. ASSUME IInv PROVE AckedIsApplied
  BY <1>1 DEF IInv, DocInv, AckedIsApplied
<1> QED
  BY <1>1, Invariance, PTL

\* With any size of queue, an event leaves the broker's queue (acknowledge_node_events) only after
\* node_events recorded or discarded it, and what a full queue refused is reported by an overflow event.
THEOREM EventsHold == Spec => []EventsKept
<1>1. ASSUME IInv PROVE EventsKept
  BY <1>1 DEF IInv, EventInv
<1> QED
  BY <1>1, Invariance, PTL

\* Through any number of rotations, however each is interrupted, the broker of an active node has a key
\* that node_session accepts: the current one or the pending one (complete_node_key_rotation retires a
\* key only after the broker has reported the next).
THEOREM KeysHold == Spec => []KeysAgree
<1>1. ASSUME IInv PROVE KeysAgree
  <2>1. ChannelShape /\ KeyInv
    BY <1>1 DEF IInv, Shaped
  <2>2. version \in Nat /\ broker.version # 0
    BY <1>1, <2>1 DEF ChannelShape, IInv, Shaped, EventShape, BrokerSet
  <2>3. broker.version >= version /\ broker.version \in {version, pending}
    BY <2>1, <2>2 DEF KeyInv, ChannelShape
  <2>4. broker.version \notin retired
    BY <2>1, <2>2, <2>3 DEF KeyInv
  <2> QED
    BY <2>3, <2>4 DEF KeysAgree, KeyInForce
<1> QED
  BY <1>1, Invariance, PTL
=============================================================================
