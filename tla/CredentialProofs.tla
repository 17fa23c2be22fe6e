-------------------------- MODULE CredentialProofs --------------------------
(***************************************************************************)
(* Proofs about the two ways a credential reaches a broker.  Provisioning: *)
(* for every number of grants, operators, destinations and plaintexts,     *)
(* every lifetime and any disturbances.  Fulfillment, further down: for    *)
(* every set of fulfillments and documents.                                *)
(***************************************************************************)
EXTENDS Provisioning, TLAPS

-----------------------------------------------------------------------------
(* What the tables, the queues and the broker's book hold.                 *)

Offers == [id : Nat, grant : Grants, version : Nat, dest : Dests, expires : Nat]
Ciphers == [offer : Nat, value : Values \cup {"garbled"}]
GrantRows == [status : {"none", "unused", "issued", "closed"}, expires : Nat,
              decision : {"allow", "pending_approval"}]
Recorded == [offer : Offers, binding : Nat]
Receipts == [by : Operators, cipher : Ciphers, offer : Nat]
GrantDocs == [kind : {"grant"}, grant : Grants]
DeliveryDocs == [kind : {"delivery"}, grant : Grants, offer : Offers, cipher : Ciphers]
Docs == GrantDocs \cup DeliveryDocs
Sources == [grant : Grants, offer : Offers, cipher : Ciphers, dest : Dests]
EntryFields == {"offer", "attempted", "key", "accepted"}

IsEntry(e) == DOMAIN e = EntryFields /\ e.offer \in Offers /\ e.attempted \in BOOLEAN

CallShape(k) == k # None => /\ k.grant \in Grants
                            /\ k.kind = "submit" => k.cipher \in Ciphers

ControllerShape ==
  /\ now \in Nat
  /\ grant \in [Grants -> GrantRows]
  /\ binding \in [version : Nat, dest : Dests, by : Operators \cup {"nobody"}]
  /\ authors \in Seq(Operators)
  /\ offers \in [Grants -> Recorded \cup {None}]
  /\ receipt \in [Grants -> Receipts \cup {None}]
  /\ inbox \in Seq(Docs)

ClientShape ==
  /\ DOMAIN call = Operators /\ \A o \in Operators : CallShape(call[o])
  /\ form \in [Operators -> Nat]
  /\ outbox \in [Grants -> Offers \cup {None}]

BrokerShape ==
  /\ broker \in [version : Nat, dest : Dests]
  /\ lease \in [Grants -> {"none", "waiting", "live", "ended"}]
  /\ DOMAIN book = Grants /\ \A g \in Grants : book[g] = None \/ IsEntry(book[g])
  /\ minted \in Seq(Offers)
  /\ stored \in Seq(Sources)

Shaped == ControllerShape /\ ClientShape /\ BrokerShape

\* None is told from every row by its field.
LEMMA RowsAreNotNone ==
  /\ \A r \in Offers : r # None
  /\ \A r \in Recorded : r # None
  /\ \A r \in Receipts : r # None
  /\ \A e : IsEntry(e) => e # None
<1>1. DOMAIN None = {"none"}
  BY DEF None
<1>2. \A r \in Offers : "id" \in DOMAIN r
  BY DEF Offers
<1>3. \A r \in Recorded : "offer" \in DOMAIN r
  BY DEF Recorded
<1>4. \A r \in Receipts : "by" \in DOMAIN r
  BY DEF Receipts
<1>5. \A e : IsEntry(e) => "offer" \in DOMAIN e
  BY DEF IsEntry, EntryFields
<1> QED
  BY <1>1, <1>2, <1>3, <1>4, <1>5

LEMMA Appended ==
  ASSUME NEW S, NEW q \in Seq(S), NEW e \in S
  PROVE  /\ Append(q, e) \in Seq(S) /\ Len(Append(q, e)) = Len(q) + 1 /\ Len(q) \in Nat
         /\ DOMAIN q = 1 .. Len(q) /\ DOMAIN Append(q, e) = 1 .. (Len(q) + 1)
         /\ Append(q, e)[Len(q) + 1] = e /\ \A i \in DOMAIN q : Append(q, e)[i] = q[i]
OBVIOUS

LEMMA Members == ASSUME NEW S, NEW q \in Seq(S) PROVE \A i \in DOMAIN q : q[i] \in S
OBVIOUS

LEMMA HistoryGrants ==
  ASSUME Shaped
  PROVE  /\ \A i \in DOMAIN minted : minted[i] \in Offers /\ minted[i].grant \in Grants
         /\ \A i \in DOMAIN stored : stored[i] \in Sources /\ stored[i].grant \in Grants
<1>1. minted \in Seq(Offers) /\ stored \in Seq(Sources)
  BY DEF Shaped, BrokerShape
<1>2. (\A i \in DOMAIN minted : minted[i] \in Offers) /\ \A i \in DOMAIN stored : stored[i] \in Sources
  BY <1>1, Members
<1>3. (\A r \in Offers : r.grant \in Grants) /\ \A r \in Sources : r.grant \in Grants
  BY DEF Offers, Sources
<1> QED
  BY <1>2, <1>3

LEMMA InitShaped == Init => Shaped
<1> SUFFICES ASSUME Init PROVE Shaped
  OBVIOUS
<1>1. Dests # {} /\ (CHOOSE d \in Dests : TRUE) \in Dests
  BY DEF Init
<1>2. ControllerShape
  BY <1>1 DEF Init, ControllerShape, GrantRows
<1>3. ClientShape
  BY DEF Init, ClientShape, CallShape
<1>4. BrokerShape
  BY DEF Init, BrokerShape
<1> QED
  BY <1>2, <1>3, <1>4 DEF Shaped
-----------------------------------------------------------------------------
(* The broker's side: one offer and one Source for a grant.  What stands   *)
(* between a second offer and the grant is the entry of the book, or the   *)
(* end of the original process or of the grant, and those are final.       *)

Begun(g) == grant[g].status \in {"issued", "closed"} /\ lease[g] \in {"live", "ended"}
Over(g) == lease[g] = "ended" \/ grant[g].expires <= now

LeaseInv == \A g \in Grants : lease[g] # "none" => grant[g].status \in {"issued", "closed"}

MintInv ==
  /\ \A i \in DOMAIN minted : Begun(minted[i].grant) /\ (book[minted[i].grant] = None => Over(minted[i].grant))
  /\ \A i, j \in DOMAIN minted : minted[i].grant = minted[j].grant => i = j

SpentOrOver(g) == Over(g) \/ (book[g] # None /\ book[g].attempted)

StoreInv ==
  /\ \A i \in DOMAIN stored : Begun(stored[i].grant) /\ SpentOrOver(stored[i].grant)
  /\ \A i, j \in DOMAIN stored : stored[i].grant = stored[j].grant => i = j

BrokerInv == LeaseInv /\ MintInv /\ StoreInv

\* Nothing that ended begins again, and an entry goes only with its grant.
Forward(g) ==
  /\ Begun(g) => Begun(g)'
  /\ Over(g) => Over(g)'
  /\ book[g] # None => book'[g] # None \/ Over(g)'
  /\ book[g] # None /\ book[g].attempted => (book'[g] # None /\ book'[g].attempted) \/ Over(g)'
  /\ lease'[g] # "none" => grant'[g].status \in {"issued", "closed"}

LEMMA BrokerKept ==
  ASSUME Shaped, BrokerInv, \A g \in Grants : Forward(g), UNCHANGED <<minted, stored>>
  PROVE  BrokerInv'
<1>1. \A i \in DOMAIN minted : minted[i].grant \in Grants
  BY HistoryGrants
<1>2. \A i \in DOMAIN stored : stored[i].grant \in Grants
  BY HistoryGrants
<1>3. LeaseInv'
  BY DEF Forward, LeaseInv
<1>4. MintInv'
  <2>1. ASSUME NEW i \in DOMAIN minted, NEW g \in Grants, g = minted[i].grant
        PROVE  Begun(g)' /\ (book'[g] = None => Over(g)')
    BY <2>1 DEF BrokerInv, MintInv, Forward
  <2> QED
    BY <1>1, <2>1 DEF BrokerInv, MintInv
<1>5. StoreInv'
  <2>1. ASSUME NEW i \in DOMAIN stored, NEW g \in Grants, g = stored[i].grant
        PROVE  Begun(g)' /\ SpentOrOver(g)'
    BY <2>1 DEF BrokerInv, StoreInv, Forward, SpentOrOver
  <2> QED
    BY <1>2, <2>1 DEF BrokerInv, StoreInv
<1> QED
  BY <1>3, <1>4, <1>5 DEF BrokerInv

LEMMA SameForward ==
  ASSUME BrokerInv, UNCHANGED <<lease, book>>, Shaped, now' \in Nat, now <= now',
         \A g \in Grants : /\ grant'[g].expires = grant[g].expires
                           /\ grant[g].status \in {"issued", "closed"} => grant'[g].status \in {"issued", "closed"}
  PROVE  \A g \in Grants : Forward(g)
<1>1. \A g \in Grants : grant[g].expires \in Nat /\ now \in Nat
  BY DEF Shaped, ControllerShape, GrantRows
<1> QED
  BY <1>1 DEF Forward, Begun, Over, BrokerInv, LeaseInv

\* Everything outside the broker leaves its memory, the grants and the clock alone.
LEMMA QuietBroker ==
  ASSUME Shaped, BrokerInv, UNCHANGED <<now, grant, lease, book, minted, stored>>
  PROVE  BrokerInv'
<1>1. now' \in Nat /\ now <= now'
  BY DEF Shaped, ControllerShape
<1> QED
  BY <1>1, SameForward, BrokerKept

LEMMA EntryTyped ==
  ASSUME Shaped, NEW g \in Grants, book[g] # None
  PROVE  IsEntry(book[g])
BY DEF Shaped, BrokerShape

\* BrowserOfferBook::purge forgets only what its grant has ended for.
LEMMA PurgeKeeps ==
  ASSUME Shaped
  PROVE  /\ DOMAIN Purged(book) = Grants
         /\ \A g \in Grants : \/ Purged(book)[g] = book[g]
                              \/ Purged(book)[g] = None /\ grant[g].expires <= now
         /\ \A g \in Grants : now < grant[g].expires => Purged(book)[g] = book[g]
<1>1. \A g \in Grants : grant[g].expires \in Nat /\ now \in Nat
  BY DEF Shaped, ControllerShape, GrantRows
<1> QED
  BY <1>1 DEF Purged

LEMMA MarkedEntry ==
  ASSUME NEW e, IsEntry(e), NEW f, f = [e EXCEPT !.attempted = TRUE, !.key = "gone"]
  PROVE  IsEntry(f) /\ f.attempted /\ f.offer = e.offer /\ f # None
<1>1. IsEntry(f) /\ f.attempted /\ f.offer = e.offer
  BY DEF IsEntry, EntryFields
<1> QED
  BY <1>1, RowsAreNotNone

LEMMA SpentEntry ==
  ASSUME NEW e, IsEntry(e), NEW a, NEW f,
         f = [e EXCEPT !.attempted = TRUE, !.key = "gone", !.accepted = a]
  PROVE  IsEntry(f) /\ f.attempted /\ f.offer = e.offer /\ f # None
<1>1. IsEntry(f) /\ f.attempted /\ f.offer = e.offer
  BY DEF IsEntry, EntryFields
<1> QED
  BY <1>1, RowsAreNotNone

LEMMA MaintainBroker ==
  ASSUME Shaped, BrokerInv, Maintain
  PROVE  BrokerInv' /\ DOMAIN book' = Grants /\ \A g \in Grants : book'[g] = None \/ IsEntry(book'[g])
<1>1. PICK b : b = Purged(book)
  OBVIOUS
<1>2. /\ DOMAIN b = Grants
      /\ \A g \in Grants : b[g] = book[g] \/ (b[g] = None /\ grant[g].expires <= now)
  BY <1>1, PurgeKeeps
<1>3. book' = [g \in Grants |-> IF b[g] # None /\ ~Candidate(g)
                                THEN [b[g] EXCEPT !.attempted = TRUE, !.key = "gone"] ELSE b[g]]
  BY <1>1 DEF Maintain
<1>4. UNCHANGED <<now, grant, lease, minted, stored>>
  BY DEF Maintain, controller
<1>5. ASSUME NEW g \in Grants
      PROVE  /\ book'[g] = None \/ IsEntry(book'[g])
             /\ book[g] # None => book'[g] # None \/ grant[g].expires <= now
             /\ book[g] # None /\ book[g].attempted => (book'[g] # None /\ book'[g].attempted) \/ grant[g].expires <= now
  <2>1. book[g] = None \/ IsEntry(book[g])
    BY EntryTyped
  <2>2. CASE b[g] = None
    <3>1. book'[g] = None
      BY <1>3, <2>2
    <3> QED
      BY <1>2, <2>2, <3>1
  <2>3. CASE b[g] # None
    <3>1. b[g] = book[g] /\ IsEntry(b[g])
      BY <1>2, <2>1, <2>3
    <3>2. CASE Candidate(g)
      BY <1>3, <3>1, <3>2
    <3>3. CASE ~Candidate(g)
      <4>1. book'[g] = [b[g] EXCEPT !.attempted = TRUE, !.key = "gone"]
        BY <1>3, <2>3, <3>3
      <4>2. IsEntry(book'[g]) /\ book'[g].attempted /\ book'[g] # None
        BY <3>1, <4>1, MarkedEntry
      <4> QED
        BY <4>2
    <3> QED
      BY <3>2, <3>3
  <2> QED
    BY <2>2, <2>3
<1>6. \A g \in Grants : Forward(g)
  BY <1>4, <1>5 DEF Forward, Begun, Over, BrokerInv, LeaseInv
<1> QED
  BY <1>3, <1>4, <1>5, <1>6, BrokerKept

\* A step that mints an offer for g: there was none, and there is an entry now.
LEMMA OfferMinted ==
  ASSUME Shaped, BrokerInv, NEW g \in Grants, NEW o \in Offers, o.grant = g, Candidate(g), book[g] = None,
         UNCHANGED <<now, grant, lease, stored>>, minted' = Append(minted, o),
         book'[g] # None,
         \A h \in Grants \ {g} : book'[h] = book[h] \/ (book'[h] = None /\ grant[h].expires <= now)
  PROVE  BrokerInv'
<1>0. \A h \in Grants : grant[h].expires \in Nat /\ now \in Nat
  BY DEF Shaped, ControllerShape, GrantRows
<1>1. lease[g] = "live" /\ ~Over(g) /\ grant[g].status \in {"issued", "closed"}
  BY <1>0 DEF Candidate, Over, BrokerInv, LeaseInv
<1>2. \A i \in DOMAIN minted : minted[i].grant # g
  BY <1>1 DEF BrokerInv, MintInv
<1>3. \A i \in DOMAIN stored : stored[i].grant # g
  BY <1>1 DEF BrokerInv, StoreInv, SpentOrOver
<1>4. \A h \in Grants \ {g} : Forward(h)
  BY DEF Forward, Begun, Over, BrokerInv, LeaseInv
<1>5. LeaseInv'
  BY DEF BrokerInv, LeaseInv
<1>6. StoreInv'
  <2>1. ASSUME NEW i \in DOMAIN stored, NEW h \in Grants \ {g}, h = stored[i].grant
        PROVE  Begun(h)' /\ SpentOrOver(h)'
    BY <1>4, <2>1 DEF BrokerInv, StoreInv, Forward, SpentOrOver
  <2>2. \A i \in DOMAIN stored : stored[i].grant \in Grants \ {g}
    BY <1>3, HistoryGrants
  <2> QED
    BY <2>1, <2>2 DEF BrokerInv, StoreInv
<1>7. MintInv'
  <2>1. /\ DOMAIN minted = 1 .. Len(minted) /\ DOMAIN minted' = 1 .. (Len(minted) + 1) /\ Len(minted) \in Nat
        /\ minted'[Len(minted) + 1] = o /\ \A i \in DOMAIN minted : minted'[i] = minted[i]
    BY Appended DEF Shaped, BrokerShape
  <2>2. ASSUME NEW i \in DOMAIN minted, NEW h \in Grants \ {g}, h = minted[i].grant
        PROVE  Begun(h)' /\ (book'[h] = None => Over(h)')
    BY <1>4, <2>2 DEF BrokerInv, MintInv, Forward
  <2>3. \A i \in DOMAIN minted : minted[i].grant \in Grants \ {g}
    BY <1>2, HistoryGrants
  <2>4. Begun(g)'
    BY <1>1 DEF Begun
  <2>5. \A i \in DOMAIN minted' : i \in DOMAIN minted \/ i = Len(minted) + 1
    BY <2>1
  <2>6. ASSUME NEW i \in DOMAIN minted'
        PROVE  (Begun(minted[i].grant) /\ (book[minted[i].grant] = None => Over(minted[i].grant)))'
    <3>1. PICK h : h = minted'[i].grant
      OBVIOUS
    <3>2. Begun(h)' /\ (book'[h] = None => Over(h)')
      <4>1. CASE i \in DOMAIN minted
        BY <2>1, <2>2, <2>3, <3>1, <4>1
      <4>2. CASE i = Len(minted) + 1
        BY <2>1, <2>4, <3>1, <4>2
      <4> QED
        BY <2>5, <4>1, <4>2
    <3> QED
      BY <3>1, <3>2
  <2>7. \A i, j \in DOMAIN minted' : minted'[i].grant = minted'[j].grant => i = j
    BY <2>1, <2>3, <2>5 DEF BrokerInv, MintInv
  <2> QED
    BY <2>6, <2>7 DEF MintInv
<1> QED
  BY <1>5, <1>6, <1>7 DEF BrokerInv

LEMMA NewOfferTyped ==
  ASSUME Shaped, NEW g \in Grants
  PROVE  NewOffer(g) \in Offers /\ NewOffer(g).grant = g
<1>1. /\ now \in Nat /\ grant[g].expires \in Nat /\ broker.version \in Nat /\ broker.dest \in Dests
      /\ Len(minted) \in Nat /\ OfferLife \in Nat
  BY ProvisioningAssumption DEF Shaped, ControllerShape, BrokerShape, GrantRows
<1>2. PICK x : x = IF now + OfferLife < grant[g].expires THEN now + OfferLife ELSE grant[g].expires
  OBVIOUS
<1>3. x \in Nat /\ Len(minted) + 1 \in Nat
  BY <1>1, <1>2
<1>4. NewOffer(g) = [id |-> Len(minted) + 1, grant |-> g, version |-> broker.version, dest |-> broker.dest, expires |-> x]
  BY <1>2 DEF NewOffer
<1> QED
  BY <1>1, <1>3, <1>4 DEF Offers

LEMMA NewEntryTyped ==
  ASSUME NEW o \in Offers
  PROVE  IsEntry(NewEntry(o)) /\ NewEntry(o) # None
<1>1. IsEntry(NewEntry(o))
  BY DEF NewEntry, IsEntry, EntryFields
<1> QED
  BY <1>1, RowsAreNotNone

BookShape == DOMAIN book' = Grants /\ \A g \in Grants : book'[g] = None \/ IsEntry(book'[g])

\* process_inbox_document and request_offer.
LEMMA RelayGrantBroker ==
  ASSUME Shaped, BrokerInv, RelayGrant, NEW g \in Grants, g = Head(inbox).grant
  PROVE  /\ BrokerInv' /\ BookShape /\ minted' \in Seq(Offers)
         /\ lease' \in [Grants -> {"none", "waiting", "live", "ended"}]
         /\ outbox' \in [Grants -> Offers \cup {None}]
<1>0. /\ minted \in Seq(Offers) /\ outbox \in [Grants -> Offers \cup {None}] /\ DOMAIN book = Grants
      /\ lease \in [Grants -> {"none", "waiting", "live", "ended"}]
      /\ \A h \in Grants : book[h] = None \/ IsEntry(book[h])
  BY DEF Shaped, BrokerShape, ClientShape
<1>1. UNCHANGED <<now, grant, stored>>
  BY DEF RelayGrant, controller
<1>2. CASE /\ lease[g] = "waiting" /\ lease' = [lease EXCEPT ![g] = "live"]
           /\ UNCHANGED <<outbox, book, minted>>
  <2>1. lease' \in [Grants -> {"none", "waiting", "live", "ended"}] /\ lease'[g] = "live"
        /\ \A h \in Grants \ {g} : lease'[h] = lease[h]
    BY <1>0, <1>2
  <2>2. \A h \in Grants : Forward(h)
    BY <1>1, <1>2, <2>1 DEF Forward, Begun, Over, BrokerInv, LeaseInv
  <2> QED
    BY <1>0, <1>1, <1>2, <2>1, <2>2, BrokerKept DEF BookShape
<1>3. CASE UNCHANGED <<lease, outbox, book, minted>>
  BY <1>0, <1>1, <1>3, QuietBroker DEF BookShape
<1>4. ASSUME NEW b, b = Purged(book), NEW o, o = Minted(g, b), UNCHANGED lease,
             book' = BookAfter(g),
             minted' = IF o # None /\ b[g] = None THEN Append(minted, o) ELSE minted,
             \/ outbox' = IF o # None /\ outbox[g] = None THEN [outbox EXCEPT ![g] = o] ELSE outbox
             \/ UNCHANGED outbox
      PROVE  /\ BrokerInv' /\ BookShape /\ minted' \in Seq(Offers)
             /\ lease' \in [Grants -> {"none", "waiting", "live", "ended"}]
             /\ outbox' \in [Grants -> Offers \cup {None}]
  <2>1. /\ DOMAIN b = Grants
        /\ \A h \in Grants : b[h] = book[h] \/ (b[h] = None /\ grant[h].expires <= now)
        /\ now < grant[g].expires => b[g] = book[g]
    BY <1>4, PurgeKeeps
  <2>2. CASE ~Candidate(g)
    <3>1. o = None /\ book' = book
      BY <1>4, <2>2 DEF Minted, BookAfter
    <3> QED
      BY <1>0, <1>1, <1>4, <3>1, QuietBroker DEF BookShape
  <2>3. CASE Candidate(g) /\ book[g] # None
    <3>1. b[g] = book[g] /\ IsEntry(book[g])
      BY <1>0, <2>1, <2>3 DEF Candidate
    <3>2. book' = b /\ minted' = minted
      BY <1>4, <2>3, <3>1 DEF BookAfter
    <3>3. o \in Offers \cup {None}
      BY <1>4, <2>3, <3>1 DEF Minted, IsEntry
    <3>4. outbox' \in [Grants -> Offers \cup {None}]
      BY <1>0, <1>4, <3>3
    <3>5. \A h \in Grants : Forward(h)
      BY <1>1, <1>4, <2>1, <3>2 DEF Forward, Begun, Over, BrokerInv, LeaseInv
    <3>6. BookShape
      BY <1>0, <2>1, <3>2 DEF BookShape
    <3> QED
      BY <1>0, <1>1, <1>4, <3>2, <3>4, <3>5, <3>6, BrokerKept
  <2>4. CASE Candidate(g) /\ book[g] = None
    <3>1. b[g] = None
      BY <2>1, <2>4
    <3>2. o = None \/ (o = NewOffer(g) /\ o \in Offers /\ o.grant = g /\ o # None)
      BY <1>4, <2>4, <3>1, NewOfferTyped, RowsAreNotNone DEF Minted
    <3>3. outbox' \in [Grants -> Offers \cup {None}]
      BY <1>0, <1>4, <3>2
    <3>4. CASE o = None
      <4>1. book' = b /\ minted' = minted
        BY <1>4, <2>4, <3>4 DEF BookAfter
      <4>2. \A h \in Grants : Forward(h)
        BY <1>1, <1>4, <2>1, <4>1 DEF Forward, Begun, Over, BrokerInv, LeaseInv
      <4>3. BookShape
        BY <1>0, <2>1, <4>1 DEF BookShape
      <4> QED
        BY <1>0, <1>1, <1>4, <3>3, <4>1, <4>2, <4>3, BrokerKept
    <3>5. CASE o # None
      <4>1. PICK e : e = NewEntry(o)
        OBVIOUS
      <4>2. o \in Offers /\ o.grant = g /\ IsEntry(e) /\ e # None
        BY <3>2, <3>5, <4>1, NewEntryTyped
      <4>3. book' = [b EXCEPT ![g] = e] /\ minted' = Append(minted, o)
        BY <1>4, <2>4, <3>1, <3>5, <4>1 DEF BookAfter
      <4>4. /\ DOMAIN book' = Grants /\ book'[g] = e
            /\ \A h \in Grants \ {g} : book'[h] = b[h]
        BY <2>1, <4>3
      <4>5. BookShape
        BY <1>0, <2>1, <4>2, <4>4 DEF BookShape
      <4>6. minted' \in Seq(Offers)
        BY <1>0, <4>2, <4>3, Appended
      <4>7. BrokerInv'
        BY <1>1, <1>4, <2>1, <2>4, <4>2, <4>3, <4>4, OfferMinted
      <4> QED
        BY <1>0, <1>4, <3>3, <4>5, <4>6, <4>7
    <3> QED
      BY <3>4, <3>5
  <2> QED
    BY <2>2, <2>3, <2>4
<1>5. \/ /\ lease[g] = "waiting" /\ lease' = [lease EXCEPT ![g] = "live"]
         /\ UNCHANGED <<outbox, book, minted>>
      \/ UNCHANGED <<lease, outbox, book, minted>>
      \/ /\ UNCHANGED lease /\ book' = BookAfter(g)
         /\ minted' = IF Minted(g, Purged(book)) # None /\ Purged(book)[g] = None
                      THEN Append(minted, Minted(g, Purged(book))) ELSE minted
         /\ \/ outbox' = IF Minted(g, Purged(book)) # None /\ outbox[g] = None
                         THEN [outbox EXCEPT ![g] = Minted(g, Purged(book))] ELSE outbox
            \/ UNCHANGED outbox
  BY DEF RelayGrant, Lost, Applied
<1> QED
  BY <1>2, <1>3, <1>4, <1>5

\* admit_browser_source: the one attempt is spent, and with the right key a Source is stored.
LEMMA AdmitBroker ==
  ASSUME Shaped, BrokerInv, NEW d \in DeliveryDocs, Admit(d), UNCHANGED <<now, grant, lease, minted>>
  PROVE  /\ BrokerInv' /\ BookShape /\ stored' \in Seq(Sources)
         /\ \/ UNCHANGED stored
            \/ \E s \in Sources : /\ stored' = Append(stored, s)
                                  /\ s.grant = d.grant /\ s.offer = d.offer /\ s.cipher = d.cipher
                                  /\ s.dest = s.offer.dest
<1>1. PICK g : g = d.grant
  OBVIOUS
<1>2. PICK e : e = book[g]
  OBVIOUS
<1>3. g \in Grants /\ d.cipher \in Ciphers /\ d.offer \in Offers
  BY <1>1 DEF DeliveryDocs
<1>4. /\ stored \in Seq(Sources) /\ DOMAIN book = Grants /\ broker.dest \in Dests
      /\ \A h \in Grants : book[h] = None \/ IsEntry(book[h])
  BY DEF Shaped, BrokerShape
<1>5. CASE Matches(e, d) /\ e.accepted # d /\ MayOpen(e, d)
  <2>1. PICK f : f = Spent(e, d)
    OBVIOUS
  <2>2. e # None /\ IsEntry(e) /\ e.offer = d.offer /\ ~e.attempted /\ Candidate(g) /\ e.offer.dest = broker.dest
    BY <1>1, <1>2, <1>3, <1>4, <1>5 DEF Matches, MayOpen
  <2>3. IsEntry(f) /\ f.attempted /\ f # None
    BY <2>1, <2>2, SpentEntry DEF Spent
  <2>4. PICK s : s = [grant |-> g, offer |-> e.offer, cipher |-> d.cipher, dest |-> broker.dest]
    OBVIOUS
  <2>5. /\ s \in Sources /\ s.grant = g /\ s.offer = d.offer /\ s.cipher = d.cipher /\ s.dest = s.offer.dest
    BY <1>3, <1>4, <2>2, <2>4 DEF Sources
  <2>6. /\ book' = [book EXCEPT ![g] = f]
        /\ stored' = Append(stored, s) \/ stored' = stored
    BY <1>1, <1>2, <1>5, <2>1, <2>4 DEF Admit
  <2>7. DOMAIN book' = Grants /\ book'[g] = f /\ \A h \in Grants \ {g} : book'[h] = book[h]
    BY <1>3, <1>4, <2>6
  <2>8. BookShape
    BY <1>4, <2>3, <2>7 DEF BookShape
  <2>9. \A h \in Grants : Forward(h)
    BY <2>3, <2>7 DEF Forward, Begun, Over, BrokerInv, LeaseInv
  <2>10. CASE stored' = stored
    BY <1>4, <2>8, <2>9, <2>10, BrokerKept
  <2>11. CASE stored' = Append(stored, s)
    <3>1. /\ stored' \in Seq(Sources)
          /\ DOMAIN stored = 1 .. Len(stored) /\ DOMAIN stored' = 1 .. (Len(stored) + 1) /\ Len(stored) \in Nat
          /\ stored'[Len(stored) + 1] = s /\ \A i \in DOMAIN stored : stored'[i] = stored[i]
      BY <1>4, <2>5, <2>11, Appended
    <3>2. lease[g] = "live" /\ ~Over(g) /\ grant[g].status \in {"issued", "closed"}
      <4>1. grant[g].expires \in Nat /\ now \in Nat
        BY <1>3 DEF Shaped, ControllerShape, GrantRows
      <4> QED
        BY <1>3, <2>2, <4>1 DEF Candidate, Over, BrokerInv, LeaseInv
    <3>3. \A i \in DOMAIN stored : stored[i].grant \in Grants \ {g}
      BY <1>2, <2>2, <3>2, HistoryGrants DEF BrokerInv, StoreInv, SpentOrOver
    <3>4. \A i \in DOMAIN minted : minted[i].grant \in Grants
      BY HistoryGrants
    <3>5. LeaseInv' /\ MintInv'
      <4>1. ASSUME NEW i \in DOMAIN minted, NEW h \in Grants, h = minted[i].grant
            PROVE  Begun(h)' /\ (book'[h] = None => Over(h)')
        BY <2>9, <4>1 DEF BrokerInv, MintInv, Forward
      <4> QED
        BY <2>9, <3>4, <4>1 DEF BrokerInv, MintInv, LeaseInv, Forward
    <3>6. Begun(g)' /\ SpentOrOver(g)'
      BY <2>3, <2>7, <3>2 DEF Begun, SpentOrOver
    <3>7. ASSUME NEW i \in DOMAIN stored, NEW h \in Grants, h = stored[i].grant
          PROVE  Begun(h)' /\ SpentOrOver(h)'
      BY <2>9, <3>7 DEF BrokerInv, StoreInv, Forward, SpentOrOver
    <3>8. \A i \in DOMAIN stored' : i \in DOMAIN stored \/ i = Len(stored) + 1
      BY <3>1
    <3>9. ASSUME NEW i \in DOMAIN stored' PROVE (Begun(stored[i].grant) /\ SpentOrOver(stored[i].grant))'
      <4>1. PICK h : h = stored'[i].grant
        OBVIOUS
      <4>2. Begun(h)' /\ SpentOrOver(h)'
        <5>1. CASE i \in DOMAIN stored
          BY <3>1, <3>3, <3>7, <4>1, <5>1
        <5>2. CASE i = Len(stored) + 1
          BY <2>5, <3>1, <3>6, <4>1, <5>2
        <5> QED
          BY <3>8, <5>1, <5>2
      <4> QED
        BY <4>1, <4>2
    <3>10. \A i, j \in DOMAIN stored' : stored'[i].grant = stored'[j].grant => i = j
      BY <2>5, <3>1, <3>3, <3>8 DEF BrokerInv, StoreInv
    <3>11. BrokerInv'
      BY <3>5, <3>9, <3>10 DEF BrokerInv, StoreInv
    <3> QED
      BY <1>1, <2>5, <2>8, <2>11, <3>1, <3>11
  <2> QED
    BY <2>6, <2>10, <2>11
<1>6. CASE UNCHANGED <<book, stored>>
  BY <1>4, <1>6, QuietBroker DEF BookShape
<1> QED
  BY <1>1, <1>2, <1>5, <1>6 DEF Admit

LEMMA LeasesBroker ==
  ASSUME Shaped, BrokerInv
  PROVE  /\ \A g \in Grants : EndLease(g) => BrokerInv' /\ lease' \in [Grants -> {"none", "waiting", "live", "ended"}]
         /\ RestartBroker => BrokerInv' /\ BookShape /\ lease' \in [Grants -> {"none", "waiting", "live", "ended"}]
<1>0. lease \in [Grants -> {"none", "waiting", "live", "ended"}]
  BY DEF Shaped, BrokerShape
<1>1. ASSUME NEW g \in Grants, EndLease(g)
      PROVE  BrokerInv' /\ lease' \in [Grants -> {"none", "waiting", "live", "ended"}]
  <2>1. /\ lease' = [lease EXCEPT ![g] = "ended"] /\ lease[g] # "none"
        /\ UNCHANGED <<now, grant, book, minted, stored>>
    BY <1>1 DEF EndLease, controller
  <2>2. /\ lease' \in [Grants -> {"none", "waiting", "live", "ended"}] /\ lease'[g] = "ended"
        /\ \A h \in Grants \ {g} : lease'[h] = lease[h]
    BY <1>0, <2>1
  <2>3. \A h \in Grants : Forward(h)
    BY <2>1, <2>2 DEF Forward, Begun, Over, BrokerInv, LeaseInv
  <2> QED
    BY <2>1, <2>2, <2>3, BrokerKept
<1>2. ASSUME RestartBroker
      PROVE  BrokerInv' /\ BookShape /\ lease' \in [Grants -> {"none", "waiting", "live", "ended"}]
  <2>1. /\ lease' = [g \in Grants |-> IF lease[g] = "none" THEN "none" ELSE "ended"]
        /\ book' = [g \in Grants |-> None]
        /\ UNCHANGED <<now, grant, minted, stored>>
    BY <1>2 DEF RestartBroker, controller
  <2>2. BookShape /\ lease' \in [Grants -> {"none", "waiting", "live", "ended"}]
    BY <2>1 DEF BookShape
  <2>3. ASSUME NEW g \in Grants, Begun(g) PROVE Begun(g)' /\ Over(g)'
    BY <2>1, <2>3 DEF Begun, Over
  <2>4. LeaseInv'
    BY <2>1 DEF BrokerInv, LeaseInv
  <2>5. MintInv'
    <3>1. \A i \in DOMAIN minted : Begun(minted[i].grant) /\ minted[i].grant \in Grants
      BY HistoryGrants DEF BrokerInv, MintInv
    <3>2. ASSUME NEW i \in DOMAIN minted, NEW h, h = minted[i].grant PROVE Begun(h)' /\ Over(h)'
      BY <2>3, <3>1, <3>2
    <3> QED
      BY <2>1, <3>2 DEF BrokerInv, MintInv
  <2>6. StoreInv'
    <3>1. \A i \in DOMAIN stored : Begun(stored[i].grant) /\ stored[i].grant \in Grants
      BY HistoryGrants DEF BrokerInv, StoreInv
    <3>2. ASSUME NEW i \in DOMAIN stored, NEW h, h = stored[i].grant PROVE Begun(h)' /\ SpentOrOver(h)'
      BY <2>3, <3>1, <3>2 DEF SpentOrOver
    <3> QED
      BY <2>1, <3>2 DEF BrokerInv, StoreInv
  <2> QED
    BY <2>2, <2>4, <2>5, <2>6 DEF BrokerInv
<1> QED
  BY <1>1, <1>2

LEMMA GrantsBroker ==
  ASSUME Shaped, BrokerInv
  PROVE  /\ \A g \in Grants : IssueGrant(g) =>
               /\ BrokerInv' /\ grant' \in [Grants -> GrantRows]
               /\ lease' \in [Grants -> {"none", "waiting", "live", "ended"}]
               /\ \A h \in Grants : grant'[h].decision = grant[h].decision
         /\ \A g \in Grants : CloseGrant(g) =>
               /\ BrokerInv' /\ grant' \in [Grants -> GrantRows]
               /\ \A h \in Grants : grant'[h].decision = grant[h].decision
<1>0. /\ lease \in [Grants -> {"none", "waiting", "live", "ended"}] /\ now \in Nat
      /\ grant \in [Grants -> GrantRows] /\ GrantLife \in Nat
  BY ProvisioningAssumption DEF Shaped, ControllerShape, BrokerShape
<1>1. ASSUME NEW g \in Grants, IssueGrant(g)
      PROVE  /\ BrokerInv' /\ grant' \in [Grants -> GrantRows]
             /\ lease' \in [Grants -> {"none", "waiting", "live", "ended"}]
             /\ \A h \in Grants : grant'[h].decision = grant[h].decision
  <2>1. PICK r : r = [grant[g] EXCEPT !.status = "issued", !.expires = now + GrantLife]
    OBVIOUS
  <2>2. r \in GrantRows /\ r.status = "issued" /\ r.decision = grant[g].decision
    <3>1. PICK x : x = now + GrantLife
      OBVIOUS
    <3>2. x \in Nat /\ grant[g] \in GrantRows /\ r = [grant[g] EXCEPT !.status = "issued", !.expires = x]
      BY <1>0, <2>1, <3>1
    <3> QED
      BY <3>2 DEF GrantRows
  <2>3. /\ grant[g].status = "none" /\ lease' = [lease EXCEPT ![g] = "waiting"]
        /\ grant' = [grant EXCEPT ![g] = r]
        /\ UNCHANGED <<now, book, minted, stored>>
    <3>1. grant' = [grant EXCEPT ![g].status = "issued", ![g].expires = now + GrantLife]
      BY <1>1 DEF IssueGrant
    <3>2. grant' = [grant EXCEPT ![g] = r]
      BY <1>0, <2>1, <3>1
    <3> QED
      BY <1>1, <3>2 DEF IssueGrant
  <2>4. /\ grant' \in [Grants -> GrantRows] /\ grant'[g] = r /\ \A h \in Grants \ {g} : grant'[h] = grant[h]
        /\ lease' \in [Grants -> {"none", "waiting", "live", "ended"}] /\ lease'[g] = "waiting"
        /\ \A h \in Grants \ {g} : lease'[h] = lease[h]
    BY <1>0, <2>2, <2>3
  <2>5. ~Begun(g)
    BY <2>3 DEF Begun
  <2>6. \A h \in Grants \ {g} : Forward(h)
    BY <2>3, <2>4 DEF Forward, Begun, Over, BrokerInv, LeaseInv
  <2>7. LeaseInv'
    BY <2>2, <2>4 DEF BrokerInv, LeaseInv
  <2>8. MintInv'
    <3>1. \A i \in DOMAIN minted : minted[i].grant \in Grants \ {g}
      BY <2>5, HistoryGrants DEF BrokerInv, MintInv
    <3>2. ASSUME NEW i \in DOMAIN minted, NEW h \in Grants \ {g}, h = minted[i].grant
          PROVE  Begun(h)' /\ (book'[h] = None => Over(h)')
      BY <2>6, <3>2 DEF BrokerInv, MintInv, Forward
    <3> QED
      BY <2>3, <3>1, <3>2 DEF BrokerInv, MintInv
  <2>9. StoreInv'
    <3>1. \A i \in DOMAIN stored : stored[i].grant \in Grants \ {g}
      BY <2>5, HistoryGrants DEF BrokerInv, StoreInv
    <3>2. ASSUME NEW i \in DOMAIN stored, NEW h \in Grants \ {g}, h = stored[i].grant
          PROVE  Begun(h)' /\ SpentOrOver(h)'
      BY <2>6, <3>2 DEF BrokerInv, StoreInv, Forward, SpentOrOver
    <3> QED
      BY <2>3, <3>1, <3>2 DEF BrokerInv, StoreInv
  <2> QED
    BY <2>2, <2>4, <2>7, <2>8, <2>9 DEF BrokerInv
<1>2. ASSUME NEW g \in Grants, CloseGrant(g)
      PROVE  /\ BrokerInv' /\ grant' \in [Grants -> GrantRows]
             /\ \A h \in Grants : grant'[h].decision = grant[h].decision
  <2>1. PICK r : r = [grant[g] EXCEPT !.status = "closed"]
    OBVIOUS
  <2>2. r \in GrantRows /\ r.status = "closed" /\ r.decision = grant[g].decision /\ r.expires = grant[g].expires
    BY <1>0, <2>1 DEF GrantRows
  <2>3. grant' = [grant EXCEPT ![g] = r] /\ UNCHANGED <<now, lease, book, minted, stored>>
    BY <1>2, <2>1 DEF CloseGrant, brokerVars
  <2>4. /\ grant' \in [Grants -> GrantRows] /\ grant'[g] = r /\ \A h \in Grants \ {g} : grant'[h] = grant[h]
    BY <1>0, <2>2, <2>3
  <2>5. now' \in Nat /\ now <= now'
    BY <1>0, <2>3
  <2>6. BrokerInv'
    BY <2>2, <2>3, <2>4, <2>5, SameForward, BrokerKept
  <2> QED
    BY <2>2, <2>4, <2>6
<1> QED
  BY <1>1, <1>2
-----------------------------------------------------------------------------
(* Every step keeps the shapes and the broker's side.                      *)

ControllerSame == UNCHANGED <<now, grant, binding, authors, offers, receipt, inbox>>
ClientSame == UNCHANGED <<call, form, outbox>>
BrokerSame == UNCHANGED <<broker, lease, book, minted, stored>>

LEMMA ControllerStays == ControllerShape /\ ControllerSame => ControllerShape'
BY DEF ControllerShape, ControllerSame

LEMMA ClientStays == ClientShape /\ ClientSame => ClientShape'
BY DEF ClientShape, ClientSame

LEMMA BrokerStays == BrokerShape /\ BrokerSame => BrokerShape'
BY DEF BrokerShape, BrokerSame

LEMMA CallMoves ==
  ASSUME Shaped, NEW o \in Operators, NEW r, CallShape(r), call' = [call EXCEPT ![o] = r], UNCHANGED <<form, outbox>>
  PROVE  ClientShape'
<1>1. DOMAIN call' = Operators /\ call'[o] = r /\ \A p \in Operators \ {o} : call'[p] = call[p]
  BY DEF Shaped, ClientShape
<1> QED
  BY <1>1 DEF Shaped, ClientShape

LEMMA NoneShape == CallShape(None)
BY DEF CallShape

Kept == Shaped' /\ BrokerInv'

LEMMA OthersKept ==
  ASSUME Shaped, BrokerInv, BrokerSame, UNCHANGED <<now, grant>>, ControllerShape', ClientShape'
  PROVE  Kept
BY BrokerStays, QuietBroker DEF Kept, Shaped, BrokerSame

LEMMA DocAppended ==
  ASSUME Shaped, NEW d \in Docs, inbox' = Append(inbox, d)
  PROVE  inbox' \in Seq(Docs)
BY Appended DEF Shaped, ControllerShape

LEMMA HeadTyped ==
  ASSUME Shaped, inbox # <<>>
  PROVE  /\ Head(inbox) \in Docs /\ Head(inbox).grant \in Grants /\ Tail(inbox) \in Seq(Docs)
         /\ Head(inbox).kind = "delivery" => Head(inbox) \in DeliveryDocs
         /\ Head(inbox) = inbox[1] /\ 1 \in DOMAIN inbox
         /\ \A i \in DOMAIN Tail(inbox) : i + 1 \in DOMAIN inbox /\ Tail(inbox)[i] = inbox[i + 1]
<1>1. inbox \in Seq(Docs)
  BY DEF Shaped, ControllerShape
<1>2. /\ Head(inbox) \in Docs /\ Tail(inbox) \in Seq(Docs)
      /\ Head(inbox) = inbox[1] /\ 1 \in DOMAIN inbox
      /\ \A i \in DOMAIN Tail(inbox) : i + 1 \in DOMAIN inbox /\ Tail(inbox)[i] = inbox[i + 1]
  BY <1>1
<1>3. \A d \in Docs : d.grant \in Grants /\ (d.kind = "delivery" => d \in DeliveryDocs)
  BY DEF Docs, GrantDocs, DeliveryDocs
<1> QED
  BY <1>2, <1>3

LEMMA PeopleKept ==
  ASSUME Shaped, BrokerInv, NEW o \in Operators
  PROVE  /\ EndSession(o) => Kept
         /\ \A d \in Dests : SetSourceBinding(o, d) => Kept
         /\ CreateLink(o) => Kept
         /\ SubmitProvisioning(o) => Kept
         /\ \A g \in Grants : ReadMetadata(o, g) \/ BeginSubmit(o, g) => Kept
         /\ \A g \in Grants, k \in Keys : BeginLink(o, g, k) => Kept
<1>0. ControllerShape /\ ClientShape /\ BrokerShape
  BY DEF Shaped
<1>1. ASSUME EndSession(o) PROVE Kept
  <2>1. ControllerSame /\ ClientSame /\ BrokerSame
    BY <1>1 DEF EndSession, controller, brokerVars, ControllerSame, ClientSame, BrokerSame
  <2> QED
    BY <1>0, <2>1, ControllerStays, ClientStays, OthersKept DEF ControllerSame
<1>2. ASSUME NEW d \in Dests, SetSourceBinding(o, d) PROVE Kept
  <2>1. /\ binding' = [version |-> binding.version + 1, dest |-> d, by |-> o] /\ authors' = Append(authors, o)
        /\ UNCHANGED <<now, grant, offers, receipt, inbox>> /\ ClientSame /\ BrokerSame
    BY <1>2 DEF SetSourceBinding, people, brokerVars, ClientSame, BrokerSame
  <2>2. binding.version + 1 \in Nat
    BY <1>0 DEF ControllerShape
  <2>3. binding' \in [version : Nat, dest : Dests, by : Operators \cup {"nobody"}]
    BY <2>1, <2>2
  <2>4. authors' \in Seq(Operators)
    BY <1>0, <2>1, Appended DEF ControllerShape
  <2>5. ControllerShape'
    BY <1>0, <2>1, <2>3, <2>4 DEF ControllerShape
  <2> QED
    BY <1>0, <2>1, <2>5, ClientStays, OthersKept
<1>3. ASSUME CreateLink(o) PROVE Kept
  <2>1. ControllerSame /\ call' = [call EXCEPT ![o] = None] /\ UNCHANGED <<form, outbox>> /\ BrokerSame
    BY <1>3 DEF CreateLink, brokerVars, ControllerSame, BrokerSame
  <2> QED
    BY <1>0, <2>1, NoneShape, CallMoves, ControllerStays, OthersKept DEF ControllerSame
<1>4. ASSUME SubmitProvisioning(o) PROVE Kept
  <2>1. PICK g : g = call[o].grant
    OBVIOUS
  <2>2. PICK c : c = call[o].cipher
    OBVIOUS
  <2>3. g \in Grants /\ c \in Ciphers
    BY <1>0, <1>4, <2>1, <2>2 DEF SubmitProvisioning, ClientShape, CallShape
  <2>4. /\ call' = [call EXCEPT ![o] = None] /\ UNCHANGED <<form, outbox>> /\ BrokerSame
        /\ UNCHANGED <<now, grant, binding, authors, offers>>
    BY <1>4 DEF SubmitProvisioning, brokerVars, BrokerSame
  <2>5. CASE MaySubmit(o, g)
    <3>1. offers[g] # None
      BY <2>5 DEF MaySubmit, Authority
    <3>2. offers[g] \in Recorded /\ offers[g].offer \in Offers /\ offers[g].offer.id \in Nat
      BY <1>0, <2>3, <3>1 DEF ControllerShape, Recorded, Offers
    <3>3. PICK r : r = [by |-> o, cipher |-> c, offer |-> offers[g].offer.id]
      OBVIOUS
    <3>4. PICK d : d = [kind |-> "delivery", grant |-> g, offer |-> offers[g].offer, cipher |-> c]
      OBVIOUS
    <3>5. r \in Receipts /\ d \in Docs
      BY <2>3, <3>2, <3>3, <3>4 DEF Receipts, Docs, DeliveryDocs
    <3>6. receipt' = [receipt EXCEPT ![g] = r] /\ inbox' = Append(inbox, d)
      BY <1>4, <2>1, <2>2, <2>5, <3>3, <3>4 DEF SubmitProvisioning
    <3>7. receipt' \in [Grants -> Receipts \cup {None}]
      BY <1>0, <3>5, <3>6 DEF ControllerShape
    <3>8. ControllerShape'
      BY <1>0, <2>4, <3>5, <3>6, <3>7, DocAppended DEF ControllerShape
    <3> QED
      BY <2>4, <3>8, NoneShape, CallMoves, OthersKept
  <2>6. CASE ~MaySubmit(o, g)
    <3>1. ControllerSame
      BY <1>4, <2>1, <2>4, <2>6 DEF SubmitProvisioning, ControllerSame
    <3> QED
      BY <1>0, <2>4, <3>1, ControllerStays, NoneShape, CallMoves, OthersKept
  <2> QED
    BY <2>5, <2>6
<1>5. ASSUME NEW g \in Grants, ReadMetadata(o, g) PROVE Kept
  <2>1. ControllerSame /\ form' = [form EXCEPT ![o] = offers[g].offer.id] /\ UNCHANGED <<call, outbox>> /\ BrokerSame
    BY <1>5 DEF ReadMetadata, controller, brokerVars, ControllerSame, BrokerSame
  <2>2. offers[g] # None
    BY <1>5 DEF ReadMetadata, MetadataReady, Authority
  <2>3. offers[g].offer.id \in Nat
    BY <1>0, <2>2 DEF ControllerShape, Recorded, Offers
  <2>4. ClientShape'
    BY <1>0, <2>1, <2>3 DEF ClientShape
  <2> QED
    BY <1>0, <2>1, <2>4, ControllerStays, OthersKept DEF ControllerSame
<1>6. ASSUME NEW g \in Grants, BeginSubmit(o, g) PROVE Kept
  <2>1. PICK c \in {[offer |-> form[o], value |-> v] : v \in Values} \cup {Garbled} :
            Begin(o, [kind |-> "submit", account |-> account[o], grant |-> g, cipher |-> c])
    BY <1>6 DEF BeginSubmit
  <2>2. c \in Ciphers
    BY <1>0, <2>1 DEF ClientShape, Ciphers, Garbled
  <2>3. PICK r : r = [kind |-> "submit", account |-> account[o], grant |-> g, cipher |-> c]
    OBVIOUS
  <2>4. CallShape(r)
    BY <2>2, <2>3 DEF CallShape
  <2>5. ControllerSame /\ call' = [call EXCEPT ![o] = r] /\ UNCHANGED <<form, outbox>> /\ BrokerSame
    BY <2>1, <2>3 DEF Begin, controller, brokerVars, ControllerSame, BrokerSame
  <2> QED
    BY <1>0, <2>4, <2>5, CallMoves, ControllerStays, OthersKept DEF ControllerSame
<1>7. ASSUME NEW g \in Grants, NEW k \in Keys, BeginLink(o, g, k) PROVE Kept
  <2>1. PICK r : r = [kind |-> "link", account |-> account[o], grant |-> g, key |-> k]
    OBVIOUS
  <2>2. CallShape(r)
    BY <2>1 DEF CallShape
  <2>3. ControllerSame /\ call' = [call EXCEPT ![o] = r] /\ UNCHANGED <<form, outbox>> /\ BrokerSame
    BY <1>7, <2>1 DEF BeginLink, Begin, controller, brokerVars, ControllerSame, BrokerSame
  <2> QED
    BY <1>0, <2>2, <2>3, CallMoves, ControllerStays, OthersKept DEF ControllerSame
<1> QED
  BY <1>1, <1>2, <1>3, <1>4, <1>5, <1>6, <1>7

LEMMA GrantStepsKept ==
  ASSUME Shaped, BrokerInv, NEW g \in Grants
  PROVE  /\ IssueGrant(g) => Kept
         /\ CloseGrant(g) => Kept
         /\ EndLease(g) => Kept
         /\ RecordOffer(g) => Kept
<1>0. ControllerShape /\ ClientShape /\ BrokerShape
  BY DEF Shaped
<1>1. ASSUME IssueGrant(g) PROVE Kept
  <2>1. PICK d : d = [kind |-> "grant", grant |-> g]
    OBVIOUS
  <2>2. d \in Docs /\ inbox' = Append(inbox, d)
    BY <1>1, <2>1 DEF IssueGrant, Docs, GrantDocs
  <2>3. UNCHANGED <<now, binding, authors, offers, receipt, broker, book, minted, stored>> /\ ClientSame
    BY <1>1 DEF IssueGrant, people, ClientSame
  <2>4. /\ BrokerInv' /\ grant' \in [Grants -> GrantRows]
        /\ lease' \in [Grants -> {"none", "waiting", "live", "ended"}]
    BY <1>1, GrantsBroker
  <2>5. ControllerShape'
    BY <1>0, <2>2, <2>3, <2>4, DocAppended DEF ControllerShape
  <2>6. BrokerShape'
    BY <1>0, <2>3, <2>4 DEF BrokerShape
  <2> QED
    BY <1>0, <2>3, <2>4, <2>5, <2>6, ClientStays DEF Kept, Shaped
<1>2. ASSUME CloseGrant(g) PROVE Kept
  <2>1. UNCHANGED <<now, binding, authors, offers, receipt, inbox>> /\ ClientSame /\ BrokerSame
    BY <1>2 DEF CloseGrant, people, ClientSame, brokerVars, BrokerSame
  <2>2. BrokerInv' /\ grant' \in [Grants -> GrantRows]
    BY <1>2, GrantsBroker
  <2>3. ControllerShape'
    BY <1>0, <2>1, <2>2 DEF ControllerShape
  <2> QED
    BY <1>0, <2>1, <2>2, <2>3, ClientStays, BrokerStays DEF Kept, Shaped
<1>3. ASSUME EndLease(g) PROVE Kept
  <2>1. ControllerSame /\ ClientSame /\ UNCHANGED <<broker, book, minted, stored>>
    BY <1>3 DEF EndLease, controller, people, ControllerSame, ClientSame
  <2>2. BrokerInv' /\ lease' \in [Grants -> {"none", "waiting", "live", "ended"}]
    BY <1>3, LeasesBroker
  <2>3. BrokerShape'
    BY <1>0, <2>1, <2>2 DEF BrokerShape
  <2> QED
    BY <1>0, <2>1, <2>2, <2>3, ClientStays, ControllerStays DEF Kept, Shaped
<1>4. ASSUME RecordOffer(g) PROVE Kept
  <2>1. /\ outbox[g] # None /\ BrokerSame /\ UNCHANGED <<now, grant, binding, authors, receipt, inbox, call, form>>
        /\ outbox' = [outbox EXCEPT ![g] = None] \/ UNCHANGED outbox
    BY <1>4 DEF RecordOffer, people, brokerVars, BrokerSame
  <2>2. outbox[g] \in Offers /\ binding.version \in Nat
    BY <1>0, <2>1 DEF ClientShape, ControllerShape
  <2>3. PICK r : r = [offer |-> outbox[g], binding |-> binding.version]
    OBVIOUS
  <2>4. r \in Recorded
    BY <2>2, <2>3 DEF Recorded
  <2>5. offers' = [offers EXCEPT ![g] = r] \/ offers' = offers
    BY <1>4, <2>3 DEF RecordOffer
  <2>6. offers' \in [Grants -> Recorded \cup {None}]
    BY <1>0, <2>4, <2>5 DEF ControllerShape
  <2>7. outbox' \in [Grants -> Offers \cup {None}]
    BY <1>0, <2>1 DEF ClientShape
  <2>8. ControllerShape'
    BY <1>0, <2>1, <2>6 DEF ControllerShape
  <2>9. ClientShape'
    BY <1>0, <2>1, <2>7 DEF ClientShape
  <2> QED
    BY <2>1, <2>8, <2>9, OthersKept
<1> QED
  BY <1>1, <1>2, <1>3, <1>4

LEMMA NodeStepsKept ==
  ASSUME Shaped, BrokerInv
  PROVE  /\ StageRotation \/ CompleteRotation \/ RestartRelay => Kept
         /\ RotateBroker => Kept
         /\ Maintain => Kept
         /\ RestartBroker => Kept
         /\ Tick => Kept
<1>0. ControllerShape /\ ClientShape /\ BrokerShape
  BY DEF Shaped
<1>1. ASSUME StageRotation \/ CompleteRotation \/ RestartRelay PROVE Kept
  <2>1. ControllerSame /\ ClientSame /\ BrokerSame
    BY <1>1 DEF StageRotation, CompleteRotation, RestartRelay, controller, people, brokerVars,
       ControllerSame, ClientSame, BrokerSame
  <2> QED
    BY <1>0, <2>1, ControllerStays, ClientStays, OthersKept DEF ControllerSame
<1>2. ASSUME RotateBroker PROVE Kept
  <2>1. /\ broker' = [broker EXCEPT !.version = @ + 1]
        /\ ControllerSame /\ ClientSame /\ UNCHANGED <<lease, book, minted, stored>>
    BY <1>2 DEF RotateBroker, controller, people, ControllerSame, ClientSame
  <2>2. broker' \in [version : Nat, dest : Dests]
    BY <1>0, <2>1 DEF BrokerShape
  <2>3. BrokerShape' /\ BrokerInv'
    BY <1>0, <2>1, <2>2, QuietBroker DEF BrokerShape, ControllerSame
  <2> QED
    BY <1>0, <2>1, <2>3, ControllerStays, ClientStays DEF Kept, Shaped
<1>3. ASSUME Maintain PROVE Kept
  <2>1. ControllerSame /\ ClientSame /\ UNCHANGED <<broker, lease, minted, stored>>
    BY <1>3 DEF Maintain, controller, people, ControllerSame, ClientSame
  <2>2. BrokerInv' /\ DOMAIN book' = Grants /\ \A g \in Grants : book'[g] = None \/ IsEntry(book'[g])
    BY <1>3, MaintainBroker
  <2>3. BrokerShape'
    BY <1>0, <2>1, <2>2 DEF BrokerShape
  <2> QED
    BY <1>0, <2>1, <2>2, <2>3, ControllerStays, ClientStays DEF Kept, Shaped
<1>4. ASSUME RestartBroker PROVE Kept
  <2>1. /\ \E d \in Dests : broker' = [broker EXCEPT !.dest = d]
        /\ ControllerSame /\ ClientSame /\ UNCHANGED <<minted, stored>>
    BY <1>4 DEF RestartBroker, controller, people, ControllerSame, ClientSame
  <2>2. broker' \in [version : Nat, dest : Dests]
    BY <1>0, <2>1 DEF BrokerShape
  <2>3. BrokerInv' /\ BookShape /\ lease' \in [Grants -> {"none", "waiting", "live", "ended"}]
    BY <1>4, LeasesBroker
  <2>4. BrokerShape'
    BY <1>0, <2>1, <2>2, <2>3 DEF BrokerShape, BookShape
  <2> QED
    BY <1>0, <2>1, <2>3, <2>4, ControllerStays, ClientStays DEF Kept, Shaped
<1>5. ASSUME Tick PROVE Kept
  <2>1. /\ now' = now + 1 /\ UNCHANGED <<grant, binding, authors, offers, receipt, inbox>> /\ ClientSame /\ BrokerSame
    BY <1>5 DEF Tick, controller, people, brokerVars, ClientSame, BrokerSame
  <2>2. now' \in Nat /\ now <= now'
    BY <1>0, <2>1 DEF ControllerShape
  <2>3. ControllerShape'
    BY <1>0, <2>1, <2>2 DEF ControllerShape
  <2>4. BrokerInv'
    BY <2>1, <2>2, SameForward, BrokerKept DEF BrokerSame
  <2> QED
    BY <1>0, <2>1, <2>3, <2>4, ClientStays, BrokerStays DEF Kept, Shaped
<1> QED
  BY <1>1, <1>2, <1>3, <1>4, <1>5

LEMMA RelayStepsKept ==
  ASSUME Shaped, BrokerInv
  PROVE  RelayGrant => Kept
<1>0. ControllerShape /\ ClientShape /\ BrokerShape
  BY DEF Shaped
<1> SUFFICES ASSUME RelayGrant PROVE Kept
  OBVIOUS
<1>1. PICK g : g = Head(inbox).grant
  OBVIOUS
<1>2. g \in Grants
  BY <1>1, HeadTyped DEF RelayGrant
<1>3. ControllerSame /\ UNCHANGED <<call, form, broker, stored>>
  BY DEF RelayGrant, controller, people, ControllerSame
<1>4. /\ BrokerInv' /\ BookShape /\ minted' \in Seq(Offers)
      /\ lease' \in [Grants -> {"none", "waiting", "live", "ended"}]
      /\ outbox' \in [Grants -> Offers \cup {None}]
  BY <1>1, <1>2, RelayGrantBroker
<1>5. BrokerShape'
  BY <1>0, <1>3, <1>4 DEF BrokerShape, BookShape
<1>6. ClientShape'
  BY <1>0, <1>3, <1>4 DEF ClientShape
<1> QED
  BY <1>0, <1>3, <1>4, <1>5, <1>6, ControllerStays DEF Kept, Shaped

LEMMA DeliveryMoves ==
  ASSUME Shaped, BrokerInv, RelayDelivery
  PROVE  /\ Kept /\ ControllerSame
         /\ Head(inbox) \in DeliveryDocs
         /\ \/ UNCHANGED stored
            \/ \E s \in Sources : /\ stored' = Append(stored, s)
                                  /\ s.grant = Head(inbox).grant /\ s.offer = Head(inbox).offer
                                  /\ s.cipher = Head(inbox).cipher /\ s.dest = s.offer.dest
<1>0. ControllerShape /\ ClientShape /\ BrokerShape
  BY DEF Shaped
<1>1. PICK d : d = Head(inbox)
  OBVIOUS
<1>2. d \in DeliveryDocs
  BY <1>1, HeadTyped DEF RelayDelivery
<1>3. Admit(d) /\ ControllerSame /\ ClientSame /\ UNCHANGED <<broker, lease, minted>>
  BY <1>1 DEF RelayDelivery, Lost, controller, people, ControllerSame, ClientSame
<1>4. /\ BrokerInv' /\ BookShape /\ stored' \in Seq(Sources)
      /\ \/ UNCHANGED stored
         \/ \E s \in Sources : /\ stored' = Append(stored, s)
                               /\ s.grant = d.grant /\ s.offer = d.offer /\ s.cipher = d.cipher
                               /\ s.dest = s.offer.dest
  BY <1>2, <1>3, AdmitBroker DEF ControllerSame
<1>5. BrokerShape'
  BY <1>0, <1>3, <1>4 DEF BrokerShape, BookShape
<1> QED
  BY <1>0, <1>1, <1>2, <1>3, <1>4, <1>5, ControllerStays, ClientStays DEF Kept, Shaped

LEMMA AcknowledgeKept ==
  ASSUME Shaped, BrokerInv, Acknowledge
  PROVE  inbox # <<>> => Kept
<1>0. ControllerShape /\ ClientShape /\ BrokerShape
  BY DEF Shaped
<1> SUFFICES ASSUME inbox # <<>> PROVE Kept
  OBVIOUS
<1>1. inbox' = Tail(inbox) /\ UNCHANGED <<now, grant, binding, authors, offers, receipt>> /\ ClientSame /\ BrokerSame
  BY DEF Acknowledge, controller, people, brokerVars, ClientSame, BrokerSame
<1>2. inbox' \in Seq(Docs)
  BY <1>1, HeadTyped
<1>3. ControllerShape'
  BY <1>0, <1>1, <1>2 DEF ControllerShape
<1> QED
  BY <1>0, <1>1, <1>3, ClientStays, OthersKept
-----------------------------------------------------------------------------
(* The controller's side: who an offer, a receipt and a delivery are for.  *)
(* Rows are written once, so what a later row was checked against stays.   *)

RelayInv == DOMAIN relay = {"done", "published"} /\ (relay.done => inbox # <<>>)

BindingInv == Len(authors) = binding.version /\ (binding.version > 0 => authors[binding.version] = binding.by)

OfferOk(g) == offers[g] # None => offers[g].binding \in 1 .. Len(authors)
ReceiptOk(g) == receipt[g] # None => offers[g] # None /\ receipt[g].by = OwnerAt(g, offers[g].binding)

\* A delivery, queued or stored, is the receipt's ciphertext for the recorded offer.
CollectedFor(g, offer, cipher) ==
  /\ receipt[g] # None /\ receipt[g].cipher = cipher
  /\ offers[g] # None /\ offers[g].offer = offer

InboxInv ==
  \A i \in DOMAIN inbox : inbox[i].kind = "delivery" => CollectedFor(inbox[i].grant, inbox[i].offer, inbox[i].cipher)

StoredInv ==
  \A i \in DOMAIN stored : /\ CollectedFor(stored[i].grant, stored[i].offer, stored[i].cipher)
                           /\ stored[i].dest = stored[i].offer.dest

OwnerInv ==
  /\ RelayInv /\ BindingInv
  /\ \A g \in Grants : OfferOk(g) /\ ReceiptOk(g)
  /\ InboxInv /\ StoredInv

\* Rows are written once and the authors of earlier bindings stay on record.
WriteOnce ==
  /\ \A g \in Grants : offers[g] # None => offers'[g] = offers[g]
  /\ \A g \in Grants : receipt[g] # None => receipt'[g] = receipt[g]
  /\ \A g \in Grants : grant'[g].decision = grant[g].decision
  /\ authors' \in Seq(Operators) /\ Len(authors) <= Len(authors')
  /\ \A i \in 1 .. Len(authors) : authors'[i] = authors[i]

LEMMA CollectedStays ==
  ASSUME WriteOnce, NEW g \in Grants, NEW offer, NEW cipher, CollectedFor(g, offer, cipher)
  PROVE  CollectedFor(g, offer, cipher)'
BY DEF WriteOnce, CollectedFor

LEMMA OwnersStay ==
  ASSUME Shaped, WriteOnce, NEW g \in Grants, OfferOk(g), ReceiptOk(g)
  PROVE  /\ offers[g] # None => OfferOk(g)' /\ OwnerAt(g, offers[g].binding)' = OwnerAt(g, offers[g].binding)
         /\ receipt[g] # None => ReceiptOk(g)'
<1>0. Len(authors) \in Nat /\ Len(authors') \in Nat
  BY DEF Shaped, ControllerShape, WriteOnce
<1>1. ASSUME offers[g] # None
      PROVE  OfferOk(g)' /\ OwnerAt(g, offers[g].binding)' = OwnerAt(g, offers[g].binding)
  <2>1. offers'[g] = offers[g] /\ offers[g].binding \in 1 .. Len(authors)
    BY <1>1 DEF WriteOnce, OfferOk
  <2>2. authors'[offers[g].binding] = authors[offers[g].binding] /\ grant'[g].decision = grant[g].decision
    BY <2>1 DEF WriteOnce
  <2> QED
    BY <1>0, <2>1, <2>2 DEF OfferOk, OwnerAt, WriteOnce
<1>2. ASSUME receipt[g] # None PROVE ReceiptOk(g)'
  <2>1. receipt'[g] = receipt[g] /\ offers[g] # None /\ offers'[g] = offers[g]
        /\ receipt[g].by = OwnerAt(g, offers[g].binding)
    BY <1>2 DEF WriteOnce, ReceiptOk
  <2> QED
    BY <1>1, <2>1 DEF ReceiptOk
<1> QED
  BY <1>1, <1>2

LEMMA StoredStays ==
  ASSUME Shaped, OwnerInv, WriteOnce, UNCHANGED stored
  PROVE  StoredInv'
<1>1. ASSUME NEW i \in DOMAIN stored, NEW g, g = stored[i].grant, NEW f, f = stored[i].offer, NEW c, c = stored[i].cipher
      PROVE  CollectedFor(g, f, c)'
  <2>1. g \in Grants /\ CollectedFor(g, f, c)
    BY <1>1, HistoryGrants DEF OwnerInv, StoredInv
  <2> QED
    BY <2>1, CollectedStays
<1> QED
  BY <1>1 DEF OwnerInv, StoredInv

LEMMA DocGrants == ASSUME Shaped PROVE \A i \in DOMAIN inbox : inbox[i] \in Docs /\ inbox[i].grant \in Grants
<1>1. \A i \in DOMAIN inbox : inbox[i] \in Docs
  BY Members DEF Shaped, ControllerShape
<1> QED
  BY <1>1 DEF Docs, GrantDocs, DeliveryDocs

\* The queue: the same documents, or fewer.
LEMMA InboxStays ==
  ASSUME Shaped, OwnerInv, WriteOnce,
         \A i \in DOMAIN inbox' : \E j \in DOMAIN inbox : inbox'[i] = inbox[j]
  PROVE  InboxInv'
<1>1. ASSUME NEW i \in DOMAIN inbox', NEW d, d = inbox'[i], d.kind = "delivery",
             NEW g, g = d.grant, NEW f, f = d.offer, NEW c, c = d.cipher
      PROVE  CollectedFor(g, f, c)'
  <2>1. PICK j \in DOMAIN inbox : d = inbox[j]
    BY <1>1
  <2>2. g \in Grants /\ CollectedFor(g, f, c)
    BY <1>1, <2>1, DocGrants DEF OwnerInv, InboxInv
  <2> QED
    BY <2>2, CollectedStays
<1> QED
  BY <1>1 DEF InboxInv

LEMMA InboxGrows ==
  ASSUME Shaped, OwnerInv, WriteOnce, NEW d \in Docs, inbox' = Append(inbox, d),
         d.kind = "delivery" => \A g, f, c : g = d.grant /\ f = d.offer /\ c = d.cipher => CollectedFor(g, f, c)'
  PROVE  InboxInv' /\ inbox' # <<>>
<1>1. /\ DOMAIN inbox = 1 .. Len(inbox) /\ DOMAIN inbox' = 1 .. (Len(inbox) + 1) /\ Len(inbox) \in Nat
      /\ inbox'[Len(inbox) + 1] = d /\ \A i \in DOMAIN inbox : inbox'[i] = inbox[i]
  BY Appended DEF Shaped, ControllerShape
<1>2. ASSUME NEW i \in DOMAIN inbox', NEW e, e = inbox'[i], e.kind = "delivery",
             NEW g, g = e.grant, NEW f, f = e.offer, NEW c, c = e.cipher
      PROVE  CollectedFor(g, f, c)'
  <2>1. CASE i = Len(inbox) + 1
    BY <1>1, <1>2, <2>1
  <2>2. CASE i \in DOMAIN inbox
    <3>1. g \in Grants /\ CollectedFor(g, f, c)
      BY <1>1, <1>2, <2>2, DocGrants DEF OwnerInv, InboxInv
    <3> QED
      BY <3>1, CollectedStays
  <2> QED
    BY <1>1, <2>1, <2>2
<1>3. inbox' # <<>>
  BY <1>1
<1> QED
  BY <1>2, <1>3 DEF InboxInv

\* A step that writes none of the controller's rows.
LEMMA OwnersQuiet ==
  ASSUME Shaped, OwnerInv, UNCHANGED <<binding, authors, offers, receipt, stored>>,
         \A g \in Grants : grant'[g].decision = grant[g].decision,
         RelayInv', InboxInv' \/ UNCHANGED inbox
  PROVE  OwnerInv'
<1>1. WriteOnce
  BY DEF Shaped, ControllerShape, WriteOnce
<1>2. BindingInv'
  BY DEF OwnerInv, BindingInv
<1>3. \A g \in Grants : OfferOk(g)' /\ ReceiptOk(g)'
  <2> TAKE g \in Grants
  <2>1. OfferOk(g) /\ ReceiptOk(g)
    BY DEF OwnerInv
  <2> QED
    BY <1>1, <2>1, OwnersStay DEF OfferOk, ReceiptOk
<1>4. InboxInv'
  BY <1>1, InboxStays
<1> QED
  BY <1>1, <1>2, <1>3, <1>4, StoredStays DEF OwnerInv

LEMMA SameRelay == OwnerInv /\ UNCHANGED <<relay, inbox>> => RelayInv'
BY DEF OwnerInv, RelayInv

\* Steps that change neither the rows of the collection nor the queue.
LEMMA AsideOwners ==
  ASSUME Shaped, OwnerInv, UNCHANGED <<binding, authors, offers, receipt, stored, relay, inbox>>,
         \A g \in Grants : grant'[g].decision = grant[g].decision
  PROVE  OwnerInv'
BY SameRelay, OwnersQuiet

LEMMA BindingOwners ==
  ASSUME Shaped, OwnerInv, NEW o \in Operators, NEW d \in Dests, SetSourceBinding(o, d)
  PROVE  OwnerInv'
<1>0. authors \in Seq(Operators) /\ binding.version \in Nat
  BY DEF Shaped, ControllerShape
<1>1. /\ binding' = [version |-> binding.version + 1, dest |-> d, by |-> o] /\ authors' = Append(authors, o)
      /\ UNCHANGED <<grant, offers, receipt, inbox, stored, relay>>
  BY DEF SetSourceBinding, brokerVars
<1>2. /\ authors' \in Seq(Operators) /\ Len(authors') = Len(authors) + 1 /\ Len(authors) \in Nat
      /\ authors'[Len(authors) + 1] = o /\ \A i \in 1 .. Len(authors) : authors'[i] = authors[i]
  BY <1>0, <1>1, Appended
<1>3. WriteOnce
  BY <1>1, <1>2 DEF WriteOnce
<1>4. BindingInv'
  BY <1>1, <1>2 DEF OwnerInv, BindingInv
<1>5. \A g \in Grants : OfferOk(g)' /\ ReceiptOk(g)'
  <2> TAKE g \in Grants
  <2>1. OfferOk(g) /\ ReceiptOk(g)
    BY DEF OwnerInv
  <2> QED
    BY <1>1, <1>3, <2>1, OwnersStay DEF OfferOk, ReceiptOk
<1>6. InboxInv'
  BY <1>1, <1>3, InboxStays
<1> QED
  BY <1>1, <1>3, <1>4, <1>5, <1>6, SameRelay, StoredStays DEF OwnerInv

LEMMA IssueOwners ==
  ASSUME Shaped, BrokerInv, OwnerInv, NEW g \in Grants, IssueGrant(g)
  PROVE  OwnerInv'
<1>1. PICK d : d = [kind |-> "grant", grant |-> g]
  OBVIOUS
<1>2. d \in Docs /\ d.kind = "grant" /\ inbox' = Append(inbox, d)
      /\ UNCHANGED <<binding, authors, offers, receipt, stored, relay>>
  BY <1>1 DEF IssueGrant, Docs, GrantDocs
<1>3. \A h \in Grants : grant'[h].decision = grant[h].decision
  BY GrantsBroker
<1>4. WriteOnce
  BY <1>2, <1>3 DEF Shaped, ControllerShape, WriteOnce
<1>5. InboxInv' /\ inbox' # <<>>
  BY <1>2, <1>4, InboxGrows
<1>6. RelayInv'
  BY <1>2, <1>5 DEF OwnerInv, RelayInv
<1> QED
  BY <1>2, <1>3, <1>5, <1>6, OwnersQuiet

\* submit_provisioning: the caller is the owner under the binding the offer was recorded with.
LEMMA SubmitOwners ==
  ASSUME Shaped, OwnerInv, NEW o \in Operators, SubmitProvisioning(o)
  PROVE  OwnerInv'
<1>1. PICK g : g = call[o].grant
  OBVIOUS
<1>2. PICK c : c = call[o].cipher
  OBVIOUS
<1>3. g \in Grants /\ c \in Ciphers
  BY <1>1, <1>2 DEF SubmitProvisioning, Shaped, ClientShape, CallShape
<1>4. UNCHANGED <<grant, binding, authors, offers, stored, relay>>
  BY DEF SubmitProvisioning, brokerVars
<1>5. CASE ~MaySubmit(o, g)
  <2>1. UNCHANGED <<receipt, inbox>>
    BY <1>1, <1>5 DEF SubmitProvisioning
  <2> QED
    BY <1>4, <2>1, AsideOwners
<1>6. CASE MaySubmit(o, g)
  <2>1. PICK f : f = offers[g].offer
    OBVIOUS
  <2>2. PICK r : r = [by |-> o, cipher |-> c, offer |-> f.id]
    OBVIOUS
  <2>3. PICK d : d = [kind |-> "delivery", grant |-> g, offer |-> f, cipher |-> c]
    OBVIOUS
  <2>4. receipt' = [receipt EXCEPT ![g] = r] /\ inbox' = Append(inbox, d)
    BY <1>1, <1>2, <1>6, <2>1, <2>2, <2>3 DEF SubmitProvisioning
  <2>5. receipt[g] = None /\ offers[g] # None /\ offers[g].binding = binding.version /\ IsOwner(g, o, call[o].account.role)
    BY <1>6 DEF MaySubmit, Authority, OfferCurrent
  <2>6. offers[g] \in Recorded /\ f \in Offers /\ f.id \in Nat
    BY <1>3, <2>1, <2>5 DEF Shaped, ControllerShape, Recorded, Offers
  <2>7. r \in Receipts /\ r # None /\ r.by = o /\ r.cipher = c
    BY <1>3, <2>2, <2>6, RowsAreNotNone DEF Receipts
  <2>8. d \in Docs /\ d.kind = "delivery" /\ d.grant = g /\ d.offer = f /\ d.cipher = c
    BY <1>3, <2>3, <2>6 DEF Docs, DeliveryDocs
  <2>9. receipt'[g] = r /\ \A h \in Grants \ {g} : receipt'[h] = receipt[h]
    BY <1>3, <2>4 DEF Shaped, ControllerShape
  <2>10. WriteOnce
    BY <1>4, <2>5, <2>9 DEF Shaped, ControllerShape, WriteOnce
  <2>11. CollectedFor(g, f, c)'
    BY <1>4, <2>1, <2>5, <2>7, <2>9 DEF CollectedFor
  <2>12. InboxInv' /\ inbox' # <<>>
    BY <2>4, <2>8, <2>10, <2>11, InboxGrows
  <2>13. RelayInv'
    BY <1>4, <2>12 DEF OwnerInv, RelayInv
  <2>14. o = OwnerAt(g, offers[g].binding)
    <3>1. offers[g].binding \in 1 .. Len(authors) /\ authors[binding.version] = binding.by /\ Len(authors) \in Nat
      BY <1>3, <2>5 DEF OwnerInv, OfferOk, BindingInv, Shaped, ControllerShape
    <3>2. grant[g].decision \in {"allow", "pending_approval"}
      BY <1>3 DEF Shaped, ControllerShape, GrantRows
    <3> QED
      BY <2>5, <3>1, <3>2 DEF IsOwner, OwnerAt
  <2>15. ReceiptOk(g)'
    BY <1>4, <2>5, <2>7, <2>9, <2>14 DEF ReceiptOk, OwnerAt
  <2>16. \A h \in Grants : OfferOk(h)' /\ ReceiptOk(h)'
    <3> TAKE h \in Grants
    <3>1. OfferOk(h) /\ ReceiptOk(h)
      BY DEF OwnerInv
    <3>2. OfferOk(h)'
      BY <1>4, <3>1 DEF OfferOk
    <3>3. h # g => ReceiptOk(h)'
      BY <2>9, <2>10, <3>1, OwnersStay DEF ReceiptOk
    <3> QED
      BY <2>15, <3>2, <3>3
  <2>17. BindingInv'
    BY <1>4 DEF OwnerInv, BindingInv
  <2> QED
    BY <1>4, <2>10, <2>12, <2>13, <2>16, <2>17, StoredStays DEF OwnerInv
<1> QED
  BY <1>5, <1>6

\* record_browser_recipient_offer.
LEMMA RecordOwners ==
  ASSUME Shaped, OwnerInv, NEW g \in Grants, RecordOffer(g)
  PROVE  OwnerInv'
<1>1. UNCHANGED <<grant, binding, authors, receipt, inbox, relay, stored>>
  BY DEF RecordOffer, brokerVars
<1>2. CASE UNCHANGED offers
  BY <1>1, <1>2, AsideOwners
<1>3. CASE ~UNCHANGED offers
  <2>1. PICK r : r = [offer |-> outbox[g], binding |-> binding.version]
    OBVIOUS
  <2>2. offers[g] = None /\ binding.version > 0 /\ offers' = [offers EXCEPT ![g] = r] /\ r.binding = binding.version
    BY <1>3, <2>1 DEF RecordOffer, Context
  <2>3. offers'[g] = r /\ \A h \in Grants \ {g} : offers'[h] = offers[h]
    BY <2>2 DEF Shaped, ControllerShape
  <2>4. WriteOnce
    BY <1>1, <2>2, <2>3 DEF Shaped, ControllerShape, WriteOnce
  <2>5. OfferOk(g)'
    BY <1>1, <2>2, <2>3 DEF OfferOk, OwnerInv, BindingInv, Shaped, ControllerShape
  <2>6. receipt[g] = None
    BY <2>2 DEF OwnerInv, ReceiptOk
  <2>7. \A h \in Grants : OfferOk(h)' /\ ReceiptOk(h)'
    <3> TAKE h \in Grants
    <3>1. OfferOk(h) /\ ReceiptOk(h)
      BY DEF OwnerInv
    <3>2. OfferOk(h)'
      BY <1>1, <2>3, <2>5, <3>1 DEF OfferOk
    <3>3. ReceiptOk(h)'
      BY <1>1, <2>4, <2>6, <3>1, OwnersStay DEF ReceiptOk
    <3> QED
      BY <3>2, <3>3
  <2>8. BindingInv' /\ InboxInv'
    BY <1>1, <2>4, InboxStays DEF OwnerInv, BindingInv
  <2> QED
    BY <1>1, <2>4, <2>7, <2>8, SameRelay, StoredStays DEF OwnerInv
<1> QED
  BY <1>2, <1>3

LEMMA RelayOwners ==
  ASSUME Shaped, BrokerInv, OwnerInv
  PROVE  /\ RelayGrant => OwnerInv'
         /\ RestartRelay => OwnerInv'
         /\ Acknowledge => OwnerInv' /\ inbox # <<>>
         /\ RelayDelivery => OwnerInv'
<1>0. DOMAIN relay = {"done", "published"} /\ (relay.done => inbox # <<>>)
  BY DEF OwnerInv, RelayInv
<1>1. ASSUME RelayGrant PROVE OwnerInv'
  <2>1. inbox # <<>> /\ UNCHANGED <<grant, binding, authors, offers, receipt, stored, inbox>>
    BY <1>1 DEF RelayGrant, controller
  <2>2. DOMAIN relay' = {"done", "published"}
    BY <1>0, <1>1 DEF RelayGrant, Applied, Lost
  <2>3. RelayInv'
    BY <2>1, <2>2 DEF RelayInv
  <2> QED
    BY <2>1, <2>3, OwnersQuiet
<1>2. ASSUME RestartRelay PROVE OwnerInv'
  <2>1. /\ relay' = [done |-> FALSE, published |-> {}]
        /\ UNCHANGED <<grant, binding, authors, offers, receipt, stored, inbox>>
    BY <1>2 DEF RestartRelay, controller, brokerVars
  <2>2. RelayInv'
    BY <2>1 DEF RelayInv
  <2> QED
    BY <2>1, <2>2, OwnersQuiet
<1>3. ASSUME Acknowledge PROVE OwnerInv' /\ inbox # <<>>
  <2>1. /\ inbox # <<>> /\ inbox' = Tail(inbox) /\ relay' = [relay EXCEPT !.done = FALSE]
        /\ UNCHANGED <<grant, binding, authors, offers, receipt, stored>>
    BY <1>0, <1>3 DEF Acknowledge, controller, brokerVars
  <2>2. RelayInv'
    BY <1>0, <2>1 DEF RelayInv
  <2>3. WriteOnce
    BY <2>1 DEF Shaped, ControllerShape, WriteOnce
  <2>4. \A i \in DOMAIN inbox' : \E j \in DOMAIN inbox : inbox'[i] = inbox[j]
    BY <2>1, HeadTyped
  <2>5. InboxInv'
    BY <2>3, <2>4, InboxStays
  <2> QED
    BY <2>1, <2>2, <2>5, OwnersQuiet
<1>4. ASSUME RelayDelivery PROVE OwnerInv'
  <2>1. PICK d : d = Head(inbox)
    OBVIOUS
  <2>2. /\ ControllerSame /\ d \in DeliveryDocs /\ d = inbox[1] /\ 1 \in DOMAIN inbox
        /\ \/ UNCHANGED stored
           \/ \E s \in Sources : /\ stored' = Append(stored, s)
                                 /\ s.grant = d.grant /\ s.offer = d.offer
                                 /\ s.cipher = d.cipher /\ s.dest = s.offer.dest
    BY <1>4, <2>1, DeliveryMoves, HeadTyped DEF RelayDelivery
  <2>3. inbox # <<>> /\ DOMAIN relay' = {"done", "published"}
    BY <1>0, <1>4 DEF RelayDelivery, Applied, Lost
  <2>4. RelayInv'
    BY <2>2, <2>3 DEF RelayInv, ControllerSame
  <2>5. CASE UNCHANGED stored
    BY <2>2, <2>4, <2>5, OwnersQuiet DEF ControllerSame
  <2>6. ASSUME NEW s \in Sources, stored' = Append(stored, s),
               s.grant = d.grant, s.offer = d.offer, s.cipher = d.cipher, s.dest = s.offer.dest
        PROVE  OwnerInv'
    <3>1. /\ DOMAIN stored = 1 .. Len(stored) /\ DOMAIN stored' = 1 .. (Len(stored) + 1) /\ Len(stored) \in Nat
          /\ stored'[Len(stored) + 1] = s /\ \A i \in DOMAIN stored : stored'[i] = stored[i]
      BY <2>6, Appended DEF Shaped, BrokerShape
    <3>2. d.kind = "delivery"
      BY <2>2 DEF DeliveryDocs
    <3>3. CollectedFor(s.grant, s.offer, s.cipher)
      BY <2>2, <2>6, <3>2 DEF OwnerInv, InboxInv
    <3>4. StoredInv'
      <4>1. ASSUME NEW i \in DOMAIN stored'
            PROVE  (CollectedFor(stored[i].grant, stored[i].offer, stored[i].cipher)
                    /\ stored[i].dest = stored[i].offer.dest)'
        <5>1. PICK q : q = stored'[i]
          OBVIOUS
        <5>2. CollectedFor(q.grant, q.offer, q.cipher) /\ q.dest = q.offer.dest
          BY <2>6, <3>1, <3>3, <5>1 DEF OwnerInv, StoredInv
        <5> QED
          BY <2>2, <5>1, <5>2 DEF CollectedFor, ControllerSame
      <4> QED
        BY <4>1 DEF StoredInv
    <3>5. BindingInv' /\ InboxInv' /\ \A g \in Grants : OfferOk(g)' /\ ReceiptOk(g)'
      BY <2>2 DEF OwnerInv, BindingInv, InboxInv, OfferOk, ReceiptOk, OwnerAt, CollectedFor, ControllerSame
    <3> QED
      BY <2>4, <3>4, <3>5 DEF OwnerInv
  <2> QED
    BY <2>2, <2>5, <2>6
<1> QED
  BY <1>1, <1>2, <1>3, <1>4

IInv == Shaped /\ BrokerInv /\ OwnerInv

LEMMA InitInv == Init => IInv
<1> SUFFICES ASSUME Init PROVE IInv
  OBVIOUS
<1>1. Shaped
  BY InitShaped
<1>2. BrokerInv
  BY DEF Init, BrokerInv, LeaseInv, MintInv, StoreInv
<1>3. OwnerInv
  <2>1. RelayInv
    BY DEF Init, RelayInv
  <2>2. BindingInv
    BY DEF Init, BindingInv
  <2>3. (\A g \in Grants : OfferOk(g) /\ ReceiptOk(g)) /\ InboxInv /\ StoredInv
    BY DEF Init, OfferOk, ReceiptOk, InboxInv, StoredInv
  <2> QED
    BY <2>1, <2>2, <2>3 DEF OwnerInv
<1> QED
  BY <1>1, <1>2, <1>3 DEF IInv

LEMMA NextInv == IInv /\ [Next]_vars => IInv'
<1> SUFFICES ASSUME IInv, [Next]_vars PROVE Kept /\ OwnerInv'
  BY DEF Kept, IInv
<1>0. Shaped /\ BrokerInv /\ OwnerInv
  BY DEF IInv
<1>1. CASE UNCHANGED vars
  <2>1. ControllerSame /\ ClientSame /\ BrokerSame /\ UNCHANGED relay
    BY <1>1 DEF vars, controller, people, brokerVars, ControllerSame, ClientSame, BrokerSame
  <2> QED
    BY <1>0, <2>1, ControllerStays, ClientStays, OthersKept, AsideOwners DEF Shaped, ControllerSame, BrokerSame
<1>2. CASE RelayGrant \/ RestartRelay \/ RelayDelivery \/ Acknowledge
  BY <1>0, <1>2, RelayStepsKept, NodeStepsKept, DeliveryMoves, AcknowledgeKept, RelayOwners
<1>3. CASE RestartBroker \/ Maintain \/ Tick \/ StageRotation \/ RotateBroker \/ CompleteRotation
  <2>1. UNCHANGED <<grant, binding, authors, offers, receipt, stored, relay, inbox>>
    BY <1>3 DEF RestartBroker, Maintain, Tick, StageRotation, RotateBroker, CompleteRotation, controller, brokerVars
  <2> QED
    BY <1>0, <1>3, <2>1, NodeStepsKept, AsideOwners
<1>4. ASSUME NEW g \in Grants, IssueGrant(g) \/ CloseGrant(g) \/ EndLease(g) \/ RecordOffer(g) PROVE Kept /\ OwnerInv'
  <2>1. Kept
    BY <1>0, <1>4, GrantStepsKept
  <2>2. ASSUME CloseGrant(g) \/ EndLease(g) PROVE OwnerInv'
    <3>1. UNCHANGED <<binding, authors, offers, receipt, stored, relay, inbox>>
      BY <2>2 DEF CloseGrant, EndLease, controller, brokerVars
    <3>2. \A h \in Grants : grant'[h].decision = grant[h].decision
      BY <1>0, <2>2, GrantsBroker DEF EndLease, controller
    <3> QED
      BY <1>0, <3>1, <3>2, AsideOwners
  <2> QED
    BY <1>0, <1>4, <2>1, <2>2, IssueOwners, RecordOwners
<1>5. ASSUME NEW o \in Operators, EndSession(o) \/ CreateLink(o) \/ SubmitProvisioning(o) PROVE Kept /\ OwnerInv'
  <2>1. Kept
    BY <1>0, <1>5, PeopleKept
  <2>2. ASSUME EndSession(o) \/ CreateLink(o) PROVE OwnerInv'
    <3>1. UNCHANGED <<grant, binding, authors, offers, receipt, stored, relay, inbox>>
      BY <2>2 DEF EndSession, CreateLink, controller, brokerVars
    <3> QED
      BY <1>0, <3>1, AsideOwners
  <2> QED
    BY <1>0, <1>5, <2>1, <2>2, SubmitOwners
<1>6. ASSUME NEW o \in Operators, NEW d \in Dests, SetSourceBinding(o, d) PROVE Kept /\ OwnerInv'
  BY <1>0, <1>6, PeopleKept, BindingOwners
<1>7. ASSUME NEW o \in Operators, NEW g \in Grants, ReadMetadata(o, g) \/ BeginSubmit(o, g) PROVE Kept /\ OwnerInv'
  <2>1. UNCHANGED <<grant, binding, authors, offers, receipt, stored, relay, inbox>>
    BY <1>7 DEF ReadMetadata, BeginSubmit, Begin, controller, brokerVars
  <2> QED
    BY <1>0, <1>7, <2>1, PeopleKept, AsideOwners
<1>8. ASSUME NEW o \in Operators, NEW g \in Grants, NEW k \in Keys, BeginLink(o, g, k) PROVE Kept /\ OwnerInv'
  <2>1. UNCHANGED <<grant, binding, authors, offers, receipt, stored, relay, inbox>>
    BY <1>8 DEF BeginLink, Begin, controller, brokerVars
  <2> QED
    BY <1>0, <1>8, <2>1, PeopleKept, AsideOwners
<1> QED
  BY <1>1, <1>2, <1>3, <1>4, <1>5, <1>6, <1>7, <1>8 DEF Next, Relay

LEMMA Invariant == Spec => []IInv
BY InitInv, NextInv, PTL DEF Spec

\* The broker signs one offer for a grant, whatever is retried, restarted, lost or left to
\* expire: mint_browser_offer finds the entry of the book, and BrowserOfferBook::purge forgets
\* it only when the grant itself has run out; a restart ends the leases with the book.
THEOREM OneOffer == Spec => []OneOfferPerGrant
<1>1. IInv => OneOfferPerGrant
  BY DEF IInv, BrokerInv, MintInv, OneOfferPerGrant
<1> QED
  BY <1>1, Invariant, PTL

\* What the credential store holds for a grant is the one ciphertext submitted by the person
\* named as owner, for the recorded offer and its destination, and it is stored once, however
\* deliveries are replayed and sessions, bindings and keys change (submit_provisioning,
\* authority!, admit_browser_source).
THEOREM StoredHolds == Spec => []StoredAsCollected
<1>1. IInv => StoredAsCollected
  <2> SUFFICES ASSUME IInv PROVE StoredAsCollected
    OBVIOUS
  <2>1. StoredOnce
    BY DEF IInv, BrokerInv, StoreInv, StoredOnce
  <2>2. StoredForOwner
    <3> SUFFICES ASSUME NEW i \in DOMAIN stored, NEW s, s = stored[i]
                 PROVE  /\ receipt[s.grant] # None /\ receipt[s.grant].cipher = s.cipher
                        /\ offers[s.grant].offer = s.offer /\ s.dest = s.offer.dest
                        /\ receipt[s.grant].by = OwnerAt(s.grant, offers[s.grant].binding)
      BY DEF StoredForOwner
    <3>1. CollectedFor(s.grant, s.offer, s.cipher) /\ s.dest = s.offer.dest
      BY DEF IInv, OwnerInv, StoredInv
    <3>2. s.grant \in Grants
      BY HistoryGrants DEF IInv
    <3>3. ReceiptOk(s.grant)
      BY <3>2 DEF IInv, OwnerInv
    <3> QED
      BY <3>1, <3>3 DEF CollectedFor, ReceiptOk
  <2> QED
    BY <2>1, <2>2 DEF StoredAsCollected
<1> QED
  BY <1>1, Invariant, PTL

-----------------------------------------------------------------------------
(* Fulfillment: for every set of fulfillments, every rule document, all    *)
(* lifetimes and any disturbances.  Its constants and variables are its    *)
(* own; the names it shares with Provisioning are told apart here.    *)

CONSTANTS
  Other, Ids, Fresh, Requesters, Approvers, Documents, ApprovalTtl, TermsTtl, OfferTtl,
  MaxEntries, MaxDisturbed, Scenes

VARIABLES
  row, payload, recorded, document, authority, enabled, sweep, inboxes, relayed, asked, outboxes,
  known, entry, sealed, tombs, dest, source, mints, offerLeft, plan, opened, read, covered

F == INSTANCE Fulfillment
       WITH MaxFaults <- MaxDisturbed, inbox <- inboxes, outbox <- outboxes,
            minted <- mints

\* The statuses before an offer is recorded.
Early == {"absent", "awaiting_approval", "approved"}

\* The documents for the recipient broker form a sequence, whatever they say.
IsSequence(q) == \E S : q \in Seq(S)

RowNames == {"status", "by", "prior", "policy", "at", "offer", "left"}
EntryNames == {"phase", "offer", "replaces", "receipt", "held"}

FShaped ==
  /\ DOMAIN row = Ids /\ \A f \in Ids : DOMAIN row[f] = RowNames
  /\ DOMAIN entry = Ids /\ \A f \in Ids : DOMAIN entry[f] = EntryNames
  /\ DOMAIN mints = Ids /\ \A f \in Ids : mints[f] \in Nat
  /\ DOMAIN opened = Ids /\ \A f \in Ids : opened[f] \in {0, 1}
  /\ DOMAIN inboxes = F!Sides /\ IsSequence(inboxes["recipient"])
  /\ sweep.status \notin Early \cup {"pruned"}

\* Every delivery of fulfillment f carries the one offer that its row r recorded.
Carries(doc, r, f) ==
  doc.kind = "deliver" /\ doc.id = f =>
    r.status = "pruned" \/ (r.status \notin Early /\ doc.n = r.offer)

\* The row r, the entry e, the number m of offers minted, the number o of payloads
\* opened and the documents q on their way agree about fulfillment f.
Agree(r, e, m, o, q, f) ==
  /\ r.status = "pruned" => r.left = 0
  /\ e.phase = "offered" => e.offer \in 0..m
  /\ \A i \in 1..Len(q) : Carries(q[i], r, f)
  /\ o # 0 /\ r.status # "pruned" =>
       /\ r.status \notin Early /\ r.offer \in 0..m
       /\ e.phase = "offered" => e.offer # r.offer

FSound(f) == Agree(row[f], entry[f], mints[f], opened[f], inboxes["recipient"], f)

\* Relays count the documents they have handed over, and deliveries go to the
\* recipient only.
Relaying ==
  /\ relayed \in [F!Sides -> Nat]
  /\ IsSequence(inboxes["issuer"])
  /\ \A i \in 1..Len(inboxes["issuer"]) : inboxes["issuer"][i].kind # "deliver"

FInv == FShaped /\ \A f \in Ids : FSound(f)

-----------------------------------------------------------------------------
(* One fulfillment: what the controller and the recipient broker may do.   *)

\* Documents are only added with what the row has by then.
DocsFrom(q, q1, r1, f) ==
  \A i \in 1..Len(q1) : (\E j \in 1..Len(q) : q1[i] = q[j]) \/ Carries(q1[i], r1, f)

RowMoves(r, r1) ==
  \/ r1 = r
  \/ r.status \in Early /\ r1.status # "pruned"
  \/ /\ r.status \notin Early \cup {"pruned"} /\ r1.status \notin Early \cup {"pruned"}
     /\ r1.offer = r.offer
  \/ r1.status = r.status /\ r1.offer = r.offer /\ (r.left = 0 => r1.left = 0)
  \/ r1.status = "pruned" /\ r1.left = 0

LEMMA RowMovesAgree ==
  ASSUME NEW r, NEW e, NEW m, NEW o, NEW q, NEW f, Agree(r, e, m, o, q, f),
         NEW r1, NEW q1, RowMoves(r, r1), DocsFrom(q, q1, r1, f)
  PROVE  Agree(r1, e, m, o, q1, f)
<1>1. ASSUME NEW i \in 1..Len(q1) PROVE Carries(q1[i], r1, f)
  <2>1. CASE Carries(q1[i], r1, f)
    BY <2>1
  <2>2. ASSUME NEW j \in 1..Len(q), q1[i] = q[j] PROVE Carries(q1[i], r1, f)
    <3>1. Carries(q[j], r, f)
      BY DEF Agree
    <3> QED
      BY <2>2, <3>1 DEF Carries, RowMoves, Early
  <2> QED
    BY <2>1, <2>2 DEF DocsFrom
<1>2. r1.status = "pruned" => r1.left = 0
  BY DEF Agree, RowMoves, Early
<1>3. o # 0 /\ r1.status # "pruned" =>
        /\ r1.status \notin Early /\ r1.offer \in 0..m
        /\ e.phase = "offered" => e.offer # r1.offer
  BY DEF Agree, RowMoves, Early
<1> QED
  BY <1>1, <1>2, <1>3 DEF Agree

\* An entry becomes "offered" only with a new number.
EntryMoves(e, e1, m, m1) ==
  /\ m1 \in {m, m + 1}
  /\ e1.phase = "offered" =>
       \/ e.phase = "offered" /\ e1.offer = e.offer
       \/ e1.offer = m + 1 /\ m1 = m + 1

LEMMA EntryMovesAgree ==
  ASSUME NEW r, NEW e, NEW m \in Nat, NEW o, NEW q, NEW f, Agree(r, e, m, o, q, f),
         NEW e1, NEW m1, EntryMoves(e, e1, m, m1)
  PROVE  Agree(r, e1, m1, o, q, f) /\ m1 \in Nat
<1>1. m1 \in Nat /\ (\A x : x \in 0..m => x \in 0..m1 /\ x # m + 1)
  BY DEF EntryMoves
<1>2. m + 1 \in 0..(m + 1)
  OBVIOUS
<1>3. e1.phase = "offered" => e1.offer \in 0..m1
  BY <1>1, <1>2 DEF Agree, EntryMoves
<1>4. o # 0 /\ r.status # "pruned" =>
        /\ r.status \notin Early /\ r.offer \in 0..m1
        /\ e1.phase = "offered" => e1.offer # r.offer
  BY <1>1 DEF Agree, EntryMoves
<1> QED
  BY <1>1, <1>3, <1>4 DEF Agree

-----------------------------------------------------------------------------
(* Steps of the controller, which leave the books alone.                   *)

LEMMA AppendedDoc ==
  ASSUME NEW q, IsSequence(q), NEW m
  PROVE  /\ IsSequence(Append(q, m))
         /\ \A i \in 1..Len(Append(q, m)) :
              (\E j \in 1..Len(q) : Append(q, m)[i] = q[j]) \/ Append(q, m)[i] = m
<1> PICK S : q \in Seq(S)
  BY DEF IsSequence
<1>1. q \in Seq(S \cup {m})
  OBVIOUS
<1>2. Append(q, m) \in Seq(S \cup {m})
  BY <1>1
<1>3. Len(Append(q, m)) = Len(q) + 1 /\ Len(q) \in Nat
  BY <1>1
<1>4. \A i \in 1..Len(q) : Append(q, m)[i] = q[i]
  BY <1>1
<1>5. Append(q, m)[Len(q) + 1] = m
  BY <1>1
<1> QED
  BY <1>2, <1>3, <1>4, <1>5 DEF IsSequence

\* The recipient's documents, with m added or not.
Posted(m) ==
  /\ DOMAIN inboxes' = F!Sides /\ IsSequence(inboxes'["recipient"])
  /\ \A i \in 1..Len(inboxes'["recipient"]) :
       \/ \E j \in 1..Len(inboxes["recipient"]) : inboxes'["recipient"][i] = inboxes["recipient"][j]
       \/ inboxes'["recipient"][i] = m

LEMMA SentIsPosted ==
  ASSUME FInv, NEW m,
         \/ UNCHANGED inboxes
         \/ \E s \in F!Sides : inboxes' = F!Send(inboxes, s, m)
         \/ inboxes' = F!SendBoth(inboxes, m)
  PROVE  Posted(m)
<1>1. DOMAIN inboxes = F!Sides /\ IsSequence(inboxes["recipient"]) /\ "recipient" \in F!Sides
  BY DEF FInv, FShaped, F!Sides
<1>2. DOMAIN inboxes' = F!Sides
  BY <1>1 DEF F!Send, F!SendBoth
<1>3. inboxes'["recipient"] = inboxes["recipient"] \/ inboxes'["recipient"] = Append(inboxes["recipient"], m)
  BY <1>1 DEF F!Send, F!SendBoth
<1>4. CASE inboxes'["recipient"] = inboxes["recipient"]
  BY <1>1, <1>2, <1>4 DEF Posted
<1>5. CASE inboxes'["recipient"] = Append(inboxes["recipient"], m)
  <2>1. /\ IsSequence(Append(inboxes["recipient"], m))
        /\ \A i \in 1..Len(Append(inboxes["recipient"], m)) :
             \/ \E j \in 1..Len(inboxes["recipient"]) :
                  Append(inboxes["recipient"], m)[i] = inboxes["recipient"][j]
             \/ Append(inboxes["recipient"], m)[i] = m
    BY <1>1, AppendedDoc
  <2> QED
    BY <1>2, <1>5, <2>1 DEF Posted
<1> QED
  BY <1>3, <1>4, <1>5

LEMMA ControllerKept ==
  ASSUME FInv, UNCHANGED <<entry, mints, opened>>, NEW m, Posted(m),
         sweep'.status \notin Early \cup {"pruned"}, DOMAIN row' = Ids,
         \A f \in Ids : /\ DOMAIN row'[f] = RowNames /\ RowMoves(row[f], row'[f])
                        /\ Carries(m, row'[f], f)
  PROVE  FInv'
<1>1. FShaped'
  BY DEF FInv, FShaped, Posted
<1>2. ASSUME NEW f \in Ids PROVE FSound(f)'
  <2>1. Agree(row[f], entry[f], mints[f], opened[f], inboxes["recipient"], f)
    BY DEF FInv, FSound
  <2>2. DocsFrom(inboxes["recipient"], inboxes'["recipient"], row'[f], f)
    BY DEF Posted, DocsFrom
  <2>3. Agree(row'[f], entry[f], mints[f], opened[f], inboxes'["recipient"], f)
    BY <2>1, <2>2, RowMovesAgree
  <2> QED
    BY <2>3 DEF FSound
<1> QED
  BY <1>1, <1>2 DEF FInv

\* The recipient learns nothing from a step that posts no delivery to it.
LEMMA NoDelivery ==
  ASSUME NEW k, k # "deliver", NEW x, NEW n, NEW r, NEW f
  PROVE  Carries(F!Message(k, x, n), r, f)
  BY DEF Carries, F!Message

LEMMA RowKinds == "pruned" \notin Early /\ F!Active \cap {"pruned"} = {}
  BY DEF Early, F!Active

\* A row x changes and the others do not; x may be no row at all.
LEMMA OneRow ==
  ASSUME FInv, NEW x, NEW r1, row' = [row EXCEPT ![x] = r1],
         x \in Ids => DOMAIN r1 = RowNames /\ RowMoves(row[x], r1)
  PROVE  /\ DOMAIN row' = Ids
         /\ \A f \in Ids : DOMAIN row'[f] = RowNames /\ RowMoves(row[f], row'[f])
         /\ \A f \in Ids : row'[f] = IF f = x THEN r1 ELSE row[f]
<1>1. DOMAIN row = Ids /\ \A f \in Ids : DOMAIN row[f] = RowNames
  BY DEF FInv, FShaped
<1>2. DOMAIN row' = Ids /\ \A f \in Ids : row'[f] = IF f = x THEN r1 ELSE row[f]
  BY <1>1
<1> QED
  BY <1>1, <1>2 DEF RowMoves

LEMMA KeptCreate ==
  ASSUME FInv, NEW x \in Ids, NEW o, NEW p, F!Create(x, o, p)
  PROVE  FInv'
<1>1. /\ row[x].status = "absent" /\ F!Decided(x, o, p, F!EvaluateCrossPolicy(document))
      /\ UNCHANGED <<entry, mints, opened, sweep>>
  BY DEF F!Create, F!CreateFulfillment, F!book, F!history
<1>2. PICK r1 : /\ row' = [row EXCEPT ![x] = r1] /\ DOMAIN r1 = RowNames /\ r1.status # "pruned"
                /\ inboxes' = inboxes \/ inboxes' = F!Send(inboxes, "recipient", F!Message("authorize", x, 0))
  <2>1. /\ DOMAIN F!Requested(o, p, "awaiting_approval", ApprovalTtl) = RowNames
        /\ F!Requested(o, p, "awaiting_approval", ApprovalTtl).status = "awaiting_approval"
    BY DEF F!Requested, F!NoRow, RowNames
  <2>2. /\ DOMAIN F!Requested(o, p, "denied", 0) = RowNames
        /\ F!Requested(o, p, "denied", 0).status = "denied"
    BY DEF F!Requested, F!NoRow, RowNames
  <2>3. /\ DOMAIN F!Authorized(F!Requested(o, p, "approved", 0)) = RowNames
        /\ F!Authorized(F!Requested(o, p, "approved", 0)).status = "approved"
    BY DEF F!Authorized, F!Requested, F!NoRow, RowNames
  <2> QED
    BY <1>1, <2>1, <2>2, <2>3 DEF F!Decided, F!RecipientTold
<1>3. Posted(F!Message("authorize", x, 0))
  BY <1>2, SentIsPosted DEF F!Sides
<1>4. RowMoves(row[x], r1)
  BY <1>1, <1>2 DEF RowMoves, Early
<1>5. /\ DOMAIN row' = Ids
      /\ \A f \in Ids : DOMAIN row'[f] = RowNames /\ RowMoves(row[f], row'[f])
  BY <1>2, <1>4, OneRow
<1> QED
  BY <1>1, <1>3, <1>5, NoDelivery, ControllerKept DEF FInv, FShaped

LEMMA KeptDecide ==
  ASSUME FInv, NEW x \in Ids, NEW o, NEW v, F!Decide(x, o, v)
  PROVE  FInv'
<1>1. /\ row[x].status = "awaiting_approval" /\ F!DecideFulfillment(x, o, v)
      /\ UNCHANGED <<entry, mints, opened, sweep>>
  BY DEF F!Decide, F!DecideFulfillment, F!book, F!history
<1>2. DOMAIN row = Ids /\ DOMAIN row[x] = RowNames
  BY DEF FInv, FShaped
<1>3. PICK r1 : /\ row' = [row EXCEPT ![x] = r1] /\ DOMAIN r1 = RowNames /\ r1.status # "pruned"
                /\ inboxes' = inboxes \/ inboxes' = F!Send(inboxes, "recipient", F!Message("authorize", x, 0))
  <2>1. ASSUME NEW st
        PROVE  DOMAIN [row[x] EXCEPT !.status = st] = RowNames
               /\ [row[x] EXCEPT !.status = st].status = st
    BY <1>2 DEF RowNames
  <2>2. DOMAIN F!Authorized(row[x]) = RowNames /\ F!Authorized(row[x]).status = "approved"
    BY <1>2 DEF F!Authorized, RowNames
  <2>3. \/ row' = [row EXCEPT ![x] = [row[x] EXCEPT !.status = "denied"]] /\ inboxes' = inboxes
        \/ row' = [row EXCEPT ![x] = [row[x] EXCEPT !.status = "expired"]] /\ inboxes' = inboxes
        \/ row' = [row EXCEPT ![x] = F!Authorized(row[x])] /\ inboxes' = F!RecipientTold(x)
    BY <1>1 DEF F!DecideFulfillment
  <2>4. CASE row' = [row EXCEPT ![x] = [row[x] EXCEPT !.status = "denied"]] /\ inboxes' = inboxes
    BY <2>1, <2>4
  <2>5. CASE row' = [row EXCEPT ![x] = [row[x] EXCEPT !.status = "expired"]] /\ inboxes' = inboxes
    BY <2>1, <2>5
  <2>6. CASE row' = [row EXCEPT ![x] = F!Authorized(row[x])] /\ inboxes' = F!RecipientTold(x)
    BY <2>2, <2>6 DEF F!RecipientTold
  <2> QED
    BY <2>3, <2>4, <2>5, <2>6
<1>4. Posted(F!Message("authorize", x, 0))
  BY <1>3, SentIsPosted DEF F!Sides
<1>5. RowMoves(row[x], r1)
  BY <1>1, <1>3 DEF RowMoves, Early
<1>6. /\ DOMAIN row' = Ids
      /\ \A f \in Ids : DOMAIN row'[f] = RowNames /\ RowMoves(row[f], row'[f])
  BY <1>3, <1>5, OneRow
<1> QED
  BY <1>1, <1>4, <1>6, NoDelivery, ControllerKept DEF FInv, FShaped

LEMMA KeptPrune ==
  ASSUME FInv, NEW x \in Ids, F!PruneFulfillments(x)
  PROVE  FInv'
<1> DEFINE r1 == [F!NoRow EXCEPT !.status = "pruned"]
<1>1. row' = [row EXCEPT ![x] = r1] /\ UNCHANGED <<entry, mints, opened, sweep, inboxes>>
  BY DEF F!PruneFulfillments, F!relay, F!book, F!history
<1>2. DOMAIN r1 = RowNames /\ r1.status = "pruned" /\ r1.left = 0
  BY DEF F!NoRow, RowNames
<1> HIDE DEF r1
<1>3. RowMoves(row[x], r1)
  BY <1>2 DEF RowMoves
<1>4. /\ DOMAIN row' = Ids
      /\ \A f \in Ids : DOMAIN row'[f] = RowNames /\ RowMoves(row[f], row'[f])
  BY <1>1, <1>2, <1>3, OneRow
<1>5. Posted(F!Message("none", x, 0))
  BY <1>1, SentIsPosted
<1> QED
  BY <1>1, <1>4, <1>5, NoDelivery, ControllerKept DEF FInv, FShaped

\* A row changes its status, to one that is neither early nor pruned.
LEMMA StatusRow ==
  ASSUME FInv, NEW x, NEW st, st \notin Early \cup {"pruned"}, x \in Ids => row[x].status # "pruned",
         row' = [row EXCEPT ![x].status = st]
  PROVE  /\ DOMAIN row' = Ids
         /\ \A f \in Ids : DOMAIN row'[f] = RowNames /\ RowMoves(row[f], row'[f])
<1> DEFINE r1 == [row[x] EXCEPT !.status = st]
<1>1. row' = [row EXCEPT ![x] = r1]
  OBVIOUS
<1>2. ASSUME x \in Ids PROVE DOMAIN r1 = RowNames /\ r1.status = st /\ r1.offer = row[x].offer
  <2>1. DOMAIN row[x] = RowNames
    BY <1>2 DEF FInv, FShaped
  <2> QED
    BY <2>1 DEF RowNames
<1> HIDE DEF r1
<1>3. x \in Ids => RowMoves(row[x], r1)
  BY <1>2 DEF RowMoves
<1> QED
  BY <1>1, <1>2, <1>3, OneRow

LEMMA CloseKept ==
  ASSUME FInv, NEW x, NEW st, st \notin Early \cup {"pruned"}, x \in Ids => row[x].status \in F!Active,
         F!Close(x, st), UNCHANGED <<entry, mints, opened>>,
         sweep'.status \notin Early \cup {"pruned"}
  PROVE  FInv'
<1>1. /\ DOMAIN row' = Ids
      /\ \A f \in Ids : DOMAIN row'[f] = RowNames /\ RowMoves(row[f], row'[f])
  BY StatusRow, RowKinds DEF F!Close
<1>2. inboxes' = inboxes \/ inboxes' = F!SendBoth(inboxes, F!Message("revoke", x, 0))
  BY DEF F!Close
<1>3. Posted(F!Message("revoke", x, 0))
  BY <1>2, SentIsPosted
<1> QED
  BY <1>1, <1>3, NoDelivery, ControllerKept

LEMMA KeptRevoke ==
  ASSUME FInv, NEW x \in Ids, F!RevokeFulfillment(x)
  PROVE  FInv'
<1>1. /\ row[x].status \in F!Active /\ F!Close(x, "revoked")
      /\ UNCHANGED <<entry, mints, opened, sweep>>
  BY DEF F!RevokeFulfillment, F!book, F!history
<1>2. "revoked" \notin Early \cup {"pruned"}
  BY DEF Early
<1> QED
  BY <1>1, <1>2, CloseKept DEF FInv, FShaped

LEMMA KeptSweepRead ==
  ASSUME FInv, NEW x \in Ids, F!SweepRead(x)
  PROVE  FInv'
<1>1. /\ UNCHANGED <<row, entry, mints, opened, inboxes>>
      /\ sweep' = [id |-> x, status |-> F!SweepVerdict(row[x])]
  BY DEF F!SweepRead, F!store, F!relay, F!book, F!history
<1>2. F!SweepVerdict(row[x]) \in {"revoked", "uncertain", "none", "expired", "failed"}
  BY DEF F!SweepVerdict, F!ExpiredTo
<1>3. sweep'.status \notin Early \cup {"pruned"}
  BY <1>1, <1>2 DEF Early
<1>4. FShaped'
  BY <1>1, <1>3 DEF FInv, FShaped
<1> QED
  BY <1>1, <1>4 DEF FInv, FSound

\* The rows, the books and the recipient's documents stay as they are.
LEMMA NothingKept ==
  ASSUME FInv, UNCHANGED <<row, sweep, entry, mints, opened, inboxes>>
  PROVE  FInv'
  BY DEF FInv, FShaped, FSound

LEMMA KeptSweepClose ==
  ASSUME FInv, F!SweepClose
  PROVE  FInv'
<1>1. sweep' = F!NoVerdict /\ UNCHANGED <<entry, mints, opened>>
  BY DEF F!SweepClose, F!book, F!history
<1>2. sweep.status \notin Early \cup {"pruned"} /\ sweep'.status \notin Early \cup {"pruned"}
  BY <1>1 DEF FInv, FShaped, F!NoVerdict, Early
<1>3. CASE row[sweep.id].status \in F!Active
  BY <1>1, <1>2, <1>3, CloseKept DEF F!SweepClose
<1>4. CASE row[sweep.id].status \notin F!Active
  <2>1. UNCHANGED <<row, inboxes>>
    BY <1>4 DEF F!SweepClose
  <2> QED
    BY <1>1, <1>2, <2>1 DEF FInv, FShaped, FSound
<1> QED
  BY <1>3, <1>4

LEMMA KeptOffer ==
  ASSUME FInv, NEW e, F!OfferAccepted(e), F!ApplyOffer(e), UNCHANGED <<entry, mints, opened, sweep>>
  PROVE  FInv'
<1> DEFINE r1 == [row[e.id] EXCEPT !.status = "offered", !.offer = e.n]
<1>1. row' = [row EXCEPT ![e.id] = r1]
  BY Zenon DEF F!ApplyOffer
<1>2. ASSUME e.id \in Ids PROVE DOMAIN r1 = RowNames /\ r1.status = "offered"
  <2>1. DOMAIN row[e.id] = RowNames
    BY <1>2 DEF FInv, FShaped
  <2> QED
    BY <2>1 DEF RowNames
<1> HIDE DEF r1
<1>3. e.id \in Ids => RowMoves(row[e.id], r1)
  BY <1>2 DEF RowMoves, F!OfferAccepted, Early
<1>4. /\ DOMAIN row' = Ids
      /\ \A f \in Ids : DOMAIN row'[f] = RowNames /\ RowMoves(row[f], row'[f])
  BY <1>1, <1>2, <1>3, OneRow
<1>5. Posted(F!Message("authorize", e.id, e.n))
  BY SentIsPosted DEF F!ApplyOffer, F!Sides
<1> QED
  BY <1>4, <1>5, NoDelivery, ControllerKept DEF FInv, FShaped

LEMMA KeptSubmit ==
  ASSUME FInv, NEW e, F!SubmitAccepted(e), F!ApplySubmit(e), UNCHANGED <<entry, mints, opened, sweep>>
  PROVE  FInv'
<1>1. /\ row[e.id].status = "offered" /\ e.n = row[e.id].offer
      /\ row' = [row EXCEPT ![e.id].status = "available"]
  BY DEF F!SubmitAccepted, F!ApplySubmit
<1>2. /\ DOMAIN row' = Ids
      /\ \A f \in Ids : DOMAIN row'[f] = RowNames /\ RowMoves(row[f], row'[f])
  <2>1. "available" \notin Early \cup {"pruned"}
    BY DEF Early
  <2> QED
    BY <1>1, <2>1, StatusRow
<1>3. Posted(F!Message("deliver", e.id, e.n))
  BY SentIsPosted DEF F!ApplySubmit, F!Sides
<1>4. ASSUME NEW f \in Ids PROVE Carries(F!Message("deliver", e.id, e.n), row'[f], f)
  <2>1. CASE e.id # f
    BY <2>1 DEF Carries, F!Message
  <2>2. CASE e.id = f
    <3>1. DOMAIN row = Ids /\ DOMAIN row[f] = RowNames
      BY DEF FInv, FShaped
    <3>2. row'[f] = [row[f] EXCEPT !.status = "available"]
      BY <1>1, <2>2, <3>1
    <3>3. row'[f].status = "available" /\ row'[f].offer = row[f].offer
      BY <3>1, <3>2 DEF RowNames
    <3> QED
      BY <1>1, <2>2, <3>3 DEF Carries, F!Message, Early
  <2> QED
    BY <2>1, <2>2
<1> QED
  BY <1>2, <1>3, <1>4, ControllerKept DEF FInv, FShaped

\* A report ends a fulfillment that is under way, or changes nothing.
LEMMA KeptReport ==
  ASSUME FInv, NEW e, F!ApplyStored(e) \/ F!ApplyConsumed(e), UNCHANGED <<entry, mints, opened, sweep>>
  PROVE  FInv'
<1>1. UNCHANGED inboxes
  BY DEF F!ApplyStored, F!ApplyConsumed
<1>2. CASE UNCHANGED row
  BY <1>1, <1>2, NothingKept
<1>3. ASSUME NEW st \in {"expired", "recipient_consumed", "completed"},
             row[e.id].status \in {"available", "recipient_consumed", "uncertain"},
             row' = [row EXCEPT ![e.id].status = st]
      PROVE  FInv'
  <2>1. st \notin Early \cup {"pruned"} /\ row[e.id].status # "pruned"
    BY <1>3 DEF Early
  <2>2. /\ DOMAIN row' = Ids
        /\ \A f \in Ids : DOMAIN row'[f] = RowNames /\ RowMoves(row[f], row'[f])
    BY <1>3, <2>1, StatusRow
  <2>3. Posted(F!Message("none", e.id, 0))
    BY <1>1, SentIsPosted
  <2> QED
    BY <2>2, <2>3, NoDelivery, ControllerKept DEF FInv, FShaped
<1>4. \/ UNCHANGED row
      \/ /\ row[e.id].status \in {"available", "recipient_consumed", "uncertain"}
         /\ \E st \in {"expired", "recipient_consumed", "completed"} :
              row' = [row EXCEPT ![e.id].status = st]
  <2>1. CASE F!ApplyConsumed(e)
    BY <2>1 DEF F!ApplyConsumed
  <2>2. CASE F!ApplyStored(e)
    <3>1. CASE row[e.id].status = "uncertain"
      BY <2>2, <3>1 DEF F!ApplyStored
    <3>2. CASE row[e.id].status # "uncertain"
      BY <2>2, <3>2 DEF F!ApplyStored
    <3> QED
      BY <3>1, <3>2
  <2> QED
    BY <2>1, <2>2
<1> QED
  BY <1>2, <1>3, <1>4

LEMMA KeptSendEvent ==
  ASSUME FInv, NEW s, F!SendEvent(s)
  PROVE  FInv'
<1> DEFINE e == Head(outboxes[s])
<1>1. F!RecordFulfillmentEvent(e) /\ UNCHANGED <<entry, mints, opened, sweep>>
  BY DEF F!SendEvent, F!book, F!history
<1> HIDE DEF e
<1>2. CASE ~F!Accepted(e)
  <2>1. UNCHANGED <<row, inboxes>>
    BY <1>1, <1>2 DEF F!RecordFulfillmentEvent, F!store
  <2> QED
    BY <1>1, <2>1, NothingKept
<1>3. CASE F!Accepted(e) /\ e.kind = "offer" /\ F!ApplyOffer(e)
  BY <1>1, <1>3, KeptOffer DEF F!Accepted
<1>4. CASE F!Accepted(e) /\ e.kind = "submit" /\ F!ApplySubmit(e)
  BY <1>1, <1>4, KeptSubmit DEF F!Accepted
<1>5. CASE F!ApplyStored(e) \/ F!ApplyConsumed(e)
  BY <1>1, <1>5, KeptReport
<1>6. CASE F!ApplyFailed(e)
  <2>1. CASE UNCHANGED <<row, inboxes>>
    BY <1>1, <2>1, NothingKept
  <2>2. CASE row[e.id].status \in F!Active /\ F!Close(e.id, "failed")
    <3>1. "failed" \notin Early \cup {"pruned"}
      BY DEF Early
    <3> QED
      BY <1>1, <2>2, <3>1, CloseKept DEF FInv, FShaped
  <2> QED
    BY <1>6, <2>1, <2>2 DEF F!ApplyFailed
<1> QED
  BY <1>1, <1>2, <1>3, <1>4, <1>5, <1>6 DEF F!RecordFulfillmentEvent

\* Policies and registrations are documents too.
LEMMA KeptSettings ==
  ASSUME FInv, F!ChangePolicy \/ \E s \in F!Sides : F!ChangeParty(s)
  PROVE  FInv'
<1>1. UNCHANGED <<row, sweep, entry, mints, opened>>
  BY DEF F!ChangePolicy, F!ChangeParty, F!store, F!book, F!history
<1>2. PICK k, n : /\ k # "deliver"
                  /\ \/ \E s \in F!Sides : inboxes' = F!Send(inboxes, s, F!Message(k, 0, n))
                     \/ inboxes' = F!SendBoth(inboxes, F!Message(k, 0, n))
  BY DEF F!ChangePolicy, F!ChangeParty
<1>3. Posted(F!Message(k, 0, n))
  BY <1>2, SentIsPosted
<1>4. \A f \in Ids : RowMoves(row[f], row'[f]) /\ Carries(F!Message(k, 0, n), row'[f], f)
  BY <1>1, <1>2, NoDelivery DEF RowMoves
<1>5. /\ sweep'.status \notin Early \cup {"pruned"} /\ DOMAIN row' = Ids
      /\ \A f \in Ids : DOMAIN row'[f] = RowNames
  BY <1>1 DEF FInv, FShaped
<1> QED
  BY <1>1, <1>3, <1>4, <1>5, ControllerKept

LEMMA KeptTick ==
  ASSUME FInv, F!Tick
  PROVE  FInv'
<1>1. /\ row' = [f \in Ids |-> [row[f] EXCEPT !.left = F!Before(@)]]
      /\ UNCHANGED <<sweep, entry, mints, opened, inboxes>>
  BY DEF F!Tick, F!relay, F!history
<1>2. ASSUME NEW f \in Ids PROVE DOMAIN row'[f] = RowNames /\ RowMoves(row[f], row'[f])
  <2>1. DOMAIN row[f] = RowNames /\ row'[f] = [row[f] EXCEPT !.left = F!Before(@)]
    BY <1>1 DEF FInv, FShaped
  <2>2. /\ DOMAIN row'[f] = RowNames /\ row'[f].status = row[f].status
        /\ row'[f].offer = row[f].offer /\ row'[f].left = F!Before(row[f].left)
    BY <2>1 DEF RowNames
  <2> QED
    BY <2>2 DEF RowMoves, F!Before
<1>3. Posted(F!Message("none", 0, 0))
  BY <1>1, SentIsPosted
<1> QED
  BY <1>1, <1>2, <1>3, NoDelivery, ControllerKept DEF FInv, FShaped

LEMMA ShorterDocs ==
  ASSUME NEW q, IsSequence(q), NEW m \in Nat
  PROVE  /\ IsSequence(SubSeq(q, m + 1, Len(q)))
         /\ \A i \in 1..Len(SubSeq(q, m + 1, Len(q))) :
              \E j \in 1..Len(q) : SubSeq(q, m + 1, Len(q))[i] = q[j]
<1> PICK S : q \in Seq(S)
  BY DEF IsSequence
<1> DEFINE p == SubSeq(q, m + 1, Len(q))
<1>1. p \in Seq(S) /\ Len(q) \in Nat
  OBVIOUS
<1>2. Len(p) = IF m + 1 <= Len(q) THEN Len(q) - m ELSE 0
  OBVIOUS
<1>3. ASSUME NEW i \in 1..Len(p) PROVE m + i \in 1..Len(q) /\ p[i] = q[m + i]
  <2>1. i \in Nat /\ i >= 1 /\ i <= Len(q) - m /\ m + 1 <= Len(q)
    BY <1>1, <1>2
  <2>2. m + i \in 1..Len(q)
    BY <1>1, <2>1
  <2>3. p[i] = q[m + 1 + i - 1]
    BY <1>1, <2>1
  <2> QED
    BY <2>1, <2>2, <2>3
<1> QED
  BY <1>1, <1>3 DEF IsSequence

\* The next poll only removes documents.
LEMMA KeptPoll ==
  ASSUME FInv, Relaying, NEW s \in F!Sides, F!Poll(s)
  PROVE  FInv'
<1>1. /\ inboxes' = [inboxes EXCEPT ![s] = SubSeq(@, relayed[s] + 1, Len(@))]
      /\ UNCHANGED <<row, sweep, entry, mints, opened>>
  BY DEF F!Poll, F!store, F!book, F!history
<1>2. /\ DOMAIN inboxes = F!Sides /\ IsSequence(inboxes["recipient"]) /\ relayed[s] \in Nat
      /\ "recipient" \in F!Sides
  BY DEF FInv, FShaped, Relaying, F!Sides
<1>3. \/ inboxes'["recipient"] = inboxes["recipient"]
      \/ inboxes'["recipient"] = SubSeq(inboxes["recipient"], relayed[s] + 1, Len(inboxes["recipient"]))
  BY <1>1, <1>2
<1>4. /\ IsSequence(inboxes'["recipient"])
      /\ \A i \in 1..Len(inboxes'["recipient"]) :
           \E j \in 1..Len(inboxes["recipient"]) : inboxes'["recipient"][i] = inboxes["recipient"][j]
  <2>1. CASE inboxes'["recipient"] = inboxes["recipient"]
    BY <1>2, <2>1
  <2>2. CASE inboxes'["recipient"] = SubSeq(inboxes["recipient"], relayed[s] + 1, Len(inboxes["recipient"]))
    <3> DEFINE q == inboxes["recipient"]  p == inboxes'["recipient"]  m == relayed[s]
    <3>1. IsSequence(q) /\ m \in Nat /\ p = SubSeq(q, m + 1, Len(q))
      BY <1>2, <2>2
    <3> HIDE DEF q, p, m
    <3>2. IsSequence(p) /\ \A i \in 1..Len(p) : \E j \in 1..Len(q) : p[i] = q[j]
      BY <3>1, ShorterDocs
    <3> QED
      BY <3>2 DEF q, p
  <2> QED
    BY <1>3, <2>1, <2>2
<1>5. Posted(F!Message("none", 0, 0)) /\ \A f \in Ids : RowMoves(row[f], row'[f])
  BY <1>1, <1>2, <1>4 DEF Posted, RowMoves
<1> QED
  BY <1>1, <1>5, NoDelivery, ControllerKept DEF FInv, FShaped

-----------------------------------------------------------------------------
(* Steps of the recipient broker, which leave rows and documents alone.    *)

LEMMA BookKept ==
  ASSUME FInv, UNCHANGED <<row, sweep, inboxes>>,
         DOMAIN entry' = Ids, DOMAIN mints' = Ids, UNCHANGED opened,
         \A f \in Ids : /\ DOMAIN entry'[f] = EntryNames
                        /\ EntryMoves(entry[f], entry'[f], mints[f], mints'[f])
  PROVE  FInv'
<1>1. ASSUME NEW f \in Ids PROVE FSound(f)' /\ mints'[f] \in Nat
  <2>1. Agree(row[f], entry[f], mints[f], opened[f], inboxes["recipient"], f) /\ mints[f] \in Nat
    BY DEF FInv, FShaped, FSound
  <2>2. EntryMoves(entry[f], entry'[f], mints[f], mints'[f])
    OBVIOUS
  <2>3. Agree(row[f], entry'[f], mints'[f], opened[f], inboxes["recipient"], f) /\ mints'[f] \in Nat
    BY <2>1, <2>2, EntryMovesAgree
  <2> QED
    BY <2>3 DEF FSound
<1> QED
  BY <1>1 DEF FInv, FShaped

\* What maintenance makes of an entry e0: the same or less.
Less(e0, e1) ==
  /\ DOMAIN e1 = EntryNames
  /\ e1.phase = "offered" => e0.phase = "offered" /\ e1.offer = e0.offer

LEMMA LessMoves ==
  ASSUME NEW e0, NEW e1, Less(e0, e1), NEW m
  PROVE  EntryMoves(e0, e1, m, m)
  BY DEF Less, EntryMoves

\* Books that are made from the present one with less in them.
LessBook(e) == DOMAIN e = Ids /\ \A f \in Ids : Less(entry[f], e[f])

LEMMA NoEntryShape == DOMAIN F!NoEntry = EntryNames /\ F!NoEntry.phase = "none"
  BY DEF F!NoEntry, EntryNames

LEMMA PurgedIsLess ==
  ASSUME FInv
  PROVE  LessBook(F!PurgedBook) /\ LessBook(entry)
<1>1. ASSUME NEW f \in Ids PROVE DOMAIN entry[f] = EntryNames
  BY DEF FInv, FShaped
<1>2. ASSUME NEW f \in Ids PROVE Less(entry[f], F!PurgedBook[f])
  <2>1. F!PurgedBook[f] = F!PurgedEntry(f)
    BY DEF F!PurgedBook
  <2> DEFINE kept == IF F!Unread(f) THEN [entry[f] EXCEPT !.phase = "failed"] ELSE entry[f]
  <2>2. Less(entry[f], kept)
    BY <1>1 DEF Less, EntryNames
  <2>3. F!PurgedEntry(f) = F!NoEntry \/ F!PurgedEntry(f) = kept
    BY DEF F!PurgedEntry
  <2> QED
    BY <2>1, <2>2, <2>3, NoEntryShape DEF Less
<1> QED
  BY <1>1, <1>2 DEF LessBook, Less, F!PurgedBook, FInv, FShaped

LEMMA LessBookKept ==
  ASSUME FInv, UNCHANGED <<row, sweep, inboxes, mints, opened>>, LessBook(entry')
  PROVE  FInv'
<1>1. DOMAIN mints' = Ids
  BY DEF FInv, FShaped
<1>2. \A f \in Ids : DOMAIN entry'[f] = EntryNames
                     /\ EntryMoves(entry[f], entry'[f], mints[f], mints'[f])
  BY LessMoves DEF LessBook, Less
<1> QED
  BY <1>1, <1>2, BookKept DEF LessBook

\* Changes of an entry x of a book with less in it: x may be no entry at all.
LEMMA LessPhase ==
  ASSUME NEW e, LessBook(e), NEW x, NEW k, k # "offered"
  PROVE  LessBook([e EXCEPT ![x].phase = k])
<1> DEFINE e1 == [e EXCEPT ![x].phase = k]
<1>1. DOMAIN e1 = Ids /\ \A f \in Ids : e1[f] = IF f = x THEN [e[f] EXCEPT !.phase = k] ELSE e[f]
  BY DEF LessBook
<1>2. ASSUME NEW f \in Ids PROVE Less(entry[f], e1[f])
  <2>1. Less(entry[f], e[f]) /\ DOMAIN e[f] = EntryNames
    BY DEF LessBook, Less
  <2>2. Less(entry[f], [e[f] EXCEPT !.phase = k])
    BY <2>1 DEF Less, EntryNames
  <2> QED
    BY <1>1, <2>1, <2>2
<1> QED
  BY <1>1, <1>2 DEF LessBook

LEMMA LessHeld ==
  ASSUME NEW e, LessBook(e)
  PROVE  LessBook([f \in Ids |-> [e[f] EXCEPT !.held = <<>>]])
<1>1. ASSUME NEW f \in Ids PROVE Less(entry[f], [e[f] EXCEPT !.held = <<>>])
  <2>1. Less(entry[f], e[f]) /\ DOMAIN e[f] = EntryNames
    BY DEF LessBook, Less
  <2> QED
    BY <2>1 DEF Less, EntryNames
<1> QED
  BY <1>1 DEF LessBook

\* An entry x is opened for one of the documents.
LEMMA OpeningKept ==
  ASSUME FInv, UNCHANGED <<row, sweep, inboxes, mints>>, LessBook(entry'),
         NEW x, opened' = [opened EXCEPT ![x] = @ + 1],
         x \in Ids => /\ row[x].left # 0 /\ entry[x].phase = "offered" /\ entry'[x].phase # "offered"
                      /\ \E i \in 1..Len(inboxes["recipient"]) :
                           /\ inboxes["recipient"][i].kind = "deliver"
                           /\ inboxes["recipient"][i].id = x
                           /\ inboxes["recipient"][i].n = entry[x].offer
  PROVE  FInv'
<1>1. DOMAIN opened = Ids /\ \A f \in Ids : opened[f] \in {0, 1}
  BY DEF FInv, FShaped
<1>2. DOMAIN opened' = Ids /\ \A f \in Ids : opened'[f] = IF f = x THEN opened[f] + 1 ELSE opened[f]
  BY <1>1
<1>3. ASSUME NEW f \in Ids PROVE FSound(f)' /\ opened'[f] \in {0, 1}
  <2>1. /\ Agree(row[f], entry[f], mints[f], opened[f], inboxes["recipient"], f)
        /\ mints[f] \in Nat /\ opened[f] \in {0, 1}
    BY DEF FInv, FShaped, FSound
  <2>2. CASE f # x
    <3>1. EntryMoves(entry[f], entry'[f], mints[f], mints[f])
      BY LessMoves DEF LessBook
    <3>2. Agree(row[f], entry'[f], mints[f], opened[f], inboxes["recipient"], f)
      BY <2>1, <3>1, EntryMovesAgree
    <3> QED
      BY <1>2, <2>1, <2>2, <3>2 DEF FSound
  <2>3. CASE f = x
    <3> DEFINE q == inboxes["recipient"]
    <3>1. PICK i \in 1..Len(q) : q[i].kind = "deliver" /\ q[i].id = f /\ q[i].n = entry[f].offer
      BY <2>3
    <3>2. row[f].left # 0 /\ entry[f].phase = "offered" /\ entry'[f].phase # "offered"
      BY <2>3
    <3>3. Agree(row[f], entry[f], mints[f], opened[f], q, f)
      BY <2>1
    <3> HIDE DEF q
    <3>4. mints[f] \in Nat /\ opened[f] \in {0, 1}
      BY <2>1
    <3>5. opened[f] = 0 /\ Agree(row[f], entry'[f], mints[f], opened[f] + 1, q, f)
      <4> DEFINE r == row[f]  e == entry[f]  e1 == entry'[f]  m == mints[f]  o == opened[f]
      <4>1. /\ m \in Nat /\ o \in {0, 1} /\ Agree(r, e, m, o, q, f)
            /\ r.left # 0 /\ e.phase = "offered" /\ e1.phase # "offered"
            /\ q[i].kind = "deliver" /\ q[i].id = f /\ q[i].n = e.offer
        BY <3>1, <3>2, <3>3, <3>4
      <4> HIDE DEF r, e, e1, m, o
      <4>2. r.status # "pruned" /\ r.status \notin Early /\ r.offer = e.offer
        BY <3>1, <4>1 DEF Agree, Carries
      <4>3. o = 0 /\ r.offer \in 0..m
        BY <4>1, <4>2 DEF Agree
      <4>4. Agree(r, e1, m, o + 1, q, f)
        BY <4>1, <4>2, <4>3 DEF Agree
      <4> QED
        BY <4>3, <4>4 DEF r, e, e1, m, o
    <3> QED
      BY <1>2, <2>3, <3>5 DEF FSound, q
  <2> QED
    BY <2>2, <2>3
<1> QED
  BY <1>2, <1>3 DEF FInv, FShaped, LessBook, Less

LEMMA KeptMint ==
  ASSUME FInv, UNCHANGED <<row, sweep, inboxes, opened>>, NEW x, F!MintOffer(x, F!PurgedBook, F!PurgedDest)
  PROVE  FInv'
<1> DEFINE e == F!PurgedBook
           e1 == [F!NoEntry EXCEPT !.phase = "offered", !.offer = mints[x] + 1,
                                 !.replaces = F!Owner(e, F!PurgedDest)]
<1>1. LessBook(e) /\ DOMAIN mints = Ids /\ \A f \in Ids : mints[f] \in Nat
  BY PurgedIsLess DEF FInv, FShaped
<1>2. entry' = [e EXCEPT ![x] = e1] /\ mints' = [mints EXCEPT ![x] = mints[x] + 1]
  BY DEF F!MintOffer
<1>3. DOMAIN e1 = EntryNames /\ e1.offer = mints[x] + 1
  BY DEF F!NoEntry, EntryNames
<1> HIDE DEF e, e1
<1>4. /\ DOMAIN entry' = Ids /\ DOMAIN mints' = Ids
      /\ \A f \in Ids : /\ entry'[f] = IF f = x THEN e1 ELSE e[f]
                        /\ mints'[f] = IF f = x THEN mints[f] + 1 ELSE mints[f]
  BY <1>1, <1>2 DEF LessBook
<1>5. ASSUME NEW f \in Ids
      PROVE  /\ DOMAIN entry'[f] = EntryNames
             /\ EntryMoves(entry[f], entry'[f], mints[f], mints'[f])
  <2>1. CASE f = x
    BY <1>3, <1>4, <2>1 DEF EntryMoves
  <2>2. CASE f # x
    <3>1. Less(entry[f], e[f]) /\ entry'[f] = e[f] /\ mints'[f] = mints[f]
      BY <1>1, <1>4, <2>2 DEF LessBook
    <3> QED
      BY <3>1, LessMoves DEF Less
  <2> QED
    BY <2>1, <2>2
<1> QED
  BY <1>4, <1>5, BookKept

LEMMA KeptAuthorizeRecipient ==
  ASSUME FInv, UNCHANGED <<row, sweep, inboxes, opened>>, NEW x, F!AuthorizeRecipient(x)
  PROVE  FInv'
<1>1. CASE UNCHANGED <<entry, mints>>
  BY <1>1, NothingKept
<1>2. CASE entry' = F!PurgedBook /\ UNCHANGED mints
  BY <1>2, PurgedIsLess, LessBookKept
<1>3. CASE F!MintOffer(x, F!PurgedBook, F!PurgedDest)
  BY <1>3, KeptMint
<1> QED
  BY <1>1, <1>2, <1>3 DEF F!AuthorizeRecipient, F!book

LEMMA StoredIsLess ==
  ASSUME FInv, NEW e, LessBook(e), NEW x, F!Stored(x, e)
  PROVE  LessBook(entry') /\ (x \in Ids => entry'[x].phase = "stored")
<1> DEFINE new(g, h) == IF g = x THEN [e[x] EXCEPT !.phase = "stored", !.receipt = TRUE, !.held = h]
                        ELSE IF g = e[x].replaces THEN [e[g] EXCEPT !.phase = "replaced"] ELSE e[g]
<1>1. \E h : entry' = [g \in Ids |-> new(g, h)]
  BY DEF F!Stored
<1>2. PICK h : entry' = [g \in Ids |-> new(g, h)]
  BY <1>1
<1>3. ASSUME NEW g \in Ids
      PROVE  Less(entry[g], new(g, h)) /\ (g = x => new(g, h).phase = "stored")
  <2>1. Less(entry[g], e[g]) /\ DOMAIN e[g] = EntryNames
    BY DEF LessBook, Less
  <2>2. CASE g = x
    <3>1. DOMAIN [e[g] EXCEPT !.phase = "stored", !.receipt = TRUE, !.held = h] = EntryNames
          /\ [e[g] EXCEPT !.phase = "stored", !.receipt = TRUE, !.held = h].phase = "stored"
      BY <2>1 DEF EntryNames
    <3> QED
      BY <2>2, <3>1 DEF Less
  <2>3. CASE g # x
    <3>1. Less(entry[g], [e[g] EXCEPT !.phase = "replaced"])
      BY <2>1 DEF Less, EntryNames
    <3> QED
      BY <2>1, <2>3, <3>1
  <2> QED
    BY <2>2, <2>3
<1> HIDE DEF new
<1> QED
  BY <1>2, <1>3 DEF LessBook

LEMMA KeptDelivery ==
  ASSUME FInv, UNCHANGED <<row, sweep, inboxes>>, NEW x, NEW n, F!ApplyDelivery(x, n),
         \E i \in 1..Len(inboxes["recipient"]) :
            /\ inboxes["recipient"][i].kind = "deliver"
            /\ inboxes["recipient"][i].id = x
            /\ inboxes["recipient"][i].n = n
  PROVE  FInv'
<1> DEFINE e == F!PurgedBook
           d == F!PurgedDest
           own == e[x].phase # "none" /\ e[x].offer = n
<1>1. UNCHANGED mints /\ LessBook(e) /\ LessBook(entry)
  BY PurgedIsLess DEF F!ApplyDelivery
<1>2. CASE entry' = e /\ UNCHANGED opened
  BY <1>1, <1>2, LessBookKept
<1>3. CASE UNCHANGED <<entry, opened>>
  BY <1>1, <1>3, NothingKept
<1>4. CASE F!Flush(e) /\ UNCHANGED opened
  BY <1>1, <1>4, LessHeld, LessBookKept DEF F!Flush
<1>5. CASE entry' = [e EXCEPT ![x].phase = "failed"] /\ UNCHANGED opened
  BY <1>1, <1>5, LessPhase, LessBookKept
<1>6. ASSUME own, e[x].phase = "offered", ~F!DeliveryRefused(x, e, d),
             opened' = [opened EXCEPT ![x] = @ + 1], LessBook(entry'),
             x \in Ids => entry'[x].phase # "offered"
      PROVE  FInv'
  <2>1. row[x].left # 0 /\ e[x].offer = n
    BY <1>6 DEF F!DeliveryRefused
  <2>2. x \in Ids => entry[x].phase = "offered" /\ entry[x].offer = n
    BY <1>1, <1>6, <2>1 DEF LessBook, Less
  <2> QED
    BY <1>1, <1>6, <2>1, <2>2, OpeningKept
<1>7. CASE own /\ e[x].phase = "offered" /\ ~F!DeliveryRefused(x, e, d) /\ F!Stored(x, e)
  <2>1. opened' = [opened EXCEPT ![x] = @ + 1]
    BY <1>7 DEF F!Stored
  <2>2. LessBook(entry') /\ (x \in Ids => entry'[x].phase # "offered")
    BY <1>1, <1>7, StoredIsLess
  <2> QED
    BY <1>6, <1>7, <2>1, <2>2
<1>8. CASE own /\ e[x].phase = "offered" /\ ~F!DeliveryRefused(x, e, d) /\ F!PlaintextRefused(x, e, d)
  <2>1. opened' = [opened EXCEPT ![x] = @ + 1] /\ entry' = [e EXCEPT ![x].phase = "failed"]
    BY <1>8 DEF F!PlaintextRefused
  <2>2. LessBook(entry')
    BY <1>1, <2>1, LessPhase
  <2>3. x \in Ids => entry'[x].phase = "failed"
    <3>1. x \in Ids => DOMAIN e = Ids /\ DOMAIN e[x] = EntryNames
      BY <1>1 DEF LessBook, Less
    <3> HIDE DEF e
    <3> QED
      BY <2>1, <3>1 DEF EntryNames
  <2> QED
    BY <1>6, <1>8, <2>1, <2>2, <2>3
<1> HIDE DEF e, d
<1>9. \/ UNCHANGED <<entry, opened>>
      \/ entry' = e /\ UNCHANGED opened
      \/ F!Flush(e) /\ UNCHANGED opened
      \/ entry' = [e EXCEPT ![x].phase = "failed"] /\ UNCHANGED opened
      \/ own /\ e[x].phase = "offered" /\ ~F!DeliveryRefused(x, e, d) /\ F!Stored(x, e)
      \/ own /\ e[x].phase = "offered" /\ ~F!DeliveryRefused(x, e, d) /\ F!PlaintextRefused(x, e, d)
  BY DEF F!ApplyDelivery, e, d
<1> QED
  BY <1>2, <1>3, <1>4, <1>5, <1>7, <1>8, <1>9

LEMMA KeptRevocation ==
  ASSUME FInv, UNCHANGED <<row, sweep, inboxes, opened>>, NEW s, NEW x, F!ApplyRevocation(s, x)
  PROVE  FInv'
<1>1. UNCHANGED mints /\ (F!RevokeRecipient(x) \/ UNCHANGED entry)
  BY DEF F!ApplyRevocation
<1>2. CASE UNCHANGED entry
  BY <1>1, <1>2, NothingKept
<1>3. CASE F!RevokeRecipient(x)
  <2>1. DOMAIN entry = Ids /\ \A f \in Ids : DOMAIN entry[f] = EntryNames
    BY DEF FInv, FShaped
  <2> DEFINE e1 == IF entry[x].phase = "consumed" THEN [entry[x] EXCEPT !.held = <<>>] ELSE F!NoEntry
  <2>2. entry' = [entry EXCEPT ![x] = e1]
    BY <1>3 DEF F!RevokeRecipient
  <2>3. x \in Ids => Less(entry[x], e1)
    BY <2>1, NoEntryShape DEF Less, EntryNames
  <2> HIDE DEF e1
  <2>4. \A f \in Ids : entry'[f] = IF f = x THEN e1 ELSE entry[f]
    BY <2>1, <2>2
  <2>5. LessBook(entry')
    BY <2>1, <2>2, <2>3, <2>4 DEF LessBook, Less
  <2> QED
    BY <1>1, <2>5, LessBookKept
<1> QED
  BY <1>1, <1>2, <1>3

LEMMA KeptRelayDocument ==
  ASSUME FInv, Relaying, NEW s \in F!Sides, F!RelayDocument(s)
  PROVE  FInv'
<1> DEFINE i == relayed[s] + 1
           doc == inboxes[s][i]
<1>1. UNCHANGED <<row, sweep, inboxes>>
  BY DEF F!RelayDocument, F!store
<1>2. i \in 1..Len(inboxes[s])
  <2>1. relayed[s] \in Nat /\ relayed[s] < Len(inboxes[s])
    BY DEF F!RelayDocument, Relaying
  <2>2. IsSequence(inboxes[s])
    BY DEF FInv, FShaped, Relaying, F!Sides
  <2>3. PICK S : inboxes[s] \in Seq(S)
    BY <2>2 DEF IsSequence
  <2>4. Len(inboxes[s]) \in Nat
    BY <2>3
  <2> QED
    BY <2>1, <2>4
<1>3. \/ UNCHANGED opened /\ F!AuthorizeRecipient(doc.id)
      \/ UNCHANGED opened /\ F!AuthorizeIssuer(doc.id, doc.n)
      \/ doc.kind = "deliver" /\ F!ApplyDelivery(doc.id, doc.n)
      \/ UNCHANGED opened /\ F!ApplyRevocation(s, doc.id)
      \/ UNCHANGED opened /\ F!ApplySettings(s, doc)
  BY DEF F!RelayDocument
<1> HIDE DEF i, doc
<1>4. CASE UNCHANGED opened /\ F!AuthorizeRecipient(doc.id)
  BY <1>1, <1>4, KeptAuthorizeRecipient
<1>5. CASE UNCHANGED opened /\ F!AuthorizeIssuer(doc.id, doc.n)
  <2>1. UNCHANGED <<entry, mints>>
    BY <1>5 DEF F!AuthorizeIssuer
  <2> QED
    BY <1>1, <1>5, <2>1, NothingKept
<1>6. CASE doc.kind = "deliver" /\ F!ApplyDelivery(doc.id, doc.n)
  <2>1. s = "recipient"
    BY <1>2, <1>6 DEF Relaying, F!Sides, doc
  <2>2. \E j \in 1..Len(inboxes["recipient"]) :
           /\ inboxes["recipient"][j].kind = "deliver"
           /\ inboxes["recipient"][j].id = doc.id
           /\ inboxes["recipient"][j].n = doc.n
    BY <1>2, <1>6, <2>1 DEF doc
  <2> QED
    BY <1>1, <1>6, <2>2, KeptDelivery
<1>7. CASE UNCHANGED opened /\ F!ApplyRevocation(s, doc.id)
  BY <1>1, <1>7, KeptRevocation
<1>8. CASE UNCHANGED opened /\ F!ApplySettings(s, doc)
  <2>1. UNCHANGED <<entry, mints>>
    BY <1>8 DEF F!ApplySettings, F!book
  <2> QED
    BY <1>1, <1>8, <2>1, NothingKept
<1> QED
  BY <1>3, <1>4, <1>5, <1>6, <1>7, <1>8

LEMMA KeptPullEvents ==
  ASSUME FInv, F!PullEvents
  PROVE  FInv'
<1>1. UNCHANGED <<row, sweep, inboxes, mints, opened>> /\ F!Flush(F!PurgedBook)
  BY DEF F!PullEvents, F!store, F!relay, F!history
<1>2. LessBook([f \in Ids |-> [F!PurgedBook[f] EXCEPT !.held = <<>>]])
  BY PurgedIsLess, LessHeld
<1> QED
  BY <1>1, <1>2, LessBookKept DEF F!Flush

LEMMA KeptLoaderRead ==
  ASSUME FInv, F!LoaderRead
  PROVE  FInv'
<1> DEFINE e == F!PurgedBook
<1>1. UNCHANGED <<row, sweep, inboxes, mints, opened>>
  BY DEF F!LoaderRead, F!store, F!relay
<1>2. LessBook(e)
  BY PurgedIsLess
<1>3. CASE entry' = e
  BY <1>1, <1>2, <1>3, LessBookKept
<1>4. ASSUME NEW x, F!NoteRead(x, e) PROVE FInv'
  <2> DEFINE report == F!Message("consumed", x, 0)
  <2>1. \/ entry' = [e EXCEPT ![x].phase = "consumed"]
        \/ entry' = [e EXCEPT ![x].phase = "consumed", ![x].held = Append(@, report)]
    BY <1>4 DEF F!NoteRead
  <2>2. CASE entry' = [e EXCEPT ![x].phase = "consumed"]
    BY <1>1, <1>2, <2>2, LessPhase, LessBookKept
  <2>3. CASE entry' = [e EXCEPT ![x].phase = "consumed", ![x].held = Append(@, report)]
    <3> HIDE DEF e, report
    <3>1. DOMAIN e = Ids /\ \A f \in Ids : Less(entry[f], e[f]) /\ DOMAIN e[f] = EntryNames
      BY <1>2 DEF LessBook, Less
    <3>2. DOMAIN entry' = Ids /\ \A f \in Ids \ {x} : entry'[f] = e[f]
      BY <2>3, <3>1
    <3>3. x \in Ids => DOMAIN entry'[x] = EntryNames /\ entry'[x].phase = "consumed"
      BY <2>3, <3>1 DEF EntryNames
    <3>4. \A f \in Ids : Less(entry[f], entry'[f])
      BY <3>1, <3>2, <3>3 DEF Less
    <3> QED
      BY <1>1, <3>2, <3>4, LessBookKept DEF LessBook
  <2> QED
    BY <2>1, <2>2, <2>3
<1> QED
  BY <1>3, <1>4 DEF F!LoaderRead

LEMMA KeptBrokerRestart ==
  ASSUME FInv, NEW s, F!BrokerRestart(s)
  PROVE  FInv'
<1>1. UNCHANGED <<row, sweep, inboxes, mints, opened>>
  BY DEF F!BrokerRestart, F!store, F!history
<1>2. CASE UNCHANGED entry
  BY <1>1, <1>2, NothingKept
<1>3. CASE entry' = [f \in Ids |-> F!NoEntry]
  <2>1. LessBook(entry')
    BY <1>3, NoEntryShape DEF LessBook, Less
  <2> QED
    BY <1>1, <2>1, LessBookKept
<1> QED
  BY <1>2, <1>3 DEF F!BrokerRestart

\* The other steps concern neither rows nor books nor documents.
LEMMA KeptOthers ==
  ASSUME FInv,
         \/ \E s \in F!Sides : F!RequestEvent(s) \/ F!RelayRestart(s)
         \/ F!CredentialExpires \/ F!ProvisionSealed \/ F!ProvisionSource \/ F!Disable
  PROVE  FInv'
<1>1. UNCHANGED <<row, sweep, entry, mints, opened, inboxes>>
  BY DEF F!RequestEvent, F!RelayRestart, F!CredentialExpires, F!ProvisionSealed, F!ProvisionSource, F!Disable,
         F!store, F!relay, F!book, F!history
<1> QED
  BY <1>1, NothingKept

-----------------------------------------------------------------------------
(* What the relays have in hand.                                           *)

\* The issuer's documents: unchanged, shortened by a poll, or one more that is no
\* delivery.
IssuerTold ==
  \/ inboxes'["issuer"] = inboxes["issuer"]
  \/ \E m : m.kind # "deliver" /\ inboxes'["issuer"] = Append(inboxes["issuer"], m)
  \/ \E k \in Nat : inboxes'["issuer"] = SubSeq(inboxes["issuer"], k + 1, Len(inboxes["issuer"]))

Counted ==
  \/ UNCHANGED relayed
  \/ \E s \in F!Sides : relayed' = [relayed EXCEPT ![s] = @ + 1]
  \/ \E s \in F!Sides : relayed' = [relayed EXCEPT ![s] = 0]

LEMMA RelayingKept ==
  ASSUME Relaying, IssuerTold, Counted
  PROVE  Relaying'
<1> DEFINE q == inboxes["issuer"]  p == inboxes'["issuer"]
<1>1. relayed' \in [F!Sides -> Nat]
  BY DEF Relaying, Counted
<1>2. IsSequence(q) /\ \A i \in 1..Len(q) : q[i].kind # "deliver"
  BY DEF Relaying
<1>3. \/ p = q
      \/ \E m : m.kind # "deliver" /\ p = Append(q, m)
      \/ \E k \in Nat : p = SubSeq(q, k + 1, Len(q))
  BY DEF IssuerTold
<1> HIDE DEF q, p
<1>4. IsSequence(p) /\ \A i \in 1..Len(p) : p[i].kind # "deliver"
  <2>1. CASE p = q
    BY <1>2, <2>1
  <2>2. ASSUME NEW m, m.kind # "deliver", p = Append(q, m)
        PROVE  IsSequence(p) /\ \A i \in 1..Len(p) : p[i].kind # "deliver"
    <3>1. IsSequence(p) /\ \A i \in 1..Len(p) : (\E j \in 1..Len(q) : p[i] = q[j]) \/ p[i] = m
      BY <1>2, <2>2, AppendedDoc
    <3> QED
      BY <1>2, <2>2, <3>1
  <2>3. ASSUME NEW k \in Nat, p = SubSeq(q, k + 1, Len(q))
        PROVE  IsSequence(p) /\ \A i \in 1..Len(p) : p[i].kind # "deliver"
    <3>1. IsSequence(p) /\ \A i \in 1..Len(p) : \E j \in 1..Len(q) : p[i] = q[j]
      BY <1>2, <2>3, ShorterDocs
    <3> QED
      BY <1>2, <3>1
  <2> QED
    BY <1>3, <2>1, <2>2, <2>3
<1> QED
  BY <1>1, <1>4 DEF Relaying, p

LEMMA SentTells ==
  ASSUME FInv, NEW k, NEW x, NEW n,
         \/ UNCHANGED inboxes
         \/ inboxes' = F!Send(inboxes, "recipient", F!Message(k, x, n))
         \/ /\ k # "deliver"
            /\ \/ \E s \in F!Sides : inboxes' = F!Send(inboxes, s, F!Message(k, x, n))
               \/ inboxes' = F!SendBoth(inboxes, F!Message(k, x, n))
  PROVE  IssuerTold
<1>1. DOMAIN inboxes = F!Sides /\ "issuer" \in F!Sides /\ F!Message(k, x, n).kind = k
  BY DEF FInv, FShaped, F!Sides, F!Message
<1>2. CASE UNCHANGED inboxes
  BY <1>2 DEF IssuerTold
<1>3. CASE inboxes' = F!Send(inboxes, "recipient", F!Message(k, x, n))
  <2>1. inboxes'["issuer"] = inboxes["issuer"]
    BY <1>1, <1>3 DEF F!Send, F!Sides
  <2> QED
    BY <2>1 DEF IssuerTold
<1>4. CASE /\ k # "deliver"
           /\ \/ \E s \in F!Sides : inboxes' = F!Send(inboxes, s, F!Message(k, x, n))
              \/ inboxes' = F!SendBoth(inboxes, F!Message(k, x, n))
  <2>1. \/ inboxes'["issuer"] = inboxes["issuer"]
        \/ inboxes'["issuer"] = Append(inboxes["issuer"], F!Message(k, x, n))
    BY <1>1, <1>4 DEF F!Send, F!SendBoth, F!Sides
  <2> QED
    BY <1>1, <1>4, <2>1 DEF IssuerTold
<1> QED
  BY <1>2, <1>3, <1>4

LEMMA CloseTells ==
  ASSUME FInv, NEW x, NEW st, F!Close(x, st)
  PROVE  IssuerTold
<1>1. UNCHANGED inboxes \/ inboxes' = F!SendBoth(inboxes, F!Message("revoke", x, 0))
  BY DEF F!Close
<1> QED
  BY <1>1, SentTells

LEMMA EventTells ==
  ASSUME FInv, NEW e, F!RecordFulfillmentEvent(e)
  PROVE  IssuerTold
<1>1. CASE UNCHANGED inboxes
  BY <1>1 DEF IssuerTold
<1>2. CASE F!ApplyOffer(e)
  <2>1. inboxes' = F!Send(inboxes, "issuer", F!Message("authorize", e.id, e.n)) /\ "issuer" \in F!Sides
    BY <1>2 DEF F!ApplyOffer, F!Sides
  <2> QED
    BY <2>1, SentTells
<1>3. CASE F!ApplySubmit(e)
  <2>1. inboxes' = F!Send(inboxes, "recipient", F!Message("deliver", e.id, e.n))
    BY <1>3 DEF F!ApplySubmit
  <2> QED
    BY <2>1, SentTells
<1>4. CASE F!Close(e.id, "failed")
  BY <1>4, CloseTells
<1> QED
  BY <1>1, <1>2, <1>3, <1>4
     DEF F!RecordFulfillmentEvent, F!ApplyStored, F!ApplyConsumed, F!ApplyFailed, F!store

LEMMA KeptRelaying ==
  ASSUME FInv, Relaying, F!Next
  PROVE  Relaying'
<1>1. ASSUME UNCHANGED <<inboxes, relayed>> PROVE Relaying'
  BY <1>1 DEF Relaying
<1>2. ASSUME IssuerTold, UNCHANGED relayed PROVE Relaying'
  BY <1>2, RelayingKept DEF Counted
<1>3. ASSUME UNCHANGED inboxes, Counted PROVE Relaying'
  BY <1>3, RelayingKept DEF IssuerTold
<1>4. ASSUME NEW f \in Ids, NEW o, NEW p, F!Create(f, o, p) PROVE Relaying'
  <2>1. /\ UNCHANGED relayed
        /\ UNCHANGED inboxes \/ inboxes' = F!Send(inboxes, "recipient", F!Message("authorize", f, 0))
    BY <1>4 DEF F!Create, F!CreateFulfillment, F!Decided, F!RecipientTold
  <2> QED
    BY <1>2, <2>1, SentTells
<1>5. ASSUME NEW f \in Ids, NEW o, NEW v, F!Decide(f, o, v) PROVE Relaying'
  <2>1. /\ UNCHANGED relayed
        /\ UNCHANGED inboxes \/ inboxes' = F!Send(inboxes, "recipient", F!Message("authorize", f, 0))
    BY <1>5 DEF F!Decide, F!DecideFulfillment, F!RecipientTold
  <2> QED
    BY <1>2, <2>1, SentTells
<1>6. ASSUME NEW f \in Ids, F!PruneFulfillments(f) \/ F!SweepRead(f) PROVE Relaying'
  BY <1>1, <1>6 DEF F!PruneFulfillments, F!SweepRead, F!relay
<1>7. ASSUME NEW f \in Ids, F!RevokeFulfillment(f) PROVE Relaying'
  BY <1>2, <1>7, CloseTells DEF F!RevokeFulfillment
<1>8. CASE F!SweepClose
  <2>1. UNCHANGED relayed /\ (UNCHANGED inboxes \/ F!Close(sweep.id, sweep.status))
    BY <1>8 DEF F!SweepClose
  <2> QED
    BY <1>1, <1>2, <2>1, CloseTells
<1>9. ASSUME NEW s \in F!Sides, F!SendEvent(s) PROVE Relaying'
  BY <1>2, <1>9, EventTells DEF F!SendEvent
<1>10. ASSUME NEW s \in F!Sides, F!RelayDocument(s) PROVE Relaying'
  <2>1. UNCHANGED inboxes
    BY <1>10 DEF F!RelayDocument
  <2>2. UNCHANGED relayed \/ \E x \in F!Sides : relayed' = [relayed EXCEPT ![x] = @ + 1]
    <3>1. "recipient" \in F!Sides /\ "issuer" \in F!Sides
      BY DEF F!Sides
    <3> QED
      BY <1>10, <3>1 DEF F!RelayDocument, F!AuthorizeRecipient, F!AuthorizeIssuer, F!ApplyDelivery,
         F!ApplyRevocation, F!ApplySettings, F!Done, F!Ask
  <2> QED
    BY <1>3, <2>1, <2>2 DEF Counted
<1>11. ASSUME NEW s \in F!Sides, F!RequestEvent(s) \/ F!RelayRestart(s) PROVE Relaying'
  BY <1>3, <1>11 DEF F!RequestEvent, F!RelayRestart, Counted
<1>12. ASSUME NEW s \in F!Sides, F!Poll(s) PROVE Relaying'
  <2>1. /\ inboxes' = [inboxes EXCEPT ![s] = SubSeq(@, relayed[s] + 1, Len(@))]
        /\ relayed' = [relayed EXCEPT ![s] = 0]
    BY <1>12 DEF F!Poll
  <2>2. DOMAIN inboxes = F!Sides /\ relayed[s] \in Nat /\ "issuer" \in F!Sides
    BY DEF FInv, FShaped, Relaying, F!Sides
  <2>3. \/ inboxes'["issuer"] = inboxes["issuer"]
        \/ inboxes'["issuer"] = SubSeq(inboxes["issuer"], relayed[s] + 1, Len(inboxes["issuer"]))
    BY <2>1, <2>2
  <2> QED
    BY <2>1, <2>2, <2>3, RelayingKept DEF IssuerTold, Counted
<1>13. ASSUME NEW s \in F!Sides, F!BrokerRestart(s) PROVE Relaying'
  BY <1>1, <1>13 DEF F!BrokerRestart
<1>14. CASE F!PullEvents \/ F!LoaderRead \/ F!CredentialExpires \/ F!ProvisionSealed \/ F!ProvisionSource
            \/ F!Disable \/ F!Tick
  BY <1>1, <1>14 DEF F!PullEvents, F!LoaderRead, F!CredentialExpires, F!ProvisionSealed, F!ProvisionSource,
     F!Disable, F!Tick, F!relay
<1>15. CASE F!ChangePolicy
  <2>1. /\ UNCHANGED relayed
        /\ inboxes' = F!SendBoth(inboxes, F!Message("policy", 0, authority["policy"] + 1))
    BY <1>15 DEF F!ChangePolicy
  <2> QED
    BY <1>2, <2>1, SentTells
<1>16. ASSUME NEW s \in F!Sides, F!ChangeParty(s) PROVE Relaying'
  <2>1. UNCHANGED relayed /\ \E v : inboxes' = F!Send(inboxes, s, F!Message("registration", 0, v))
    BY <1>16 DEF F!ChangeParty
  <2> QED
    BY <1>2, <2>1, SentTells
<1> QED
  BY <1>4, <1>5, <1>6, <1>7, <1>8, <1>9, <1>10, <1>11, <1>12, <1>13, <1>14, <1>15, <1>16, Zenon
     DEF F!Next, F!Sweep

-----------------------------------------------------------------------------

LEMMA InitFInv == F!Init => FInv /\ Relaying
<1> SUFFICES ASSUME F!Init PROVE FInv /\ Relaying
  OBVIOUS
<1>1. <<>> \in Seq({}) /\ Len(<<>>) = 0 /\ IsSequence(<<>>)
  BY DEF IsSequence
<1>2. /\ inboxes["recipient"] = <<>> /\ inboxes["issuer"] = <<>> /\ DOMAIN inboxes = F!Sides
      /\ relayed = [s \in F!Sides |-> 0]
  BY DEF F!Init, F!Sides
<1>3. /\ DOMAIN F!NoRow = RowNames /\ F!NoRow.status = "absent" /\ F!NoVerdict.status = "none"
  BY DEF F!NoRow, RowNames, F!NoVerdict
<1>4. /\ DOMAIN row = Ids /\ DOMAIN entry = Ids /\ DOMAIN mints = Ids /\ DOMAIN opened = Ids
      /\ sweep = F!NoVerdict
      /\ \A f \in Ids : row[f] = F!NoRow /\ entry[f] = F!NoEntry /\ mints[f] = 0 /\ opened[f] = 0
  BY DEF F!Init
<1>5. Relaying
  BY <1>1, <1>2 DEF Relaying
<1>6. FShaped
  BY <1>1, <1>2, <1>3, <1>4, NoEntryShape DEF FShaped, Early
<1>7. ASSUME NEW f \in Ids PROVE FSound(f)
  <2>1. ASSUME NEW i \in 1..Len(inboxes["recipient"]) PROVE FALSE
    BY <1>1, <1>2
  <2> QED
    BY <1>3, <1>4, <2>1, NoEntryShape DEF FSound, Agree
<1> QED
  BY <1>5, <1>6, <1>7 DEF FInv

LEMMA NextFInv == FInv /\ Relaying /\ [F!Next]_(F!vars) => FInv' /\ Relaying'
<1> SUFFICES ASSUME FInv, Relaying, [F!Next]_(F!vars) PROVE FInv' /\ Relaying'
  OBVIOUS
<1>1. CASE UNCHANGED F!vars
  <2>1. UNCHANGED <<row, sweep, entry, mints, opened, inboxes, relayed>>
    BY <1>1 DEF F!vars, F!store, F!relay, F!book, F!history
  <2> QED
    BY <2>1, NothingKept DEF Relaying
<1>2. CASE F!Next
  <2>1. Relaying'
    BY <1>2, KeptRelaying
  <2>2. CASE \E s \in F!Sides : F!ChangeParty(s)
    BY <2>1, <2>2, KeptSettings
  <2>3. CASE \E f \in Ids, o \in Requesters, p \in Ids \cup {0} : F!Create(f, o, p)
    BY <2>1, <2>3, KeptCreate
  <2>4. CASE \E f \in Ids, o \in Approvers, v \in {"approved", "rejected"} : F!Decide(f, o, v)
    BY <2>1, <2>4, KeptDecide
  <2>5. CASE \E s \in F!Sides : F!SendEvent(s) \/ F!BrokerRestart(s)
    BY <2>1, <2>5, KeptSendEvent, KeptBrokerRestart
  <2>6. CASE \E s \in F!Sides : F!RelayDocument(s) \/ F!Poll(s)
    BY <2>1, <2>6, KeptRelayDocument, KeptPoll
  <2>7. CASE \/ \E s \in F!Sides : F!RequestEvent(s) \/ F!RelayRestart(s)
             \/ F!CredentialExpires \/ F!ProvisionSealed \/ F!ProvisionSource \/ F!Disable
    BY <2>1, <2>7, KeptOthers
  <2>8. CASE \/ \E f \in Ids : F!PruneFulfillments(f) \/ F!RevokeFulfillment(f) \/ F!SweepRead(f)
             \/ F!SweepClose
    BY <2>1, <2>8, KeptPrune, KeptRevoke, KeptSweepRead, KeptSweepClose
  <2>9. CASE F!PullEvents \/ F!LoaderRead \/ F!ChangePolicy \/ F!Tick
    BY <2>1, <2>9, KeptPullEvents, KeptLoaderRead, KeptSettings, KeptTick
  <2> QED
    BY <1>2, <2>2, <2>3, <2>4, <2>5, <2>6, <2>7, <2>8, <2>9, Zenon DEF F!Next, F!Sweep
<1> QED
  BY <1>1, <1>2

LEMMA OpenedAtMostOnce == FInv => F!OpenedOnce
<1> SUFFICES ASSUME FInv, NEW f \in Ids PROVE opened[f] <= 1
  BY DEF F!OpenedOnce
<1>1. opened[f] \in {0, 1}
  BY DEF FInv, FShaped
<1> QED
  BY <1>1

(* For any fulfillments, rules, lifetimes and disturbances: the ciphertext *)
(* of a fulfillment is opened at most once by the recipient broker         *)
(* (apply_delivery), although the broker forgets its book and tombstones   *)
(* in a restart, mints again for a fulfillment it has forgotten, and gets  *)
(* documents again from a relay that restarted.                            *)
THEOREM PayloadsOpenOnce == F!Spec => []F!OpenedOnce
  BY InitFInv, NextFInv, OpenedAtMostOnce, PTL DEF F!Spec
=============================================================================
