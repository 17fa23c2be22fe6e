------------------------ MODULE GrantVerifierProofs ------------------------
(***************************************************************************)
(* Proofs about GrantVerifier for every set of grants and all durations,   *)
(* numbers of failed writes and crashes.                                   *)
(***************************************************************************)
EXTENDS GrantVerifier, TLAPS

-----------------------------------------------------------------------------
(* Clocks and documents. *)

\* Every reply under way is stamped with a time that was the controller's, no longer ago than
\* its age; so the trusted time is never behind the controller's clock.
TimeInv ==
  /\ boot \in Nat /\ lag \in Nat /\ lag <= MaxLag /\ Clock >= 1
  /\ DOMAIN stamps = 0..ReplyDelay
  /\ \A age \in 0..ReplyDelay : \A t \in stamps[age] : t \in Nat /\ t <= boot /\ Clock <= t + age
  /\ trusted.received \in Nat /\ trusted.estimate \in Nat
  /\ trusted.received # 0 => Clock <= TrustedTime
  /\ DOMAIN issued = Grants /\ DOMAIN retain = Grants
  /\ \A g \in Grants :
       /\ issued[g] \in Nat /\ retain[g] \in Nat
       /\ retain[g] # 0 => issued[g] # 0 /\ Expiry(g) + Retention <= retain[g]

LEMMA RepliesYield ==
  ASSUME TimeInv, NEW reply \in Replies
  PROVE  /\ reply.time \in Nat /\ reply.time <= boot
         /\ Estimate(reply) \in Nat /\ Clock <= Estimate(reply)
<1>1. PICK late \in 0..ReplyDelay :
        reply \in {[late |-> late, time |-> t] : t \in UNION {stamps[age] : age \in 0..late}}
  BY DEF Replies
<1>2. PICK t \in UNION {stamps[age] : age \in 0..late} : reply = [late |-> late, time |-> t]
  BY <1>1
<1>3. PICK age \in 0..late : t \in stamps[age]
  BY <1>2
<1>4. reply.late = late /\ reply.time = t
  BY <1>2
<1>5. age \in 0..ReplyDelay /\ age <= late /\ late \in Nat
  BY <1>1, <1>3, DurationAssumption
<1>6. t \in Nat /\ t <= boot /\ Clock <= t + age
  BY <1>3, <1>5 DEF TimeInv
<1>7. Clock \in Int
  BY DEF TimeInv, Clock
<1> QED
  BY <1>4, <1>5, <1>6, <1>7 DEF Estimate

LEMMA NowYields ==
  ASSUME boot \in Nat, lag \in Nat, Clock >= 1
  PROVE  /\ DOMAIN Now = 0..ReplyDelay
         /\ \A age \in 0..ReplyDelay : \A t \in Now[age] : t \in Nat /\ t <= boot /\ Clock <= t + age
BY DurationAssumption DEF Now, Clock

timeVars == <<boot, lag, stamps, trusted, issued, retain>>

LEMMA SameTime == ASSUME TimeInv, UNCHANGED timeVars PROVE TimeInv'
BY DEF TimeInv, timeVars, Clock, TrustedTime, Expiry

\* Steps that neither the controller nor the clocks take.
LEMMA InitTime == Init => TimeInv
<1> SUFFICES ASSUME Init PROVE TimeInv
  OBVIOUS
<1>1. boot = 1 /\ lag = 0 /\ Clock = 1 /\ stamps = Now /\ trusted = NoTime
  BY DEF Init, Clock
<1>2. NoTime.received = 0 /\ NoTime.estimate = 0
  BY DEF NoTime
<1>3. \A g \in Grants : issued[g] = 0 /\ retain[g] = 0
  BY DEF Init
<1>4. MaxLag >= 0
  BY DurationAssumption
<1> QED
  BY <1>1, <1>2, <1>3, <1>4, NowYields, DurationAssumption DEF TimeInv, Init

LEMMA NextTime == ASSUME TimeInv, [Next]_vars PROVE TimeInv'
<1>0. Clock \in Int /\ Clock = boot - lag /\ boot \in Nat /\ lag \in Nat
  BY DEF TimeInv, Clock
<1>1. CASE Tick
  <2>1. /\ boot' = boot + 1 /\ UNCHANGED <<lag, trusted, issued, retain>>
        /\ stamps' = [age \in 0..ReplyDelay |-> IF age = 0 THEN {Clock + 1} ELSE stamps[age - 1]]
    BY <1>1 DEF Tick, documents, timing
  <2>2. Clock' = Clock + 1
    BY <1>0, <2>1 DEF Clock
  <2>3. ASSUME NEW age \in 0..ReplyDelay, NEW t \in stamps'[age]
        PROVE  t \in Nat /\ t <= boot' /\ Clock' <= t + age
    <3>1. CASE age = 0
      BY <1>0, <2>1, <2>2, <2>3, <3>1 DEF TimeInv
    <3>2. CASE age # 0
      <4>1. age - 1 \in 0..ReplyDelay /\ t \in stamps[age - 1]
        BY <2>1, <2>3, <3>2, DurationAssumption
      <4>2. t \in Nat /\ t <= boot /\ Clock <= t + (age - 1)
        BY <4>1 DEF TimeInv
      <4> QED
        BY <1>0, <2>1, <2>2, <4>2, DurationAssumption
    <3> QED
      BY <3>1, <3>2
  <2>4. trusted.received # 0 => Clock' <= TrustedTime'
    BY <1>0, <2>1, <2>2 DEF TimeInv, TrustedTime
  <2>5. Clock' >= 1 /\ boot' \in Nat
    BY <1>0, <2>1, <2>2 DEF TimeInv
  <2> QED
    BY <2>1, <2>3, <2>4, <2>5 DEF TimeInv, Expiry
<1>2. CASE SetBack
  <2>1. /\ lag' = lag + 1 /\ lag < MaxLag /\ Clock > 1 /\ UNCHANGED <<boot, trusted, issued, retain>>
        /\ stamps' = [stamps EXCEPT ![0] = @ \cup {Clock - 1}]
    BY <1>2 DEF SetBack, documents, timing
  <2>2. Clock' = Clock - 1
    BY <1>0, <2>1 DEF Clock
  <2>3. ASSUME NEW age \in 0..ReplyDelay, NEW t \in stamps'[age]
        PROVE  t \in Nat /\ t <= boot' /\ Clock' <= t + age
    <3>1. t \in stamps[age] \/ t = Clock - 1
      BY <2>1, <2>3 DEF TimeInv
    <3>2. t \in stamps[age] => t \in Nat /\ t <= boot /\ Clock <= t + age
      BY DEF TimeInv
    <3> QED
      BY <1>0, <2>1, <2>2, <3>1, <3>2, DurationAssumption
  <2>4. trusted.received # 0 => Clock' <= TrustedTime'
    BY <1>0, <2>1, <2>2 DEF TimeInv, TrustedTime
  <2>5. Clock' >= 1 /\ lag' \in Nat /\ lag' <= MaxLag /\ DOMAIN stamps' = 0..ReplyDelay
    BY <1>0, <2>1, <2>2, DurationAssumption DEF TimeInv
  <2> QED
    BY <2>1, <2>3, <2>4, <2>5 DEF TimeInv, Expiry
<1>3. ASSUME NEW g \in Grants, NEW v, Issue(g, v) PROVE TimeInv'
  <2>1. /\ issued' = [issued EXCEPT ![g] = Clock] /\ issued[g] = 0
        /\ UNCHANGED <<boot, lag, stamps, trusted, retain>>
    BY <1>3 DEF Issue, clocks, timing
  <2>2. Clock \in Nat
    BY <1>0 DEF TimeInv
  <2> QED
    BY <2>1, <2>2 DEF TimeInv, Clock, TrustedTime, Expiry
<1>4. ASSUME NEW g \in Grants, Revoke(g) PROVE TimeInv'
  <2>1. /\ retain' = [retain EXCEPT ![g] = (IF Clock > Expiry(g) THEN Clock ELSE Expiry(g)) + Retention]
        /\ issued[g] # 0 /\ UNCHANGED <<boot, lag, stamps, trusted, issued>>
    BY <1>4 DEF Revoke, clocks, timing
  <2>2. Expiry(g) \in Nat /\ Clock \in Nat /\ Retention \in Nat
    BY <1>0, DurationAssumption, RetentionAssumption DEF TimeInv, Expiry
  <2>3. retain'[g] \in Nat /\ Expiry(g) + Retention <= retain'[g]
    BY <2>1, <2>2 DEF TimeInv
  <2>4. \A h \in Grants \ {g} : retain'[h] = retain[h]
    BY <2>1 DEF TimeInv
  <2> QED
    BY <2>1, <2>3, <2>4 DEF TimeInv, Clock, TrustedTime, Expiry
<1>5. ASSUME NEW reply \in Replies, NEW failed, NEW w, AcceptTimeReply(reply, failed, w) PROVE TimeInv'
  <2>1. /\ stamps' = Now /\ UNCHANGED <<boot, lag, issued, retain>>
        /\ \/ UNCHANGED trusted
           \/ trusted' = [signed |-> reply.time, estimate |-> Estimate(reply), received |-> boot]
    BY <1>5 DEF AcceptTimeReply, documents
  <2>2. Estimate(reply) \in Nat /\ Clock <= Estimate(reply)
    BY RepliesYield
  <2>3. /\ trusted'.received \in Nat /\ trusted'.estimate \in Nat
        /\ trusted'.received # 0 => Clock <= trusted'.estimate + (boot - trusted'.received)
    BY <1>0, <2>1, <2>2 DEF TimeInv, TrustedTime
  <2>4. /\ DOMAIN Now = 0..ReplyDelay
        /\ \A age \in 0..ReplyDelay : \A t \in Now[age] : t \in Nat /\ t <= boot /\ Clock <= t + age
    BY <1>0, NowYields DEF TimeInv
  <2> QED
    BY <2>1, <2>3, <2>4 DEF TimeInv, Clock, TrustedTime, Expiry
<1>6. ASSUME NEW w, Restart(w) PROVE TimeInv'
  <2>1. (stamps' = Now \/ stamps' = stamps) /\ UNCHANGED <<boot, lag, trusted, issued, retain>>
    BY <1>6 DEF Restart, documents
  <2>2. /\ DOMAIN Now = 0..ReplyDelay
        /\ \A age \in 0..ReplyDelay : \A t \in Now[age] : t \in Nat /\ t <= boot /\ Clock <= t + age
    BY <1>0, NowYields DEF TimeInv
  <2> QED
    BY <2>1, <2>2 DEF TimeInv, Clock, TrustedTime, Expiry
<1>7. CASE Crash
  <2>1. trusted' = NoTime /\ UNCHANGED <<boot, lag, stamps, issued, retain>>
    BY <1>7 DEF Crash, documents, clocks
  <2>2. NoTime.received = 0 /\ NoTime.estimate = 0
    BY DEF NoTime
  <2> QED
    BY <2>1, <2>2 DEF TimeInv, Clock, TrustedTime, Expiry
<1>8. ASSUME NEW w, \/ \E v \in 2..MaxSettings : ApplySettings(v, w)
                    \/ RetryEvents(w) \/ RetrySettings(w) \/ PullEvents(w) \/ RepeatSettings
                    \/ UNCHANGED vars
      PROVE  TimeInv'
  BY <1>8, SameTime DEF ApplySettings, RetryEvents, RetrySettings, PullEvents, RepeatSettings, vars, timeVars,
     documents, clocks, timing
<1>9. ASSUME NEW g, NEW w,
             \/ AcceptGrant(g) \/ ActOnGrant(g)
             \/ ConsumeStart(g, w) \/ ConsumeRecord(g, w) \/ Withdraw(g, w) \/ Complete(g, w)
             \/ RetryTombstone(g, w)
             \/ \E wE, wF \in Writes : ApplyRevocation(g, w, wE, wF)
             \/ \E wA \in Writes : AckOutcome(g, wA, w)
             \/ \E r : AckResult(r, w)
      PROVE  TimeInv'
  <2>1. UNCHANGED <<documents, clocks, timing>>
    BY <1>9 DEF AcceptGrant, ActOnGrant, ConsumeStart, ConsumeRecord, Withdraw, Complete, RetryTombstone,
       ApplyRevocation, AckOutcome, AckResult
  <2> QED
    BY <2>1, SameTime DEF timeVars, documents, clocks, timing
<1> QED
  BY <1>1, <1>2, <1>3, <1>4, <1>5, <1>6, <1>7, <1>8, <1>9 DEF Next

-----------------------------------------------------------------------------
(* One grant: what the files and the memory say of it. *)

Jobs == {"idle", "queued", "refused", "recorded", "acted"}

DiskShape ==
  DOMAIN disk = {"highest", "consumed", "tombstones", "outcome", "acked", "settings", "events"}

\* An accepted grant is neither spent nor known to be revoked, and its deadline falls before
\* its expiry by the controller's clock.
HeldSound(g) ==
  /\ accepted[g] \in Nat
  /\ accepted[g] # 0 =>
       up /\ issued[g] # 0 /\ accepted[g] <= Expiry(g) + lag /\ g \notin spent /\ g \notin told.revoked

\* The record of a consumption is kept until every later reply shows the grant as expired.
SpentKept(g) ==
  g \in spent =>
    /\ issued[g] # 0
    /\ g \in disk.consumed \/ Expiry(g) + Retention <= boot
    /\ up => g \in consumed \/ Expiry(g) + Retention <= boot

\* So is a tombstone, once its revocation was answered; one in memory alone is unpersisted.
RevokedKept(g) ==
  /\ g \in told.revoked =>
       /\ retain[g] # 0
       /\ g \in disk.tombstones \/ retain[g] <= boot
       /\ up => g \in tombstones \/ retain[g] <= boot
  /\ up /\ g \in tombstones => g \in unpersisted \cup disk.tombstones \/ retain[g] <= boot
  /\ g \in tombstones \cup disk.tombstones \cup unpersisted => retain[g] # 0

\* The step of a consumption agrees with its record and with the act.
JobSound(g) ==
  /\ job[g] \in Jobs /\ acts[g] \in {0, 1}
  /\ job[g] # "idle" => up
  /\ job[g] = "queued" => accepted[g] # 0
  /\ job[g] = "refused" => g \notin spent
  /\ g \notin spent => acts[g] = 0
  /\ job[g] = "recorded" => g \in spent /\ acts[g] = 0
  /\ job[g] = "acted" => acts[g] = 1

GrantInv ==
  /\ DiskShape /\ DOMAIN told = {"revoked", "settings"}
  /\ DOMAIN accepted = Grants /\ DOMAIN job = Grants /\ DOMAIN acts = Grants /\ spent \subseteq Grants
  /\ up /\ ~unsaved => settings = disk.settings
  /\ \A g \in Grants : HeldSound(g) /\ SpentKept(g) /\ RevokedKept(g) /\ JobSound(g)

LEMMA InitGrant == Init => GrantInv
BY DEF Init, GrantInv, DiskShape, HeldSound, SpentKept, RevokedKept, JobSound, Jobs

sameFiles == <<disk.consumed, disk.tombstones, disk.settings, DOMAIN disk>>
grantVars == <<accepted, consumed, told, tombstones, unpersisted, up, settings, unsaved, spent>>

\* Time passes, new documents are signed and events are queued: nothing else changes.
LEMMA SameGrant ==
  ASSUME TimeInv, TimeInv', GrantInv, UNCHANGED grantVars, UNCHANGED sameFiles,
         boot <= boot', lag <= lag',
         \A g \in Grants : issued[g] # 0 => issued'[g] = issued[g],
         \A g \in Grants : retain[g] # 0 => retain'[g] = retain[g],
         DOMAIN job' = Grants, DOMAIN acts' = Grants,
         \A g \in Grants : JobSound(g)'
  PROVE  GrantInv'
<1>1. boot \in Nat /\ boot' \in Nat /\ lag \in Nat /\ lag' \in Nat
  BY DEF TimeInv
<1>2. \A g \in Grants : issued[g] \in Nat /\ issued'[g] \in Nat /\ retain[g] \in Nat /\ retain'[g] \in Nat
  BY DEF TimeInv
<1> SUFFICES ASSUME NEW g \in Grants PROVE (HeldSound(g) /\ SpentKept(g) /\ RevokedKept(g))'
  BY DEF GrantInv, DiskShape, grantVars, sameFiles
<1>3. HeldSound(g) /\ SpentKept(g) /\ RevokedKept(g)
  BY DEF GrantInv
<1>4. HeldSound(g)'
  BY <1>1, <1>2, <1>3, DurationAssumption DEF HeldSound, Expiry, grantVars
<1>5. SpentKept(g)'
  BY <1>1, <1>2, <1>3, DurationAssumption, RetentionAssumption DEF SpentKept, Expiry, grantVars, sameFiles
<1>6. RevokedKept(g)'
  BY <1>1, <1>2, <1>3 DEF RevokedKept, grantVars, sameFiles
<1> QED
  BY <1>4, <1>5, <1>6

LEMMA JobUntouched ==
  ASSUME GrantInv, UNCHANGED <<job, acts, up, spent, accepted>>
  PROVE  DOMAIN job' = Grants /\ DOMAIN acts' = Grants /\ \A g \in Grants : JobSound(g)'
BY DEF GrantInv, JobSound

\* Only the queue of events is written.
LEMMA SaveKeeps ==
  ASSUME NEW w, NEW new, NEW old, SaveEvents(w, new, old)
  PROVE  UNCHANGED sameFiles
BY DEF SaveEvents, sameFiles

\* The clocks and the controller.
LEMMA OutsideGrant ==
  ASSUME TimeInv, TimeInv', GrantInv,
         \/ Tick \/ SetBack
         \/ \E g \in Grants : Revoke(g)
         \/ \E g \in Grants, v \in 1..MaxSettings : Issue(g, v)
  PROVE  GrantInv'
<1>1. UNCHANGED <<grantVars, disk, job, acts>>
  BY DEF Tick, SetBack, Revoke, Issue, grantVars, journals, history, documents
<1>2. UNCHANGED sameFiles
  BY <1>1 DEF sameFiles
<1>3. boot \in Nat /\ lag \in Nat
  BY DEF TimeInv
<1>4. boot <= boot' /\ lag <= lag'
  BY <1>3 DEF Tick, SetBack, Revoke, Issue, clocks
<1>5. \A g \in Grants : issued[g] # 0 => issued'[g] = issued[g]
  BY DEF Tick, SetBack, Revoke, Issue, documents, TimeInv
<1>6. \A g \in Grants : retain[g] # 0 => retain'[g] = retain[g]
  BY DEF Tick, SetBack, Revoke, Issue, documents, TimeInv
<1>7. UNCHANGED <<job, acts, up, spent, accepted>>
  BY <1>1 DEF grantVars
<1> QED
  BY <1>1, <1>2, <1>4, <1>5, <1>6, <1>7, JobUntouched, SameGrant

\* The steps of a consumption, and the handlers that only move events.
LEMMA EventsGrant ==
  ASSUME TimeInv, TimeInv', GrantInv, NEW w, NEW g,
         \/ RetryEvents(w) \/ PullEvents(w)
         \/ \E wA \in Writes : AckOutcome(g, wA, w)
         \/ \E r : AckResult(r, w)
         \/ UNCHANGED vars
  PROVE  GrantInv'
<1>1. UNCHANGED <<grantVars, job, acts, boot, lag, issued, retain>>
  BY DEF RetryEvents, PullEvents, AckOutcome, AckResult, grantVars, journals, documents, clocks, vars, history
<1>2. UNCHANGED sameFiles
  <2>1. CASE RetryEvents(w)
    BY <2>1, SaveKeeps DEF RetryEvents
  <2>2. CASE PullEvents(w)
    BY <2>2, SaveKeeps DEF PullEvents, sameFiles
  <2>3. ASSUME NEW r, AckResult(r, w) PROVE UNCHANGED sameFiles
    BY <2>3, SaveKeeps DEF AckResult, SaveAcknowledged
  <2>4. ASSUME NEW wA, AckOutcome(g, wA, w) PROVE UNCHANGED sameFiles
    <3>1. \E a, e : disk' = [disk EXCEPT !.acked = a, !.events = e] \/ disk' = [disk EXCEPT !.acked = a]
      BY <2>4 DEF AckOutcome
    <3>2. PICK a, e : disk' = [disk EXCEPT !.acked = a, !.events = e] \/ disk' = [disk EXCEPT !.acked = a]
      BY <3>1
    <3>3. disk'.consumed = disk.consumed /\ disk'.tombstones = disk.tombstones /\ disk'.settings = disk.settings
      BY <3>2 DEF GrantInv, DiskShape
    <3>4. DOMAIN disk' = DOMAIN disk
      BY <3>2
    <3> QED
      BY <3>3, <3>4 DEF sameFiles
  <2>5. CASE UNCHANGED vars
    BY <2>5 DEF vars, sameFiles
  <2> QED
    BY <2>1, <2>2, <2>3, <2>4, <2>5
<1>3. boot \in Nat /\ lag \in Nat
  BY DEF TimeInv
<1>4. UNCHANGED <<job, acts, up, spent, accepted>>
  BY <1>1 DEF grantVars
<1> QED
  BY <1>1, <1>2, <1>3, <1>4, JobUntouched, SameGrant

LEMMA JobsGrant ==
  ASSUME TimeInv, TimeInv', GrantInv, NEW g \in Grants, NEW w,
         ConsumeStart(g, w) \/ Withdraw(g, w) \/ ActOnGrant(g) \/ Complete(g, w)
  PROVE  GrantInv'
<1>1. UNCHANGED <<grantVars, boot, lag, issued, retain>>
  BY DEF ConsumeStart, Withdraw, ActOnGrant, Complete, grantVars, journals, documents, clocks
<1>2. UNCHANGED sameFiles
  <2>1. CASE ConsumeStart(g, w)
    BY <2>1, SaveKeeps DEF ConsumeStart
  <2>2. CASE Withdraw(g, w)
    BY <2>2, SaveKeeps DEF Withdraw
  <2>3. CASE Complete(g, w)
    BY <2>3, SaveKeeps DEF Complete
  <2>4. CASE ActOnGrant(g)
    BY <2>4 DEF ActOnGrant, sameFiles
  <2> QED
    BY <2>1, <2>2, <2>3, <2>4
<1>3. boot \in Nat /\ lag \in Nat
  BY DEF TimeInv
<1>4. JobSound(g)
  BY DEF GrantInv
<1>5. DOMAIN job = Grants /\ DOMAIN acts = Grants
  BY DEF GrantInv
<1>6. DOMAIN job' = Grants /\ DOMAIN acts' = Grants
  BY <1>5 DEF ConsumeStart, Withdraw, ActOnGrant, Complete
<1>7. \A h \in Grants \ {g} : job'[h] = job[h] /\ acts'[h] = acts[h]
  BY <1>5 DEF ConsumeStart, Withdraw, ActOnGrant, Complete
<1>8. JobSound(g)'
  BY <1>1, <1>4, <1>5 DEF ConsumeStart, Consumable, Idle, Withdraw, ActOnGrant, Complete, JobSound, Jobs, grantVars
<1>9. \A h \in Grants \ {g} : JobSound(h)'
  BY <1>1, <1>7 DEF JobSound, GrantInv, grantVars
<1> QED
  BY <1>1, <1>2, <1>3, <1>6, <1>8, <1>9, SameGrant

\* Every time the broker can trust shows a grant as expired once the retention has passed,
\* because the clock is never set back by more than the retention.
LEMMA InsideRetention ==
  ASSUME TimeInv, NEW g \in Grants, AcceptGrant(g)
  PROVE  boot < Expiry(g) + Retention /\ (retain[g] # 0 => boot < retain[g])
<1>1. HasTime /\ TrustedTime < Expiry(g)
  BY DEF AcceptGrant
<1>2. /\ boot \in Nat /\ lag \in Nat /\ lag <= MaxLag /\ Clock = boot - lag
      /\ trusted.estimate \in Nat /\ trusted.received \in Nat
  BY DEF TimeInv, Clock
<1>3. TrustedTime \in Int /\ Clock <= TrustedTime
  BY <1>1, <1>2 DEF TimeInv, TrustedTime, HasTime
<1>4. Expiry(g) \in Nat /\ Retention \in Nat /\ MaxLag \in Nat
  BY DurationAssumption, RetentionAssumption DEF Expiry, TimeInv
<1>5. retain[g] \in Nat /\ (retain[g] # 0 => Expiry(g) + Retention <= retain[g])
  BY DEF TimeInv
<1> QED
  BY <1>1, <1>2, <1>3, <1>4, <1>5, SetBackAssumption

\* So a grant whose record or whose tombstone the broker has dropped is not accepted again.
LEMMA AcceptedIsFresh ==
  ASSUME TimeInv, GrantInv, NEW g \in Grants, AcceptGrant(g)
  PROVE  /\ up /\ issued[g] # 0 /\ g \notin spent /\ g \notin told.revoked
         /\ \E d \in Nat : /\ d # 0 /\ d <= Expiry(g) + lag
                           /\ accepted' = [accepted EXCEPT ![g] = d]
<1>1. /\ Idle /\ issued[g] # 0 /\ HasTime /\ ~Settled(g) /\ TrustedTime < Expiry(g)
      /\ accepted' = [accepted EXCEPT ![g] = boot + Least(Expiry(g) - TrustedTime, Ceiling)]
  BY DEF AcceptGrant
<1>2. /\ boot \in Nat /\ lag \in Nat /\ lag <= MaxLag /\ Clock = boot - lag
      /\ trusted.estimate \in Nat /\ trusted.received \in Nat
  BY DEF TimeInv, Clock
<1>3. TrustedTime \in Int /\ Clock <= TrustedTime
  BY <1>1, <1>2 DEF TimeInv, TrustedTime, HasTime
<1>4. Expiry(g) \in Nat /\ Retention \in Nat /\ MaxLag \in Nat /\ Ceiling \in Nat \ {0}
  BY DurationAssumption, RetentionAssumption DEF Expiry, TimeInv
<1>5. boot < Expiry(g) + Retention
  BY InsideRetention
<1>6. g \notin spent
  BY <1>1, <1>5, <1>2, <1>4 DEF GrantInv, SpentKept, Settled, Idle
<1>7. g \notin told.revoked
  <2>1. retain[g] \in Nat
    BY DEF TimeInv
  <2>2. retain[g] # 0 => boot < retain[g]
    BY InsideRetention
  <2> QED
    BY <1>1, <1>2, <2>1, <2>2 DEF GrantInv, RevokedKept, Settled, Idle
<1>8. /\ boot + Least(Expiry(g) - TrustedTime, Ceiling) \in Nat \ {0}
      /\ boot + Least(Expiry(g) - TrustedTime, Ceiling) <= Expiry(g) + lag
  BY <1>1, <1>2, <1>3, <1>4 DEF Least
<1> QED
  BY <1>1, <1>6, <1>7, <1>8 DEF Idle

LEMMA AcceptGrantKeeps ==
  ASSUME TimeInv, TimeInv', GrantInv, NEW g \in Grants, AcceptGrant(g)
  PROVE  GrantInv'
<1>1. PICK d \in Nat : d # 0 /\ d <= Expiry(g) + lag /\ accepted' = [accepted EXCEPT ![g] = d]
  BY AcceptedIsFresh
<1>2. up /\ issued[g] # 0 /\ g \notin spent /\ g \notin told.revoked
  BY AcceptedIsFresh
<1>3. UNCHANGED <<boot, lag, issued, retain, consumed, told, tombstones, unpersisted, up, settings, unsaved, spent,
                  job, acts, disk>>
  BY DEF AcceptGrant, documents, clocks, journals, history
<1>4. DOMAIN accepted' = Grants /\ accepted'[g] = d /\ \A h \in Grants \ {g} : accepted'[h] = accepted[h]
  BY <1>1 DEF GrantInv
<1>5. HeldSound(g)'
  BY <1>1, <1>2, <1>3, <1>4 DEF HeldSound, Expiry
<1>6. \A h \in Grants \ {g} : HeldSound(h)'
  BY <1>3, <1>4 DEF GrantInv, HeldSound, Expiry
<1>7. \A h \in Grants : SpentKept(h)' /\ RevokedKept(h)'
  BY <1>3 DEF GrantInv, SpentKept, RevokedKept, Expiry
<1>8. \A h \in Grants : JobSound(h)'
  BY <1>1, <1>3, <1>4 DEF GrantInv, JobSound
<1> QED
  BY <1>3, <1>4, <1>5, <1>6, <1>7, <1>8 DEF GrantInv, DiskShape

\* Accepted grants are dropped, and nothing is accepted.
LEMMA DropKeeps ==
  ASSUME NEW S, Drop(S), DOMAIN accepted = Grants
  PROVE  DOMAIN accepted' = Grants /\ \A g \in Grants : accepted'[g] \in {0, accepted[g]}
BY DEF Drop

\* The handlers of documents other than time: jobs are idle, what is spent stays on record.
LEMMA IdleJobs ==
  ASSUME GrantInv, Idle, UNCHANGED <<job, acts, spent>>
  PROVE  DOMAIN job' = Grants /\ DOMAIN acts' = Grants /\ \A g \in Grants : JobSound(g)'
BY DEF GrantInv, JobSound, Idle, Quiet, Jobs

LEMMA ApplySettingsKeeps ==
  ASSUME TimeInv, TimeInv', GrantInv, NEW v, NEW w, ApplySettings(v, w)
  PROVE  GrantInv'
<1>1. /\ Idle /\ settings' = v /\ unsaved' = (w # "ok") /\ disk' = [disk EXCEPT !.settings = Stored(w, @, v)]
      /\ told' = told \/ told' = [told EXCEPT !.settings = v]
      /\ UNCHANGED <<boot, lag, issued, retain, consumed, tombstones, unpersisted, up, spent, job, acts>>
  BY DEF ApplySettings, documents, clocks, journals
<1>2. DOMAIN accepted' = Grants /\ \A g \in Grants : accepted'[g] \in {0, accepted[g]}
  BY DropKeeps DEF ApplySettings, GrantInv
<1>3. /\ DOMAIN disk' = DOMAIN disk /\ disk'.consumed = disk.consumed /\ disk'.tombstones = disk.tombstones
      /\ disk'.settings = Stored(w, disk.settings, v)
  BY <1>1 DEF GrantInv, DiskShape
<1>4. DOMAIN told' = DOMAIN told /\ told'.revoked = told.revoked
  BY <1>1 DEF GrantInv
<1>5. \A g \in Grants : JobSound(g)'
  BY <1>1, IdleJobs
<1>6. \A g \in Grants : HeldSound(g)'
  BY <1>1, <1>2, <1>4 DEF GrantInv, HeldSound, Expiry
<1>7. \A g \in Grants : SpentKept(g)' /\ RevokedKept(g)'
  BY <1>1, <1>3, <1>4 DEF GrantInv, SpentKept, RevokedKept, Expiry
<1>8. up' /\ ~unsaved' => settings' = disk'.settings
  BY <1>1, <1>3 DEF Stored
<1> QED
  BY <1>1, <1>2, <1>3, <1>4, <1>5, <1>6, <1>7, <1>8 DEF GrantInv, DiskShape

LEMMA SettingsKeeps ==
  ASSUME TimeInv, TimeInv', GrantInv, NEW w, RepeatSettings \/ RetrySettings(w)
  PROVE  GrantInv'
<1>1. /\ Idle
      /\ UNCHANGED <<boot, lag, issued, retain, consumed, tombstones, unpersisted, up, spent, job, acts, accepted,
                     settings>>
      /\ \/ told' = [told EXCEPT !.settings = settings] /\ UNCHANGED <<disk, unsaved>>
         \/ told' = told /\ unsaved' = (w # "ok") /\ disk' = [disk EXCEPT !.settings = Stored(w, @, settings)]
  BY DEF RepeatSettings, RetrySettings, documents, clocks, journals
<1>3. DOMAIN disk' = DOMAIN disk /\ disk'.consumed = disk.consumed /\ disk'.tombstones = disk.tombstones
  BY <1>1 DEF GrantInv, DiskShape
<1>4. DOMAIN told' = DOMAIN told /\ told'.revoked = told.revoked
  BY <1>1 DEF GrantInv
<1>5. \A g \in Grants : JobSound(g)'
  BY <1>1, IdleJobs
<1>6. \A g \in Grants : HeldSound(g)'
  BY <1>1, <1>4 DEF GrantInv, HeldSound, Expiry
<1>7. \A g \in Grants : SpentKept(g)' /\ RevokedKept(g)'
  BY <1>1, <1>3, <1>4 DEF GrantInv, SpentKept, RevokedKept, Expiry
<1>8. up' /\ ~unsaved' => settings' = disk'.settings
  <2>1. CASE UNCHANGED <<disk, unsaved>>
    BY <1>1, <2>1 DEF GrantInv
  <2>2. CASE unsaved' = (w # "ok") /\ disk' = [disk EXCEPT !.settings = Stored(w, @, settings)]
    <3>1. disk'.settings = Stored(w, disk.settings, settings)
      BY <2>2 DEF GrantInv, DiskShape
    <3> QED
      BY <1>1, <2>2, <3>1 DEF Stored
  <2> QED
    BY <1>1, <2>1, <2>2
<1> QED
  BY <1>1, <1>3, <1>4, <1>5, <1>6, <1>7, <1>8 DEF GrantInv, DiskShape

LEMMA ConsumeRecordKeeps ==
  ASSUME TimeInv, TimeInv', GrantInv, NEW g \in Grants, NEW w, ConsumeRecord(g, w)
  PROVE  GrantInv'
<1>0. /\ job[g] = "queued"
      /\ UNCHANGED <<boot, lag, issued, retain, tombstones, unpersisted, up, acts, settings, unsaved, told>>
  BY DEF ConsumeRecord, documents, clocks
<1>1. /\ accepted[g] # 0 /\ up /\ issued[g] # 0 /\ g \notin spent /\ acts[g] = 0
      /\ DOMAIN job = Grants /\ DOMAIN accepted = Grants /\ DOMAIN acts = Grants /\ DiskShape
  BY <1>0 DEF GrantInv, JobSound, HeldSound
<1>2. CASE w = "ok" /\ g \notin RecordsOnDisk
  <2>1. /\ disk' = [disk EXCEPT !.consumed = disk.consumed \cup {g}] /\ job' = [job EXCEPT ![g] = "recorded"]
        /\ consumed' = disk.consumed \cup {g} /\ accepted' = [accepted EXCEPT ![g] = 0] /\ spent' = spent \cup {g}
    BY <1>2 DEF ConsumeRecord, Stored, AfterAppend, RecordsOnDisk
  <2>2. /\ DOMAIN disk' = DOMAIN disk /\ disk'.consumed = disk.consumed \cup {g}
        /\ disk'.tombstones = disk.tombstones /\ disk'.settings = disk.settings
    BY <1>1, <2>1 DEF DiskShape
  <2>3. /\ DOMAIN job' = Grants /\ DOMAIN accepted' = Grants /\ job'[g] = "recorded" /\ accepted'[g] = 0
        /\ \A h \in Grants \ {g} : job'[h] = job[h] /\ accepted'[h] = accepted[h]
    BY <1>1, <2>1
  <2>4. \A h \in Grants : HeldSound(h)'
    BY <1>0, <2>1, <2>3 DEF GrantInv, HeldSound, Expiry
  <2>5. \A h \in Grants : SpentKept(h)' /\ RevokedKept(h)'
    BY <1>0, <1>1, <2>1, <2>2 DEF GrantInv, SpentKept, RevokedKept, Expiry
  <2>6. \A h \in Grants : JobSound(h)'
    BY <1>0, <1>1, <2>1, <2>3 DEF GrantInv, JobSound, Jobs
  <2> QED
    BY <1>0, <1>1, <2>1, <2>2, <2>3, <2>4, <2>5, <2>6 DEF GrantInv, DiskShape
<1>3. CASE ~(w = "ok" /\ g \notin RecordsOnDisk)
  <2>1. job' = [job EXCEPT ![g] = "refused"] /\ UNCHANGED <<accepted, spent>>
    BY <1>3 DEF ConsumeRecord, AfterAppend
  <2>2. disk' = disk \/ disk' = [disk EXCEPT !.consumed = Stored(w, disk.consumed, disk.consumed \cup {g})]
    BY DEF ConsumeRecord
  <2>4. /\ DOMAIN disk' = DOMAIN disk /\ disk'.consumed \in {disk.consumed, disk.consumed \cup {g}}
        /\ disk'.tombstones = disk.tombstones /\ disk'.settings = disk.settings
    BY <1>1, <2>2 DEF DiskShape, Stored
  <2>3. consumed' \in {consumed, disk.consumed, disk.consumed \cup {g}}
    BY <1>3, <2>4 DEF ConsumeRecord, RecordsOnDisk
  <2>5. DOMAIN job' = Grants /\ job'[g] = "refused" /\ \A h \in Grants \ {g} : job'[h] = job[h]
    BY <1>1, <2>1
  <2>6. \A h \in Grants : HeldSound(h)'
    BY <1>0, <2>1 DEF GrantInv, HeldSound, Expiry
  <2>7. \A h \in Grants : SpentKept(h)' /\ RevokedKept(h)'
    BY <1>0, <1>1, <2>1, <2>3, <2>4 DEF GrantInv, SpentKept, RevokedKept, Expiry
  <2>8. \A h \in Grants : JobSound(h)'
    BY <1>0, <1>1, <2>1, <2>5 DEF GrantInv, JobSound, Jobs
  <2> QED
    BY <1>0, <1>1, <2>1, <2>4, <2>5, <2>6, <2>7, <2>8 DEF GrantInv, DiskShape
<1> QED
  BY <1>2, <1>3

LEMMA RetryTombstoneKeeps ==
  ASSUME TimeInv, TimeInv', GrantInv, NEW g \in Grants, NEW w \in Writes, RetryTombstone(g, w)
  PROVE  GrantInv'
<1>1. /\ Idle /\ UNCHANGED <<boot, lag, issued, retain, accepted, consumed, tombstones, up, acts, settings, unsaved,
                             told, spent, job>>
      /\ unpersisted' = IF w = "ok" THEN unpersisted \ {g} ELSE unpersisted
      /\ disk' = [disk EXCEPT !.tombstones = Stored(w, @, @ \cup {g}),
                              !.outcome[g] = Stored(w, @, outcome[g])]
  BY DEF RetryTombstone, documents, clocks
<1>2. /\ DOMAIN disk' = DOMAIN disk /\ disk'.consumed = disk.consumed /\ disk'.settings = disk.settings
      /\ disk'.tombstones = Stored(w, disk.tombstones, disk.tombstones \cup {g})
  BY <1>1 DEF GrantInv, DiskShape
<1>3. disk.tombstones \subseteq disk'.tombstones /\ disk'.tombstones \subseteq disk.tombstones \cup {g}
      /\ unpersisted \cup disk.tombstones \subseteq unpersisted' \cup disk'.tombstones
  BY <1>1, <1>2 DEF Stored
<1>4. \A h \in Grants : HeldSound(h)' /\ SpentKept(h)'
  BY <1>1, <1>2 DEF GrantInv, HeldSound, SpentKept, Expiry
<1>5. g \in unpersisted /\ unpersisted' \subseteq unpersisted
  BY <1>1 DEF RetryTombstone
<1>6. \A h \in Grants : RevokedKept(h)'
  BY <1>1, <1>3, <1>5 DEF GrantInv, RevokedKept
<1>7. \A h \in Grants : JobSound(h)'
  BY <1>1, IdleJobs
<1> QED
  BY <1>1, <1>2, <1>4, <1>6, <1>7 DEF GrantInv, DiskShape

LEMMA ApplyRevocationKeeps ==
  ASSUME TimeInv, TimeInv', GrantInv, NEW g \in Grants, NEW wT, NEW wE, NEW wF, ApplyRevocation(g, wT, wE, wF)
  PROVE  GrantInv'
<1>1. /\ Idle /\ retain[g] # 0 /\ tombstones' = tombstones \cup {g}
      /\ unpersisted' = IF wT = "ok" THEN unpersisted \ {g} ELSE unpersisted \cup {g}
      /\ told' = IF wT = "ok" THEN [told EXCEPT !.revoked = @ \cup {g}] ELSE told
      /\ UNCHANGED <<boot, lag, issued, retain, consumed, up, acts, settings, unsaved, spent, job>>
  BY DEF ApplyRevocation, RecordTombstone, documents, clocks
<1>2. PICK files, o, e :
        /\ disk' = [disk EXCEPT !.tombstones = files, !.outcome[g] = o, !.events = e]
        /\ files = IF g \notin tombstones \/ g \in unpersisted
                     THEN Stored(wT, disk.tombstones, disk.tombstones \cup {g}) ELSE disk.tombstones
  BY DEF ApplyRevocation
<1>3. /\ DOMAIN disk' = DOMAIN disk /\ disk'.consumed = disk.consumed /\ disk'.settings = disk.settings
      /\ disk'.tombstones = files
  BY <1>2 DEF GrantInv, DiskShape
<1>4. /\ DOMAIN told' = DOMAIN told
      /\ told'.revoked = IF wT = "ok" THEN told.revoked \cup {g} ELSE told.revoked
  BY <1>1 DEF GrantInv
<1>5. DOMAIN accepted' = Grants /\ accepted'[g] = 0 /\ \A h \in Grants : accepted'[h] \in {0, accepted[h]}
  BY DEF ApplyRevocation, Drop, GrantInv
<1>6. \A h \in Grants : HeldSound(h)' /\ SpentKept(h)'
  BY <1>1, <1>3, <1>4, <1>5 DEF GrantInv, HeldSound, SpentKept, Expiry
<1>7. RevokedKept(g)'
  BY <1>1, <1>2, <1>3, <1>4 DEF GrantInv, RevokedKept, Stored, Idle
<1>8. \A h \in Grants \ {g} : RevokedKept(h)'
  BY <1>1, <1>2, <1>3, <1>4 DEF GrantInv, RevokedKept, Stored
<1>9. \A h \in Grants : JobSound(h)'
  BY <1>1, IdleJobs
<1> QED
  BY <1>1, <1>3, <1>4, <1>5, <1>6, <1>7, <1>8, <1>9 DEF GrantInv, DiskShape

LEMMA CrashKeeps == ASSUME TimeInv, TimeInv', GrantInv, Crash PROVE GrantInv'
<1>1. /\ ~up' /\ accepted' = [g \in Grants |-> 0] /\ job' = [g \in Grants |-> "idle"]
      /\ consumed' = {} /\ tombstones' = {} /\ unpersisted' = {}
      /\ UNCHANGED <<boot, lag, issued, retain, disk, spent, acts, told>>
  BY DEF Crash, documents, clocks
<1>2. \A h \in Grants : HeldSound(h)' /\ SpentKept(h)' /\ RevokedKept(h)' /\ JobSound(h)'
  BY <1>1 DEF GrantInv, HeldSound, SpentKept, RevokedKept, JobSound, Jobs, Expiry
<1> QED
  BY <1>1, <1>2 DEF GrantInv, DiskShape

LEMMA RestartKeeps == ASSUME TimeInv, TimeInv', GrantInv, NEW w, Restart(w) PROVE GrantInv'
<1>1. /\ ~up /\ UNCHANGED <<boot, lag, issued, retain, accepted, unpersisted, unsaved, job, spent, acts, told>>
      /\ \E e : disk' = [disk EXCEPT !.events = e]
      /\ \/ w = "ok" /\ up' /\ consumed' = disk.consumed /\ tombstones' = disk.tombstones /\ settings' = disk.settings
         \/ UNCHANGED <<up, consumed, tombstones, settings>>
  BY DEF Restart, documents, RecordsOnDisk, RevocationsOnDisk
<1>2. PICK e : disk' = [disk EXCEPT !.events = e]
  BY <1>1
<1>3. /\ DOMAIN disk' = DOMAIN disk /\ disk'.consumed = disk.consumed /\ disk'.settings = disk.settings
      /\ disk'.tombstones = disk.tombstones
  BY <1>2 DEF GrantInv, DiskShape
<1>4. \A h \in Grants : accepted[h] = 0 /\ job[h] = "idle"
  BY <1>1 DEF GrantInv, HeldSound, JobSound
<1>5. \A h \in Grants : HeldSound(h)' /\ JobSound(h)'
  BY <1>1, <1>4 DEF GrantInv, HeldSound, JobSound
<1>6. \A h \in Grants : SpentKept(h)' /\ RevokedKept(h)'
  BY <1>1, <1>3 DEF GrantInv, SpentKept, RevokedKept, Expiry
<1>7. up' /\ ~unsaved' => settings' = disk'.settings
  BY <1>1, <1>3
<1> QED
  BY <1>1, <1>3, <1>5, <1>6, <1>7 DEF GrantInv, DiskShape

\* What a reply may drop of the files: records and tombstones past their retention.
LEMMA ReplyFiles ==
  ASSUME TimeInv, GrantInv, NEW reply \in Replies, NEW failed \in 1..5, NEW w \in Writes,
         AcceptTimeReply(reply, failed, w)
  PROVE  /\ DOMAIN disk' = DOMAIN disk /\ disk'.settings = disk.settings /\ disk'.events = disk.events
         /\ disk'.consumed \in {disk.consumed, KeptRecords(disk.consumed, reply.time)}
         /\ disk'.tombstones \in {disk.tombstones, KeptTombstones(tombstones, reply.time)}
         /\ consumed' \in {consumed, disk.consumed, KeptRecords(disk.consumed, reply.time)}
         /\ \/ UNCHANGED <<tombstones, unpersisted>>
            \/ /\ tombstones' = KeptTombstones(tombstones, reply.time) /\ unpersisted' = {}
               /\ disk'.tombstones = KeptTombstones(tombstones, reply.time)
<1> DEFINE t == reply.time
           high == IF highest > t THEN highest ELSE t
           keptT == KeptTombstones(tombstones, t)
           prunes == keptT # tombstones
           write(n) == IF n < failed THEN "ok" ELSE IF n = failed THEN w ELSE "lost"
           mark == MarkFile(write(1), high)
           left == Compacted(write(2), t)
           files == [disk EXCEPT !.highest = mark, !.consumed = left]
           after == CompactedRevocations(files, keptT, write(3), write(4))
<1>1. disk' = IF prunes THEN after ELSE files
  BY DEF AcceptTimeReply
<1>2. /\ failed = 5 <=> w = "ok"
      /\ consumed' \in {consumed, disk.consumed, KeptRecords(disk.consumed, t)}
      /\ \/ UNCHANGED <<tombstones, unpersisted>>
         \/ failed = 5 /\ prunes /\ tombstones' = keptT /\ unpersisted' = {}
  BY DEF AcceptTimeReply, RecordsOnDisk
<1>3. left \in {disk.consumed, KeptRecords(disk.consumed, t)}
  BY DEF Compacted, Stored, RecordsOnDisk
<1>4. /\ DOMAIN files = DOMAIN disk /\ files.consumed = left /\ files.tombstones = disk.tombstones
      /\ files.settings = disk.settings /\ files.events = disk.events
  BY DEF GrantInv, DiskShape
<1>5. /\ DOMAIN after = DOMAIN disk /\ after.consumed = left
      /\ after.settings = disk.settings /\ after.events = disk.events
      /\ after.tombstones = Stored(write(4), disk.tombstones, keptT)
  <2> HIDE DEF files
  <2>1. \E a, b, c : after = [files EXCEPT !.acked = a, !.tombstones = b, !.outcome = c]
                     /\ b = Stored(write(4), files.tombstones, keptT)
    BY DEF CompactedRevocations
  <2>2. PICK a, b, c : after = [files EXCEPT !.acked = a, !.tombstones = b, !.outcome = c]
                     /\ b = Stored(write(4), files.tombstones, keptT)
    BY <2>1
  <2>3. DiskShape
    BY DEF GrantInv
  <2> HIDE DEF after, keptT, left, write
  <2> QED
    BY <1>4, <2>2, <2>3 DEF DiskShape
<1>6. failed = 5 => after.tombstones = keptT
  BY <1>5 DEF Stored
<1>7. after.tombstones \in {disk.tombstones, keptT}
  BY <1>5 DEF Stored
<1> HIDE DEF after, files, keptT, prunes, left, mark
<1> QED
  BY <1>1, <1>2, <1>3, <1>4, <1>5, <1>6, <1>7 DEF keptT

LEMMA AcceptTimeReplyKeeps ==
  ASSUME TimeInv, TimeInv', GrantInv, NEW reply \in Replies, NEW failed \in 1..5, NEW w \in Writes,
         AcceptTimeReply(reply, failed, w)
  PROVE  GrantInv'
<1>1. Idle /\ UNCHANGED <<boot, lag, issued, retain, up, settings, unsaved, spent, acts, job, told>>
  BY DEF AcceptTimeReply, documents
<1>2. PICK t \in Nat : t = reply.time /\ t <= boot
  BY RepliesYield
<1>3. /\ DOMAIN disk' = DOMAIN disk /\ disk'.settings = disk.settings
      /\ disk'.consumed \in {disk.consumed, KeptRecords(disk.consumed, t)}
      /\ disk'.tombstones \in {disk.tombstones, KeptTombstones(tombstones, t)}
      /\ consumed' \in {consumed, disk.consumed, KeptRecords(disk.consumed, t)}
      /\ \/ UNCHANGED <<tombstones, unpersisted>>
         \/ /\ tombstones' = KeptTombstones(tombstones, t) /\ unpersisted' = {}
            /\ disk'.tombstones = KeptTombstones(tombstones, t)
  BY <1>2, ReplyFiles
<1>4. DOMAIN accepted' = Grants /\ \A h \in Grants : accepted'[h] \in {0, accepted[h]}
  BY DropKeeps DEF AcceptTimeReply, GrantInv
<1>5. \A h \in Grants : HeldSound(h)'
  BY <1>1, <1>4 DEF GrantInv, HeldSound, Expiry
<1>6. ASSUME NEW h \in Grants PROVE SpentKept(h)' /\ RevokedKept(h)'
  <2>1. boot \in Nat /\ issued[h] \in Nat /\ retain[h] \in Nat /\ Expiry(h) \in Nat /\ Retention \in Nat
    BY DurationAssumption, RetentionAssumption DEF TimeInv, Expiry
  <2>2. h \in disk.consumed => h \in KeptRecords(disk.consumed, t) \/ Expiry(h) + Retention <= boot
    BY <1>2, <2>1 DEF KeptRecords
  <2>3. h \in tombstones => h \in KeptTombstones(tombstones, t) \/ retain[h] <= boot
    BY <1>2, <2>1 DEF KeptTombstones
  <2>4. KeptTombstones(tombstones, t) \subseteq tombstones
    BY DEF KeptTombstones
  <2>5. SpentKept(h)'
    BY <1>1, <1>3, <2>2 DEF GrantInv, SpentKept, Expiry, Idle
  <2>6. RevokedKept(h)'
    BY <1>1, <1>3, <2>3, <2>4 DEF GrantInv, RevokedKept, Idle
  <2> QED
    BY <2>5, <2>6
<1>7. \A h \in Grants : JobSound(h)'
  BY <1>1, IdleJobs
<1> QED
  BY <1>1, <1>3, <1>4, <1>5, <1>6, <1>7 DEF GrantInv, DiskShape

LEMMA NextGrant == ASSUME TimeInv, TimeInv', GrantInv, [Next]_vars PROVE GrantInv'
<1>1. ASSUME NEW w \in Writes,
             \/ RetryEvents(w) \/ PullEvents(w) \/ RetrySettings(w) \/ Restart(w)
             \/ \E v \in 2..MaxSettings : ApplySettings(v, w)
             \/ \E reply \in Replies, failed \in 1..5 : AcceptTimeReply(reply, failed, w)
      PROVE  GrantInv'
  BY <1>1, EventsGrant, SettingsKeeps, RestartKeeps, ApplySettingsKeeps, AcceptTimeReplyKeeps
<1>2. ASSUME NEW w \in Writes, NEW g \in Grants,
             \/ ConsumeStart(g, w) \/ ConsumeRecord(g, w) \/ Withdraw(g, w) \/ Complete(g, w)
             \/ RetryTombstone(g, w)
             \/ \E wE, wF \in Writes : ApplyRevocation(g, w, wE, wF)
             \/ \E wA \in Writes : AckOutcome(g, wA, w)
             \/ \E status \in {"stray", "uncertain", "completed"} : AckResult(<<g, status>>, w)
      PROVE  GrantInv'
  BY <1>2, JobsGrant, ConsumeRecordKeeps, RetryTombstoneKeeps, ApplyRevocationKeeps, EventsGrant
<1>3. CASE \/ Tick \/ SetBack \/ \E g \in Grants : Revoke(g)
           \/ \E g \in Grants, v \in 1..MaxSettings : Issue(g, v)
  BY <1>3, OutsideGrant
<1>4. CASE RepeatSettings \/ Crash \/ UNCHANGED vars
  BY <1>4, SettingsKeeps, CrashKeeps, EventsGrant
<1>5. ASSUME NEW g \in Grants, AcceptGrant(g) \/ ActOnGrant(g) PROVE GrantInv'
  BY <1>5, AcceptGrantKeeps, JobsGrant
<1> QED
  BY <1>1, <1>2, <1>3, <1>4, <1>5 DEF Next

IInv == TimeInv /\ GrantInv

LEMMA Inductive == Spec => []IInv
<1>1. Init => IInv
  BY InitTime, InitGrant DEF IInv
<1>2. IInv /\ [Next]_vars => IInv'
  BY NextTime, NextGrant DEF IInv
<1> QED
  BY <1>1, <1>2, PTL DEF Spec

-----------------------------------------------------------------------------
(* A consumption is decided while the grant is in force. *)

LEMMA JobMoves ==
  ASSUME [Next]_vars
  PROVE  \/ UNCHANGED job
         \/ Crash
         \/ \E h \in Grants, w \in Writes :
              ConsumeStart(h, w) \/ ConsumeRecord(h, w) \/ Withdraw(h, w) \/ Complete(h, w) \/ ActOnGrant(h)
<1>1. ASSUME \/ Tick \/ SetBack \/ RepeatSettings \/ UNCHANGED vars
             \/ \E g \in Grants : Revoke(g) \/ AcceptGrant(g)
             \/ \E g \in Grants, v \in 1..MaxSettings : Issue(g, v)
      PROVE  UNCHANGED job
  BY <1>1 DEF Tick, SetBack, Revoke, AcceptGrant, Issue, RepeatSettings, vars
<1>2. ASSUME NEW w,
             \/ \E reply \in Replies, failed \in 1..5 : AcceptTimeReply(reply, failed, w)
             \/ \E v \in 2..MaxSettings : ApplySettings(v, w)
             \/ RetryEvents(w) \/ RetrySettings(w) \/ PullEvents(w) \/ Restart(w)
      PROVE  UNCHANGED job
  BY <1>2 DEF AcceptTimeReply, ApplySettings, RetryEvents, RetrySettings, PullEvents, Restart
<1>3. ASSUME NEW w, NEW g,
             \/ RetryTombstone(g, w)
             \/ \E wE, wF \in Writes : ApplyRevocation(g, w, wE, wF)
             \/ \E wA \in Writes : AckOutcome(g, wA, w)
             \/ \E status : AckResult(<<g, status>>, w)
      PROVE  UNCHANGED job
  BY <1>3 DEF RetryTombstone, ApplyRevocation, AckOutcome, AckResult
<1>4. "ok" \in Writes
  BY DEF Writes
<1> QED
  BY <1>1, <1>2, <1>3, <1>4 DEF Next

LEMMA OnlyConsumeStart ==
  ASSUME GrantInv, [Next]_vars, NEW g \in Grants, job[g] = "idle", job'[g] = "queued"
  PROVE  \E w : ConsumeStart(g, w)
<1>0. DOMAIN job = Grants
  BY DEF GrantInv
<1>1. ASSUME NEW w, NEW h \in Grants,
             ConsumeRecord(h, w) \/ Withdraw(h, w) \/ Complete(h, w) \/ ActOnGrant(h)
      PROVE  FALSE
  BY <1>0, <1>1 DEF ConsumeRecord, Withdraw, Complete, ActOnGrant, AfterAppend
<1>2. ASSUME NEW w, NEW h \in Grants, ConsumeStart(h, w) PROVE h = g
  BY <1>0, <1>2 DEF ConsumeStart
<1>3. ~Crash
  BY DEF Crash
<1> QED
  BY <1>1, <1>2, <1>3, JobMoves

LEMMA StartInForce ==
  ASSUME TimeInv, GrantInv, NEW g \in Grants, NEW w, ConsumeStart(g, w)
  PROVE  Clock < Expiry(g) /\ g \notin told.revoked /\ under[g] = disk.settings
<1>1. Idle /\ ~Fenced /\ accepted[g] # 0 /\ under[g] = settings /\ boot < accepted[g]
  BY DEF ConsumeStart, Consumable
<1>2. under[g] = disk.settings
  BY <1>1 DEF GrantInv, Idle, Fenced
<1>3. accepted[g] \in Nat /\ accepted[g] <= Expiry(g) + lag /\ g \notin told.revoked
  BY <1>1 DEF GrantInv, HeldSound
<1>4. boot \in Nat /\ lag \in Nat /\ Expiry(g) \in Nat
  BY DurationAssumption DEF TimeInv, Expiry
<1> QED
  BY <1>1, <1>2, <1>3, <1>4 DEF Clock

\* The broker decides to consume a grant only before it has expired by the controller's own
\* clock, before its revocation was answered, and under the settings on disk: for any durations,
\* reply delays, failed writes and crashes (accept_time_reply, accept_grant, persistence_fenced).
THEOREM AuthorityHolds == Spec => AuthorityInForce
<1>1. IInv /\ [Next]_vars =>
        [\A g \in Grants : job[g] = "idle" /\ job'[g] = "queued" =>
           /\ Clock < Expiry(g)
           /\ g \notin told.revoked
           /\ under[g] = disk.settings]_vars
  BY OnlyConsumeStart, StartInForce DEF IInv
<1> QED
  BY <1>1, Inductive, PTL DEF Spec, AuthorityInForce

-----------------------------------------------------------------------------
(* The broker implements GrantContract. *)

\* Whatever leaves spent, told and acts alone and accepts nothing drops some held grants.
LEMMA Loses ==
  ASSUME GrantInv, UNCHANGED <<spent, acts>>, told'.revoked = told.revoked, up' => up \/ accepted' = accepted,
         \A g \in Grants : accepted'[g] \in {0, accepted[g]}
  PROVE  Contract!DropSome
<1> DEFINE S == {g \in Grants : ContractState[g] = "held" /\ ~(up' /\ accepted'[g] # 0)}
<1>1. \A g \in Grants : accepted[g] # 0 => up
  BY DEF GrantInv, HeldSound
<1>2. S \in SUBSET {g \in Grants : ContractState[g] = "held"}
  OBVIOUS
<1>3. ContractState' = [g \in Grants |-> IF g \in S THEN "none" ELSE ContractState[g]]
  BY <1>1 DEF ContractState
<1> QED
  BY <1>2, <1>3 DEF Contract!DropSome

LEMMA AcceptRefines ==
  ASSUME TimeInv, GrantInv, NEW g \in Grants, AcceptGrant(g)
  PROVE  Contract!Move(g, {"none"}, "held")
<1>1. PICK d \in Nat : d # 0 /\ accepted' = [accepted EXCEPT ![g] = d]
  BY AcceptedIsFresh
<1>2. up /\ g \notin spent /\ g \notin told.revoked
  BY AcceptedIsFresh
<1>3. accepted[g] = 0 /\ UNCHANGED <<up, spent, told, acts>>
  BY DEF AcceptGrant, history
<1>4. DOMAIN accepted = Grants
  BY DEF GrantInv
<1>5. ContractState[g] = "none"
  BY <1>2, <1>3 DEF ContractState
<1>6. ContractState' = [ContractState EXCEPT ![g] = "held"]
  BY <1>1, <1>2, <1>3, <1>4 DEF ContractState
<1> QED
  BY <1>3, <1>5, <1>6 DEF Contract!Move

LEMMA ConsumeRefines ==
  ASSUME GrantInv, NEW g \in Grants, NEW w, ConsumeRecord(g, w)
  PROVE  Contract!Move(g, {"held"}, "spent") \/ Contract!DropSome
<1>1. /\ job[g] = "queued" /\ UNCHANGED <<up, told, acts>>
      /\ \/ accepted' = [accepted EXCEPT ![g] = 0] /\ spent' = spent \cup {g}
         \/ UNCHANGED <<accepted, spent>>
  BY DEF ConsumeRecord
<1>2. accepted[g] # 0 /\ up /\ g \notin spent /\ g \notin told.revoked /\ DOMAIN accepted = Grants
  BY <1>1 DEF GrantInv, JobSound, HeldSound
<1>3. CASE UNCHANGED <<accepted, spent>>
  BY <1>1, <1>3, Loses
<1>4. CASE accepted' = [accepted EXCEPT ![g] = 0] /\ spent' = spent \cup {g}
  <2>1. ContractState[g] = "held"
    BY <1>2 DEF ContractState
  <2>2. ContractState' = [ContractState EXCEPT ![g] = "spent"]
    BY <1>1, <1>2, <1>4 DEF ContractState
  <2> QED
    BY <1>1, <2>1, <2>2 DEF Contract!Move
<1> QED
  BY <1>1, <1>3, <1>4

LEMMA RevokeRefines ==
  ASSUME GrantInv, NEW g \in Grants, NEW wT, NEW wE, NEW wF, ApplyRevocation(g, wT, wE, wF)
  PROVE  Contract!Move(g, {"none", "held"}, "dead") \/ Contract!DropSome
<1>1. /\ told' = (IF wT = "ok" THEN [told EXCEPT !.revoked = @ \cup {g}] ELSE told)
      /\ UNCHANGED <<up, spent, acts>>
  BY DEF ApplyRevocation
<1>2. told'.revoked = told.revoked \/ told'.revoked = told.revoked \cup {g}
  BY <1>1 DEF GrantInv
<1>3. /\ DOMAIN accepted = Grants /\ \A h \in Grants \ {g} : accepted'[h] = accepted[h]
      /\ \A h \in Grants : accepted'[h] \in {0, accepted[h]}
  BY DEF ApplyRevocation, Drop, GrantInv
<1>4. CASE told'.revoked = told.revoked
  BY <1>1, <1>3, <1>4, Loses
<1>5. CASE told'.revoked = told.revoked \cup {g} /\ g \notin spent /\ g \notin told.revoked
  <2>1. ContractState[g] \in {"none", "held"}
    BY <1>5 DEF ContractState
  <2>2. ContractState' = [ContractState EXCEPT ![g] = "dead"]
    BY <1>1, <1>3, <1>5 DEF ContractState
  <2> QED
    BY <1>1, <2>1, <2>2 DEF Contract!Move
<1>6. CASE told'.revoked = told.revoked \cup {g} /\ g \in spent
  <2>1. ContractState' = [h \in Grants |-> IF h \in {} THEN "none" ELSE ContractState[h]]
    BY <1>1, <1>3, <1>6 DEF ContractState
  <2> QED
    <3>1. {} \in SUBSET {h \in Grants : ContractState[h] = "held"}
      OBVIOUS
    <3>2. \E S \in SUBSET {h \in Grants : ContractState[h] = "held"} :
            ContractState' = [h \in Grants |-> IF h \in S THEN "none" ELSE ContractState[h]]
      BY <2>1, <3>1
    <3> QED
      BY <1>1, <3>2 DEF Contract!DropSome
<1>7. CASE told'.revoked = told.revoked \cup {g} /\ g \in told.revoked
  <2>1. told'.revoked = told.revoked
    BY <1>7
  <2> QED
    BY <1>4, <2>1
<1> QED
  BY <1>2, <1>4, <1>5, <1>6, <1>7

LEMMA ActRefines ==
  ASSUME GrantInv, NEW g \in Grants, ActOnGrant(g)
  PROVE  Contract!Act(g) \/ Contract!DropSome
<1>1. /\ job[g] = "recorded" /\ UNCHANGED <<up, told, spent, accepted>>
      /\ acts' \in {acts, [acts EXCEPT ![g] = @ + 1]}
  BY DEF ActOnGrant
<1>2. g \in spent /\ acts[g] = 0
  BY <1>1 DEF GrantInv, JobSound
<1>3. CASE UNCHANGED acts
  BY <1>1, <1>3, Loses
<1>4. CASE acts' = [acts EXCEPT ![g] = @ + 1]
  BY <1>1, <1>2, <1>4 DEF Contract!Act, ContractState
<1> QED
  BY <1>1, <1>3, <1>4

LEMMA Refines ==
  ASSUME TimeInv, GrantInv, [Next]_vars
  PROVE  Contract!ContractNext \/ UNCHANGED <<ContractState, acts>>
<1>0. \A g \in Grants : accepted[g] # 0 => up /\ g \notin spent /\ g \notin told.revoked
  BY DEF GrantInv, HeldSound
<1>00. DOMAIN accepted = Grants /\ DOMAIN told = {"revoked", "settings"}
  BY DEF GrantInv
<1>1. CASE \/ Tick \/ SetBack \/ \E g \in Grants : Revoke(g)
           \/ \E g \in Grants, v \in 1..MaxSettings : Issue(g, v)
           \/ UNCHANGED vars
  BY <1>1 DEF Tick, SetBack, Revoke, Issue, vars, history, ContractState
<1>2. ASSUME NEW w,
             \/ RetryEvents(w) \/ RetrySettings(w) \/ PullEvents(w)
             \/ \E g : \/ Withdraw(g, w) \/ Complete(g, w) \/ RetryTombstone(g, w) \/ ConsumeStart(g, w)
                       \/ \E wA \in Writes : AckOutcome(g, wA, w)
                       \/ \E status : AckResult(<<g, status>>, w)
      PROVE  UNCHANGED <<ContractState, acts>>
  <2>1. UNCHANGED <<up, accepted, spent, told, acts>>
    BY <1>2 DEF RetryEvents, RetrySettings, PullEvents, Withdraw, Complete, RetryTombstone, ConsumeStart,
       AckOutcome, AckResult
  <2> QED
    BY <2>1 DEF ContractState
<1>3. CASE RepeatSettings
  <2>1. told'.revoked = told.revoked /\ UNCHANGED <<up, spent, acts, accepted>>
    BY <1>3, <1>00 DEF RepeatSettings
  <2> QED
    BY <2>1 DEF ContractState
<1>4. ASSUME NEW w, Restart(w) PROVE Contract!DropSome
  <2>1. UNCHANGED <<told, spent, acts, accepted>>
    BY <1>4 DEF Restart
  <2> QED
    BY <2>1, Loses
<1>5. ASSUME NEW w, NEW v, ApplySettings(v, w) PROVE Contract!DropSome
  <2>1. told'.revoked = told.revoked /\ UNCHANGED <<up, spent, acts>>
    BY <1>5, <1>00 DEF ApplySettings
  <2>2. \A g \in Grants : accepted'[g] \in {0, accepted[g]}
    BY <1>5, <1>00, DropKeeps DEF ApplySettings
  <2> QED
    BY <2>1, <2>2, Loses
<1>6. ASSUME NEW w, NEW reply, NEW failed, AcceptTimeReply(reply, failed, w) PROVE Contract!DropSome
  <2>1. UNCHANGED <<told, up, spent, acts>>
    BY <1>6 DEF AcceptTimeReply
  <2>2. \A g \in Grants : accepted'[g] \in {0, accepted[g]}
    BY <1>6, <1>00, DropKeeps DEF AcceptTimeReply
  <2> QED
    BY <2>1, <2>2, Loses
<1>7. CASE Crash
  <2>1. UNCHANGED <<told, spent, acts>> /\ ~up' /\ accepted' = [g \in Grants |-> 0]
    BY <1>7 DEF Crash
  <2>2. Contract!DropSome
    BY <2>1, Loses
  <2> QED
    BY <2>2 DEF Contract!ContractNext
<1> QED
  BY <1>1, <1>2, <1>3, <1>4, <1>5, <1>6, <1>7, AcceptRefines, ConsumeRefines, RevokeRefines, ActRefines
     DEF Next, Contract!ContractNext

\* The broker keeps its contract with the controller, for every number of grants, crashes and
\* failed writes: a grant is spent at most once and acted on at most once, and never spent after
\* its revocation was answered (GrantJournal::record and prune, RevocationJournal::record and
\* prune, accept_time_reply).
THEOREM ContractKept == Spec => OneUseContract
<1>1. Init => Contract!ContractInit
  BY DEF Init, Contract!ContractInit, ContractState
<1>2. IInv /\ [Next]_vars => [Contract!ContractNext]_(Contract!contractVars)
  BY Refines DEF IInv, Contract!contractVars
<1> QED
  BY <1>1, <1>2, Inductive, PTL DEF Spec, OneUseContract, Contract!ContractSpec

-----------------------------------------------------------------------------
(* What the controller hears. *)

Statuses == {"stray", "uncertain", "completed"}
Outcomes == {"none", "revoked_before_consumption", "already_consumed", "not_received"}
OutcomeMaps == [Grants -> Outcomes]
EventSets == [results : SUBSET (Grants \X Statuses), outcomes : OutcomeMaps]

ReportShape ==
  /\ events \in EventSets /\ disk.events \in EventSets /\ heard \in EventSets
  /\ outcome \in OutcomeMaps /\ deferred \in OutcomeMaps /\ disk.outcome \in OutcomeMaps

Has(S, g) == \E s \in Statuses : <<g, s>> \in S

\* A result of g is where the controller will find it, and memory does not overwrite it.
Reported(g) ==
  /\ Has(disk.events.results \cup heard.results, g)
  /\ up => Has(events.results \cup heard.results, g)

Completed(g) == <<g, "completed">> \in events.results \cup disk.events.results \cup heard.results

ResultSound(g) ==
  /\ acts[g] > 0 \/ job[g] \in {"queued", "recorded", "acted"} => Reported(g)
  /\ Completed(g) => acts[g] = 1

LEMMA StoredYields == ASSUME NEW w, NEW a, NEW b PROVE Stored(w, a, b) \in {a, b} /\ Stored("ok", a, b) = b
BY DEF Stored

LEMMA WithOutcomesYields ==
  ASSUME NEW e \in EventSets, NEW d \in OutcomeMaps
  PROVE  /\ WithOutcomes(e, d) \in EventSets
         /\ WithOutcomes(e, d).results = e.results
         /\ \A g \in Grants : WithOutcomes(e, d).outcomes[g] \in {e.outcomes[g], d[g]}
<1> DEFINE m == [g \in Grants |-> IF d[g] # "none" THEN d[g] ELSE e.outcomes[g]]
<1>1. WithOutcomes(e, d) = [e EXCEPT !.outcomes = m]
  BY DEF WithOutcomes
<1>2. m \in OutcomeMaps
  BY DEF EventSets, OutcomeMaps
<1>3. \A g \in Grants : m[g] \in {e.outcomes[g], d[g]}
  OBVIOUS
<1> HIDE DEF m
<1> QED
  BY <1>1, <1>2, <1>3 DEF EventSets

LEMMA RestoredYields ==
  ASSUME NEW out \in OutcomeMaps, NEW ack, NEW e \in EventSets, NEW d \in OutcomeMaps
  PROVE  /\ Restored(out, ack, e, d) \in OutcomeMaps
         /\ \A g \in Grants : Restored(out, ack, e, d)[g] \in {out[g], d[g]}
BY DEF Restored, OutcomeMaps

LEMMA NoneYields ==
  /\ NoOutcomes \in OutcomeMaps /\ NoEvents \in EventSets /\ NoEvents.results = {}
  /\ \A g \in Grants : NoOutcomes[g] = "none" /\ NoEvents.outcomes[g] = "none"
BY DEF NoOutcomes, NoEvents, EventSets, OutcomeMaps, Outcomes

\* A queue that was saved, or not, over the queue of before.
LEMMA SaveYields ==
  ASSUME GrantInv, NEW w, NEW new, NEW old, SaveEvents(w, new, old)
  PROVE  /\ events' = IF w = "ok" THEN new ELSE old
         /\ disk'.events \in {disk.events, new} /\ (w = "ok" => disk'.events = new)
         /\ disk'.outcome = disk.outcome
BY StoredYields DEF SaveEvents, GrantInv, DiskShape

\* The outcomes of g, wherever they are kept or on their way.
Said(g) ==
  {outcome[g], events.outcomes[g], deferred[g], disk.outcome[g], disk.events.outcomes[g], heard.outcomes[g]}

\* A step that invents nothing about g and loses no result of it.
Relays(g) ==
  /\ Reported(g) => Reported(g)'
  /\ Completed(g)' => Completed(g)
  /\ Said(g)' \subseteq Said(g) \cup {"none"}

\* The queue is left alone.
LEMMA QueueUntouched ==
  ASSUME UNCHANGED <<events, heard, deferred>>, disk'.events = disk.events, up' => up, NEW g \in Grants,
         outcome'[g] \in Said(g) \cup {"none"}, disk'.outcome[g] \in Said(g) \cup {"none"}
  PROVE  Relays(g)
<1>1. Reported(g) => Reported(g)'
  BY DEF Reported
<1>2. Completed(g)' => Completed(g)
  BY DEF Completed
<1>3. Said(g)' \subseteq Said(g) \cup {"none"}
  BY DEF Said
<1> QED
  BY <1>1, <1>2, <1>3 DEF Relays

LEMMA OutsideRelays ==
  ASSUME ReportShape,
         \/ Tick \/ SetBack \/ RepeatSettings \/ UNCHANGED vars
         \/ \E g \in Grants : Revoke(g) \/ AcceptGrant(g) \/ ActOnGrant(g)
         \/ \E g \in Grants, v \in 1..MaxSettings : Issue(g, v)
  PROVE  ReportShape' /\ \A g \in Grants : Relays(g)
<1>1. UNCHANGED <<events, heard, deferred, disk, outcome, up>>
  BY DEF Tick, SetBack, RepeatSettings, vars, Revoke, AcceptGrant, ActOnGrant, Issue, queue, journals, history
<1>2. \A g \in Grants : outcome'[g] \in Said(g) \cup {"none"} /\ disk'.outcome[g] \in Said(g) \cup {"none"}
  BY <1>1 DEF Said
<1>3. \A g \in Grants : Relays(g)
  BY <1>1, <1>2, QueueUntouched
<1> QED
  BY <1>1, <1>3 DEF ReportShape

LEMMA ReplyRelays ==
  ASSUME ReportShape, GrantInv, TimeInv, NEW reply \in Replies, NEW failed \in 1..5, NEW w \in Writes,
         AcceptTimeReply(reply, failed, w)
  PROVE  ReportShape' /\ \A g \in Grants : Relays(g)
<1>1. UNCHANGED <<events, heard, deferred, up>> /\ disk'.events = disk.events
  BY ReplyFiles DEF AcceptTimeReply, queue
<1>2. outcome' = outcome \/ \E S : outcome' = OnlyFor(outcome, S)
  BY DEF AcceptTimeReply
<1>3. disk'.outcome = disk.outcome \/ \E S : disk'.outcome = OnlyFor(outcome, S)
  <2> DEFINE t == reply.time
             high == IF highest > t THEN highest ELSE t
             keptT == KeptTombstones(tombstones, t)
             prunes == keptT # tombstones
             write(n) == IF n < failed THEN "ok" ELSE IF n = failed THEN w ELSE "lost"
             files == [disk EXCEPT !.highest = MarkFile(write(1), high), !.consumed = Compacted(write(2), t)]
             after == CompactedRevocations(files, keptT, write(3), write(4))
  <2>1. disk' = IF prunes THEN after ELSE files
    BY DEF AcceptTimeReply
  <2>2. files.outcome = disk.outcome /\ DOMAIN files = DOMAIN disk
    BY DEF GrantInv, DiskShape
  <2>3. after.outcome = Stored(write(4), files.outcome, OnlyFor(outcome, keptT))
    <3> HIDE DEF files
    <3>1. PICK a, b, c : after = [files EXCEPT !.acked = a, !.tombstones = b, !.outcome = c]
                         /\ c = Stored(write(4), files.outcome, OnlyFor(outcome, keptT))
      BY DEF CompactedRevocations
    <3> QED
      BY <2>2, <3>1 DEF GrantInv, DiskShape
  <2>4. after.outcome \in {disk.outcome, OnlyFor(outcome, keptT)}
    BY <2>2, <2>3, StoredYields
  <2> HIDE DEF after, files, keptT, prunes
  <2> QED
    BY <2>1, <2>2, <2>4
<1>4. \A S : OnlyFor(outcome, S) \in OutcomeMaps
             /\ \A g \in Grants : OnlyFor(outcome, S)[g] \in {outcome[g], "none"}
  BY DEF OnlyFor, OutcomeMaps, Outcomes, ReportShape
<1>5. \A g \in Grants : outcome'[g] \in Said(g) \cup {"none"} /\ disk'.outcome[g] \in Said(g) \cup {"none"}
  BY <1>2, <1>3, <1>4 DEF Said
<1>6. outcome' \in OutcomeMaps /\ disk'.outcome \in OutcomeMaps
  BY <1>2, <1>3, <1>4 DEF ReportShape
<1>7. \A g \in Grants : Relays(g)
  BY <1>1, <1>5, QueueUntouched
<1> QED
  BY <1>1, <1>6, <1>7 DEF ReportShape

LEMMA FilesRelay ==
  ASSUME ReportShape, GrantInv, NEW w \in Writes, NEW h \in Grants,
         \/ ConsumeRecord(h, w) \/ RetryTombstone(h, w) \/ RetrySettings(w)
         \/ \E v \in 2..MaxSettings : ApplySettings(v, w)
  PROVE  ReportShape' /\ \A g \in Grants : Relays(g)
<1>1. UNCHANGED <<events, heard, deferred, outcome, up>>
  BY DEF ConsumeRecord, RetryTombstone, RetrySettings, ApplySettings, queue, journals
<1>2. \/ disk' = disk
      \/ \E c : disk' = [disk EXCEPT !.consumed = c]
      \/ \E c : disk' = [disk EXCEPT !.settings = c]
      \/ \E c, o : /\ o \in {disk.outcome[h], outcome[h]}
                   /\ disk' = [disk EXCEPT !.tombstones = c, !.outcome = [disk.outcome EXCEPT ![h] = o]]
  <2>1. CASE RetryTombstone(h, w)
    <3>1. PICK c, o :
            /\ c = Stored(w, disk.tombstones, disk.tombstones \cup {h})
            /\ o = Stored(w, disk.outcome[h], outcome[h])
      OBVIOUS
    <3>2. disk' = [disk EXCEPT !.tombstones = c, !.outcome = [disk.outcome EXCEPT ![h] = o]]
      BY <2>1, <3>1 DEF RetryTombstone, GrantInv, DiskShape
    <3>3. o \in {disk.outcome[h], outcome[h]}
      BY <3>1, StoredYields
    <3> QED
      BY <3>2, <3>3
  <2>2. CASE ConsumeRecord(h, w)
    BY <2>2 DEF ConsumeRecord
  <2>3. CASE RetrySettings(w)
    BY <2>3 DEF RetrySettings
  <2>4. ASSUME NEW v, ApplySettings(v, w) PROVE \E c : disk' = [disk EXCEPT !.settings = c]
    BY <2>4 DEF ApplySettings
  <2> QED
    BY <2>1, <2>2, <2>3, <2>4
<1>3. /\ disk'.events = disk.events
      /\ disk'.outcome = disk.outcome \/
         \E o : o \in {disk.outcome[h], outcome[h]} /\ disk'.outcome = [disk.outcome EXCEPT ![h] = o]
  BY <1>2 DEF GrantInv, DiskShape
<1>4. disk'.outcome \in OutcomeMaps /\ \A g \in Grants : disk'.outcome[g] \in {disk.outcome[g], outcome[g]}
  BY <1>3 DEF ReportShape, OutcomeMaps
<1>5. \A g \in Grants : outcome'[g] \in Said(g) \cup {"none"} /\ disk'.outcome[g] \in Said(g) \cup {"none"}
  BY <1>1, <1>4 DEF Said
<1>6. \A g \in Grants : Relays(g)
  BY <1>1, <1>3, <1>5, QueueUntouched
<1> QED
  BY <1>1, <1>3, <1>4, <1>6 DEF ReportShape

\* The queue is written: the results of each grant, and the outcomes, come from what was there.
LEMMA QueueWritten ==
  ASSUME NEW g \in Grants, up' => up, UNCHANGED outcome, disk'.outcome = disk.outcome,
         Has(events.results \cup heard.results, g) => Has(events'.results \cup heard'.results, g),
         \/ Has(disk.events.results, g) => Has(disk'.events.results \cup heard'.results, g)
         \/ up /\ (Has(events.results \cup heard.results, g) => Has(disk'.events.results \cup heard'.results, g)),
         Has(heard.results, g) => Has(heard'.results, g),
         Completed(g)' => Completed(g),
         {events'.outcomes[g], deferred'[g], disk'.events.outcomes[g], heard'.outcomes[g]} \subseteq
            Said(g) \cup {"none"}
  PROVE  Relays(g)
<1>1. Reported(g) => Reported(g)'
  <2>1. \A S, T : Has(S \cup T, g) <=> Has(S, g) \/ Has(T, g)
    BY DEF Has
  <2> QED
    BY <2>1 DEF Reported
<1>2. Said(g)' \subseteq Said(g) \cup {"none"}
  BY DEF Said
<1> QED
  BY <1>1, <1>2 DEF Relays

LEMMA RetryEventsRelays ==
  ASSUME ReportShape, GrantInv, NEW w, RetryEvents(w)
  PROVE  ReportShape' /\ \A g \in Grants : Relays(g)
<1>1. Idle /\ SaveEvents(w, events, events) /\ UNCHANGED <<heard, deferred, outcome, up>>
  BY DEF RetryEvents, journals
<1>2. events' = events /\ disk'.events \in {disk.events, events} /\ disk'.outcome = disk.outcome
  BY <1>1, SaveYields
<1>3. ASSUME NEW g \in Grants PROVE Relays(g)
  <2>1. Completed(g)' => Completed(g)
    BY <1>1, <1>2 DEF Completed
  <2>2. {events'.outcomes[g], deferred'[g], disk'.events.outcomes[g], heard'.outcomes[g]} \subseteq
            Said(g) \cup {"none"}
    BY <1>1, <1>2 DEF Said
  <2>3. \/ Has(disk.events.results, g) => Has(disk'.events.results \cup heard'.results, g)
        \/ up /\ (Has(events.results \cup heard.results, g) => Has(disk'.events.results \cup heard'.results, g))
    BY <1>1, <1>2 DEF Has, Idle
  <2> QED
    BY <1>1, <1>2, <2>1, <2>2, <2>3, QueueWritten
<1> QED
  BY <1>1, <1>2, <1>3 DEF ReportShape

LEMMA AckResultRelays ==
  ASSUME ReportShape, GrantInv, NEW w, NEW r, AckResult(r, w)
  PROVE  ReportShape' /\ \A g \in Grants : Relays(g)
<1> DEFINE rest == [events EXCEPT !.results = @ \ {r}]
           back == Restored(outcome, acked, rest, deferred)
<1>1. /\ Idle /\ r \in events.results /\ Reads(r) \in heard.results
      /\ SaveEvents(w, WithOutcomes(rest, back), events)
      /\ deferred' = IF w = "ok" THEN NoOutcomes ELSE deferred
      /\ UNCHANGED <<heard, outcome, up>>
  BY DEF AckResult, SaveAcknowledged, journals
<1>2. rest \in EventSets /\ rest.results = events.results \ {r} /\ rest.outcomes = events.outcomes
  BY DEF ReportShape, EventSets
<1>3. back \in OutcomeMaps /\ \A g \in Grants : back[g] \in {outcome[g], deferred[g]}
  BY <1>2, RestoredYields DEF ReportShape
<1> HIDE DEF rest, back
<1>40. /\ WithOutcomes(rest, back) \in EventSets /\ WithOutcomes(rest, back).results = rest.results
       /\ \A g \in Grants : WithOutcomes(rest, back).outcomes[g] \in {rest.outcomes[g], back[g]}
  BY <1>2, <1>3, WithOutcomesYields
<1>4. PICK all :
        /\ all = WithOutcomes(rest, back) /\ all \in EventSets /\ all.results = events.results \ {r}
        /\ \A g \in Grants : all.outcomes[g] \in {events.outcomes[g], outcome[g], deferred[g]}
  BY <1>2, <1>3, <1>40
<1>5. /\ events' \in {all, events} /\ disk'.events \in {disk.events, all}
      /\ disk'.outcome = disk.outcome
  BY <1>1, <1>4, SaveYields
<1>6. deferred' \in {NoOutcomes, deferred}
  BY <1>1
<1>7. ASSUME NEW g \in Grants PROVE Relays(g)
  <2>0. r \in Grants \X Statuses
    BY <1>1 DEF ReportShape, EventSets
  <2>1. r[1] = g => Has(heard.results, g)
    BY <1>1, <2>0 DEF Has, Reads, Statuses, ReportShape, EventSets
  <2>2. Completed(g)' => Completed(g)
    BY <1>1, <1>4, <1>5 DEF Completed
  <2>3. {events'.outcomes[g], deferred'[g], disk'.events.outcomes[g], heard'.outcomes[g]} \subseteq
            Said(g) \cup {"none"}
    BY <1>1, <1>4, <1>5, <1>6, NoneYields DEF Said
  <2>4. Has(events.results \cup heard.results, g) => Has(all.results \cup heard.results, g)
    BY <1>4, <2>0, <2>1 DEF Has
  <2>5. Has(disk.events.results, g) => Has(disk.events.results \cup heard.results, g)
    BY DEF Has
  <2> QED
    BY <1>1, <1>5, <2>2, <2>3, <2>4, <2>5, QueueWritten DEF Idle
<1>8. deferred' \in OutcomeMaps
  BY <1>6, NoneYields DEF ReportShape
<1> QED
  BY <1>1, <1>4, <1>5, <1>7, <1>8 DEF ReportShape

LEMMA PullRelays ==
  ASSUME ReportShape, GrantInv, NEW w, PullEvents(w)
  PROVE  ReportShape' /\ \A g \in Grants : Relays(g)
<1>0. /\ WithOutcomes(events, deferred) \in EventSets
      /\ WithOutcomes(events, deferred).results = events.results
      /\ \A g \in Grants : WithOutcomes(events, deferred).outcomes[g] \in {events.outcomes[g], deferred[g]}
  BY WithOutcomesYields DEF ReportShape
<1>1. PICK all :
        /\ all = WithOutcomes(events, deferred) /\ all \in EventSets /\ all.results = events.results
        /\ \A g \in Grants : all.outcomes[g] \in {events.outcomes[g], deferred[g]}
  BY <1>0
<1>2. /\ Idle /\ UNCHANGED <<outcome, up>>
      /\ \/ UNCHANGED <<events, deferred, disk>>
         \/ SaveEvents(w, all, events) /\ deferred' \in {NoOutcomes, deferred}
      /\ \/ heard' = heard
         \/ heard' = [WithOutcomes(heard, all.outcomes) EXCEPT !.results = @ \cup {Reads(r) : r \in all.results}]
  BY <1>1 DEF PullEvents, queue, journals
<1>3. /\ events' \in {all, events} /\ disk'.events \in {disk.events, all} /\ disk'.outcome = disk.outcome
      /\ deferred' \in {NoOutcomes, deferred}
  BY <1>2, SaveYields
<1>4. {Reads(r) : r \in all.results} \subseteq Grants \X Statuses
  BY <1>1 DEF Reads, EventSets, Statuses
<1>5. /\ heard' \in EventSets /\ heard.results \subseteq heard'.results
      /\ heard'.results \subseteq heard.results \cup {Reads(r) : r \in all.results}
      /\ \A g \in Grants : heard'.outcomes[g] \in {heard.outcomes[g], all.outcomes[g]}
  <2>1. CASE heard' = heard
    BY <2>1 DEF ReportShape
  <2>2. CASE heard' = [WithOutcomes(heard, all.outcomes) EXCEPT !.results = @ \cup {Reads(r) : r \in all.results}]
    <3>1. all.outcomes \in OutcomeMaps
      BY <1>1 DEF EventSets
    <3>2. PICK all2 : all2 = WithOutcomes(heard, all.outcomes)
      OBVIOUS
    <3>3. /\ all2 \in EventSets /\ all2.results = heard.results
          /\ \A g \in Grants : all2.outcomes[g] \in {heard.outcomes[g], all.outcomes[g]}
      BY <3>1, <3>2, WithOutcomesYields DEF ReportShape
    <3>4. PICK more : more = {Reads(r) : r \in all.results}
      OBVIOUS
    <3>5. heard' = [all2 EXCEPT !.results = all2.results \cup more]
      BY <2>2, <3>2, <3>4
    <3>6. heard'.results = heard.results \cup more /\ heard'.outcomes = all2.outcomes /\ heard' \in EventSets
      BY <3>3, <3>4, <3>5, <1>4 DEF EventSets
    <3> QED
      BY <3>3, <3>4, <3>6
  <2> QED
    BY <1>2, <2>1, <2>2
<1>6. ASSUME NEW g \in Grants PROVE Relays(g)
  <2>1. Completed(g)' => Completed(g)
    <3>1. <<g, "completed">> \in {Reads(r) : r \in all.results} => <<g, "completed">> \in events.results
      BY <1>1 DEF Reads
    <3> QED
      BY <1>1, <1>3, <1>5, <3>1 DEF Completed
  <2>2. {events'.outcomes[g], deferred'[g], disk'.events.outcomes[g], heard'.outcomes[g]} \subseteq
            Said(g) \cup {"none"}
    BY <1>1, <1>3, <1>5, NoneYields DEF Said
  <2>3. Has(disk.events.results, g) => Has(disk.events.results \cup heard'.results, g)
    BY DEF Has
  <2>4. Has(heard.results, g) => Has(heard'.results, g)
    BY <1>5 DEF Has
  <2>5. Has(events.results \cup heard.results, g) => Has(events.results \cup heard'.results, g)
    BY <1>5 DEF Has
  <2> QED
    BY <1>1, <1>2, <1>3, <2>1, <2>2, <2>3, <2>4, <2>5, QueueWritten DEF Idle
<1>7. deferred' \in OutcomeMaps
  BY <1>3, NoneYields DEF ReportShape
<1> QED
  BY <1>1, <1>2, <1>3, <1>5, <1>6, <1>7 DEF ReportShape

LEMMA AckOutcomeRelays ==
  ASSUME ReportShape, GrantInv, NEW h \in Grants, NEW wA, NEW w, AckOutcome(h, wA, w)
  PROVE  ReportShape' /\ \A g \in Grants : Relays(g)
<1> DEFINE rest == [events EXCEPT !.outcomes[h] = "none"]
           ack == IF outcome[h] # "none" THEN acked \cup {h} ELSE acked
           back == Restored(outcome, ack, rest, deferred)
           onDisk == Stored(wA, disk.acked, disk.acked \cup (ack \ acked))
<1>2. rest \in EventSets /\ rest.results = events.results
      /\ \A g \in Grants : rest.outcomes[g] \in {"none", events.outcomes[g]}
  BY DEF ReportShape, EventSets, OutcomeMaps, Outcomes
<1>3. back \in OutcomeMaps /\ \A g \in Grants : back[g] \in {outcome[g], deferred[g]}
  BY <1>2, RestoredYields DEF ReportShape
<1>1. /\ Idle /\ UNCHANGED <<heard, outcome, up>>
      /\ \/ /\ events' \in {WithOutcomes(rest, back), events}
            /\ deferred' \in {NoOutcomes, deferred}
            /\ disk' = [disk EXCEPT !.acked = onDisk,
                                    !.events = Stored(w, disk.events, WithOutcomes(rest, back))]
         \/ UNCHANGED <<events, deferred>> /\ disk' = [disk EXCEPT !.acked = onDisk]
  BY DEF AckOutcome, queue
<1> HIDE DEF rest, back, ack, onDisk
<1>40. /\ WithOutcomes(rest, back) \in EventSets /\ WithOutcomes(rest, back).results = rest.results
       /\ \A g \in Grants : WithOutcomes(rest, back).outcomes[g] \in {rest.outcomes[g], back[g]}
  BY <1>2, <1>3, WithOutcomesYields
<1>4. PICK all :
        /\ all = WithOutcomes(rest, back) /\ all \in EventSets /\ all.results = events.results
        /\ \A g \in Grants : all.outcomes[g] \in {"none", events.outcomes[g], outcome[g], deferred[g]}
  BY <1>2, <1>3, <1>40
<1>5. /\ events' \in {all, events} /\ disk'.events \in {disk.events, all}
      /\ disk'.outcome = disk.outcome /\ deferred' \in {NoOutcomes, deferred}
  <2>1. PICK e : e = Stored(w, disk.events, all)
    OBVIOUS
  <2>2. e \in {disk.events, all}
    BY <2>1, StoredYields
  <2>3. disk' = [disk EXCEPT !.acked = onDisk, !.events = e] \/ disk' = [disk EXCEPT !.acked = onDisk]
    BY <1>1, <1>4, <2>1
  <2>4. disk'.events \in {disk.events, e} /\ disk'.outcome = disk.outcome
    BY <2>3 DEF GrantInv, DiskShape
  <2> QED
    BY <1>1, <1>4, <2>2, <2>4
<1>7. ASSUME NEW g \in Grants PROVE Relays(g)
  <2>2. Completed(g)' => Completed(g)
    BY <1>1, <1>4, <1>5 DEF Completed
  <2>3. {events'.outcomes[g], deferred'[g], disk'.events.outcomes[g], heard'.outcomes[g]} \subseteq
            Said(g) \cup {"none"}
    BY <1>1, <1>4, <1>5, NoneYields DEF Said
  <2>5. Has(disk.events.results, g) => Has(disk.events.results \cup heard.results, g)
    BY DEF Has
  <2> QED
    BY <1>1, <1>4, <1>5, <2>2, <2>3, <2>5, QueueWritten DEF Idle
<1>8. deferred' \in OutcomeMaps
  BY <1>5, NoneYields DEF ReportShape
<1> QED
  BY <1>1, <1>4, <1>5, <1>7, <1>8 DEF ReportShape

LEMMA StartRelays ==
  ASSUME ReportShape, GrantInv, NEW h \in Grants, NEW w, ConsumeStart(h, w)
  PROVE  /\ ReportShape' /\ \A g \in Grants : Relays(g)
         /\ job'[h] = "queued" => Reported(h)'
<1>1. PICK more : more = Announced(h)
  OBVIOUS
<1>2. /\ more \in EventSets /\ more.results = events.results \cup {<<h, "uncertain">>}
      /\ more.outcomes = events.outcomes
  BY <1>1 DEF Announced, ReportShape, EventSets, Statuses
<1>3. /\ Idle /\ SaveEvents(w, more, events) /\ UNCHANGED <<heard, deferred, outcome, up>>
      /\ job' = [job EXCEPT ![h] = IF w = "ok" THEN "queued" ELSE "idle"]
  BY <1>1 DEF ConsumeStart, journals
<1>4. /\ events' \in {more, events} /\ disk'.events \in {disk.events, more} /\ disk'.outcome = disk.outcome
      /\ w = "ok" => events' = more /\ disk'.events = more
  BY <1>3, SaveYields
<1>5. ASSUME NEW g \in Grants PROVE Relays(g)
  <2>1. Completed(g)' => Completed(g)
    BY <1>2, <1>3, <1>4 DEF Completed
  <2>2. {events'.outcomes[g], deferred'[g], disk'.events.outcomes[g], heard'.outcomes[g]} \subseteq
            Said(g) \cup {"none"}
    BY <1>2, <1>3, <1>4 DEF Said
  <2>3. Has(events.results \cup heard.results, g) => Has(more.results \cup heard.results, g)
    BY <1>2 DEF Has
  <2>4. Has(disk.events.results, g) => Has(disk.events.results \cup heard.results, g)
    BY DEF Has
  <2> QED
    BY <1>3, <1>4, <2>1, <2>2, <2>3, <2>4, QueueWritten DEF Idle
<1>6. job'[h] = "queued" => Reported(h)'
  <2>1. Has(more.results \cup heard.results, h)
    BY <1>2 DEF Has, Statuses
  <2>2. job'[h] = "queued" => w = "ok"
    BY <1>3 DEF GrantInv
  <2> QED
    BY <1>3, <1>4, <2>1, <2>2 DEF Reported
<1> QED
  BY <1>2, <1>3, <1>4, <1>5, <1>6 DEF ReportShape

\* A refused consumption takes back its own result, and no other.
LEMMA WithdrawRelays ==
  ASSUME ReportShape, GrantInv, NEW h \in Grants, NEW w, Withdraw(h, w)
  PROVE  /\ ReportShape' /\ \A g \in Grants \ {h} : Relays(g)
         /\ Completed(h)' => Completed(h)
         /\ Said(h)' \subseteq Said(h) \cup {"none"}
<1>1. PICK kept : kept = [events EXCEPT !.results = @ \ {<<h, "uncertain">>}]
  OBVIOUS
<1>2. /\ kept \in EventSets /\ kept.results = events.results \ {<<h, "uncertain">>}
      /\ kept.outcomes = events.outcomes
  BY <1>1 DEF ReportShape, EventSets
<1>3. job[h] = "refused" /\ SaveEvents(w, kept, kept) /\ UNCHANGED <<heard, deferred, outcome, up>>
  BY <1>1 DEF Withdraw, journals
<1>4. events' = kept /\ disk'.events \in {disk.events, kept} /\ disk'.outcome = disk.outcome
  BY <1>3, SaveYields
<1>5. up
  BY <1>3 DEF GrantInv, JobSound
<1>6. ASSUME NEW g \in Grants
      PROVE  /\ Completed(g)' => Completed(g)
             /\ {events'.outcomes[g], deferred'[g], disk'.events.outcomes[g], heard'.outcomes[g]} \subseteq
                  Said(g) \cup {"none"}
  BY <1>2, <1>3, <1>4 DEF Completed, Said
<1>7. ASSUME NEW g \in Grants \ {h} PROVE Relays(g)
  <2>3. Has(events.results \cup heard.results, g) => Has(kept.results \cup heard.results, g)
    BY <1>2 DEF Has
  <2>4. Has(disk.events.results, g) => Has(disk.events.results \cup heard.results, g)
    BY DEF Has
  <2> QED
    BY <1>3, <1>4, <1>5, <1>6, <2>3, <2>4, QueueWritten
<1>8. Said(h)' \subseteq Said(h) \cup {"none"}
  BY <1>3, <1>4, <1>6 DEF Said
<1> QED
  BY <1>2, <1>3, <1>4, <1>6, <1>7, <1>8 DEF ReportShape

LEMMA CompleteRelays ==
  ASSUME ReportShape, GrantInv, NEW h \in Grants, NEW w, Complete(h, w)
  PROVE  /\ ReportShape' /\ \A g \in Grants \ {h} : Relays(g)
         /\ Reported(h) => Reported(h)'
         /\ Said(h)' \subseteq Said(h) \cup {"none"}
<1>1. PICK done : done = [events EXCEPT !.results = (@ \ {<<h, "uncertain">>}) \cup {<<h, "completed">>}]
  OBVIOUS
<1>2. /\ done \in EventSets
      /\ done.results = (events.results \ {<<h, "uncertain">>}) \cup {<<h, "completed">>}
      /\ done.outcomes = events.outcomes
  BY <1>1 DEF ReportShape, EventSets, Statuses
<1>3. job[h] = "acted" /\ SaveEvents(w, done, events) /\ UNCHANGED <<heard, deferred, outcome, up>>
  BY <1>1 DEF Complete, journals
<1>4. events' \in {done, events} /\ disk'.events \in {disk.events, done} /\ disk'.outcome = disk.outcome
  BY <1>3, SaveYields
<1>5. up
  BY <1>3 DEF GrantInv, JobSound
<1>6. ASSUME NEW g \in Grants
      PROVE  /\ {events'.outcomes[g], deferred'[g], disk'.events.outcomes[g], heard'.outcomes[g]} \subseteq
                  Said(g) \cup {"none"}
             /\ Has(events.results \cup heard.results, g) => Has(done.results \cup heard.results, g)
             /\ Has(disk.events.results, g) => Has(disk.events.results \cup heard.results, g)
  <2>1. {events'.outcomes[g], deferred'[g], disk'.events.outcomes[g], heard'.outcomes[g]} \subseteq
          Said(g) \cup {"none"}
    BY <1>2, <1>3, <1>4 DEF Said
  <2>2. Has(events.results \cup heard.results, g) => Has(done.results \cup heard.results, g)
    BY <1>2 DEF Has, Statuses
  <2> QED
    BY <2>1, <2>2 DEF Has
<1>7. ASSUME NEW g \in Grants \ {h} PROVE Relays(g)
  <2>1. Completed(g)' => Completed(g)
    BY <1>2, <1>3, <1>4 DEF Completed
  <2> QED
    BY <1>3, <1>4, <1>5, <1>6, <2>1, QueueWritten
<1>8. Said(h)' \subseteq Said(h) \cup {"none"}
  BY <1>3, <1>4, <1>6 DEF Said
<1>9. Reported(h) => Reported(h)'
  <2>1. \A S, T : Has(S \cup T, h) <=> Has(S, h) \/ Has(T, h)
    BY DEF Has
  <2> QED
    BY <1>3, <1>4, <1>5, <1>6, <2>1 DEF Reported
<1> QED
  BY <1>2, <1>3, <1>4, <1>7, <1>8, <1>9 DEF ReportShape

LEMMA CrashRelays ==
  ASSUME ReportShape, Crash
  PROVE  ReportShape' /\ \A g \in Grants : Relays(g)
<1>1. /\ ~up' /\ events' = NoEvents /\ deferred' = NoOutcomes /\ outcome' = NoOutcomes
      /\ UNCHANGED <<disk, heard>>
  BY DEF Crash
<1>2. \A g \in Grants : (Reported(g) => Reported(g)') /\ (Completed(g)' => Completed(g))
  BY <1>1, NoneYields DEF Reported, Completed
<1>3. \A g \in Grants : Said(g)' \subseteq Said(g) \cup {"none"}
  BY <1>1, NoneYields DEF Said
<1> QED
  BY <1>1, <1>2, <1>3, NoneYields DEF ReportShape, Relays

LEMMA RestartRelays ==
  ASSUME ReportShape, GrantInv, NEW w, Restart(w)
  PROVE  ReportShape' /\ \A g \in Grants : Relays(g)
<1> DEFINE back(r) == IF r[2] = "uncertain" THEN <<r[1], "stray">> ELSE r
<1>1. PICK read : read = [disk.events EXCEPT !.results = {back(r) : r \in disk.events.results}]
  OBVIOUS
<1>2. PICK found : found = {back(r) : r \in disk.events.results}
  OBVIOUS
<1>3. found \subseteq Grants \X Statuses
  BY <1>2 DEF ReportShape, EventSets, Statuses
<1>4. read \in EventSets /\ read.results = found /\ read.outcomes = disk.events.outcomes
  BY <1>1, <1>2, <1>3 DEF ReportShape, EventSets
<1>5. PICK missing : missing = Restored(disk.outcome, RevocationsOnDisk.acked, read, NoOutcomes)
  OBVIOUS
<1>6. missing \in OutcomeMaps /\ \A g \in Grants : missing[g] \in {disk.outcome[g], "none"}
  BY <1>4, <1>5, RestoredYields, NoneYields DEF ReportShape
<1>7. PICK all : all = WithOutcomes(read, missing)
  OBVIOUS
<1>8. /\ all \in EventSets /\ all.results = found
      /\ \A g \in Grants : all.outcomes[g] \in {disk.events.outcomes[g], disk.outcome[g], "none"}
  BY <1>4, <1>6, <1>7, WithOutcomesYields
<1>9. /\ ~up /\ UNCHANGED <<heard, deferred>>
      /\ disk' = [disk EXCEPT !.events = Stored(w, read, all)]
      /\ \/ outcome' = disk.outcome /\ events' = all
         \/ UNCHANGED <<up, outcome, events>>
  BY <1>1, <1>2, <1>5, <1>7 DEF Restart, RevocationsOnDisk
<1>10. disk'.events \in {read, all} /\ disk'.outcome = disk.outcome
  BY <1>9, StoredYields DEF GrantInv, DiskShape
<1>11. ASSUME NEW g \in Grants PROVE Relays(g)
  <2>1. Has(disk.events.results, g) => Has(found, g)
    <3>1. ASSUME NEW s \in Statuses, <<g, s>> \in disk.events.results PROVE Has(found, g)
      <4>1. back(<<g, s>>) \in found
        BY <1>2, <3>1
      <4>2. back(<<g, s>>) = <<g, s>> \/ back(<<g, s>>) = <<g, "stray">>
        OBVIOUS
      <4> QED
        BY <4>1, <4>2 DEF Has, Statuses
    <3> QED
      BY <3>1 DEF Has
  <2>2. <<g, "completed">> \in found => <<g, "completed">> \in disk.events.results
    BY <1>2
  <2>3. \A S, T : Has(S \cup T, g) <=> Has(S, g) \/ Has(T, g)
    BY DEF Has
  <2>4. Reported(g) => Reported(g)'
    BY <1>4, <1>8, <1>9, <1>10, <2>1, <2>3 DEF Reported
  <2>5. Completed(g)' => Completed(g)
    BY <1>4, <1>8, <1>9, <1>10, <2>2 DEF Completed
  <2>6. Said(g)' \subseteq Said(g) \cup {"none"}
    BY <1>4, <1>8, <1>9, <1>10 DEF Said
  <2> QED
    BY <2>4, <2>5, <2>6 DEF Relays
<1> QED
  BY <1>4, <1>8, <1>9, <1>10, <1>11 DEF ReportShape

\* A revocation records one outcome, that of its own grant.
LEMMA RevocationRelays ==
  ASSUME ReportShape, GrantInv, NEW h \in Grants, NEW wT, NEW wE, NEW wF, ApplyRevocation(h, wT, wE, wF)
  PROVE  /\ ReportShape'
         /\ \A g \in Grants : (Reported(g) => Reported(g)') /\ (Completed(g)' => Completed(g))
         /\ \A g \in Grants \ {h} : Said(g)' \subseteq Said(g) \cup {"none"}
         /\ Said(h)' \subseteq Said(h) \cup {"none", RevocationOutcome(h)}
<1>1. PICK result : result = RevocationOutcome(h) /\ result \in Outcomes
  BY DEF RevocationOutcome, Outcomes, ReportShape, OutcomeMaps
<1>2. PICK waiting : waiting = [deferred EXCEPT ![h] = result]
  OBVIOUS
<1>3. /\ waiting \in OutcomeMaps /\ waiting[h] = result
      /\ \A g \in Grants \ {h} : waiting[g] = deferred[g]
  BY <1>1, <1>2 DEF ReportShape, OutcomeMaps
<1>4. PICK all : all = WithOutcomes(events, waiting)
  OBVIOUS
<1>5. /\ all \in EventSets /\ all.results = events.results
      /\ \A g \in Grants : all.outcomes[g] \in {events.outcomes[g], waiting[g]}
  BY <1>3, <1>4, WithOutcomesYields DEF ReportShape
<1>6. /\ Idle /\ UNCHANGED <<heard, up>> /\ outcome' = [outcome EXCEPT ![h] = result]
      /\ events' \in {all, events} /\ deferred' \in {deferred, NoOutcomes, waiting}
  BY <1>1, <1>2, <1>4 DEF ApplyRevocation, RecordTombstone
<1>7. PICK t, o, e :
        /\ o \in {disk.outcome[h], result} /\ e \in {disk.events, all, events}
        /\ disk' = [disk EXCEPT !.tombstones = t, !.outcome = [disk.outcome EXCEPT ![h] = o], !.events = e]
  <2> DEFINE new == h \notin tombstones
             appends == new \/ h \in unpersisted
             queues == /\ new \/ h \notin acked
                       /\ events.outcomes[h] = "none" /\ deferred[h] = "none"
             flags == queues /\ wE # "ok"
             queued == IF queues THEN Stored(wE, disk.events, all) ELSE disk.events
  <2>1. PICK t, o, e :
          /\ t = IF appends THEN Stored(wT, disk.tombstones, disk.tombstones \cup {h}) ELSE disk.tombstones
          /\ o = IF appends THEN Stored(wT, disk.outcome[h], result) ELSE disk.outcome[h]
          /\ e = IF flags THEN Stored(wF, queued, events) ELSE queued
    OBVIOUS
  <2>2. disk' = [disk EXCEPT !.tombstones = t, !.outcome = [disk.outcome EXCEPT ![h] = o], !.events = e]
    BY <1>1, <1>2, <1>4, <2>1 DEF ApplyRevocation, GrantInv, DiskShape
  <2>3. o \in {disk.outcome[h], result}
    BY <2>1 DEF Stored
  <2>4. queued \in {disk.events, all}
    BY DEF Stored
  <2>5. e \in {disk.events, all, events}
    BY <2>1, <2>4 DEF Stored
  <2> QED
    BY <2>2, <2>3, <2>5
<1>8. disk'.outcome = [disk.outcome EXCEPT ![h] = o] /\ disk'.events = e
  BY <1>7 DEF GrantInv, DiskShape
<1>9. ReportShape'
  <2>1. disk'.outcome \in OutcomeMaps /\ outcome' \in OutcomeMaps
    BY <1>1, <1>6, <1>7, <1>8 DEF ReportShape, OutcomeMaps
  <2>2. deferred' \in OutcomeMaps
    BY <1>3, <1>6, NoneYields DEF ReportShape
  <2> QED
    BY <1>5, <1>6, <1>7, <1>8, <2>1, <2>2 DEF ReportShape
<1>10. \A g \in Grants : (Reported(g) => Reported(g)') /\ (Completed(g)' => Completed(g))
  <2>1. \A g \in Grants : \A S, T : Has(S \cup T, g) <=> Has(S, g) \/ Has(T, g)
    BY DEF Has
  <2> QED
    BY <1>5, <1>6, <1>7, <1>8, <2>1 DEF Reported, Completed, Idle
<1>11. ASSUME NEW g \in Grants \ {h} PROVE Said(g)' \subseteq Said(g) \cup {"none"}
  <2>1. outcome'[g] = outcome[g] /\ disk'.outcome[g] = disk.outcome[g]
    BY <1>6, <1>8 DEF ReportShape, OutcomeMaps
  <2>2. deferred'[g] \in {deferred[g], "none"}
    BY <1>3, <1>6, NoneYields
  <2>3. {events'.outcomes[g], disk'.events.outcomes[g]} \subseteq
          {events.outcomes[g], deferred[g], disk.events.outcomes[g]}
    BY <1>3, <1>5, <1>6, <1>7, <1>8
  <2> QED
    BY <1>6, <2>1, <2>2, <2>3 DEF Said
<1>12. Said(h)' \subseteq Said(h) \cup {"none", result}
  <2>1. outcome'[h] = result /\ disk'.outcome[h] \in {disk.outcome[h], result}
    BY <1>6, <1>7, <1>8 DEF ReportShape, OutcomeMaps
  <2>2. deferred'[h] \in {deferred[h], "none", result}
    BY <1>3, <1>6, NoneYields
  <2>3. {events'.outcomes[h], disk'.events.outcomes[h]} \subseteq
          {events.outcomes[h], result, disk.events.outcomes[h]}
    BY <1>3, <1>5, <1>6, <1>7, <1>8
  <2> QED
    BY <1>6, <2>1, <2>2, <2>3 DEF Said
<1> QED
  BY <1>1, <1>9, <1>10, <1>11, <1>12

-----------------------------------------------------------------------------
(* No outcome turns out false. *)

\* g can no longer be accepted: its tombstone is in force, or every time the broker can trust
\* shows it as expired.  The exception is a tombstone the broker lost when it stopped.
Blocked(g) ==
  \/ g \in forgotten
  \/ /\ accepted[g] = 0 /\ retain[g] # 0
     /\ \/ retain[g] <= boot
        \/ up /\ g \in tombstones
        \/ ~up /\ g \in disk.tombstones

\* What an outcome says of g.
True(g, v) ==
  /\ v = "revoked_before_consumption" => g \notin spent
  /\ v = "not_received" => g \notin spent \/ Expiry(g) + Retention <= boot

OutcomeSound(g) ==
  \A v \in Said(g) : v # "none" => Blocked(g) /\ (g \in forgotten \/ True(g, v))

\* Steps that concern no authority: what blocks a grant stays as it is.
LEMMA StepsAside ==
  ASSUME GrantInv, NEW w, NEW h \in Grants,
         \/ RetryEvents(w) \/ PullEvents(w) \/ RetrySettings(w) \/ RepeatSettings
         \/ ConsumeStart(h, w) \/ Withdraw(h, w) \/ Complete(h, w) \/ ActOnGrant(h) \/ RetryTombstone(h, w)
         \/ \E wA \in Writes : AckOutcome(h, wA, w)
         \/ \E status : AckResult(<<h, status>>, w)
  PROVE  up /\ UNCHANGED <<accepted, tombstones, retain, issued, boot, up, forgotten, spent>>
<1>1. UNCHANGED <<accepted, tombstones, retain, issued, boot, up, forgotten, spent>>
  BY DEF RetryEvents, PullEvents, RetrySettings, RepeatSettings, ConsumeStart, Withdraw, Complete, ActOnGrant,
     RetryTombstone, AckOutcome, AckResult, documents, clocks, journals
<1>2. up
  BY DEF RetryEvents, PullEvents, RetrySettings, RepeatSettings, ConsumeStart, Withdraw, Complete, ActOnGrant,
     RetryTombstone, AckOutcome, AckResult, Idle, GrantInv, JobSound
<1> QED
  BY <1>1, <1>2

LEMMA BlockedStays ==
  ASSUME TimeInv, TimeInv', GrantInv, [Next]_vars, NEW g \in Grants, Blocked(g)
  PROVE  Blocked(g)'
<1>0. boot \in Nat /\ boot' \in Nat /\ retain[g] \in Nat /\ retain'[g] \in Nat
  BY DEF TimeInv
<1>1. CASE \/ Tick \/ SetBack \/ \E h \in Grants : Revoke(h)
           \/ \E h \in Grants, v \in 1..MaxSettings : Issue(h, v)
           \/ UNCHANGED vars
  <2>1. UNCHANGED <<accepted, tombstones, disk, up, forgotten>>
    BY <1>1 DEF Tick, SetBack, Revoke, Issue, vars, journals, history
  <2>2. boot <= boot'
    BY <1>0, <1>1 DEF Tick, SetBack, Revoke, Issue, vars, clocks
  <2>3. retain[g] # 0 => retain'[g] = retain[g]
    BY <1>1 DEF Tick, SetBack, Revoke, Issue, vars, documents, TimeInv
  <2> QED
    BY <1>0, <2>1, <2>2, <2>3 DEF Blocked
<1>2. ASSUME NEW h \in Grants, AcceptGrant(h) PROVE Blocked(g)'
  <2>1. UNCHANGED <<boot, retain, tombstones, disk, up, forgotten>> /\ up /\ ~Settled(h) /\ DOMAIN accepted = Grants
        /\ \E d : accepted' = [accepted EXCEPT ![h] = d]
    BY <1>2 DEF AcceptGrant, clocks, documents, journals, history, Idle, GrantInv
  <2>2. CASE h # g
    <3>1. accepted'[g] = accepted[g]
      BY <2>1, <2>2
    <3> QED
      BY <2>1, <3>1 DEF Blocked
  <2>3. CASE h = g
    <3>1. g \notin tombstones
      BY <2>1, <2>3 DEF Settled
    <3>2. retain[g] # 0 => boot < retain[g]
      BY <1>2, <2>3, InsideRetention
    <3>3. g \in forgotten
      BY <1>0, <2>1, <3>1, <3>2 DEF Blocked
    <3> QED
      BY <2>1, <3>3 DEF Blocked
  <2> QED
    BY <2>2, <2>3
<1>3. ASSUME NEW w, NEW h \in Grants,
         \/ RetryEvents(w) \/ PullEvents(w) \/ RetrySettings(w) \/ RepeatSettings
         \/ ConsumeStart(h, w) \/ Withdraw(h, w) \/ Complete(h, w) \/ ActOnGrant(h) \/ RetryTombstone(h, w)
         \/ \E wA \in Writes : AckOutcome(h, wA, w)
         \/ \E status : AckResult(<<h, status>>, w)
      PROVE  Blocked(g)'
  <2>1. up /\ UNCHANGED <<accepted, tombstones, retain, boot, up, forgotten>>
    BY <1>3, StepsAside
  <2> QED
    BY <2>1 DEF Blocked
<1>4. ASSUME NEW w, NEW h \in Grants, ConsumeRecord(h, w) PROVE Blocked(g)'
  <2>1. up /\ UNCHANGED <<tombstones, retain, boot, up, forgotten>>
    BY <1>4 DEF ConsumeRecord, documents, clocks, GrantInv, JobSound
  <2>2. accepted'[g] \in {0, accepted[g]}
    BY <1>4 DEF ConsumeRecord, GrantInv
  <2> QED
    BY <2>1, <2>2 DEF Blocked
<1>5. ASSUME NEW wT, NEW wE, NEW wF, NEW h \in Grants, ApplyRevocation(h, wT, wE, wF) PROVE Blocked(g)'
  <2>1. up /\ tombstones \subseteq tombstones' /\ UNCHANGED <<retain, boot, up, forgotten>>
    BY <1>5 DEF ApplyRevocation, RecordTombstone, documents, clocks, Idle
  <2>2. accepted'[g] \in {0, accepted[g]}
    BY <1>5, DropKeeps DEF ApplyRevocation, GrantInv
  <2> QED
    BY <2>1, <2>2 DEF Blocked
<1>6. ASSUME NEW w, NEW v, ApplySettings(v, w) PROVE Blocked(g)'
  <2>1. up /\ UNCHANGED <<tombstones, retain, boot, up, forgotten>>
    BY <1>6 DEF ApplySettings, documents, clocks, Idle, journals
  <2>2. accepted'[g] \in {0, accepted[g]}
    BY <1>6, DropKeeps DEF ApplySettings, GrantInv
  <2> QED
    BY <2>1, <2>2 DEF Blocked
<1>7. ASSUME NEW reply \in Replies, NEW failed \in 1..5, NEW w \in Writes, AcceptTimeReply(reply, failed, w)
      PROVE  Blocked(g)'
  <2>1. up /\ UNCHANGED <<retain, boot, up, forgotten>>
    BY <1>7 DEF AcceptTimeReply, documents, Idle
  <2>2. accepted'[g] \in {0, accepted[g]}
    BY <1>7, DropKeeps DEF AcceptTimeReply, GrantInv
  <2>3. PICK t \in Nat : t = reply.time /\ t <= boot
    BY RepliesYield
  <2>4. tombstones' \in {tombstones, KeptTombstones(tombstones, t)}
    BY <1>7, <2>3, ReplyFiles
  <2>5. g \in tombstones => g \in tombstones' \/ retain[g] <= boot
    BY <1>0, <2>3, <2>4 DEF KeptTombstones
  <2> QED
    BY <2>1, <2>2, <2>5 DEF Blocked
<1>8. CASE Crash
  <2>1. /\ up /\ ~up' /\ accepted'[g] = 0 /\ UNCHANGED <<retain, boot, disk>>
        /\ forgotten' = forgotten \cup (unpersisted \ disk.tombstones)
    BY <1>8 DEF Crash, documents, clocks
  <2>2. g \in tombstones => g \in unpersisted \cup disk.tombstones \/ retain[g] <= boot
    BY <2>1 DEF GrantInv, RevokedKept
  <2> QED
    BY <2>1, <2>2 DEF Blocked
<1>9. ASSUME NEW w, Restart(w) PROVE Blocked(g)'
  <2>1. /\ ~up /\ UNCHANGED <<retain, boot, accepted, forgotten>>
        /\ disk' = [disk EXCEPT !.events = disk'.events]
        /\ (up' /\ tombstones' = disk.tombstones) \/ UNCHANGED <<up, tombstones>>
    <3>1. PICK e : disk' = [disk EXCEPT !.events = e]
      BY <1>9 DEF Restart
    <3>2. disk' = [disk EXCEPT !.events = disk'.events]
      BY <3>1 DEF GrantInv, DiskShape
    <3> QED
      BY <1>9, <3>2 DEF Restart, documents, RevocationsOnDisk
  <2>2. disk'.tombstones = disk.tombstones
    BY <2>1 DEF GrantInv, DiskShape
  <2> QED
    BY <2>1, <2>2 DEF Blocked
<1> QED
  BY <1>1, <1>2, <1>3, <1>4, <1>5, <1>6, <1>7, <1>8, <1>9 DEF Next

LEMMA HistoryMoves ==
  ASSUME TimeInv, GrantInv, [Next]_vars, Grants # {}
  PROVE  /\ forgotten \subseteq forgotten' /\ boot <= boot'
         /\ \A g \in Grants : issued[g] # 0 => issued'[g] = issued[g]
         /\ spent' = spent \/ \E h \in Grants, w \in Writes : ConsumeRecord(h, w) /\ spent' = spent \cup {h}
<1> DEFINE P == /\ forgotten \subseteq forgotten' /\ boot <= boot'
                /\ \A g \in Grants : issued[g] # 0 => issued'[g] = issued[g]
                /\ spent' = spent
<1>0. boot \in Nat
  BY DEF TimeInv
<1>1. ASSUME \/ Tick \/ SetBack \/ \E h \in Grants : Revoke(h) \/ AcceptGrant(h)
             \/ \E h \in Grants, v \in 1..MaxSettings : Issue(h, v)
             \/ UNCHANGED vars
      PROVE  P
  <2>1. forgotten' = forgotten /\ spent' = spent /\ boot <= boot'
    BY <1>0, <1>1 DEF Tick, SetBack, Revoke, AcceptGrant, Issue, vars, history, clocks
  <2>2. \A g \in Grants : issued[g] # 0 => issued'[g] = issued[g]
    BY <1>1 DEF Tick, SetBack, Revoke, AcceptGrant, Issue, vars, documents, TimeInv
  <2> QED
    BY <2>1, <2>2
<1>2. ASSUME NEW w, NEW h \in Grants,
         \/ RetryEvents(w) \/ PullEvents(w) \/ RetrySettings(w) \/ RepeatSettings
         \/ ConsumeStart(h, w) \/ Withdraw(h, w) \/ Complete(h, w) \/ ActOnGrant(h) \/ RetryTombstone(h, w)
         \/ \E wA \in Writes : AckOutcome(h, wA, w)
         \/ \E status : AckResult(<<h, status>>, w)
      PROVE  P
  <2>1. UNCHANGED <<issued, boot, forgotten, spent>>
    BY <1>2, StepsAside
  <2> QED
    BY <1>0, <2>1
<1>3. ASSUME NEW w,
             \/ \E reply \in Replies, failed \in 1..5 : AcceptTimeReply(reply, failed, w)
             \/ \E v \in 2..MaxSettings : ApplySettings(v, w)
             \/ \E h \in Grants, wE, wF \in Writes : ApplyRevocation(h, w, wE, wF)
             \/ Restart(w)
      PROVE  P
  <2>1. UNCHANGED <<boot, issued, spent, forgotten>>
    <3>1. ASSUME NEW reply, NEW failed, AcceptTimeReply(reply, failed, w)
          PROVE  UNCHANGED <<boot, issued, spent, forgotten>>
      BY <3>1 DEF AcceptTimeReply, documents
    <3>2. ASSUME NEW v, ApplySettings(v, w) PROVE UNCHANGED <<boot, issued, spent, forgotten>>
      BY <3>2 DEF ApplySettings, documents, clocks
    <3>3. ASSUME NEW h, NEW wE, NEW wF, ApplyRevocation(h, w, wE, wF)
          PROVE  UNCHANGED <<boot, issued, spent, forgotten>>
      BY <3>3 DEF ApplyRevocation, documents, clocks
    <3>4. ASSUME Restart(w) PROVE UNCHANGED <<boot, issued, spent, forgotten>>
      BY <3>4 DEF Restart, documents
    <3> QED
      BY <1>3, <3>1, <3>2, <3>3, <3>4
  <2> QED
    BY <1>0, <2>1
<1>30. ASSUME Crash PROVE P
  BY <1>0, <1>30 DEF Crash, documents, clocks
<1>4. ASSUME NEW w \in Writes, NEW h \in Grants, ConsumeRecord(h, w)
      PROVE  /\ UNCHANGED <<forgotten, boot, issued>>
             /\ spent' = spent \/ spent' = spent \cup {h}
  BY <1>4 DEF ConsumeRecord, documents, clocks
<1>5. "ok" \in Writes
  BY DEF Writes
<1>6. CASE P
  BY <1>6
<1>7. ASSUME NEW w \in Writes, NEW h \in Grants, ConsumeRecord(h, w)
      PROVE  /\ forgotten \subseteq forgotten' /\ boot <= boot'
             /\ \A g \in Grants : issued[g] # 0 => issued'[g] = issued[g]
             /\ spent' = spent \/ \E k \in Grants, w2 \in Writes : ConsumeRecord(k, w2) /\ spent' = spent \cup {k}
  BY <1>0, <1>4, <1>7
<1> HIDE DEF P
<1>8. P \/ \E w \in Writes, h \in Grants : ConsumeRecord(h, w)
  <2>1. PICK k \in Grants : TRUE
    OBVIOUS
  <2> QED
    BY <1>1, <1>2, <1>3, <1>30, <1>5, <2>1 DEF Next
<1> QED
  BY <1>6, <1>7, <1>8

LEMMA TrueStays ==
  ASSUME TimeInv, TimeInv', GrantInv, [Next]_vars, NEW g \in Grants, NEW v, Blocked(g),
         g \in forgotten \/ True(g, v)
  PROVE  g \in forgotten' \/ True(g, v)'
<1>0. boot \in Nat /\ boot' \in Nat /\ issued[g] \in Nat /\ Ttl \in Nat /\ Retention \in Nat
  BY DurationAssumption, RetentionAssumption DEF TimeInv
<1>1. /\ forgotten \subseteq forgotten' /\ boot <= boot'
      /\ issued[g] # 0 => issued'[g] = issued[g]
  BY HistoryMoves
<1>2. CASE spent' = spent \/ g \in forgotten
  BY <1>0, <1>1, <1>2 DEF True, Expiry, GrantInv, SpentKept
<1>3. ASSUME NEW h \in Grants, NEW w, ConsumeRecord(h, w), spent' = spent \cup {h} PROVE g \in forgotten' \/ True(g, v)'
  <2>1. CASE h = g
    <3>1. accepted[g] # 0
      BY <1>3, <2>1 DEF ConsumeRecord, GrantInv, JobSound
    <3> QED
      BY <1>1, <3>1 DEF Blocked
  <2>2. CASE h # g
    BY <1>0, <1>1, <1>3, <2>2 DEF True, Expiry, GrantInv, SpentKept
  <2> QED
    BY <2>1, <2>2
<1> QED
  BY <1>2, <1>3, HistoryMoves

Busy(g) == acts[g] > 0 \/ job[g] \in {"queued", "recorded", "acted"}

LEMMA BusyMoves ==
  ASSUME GrantInv, GrantInv', [Next]_vars, NEW g \in Grants
  PROVE  /\ Busy(g)' => Busy(g) \/ \E w : ConsumeStart(g, w) /\ job'[g] = "queued"
         /\ acts[g] = 1 => acts'[g] = 1
<1>0. DOMAIN job = Grants /\ DOMAIN acts = Grants /\ acts[g] \in {0, 1} /\ JobSound(g)
  BY DEF GrantInv, JobSound
<1>1. UNCHANGED acts \/ \E h \in Grants : ActOnGrant(h)
  <2>1. CASE \/ Tick \/ SetBack \/ RepeatSettings \/ Crash
             \/ \E h \in Grants : Revoke(h) \/ AcceptGrant(h)
             \/ \E h \in Grants, v \in 1..MaxSettings : Issue(h, v)
             \/ UNCHANGED vars
    BY <2>1 DEF Tick, SetBack, Revoke, AcceptGrant, Issue, RepeatSettings, Crash, vars, history
  <2>2. ASSUME NEW w,
               \/ \E reply \in Replies, failed \in 1..5 : AcceptTimeReply(reply, failed, w)
               \/ \E v \in 2..MaxSettings : ApplySettings(v, w)
               \/ RetryEvents(w) \/ RetrySettings(w) \/ PullEvents(w) \/ Restart(w)
        PROVE  UNCHANGED acts
    BY <2>2 DEF AcceptTimeReply, ApplySettings, RetryEvents, RetrySettings, PullEvents, Restart
  <2>3. ASSUME NEW w, NEW h,
               \/ ConsumeStart(h, w) \/ ConsumeRecord(h, w) \/ Withdraw(h, w) \/ Complete(h, w)
               \/ RetryTombstone(h, w)
               \/ \E wE, wF \in Writes : ApplyRevocation(h, w, wE, wF)
               \/ \E wA \in Writes : AckOutcome(h, wA, w)
               \/ \E status : AckResult(<<h, status>>, w)
        PROVE  UNCHANGED acts
    BY <2>3 DEF ConsumeStart, ConsumeRecord, Withdraw, Complete, RetryTombstone, ApplyRevocation, AckOutcome, AckResult
  <2> QED
    BY <2>1, <2>2, <2>3 DEF Next
<1>2. ASSUME NEW h \in Grants, ActOnGrant(h)
      PROVE  (Busy(g)' => Busy(g)) /\ (acts[g] = 1 => acts'[g] = 1)
  BY <1>0, <1>2 DEF ActOnGrant, Busy, GrantInv, JobSound
<1>3. ASSUME UNCHANGED acts, NEW h \in Grants, NEW w, ConsumeRecord(h, w) \/ Withdraw(h, w) \/ Complete(h, w)
      PROVE  Busy(g)' => Busy(g)
  BY <1>0, <1>3 DEF ConsumeRecord, Withdraw, Complete, AfterAppend, Busy
<1>4. ASSUME UNCHANGED acts, NEW h \in Grants, NEW w, ConsumeStart(h, w)
      PROVE  Busy(g)' => Busy(g) \/ (h = g /\ job'[g] = "queued")
  BY <1>0, <1>4 DEF ConsumeStart, Busy
<1>5. ASSUME UNCHANGED acts, Crash PROVE Busy(g)' => Busy(g)
  BY <1>5 DEF Crash, Busy
<1>6. ASSUME UNCHANGED <<acts, job>> PROVE Busy(g)' => Busy(g)
  BY <1>6 DEF Busy
<1> QED
  BY <1>1, <1>2, <1>3, <1>4, <1>5, <1>6, JobMoves

ReportInv == ReportShape /\ \A g \in Grants : ResultSound(g) /\ OutcomeSound(g)

LEMMA InitReport == Init => ReportInv
<1> SUFFICES ASSUME Init PROVE ReportInv
  OBVIOUS
<1>1. /\ events = NoEvents /\ heard = NoEvents /\ disk.events = NoEvents
      /\ outcome = NoOutcomes /\ deferred = NoOutcomes /\ disk.outcome = NoOutcomes
      /\ \A g \in Grants : acts[g] = 0 /\ job[g] = "idle"
  BY DEF Init, NoOutcomes
<1>2. ReportShape
  BY <1>1, NoneYields DEF ReportShape
<1>3. \A g \in Grants : ResultSound(g)
  BY <1>1, NoneYields DEF ResultSound, Completed
<1>4. \A g \in Grants : OutcomeSound(g)
  BY <1>1, NoneYields DEF OutcomeSound, Said
<1> QED
  BY <1>2, <1>3, <1>4 DEF ReportInv

LEMMA SaidSound ==
  ASSUME TimeInv, TimeInv', GrantInv, ReportInv, [Next]_vars, NEW g \in Grants,
         Said(g)' \subseteq Said(g) \cup {"none"}
  PROVE  OutcomeSound(g)'
<1> SUFFICES ASSUME NEW v, v \in Said(g)', v # "none" PROVE Blocked(g)' /\ (g \in forgotten' \/ True(g, v)')
  BY DEF OutcomeSound
<1>1. Blocked(g) /\ (g \in forgotten \/ True(g, v))
  BY DEF ReportInv, OutcomeSound
<1> QED
  BY <1>1, BlockedStays, TrueStays

LEMMA ResultStays ==
  ASSUME GrantInv, GrantInv', ReportInv, [Next]_vars, NEW g \in Grants,
         Reported(g) => Reported(g)', Completed(g)' => Completed(g),
         \A w : ConsumeStart(g, w) /\ job'[g] = "queued" => Reported(g)'
  PROVE  ResultSound(g)'
<1>1. (Busy(g) => Reported(g)) /\ (Completed(g) => acts[g] = 1)
  BY DEF ReportInv, ResultSound, Busy
<1>2. Busy(g)' => Reported(g)'
  BY <1>1, BusyMoves
<1>3. Completed(g)' => acts'[g] = 1
  BY <1>1, BusyMoves
<1> QED
  BY <1>2, <1>3 DEF ResultSound, Busy

\* The result of a revocation is true when it is recorded.
LEMMA RevocationTrue ==
  ASSUME TimeInv, TimeInv', GrantInv, ReportInv, NEW h \in Grants, NEW wT, NEW wE, NEW wF,
         ApplyRevocation(h, wT, wE, wF), NEW v, v = RevocationOutcome(h)
  PROVE  Blocked(h)' /\ (h \in forgotten' \/ True(h, v)')
<1>1. /\ up' /\ up /\ h \in tombstones' /\ retain'[h] # 0
      /\ UNCHANGED <<spent, boot, issued, forgotten>>
  BY DEF ApplyRevocation, RecordTombstone, Idle, documents, clocks
<1>2. accepted'[h] = 0
  BY DEF ApplyRevocation, Drop
<1>3. Blocked(h)'
  BY <1>1, <1>2 DEF Blocked
<1>5. h \in forgotten \/ True(h, v)
  <2>1. CASE outcome[h] # "none"
    <3>1. v = outcome[h]
      BY <2>1 DEF RevocationOutcome
    <3> QED
      BY <2>1, <3>1 DEF ReportInv, OutcomeSound, Said
  <2>2. CASE outcome[h] = "none" /\ accepted[h] # 0
    <3>1. h \notin spent
      BY <2>2 DEF GrantInv, HeldSound
    <3> QED
      BY <3>1 DEF True
  <2>3. CASE outcome[h] = "none" /\ accepted[h] = 0 /\ h \in consumed
    <3>1. v = "already_consumed"
      BY <2>3 DEF RevocationOutcome
    <3> QED
      BY <3>1 DEF True
  <2>4. CASE outcome[h] = "none" /\ accepted[h] = 0 /\ h \notin consumed
    <3>1. v = "not_received"
      BY <2>4 DEF RevocationOutcome
    <3>2. h \notin spent \/ Expiry(h) + Retention <= boot
      BY <1>1, <2>4 DEF GrantInv, SpentKept
    <3> QED
      BY <3>1, <3>2 DEF True
  <2> QED
    BY <2>1, <2>2, <2>3, <2>4
<1>6. True(h, v) => True(h, v)'
  BY <1>1 DEF True, Expiry
<1> QED
  BY <1>1, <1>3, <1>5, <1>6

LEMMA NextReport ==
  ASSUME TimeInv, TimeInv', GrantInv, GrantInv', ReportInv, [Next]_vars
  PROVE  ReportInv'
<1>0. ReportShape
  BY DEF ReportInv
<1>1. ASSUME ReportShape', \A g \in Grants : Relays(g),
             \A g \in Grants : \A w : ConsumeStart(g, w) /\ job'[g] = "queued" => Reported(g)'
      PROVE  ReportInv'
  BY <1>1, SaidSound, ResultStays DEF Relays, ReportInv
<1>2. ASSUME NEW h \in Grants, NEW w, ConsumeStart(h, w) PROVE ReportInv'
  <2>1. ReportShape' /\ \A g \in Grants : Relays(g)
    BY <1>0, <1>2, StartRelays
  <2>2. \A g \in Grants : \A w2 : ConsumeStart(g, w2) /\ job'[g] = "queued" => Reported(g)'
    BY <1>0, StartRelays
  <2> QED
    BY <1>1, <2>1, <2>2
<1>3. ASSUME NEW h \in Grants, NEW w, Withdraw(h, w) PROVE ReportInv'
  <2>1. /\ ReportShape' /\ \A g \in Grants \ {h} : Relays(g)
        /\ Completed(h)' => Completed(h)
        /\ Said(h)' \subseteq Said(h) \cup {"none"}
    BY <1>0, <1>3, WithdrawRelays
  <2>2. \A g \in Grants : OutcomeSound(g)'
    BY <2>1, SaidSound DEF Relays
  <2>3. \A g \in Grants : \A w2 : ConsumeStart(g, w2) /\ job'[g] = "queued" => Reported(g)'
    BY <1>0, StartRelays
  <2>4. \A g \in Grants \ {h} : ResultSound(g)'
    BY <2>1, <2>3, ResultStays DEF Relays
  <2>5. ResultSound(h)'
    <3>1. job[h] = "refused" /\ job' = [job EXCEPT ![h] = "idle"] /\ acts' = acts
      BY <1>3 DEF Withdraw
    <3>2. acts[h] = 0 /\ job'[h] = "idle"
      BY <3>1 DEF GrantInv, JobSound
    <3>3. Completed(h) => acts[h] = 1
      BY DEF ReportInv, ResultSound
    <3> QED
      BY <2>1, <3>1, <3>2, <3>3 DEF ResultSound
  <2> QED
    BY <2>1, <2>2, <2>4, <2>5 DEF ReportInv
<1>4. ASSUME NEW h \in Grants, NEW w, Complete(h, w) PROVE ReportInv'
  <2>1. /\ ReportShape' /\ \A g \in Grants \ {h} : Relays(g)
        /\ Reported(h) => Reported(h)'
        /\ Said(h)' \subseteq Said(h) \cup {"none"}
    BY <1>0, <1>4, CompleteRelays
  <2>2. \A g \in Grants : OutcomeSound(g)'
    BY <2>1, SaidSound DEF Relays
  <2>3. \A g \in Grants : \A w2 : ConsumeStart(g, w2) /\ job'[g] = "queued" => Reported(g)'
    BY <1>0, StartRelays
  <2>4. \A g \in Grants \ {h} : ResultSound(g)'
    BY <2>1, <2>3, ResultStays DEF Relays
  <2>5. ResultSound(h)'
    <3>1. job[h] = "acted" /\ acts' = acts
      BY <1>4 DEF Complete
    <3>2. acts[h] = 1 /\ Reported(h)
      BY <3>1 DEF GrantInv, JobSound, ReportInv, ResultSound
    <3> QED
      BY <2>1, <3>1, <3>2 DEF ResultSound
  <2> QED
    BY <2>1, <2>2, <2>4, <2>5 DEF ReportInv
<1>5. ASSUME NEW h \in Grants, NEW wT, NEW wE, NEW wF, ApplyRevocation(h, wT, wE, wF) PROVE ReportInv'
  <2>1. PICK v : v = RevocationOutcome(h)
    OBVIOUS
  <2>2. /\ ReportShape'
        /\ \A g \in Grants : (Reported(g) => Reported(g)') /\ (Completed(g)' => Completed(g))
        /\ \A g \in Grants \ {h} : Said(g)' \subseteq Said(g) \cup {"none"}
        /\ Said(h)' \subseteq Said(h) \cup {"none", v}
    BY <1>0, <1>5, <2>1, RevocationRelays
  <2>3. \A g \in Grants : \A w2 : ConsumeStart(g, w2) /\ job'[g] = "queued" => Reported(g)'
    BY <1>0, StartRelays
  <2>4. \A g \in Grants : ResultSound(g)'
    BY <2>2, <2>3, ResultStays
  <2>5. \A g \in Grants \ {h} : OutcomeSound(g)'
    BY <2>2, SaidSound
  <2>6. OutcomeSound(h)'
    <3> SUFFICES ASSUME NEW u, u \in Said(h)', u # "none" PROVE Blocked(h)' /\ (h \in forgotten' \/ True(h, u)')
      BY DEF OutcomeSound
    <3>1. CASE u = v
      BY <1>5, <2>1, <3>1, RevocationTrue
    <3>2. CASE u # v
      <4>1. Blocked(h) /\ (h \in forgotten \/ True(h, u))
        BY <2>2, <3>2 DEF ReportInv, OutcomeSound
      <4> QED
        BY <4>1, BlockedStays, TrueStays
    <3> QED
      BY <3>1, <3>2
  <2> QED
    BY <2>2, <2>4, <2>5, <2>6 DEF ReportInv
<1>6. ASSUME ReportShape', \A g \in Grants : Relays(g) PROVE ReportInv'
  BY <1>0, <1>1, <1>6, StartRelays
<1>7. CASE \/ Tick \/ SetBack \/ RepeatSettings \/ UNCHANGED vars \/ Crash
           \/ \E g \in Grants : Revoke(g) \/ AcceptGrant(g) \/ ActOnGrant(g)
           \/ \E g \in Grants, v \in 1..MaxSettings : Issue(g, v)
  BY <1>0, <1>6, <1>7, OutsideRelays, CrashRelays
<1>8. ASSUME NEW w \in Writes,
             \/ \E reply \in Replies, failed \in 1..5 : AcceptTimeReply(reply, failed, w)
             \/ RetryEvents(w) \/ PullEvents(w) \/ Restart(w)
      PROVE  ReportInv'
  BY <1>0, <1>6, <1>8, ReplyRelays, RetryEventsRelays, PullRelays, RestartRelays
<1>9. ASSUME NEW w \in Writes, NEW h \in Grants,
             \/ ConsumeRecord(h, w) \/ RetryTombstone(h, w)
             \/ \E wA \in Writes : AckOutcome(h, wA, w)
             \/ \E status \in Statuses : AckResult(<<h, status>>, w)
      PROVE  ReportInv'
  BY <1>0, <1>6, <1>9, FilesRelay, AckOutcomeRelays, AckResultRelays
<1>10. ASSUME NEW w \in Writes, \/ RetrySettings(w) \/ \E v \in 2..MaxSettings : ApplySettings(v, w)
       PROVE  ReportInv'
  <2>1. CASE Grants = {}
    <3>1. UNCHANGED <<events, heard, deferred, outcome>> /\ \E c : disk' = [disk EXCEPT !.settings = c]
      BY <1>10 DEF RetrySettings, ApplySettings, queue, journals
    <3>2. disk'.events = disk.events /\ disk'.outcome = disk.outcome
      BY <3>1 DEF GrantInv, DiskShape
    <3> QED
      BY <1>0, <2>1, <3>1, <3>2 DEF ReportInv, ReportShape
  <2>2. CASE Grants # {}
    BY <1>0, <1>6, <1>10, <2>2, FilesRelay
  <2> QED
    BY <2>1, <2>2
<1> QED
  BY <1>2, <1>3, <1>4, <1>5, <1>7, <1>8, <1>9, <1>10 DEF Next, Statuses

\* The controller can rely on what it hears, for every number of grants, crashes and failed
\* writes: whatever the broker acted on is in its durable queue or was received, "completed"
\* means that it acted, and no outcome of a revocation turns out false (process_workload,
\* revocation_outcome, apply_grant_revocation, restore_revocation_outcomes).
THEOREM ReportsHold == Spec => []ReportsTrue
<1>1. Init => IInv /\ ReportInv
  BY InitTime, InitGrant, InitReport DEF IInv
<1>2. IInv /\ ReportInv /\ [Next]_vars => (IInv /\ ReportInv)'
  BY NextTime, NextGrant, NextReport DEF IInv
<1>3. IInv /\ ReportInv => ReportsTrue
  <2> SUFFICES ASSUME IInv, ReportInv PROVE UsedIsReported /\ OutcomeTrue
    BY DEF ReportsTrue
  <2>1. ASSUME NEW g \in Grants
        PROVE  LET reported == {r[2] : r \in {q \in disk.events.results \cup heard.results : q[1] = g}} IN
               /\ acts[g] > 0 => reported # {}
               /\ "completed" \in reported => acts[g] = 1
    <3> DEFINE here == {q \in disk.events.results \cup heard.results : q[1] = g}
               reported == {r[2] : r \in here}
    <3>1. acts[g] > 0 => reported # {}
      <4> SUFFICES ASSUME acts[g] > 0 PROVE reported # {}
        OBVIOUS
      <4>1. PICK s \in Statuses : <<g, s>> \in disk.events.results \cup heard.results
        BY DEF ReportInv, ResultSound, Reported, Has
      <4>2. <<g, s>> \in here /\ <<g, s>>[2] = s
        BY <4>1
      <4> QED
        BY <4>2
    <3>2. "completed" \in reported => acts[g] = 1
      <4> SUFFICES ASSUME "completed" \in reported PROVE acts[g] = 1
        OBVIOUS
      <4>1. PICK r \in here : r[2] = "completed"
        OBVIOUS
      <4>2. r \in Grants \X Statuses
        BY <4>1 DEF ReportInv, ReportShape, EventSets
      <4>3. r = <<g, "completed">>
        BY <4>1, <4>2
      <4> QED
        BY <4>1, <4>3 DEF ReportInv, ResultSound, Completed
    <3> QED
      BY <3>1, <3>2
  <2>2. OutcomeTrue
    <3> SUFFICES ASSUME NEW g \in spent \ forgotten
                 PROVE  /\ heard.outcomes[g] # "revoked_before_consumption"
                        /\ heard.outcomes[g] = "not_received" => Expiry(g) + Retention <= boot
      BY DEF OutcomeTrue
    <3>1. g \in Grants
      BY DEF IInv, GrantInv
    <3>2. heard.outcomes[g] # "none" => True(g, heard.outcomes[g])
      BY <3>1 DEF ReportInv, OutcomeSound, Said
    <3> QED
      BY <3>2 DEF True
  <2> QED
    BY <2>1, <2>2 DEF UsedIsReported
<1> QED
  BY <1>1, <1>2, <1>3, PTL DEF Spec
=============================================================================
