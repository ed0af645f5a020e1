--------------------------- MODULE AuthorityProofs ---------------------------
(***************************************************************************)
(* Machine-checked facts about module Authority, for every set of          *)
(* processes and ids and every lease length: the inductive invariant Inv,  *)
(* what follows from it for served and fenced identities, that no lease id *)
(* ever returns, and that the lease protocol implements LeaseRegister and  *)
(* Ownership.                                                              *)
(***************************************************************************)
EXTENDS Authority, SequenceTheorems, TLAPS

\* The parts of Inv that only speak of the database.
Durable ==
  RowsOK /\ EpochsDisjoint /\ RequestsOK /\ LockOK /\ FencedIsCurrent /\ WrittenOK

-----------------------------------------------------------------------------
(* The lineage *)

\* The latest row of a lineage that has one is a row of it.
LEMMA CurrentIsRow ==
  ASSUME TypeOK, leases # <<>>
  PROVE  /\ Len(leases) \in DOMAIN leases
         /\ Current = leases[Len(leases)]
         /\ Current \in LeaseType
         /\ Len(leases) \in Nat \ {0}
<1>1. leases \in Seq(LeaseType)
  BY DEF TypeOK
<1>2. Len(leases) \in Nat \ {0}
  BY <1>1
<1>3. Len(leases) \in DOMAIN leases
  BY <1>1, <1>2
<1> QED
  BY <1>1, <1>2, <1>3 DEF Current

\* A database in which nothing happened still satisfies what is said of it.
LEMMA DurableStutters ==
  ASSUME Durable, UNCHANGED <<now, leases, inflight, lock, written>>
  PROVE  Durable'
BY DEF Durable, RowsOK, EpochsDisjoint, RequestsOK, LockOK, FencedIsCurrent,
       WrittenOK, CommitMatches, InitialMatches, SuccessorMatches,
       RenewalMatches, TakeoverMatches, Current, CurrentStamp, Stamp, Identity,
       Proves

\* The row a transaction is about to commit fits behind the latest one: it
\* renews the current epoch in time or begins the next one after it.
LEMMA CommitFits ==
  ASSUME Inv, lock.by = "claim", NEW r, r = lock.request.lease
  PROVE  /\ r \in LeaseType
         /\ Len(leases) < MaxRevision
         /\ r.acquired <= r.renewed /\ r.renewed <= now
         /\ r.expires = r.renewed + LeaseDuration
         /\ leases = <<>> => r.epoch = 1
         /\ leases # <<>> =>
              \/ /\ Identity(r) = Identity(Current)
                 /\ r.acquired = Current.acquired
                 /\ r.renewed >= Current.renewed
                 /\ r.expires >= Current.expires
              \/ /\ r.epoch = Current.epoch + 1
                 /\ r.acquired = r.renewed
                 /\ r.renewed >= Current.expires
                 /\ now >= Current.expires
<1>1. /\ lock.request \in inflight /\ lock.at <= now
      /\ CommitMatches(lock.request, lock.at)
  BY DEF Inv, LockOK
<1>2. /\ lock.request \in RequestType /\ lock.at \in Times /\ r \in LeaseType
      /\ r.acquired \in Int /\ r.renewed \in Int /\ r.expires \in Int
      /\ now \in Int /\ LeaseDuration \in Nat
  <2>1. lock.request \in RequestType
    BY <1>1 DEF Inv, TypeOK
  <2>2. lock.at \in Times
    BY DEF Inv, TypeOK, LockType, Free
  <2>3. r \in LeaseType
    BY <2>1 DEF RequestType
  <2> QED
    BY <2>1, <2>2, <2>3, ConfigAssumption, BoundsAssumption
    DEF LeaseType, Times, Inv, TypeOK
<1>3. /\ r.acquired <= r.renewed
      /\ r.expires = r.renewed + LeaseDuration
      /\ lock.request.condition.state = "absent" => r.epoch = 1
  BY <1>1 DEF Inv, RequestsOK
<1>4. r.renewed <= now
  BY <1>1, <1>2 DEF CommitMatches, Proves, Times
<1>5. CASE leases = <<>>
  <2>1. r.epoch = 1
    BY <1>1, <1>3, <1>5 DEF CommitMatches, InitialMatches
  <2> QED
    BY <1>2, <1>3, <1>4, <1>5, <2>1, BoundsAssumption
<1>6. CASE leases # <<>>
  <2>1. /\ Current \in LeaseType
        /\ Len(leases) \in Nat
        /\ Len(leases) \in DOMAIN leases
        /\ Current = leases[Len(leases)]
    BY <1>6, CurrentIsRow DEF Inv
  <2>2. Current.expires = Current.renewed + LeaseDuration
    BY <2>1 DEF Inv, RowsOK
  <2>3. Len(leases) < MaxRevision
    BY <1>1, <1>6, <2>1, BoundsAssumption
    DEF CommitMatches, SuccessorMatches, Inv, TypeOK
  <2>4. CASE RenewalMatches(lock.request, lock.at)
    <3>1. /\ Identity(r) = Identity(Current)
          /\ r.acquired = Current.acquired
          /\ r.renewed >= Current.renewed
      BY <2>4 DEF RenewalMatches, Stamp, Identity
    <3>2. r.expires >= Current.expires
      BY <1>2, <1>3, <2>1, <2>2, <3>1 DEF LeaseType, Times
    <3> QED
      BY <1>2, <1>3, <1>4, <1>6, <2>3, <3>1, <3>2
  <2>5. CASE TakeoverMatches(lock.request, lock.at)
    <3>1. now >= Current.expires
      BY <1>1, <1>2, <2>1, <2>5 DEF TakeoverMatches, LeaseType, Times
    <3> QED
      BY <1>2, <1>3, <1>4, <1>6, <2>3, <2>5, <3>1 DEF TakeoverMatches
  <2> QED
    BY <1>1, <1>6, <2>4, <2>5 DEF CommitMatches
<1> QED
  BY <1>5, <1>6

-----------------------------------------------------------------------------
(* The insert of a row *)

\* Appending a row keeps the older ones and puts it behind them.
LEMMA AppendRow ==
  ASSUME TypeOK, NEW r \in LeaseType, leases' = Append(leases, r)
  PROVE  /\ leases' \in Seq(LeaseType)
         /\ Len(leases') = Len(leases) + 1
         /\ Len(leases) \in Nat
         /\ DOMAIN leases = 1 .. Len(leases)
         /\ DOMAIN leases' = 1 .. (Len(leases) + 1)
         /\ \A n \in DOMAIN leases : leases'[n] = leases[n]
         /\ leases'[Len(leases) + 1] = r
         /\ leases' # <<>>
         /\ Current' = r
<1>1. leases \in Seq(LeaseType)
  BY DEF TypeOK
<1>2. /\ leases' \in Seq(LeaseType)
      /\ Len(leases') = Len(leases) + 1
      /\ Len(leases) \in Nat
      /\ DOMAIN leases = 1 .. Len(leases)
      /\ DOMAIN leases' = 1 .. (Len(leases) + 1)
      /\ \A n \in DOMAIN leases : leases'[n] = leases[n]
      /\ leases'[Len(leases) + 1] = r
  BY <1>1
<1>3. leases' # <<>>
  BY <1>2
<1>4. Current' = r
  BY <1>2, <1>3 DEF Current
<1> QED
  BY <1>2, <1>3, <1>4

\* The insert keeps every conjunct of the invariant: the checks made under
\* the row lock still fit the latest row.
LEMMA CommitLeaseInv ==
  ASSUME Inv, CommitLease
  PROVE  Inv'
<1> DEFINE r == lock.request.lease
           k == Len(leases)
<1>1. /\ leases' = Append(leases, r)
      /\ lock.by = "claim" /\ lock' = Free
      /\ inflight' \subseteq inflight
      /\ UNCHANGED <<now, cached, written>>
  BY DEF CommitLease
<1>2. TypeOK /\ lock.request \in inflight
  BY <1>1 DEF Inv, LockOK
<1>3. /\ r \in LeaseType /\ k < MaxRevision
      /\ r.acquired <= r.renewed /\ r.renewed <= now
      /\ r.expires = r.renewed + LeaseDuration
      /\ leases = <<>> => r.epoch = 1
      /\ leases # <<>> =>
           \/ /\ Identity(r) = Identity(Current)
              /\ r.acquired = Current.acquired
              /\ r.renewed >= Current.renewed
              /\ r.expires >= Current.expires
           \/ /\ r.epoch = Current.epoch + 1
              /\ r.acquired = r.renewed
              /\ r.renewed >= Current.expires
              /\ now >= Current.expires
  BY <1>1, CommitFits
<1> HIDE DEF r, k
<1>4. /\ leases' \in Seq(LeaseType)
      /\ Len(leases') = k + 1 /\ k \in Nat
      /\ DOMAIN leases = 1 .. k /\ DOMAIN leases' = 1 .. (k + 1)
      /\ \A n \in DOMAIN leases : leases'[n] = leases[n]
      /\ leases'[k + 1] = r
      /\ leases' # <<>>
      /\ Current' = r
  BY <1>1, <1>2, <1>3, AppendRow DEF k
<1>5. TypeOK'
  <2>1. Len(leases') <= MaxRevision
    BY <1>3, <1>4, BoundsAssumption
  <2>2. /\ now' \in Times /\ inflight' \subseteq RequestType /\ lock' \in LockType
        /\ cached' \in [Holders -> LeaseType \cup {NoLease}]
        /\ written' \in 0 .. MaxRevision
    BY <1>1, <1>2 DEF TypeOK, LockType
  <2>3. pc' \in [Holders -> Points]
    BY <1>2 DEF CommitLease, TypeOK, Points
  <2>4. \A h \in Waiting(lock.request) :
          [cmd |-> call[h].cmd, result |-> r] \in ProvenCall
    BY <1>2, <1>3 DEF Waiting, TypeOK, CallOK, TimedCall, ProvenCall
  <2>5. call' = [h \in Holders |->
                   IF h \in Waiting(lock.request)
                     THEN [cmd |-> call[h].cmd, result |-> r] ELSE call[h]]
    BY DEF CommitLease, r
  <2>6. call' \in [Holders -> {NoCall} \cup LoadedCall \cup TimedCall \cup ProvenCall]
    BY <1>2, <2>4, <2>5 DEF TypeOK
  <2>7. \A h \in Holders : CallOK(h)'
    <3> TAKE h \in Holders
    <3>1. CASE h \in Waiting(lock.request)
      <4>1. pc'[h] = "prove"
        BY <3>1 DEF CommitLease
      <4>2. call'[h] \in ProvenCall
        BY <2>4, <2>5, <3>1
      <4> QED
        BY <4>1, <4>2 DEF CallOK, Idle, Dead
    <3>2. CASE h \notin Waiting(lock.request)
      BY <1>2, <3>2 DEF CommitLease, TypeOK, CallOK
    <3> QED
      BY <3>1, <3>2
  <2> QED
    BY <1>4, <2>1, <2>2, <2>3, <2>6, <2>7 DEF TypeOK
<1>6. k # 0 => /\ leases # <<>> /\ Current = leases[k] /\ Current \in LeaseType
               /\ k \in DOMAIN leases
  BY <1>2, <1>4, CurrentIsRow DEF k
<1>7. k = 0 => leases = <<>>
  BY <1>2, <1>4 DEF k, TypeOK
<1>8. /\ \A n \in DOMAIN leases :
           /\ leases[n] \in LeaseType
           /\ leases[n].epoch <= n
           /\ leases[n].acquired <= leases[n].renewed
           /\ leases[n].renewed <= now
           /\ leases[n].expires = leases[n].renewed + LeaseDuration
      /\ now \in Int /\ LeaseDuration \in Int /\ 0 < LeaseDuration
  BY <1>2, ConfigAssumption DEF Inv, RowsOK, TypeOK, Times
<1>9. RowsOK'
  <2>1. r.epoch <= k + 1
    <3>1. CASE k = 0
      BY <1>3, <1>7, <3>1
    <3>2. CASE k # 0
      <4>1. r.epoch = Current.epoch \/ r.epoch = Current.epoch + 1
        BY <1>3, <1>6, <3>2 DEF Identity
      <4>2. Current.epoch <= k /\ Current.epoch \in Int
        BY <1>6, <1>8, <3>2 DEF LeaseType, Epochs
      <4> QED
        BY <1>4, <4>1, <4>2
    <3> QED
      BY <3>1, <3>2
  <2> SUFFICES ASSUME NEW n \in DOMAIN leases'
               PROVE  /\ leases'[n].epoch <= n
                      /\ leases'[n].acquired <= leases'[n].renewed
                      /\ leases'[n].renewed <= now
                      /\ leases'[n].expires = leases'[n].renewed + LeaseDuration
    BY <1>1 DEF RowsOK
  <2>2. CASE n = k + 1
    BY <1>3, <1>4, <2>1, <2>2
  <2>3. CASE n \in DOMAIN leases
    BY <1>4, <1>8, <2>3
  <2> QED
    BY <1>4, <2>2, <2>3
<1>10. EpochsDisjoint'
  <2> DEFINE Fit(a, b) ==
        /\ a.epoch <= b.epoch
        /\ a.epoch = b.epoch =>
             Identity(a) = Identity(b) /\ a.expires <= b.expires
        /\ a.epoch < b.epoch => a.expires <= b.acquired
  <2>1. \A i, j \in DOMAIN leases : i < j => Fit(leases[i], leases[j])
    BY DEF Inv, EpochsDisjoint
  <2>2. ASSUME NEW i \in DOMAIN leases
        PROVE  Fit(leases[i], r)
    <3>1. k # 0
      BY <1>4
    <3>2. i = k \/ i < k
      BY <1>4
    <3>3. Fit(leases[i], Current)
      <4>1. CASE i = k
        BY <1>6, <1>8, <3>1, <4>1 DEF LeaseType, Epochs, Times
      <4>2. CASE i < k
        BY <1>6, <2>1, <3>1, <4>2
      <4> QED
        BY <3>2, <4>1, <4>2
    <3>4. /\ leases[i] \in LeaseType /\ Current \in LeaseType
          /\ Current.acquired <= Current.renewed
          /\ Current.expires = Current.renewed + LeaseDuration
      BY <1>6, <1>8, <3>1
    <3>5. CASE /\ Identity(r) = Identity(Current)
               /\ r.acquired = Current.acquired
               /\ r.expires >= Current.expires
      BY <1>3, <3>3, <3>4, <3>5, BoundsAssumption, ConfigAssumption
      DEF Identity, LeaseType, Epochs, Times
    <3>6. CASE /\ r.epoch = Current.epoch + 1
               /\ r.acquired = r.renewed
               /\ r.renewed >= Current.expires
      <4>1. leases[i].epoch < r.epoch /\ leases[i].epoch # r.epoch
        BY <1>3, <3>3, <3>4, <3>6 DEF LeaseType, Epochs
      <4>2. leases[i].expires <= Current.expires
        BY <1>8, <3>3, <3>4, BoundsAssumption, ConfigAssumption
        DEF LeaseType, Epochs, Times
      <4>3. leases[i].expires <= r.acquired
        BY <1>3, <3>4, <3>6, <4>2, BoundsAssumption, ConfigAssumption
        DEF LeaseType, Times
      <4> QED
        BY <1>3, <3>4, <4>1, <4>3 DEF LeaseType, Epochs
    <3> QED
      BY <1>3, <1>6, <3>1, <3>5, <3>6
  <2> HIDE DEF Fit
  <2>3. ASSUME NEW i \in DOMAIN leases', NEW j \in DOMAIN leases', i < j
        PROVE  Fit(leases'[i], leases'[j])
    <3>1. i \in DOMAIN leases
      BY <1>4, <2>3
    <3>2. CASE j = k + 1
      BY <1>4, <2>2, <3>1, <3>2
    <3>3. CASE j \in DOMAIN leases
      BY <1>4, <2>1, <2>3, <3>1, <3>3
    <3> QED
      BY <1>4, <3>2, <3>3
  <2> QED
    BY <2>3 DEF EpochsDisjoint, Fit, Identity
<1>11. RequestsOK'
  BY <1>1 DEF Inv, RequestsOK
<1>12. LockOK' /\ FencedIsCurrent'
  BY <1>1 DEF LockOK, FencedIsCurrent, Free
<1>13. MemoryOK'
  <2> SUFFICES ASSUME NEW h \in Holders
               PROVE  /\ cached'[h] # NoLease =>
                           \E n \in DOMAIN leases' : cached'[h] = leases'[n]
                      /\ pc'[h] = "prove" =>
                           \E n \in DOMAIN leases' : call'[h].result = leases'[n]
    BY DEF MemoryOK
  <2>1. cached'[h] # NoLease => \E n \in DOMAIN leases' : cached'[h] = leases'[n]
    BY <1>1, <1>4 DEF Inv, MemoryOK
  <2>2. CASE h \in Waiting(lock.request)
    <3>1. call'[h].result = r
      BY <2>2 DEF CommitLease, r
    <3> QED
      BY <1>4, <2>1, <3>1
  <2>3. CASE h \notin Waiting(lock.request)
    <3>1. pc'[h] = pc[h] /\ call'[h] = call[h]
      BY <2>3 DEF CommitLease
    <3> QED
      BY <1>4, <2>1, <3>1 DEF Inv, MemoryOK
  <2> QED
    BY <2>2, <2>3
<1>14. WrittenOK'
  <2>1. CASE k = 0
    BY <1>1, <1>2, <1>3, <1>4, <1>7, <2>1 DEF Inv, WrittenOK, TypeOK, LeaseType, Epochs
  <2>2. CASE k # 0
    <3>1. written <= Current.epoch
      BY <1>6, <2>2 DEF Inv, WrittenOK
    <3>2. Current.epoch <= r.epoch
      BY <1>3, <1>6, <2>2 DEF Identity, LeaseType, Epochs
    <3> QED
      BY <1>1, <1>2, <1>3, <1>4, <1>6, <2>2, <3>1, <3>2
      DEF WrittenOK, TypeOK, LeaseType, Epochs
  <2> QED
    BY <2>1, <2>2
<1> QED
  BY <1>5, <1>9, <1>10, <1>11, <1>12, <1>13, <1>14 DEF Inv

-----------------------------------------------------------------------------
(* The other steps *)

\* A process that only plans, gives up or dies changes nothing durable.
LEMMA StartClaimInv ==
  ASSUME Inv, NEW h \in Holders, StartClaim(h)
  PROVE  Inv'
<1>1. Durable'
  BY DurableStutters DEF Inv, Durable, StartClaim
<1>2. CurrentStamp \in StampType \cup {NoStamp}
  BY CurrentIsRow DEF Inv, CurrentStamp, Stamp, StampType, LeaseType
<1>3. PICK id \in Ids :
        call' = [call EXCEPT ![h] =
          [cmd |-> id, lease |-> LeaseIdFor(h, id), expected |-> CurrentStamp]]
  BY DEF StartClaim
<1>4. LeaseIdFor(h, id) \in Ids
  BY DEF Inv, TypeOK, LeaseIdFor, LeaseType
<1>5. [cmd |-> id, lease |-> LeaseIdFor(h, id), expected |-> CurrentStamp]
        \in LoadedCall
  BY <1>2, <1>4 DEF LoadedCall
<1>6. TypeOK'
  BY <1>3, <1>5 DEF StartClaim, Inv, TypeOK, CallOK, Points, Idle, Dead
<1>7. MemoryOK'
  BY <1>3 DEF StartClaim, Inv, TypeOK, MemoryOK
<1> QED
  BY <1>1, <1>6, <1>7 DEF Inv, Durable

\* Reading the time of a claim only adds locals.
LEMMA ClaimTimeInv ==
  ASSUME Inv, NEW h \in Holders, ClaimTime(h)
  PROVE  Inv'
<1>1. Durable'
  BY DurableStutters DEF Inv, Durable, ClaimTime
<1>2. TypeOK'
  <2>1. call[h] \in LoadedCall
    BY DEF ClaimTime, Inv, TypeOK, CallOK
  <2>2. [cmd |-> call[h].cmd, lease |-> call[h].lease,
         expected |-> call[h].expected, at |-> now, attempt |-> 1] \in TimedCall
    BY <2>1, BoundsAssumption DEF LoadedCall, TimedCall, Inv, TypeOK
  <2>3. call' = [call EXCEPT ![h] =
          [cmd |-> call[h].cmd, lease |-> call[h].lease,
           expected |-> call[h].expected, at |-> now, attempt |-> 1]]
    BY DEF ClaimTime, Inv, TypeOK
  <2> QED
    BY <2>2, <2>3 DEF ClaimTime, Inv, TypeOK, CallOK, Points, Idle, Dead
<1>3. MemoryOK'
  BY DEF ClaimTime, Inv, TypeOK, MemoryOK
<1> QED
  BY <1>1, <1>2, <1>3 DEF Inv, Durable

\* Every way a call ends without a lease.
LEMMA EndCallInv ==
  ASSUME Inv, NEW h \in Holders, EndCall(h),
         UNCHANGED <<now, leases, inflight, lock, cached, written>>
  PROVE  Inv'
<1>1. Durable'
  BY DurableStutters DEF Inv, Durable
<1>2. TypeOK'
  BY DEF EndCall, Inv, TypeOK, CallOK, Points, Idle, Dead
<1>3. MemoryOK'
  BY DEF EndCall, Inv, TypeOK, MemoryOK, Idle
<1> QED
  BY <1>1, <1>2, <1>3 DEF Inv, Durable

\* A process that dies leaves the durable state and every other memory alone.
LEMMA CrashInv ==
  ASSUME Inv, NEW h \in Holders, Crash(h)
  PROVE  Inv'
<1>1. Durable'
  BY DurableStutters DEF Inv, Durable, Crash
<1>2. TypeOK'
  BY DEF Crash, Inv, TypeOK, CallOK, Points, Idle, Dead
<1>3. MemoryOK'
  BY DEF Crash, Inv, TypeOK, MemoryOK, Dead
<1> QED
  BY <1>1, <1>2, <1>3 DEF Inv, Durable

\* The lease that is cached is the row the commit returned.
LEMMA ProveLeaseInv ==
  ASSUME Inv, NEW h \in Holders, ProveLease(h)
  PROVE  Inv'
<1>1. Durable'
  BY DurableStutters DEF Inv, Durable, ProveLease
<1>2. call[h] \in ProvenCall /\ call[h].result \in LeaseType
  BY DEF ProveLease, Inv, TypeOK, CallOK, ProvenCall
<1>3. TypeOK'
  BY <1>2 DEF ProveLease, EndCall, Inv, TypeOK, CallOK, Points, Idle, Dead
<1>4. MemoryOK'
  BY DEF ProveLease, EndCall, Inv, TypeOK, MemoryOK, Idle
<1> QED
  BY <1>1, <1>3, <1>4 DEF Inv, Durable

\* The plan that is sent has a well-formed interval and the right types.
LEMMA SendCommitInv ==
  ASSUME Inv, NEW h \in Holders, SendCommit(h)
  PROVE  Inv'
<1> DEFINE c == call[h]
           q == [cmd |-> c.cmd, lease |-> Planned(h, c), condition |-> Condition(c)]
<1>1. c \in TimedCall /\ TypeOK
  BY DEF SendCommit, Inv, TypeOK, CallOK
<1>2. /\ leases # <<>> => /\ Current \in LeaseType
                          /\ Len(leases) \in DOMAIN leases
                          /\ Current = leases[Len(leases)]
                          /\ Len(leases) # MaxRevision
                          /\ Current.renewed <= c.at
      /\ Len(leases) \in Nat /\ Len(leases) <= MaxRevision
  BY <1>1, CurrentIsRow
  DEF SendCommit, PlanConflict, LeaseType, TimedCall, Times, TypeOK
<1>3. CurrentStamp \in StampType \cup {NoStamp}
  BY <1>1, CurrentIsRow DEF CurrentStamp, Stamp, StampType, LeaseType
<1>4. Planned(h, c) \in LeaseType
  <2>1. c.at \in Times /\ c.lease \in Ids
    BY <1>1 DEF TimedCall
  <2>2. c.at + LeaseDuration \in 0 .. (MaxTime + LeaseDuration)
    BY <2>1, ConfigAssumption, BoundsAssumption DEF Times
  <2>3. CASE leases = <<>>
    <3>1. 1 \in Epochs
      BY BoundsAssumption DEF Epochs
    <3> QED
      BY <1>3, <2>1, <2>2, <2>3, <3>1 DEF Planned, LeaseType
  <2>4. CASE leases # <<>>
    <3>1. Current.epoch <= Len(leases) /\ Current.epoch \in Epochs
      BY <1>2, <2>4 DEF Inv, RowsOK, LeaseType
    <3>2. Current.epoch + 1 \in Epochs
      BY <1>2, <2>4, <3>1, BoundsAssumption DEF Epochs
    <3> QED
      BY <1>2, <1>3, <2>1, <2>2, <2>4, <3>1, <3>2 DEF Planned, LeaseType
  <2> QED
    BY <2>3, <2>4
<1>5. Condition(c) \in ConditionType
  BY <1>2, <1>3, BoundsAssumption DEF Condition, ConditionType
<1>6. q \in RequestType
  BY <1>1, <1>4, <1>5 DEF RequestType, TimedCall
<1>7. /\ q.lease.acquired <= q.lease.renewed
      /\ q.lease.expires = q.lease.renewed + LeaseDuration
      /\ q.condition.state = "absent" => q.lease.epoch = 1
  <2>1. leases # <<>> => Current.acquired <= Current.renewed
    BY <1>2 DEF Inv, RowsOK
  <2>2. q.lease.acquired <= q.lease.renewed
    BY <1>1, <1>2, <2>1, BoundsAssumption
    DEF Planned, LeaseType, TimedCall, Times
  <2> QED
    BY <2>2 DEF Planned, Condition
<1>8. inflight' = inflight \cup {q}
  BY DEF SendCommit
<1> HIDE DEF q
<1>9. TypeOK'
  BY <1>1, <1>6, <1>8 DEF SendCommit, TypeOK, CallOK, Points, Idle, Dead
<1>10. RowsOK' /\ EpochsDisjoint' /\ FencedIsCurrent' /\ WrittenOK'
  BY DEF SendCommit, Inv, RowsOK, EpochsDisjoint, FencedIsCurrent, WrittenOK,
         Current, Identity
<1>11. RequestsOK'
  BY <1>7, <1>8 DEF Inv, RequestsOK
<1>12. LockOK'
  BY <1>8 DEF SendCommit, Inv, LockOK, CommitMatches, InitialMatches,
              SuccessorMatches, RenewalMatches, TakeoverMatches, Current,
              CurrentStamp, Stamp, Identity, Proves
<1>13. MemoryOK'
  BY DEF SendCommit, Inv, TypeOK, MemoryOK
<1> QED
  BY <1>9, <1>10, <1>11, <1>12, <1>13 DEF Inv

\* The row lock is taken with the check still fresh.
LEMMA LockCommitInv ==
  ASSUME Inv, NEW q \in inflight, LockCommit(q)
  PROVE  Inv'
<1>1. /\ lock' = [by |-> "claim", request |-> q, at |-> now]
      /\ CommitMatches(q, now)
      /\ UNCHANGED <<now, leases, inflight, pc, call, cached, written>>
  BY DEF LockCommit
<1>2. q \in RequestType /\ now \in Times
  BY DEF Inv, TypeOK
<1>3. lock' \in LockType
  BY <1>1, <1>2 DEF LockType
<1>4. TypeOK'
  BY <1>1, <1>3 DEF Inv, TypeOK, CallOK
<1>5. RowsOK' /\ EpochsDisjoint' /\ RequestsOK' /\ WrittenOK' /\ MemoryOK'
  BY <1>1 DEF Inv, RowsOK, EpochsDisjoint, RequestsOK, WrittenOK, MemoryOK,
              Current, Identity
<1>6. LockOK'
  <2>1. now <= now
    BY <1>2, BoundsAssumption DEF Times
  <2> QED
    BY <1>1, <2>1 DEF LockOK, CommitMatches, InitialMatches,
       SuccessorMatches, RenewalMatches, TakeoverMatches, Current, CurrentStamp,
       Stamp, Proves
<1>7. FencedIsCurrent'
  BY <1>1 DEF FencedIsCurrent
<1> QED
  BY <1>4, <1>5, <1>6, <1>7 DEF Inv

\* A refused plan leaves the database; the call that waits for it may retry.
LEMMA ConflictCommitInv ==
  ASSUME Inv, NEW q \in inflight, ConflictCommit(q)
  PROVE  Inv'
<1>1. /\ inflight' = inflight \ {q} /\ lock = Free
      /\ UNCHANGED <<now, leases, lock, cached, written>>
  BY DEF ConflictCommit
<1>2. TypeOK'
  <2>1. \A h \in Waiting(q) : call[h] \in TimedCall /\ pc[h] = "commit"
    BY DEF Waiting, Inv, TypeOK, CallOK
  <2>2. \A h \in Waiting(q) : call[h].attempt < ClaimAttempts =>
          [call[h] EXCEPT !.attempt = @ + 1] \in TimedCall
    BY <2>1, BoundsAssumption DEF TimedCall
  <2>3. pc' \in [Holders -> Points]
    BY DEF ConflictCommit, Inv, TypeOK, Points
  <2>4. call' \in [Holders -> {NoCall} \cup LoadedCall \cup TimedCall \cup ProvenCall]
    BY <2>2 DEF ConflictCommit, Inv, TypeOK
  <2>5. \A h \in Holders : CallOK(h)'
    <3> TAKE h \in Holders
    <3>1. CASE h \in Waiting(q) /\ call[h].attempt < ClaimAttempts
      <4>1. pc'[h] = "attempt" /\ call'[h] \in TimedCall
        BY <2>2, <3>1 DEF ConflictCommit
      <4> QED
        BY <4>1 DEF CallOK, Idle, Dead
    <3>2. CASE h \in Waiting(q) /\ ~(call[h].attempt < ClaimAttempts)
      <4>1. pc'[h] = Idle /\ call'[h] = NoCall
        BY <3>2 DEF ConflictCommit
      <4> QED
        BY <4>1 DEF CallOK, Idle, Dead
    <3>3. CASE h \notin Waiting(q)
      <4>1. pc'[h] = pc[h] /\ call'[h] = call[h]
        BY <3>3 DEF ConflictCommit
      <4> QED
        BY <4>1 DEF Inv, TypeOK, CallOK
    <3> QED
      BY <3>1, <3>2, <3>3
  <2> QED
    BY <1>1, <2>3, <2>4, <2>5 DEF Inv, TypeOK
<1>3. RowsOK' /\ EpochsDisjoint' /\ RequestsOK' /\ WrittenOK' /\ FencedIsCurrent'
  BY <1>1 DEF Inv, RowsOK, EpochsDisjoint, RequestsOK, WrittenOK,
              FencedIsCurrent, Current, Identity
<1>4. LockOK'
  BY <1>1 DEF LockOK, Free
<1>5. MemoryOK'
  <2>1. \A h \in Holders : pc'[h] = "prove" => pc[h] = "prove" /\ call'[h] = call[h]
    BY DEF ConflictCommit, Waiting, Idle
  <2> QED
    BY <1>1, <2>1 DEF Inv, MemoryOK
<1> QED
  BY <1>2, <1>3, <1>4, <1>5 DEF Inv

\* A commit the database drops leaves no trace but its call's end.
LEMMA DropCommitInv ==
  ASSUME Inv, NEW q \in inflight, DropCommit(q)
  PROVE  Inv'
<1>1. /\ inflight' = inflight \ {q}
      /\ lock' = Free \/ (lock' = lock /\ ~(lock.by = "claim" /\ lock.request = q))
      /\ UNCHANGED <<now, leases, cached, written>>
  BY DEF DropCommit
<1>2. TypeOK'
  <2>1. /\ pc' \in [Holders -> Points]
        /\ call' \in [Holders -> {NoCall} \cup LoadedCall \cup TimedCall \cup ProvenCall]
        /\ \A h \in Holders : CallOK(h)'
    BY DEF DropCommit, Inv, TypeOK, CallOK, Points, Idle, Dead
  <2> QED
    BY <1>1, <2>1 DEF Inv, TypeOK, LockType
<1>3. RowsOK' /\ EpochsDisjoint' /\ RequestsOK' /\ WrittenOK'
  BY <1>1 DEF Inv, RowsOK, EpochsDisjoint, RequestsOK, WrittenOK, Current, Identity
<1>4. FencedIsCurrent'
  BY <1>1 DEF Inv, FencedIsCurrent, Free, Current, Identity
<1>5. LockOK'
  BY <1>1 DEF Inv, LockOK, Free, CommitMatches, InitialMatches,
       SuccessorMatches, RenewalMatches, TakeoverMatches, Current, CurrentStamp,
       Stamp, Proves
<1>6. MemoryOK'
  <2>1. \A h \in Holders : pc'[h] = "prove" => pc[h] = "prove" /\ call'[h] = call[h]
    BY DEF DropCommit, Waiting, Idle
  <2> QED
    BY <1>1, <2>1 DEF Inv, MemoryOK
<1> QED
  BY <1>2, <1>3, <1>4, <1>5, <1>6 DEF Inv

\* A consumer's transaction takes the row lock with the latest identity.
LEMMA LockFenceInv ==
  ASSUME Inv, NEW identity \in HandedOut, LockFence(identity)
  PROVE  Inv'
<1>1. /\ lock' = [by |-> "fence", identity |-> identity]
      /\ identity = Identity(Current)
      /\ UNCHANGED <<now, leases, inflight, pc, call, cached, written>>
  BY DEF LockFence, Fence
<1>2. leases # <<>>
  BY DEF HandedOut, Inv, TypeOK
<1>3. identity \in IdentityType
  BY <1>1, <1>2, CurrentIsRow DEF Inv, Identity, IdentityType, LeaseType
<1>4. TypeOK'
  BY <1>1, <1>3 DEF Inv, TypeOK, CallOK, LockType
<1>5. RowsOK' /\ EpochsDisjoint' /\ RequestsOK' /\ WrittenOK' /\ MemoryOK'
  BY <1>1 DEF Inv, RowsOK, EpochsDisjoint, RequestsOK, WrittenOK, MemoryOK,
              Current, Identity
<1>6. LockOK'
  BY <1>1 DEF LockOK
<1>7. FencedIsCurrent'
  BY <1>1, <1>2 DEF FencedIsCurrent, Current, Identity
<1> QED
  BY <1>4, <1>5, <1>6, <1>7 DEF Inv

\* A fenced transaction that ends wrote the epoch of the latest row, or nothing.
LEMMA EndFencedInv ==
  ASSUME Inv, CommitFenced \/ AbortFenced
  PROVE  Inv'
<1>1. /\ lock.by = "fence" /\ lock' = Free
      /\ UNCHANGED <<now, leases, inflight, pc, call, cached>>
      /\ written' = written \/ written' = lock.identity.epoch
  BY DEF CommitFenced, AbortFenced
<1>2. leases # <<>> /\ lock.identity.epoch = Current.epoch /\ Current \in LeaseType
  BY <1>1, CurrentIsRow DEF Inv, FencedIsCurrent, Identity
<1>3. Current.epoch \in Epochs
  BY <1>2 DEF LeaseType
<1>4. TypeOK'
  BY <1>1, <1>2, <1>3, BoundsAssumption DEF Inv, TypeOK, CallOK, LockType, Epochs
<1>5. RowsOK' /\ EpochsDisjoint' /\ RequestsOK' /\ MemoryOK'
  BY <1>1 DEF Inv, RowsOK, EpochsDisjoint, RequestsOK, MemoryOK, Identity
<1>6. LockOK' /\ FencedIsCurrent'
  BY <1>1 DEF LockOK, FencedIsCurrent, Free
<1>7. WrittenOK'
  BY <1>1, <1>2, <1>3, BoundsAssumption DEF Inv, WrittenOK, Current, Epochs
<1> QED
  BY <1>4, <1>5, <1>6, <1>7 DEF Inv

\* Time passes, also for a transaction that already checked it.
LEMMA TickInv ==
  ASSUME Inv, Tick
  PROVE  Inv'
<1>1. /\ now' = now + 1 /\ now < MaxTime
      /\ UNCHANGED <<leases, inflight, lock, pc, call, cached, written>>
  BY DEF Tick
<1>2. now \in Times /\ now' \in Times /\ now <= now'
  BY <1>1, BoundsAssumption DEF Inv, TypeOK, Times
<1>3. TypeOK'
  BY <1>1, <1>2 DEF Inv, TypeOK, CallOK
<1>4. RowsOK'
  <2>1. \A n \in DOMAIN leases : leases[n].renewed \in Times
    <3>1. leases \in Seq(LeaseType)
      BY DEF Inv, TypeOK
    <3>2. \A n \in DOMAIN leases : leases[n] \in LeaseType
      BY <3>1
    <3> QED
      BY <3>2 DEF LeaseType
  <2> QED
    BY <1>1, <1>2, <2>1, BoundsAssumption DEF Inv, RowsOK, Times
<1>5. EpochsDisjoint' /\ RequestsOK' /\ WrittenOK' /\ MemoryOK' /\ FencedIsCurrent'
  BY <1>1 DEF Inv, EpochsDisjoint, RequestsOK, WrittenOK, MemoryOK,
              FencedIsCurrent, Current, Identity
<1>6. LockOK'
  <2>1. lock.by = "claim" => lock.at \in Times
    BY DEF Inv, TypeOK, LockType, Free
  <2> QED
    BY <1>1, <1>2, <2>1, BoundsAssumption
    DEF Inv, LockOK, CommitMatches, InitialMatches, SuccessorMatches,
        RenewalMatches, TakeoverMatches, Current, CurrentStamp, Stamp, Proves,
        Times
<1> QED
  BY <1>3, <1>4, <1>5, <1>6 DEF Inv

-----------------------------------------------------------------------------
(* Results *)

\* The empty lineage satisfies the invariant.
LEMMA InitInv == Init => Inv
BY BoundsAssumption
DEF Init, Inv, TypeOK, CallOK, RowsOK, EpochsDisjoint, RequestsOK, LockOK,
    FencedIsCurrent, MemoryOK, WrittenOK, Times, LockType, Free, Points, Idle,
    Dead, NoLease

\* Every step of Next keeps the invariant, one case per action.
LEMMA NextInv == Inv /\ [Next]_vars => Inv'
<1> SUFFICES ASSUME Inv, [Next]_vars PROVE Inv'
  OBVIOUS
<1>1. ASSUME NEW h \in Holders, StartClaim(h) PROVE Inv'
  BY <1>1, StartClaimInv
<1>2. ASSUME NEW h \in Holders, ClaimTime(h) PROVE Inv'
  BY <1>2, ClaimTimeInv
<1>3. ASSUME NEW h \in Holders, RefusePlan(h) \/ RefuseActive(h) \/ CallFails(h)
      PROVE  Inv'
  BY <1>3, EndCallInv DEF RefusePlan, RefuseActive, CallFails
<1>4. ASSUME NEW h \in Holders, SendCommit(h) PROVE Inv'
  BY <1>4, SendCommitInv
<1>5. ASSUME NEW h \in Holders, ProveLease(h) PROVE Inv'
  BY <1>5, ProveLeaseInv
<1>6. ASSUME NEW h \in Holders, Crash(h) PROVE Inv'
  BY <1>6, CrashInv
<1>7. ASSUME NEW q \in inflight, LockCommit(q) PROVE Inv'
  BY <1>7, LockCommitInv
<1>8. ASSUME NEW q \in inflight, ConflictCommit(q) PROVE Inv'
  BY <1>8, ConflictCommitInv
<1>9. ASSUME NEW q \in inflight, DropCommit(q) PROVE Inv'
  BY <1>9, DropCommitInv
<1>10. CASE CommitLease
  BY <1>10, CommitLeaseInv
<1>11. ASSUME NEW identity \in HandedOut, LockFence(identity) PROVE Inv'
  BY <1>11, LockFenceInv
<1>12. CASE CommitFenced \/ AbortFenced
  BY <1>12, EndFencedInv
<1>13. CASE Tick
  BY <1>13, TickInv
<1>14. CASE UNCHANGED vars
  <2>1. Durable'
    BY <1>14, DurableStutters DEF Inv, Durable, vars
  <2>2. TypeOK' /\ MemoryOK'
    BY <1>14 DEF Inv, vars, TypeOK, CallOK, MemoryOK
  <2> QED
    BY <2>1, <2>2 DEF Inv, Durable
<1> QED
  BY <1>1, <1>2, <1>3, <1>4, <1>5, <1>6, <1>7, <1>8, <1>9, <1>10, <1>11,
     <1>12, <1>13, <1>14 DEF Next

\* The invariant of the lease protocol: the types, disjoint epochs, and what
\* every lock holder, plan and cached lease knows about the lineage.
THEOREM Invariance == Spec => []Inv
BY InitInv, NextInv, PTL DEF Spec

\* Rows of two epochs never overlap in time, and one epoch is one holder.
THEOREM DisjointEpochs == Spec => []EpochsDisjoint
<1>1. Inv => EpochsDisjoint
  BY DEF Inv
<1> QED
  BY <1>1, Invariance, PTL

\* A lease a process has cached and not outlived is the latest identity.
LEMMA CachedFollows == Inv => CachedIsCurrent
<1> SUFFICES ASSUME Inv, NEW h \in Holders, cached[h] # NoLease,
                    now < cached[h].expires
             PROVE  leases # <<>> /\ Identity(cached[h]) = Identity(Current)
  BY DEF CachedIsCurrent
<1>1. PICK n \in DOMAIN leases : cached[h] = leases[n]
  BY DEF Inv, MemoryOK
<1>2. TypeOK /\ leases # <<>>
  BY <1>1 DEF Inv, TypeOK
<1>3. /\ Len(leases) \in DOMAIN leases
      /\ Current = leases[Len(leases)]
      /\ Current \in LeaseType /\ leases[n] \in LeaseType
      /\ DOMAIN leases = 1 .. Len(leases) /\ Len(leases) \in Nat
  BY <1>2, CurrentIsRow DEF TypeOK
<1>4. CASE n = Len(leases)
  BY <1>1, <1>2, <1>3, <1>4
<1>5. CASE n < Len(leases)
  <2>1. \/ leases[n].epoch = Current.epoch
        \/ leases[n].epoch < Current.epoch
    BY <1>3, <1>5 DEF Inv, EpochsDisjoint, LeaseType, Epochs
  <2>2. CASE leases[n].epoch = Current.epoch
    BY <1>1, <1>2, <1>3, <1>5, <2>2 DEF Inv, EpochsDisjoint
  <2>3. CASE leases[n].epoch < Current.epoch
    <3>1. leases[n].expires <= Current.acquired
      BY <1>3, <1>5, <2>3 DEF Inv, EpochsDisjoint
    <3>2. Current.acquired <= Current.renewed /\ Current.renewed <= now
      BY <1>3 DEF Inv, RowsOK
    <3> QED
      BY <1>1, <1>2, <1>3, <3>1, <3>2, ConfigAssumption, BoundsAssumption
      DEF LeaseType, Times, TypeOK
  <2> QED
    BY <2>1, <2>2, <2>3
<1> QED
  BY <1>3, <1>4, <1>5

\* AuthorityFor never serves from memory an identity that was replaced.
THEOREM CachedLeases == Spec => []CachedIsCurrent
BY CachedFollows, Invariance, PTL

\* Two processes never both serve execution authority from memory.
THEOREM SingleServer == Spec => []OneServer
<1>1. Inv => OneServer
  <2> SUFFICES ASSUME Inv, NEW g \in Holders, NEW h \in Holders,
                      CanServe(g, now), CanServe(h, now)
               PROVE  g = h
    BY DEF OneServer
  <2>1. /\ Identity(cached[g]) = Identity(Current)
        /\ Identity(cached[h]) = Identity(Current)
    BY CachedFollows DEF CachedIsCurrent, CanServe, Proves
  <2> QED
    BY <2>1 DEF CanServe, Identity
<1> QED
  BY <1>1, Invariance, PTL

\* A fenced transaction still holds the latest identity when it commits.
THEOREM FencedWrites == Spec => []FencedIsCurrent
<1>1. Inv => FencedIsCurrent
  BY DEF Inv
<1> QED
  BY <1>1, Invariance, PTL

\* A fenced write never carries an older epoch than a write before it.
THEOREM WritesMonotone == Spec => WritesFollowEpochs
<1>1. Inv /\ [Next]_vars => [written' >= written]_vars
  <2> SUFFICES ASSUME Inv, [Next]_vars PROVE written' >= written \/ UNCHANGED vars
    OBVIOUS
  <2>0. written \in Int /\ TypeOK
    BY BoundsAssumption DEF Inv, TypeOK
  <2>1. CASE CommitFenced
    <3>1. leases # <<>> /\ lock.identity = Identity(Current)
      BY <2>1 DEF CommitFenced, Inv, FencedIsCurrent
    <3>2. written <= Current.epoch /\ Current.epoch \in Int
      BY <2>0, <3>1, CurrentIsRow DEF Inv, WrittenOK, LeaseType, Epochs
    <3> QED
      BY <2>0, <2>1, <3>1, <3>2 DEF CommitFenced, Identity
  <2>2. CASE written' = written
    BY <2>0, <2>2
  <2> QED
    BY <2>1, <2>2 DEF Next, vars, StartClaim, ClaimTime, RefusePlan, RefuseActive,
       SendCommit, ProveLease, CallFails, Crash, LockCommit, ConflictCommit,
       DropCommit, CommitLease, LockFence, AbortFenced, Tick
<1> QED
  BY <1>1, Invariance, PTL DEF Spec, WritesFollowEpochs

-----------------------------------------------------------------------------
(* Ids drawn by calls *)

RowIds == {leases[n].lease : n \in DOMAIN leases}

\* A call that may still send a plan.
Planning(h) == pc[h] \in {"claim", "attempt", "commit"}

\* A plan starts an epoch with the id its call drew, or continues an epoch of
\* the lineage with that epoch's id.
IdFits(q) ==
  \/ q.lease.lease = q.cmd
  \/ \E n \in DOMAIN leases :
       leases[n].lease = q.lease.lease /\ leases[n].epoch = q.lease.epoch

\* No row has a drawn id before the plan that carries it is committed, and at
\* most one plan in the database carries it.
RequestIds ==
  /\ \A q \in inflight : q.cmd \notin RowIds /\ IdFits(q)
  /\ \A p, q \in inflight : p.cmd = q.cmd => p = q

\* Calls draw different ids, a call that has no plan in the database has an id
\* that no plan carries, and the lease id it asks for is its own or the one of
\* the row it expects to be the latest.
CallIds ==
  \A h \in Holders : Planning(h) =>
    /\ call[h].cmd \notin RowIds
    /\ \/ call[h].lease = call[h].cmd
       \/ call[h].expected \in StampType /\ call[h].lease = call[h].expected.lease
    /\ pc[h] # "commit" => \A q \in inflight : q.cmd # call[h].cmd
    /\ \A g \in Holders : Planning(g) /\ call[g].cmd = call[h].cmd => g = h

RowsByEpoch ==
  \A i, j \in DOMAIN leases :
    leases[i].lease = leases[j].lease => leases[i].epoch = leases[j].epoch

IdsInv == RowsByEpoch /\ RequestIds /\ CallIds

\* What is said of ids survives a step that adds no row and no plan, and leaves
\* the ids of every call that goes on.
LEMMA IdsKept ==
  ASSUME IdsInv, leases' = leases, inflight' \subseteq inflight,
         \A h \in Holders : Planning(h)' =>
           /\ Planning(h)
           /\ call'[h].cmd = call[h].cmd
           /\ call'[h].lease = call[h].lease
           /\ call'[h].expected = call[h].expected
           /\ pc'[h] # "commit" =>
                pc[h] # "commit" \/ \A q \in inflight' : q.cmd # call[h].cmd
  PROVE  IdsInv'
<1>1. RowsByEpoch'
  BY DEF IdsInv, RowsByEpoch
<1>2. RequestIds'
  BY DEF IdsInv, RequestIds, IdFits, RowIds
<1>3. CallIds'
  BY DEF IdsInv, CallIds, RowIds
<1> QED
  BY <1>1, <1>2, <1>3 DEF IdsInv

\* A fresh id is in no row, no plan and no other call.
LEMMA StartClaimIds ==
  ASSUME Inv, IdsInv, NEW h \in Holders, StartClaim(h)
  PROVE  IdsInv'
<1>1. PICK id \in Ids :
        /\ FreshId(id)
        /\ call' = [call EXCEPT ![h] =
             [cmd |-> id, lease |-> LeaseIdFor(h, id), expected |-> CurrentStamp]]
  BY DEF StartClaim
<1>2. /\ id \notin RowIds
      /\ \A q \in inflight : q.cmd # id
      /\ \A g \in Holders : call[g] # NoCall => call[g].cmd # id
  BY <1>1 DEF FreshId, UsedIds, RowIds
<1>3. \A g \in Holders : Planning(g) => call[g] # NoCall
  <2> SUFFICES ASSUME NEW g \in Holders, Planning(g) PROVE call[g] # NoCall
    OBVIOUS
  <2>1. call[g] \in LoadedCall \/ call[g] \in TimedCall
    BY DEF Planning, Inv, TypeOK, CallOK
  <2> QED
    BY <2>1 DEF LoadedCall, TimedCall, NoCall
<1>4. \/ LeaseIdFor(h, id) = id
      \/ CurrentStamp \in StampType /\ LeaseIdFor(h, id) = CurrentStamp.lease
  <2>1. leases # <<>> => Current \in LeaseType
    BY CurrentIsRow DEF Inv
  <2>2. leases # <<>> => CurrentStamp \in StampType /\ CurrentStamp = Stamp(Current)
    BY <2>1 DEF CurrentStamp, Stamp, StampType, LeaseType
  <2>3. CASE LeaseIdFor(h, id) # id
    <3>1. /\ leases # <<>> /\ LeaseIdFor(h, id) = cached[h].lease
          /\ Stamp(Current) = Stamp(cached[h])
      BY <2>3 DEF LeaseIdFor
    <3>2. CurrentStamp.lease = cached[h].lease
      BY <2>2, <3>1 DEF Stamp
    <3> QED
      BY <2>2, <3>1, <3>2
  <2> QED
    BY <2>3
<1>5. /\ pc' = [pc EXCEPT ![h] = "claim"]
      /\ UNCHANGED <<leases, inflight>>
  BY DEF StartClaim
<1>6. /\ pc'[h] = "claim" /\ call'[h].cmd = id
      /\ call'[h].lease = LeaseIdFor(h, id) /\ call'[h].expected = CurrentStamp
      /\ \A g \in Holders \ {h} : pc'[g] = pc[g] /\ call'[g] = call[g]
  BY <1>1, <1>5 DEF Inv, TypeOK
<1>7. RowsByEpoch' /\ RequestIds'
  BY <1>5 DEF IdsInv, RowsByEpoch, RequestIds, IdFits, RowIds
<1>8. CallIds'
  <2> SUFFICES ASSUME NEW g \in Holders, Planning(g)'
               PROVE  /\ call'[g].cmd \notin RowIds
                      /\ \/ call'[g].lease = call'[g].cmd
                         \/ /\ call'[g].expected \in StampType
                            /\ call'[g].lease = call'[g].expected.lease
                      /\ pc'[g] # "commit" => \A q \in inflight : q.cmd # call'[g].cmd
                      /\ \A f \in Holders :
                           Planning(f)' /\ call'[f].cmd = call'[g].cmd => f = g
    BY <1>5 DEF CallIds, RowIds
  <2>1. CASE g = h
    <3>1. \A f \in Holders \ {h} : Planning(f)' => call'[f].cmd # id
      BY <1>2, <1>3, <1>6 DEF Planning
    <3> QED
      BY <1>2, <1>4, <1>6, <2>1, <3>1
  <2>2. CASE g # h
    <3>1. Planning(g) /\ pc'[g] = pc[g] /\ call'[g] = call[g] /\ call[g].cmd # id
      BY <1>2, <1>3, <1>6, <2>2 DEF Planning
    <3>2. \A f \in Holders \ {h} : Planning(f)' => Planning(f) /\ call'[f] = call[f]
      BY <1>6 DEF Planning
    <3> QED
      BY <1>6, <3>1, <3>2 DEF IdsInv, CallIds
  <2> QED
    BY <2>1, <2>2
<1> QED
  BY <1>7, <1>8 DEF IdsInv

\* A plan carries the id its call drew, or renews the epoch it found.
LEMMA SendCommitIds ==
  ASSUME Inv, IdsInv, NEW h \in Holders, SendCommit(h)
  PROVE  IdsInv'
<1> DEFINE c == call[h]
           q == [cmd |-> c.cmd, lease |-> Planned(h, c), condition |-> Condition(c)]
<1>1. /\ inflight' = inflight \cup {q} /\ leases' = leases /\ call' = call
      /\ pc[h] = "attempt" /\ pc' = [pc EXCEPT ![h] = "commit"]
      /\ ~PlanConflict(c) /\ ~PlanActive(h, c)
  BY DEF SendCommit
<1>2. Planning(h) /\ c.cmd \notin RowIds /\ \A p \in inflight : p.cmd # c.cmd
  BY <1>1 DEF Planning, IdsInv, CallIds
<1>3. IdFits(q)
  <2>1. CASE c.lease = c.cmd
    BY <2>1 DEF IdFits, Planned
  <2>2. CASE c.lease # c.cmd
    <3>1. c.expected \in StampType /\ c.lease = c.expected.lease
      BY <1>2, <2>2 DEF IdsInv, CallIds
    <3>2. c.expected = CurrentStamp
      BY <1>1 DEF PlanConflict
    <3>3. leases # <<>>
      BY <3>1, <3>2 DEF CurrentStamp, NoStamp, StampType
    <3>4. c.lease = Current.lease
      BY <3>1, <3>2, <3>3 DEF CurrentStamp, Stamp
    <3>5. Renews(c)
      BY <1>1, <3>3, <3>4 DEF PlanConflict
    <3>6. /\ Len(leases) \in DOMAIN leases /\ Current = leases[Len(leases)]
      BY <3>3, CurrentIsRow DEF Inv
    <3>7. q.lease.lease = Current.lease /\ q.lease.epoch = Current.epoch
      BY <3>3, <3>4, <3>5 DEF Planned
    <3> QED
      BY <3>6, <3>7 DEF IdFits
  <2> QED
    BY <2>1, <2>2
<1>4. q.cmd = c.cmd
  OBVIOUS
<1> HIDE DEF q
<1>5. RowsByEpoch'
  BY <1>1 DEF IdsInv, RowsByEpoch
<1>6. RequestIds'
  <2>1. \A p \in inflight' : p.cmd \notin RowIds /\ IdFits(p)
    BY <1>1, <1>2, <1>3, <1>4 DEF IdsInv, RequestIds
  <2>2. \A p \in inflight' : p.cmd \notin RowIds' /\ IdFits(p)'
    BY <1>1, <2>1 DEF RowIds, IdFits
  <2>3. \A p, r \in inflight' : p.cmd = r.cmd => p = r
    BY <1>1, <1>2, <1>4 DEF IdsInv, RequestIds
  <2> QED
    BY <2>2, <2>3 DEF RequestIds
<1>7. CallIds'
  <2>1. \A g \in Holders : Planning(g)' <=> Planning(g)
    BY <1>1, <1>2 DEF Planning, Inv, TypeOK
  <2>2. \A g \in Holders : pc'[g] # "commit" => g # h /\ pc[g] # "commit"
    BY <1>1 DEF Inv, TypeOK
  <2>3. \A g \in Holders : Planning(g) /\ pc'[g] # "commit" =>
          \A p \in inflight' : p.cmd # call[g].cmd
    <3>1. \A g \in Holders : Planning(g) /\ g # h => call[g].cmd # c.cmd
      BY <1>2 DEF IdsInv, CallIds
    <3> QED
      BY <1>1, <1>4, <2>2, <3>1 DEF IdsInv, CallIds
  <2> HIDE DEF c
  <2> QED
    BY <1>1, <2>1, <2>3 DEF IdsInv, CallIds, RowIds
<1> QED
  BY <1>5, <1>6, <1>7 DEF IdsInv

\* A new row brings the id of its plan into the lineage, or renews an epoch.
LEMMA CommitLeaseIds ==
  ASSUME Inv, IdsInv, CommitLease
  PROVE  IdsInv'
<1> DEFINE q == lock.request
           r == q.lease
           k == Len(leases)
<1>1. /\ leases' = Append(leases, r) /\ inflight' = inflight \ {q}
      /\ lock.by = "claim"
  BY DEF CommitLease
<1>2. q \in inflight /\ r \in LeaseType /\ TypeOK
  <2>1. q \in inflight /\ TypeOK
    BY <1>1 DEF Inv, LockOK
  <2> QED
    BY <2>1 DEF TypeOK, RequestType
<1>3. \A h \in Holders : Planning(h)' =>
        Planning(h) /\ pc'[h] = pc[h] /\ call'[h] = call[h] /\ h \notin Waiting(q)
  BY DEF CommitLease, Planning
<1> HIDE DEF q
<1>4. /\ k \in Nat /\ DOMAIN leases = 1 .. k /\ DOMAIN leases' = 1 .. (k + 1)
      /\ \A n \in DOMAIN leases : leases'[n] = leases[n]
      /\ leases'[k + 1] = r
  BY <1>1, <1>2, AppendRow
<1> HIDE DEF k, r
<1>5. q.cmd \notin RowIds /\ IdFits(q)
  BY <1>2 DEF IdsInv, RequestIds
<1>6. \A n \in DOMAIN leases : leases[n].lease = r.lease => leases[n].epoch = r.epoch
  BY <1>5 DEF IdFits, RowIds, IdsInv, RowsByEpoch, r
<1>7. RowIds' \subseteq RowIds \cup {q.cmd}
  <2>1. r.lease \in RowIds \cup {q.cmd}
    BY <1>5 DEF IdFits, RowIds, r
  <2> QED
    BY <1>4, <2>1 DEF RowIds
<1>8. RowsByEpoch'
  BY <1>4, <1>6 DEF IdsInv, RowsByEpoch
<1>9. RequestIds'
  <2>1. \A p \in inflight' : p.cmd \notin RowIds'
    BY <1>1, <1>2, <1>7 DEF IdsInv, RequestIds
  <2>2. \A p \in inflight' : IdFits(p)'
    <3> SUFFICES ASSUME NEW p \in inflight' PROVE IdFits(p)'
      OBVIOUS
    <3>1. IdFits(p)
      BY <1>1 DEF IdsInv, RequestIds
    <3> QED
      BY <1>4, <3>1 DEF IdFits
  <2> QED
    BY <1>1, <2>1, <2>2 DEF IdsInv, RequestIds
<1>10. CallIds'
  <2> SUFFICES ASSUME NEW h \in Holders, Planning(h)'
               PROVE  /\ call[h].cmd \notin RowIds'
                      /\ \/ call[h].lease = call[h].cmd
                         \/ /\ call[h].expected \in StampType
                            /\ call[h].lease = call[h].expected.lease
                      /\ pc[h] # "commit" => \A p \in inflight' : p.cmd # call[h].cmd
                      /\ \A g \in Holders :
                           Planning(g)' /\ call[g].cmd = call[h].cmd => g = h
    BY <1>3 DEF CallIds
  <2>1. Planning(h) /\ call[h].cmd \notin RowIds
    BY <1>3 DEF IdsInv, CallIds
  <2>2. call[h].cmd # q.cmd
    <3>1. CASE pc[h] = "commit"
      BY <1>3, <3>1 DEF Waiting
    <3>2. CASE pc[h] # "commit"
      BY <1>2, <2>1, <3>2 DEF IdsInv, CallIds
    <3> QED
      BY <3>1, <3>2
  <2> QED
    BY <1>1, <1>3, <1>7, <2>1, <2>2 DEF IdsInv, CallIds
<1> QED
  BY <1>8, <1>9, <1>10 DEF IdsInv

\* A refused plan is gone before its call tries again with the same id.
LEMMA ConflictCommitIds ==
  ASSUME Inv, IdsInv, NEW q \in inflight, ConflictCommit(q)
  PROVE  IdsInv'
<1>1. leases' = leases /\ inflight' = inflight \ {q}
  BY DEF ConflictCommit
<1>2. \A p \in inflight' : p.cmd # q.cmd
  BY <1>1 DEF IdsInv, RequestIds
<1>3. ASSUME NEW h \in Holders, Planning(h)'
      PROVE  /\ Planning(h)
             /\ call'[h].cmd = call[h].cmd
             /\ call'[h].lease = call[h].lease
             /\ call'[h].expected = call[h].expected
             /\ pc'[h] # "commit" =>
                  pc[h] # "commit" \/ \A p \in inflight' : p.cmd # call[h].cmd
  <2>1. CASE h \in Waiting(q)
    <3>1. pc[h] = "commit" /\ call[h].cmd = q.cmd /\ call[h] \in TimedCall
      BY <2>1 DEF Waiting, Inv, TypeOK, CallOK
    <3>2. call'[h] = [call[h] EXCEPT !.attempt = @ + 1]
      BY <1>3, <2>1 DEF ConflictCommit, Planning, Idle
    <3> QED
      BY <1>2, <3>1, <3>2 DEF Planning, TimedCall
  <2>2. CASE h \notin Waiting(q)
    <3>1. pc'[h] = pc[h] /\ call'[h] = call[h]
      BY <2>2 DEF ConflictCommit
    <3> QED
      BY <1>3, <3>1 DEF Planning
  <2> QED
    BY <2>1, <2>2
<1> QED
  BY <1>1, <1>3, IdsKept

\* The other steps draw no id and add no row and no plan.
LEMMA OtherIds ==
  ASSUME Inv, IdsInv, leases' = leases, inflight' \subseteq inflight,
         \A h \in Holders : Planning(h)' =>
           \/ pc'[h] = pc[h] /\ call'[h] = call[h]
           \/ ClaimTime(h)
  PROVE  IdsInv'
<1>1. ASSUME NEW h \in Holders, Planning(h)'
      PROVE  /\ Planning(h)
             /\ call'[h].cmd = call[h].cmd
             /\ call'[h].lease = call[h].lease
             /\ call'[h].expected = call[h].expected
             /\ pc'[h] # "commit" =>
                  pc[h] # "commit" \/ \A q \in inflight' : q.cmd # call[h].cmd
  <2>1. CASE pc'[h] = pc[h] /\ call'[h] = call[h]
    BY <1>1, <2>1 DEF Planning
  <2>2. CASE ClaimTime(h)
    <3>1. pc[h] = "claim" /\ call \in [Holders -> {NoCall} \cup LoadedCall \cup TimedCall \cup ProvenCall]
      BY <2>2 DEF ClaimTime, Inv, TypeOK
    <3>2. call'[h] = [cmd |-> call[h].cmd, lease |-> call[h].lease,
                      expected |-> call[h].expected, at |-> now, attempt |-> 1]
      BY <2>2, <3>1 DEF ClaimTime
    <3> QED
      BY <3>1, <3>2 DEF Planning
  <2> QED
    BY <1>1, <2>1, <2>2
<1> QED
  BY <1>1, IdsKept

LEMMA NextIds == Inv /\ IdsInv /\ [Next]_vars => IdsInv'
<1> SUFFICES ASSUME Inv, IdsInv, [Next]_vars PROVE IdsInv'
  OBVIOUS
<1>1. ASSUME NEW h \in Holders, StartClaim(h) PROVE IdsInv'
  BY <1>1, StartClaimIds
<1>2. ASSUME NEW h \in Holders, SendCommit(h) PROVE IdsInv'
  BY <1>2, SendCommitIds
<1>3. CASE CommitLease
  BY <1>3, CommitLeaseIds
<1>4. ASSUME NEW q \in inflight, ConflictCommit(q) PROVE IdsInv'
  BY <1>4, ConflictCommitIds
<1>5. ASSUME NEW h \in Holders, ClaimTime(h) PROVE IdsInv'
  <2>1. /\ leases' = leases /\ inflight' = inflight
        /\ \A g \in Holders \ {h} : pc'[g] = pc[g] /\ call'[g] = call[g]
    BY <1>5 DEF ClaimTime, Inv, TypeOK
  <2>2. \A g \in Holders : Planning(g)' =>
          (pc'[g] = pc[g] /\ call'[g] = call[g]) \/ ClaimTime(g)
    BY <1>5, <2>1
  <2> QED
    BY <2>1, <2>2, OtherIds
<1>6. ASSUME NEW h \in Holders, RefusePlan(h) \/ RefuseActive(h) \/ ProveLease(h)
                                \/ CallFails(h) \/ Crash(h)
      PROVE  IdsInv'
  <2>1. /\ leases' = leases /\ inflight' = inflight
        /\ pc'[h] \in {Idle, Dead}
        /\ \A g \in Holders \ {h} : pc'[g] = pc[g] /\ call'[g] = call[g]
    BY <1>6 DEF RefusePlan, RefuseActive, ProveLease, CallFails, Crash, EndCall,
                Inv, TypeOK
  <2>2. \A g \in Holders : Planning(g)' => pc'[g] = pc[g] /\ call'[g] = call[g]
    BY <2>1 DEF Planning, Idle, Dead
  <2> QED
    BY <2>1, <2>2, OtherIds
<1>7. ASSUME NEW q \in inflight, DropCommit(q) PROVE IdsInv'
  <2>1. leases' = leases /\ inflight' \subseteq inflight
    BY <1>7 DEF DropCommit
  <2>2. \A g \in Holders : Planning(g)' => pc'[g] = pc[g] /\ call'[g] = call[g]
    BY <1>7 DEF DropCommit, Planning, Idle
  <2> QED
    BY <2>1, <2>2, OtherIds
<1>8. CASE UNCHANGED <<leases, inflight, pc, call>>
  BY <1>8, OtherIds
<1> QED
  BY <1>1, <1>2, <1>3, <1>4, <1>5, <1>6, <1>7, <1>8
  DEF Next, vars, LockCommit, LockFence, CommitFenced, AbortFenced, Tick

\* No lease id comes back in a later epoch, whether it is in a row, cached, or
\* in a plan left behind by a call that failed.
THEOREM LeaseIdsNeverReturn == Spec => []LeaseIdsOnce
<1>1. Init => IdsInv
  BY DEF Init, IdsInv, RowsByEpoch, RequestIds, CallIds, Planning, RowIds, Idle
<1>2. Inv /\ IdsInv => LeaseIdsOnce
  <2> SUFFICES ASSUME Inv, IdsInv,
                      NEW q \in inflight, NEW n \in DOMAIN leases,
                      leases[n].lease = q.lease.lease
               PROVE  leases[n].epoch = q.lease.epoch
    BY DEF IdsInv, RowsByEpoch, LeaseIdsOnce
  <2>1. q.cmd \notin RowIds /\ IdFits(q)
    BY DEF IdsInv, RequestIds
  <2> QED
    BY <2>1 DEF IdFits, RowIds, IdsInv, RowsByEpoch
<1> QED
  BY <1>1, <1>2, InitInv, NextInv, NextIds, PTL DEF Spec

-----------------------------------------------------------------------------
(* The register *)

\* The lease protocol implements the register: an insert grants a new epoch
\* once the old one is over or extends the current one, a fenced commit writes
\* with the current epoch, the clock advances, and nothing else shows.
THEOREM Refinement == Spec => ImplementsRegister
<1>1. Init => Register!RInit
  BY BoundsAssumption DEF Init, Register!RInit
<1>2. Inv /\ [Next]_vars => [Register!RNext]_(Register!rvars)
  <2> SUFFICES ASSUME Inv, [Next]_vars
               PROVE  Register!RNext \/ UNCHANGED Register!rvars
    OBVIOUS
  <2>1. CASE CommitLease
    <3> DEFINE r == lock.request.lease
    <3>1. lock.by = "claim" /\ leases' = Append(leases, r) /\ TypeOK
          /\ UNCHANGED <<now, written>>
      BY <2>1 DEF CommitLease, Inv
    <3>2. /\ r \in LeaseType
          /\ r.acquired <= r.renewed /\ r.renewed <= now
          /\ r.expires = r.renewed + LeaseDuration
          /\ leases = <<>> => r.epoch = 1
          /\ leases # <<>> =>
               \/ /\ Identity(r) = Identity(Current)
                  /\ r.expires >= Current.expires
               \/ /\ r.epoch = Current.epoch + 1
                  /\ r.renewed >= Current.expires
                  /\ now >= Current.expires
      BY <3>1, CommitFits
    <3>3. leases' # <<>> /\ Current' = r
      BY <3>1, <3>2, AppendRow
    <3> HIDE DEF r
    <3>4. /\ r.renewed \in Int /\ 0 <= r.renewed /\ r.expires > r.renewed
          /\ r.holder \in Holders /\ now \in Int /\ 0 <= now
      BY <3>1, <3>2, ConfigAssumption, BoundsAssumption
      DEF LeaseType, Times, TypeOK
    <3>5. CASE leases = <<>>
      BY <3>1, <3>2, <3>3, <3>4, <3>5, ConfigAssumption
      DEF Register!RNext, Register!Grant
    <3>6. ASSUME leases # <<>>,
                 Identity(r) = Identity(Current), r.expires >= Current.expires
          PROVE  Register!Extend
      BY <3>1, <3>3, <3>4, <3>6, HoldersAssumption
      DEF Register!Extend, Identity
    <3>7. ASSUME leases # <<>>, r.epoch = Current.epoch + 1,
                 r.renewed >= Current.expires, now >= Current.expires
          PROVE  Register!Grant
      <4>1. Current.expires \in Int
        BY <3>1, <3>7, CurrentIsRow, BoundsAssumption, ConfigAssumption
        DEF LeaseType
      <4>2. r.expires > Current.expires
        BY <3>2, <3>4, <3>7, <4>1, ConfigAssumption
      <4> QED
        BY <3>1, <3>3, <3>4, <3>7, <4>1, <4>2 DEF Register!Grant
    <3> QED
      BY <3>2, <3>5, <3>6, <3>7 DEF Register!RNext
  <2>2. CASE CommitFenced
    <3>1. /\ leases # <<>> /\ lock.identity.epoch = Current.epoch
          /\ Current \in LeaseType
      BY <2>2, CurrentIsRow DEF CommitFenced, Inv, FencedIsCurrent, Identity
    <3>2. Current.holder # "nobody"
      BY <3>1, HoldersAssumption DEF LeaseType
    <3> QED
      BY <2>2, <3>1, <3>2 DEF CommitFenced, Current, Register!RNext, Register!Write
  <2>3. CASE Tick
    BY <2>3 DEF Tick, Current, Register!RNext, Register!Advance
  <2>4. CASE UNCHANGED <<now, leases, written>>
    BY <2>4 DEF Current, Register!rvars
  <2> QED
    BY <2>1, <2>2, <2>3, <2>4 DEF Next, vars, StartClaim, ClaimTime, RefusePlan,
       RefuseActive, SendCommit, ProveLease, CallFails, Crash, LockCommit,
       ConflictCommit, DropCommit, LockFence, AbortFenced
<1> QED
  BY <1>1, <1>2, Invariance, PTL DEF Spec, ImplementsRegister, Register!RSpec

-----------------------------------------------------------------------------
(* The ownership that a transaction sees *)

InForce == leases # <<>> /\ (now < Current.expires \/ Renewing)

\* A process dies only in a step of its own.
LEMMA OnlyCrashKills ==
  ASSUME TypeOK, Next, NEW g \in Holders, ~Crash(g)
  PROVE  pc'[g] = Dead <=> pc[g] = Dead
<1> USE DEF Idle, Dead
<1>1. ASSUME NEW h \in Holders,
             StartClaim(h) \/ ClaimTime(h) \/ RefusePlan(h) \/ RefuseActive(h)
               \/ SendCommit(h) \/ ProveLease(h) \/ CallFails(h) \/ Crash(h)
      PROVE  pc'[g] = Dead <=> pc[g] = Dead
  BY <1>1 DEF StartClaim, ClaimTime, RefusePlan, RefuseActive, SendCommit,
     ProveLease, CallFails, Crash, EndCall, TypeOK
<1>2. ASSUME NEW q \in inflight, ConflictCommit(q) \/ DropCommit(q)
      PROVE  pc'[g] = Dead <=> pc[g] = Dead
  BY <1>2 DEF ConflictCommit, DropCommit, Waiting
<1>3. CASE CommitLease
  BY <1>3 DEF CommitLease, Waiting
<1>4. CASE UNCHANGED pc
  BY <1>4
<1> QED
  BY <1>1, <1>2, <1>3, <1>4
  DEF Next, LockCommit, LockFence, CommitFenced, AbortFenced, Tick

\* The row that a claim inserts begins an epoch after one that is over, or
\* keeps the epoch of a renewal that found it in force.
LEMMA CommitOwns ==
  ASSUME Inv, CommitLease
  PROVE  /\ leases' # <<>> /\ Current'.holder \in Holders
         /\ \/ leases = <<>> /\ Current'.epoch = 1
            \/ /\ leases # <<>> /\ InForce
               /\ Current'.epoch = Current.epoch /\ Current'.holder = Current.holder
            \/ /\ leases # <<>> /\ ~InForce
               /\ Current'.epoch = Current.epoch + 1
<1> DEFINE r == lock.request.lease
<1>1. lock.by = "claim" /\ leases' = Append(leases, r) /\ TypeOK /\ LockOK
  BY DEF CommitLease, Inv
<1>2. r \in LeaseType /\ (leases = <<>> => r.epoch = 1)
  BY <1>1, CommitFits
<1>3. leases' # <<>> /\ Current' = r
  BY <1>1, <1>2, AppendRow
<1>4. r.holder \in Holders
  BY <1>2 DEF LeaseType
<1>5. CASE leases # <<>>
  <2>1. \/ RenewalMatches(lock.request, lock.at)
        \/ TakeoverMatches(lock.request, lock.at)
    BY <1>1, <1>5 DEF LockOK, CommitMatches
  <2>2. CASE RenewalMatches(lock.request, lock.at)
    BY <1>1, <1>3, <1>4, <1>5, <2>2 DEF RenewalMatches, InForce, Renewing, Stamp
  <2>3. CASE TakeoverMatches(lock.request, lock.at)
    <3>1. lock.at <= now /\ lock.at >= Current.expires /\ ~Renewing
      BY <1>1, <2>3 DEF LockOK, TakeoverMatches, Renewing
    <3>2. Current.expires \in Int /\ now \in Int /\ lock.at \in Int
      BY <1>1, <1>5, CurrentIsRow, BoundsAssumption, ConfigAssumption
      DEF LeaseType, TypeOK, LockType, Times, Free
    <3> QED
      BY <1>3, <1>4, <1>5, <2>3, <3>1, <3>2 DEF TakeoverMatches, InForce
  <2> QED
    BY <2>1, <2>2, <2>3
<1> QED
  BY <1>2, <1>3, <1>4, <1>5

\* No other step but the clock, the death of a transaction and the insert
\* changes what is in force.
LEMMA ForceMoves ==
  ASSUME Inv, Next, ~CommitLease
  PROVE  leases' = leases /\ (InForce' => InForce)
<1>1. leases' = leases /\ Current' = Current
  BY DEF Next, StartClaim, ClaimTime, RefusePlan, RefuseActive, SendCommit,
     ProveLease, CallFails, Crash, LockCommit, ConflictCommit, DropCommit,
     LockFence, CommitFenced, AbortFenced, Tick, Current
<1>2. ASSUME NEW q \in inflight, LockCommit(q), leases # <<>>
      PROVE  InForce' => InForce
  <2>1. CommitMatches(q, now) /\ lock' = [by |-> "claim", request |-> q, at |-> now]
        /\ now' = now
    BY <1>2 DEF LockCommit
  <2>2. CASE RenewalMatches(q, now)
    BY <1>2, <2>2 DEF RenewalMatches, Proves, InForce
  <2>3. CASE TakeoverMatches(q, now)
    BY <1>1, <2>1, <2>3 DEF TakeoverMatches, InForce, Renewing
  <2> QED
    BY <1>2, <2>1, <2>2, <2>3 DEF CommitMatches
<1>3. CASE Tick
  <2>1. leases # <<>> => Current.expires \in Int
    BY CurrentIsRow, BoundsAssumption, ConfigAssumption DEF LeaseType, Inv
  <2>2. now \in Int
    BY BoundsAssumption DEF Inv, TypeOK, Times
  <2> QED
    BY <1>1, <1>3, <2>1, <2>2 DEF Tick, InForce, Renewing
<1>4. CASE now' = now /\ (Renewing' => Renewing)
  BY <1>1, <1>4 DEF InForce
<1>5. ASSUME NEW q \in inflight, DropCommit(q)
      PROVE  now' = now /\ (Renewing' => Renewing)
  BY <1>5 DEF DropCommit, Renewing, Free
<1>6. ASSUME NEW identity \in HandedOut, LockFence(identity)
      PROVE  now' = now /\ (Renewing' => Renewing)
  BY <1>6 DEF LockFence, Renewing
<1>7. ASSUME CommitFenced \/ AbortFenced
      PROVE  now' = now /\ (Renewing' => Renewing)
  BY <1>7 DEF CommitFenced, AbortFenced, Renewing, Free
<1>8. ASSUME UNCHANGED <<now, lock>>
      PROVE  now' = now /\ (Renewing' => Renewing)
  BY <1>8 DEF Renewing
<1>9. leases = <<>> => ~InForce'
  BY <1>1 DEF InForce
<1> QED
  BY <1>1, <1>2, <1>3, <1>4, <1>5, <1>6, <1>7, <1>8, <1>9
  DEF Next, StartClaim, ClaimTime, RefusePlan, RefuseActive, SendCommit,
      ProveLease, CallFails, Crash, ConflictCommit

\* An epoch that has ended for the fences is over for good, and the next one
\* begins no sooner: the lease protocol implements the ownership on which the
\* commands of games and connections rest.
THEOREM OwnershipRefinement == Spec => ImplementsOwnership
<1> DEFINE OwnedBy == IF leases = <<>> \/ pc[Current.holder] = Dead
                        THEN "nobody" ELSE Current.holder
<1>1. Init => Owned!OInit
  BY DEF Init, Owned!OInit
<1>2. Inv /\ [Next]_vars => [Owned!ONext]_(Owned!ovars)
  <2> SUFFICES ASSUME Inv, Next PROVE Owned!ONext \/ UNCHANGED Owned!ovars
    BY DEF vars, Owned!ovars, Current, Renewing
  <2>1. CASE CommitLease
    <3>1. leases' # <<>> /\ Current'.holder \in Holders
      BY <2>1, CommitOwns
    <3>2. CASE ~InForce
      <4>1. OwnedBy' \in Holders \cup {"nobody"}
        BY <3>1
      <4>2. InForce' \in BOOLEAN
        BY DEF InForce
      <4>3. Current'.epoch = (IF leases = <<>> THEN 0 ELSE Current.epoch) + 1
        BY <2>1, <3>2, CommitOwns
      <4> QED
        BY <3>1, <3>2, <4>1, <4>2, <4>3 DEF Owned!ONext, Owned!Take, InForce
    <3>3. CASE InForce
      <4>1. /\ leases # <<>> /\ Current'.epoch = Current.epoch
            /\ Current'.holder = Current.holder
        BY <2>1, <3>3, CommitOwns DEF InForce
      <4>2. pc'[Current.holder] = Dead <=> pc[Current.holder] = Dead
        <5>1. ~Crash(Current.holder)
          BY <2>1, CurrentIsRow, <4>1 DEF CommitLease, Crash, Inv
        <5> QED
          BY <3>1, <4>1, <5>1, OnlyCrashKills DEF Inv
      <4> QED
        BY <3>1, <3>3, <4>1, <4>2
        DEF Owned!ONext, Owned!End, Owned!ovars, InForce
    <3> QED
      BY <3>2, <3>3
  <2>2. CASE ~CommitLease
    <3>1. leases' = leases /\ Current' = Current /\ (InForce' => InForce)
      BY <2>2, ForceMoves DEF Current
    <3>2. CASE leases = <<>>
      BY <3>1, <3>2 DEF Owned!ovars
    <3>3. CASE leases # <<>> /\ ~Crash(Current.holder)
      <4>1. pc'[Current.holder] = Dead <=> pc[Current.holder] = Dead
        BY <3>3, CurrentIsRow, OnlyCrashKills DEF Inv, LeaseType
      <4> QED
        BY <3>1, <3>3, <4>1 DEF Owned!ONext, Owned!End, Owned!ovars, InForce
    <3>4. CASE leases # <<>> /\ Crash(Current.holder)
      <4>1. pc'[Current.holder] = Dead /\ UNCHANGED <<now, lock>>
        BY <3>4, CurrentIsRow DEF Crash, Inv, TypeOK, LeaseType
      <4> QED
        BY <3>1, <3>4, <4>1
        DEF Owned!ONext, Owned!Orphan, Owned!ovars, InForce, Renewing
    <3> QED
      BY <3>2, <3>3, <3>4
  <2> QED
    BY <2>1, <2>2
<1> QED
  BY <1>1, <1>2, Invariance, PTL DEF Spec, ImplementsOwnership, Owned!OSpec

=============================================================================
