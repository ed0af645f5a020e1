------------------------------ MODULE Authority ------------------------------
(***************************************************************************)
(* Execution authority of one tournament (usecase/authority, the postgres  *)
(* execution/authority adapter and the fences of its consumers).           *)
(*                                                                         *)
(* Every service process runs a Controller that caches the lease it holds. *)
(* AuthorityFor serves the cached lease while it has more than RenewBefore *)
(* left, and otherwise claims: it plans a successor of the latest lease    *)
(* with a database time read earlier, and commits it in a transaction that *)
(* locks the tournament row, reads the database time again and compares    *)
(* the plan with the latest row.  The leases form an append-only lineage   *)
(* in which the row of revision n is leases[n].  Consumers carry the       *)
(* identity they were given into a transaction of their own, which locks   *)
(* the tournament row and writes only while that identity is the latest    *)
(* live lease.                                                             *)
(*                                                                         *)
(* Calls to the database may fail at any point (the context is cancelled,  *)
(* the connection breaks): a commit already sent may then still land, with *)
(* nobody waiting for its reply.  A process that crashes is gone for good: *)
(* provideExecutionAuthorityController draws a new holder id at every      *)
(* start, so a restart is another member of Holders.                       *)
(*                                                                         *)
(* A row keeps its command id only so that a repeated command finds it     *)
(* (reconcileLease).  The controller draws a command id per call, sends a  *)
(* call's next attempt only after the previous one was refused, and so     *)
(* never meets its own command recorded: rows carry no command id here and *)
(* the look-ups have no action.                                            *)
(***************************************************************************)
EXTENDS Integers, Sequences, SequencesExt, FiniteSets

CONSTANTS
  Holders,        \* Holder ids: one per service process ever started.
  Ids,            \* Command and lease ids (UUIDs) that can be drawn.
  LeaseDuration,  \* EXECUTION_AUTHORITY lease length.
  RenewBefore,    \* A cached lease this close to its end is renewed.
  ClaimAttempts,  \* claimCommitAttempts of the code.
  MaxRevision,    \* The code's math.MaxInt64: the last revision of a lineage.
  MaxTime,        \* Bound of the exploration: the clock stops here.
  MaxInFlight     \* Bound of the exploration: claims running or left behind.

ASSUME ConfigAssumption ==
  /\ LeaseDuration \in Nat /\ RenewBefore \in Nat
  /\ 0 < RenewBefore /\ RenewBefore < LeaseDuration

ASSUME BoundsAssumption ==
  /\ Ids \subseteq Nat
  /\ ClaimAttempts \in Nat \ {0} /\ MaxRevision \in Nat \ {0}
  /\ MaxTime \in Nat /\ MaxInFlight \in Nat

ASSUME HoldersAssumption == "nobody" \notin Holders

VARIABLES
  now,       \* clock_timestamp() of PostgreSQL.
  leases,    \* execution_authority_leases of the tournament, by revision.
  inflight,  \* CommitAuthority calls that reached the database.
  lock,      \* The transaction that holds the tournament row, or Free.
  pc,        \* Where each process is in AuthorityFor, or how it last ended.
  call,      \* Local variables of the call in progress.
  cached,    \* controllerLeaseState.lease of each process.
  written    \* Epoch of the last fenced write that committed.

vars == <<now, leases, inflight, lock, pc, call, cached, written>>

NoLease    == [holder |-> "none"]
NoStamp    == [epoch |-> 0]
NoCall     == [cmd |-> "none"]
Free       == [by |-> "nobody"]

-----------------------------------------------------------------------------
(* Leases *)

Stamp(l)    == [epoch |-> l.epoch, lease |-> l.lease]
Identity(l) == [epoch |-> l.epoch, lease |-> l.lease, holder |-> l.holder]

Current == IF leases = <<>> THEN NoLease ELSE leases[Len(leases)]
CurrentStamp == IF leases = <<>> THEN NoStamp ELSE Stamp(Current)

\* Lease.Proves for the lease's own identity.
Proves(l, t) == l.renewed <= t /\ t < l.expires

\* Mutant: the cached lease is served whatever its time.
CanServeAlways(h, t) == cached[h] # NoLease /\ cached[h].holder = h

CanServe(h, t) ==
  /\ cached[h] # NoLease
  /\ cached[h].holder = h
  /\ Proves(cached[h], t)
  /\ t + RenewBefore < cached[h].expires

-----------------------------------------------------------------------------
(* Ids.  A call draws a command id and, unless it renews, a lease id, both *)
(* fresh: the lease id drawn by a call is named by its command id.  An id  *)
(* nothing refers to any more is as good as a new one.                     *)

Idle == "idle"
Dead == "dead"

UsedIds ==
  { leases[n].lease : n \in DOMAIN leases }
    \cup { q.cmd : q \in inflight }
    \cup { call[h].cmd : h \in {g \in Holders : call[g] # NoCall} }

\* A lease id that is cached, carried or planned is in the lineage already, or
\* is the command id of its call.
FreshId(id) ==
  /\ id \in Ids \ UsedIds
  /\ \A other \in Ids : other < id => other \in UsedIds

-----------------------------------------------------------------------------
(* Controller.AuthorityFor and UseCase.Claim *)

\* The call returns and its locals are gone.
EndCall(h) ==
  /\ pc' = [pc EXCEPT ![h] = Idle]
  /\ call' = [call EXCEPT ![h] = NoCall]

\* claimCommand: a live lease that is still ours keeps its id.
LeaseIdFor(h, fresh) ==
  IF /\ leases # <<>> /\ cached[h] # NoLease
     /\ Current.holder = h
     /\ Stamp(Current) = Stamp(cached[h])
     /\ now < Current.expires
    THEN cached[h].lease
    ELSE fresh

\* Claims running in a process or left behind in the database.
Load == Cardinality(inflight)
  + Cardinality({h \in Holders : pc[h] \in {"claim", "attempt", "prove"}})

\* No cached lease lasts: LoadAuthority and claimCommand.  The two reads are
\* one step: a clock that moves between them only keeps the id of a lease that
\* has ended, as one that moves before ClaimTime does.
StartClaim(h) ==
  /\ pc[h] = Idle
  /\ ~CanServe(h, now)
  /\ Load < MaxInFlight
  /\ \E id \in Ids :
       /\ FreshId(id)
       /\ call' = [call EXCEPT ![h] =
            [cmd |-> id, lease |-> LeaseIdFor(h, id), expected |-> CurrentStamp]]
  /\ pc' = [pc EXCEPT ![h] = "claim"]
  /\ UNCHANGED <<now, leases, inflight, lock, cached, written>>

\* Claim reads the time once, for every attempt.
ClaimTime(h) ==
  /\ pc[h] = "claim"
  /\ call' = [call EXCEPT ![h] =
       [cmd |-> @.cmd, lease |-> @.lease, expected |-> @.expected,
        at |-> now, attempt |-> 1]]
  /\ pc' = [pc EXCEPT ![h] = "attempt"]
  /\ UNCHANGED <<now, leases, inflight, lock, cached, written>>

\* buildLease: the planned successor of the latest lease.
Renews(c) == c.at < Current.expires

Planned(h, c) ==
  [ holder   |-> h,
    lease    |-> c.lease,
    prev     |-> CurrentStamp,
    epoch    |-> IF leases = <<>> THEN 1
                 ELSE IF Renews(c) THEN Current.epoch ELSE Current.epoch + 1,
    acquired |-> IF leases # <<>> /\ Renews(c) THEN Current.acquired ELSE c.at,
    renewed  |-> c.at,
    expires  |-> c.at + LeaseDuration ]

Condition(c) ==
  [ state    |-> IF leases = <<>> THEN "absent"
                 ELSE IF Renews(c) THEN "live" ELSE "expired",
    revision |-> Len(leases),
    stamp    |-> CurrentStamp ]

\* Mutant: a new epoch may keep the lease id of the one that ended.
PlanConflictSameLease(c) ==
  \/ c.expected # CurrentStamp
  \/ leases # <<>> /\ (c.at < Current.renewed \/ Len(leases) = MaxRevision)

\* Every early return of buildLease: the planned time or the expected stamp
\* does not fit the latest lease.
PlanConflict(c) ==
  \/ c.expected # CurrentStamp
  \/ /\ leases # <<>>
     /\ \/ c.at < Current.renewed
        \/ Len(leases) = MaxRevision
        \/ ~Renews(c) /\ c.lease = Current.lease

PlanActive(h, c) ==
  /\ leases # <<>>
  /\ Renews(c)
  /\ Current.holder # h \/ Current.lease # c.lease

\* claimAttempt gives up with ErrConflict.
RefusePlan(h) ==
  /\ pc[h] = "attempt"
  /\ PlanConflict(call[h])
  /\ EndCall(h)
  /\ UNCHANGED <<now, leases, inflight, lock, cached, written>>

\* claimAttempt gives up with ErrActive, which AuthorityFor returns as
\* ErrNotOwner.
RefuseActive(h) ==
  /\ pc[h] = "attempt"
  /\ ~PlanConflict(call[h])
  /\ PlanActive(h, call[h])
  /\ EndCall(h)
  /\ UNCHANGED <<now, leases, inflight, lock, cached, written>>

\* claimAttempt sends its plan to CommitAuthority.
SendCommit(h) ==
  /\ pc[h] = "attempt"
  /\ ~PlanConflict(call[h])
  /\ ~PlanActive(h, call[h])
  /\ inflight' = inflight \cup
       {[cmd |-> call[h].cmd, lease |-> Planned(h, call[h]),
         condition |-> Condition(call[h])]}
  /\ pc' = [pc EXCEPT ![h] = "commit"]
  /\ UNCHANGED <<now, leases, lock, call, cached, written>>

\* AuthorityFor reads the time once more and keeps only a lease that still
\* proves its identity.
ProveLease(h) ==
  /\ pc[h] = "prove"
  /\ cached' = IF Proves(call[h].result, now)
                 THEN [cached EXCEPT ![h] = call[h].result]
                 ELSE cached
  /\ EndCall(h)
  /\ UNCHANGED <<now, leases, inflight, lock, written>>

\* The context of the call ends, or a database round trip fails.
CallFails(h) ==
  /\ pc[h] \notin {Idle, Dead}
  /\ EndCall(h)
  /\ UNCHANGED <<now, leases, inflight, lock, cached, written>>

-----------------------------------------------------------------------------
(* ExecutionAuthorityPostgres.commitAuthority *)

InitialMatches(q) ==
  /\ q.condition.state = "absent"
  /\ q.lease.prev = NoStamp

SuccessorMatches(q) ==
  /\ Len(leases) # MaxRevision
  /\ q.condition.revision = Len(leases)
  /\ q.condition.stamp = CurrentStamp
  /\ q.lease.prev = CurrentStamp

\* Mutant: the time read under the lock is not compared with the lease.
RenewalMatchesLate(q, t) ==
  /\ q.condition.state = "live"
  /\ q.lease.holder = Current.holder
  /\ Stamp(q.lease) = Stamp(Current)
  /\ q.lease.acquired = Current.acquired
  /\ q.lease.renewed >= Current.renewed

RenewalMatches(q, t) ==
  /\ q.condition.state = "live"
  /\ Proves(Current, t)
  /\ q.lease.holder = Current.holder
  /\ Stamp(q.lease) = Stamp(Current)
  /\ q.lease.acquired = Current.acquired
  /\ q.lease.renewed >= Current.renewed

TakeoverMatches(q, t) ==
  /\ q.condition.state = "expired"
  /\ t >= Current.expires
  /\ q.lease.lease # Current.lease
  /\ q.lease.epoch = Current.epoch + 1
  /\ q.lease.acquired = q.lease.renewed
  /\ q.lease.renewed >= Current.expires

CommitMatches(q, t) ==
  /\ Proves(q.lease, t)
  /\ IF leases = <<>>
       THEN InitialMatches(q)
       ELSE /\ SuccessorMatches(q)
            /\ RenewalMatches(q, t) \/ TakeoverMatches(q, t)

Waiting(q) ==
  {h \in Holders : pc[h] = "commit" /\ call[h].cmd = q.cmd}

\* Mutant: the plan is not compared again under the row lock.
LockCommitUnchecked(q) ==
  /\ lock = Free
  /\ lock' = [by |-> "claim", request |-> q, at |-> now]
  /\ UNCHANGED <<now, leases, inflight, pc, call, cached, written>>

\* The transaction locks the tournament row, reads the time and accepts.
LockCommit(q) ==
  /\ lock = Free
  /\ CommitMatches(q, now)
  /\ lock' = [by |-> "claim", request |-> q, at |-> now]
  /\ UNCHANGED <<now, leases, inflight, pc, call, cached, written>>

\* Mutant: the refusal never reaches the call that waits for it.
ConflictCommitSilent(q) ==
  /\ lock = Free
  /\ ~CommitMatches(q, now)
  /\ inflight' = inflight \ {q}
  /\ UNCHANGED <<now, leases, lock, pc, call, cached, written>>

\* The transaction finds the plan overtaken: ErrConflict, and the waiting
\* call tries once more with the same command and the same time.
ConflictCommit(q) ==
  /\ lock = Free
  /\ ~CommitMatches(q, now)
  /\ inflight' = inflight \ {q}
  /\ LET waiting == Waiting(q)
         again   == {h \in waiting : call[h].attempt < ClaimAttempts}
     IN /\ pc' = [h \in Holders |->
               IF h \in again THEN "attempt"
               ELSE IF h \in waiting THEN Idle ELSE pc[h]]
        /\ call' = [h \in Holders |->
               IF h \in again THEN [call[h] EXCEPT !.attempt = @ + 1]
               ELSE IF h \in waiting THEN NoCall ELSE call[h]]
  /\ UNCHANGED <<now, leases, lock, cached, written>>

\* The row is inserted and the transaction commits; a call that still waits
\* receives the lease, one that failed meanwhile never learns of it.
CommitLease ==
  /\ lock.by = "claim"
  /\ leases' = Append(leases, lock.request.lease)
  /\ inflight' = inflight \ {lock.request}
  /\ LET waiting == Waiting(lock.request)
     IN /\ pc' = [h \in Holders |-> IF h \in waiting THEN "prove" ELSE pc[h]]
        /\ call' = [h \in Holders |->
               IF h \in waiting
                 THEN [cmd |-> call[h].cmd, result |-> lock.request.lease]
                 ELSE call[h]]
  /\ lock' = Free
  /\ UNCHANGED <<now, cached, written>>

\* The database drops a commit: the transaction rolls back, and a call that
\* still waits fails.
DropCommit(q) ==
  /\ q \in inflight
  /\ inflight' = inflight \ {q}
  /\ lock' = IF lock.by = "claim" /\ lock.request = q THEN Free ELSE lock
  /\ pc' = [h \in Holders |-> IF h \in Waiting(q) THEN Idle ELSE pc[h]]
  /\ call' = [h \in Holders |-> IF h \in Waiting(q) THEN NoCall ELSE call[h]]
  /\ UNCHANGED <<now, leases, cached, written>>

-----------------------------------------------------------------------------
(* Consumers: WaveStart, pause resume, epoch replay and connection         *)
(* recovery write under the fence of the latest live lease.  AuthorityFor  *)
(* only hands out identities of rows of the lineage, and a consumer may    *)
(* carry one for as long as it likes before its transaction begins.        *)

HandedOut == {Identity(leases[n]) : n \in DOMAIN leases}

\* Mutant: the fence asks for a live lease, not for this one.
FenceAnyLease(identity) == Proves(Current, now)

Fence(identity) ==
  /\ Identity(Current) = identity
  /\ Proves(Current, now)

\* The consumer's transaction locks the tournament row and passes the fence;
\* with any other identity it fails closed and changes nothing.
LockFence(identity) ==
  /\ lock = Free
  /\ Fence(identity)
  /\ lock' = [by |-> "fence", identity |-> identity]
  /\ UNCHANGED <<now, leases, inflight, pc, call, cached, written>>

CommitFenced ==
  /\ lock.by = "fence"
  /\ written' = lock.identity.epoch
  /\ lock' = Free
  /\ UNCHANGED <<now, leases, inflight, pc, call, cached>>

AbortFenced ==
  /\ lock.by = "fence"
  /\ lock' = Free
  /\ UNCHANGED <<now, leases, inflight, pc, call, cached, written>>

-----------------------------------------------------------------------------

Tick ==
  /\ now < MaxTime
  /\ now' = now + 1
  /\ UNCHANGED <<leases, inflight, lock, pc, call, cached, written>>

\* The process dies: its memory is gone, what it sent is not.
Crash(h) ==
  /\ pc[h] # Dead
  /\ pc' = [pc EXCEPT ![h] = Dead]
  /\ call' = [call EXCEPT ![h] = NoCall]
  /\ cached' = [cached EXCEPT ![h] = NoLease]
  /\ UNCHANGED <<now, leases, inflight, lock, written>>

Init ==
  /\ now = 0
  /\ leases = <<>>
  /\ inflight = {}
  /\ lock = Free
  /\ pc = [h \in Holders |-> Idle]
  /\ call = [h \in Holders |-> NoCall]
  /\ cached = [h \in Holders |-> NoLease]
  /\ written = 0

CallStep(h) ==
  ClaimTime(h) \/ RefusePlan(h) \/ RefuseActive(h)
    \/ SendCommit(h) \/ ProveLease(h)

CommitStep(q) == LockCommit(q) \/ ConflictCommit(q)

Next ==
  \/ \E h \in Holders :
       \/ StartClaim(h) \/ ClaimTime(h)
       \/ RefusePlan(h) \/ RefuseActive(h) \/ SendCommit(h) \/ ProveLease(h)
       \/ CallFails(h) \/ Crash(h)
  \/ \E q \in inflight : LockCommit(q) \/ ConflictCommit(q) \/ DropCommit(q)
  \/ CommitLease
  \/ \E identity \in HandedOut : LockFence(identity)
  \/ CommitFenced \/ AbortFenced
  \/ Tick

Spec == Init /\ [][Next]_vars

\* A process that is running a call keeps running it, and PostgreSQL grants
\* the row lock in the order of its wait queue and ends the transaction of a
\* claim.  A consumer's transaction is the consumer's: nothing ends it.
Fairness ==
  /\ \A h \in Holders : WF_vars(CallStep(h))
  /\ \A id \in Ids : SF_vars(\E q \in inflight : q.cmd = id /\ CommitStep(q))
  /\ WF_vars(CommitLease)

FairSpec == Spec /\ Fairness

-----------------------------------------------------------------------------
(* Properties *)

Times   == 0 .. MaxTime
Epochs  == 1 .. MaxRevision

StampType == [epoch : Epochs, lease : Ids]
IdentityType == [epoch : Epochs, lease : Ids, holder : Holders]

LeaseType ==
  [ holder : Holders, lease : Ids, epoch : Epochs,
    prev : StampType \cup {NoStamp},
    acquired : Times, renewed : Times, expires : 0 .. (MaxTime + LeaseDuration) ]

ConditionType ==
  [ state : {"absent", "live", "expired"}, revision : 0 .. MaxRevision,
    stamp : StampType \cup {NoStamp} ]

RequestType == [cmd : Ids, lease : LeaseType, condition : ConditionType]

LockType ==
  {Free}
    \cup [by : {"claim"}, request : RequestType, at : Times]
    \cup [by : {"fence"}, identity : IdentityType]

\* The locals of AuthorityFor before Claim reads the time, in its attempts,
\* and once a lease came back.
LoadedCall == [cmd : Ids, lease : Ids, expected : StampType \cup {NoStamp}]
TimedCall  == [cmd : Ids, lease : Ids, expected : StampType \cup {NoStamp},
               at : Times, attempt : 1 .. ClaimAttempts]
ProvenCall == [cmd : Ids, result : LeaseType]

CallOK(h) ==
  /\ pc[h] \in {Idle, Dead} => call[h] = NoCall
  /\ pc[h] = "claim" => call[h] \in LoadedCall
  /\ pc[h] \in {"attempt", "commit"} => call[h] \in TimedCall
  /\ pc[h] = "prove" => call[h] \in ProvenCall

Points == {Idle, "claim", "attempt", "commit", "prove", Dead}

\* The state has the shape the code's types give it: bounded times, epochs
\* and ids, and the locals of exactly the call in progress.
TypeOK ==
  /\ now \in Times
  /\ leases \in Seq(LeaseType) /\ Len(leases) <= MaxRevision
  /\ inflight \subseteq RequestType
  /\ lock \in LockType
  /\ pc \in [Holders -> Points]
  /\ call \in [Holders -> {NoCall} \cup LoadedCall \cup TimedCall \cup ProvenCall]
  /\ \A h \in Holders : CallOK(h)
  /\ cached \in [Holders -> LeaseType \cup {NoLease}]
  /\ written \in 0 .. MaxRevision

\* Two rows of the lineage belong to one epoch exactly when they carry one
\* lease id, and then to one holder whose time only grows; the time of an
\* older epoch is over before a newer one is acquired.  This is what the
\* fences rest on, whatever replicas claim at once with whatever stale times.
EpochsDisjoint ==
  \A i, j \in DOMAIN leases : i < j =>
    /\ leases[i].epoch <= leases[j].epoch
    /\ leases[i].epoch = leases[j].epoch =>
         /\ Identity(leases[i]) = Identity(leases[j])
         /\ leases[i].expires <= leases[j].expires
    /\ leases[i].epoch < leases[j].epoch =>
         leases[i].expires <= leases[j].acquired

\* No lease id comes back in a later epoch, nor is one waiting in a commit
\* that could still land: an identity that lost its epoch never passes a fence
\* again.
LeaseIdsOnce ==
  /\ \A i, j \in DOMAIN leases :
       leases[i].lease = leases[j].lease => leases[i].epoch = leases[j].epoch
  /\ \A q \in inflight : \A n \in DOMAIN leases :
       leases[n].lease = q.lease.lease => leases[n].epoch = q.lease.epoch

\* Whatever a process caches and has not outlived is the identity of the
\* latest row, so AuthorityFor may serve it without asking the lineage.
CachedIsCurrent ==
  \A h \in Holders :
    cached[h] # NoLease /\ now < cached[h].expires =>
      leases # <<>> /\ Identity(cached[h]) = Identity(Current)

\* Never two processes that would both serve from their cache.
OneServer ==
  \A g, h \in Holders : CanServe(g, now) /\ CanServe(h, now) => g = h

\* A transaction that passed the fence still holds the current identity when
\* it commits, even if its lease ran out meanwhile: the row lock it holds
\* keeps a takeover out.
FencedIsCurrent ==
  lock.by = "fence" => leases # <<>> /\ lock.identity = Identity(Current)

\* Fenced writes never go back to an older epoch.
WritesFollowEpochs == [][written' >= written]_vars

(* The inductive invariant of the proofs, beyond the properties above. *)

\* A row's interval is well formed and began in the past, and its epoch is
\* at most its revision.
RowsOK ==
  \A n \in DOMAIN leases :
    /\ leases[n].epoch <= n
    /\ leases[n].acquired <= leases[n].renewed
    /\ leases[n].renewed <= now
    /\ leases[n].expires = leases[n].renewed + LeaseDuration

\* Plans on their way to the database have well-formed intervals, and a plan
\* for the first row starts epoch 1.
RequestsOK ==
  \A q \in inflight :
    /\ q.lease.acquired <= q.lease.renewed
    /\ q.lease.expires = q.lease.renewed + LeaseDuration
    /\ q.condition.state = "absent" => q.lease.epoch = 1

\* What the transaction checked under the row lock stays true until it
\* commits.
LockOK ==
  lock.by = "claim" =>
    /\ lock.request \in inflight
    /\ lock.at <= now
    /\ CommitMatches(lock.request, lock.at)

\* Leases in the memory of a process are rows of the lineage.
MemoryOK ==
  \A h \in Holders :
    /\ cached[h] # NoLease => \E n \in DOMAIN leases : cached[h] = leases[n]
    /\ pc[h] = "prove" => \E n \in DOMAIN leases : call[h].result = leases[n]

WrittenOK == written <= IF leases = <<>> THEN 0 ELSE Current.epoch

Inv ==
  /\ TypeOK
  /\ RowsOK
  /\ EpochsDisjoint
  /\ RequestsOK
  /\ LockOK
  /\ FencedIsCurrent
  /\ MemoryOK
  /\ WrittenOK

\* AuthorityFor always returns: no interleaving of claims, retries, row locks
\* and lost replies leaves a call waiting for good - unless some consumer never
\* ends its transaction.  RearmDeadline is one that may not: it waits for the
\* scheduler while it holds the row (Embraced of module Deadlines).
CallReturns ==
  \/ <>[](lock.by = "fence")
  \/ \A h \in Holders : []<>(pc[h] \in {Idle, Dead})

-----------------------------------------------------------------------------
(* The register this implements. *)

Register == INSTANCE LeaseRegister WITH
  Nobody  <- "nobody",
  clock   <- now,
  epoch   <- IF leases = <<>> THEN 0 ELSE Current.epoch,
  owner   <- IF leases = <<>> THEN "nobody" ELSE Current.holder,
  until   <- IF leases = <<>> THEN 0 ELSE Current.expires

\* Every step of the lease protocol is a step of the register or none: an
\* epoch is granted only when the previous one is over, and only the current
\* epoch writes.
ImplementsRegister == Register!RSpec

(* What a transaction that holds the tournament row can tell of it. *)

\* A renewal that found its lease in force keeps the row until it commits: no
\* fence is tried in between.
Renewing == lock.by = "claim" /\ lock.request.condition.state = "live"

Owned == INSTANCE Ownership WITH
  Nobody  <- "nobody",
  epoch   <- IF leases = <<>> THEN 0 ELSE Current.epoch,
  holder  <- IF leases = <<>> \/ pc[Current.holder] = Dead
               THEN "nobody" ELSE Current.holder,
  live    <- leases # <<>> /\ (now < Current.expires \/ Renewing)

\* An epoch that is over for the fences is over for good: no renewal that was
\* planned in time, lost on its way and committed late brings it back, and no
\* next epoch begins before.
ImplementsOwnership == Owned!OSpec
=============================================================================
