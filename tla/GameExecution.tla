---------------------------- MODULE GameExecution ----------------------------
(***************************************************************************)
(* One wave of running games: how each game's clock is started, frozen and *)
(* resumed, which ownership epoch the game is bound to, and how the        *)
(* execution recovery scan treats the games it finds when authority has    *)
(* changed hands (usecase/game/{pause,reconnect,recovery,submission},      *)
(* usecase/tournament/admin/execution and their postgres adapters).        *)
(*                                                                         *)
(* Every change of a game is one transaction that locks the tournament row *)
(* first and compares revisions, so it is one action here.  Only the scan  *)
(* reads in one transaction and writes in later ones: it has a program.    *)
(*                                                                         *)
(* Module Authority gives the meaning of auth: an epoch has one holder,    *)
(* ends before the next begins, and a fence on epoch e passes exactly      *)
(* while e is the latest epoch and its lease is live.                      *)
(*                                                                         *)
(* Left abstract: how long a reconnect interval lasts and how many a       *)
(* player has.  Its end may come at any time a player is absent, and a     *)
(* disconnect may always be the one that exhausts the budget.              *)
(*                                                                         *)
(* Time is counted in ticks, Milli of them a millisecond: PostgreSQL keeps *)
(* microseconds, while frozen_remaining_ms keeps whole milliseconds.       *)
(***************************************************************************)
EXTENDS Integers, FiniteSets, FiniteSetsExt, Functions

CONSTANTS
  Games,        \* Game attempts of the wave, by id.
  Players,      \* The two players of a game.
  Procs,        \* Service processes.
  Milli,        \* Ticks in a millisecond.
  Duration,     \* TournamentTaskDuration, in ticks.
  Tries,        \* epochReplayCommitAttempts of the code.
  MaxTime,      \* Bound of the exploration: the clock stops here.
  MaxEpoch,     \* Bound: leases from this epoch on are only lost by holders
                \* that are gone, and not while a game blocks the scans.
  MaxRenewals,  \* Bound: renewals of leases.
  MaxPauses,    \* Bound: operator pauses of the wave.
  MaxFaults     \* Bound: crashes and failed database calls.

ASSUME ClockAssumption ==
  /\ Milli \in Nat \ {0}
  /\ Duration \in Nat \ {0}
  /\ Duration % Milli = 0

ASSUME ExecutionAssumption ==
  /\ Games \subseteq Nat /\ IsFiniteSet(Games)
  /\ "gone" \notin Procs
  /\ Tries \in Nat \ {0}
  /\ MaxTime \in Nat /\ MaxEpoch \in Nat /\ MaxRenewals \in Nat
  /\ MaxPauses \in Nat /\ MaxFaults \in Nat

VARIABLES
  now,      \* clock_timestamp() of PostgreSQL.
  auth,     \* The latest row of the lease lineage.
  wave,     \* waves.state; paused is also tournaments.state technical_pause.
  started,  \* game_attempts.started_at, one time for the whole wave.
  game,     \* game_attempts with their clocks, bindings and presence.
  proc,     \* Whether a process is down, behind its startup gate, or running.
  scan,     \* The execution recovery scan of each process.
  bounds,   \* Counters of the exploration.
  hist      \* History of each game, read by properties only.

vars == <<now, auth, wave, started, game, proc, scan, bounds, hist>>

Resting == [at |-> "rest"]
NoLoad  == [try |-> 0]

\* A wave is controlled and played through a process that finished its startup.
Serving == \E p \in Procs : proc[p] = "running"

Unsettled == {g \in Games : game[g].state \in {"active", "paused"}}
Active    == {g \in Games : game[g].state = "active"}
Paused    == {g \in Games : game[g].state = "paused"}

Floor(t) == (t \div Milli) * Milli

\* LockRecoveryGameTimeout asks for the exact deadline, given the stored one.
DeadlineMatches(g) == game[g].shown = game[g].due

\* A running game whose stored deadline was cut makes every scan fail that
\* comes to replay it.
Blocked == \E g \in Active : ~DeadlineMatches(g)

\* The fence of module Authority for an identity of epoch e.
Fence(e) == auth.live /\ auth.epoch = e

-----------------------------------------------------------------------------
(* Authority, as module Authority establishes it. *)

\* The lease ends before its holder renews it.
Lapse ==
  /\ auth.live
  /\ (auth.holder = "gone" /\ ~Blocked) \/ auth.epoch < MaxEpoch
  /\ auth' = [auth EXCEPT !.live = FALSE]
  /\ UNCHANGED <<now, wave, started, game, proc, scan, bounds, hist>>

\* AuthorityFor of the holder writes a new row of the same epoch.
Renew(p) ==
  /\ proc[p] # "down"
  /\ auth.live /\ auth.holder = p
  /\ bounds.renewals < MaxRenewals
  /\ auth' = [auth EXCEPT !.revision = @ + 1]
  /\ bounds' = [bounds EXCEPT !.renewals = @ + 1]
  /\ UNCHANGED <<now, wave, started, game, proc, scan, hist>>

\* AuthorityFor of any process after the lease ended.
Claim(p) ==
  /\ proc[p] # "down"
  /\ ~auth.live
  /\ auth' = [epoch |-> auth.epoch + 1, revision |-> auth.revision + 1,
              live |-> TRUE, holder |-> p]
  /\ UNCHANGED <<now, wave, started, game, proc, scan, bounds, hist>>

-----------------------------------------------------------------------------
(* The wave: start, operator pause, operator resume.  The operator's       *)
(* identity e comes from AuthorityFor before the transaction begins, and   *)
(* its epoch may have ended meanwhile.                                     *)

StartWave(e) ==
  /\ Serving
  /\ wave = "ready"
  /\ Fence(e)
  /\ wave' = "active"
  /\ started' = now
  /\ game' = [g \in Games |->
       [game[g] EXCEPT !.state = "active", !.rev = @ + 1, !.bound = e,
                       !.due = now + Duration, !.shown = now + Duration]]
  /\ hist' = [g \in Games |-> [hist[g] EXCEPT !.ran = auth.epoch, !.how = "start"]]
  /\ UNCHANGED <<now, auth, proc, scan, bounds>>

\* Mutant: the remaining time of a game is cut to whole milliseconds.
FrozenFloor(g) == Floor(game[g].due - now)

\* Duration.Milliseconds() cuts toward zero, before the deadline and after it.
Cut(t) == IF t < 0 THEN -Floor(-t) ELSE Floor(t)

\* The operator pause keeps whole milliseconds: any rest counts as one more.
Frozen(g) ==
  LET t == game[g].due - now
  IN Cut(t) + (IF t % Milli = 0 THEN 0 ELSE Milli)

\* A game a disconnect has paused is adopted as it is.
PauseWave ==
  /\ Serving
  /\ wave = "active"
  /\ Unsettled # {}
  /\ \A g \in Active : Frozen(g) >= Milli
  /\ bounds.pauses < MaxPauses
  /\ wave' = "paused"
  /\ game' = [g \in Games |->
       IF g \in Active
         THEN [game[g] EXCEPT !.state = "paused", !.by = "operator",
                              !.rev = @ + 1, !.left = Frozen(g)]
         ELSE game[g]]
  /\ hist' = [g \in Games |->
       IF g \in Active THEN [hist[g] EXCEPT !.pauses = @ + 1] ELSE hist[g]]
  /\ bounds' = [bounds EXCEPT !.pauses = @ + 1]
  /\ UNCHANGED <<now, auth, started, proc, scan>>

\* The clock of a resumed game: exact, and as resumed_deadline stores it.
Resumed(g) ==
  [game[g] EXCEPT !.state = "active", !.by = "none", !.rev = @ + 1,
                  !.due = now + game[g].left,
                  !.shown = now + Floor(game[g].left)]

\* The last reconnect receipt of a game no longer tells its clock once an
\* operator pause has frozen and resumed it.
AfterOperator(g) ==
  IF game[g].by = "operator" /\ game[g].receipt = "current"
    THEN "stale" ELSE game[g].receipt

\* Mutant: adopted games are left to the pause that froze them.
ConnectedOwn == {g \in Paused : game[g].gone = {} /\ game[g].by = "operator"}

\* Games a resume sets running, and games that have to wait for a player.
Connected == {g \in Paused : game[g].gone = {}}
Absent    == {g \in Paused : game[g].gone # {}}

\* Mutant: the resume only asks for an identity once held.
ResumeFence(e) == e <= auth.epoch

\* The fence of RebindNormalPauseWave, which runs when a game becomes active.
RebindFence(e) == Connected # {} => Fence(e)

\* Connected games run again under e; at most one game may have to wait for
\* its players, and stays paused for their disconnect.
ResumeWave(e) ==
  /\ Serving
  /\ wave = "paused"
  /\ Cardinality(Absent) <= 1
  /\ RebindFence(e)
  /\ wave' = "active"
  /\ game' = [g \in Games |->
       IF g \in Connected
         THEN [Resumed(g) EXCEPT !.bound = e, !.receipt = AfterOperator(g)]
         ELSE IF g \in Absent THEN [game[g] EXCEPT !.by = "disconnect"]
         ELSE game[g]]
  /\ hist' = [g \in Games |->
       IF g \in Connected
         THEN [hist[g] EXCEPT !.ran = auth.epoch, !.how = "operator"]
         ELSE hist[g]]
  /\ UNCHANGED <<now, auth, started, proc, scan, bounds>>

\* Players come and go while the wave is paused: presence only.
GoneWhilePaused(g, m) ==
  /\ Serving
  /\ wave = "paused" /\ g \in Paused
  /\ m \notin game[g].gone /\ now > game[g].seen
  /\ game' = [game EXCEPT ![g].gone = @ \cup {m}, ![g].seen = now]
  /\ UNCHANGED <<now, auth, wave, started, proc, scan, bounds, hist>>

BackWhilePaused(g, m) ==
  /\ Serving
  /\ wave = "paused" /\ g \in Paused
  /\ m \in game[g].gone /\ now > game[g].seen
  /\ game' = [game EXCEPT ![g].gone = @ \ {m}, ![g].seen = now]
  /\ UNCHANGED <<now, auth, wave, started, proc, scan, bounds, hist>>

-----------------------------------------------------------------------------
(* Players: disconnect, reconnect, the end of a reconnect interval, flags. *)

\* A game ends, whatever the reason.
Settled(g, outcome) ==
  [game[g] EXCEPT !.state = "settled", !.by = "none", !.rev = @ + 1,
                  !.outcome = outcome]

\* What loadTournamentReconnectAuthority and freezeReconnectClock ask of a
\* running game: the clock of its last reconnect receipt is still the latest
\* one, and a whole millisecond is left.
Freezable(g) ==
  /\ game[g].receipt # "stale"
  /\ Floor(game[g].due - now) >= Milli

\* The clock of a game a disconnect pauses: exactly what is left of it.
Interrupted(g, m) ==
  [game[g] EXCEPT !.state = "paused", !.by = "disconnect", !.rev = @ + 1,
                  !.left = game[g].due - now, !.receipt = "none",
                  !.gone = {m}, !.seen = now]

\* Presence and clock timestamps must advance with every change of a player.
Disconnect(g, m) ==
  /\ Serving
  /\ wave = "active"
  /\ m \notin game[g].gone /\ now > game[g].seen
  /\ \/ /\ g \in Active
        /\ Freezable(g)
        /\ game' = [game EXCEPT ![g] = Interrupted(g, m)]
     \/ /\ g \in Paused
        /\ game' = [game EXCEPT ![g].gone = @ \cup {m}, ![g].seen = now,
                                ![g].receipt = "none"]
  /\ UNCHANGED <<now, auth, wave, started, proc, scan, bounds, hist>>

\* The disconnect that exceeds the budget: the opponent wins if connected,
\* otherwise the game is replayed.
LastDisconnect(g, m) ==
  /\ Serving
  /\ wave = "active"
  /\ g \in Unsettled
  /\ m \notin game[g].gone /\ now > game[g].seen
  /\ g \in Active => Freezable(g)
  /\ game' = [game EXCEPT ![g] =
       Settled(g, IF game[g].gone = {} THEN "forfeit" ELSE "replay")]
  /\ UNCHANGED <<now, auth, wave, started, proc, scan, bounds, hist>>

\* The last player to come back starts the clock again.  The game keeps the
\* epoch it was bound to.
Reconnect(g, m) ==
  /\ Serving
  /\ wave = "active"
  /\ g \in Paused
  /\ game[g].gone = {m} /\ now > game[g].seen
  /\ game' = [game EXCEPT ![g] =
       [Resumed(g) EXCEPT !.gone = {}, !.receipt = "current", !.seen = now]]
  /\ hist' = [hist EXCEPT ![g].ran = auth.epoch, ![g].how = "reconnect"]
  /\ UNCHANGED <<now, auth, wave, started, proc, scan, bounds>>

\* With the opponent away the game stays paused, or the opponent forfeits an
\* interval that is already over.
ReconnectAlone(g, m) ==
  /\ Serving
  /\ wave = "active"
  /\ g \in Paused
  /\ m \in game[g].gone /\ game[g].gone # {m} /\ now > game[g].seen
  /\ \/ game' = [game EXCEPT ![g].gone = @ \ {m}, ![g].seen = now,
                             ![g].receipt = "none"]
     \/ game' = [game EXCEPT ![g] = Settled(g, "forfeit")]
  /\ UNCHANGED <<now, auth, wave, started, proc, scan, bounds, hist>>

\* A reconnect interval ends: the absent player forfeits to a connected
\* opponent, and the game is replayed when both are away for good.
ExpireReconnect(g) ==
  /\ Serving
  /\ wave = "active"
  /\ g \in Paused /\ game[g].gone # {}
  /\ game' = [game EXCEPT ![g] =
       Settled(g, IF game[g].gone = Players THEN "replay" ELSE "forfeit")]
  /\ UNCHANGED <<now, auth, wave, started, proc, scan, bounds, hist>>

\* Submissions close TournamentTaskDuration after the start of the game.
SubmissionDeadline == started + Duration

AcceptsFlag(g) ==
  /\ g \in Active
  /\ now < SubmissionDeadline

\* The right flag: submission and settlement are one transaction.
Solve(g) ==
  /\ Serving
  /\ wave = "active"
  /\ AcceptsFlag(g)
  /\ game' = [game EXCEPT ![g] = Settled(g, "solved")]
  /\ UNCHANGED <<now, auth, wave, started, proc, scan, bounds, hist>>

\* A deadline handler of any process, with the current revision and deadline.
Timeout(g) ==
  /\ \E p \in Procs : proc[p] # "down"
  /\ wave = "active"
  /\ g \in Active
  /\ game[g].due <= now
  /\ game' = [game EXCEPT ![g] = Settled(g, "timeout")]
  /\ UNCHANGED <<now, auth, wave, started, proc, scan, bounds, hist>>

-----------------------------------------------------------------------------
(* The execution recovery scan: RecoveryRunner.runScan and Recoverer.      *)
(* The first scan of a process is its startup gate.                        *)

\* The scan ends well: a starting process opens, a running one waits.
Passed(p) ==
  /\ proc' = [proc EXCEPT ![p] = "running"]
  /\ scan' = [scan EXCEPT ![p] = Resting]
  /\ UNCHANGED auth

\* The scan ends with an error: a starting process exits, and whatever lease
\* it took is left to run out.
Failed(p) ==
  /\ proc' = [proc EXCEPT ![p] = IF @ = "starting" THEN "down" ELSE @]
  /\ scan' = [scan EXCEPT ![p] = Resting]
  /\ auth' = IF proc[p] = "starting" /\ auth.holder = p
               THEN [auth EXCEPT !.holder = "gone"] ELSE auth

\* RecoveryAuthorityFor: another process owns the execution, or no game of
\* a Swiss tournament is left to recover.
ScanNothing(p) ==
  /\ proc[p] # "down" /\ scan[p] = Resting
  /\ \/ auth.live /\ auth.holder # p
     \/ wave # "active" \/ Unsettled = {}
  /\ Passed(p)
  /\ UNCHANGED <<now, wave, started, game, bounds, hist>>

\* RecoveryAuthorityFor: this process owns it.
ScanOwned(p) ==
  /\ proc[p] # "down" /\ scan[p] = Resting
  /\ wave = "active" /\ Unsettled # {}
  /\ auth.live /\ auth.holder = p
  /\ scan' = [scan EXCEPT ![p] = [at |-> "list", epoch |-> auth.epoch]]
  /\ UNCHANGED <<now, auth, wave, started, game, proc, bounds, hist>>

\* Mutant: the deadline of the start is listed, whatever the pauses moved.
CandidateUnresumed(g) ==
  [state |-> game[g].state, rev |-> game[g].rev,
   bound |-> game[g].bound, due |-> started + Duration]

\* A row of ListExecutionRecoveryGames: the deadline is the stored one.
Candidate(g) ==
  [state |-> game[g].state, rev |-> game[g].rev,
   bound |-> game[g].bound, due |-> game[g].shown]

\* ListActiveGames: nothing is listed under a lease that was lost, or while
\* the tournament is paused.
ListGames(p) ==
  /\ scan[p].at = "list"
  /\ LET listed == IF Fence(scan[p].epoch) /\ wave = "active"
                     THEN Unsettled ELSE {}
     IN scan' = [scan EXCEPT ![p] =
          [at |-> "work", epoch |-> @.epoch, lease |-> auth.revision,
           todo |-> [g \in listed |-> Candidate(g)], load |-> NoLoad]]
  /\ UNCHANGED <<now, auth, wave, started, game, proc, bounds, hist>>

\* loadAuthorityAt finds the lease lost.
ListRefused(p) ==
  /\ scan[p].at = "list"
  /\ ~Fence(scan[p].epoch)
  /\ Failed(p)
  /\ UNCHANGED <<now, wave, started, game, bounds, hist>>

Todo(p) == IF scan[p].at = "work" THEN DOMAIN scan[p].todo ELSE {}

\* The candidate the scan is at, in the order of attempt ids.
At(p, g) == g \in Todo(p) /\ \A h \in Todo(p) : g <= h

Handled(p, g) ==
  scan' = [scan EXCEPT ![p].todo = Restrict(@, Todo(p) \ {g}), ![p].load = NoLoad]

ScanDone(p) ==
  /\ scan[p].at = "work" /\ Todo(p) = {}
  /\ Passed(p)
  /\ UNCHANGED <<now, wave, started, game, bounds, hist>>

\* A paused game has no live deadline: it is only counted.
CountPaused(p, g) ==
  /\ At(p, g)
  /\ scan[p].todo[g].state = "paused"
  /\ Handled(p, g)
  /\ UNCHANGED <<now, auth, wave, started, game, proc, bounds, hist>>

\* LockExecutionEpochReplayFence finds the game running under a live lease.
FenceRow(g) == g \in Active /\ wave = "active" /\ auth.live

Rearms(p, g) ==
  /\ At(p, g)
  /\ scan[p].todo[g].state = "active"
  /\ scan[p].todo[g].bound = scan[p].epoch

\* RearmDeadline, for a game of this epoch: everything is as it was listed.
RearmMatches(p, g) ==
  /\ FenceRow(g)
  /\ auth.epoch = scan[p].epoch
  /\ game[g].bound = scan[p].epoch
  /\ game[g].shown = scan[p].todo[g].due

\* The row matches, and its deadline goes to the scheduler.
Rearming(p, g) == Rearms(p, g) /\ RearmMatches(p, g)

Rearm(p, g) ==
  /\ Rearming(p, g)
  /\ Handled(p, g)
  /\ UNCHANGED <<now, auth, wave, started, game, proc, bounds, hist>>

RearmRefused(p, g) ==
  /\ Rearms(p, g)
  /\ ~RearmMatches(p, g)
  /\ Failed(p)
  /\ UNCHANGED <<now, wave, started, game, bounds, hist>>

\* Any other running game was left behind by an epoch that is over.
Replays(p, g) ==
  /\ At(p, g)
  /\ scan[p].todo[g].state = "active"
  /\ scan[p].todo[g].bound # scan[p].epoch

\* FindEpochReplay: the game was replayed already for the same broken epoch.
ReplayStored(p, g) ==
  game[g].outcome = "broken" /\ game[g].bound = scan[p].todo[g].bound

ReplayKnown(p, g) ==
  /\ Replays(p, g)
  /\ ReplayStored(p, g)
  /\ Handled(p, g)
  /\ UNCHANGED <<now, auth, wave, started, game, proc, bounds, hist>>

\* Mutant: the game must be bound to the current epoch, not to the broken one.
LoadMatchesCurrent(p, g) ==
  /\ FenceRow(g)
  /\ DeadlineMatches(g)
  /\ auth.epoch = scan[p].epoch
  /\ game[g].bound = scan[p].epoch

\* LoadEpochReplayAuthority and buildEpochReplayCommit, for a lease that was
\* in force at replayedAt.
LoadMatches(p, g) ==
  /\ FenceRow(g)
  /\ DeadlineMatches(g)
  /\ auth.epoch = scan[p].epoch
  /\ game[g].bound = scan[p].todo[g].bound

ReplayLoad(p, g) ==
  /\ Replays(p, g) /\ ~ReplayStored(p, g)
  /\ scan[p].load.try < Tries
  /\ "rev" \notin DOMAIN scan[p].load
  /\ LoadMatches(p, g)
  /\ scan' = [scan EXCEPT ![p].load =
       [try |-> @.try + 1, rev |-> game[g].rev, lease |-> auth.revision]]
  /\ UNCHANGED <<now, auth, wave, started, game, proc, bounds, hist>>

\* replayedAt is read once, before the first attempt: a lease row that was
\* written since may begin after it, and then proves nothing at that time.
MayPredate(p) == auth.revision # scan[p].lease

LoadRefused(p, g) ==
  /\ Replays(p, g) /\ ~ReplayStored(p, g)
  /\ "rev" \notin DOMAIN scan[p].load
  /\ ~LoadMatches(p, g) \/ MayPredate(p) \/ scan[p].load.try = Tries
  /\ Failed(p)
  /\ UNCHANGED <<now, wave, started, game, bounds, hist>>

\* Mutant: the commit compares the authority but not the revision of the game.
CommitMatchesLease(p, g) ==
  /\ auth.live /\ wave = "active"
  /\ auth.epoch = scan[p].epoch
  /\ auth.revision = scan[p].load.lease
  /\ game[g].bound = scan[p].todo[g].bound

\* executionRecoveryFence.matches.
CommitMatches(p, g) ==
  /\ FenceRow(g)
  /\ auth.epoch = scan[p].epoch
  /\ auth.revision = scan[p].load.lease
  /\ game[g].bound = scan[p].todo[g].bound
  /\ game[g].rev = scan[p].load.rev

\* CommitEpochReplay settles the game as broken by the epoch change.
ReplayCommit(p, g) ==
  /\ Replays(p, g) /\ ~ReplayStored(p, g)
  /\ "rev" \in DOMAIN scan[p].load
  /\ CommitMatches(p, g)
  /\ game' = [game EXCEPT ![g] = Settled(g, "broken")]
  /\ Handled(p, g)
  /\ UNCHANGED <<now, auth, wave, started, proc, bounds, hist>>

\* ErrConflict: the game is loaded once more, if a try is left.
ReplayConflict(p, g) ==
  /\ Replays(p, g) /\ ~ReplayStored(p, g)
  /\ "rev" \in DOMAIN scan[p].load
  /\ ~CommitMatches(p, g)
  /\ scan' = [scan EXCEPT ![p].load = [try |-> @.try]]
  /\ UNCHANGED <<now, auth, wave, started, game, proc, bounds, hist>>

-----------------------------------------------------------------------------
(* Processes and time *)

\* A new process starts, with a holder id no lease has seen.
StartProcess(p) ==
  /\ proc[p] = "down"
  /\ proc' = [proc EXCEPT ![p] = "starting"]
  /\ UNCHANGED <<now, auth, wave, started, game, scan, bounds, hist>>

\* The process dies; its lease runs out by itself.
Crash(p) ==
  /\ proc[p] # "down"
  /\ bounds.faults < MaxFaults
  /\ bounds' = [bounds EXCEPT !.faults = @ + 1]
  /\ proc' = [proc EXCEPT ![p] = "down"]
  /\ scan' = [scan EXCEPT ![p] = Resting]
  /\ auth' = IF auth.holder = p THEN [auth EXCEPT !.holder = "gone"] ELSE auth
  /\ UNCHANGED <<now, wave, started, game, hist>>

\* A database call of the scan fails, or its context ends.
ScanBreaks(p) ==
  /\ scan[p] # Resting
  /\ bounds.faults < MaxFaults
  /\ bounds' = [bounds EXCEPT !.faults = @ + 1]
  /\ Failed(p)
  /\ UNCHANGED <<now, wave, started, game, hist>>

\* Running games are played until they are due.
Tick ==
  /\ now < MaxTime
  /\ now' = now + 1
  /\ hist' = [g \in Games |->
       IF g \in Active /\ now < game[g].due
         THEN [hist[g] EXCEPT !.played = @ + 1]
         ELSE hist[g]]
  /\ UNCHANGED <<auth, wave, started, game, proc, scan, bounds>>

Init ==
  /\ now = 0
  /\ auth = [epoch |-> 0, revision |-> 0, live |-> FALSE, holder |-> "gone"]
  /\ wave = "ready"
  /\ started = 0
  /\ game = [g \in Games |->
       [state |-> "ready", by |-> "none", rev |-> 1, bound |-> 0, due |-> 0,
        shown |-> 0, left |-> 0, gone |-> {}, seen |-> 0,
        receipt |-> "none", outcome |-> "none"]]
  /\ proc = [p \in Procs |-> "down"]
  /\ scan = [p \in Procs |-> Resting]
  /\ bounds = [renewals |-> 0, pauses |-> 0, faults |-> 0]
  /\ hist = [g \in Games |->
       [played |-> 0, pauses |-> 0, ran |-> 0, how |-> "none"]]

ScanGame(p, g) ==
  \/ CountPaused(p, g) \/ Rearm(p, g) \/ RearmRefused(p, g)
  \/ ReplayKnown(p, g) \/ ReplayLoad(p, g) \/ LoadRefused(p, g)
  \/ ReplayCommit(p, g) \/ ReplayConflict(p, g)

ScanStep(p) ==
  \/ ScanNothing(p) \/ ScanOwned(p) \/ ListGames(p) \/ ListRefused(p)
  \/ \E g \in Games : ScanGame(p, g)
  \/ ScanDone(p)

PlayerStep(g, m) ==
  \/ GoneWhilePaused(g, m) \/ BackWhilePaused(g, m)
  \/ Disconnect(g, m) \/ LastDisconnect(g, m)
  \/ Reconnect(g, m) \/ ReconnectAlone(g, m)

Next ==
  \/ Lapse
  \/ \E p \in Procs :
       Renew(p) \/ Claim(p) \/ StartProcess(p) \/ Crash(p)
         \/ ScanStep(p) \/ ScanBreaks(p)
  \/ \E e \in 1 .. auth.epoch : StartWave(e) \/ ResumeWave(e)
  \/ PauseWave
  \/ \E g \in Games :
       \/ \E m \in Players : PlayerStep(g, m)
       \/ ExpireReconnect(g) \/ Solve(g) \/ Timeout(g)
  \/ Tick

Spec == Init /\ [][Next]_vars

\* A step of the scan other than the call of the scheduler in RearmDeadline,
\* whose answer may not come.
ScanMove(p) == ScanStep(p) /\ ~\E g \in Games : Rearming(p, g)

\* Processes are restarted, a lease nobody renews ends, a process that needs
\* authority claims it, and a scan that can go on does, once per interval.
Fairness ==
  /\ WF_vars(Lapse /\ auth.holder = "gone")
  /\ \A p \in Procs :
       /\ WF_vars(StartProcess(p))
       /\ WF_vars(Claim(p))
       /\ WF_vars(ScanMove(p))

FairSpec == Spec /\ Fairness

-----------------------------------------------------------------------------
(* Properties *)

Times  == 0 .. MaxTime
Clocks == 0 .. (MaxTime + Duration + Milli * MaxPauses)

GameType ==
  [ state : {"ready", "active", "paused", "settled"},
    by : {"none", "operator", "disconnect"}, rev : Nat, bound : Nat,
    due : Clocks, shown : Clocks, left : Clocks, gone : SUBSET Players,
    seen : Times, receipt : {"none", "current", "stale"},
    outcome : {"none", "solved", "timeout", "forfeit", "replay", "broken"} ]

\* The state has the shape of the rows and locals it stands for.
TypeOK ==
  /\ now \in Times /\ started \in Times
  /\ auth \in [epoch : Nat, revision : Nat, live : BOOLEAN,
               holder : Procs \cup {"gone"}]
  /\ wave \in {"ready", "active", "paused"}
  /\ game \in [Games -> GameType]
  /\ proc \in [Procs -> {"down", "starting", "running"}]
  /\ \A p \in Procs : scan[p].at \in {"rest", "list", "work"}
  /\ bounds.renewals \in 0 .. MaxRenewals
  /\ bounds.pauses \in 0 .. MaxPauses /\ bounds.faults \in 0 .. MaxFaults
  /\ hist \in [Games -> [played : Times, pauses : 0 .. MaxPauses, ran : Nat,
                         how : {"none", "start", "operator", "reconnect"}]]

\* Time a game may still be played: what its clock says, running or frozen.
Rest(g) ==
  IF g \in Active THEN Max({0, game[g].due - now}) ELSE game[g].left

\* Through every sequence of disconnects, operator pauses and resumes, played
\* time and the time left add up to the full task duration: no pause takes
\* time from the players, and each operator pause gives them at most one
\* millisecond.  A game that timed out was played to the end.
TimeKept ==
  \A g \in Games :
    /\ g \in Unsettled =>
         /\ Rest(g) >= Duration - hist[g].played
         /\ Rest(g) <= Duration - hist[g].played + hist[g].pauses * Milli
    /\ game[g].outcome = "timeout" => hist[g].played >= Duration

\* Nothing runs in a paused wave, and in a running wave a game only waits for
\* a player who is away: no resume leaves a game behind.
NobodyWaits ==
  \A g \in Games :
    /\ g \in Active => wave = "active" /\ game[g].gone = {}
    /\ g \in Paused /\ wave = "active" => game[g].gone # {}

\* A settled game keeps its outcome, whatever handlers, scans and players
\* still hold an older state of it.
SettledOnce ==
  [][\A g \in Games :
       game[g].state = "settled" => game'[g] = game[g]]_vars

\* A game is given up as broken only after authority changed hands while it
\* was bound to the old owner: never in the epoch in which the operator
\* started or resumed it.
Broken(g) == game[g].state = "active" /\ game'[g].outcome = "broken"

BindingProtects ==
  [][\A g \in Games :
       Broken(g) => hist[g].how = "reconnect" \/ hist[g].ran < auth.epoch]_vars

\* Since the scan listed the game something has moved: a lease row, the wave,
\* or the game itself.
Moved(p, g) ==
  \/ auth.revision # scan[p].lease \/ ~auth.live
  \/ wave # "active"
  \/ game[g].rev # scan[p].todo[g].rev

\* A scan of the owner fails only if something moved after it listed the game.
\* There is one exception: the replay of a game whose stored deadline was cut
\* to whole milliseconds is refused with nothing moved, at every scan (what
\* RestartSurvives finds).
ScanFailsByRaceOnly ==
  [][\A p \in Procs : \A g \in Games :
       /\ RearmRefused(p, g) => Moved(p, g)
       /\ LoadRefused(p, g) => Moved(p, g) \/ ~DeadlineMatches(g)]_vars

Owned == INSTANCE Ownership WITH
  Holders <- Procs,
  Nobody  <- "gone",
  epoch   <- auth.epoch,
  holder  <- auth.holder,
  live    <- auth.live

\* Nothing a scan, an operator or a player does changes the authority but in
\* the ways that module Authority allows: a scan that fails at startup leaves
\* its epoch to run out, and no process takes an epoch over that has not ended.
FollowsOwnership == Owned!OSpec

\* A running game that an ended epoch left behind.
Orphan(g) == g \in Active /\ game[g].bound < auth.epoch

\* A running game that an ended epoch left behind does not stay so: it is
\* settled, paused or rebound, through crashes, lost leases and failed scans.
\* The code has two ways out of this: a game whose stored deadline was cut
\* stops the scans (Blocked), and a scan may stay in RearmDeadline for good,
\* which waits for the scheduler (Embraced of module Deadlines).
OrphansEnd ==
  \/ \E p \in Procs : <>[](\E g \in Games : Rearming(p, g))
  \/ \A g \in Games : []<>(Blocked \/ ~Orphan(g))

(* What the repository says and the code does not do. *)

\* A normal restart does not turn a technical pause into a failure of startup:
\* the first scan of a process only fails if something moved while it ran.
RestartSurvives ==
  [][\A p \in Procs : \A g \in Games :
       /\ proc[p] = "starting"
       /\ RearmRefused(p, g) \/ LoadRefused(p, g)
       => Moved(p, g)]_vars
=============================================================================
