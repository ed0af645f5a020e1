------------------------------ MODULE Presence ------------------------------
(***************************************************************************)
(* The participants of one wave: their connections, their readiness and   *)
(* what becomes of both when they leave.                                   *)
(*                                                                         *)
(* A socket has two durable traces.  Its subscriber row is opened before  *)
(* the participant is connected, and outlives the socket: the connection   *)
(* that resumes it takes the row over under a new fence.  Its lease is     *)
(* stamped with the execution authority of the process that serves it.    *)
(* A participant is counted present by the active leases that still hold  *)
(* their row; when the last of them is closed, the same transaction clears *)
(* the participant's readiness or pauses the game.                         *)
(*                                                                         *)
(* A lease survives the crash of its process.  The reaper of another one  *)
(* closes it once the authority it is stamped with has run out.           *)
(*                                                                         *)
(* Each command locks the tournament and reads the clock under the lock,  *)
(* so it is one action.  Operator pauses and what happens inside a game    *)
(* belong to GameExecution; here a game only starts, is paused by a        *)
(* participant who leaves, resumed by one who returns in time, and ends.   *)
(* How long a reconnect interval lasts is left open.                       *)
(***************************************************************************)
EXTENDS Integers, FiniteSets

CONSTANTS
  Members,    \* The members of the wave.
  Pairs,      \* The pairs that play a series in it; a bye is in no pair.
  Sockets,    \* Connections, numbered in the order in which they are reaped.
  Owner,      \* The participant of each socket.
  Processes,  \* Service processes.
  Window,     \* ReadyWindowDuration.
  Horizon,    \* Bound on the clock.
  MaxFaults   \* Bound on crashes, slow renewals and failed transactions.

ASSUME PresenceAssumption ==
  /\ Pairs \subseteq SUBSET Members
  /\ \A pair \in Pairs : Cardinality(pair) = 2
  /\ \A p, q \in Pairs : p # q => p \cap q = {}
  /\ Sockets \subseteq Nat
  /\ Owner \in [Sockets -> Members]
  /\ "none" \notin Processes
  /\ Window \in Nat \ {0}
  /\ Horizon \in Nat /\ MaxFaults \in Nat

NoOne == "none"

VARIABLES
  now,        \* The clock.
  wave,       \* Durable: the state of the wave and of its ready window.
  deadline,   \* Durable: the deadline of the ready window.
  ready,      \* Durable: the members marked ready.
  settled,    \* Durable: the pairs whose series is over.
  winners,    \* Durable: the members who won a series by a no-show.
  away,       \* Durable: the members with an open reconnect interval.
  overdue,    \* Those of them whose interval's deadline has passed.
  authority,  \* Durable: holder and epoch of the authority; is it in force?
  up,         \* The processes that run.
  socket,     \* The handler of each connection.
  host,       \* The process that serves each connection, while it does.
  rows,       \* Durable: the sockets whose fence is on their subscriber row.
  stamp,      \* Durable: the epoch on each active lease, 0 if there is none.
  punctual,   \* History: the members ready when the deadline passed.
  faults      \* Bound: the faults so far.

match == <<wave, deadline, ready, settled, winners, away, overdue>>
sockets == <<socket, host, rows, stamp>>
vars == <<now, match, authority, up, sockets, punctual, faults>>

----------------------------------------------------------------------------
(* Readiness.                                                               *)

WindowOpen == wave \in {"ready_window_open", "ready"}
Late == now > deadline

\* Mutant: the wave stays ready when a member is not ready any more.
MarkedOnly(members) ==
  /\ ready' = members
  /\ wave' = IF members = Members THEN "ready" ELSE wave

\* MarkReady and clearParticipantReadiness: the wave is ready while every
\* member is.
Marked(members) ==
  /\ ready' = members
  /\ wave' = IF members = Members THEN "ready" ELSE "ready_window_open"

\* SetParticipantReady: a member's own command, with or without a socket.
SetReady(m) ==
  /\ WindowOpen /\ ~Late
  /\ Marked(ready \cup {m}) \/ Marked(ready \ {m})
  /\ UNCHANGED <<now, deadline, settled, winners, away, overdue, authority, up,
                 sockets, punctual, faults>>

\* The operator's commands.

OpenWindow ==
  /\ wave = "planned"
  /\ wave' = "ready_window_open"
  /\ deadline' = now + Window
  /\ UNCHANGED <<now, ready, settled, winners, away, overdue, authority, up,
                 sockets, punctual, faults>>

\* AuthorityFor: a process has the authority, or takes it over if it is not
\* in force.
MayAct(h) == h \in up /\ (authority.live => authority.holder = h)

Resolved(h) ==
  IF authority.live THEN authority
  ELSE [holder |-> h, epoch |-> authority.epoch + 1, live |-> TRUE]

Start(h) ==
  /\ MayAct(h)
  /\ wave = "ready" /\ ~Late
  /\ wave' = "active"
  /\ authority' = Resolved(h)
  /\ UNCHANGED <<now, deadline, ready, settled, winners, away, overdue, up,
                 sockets, punctual, faults>>

\* ResolveNoShow: after the deadline, a pair that was not ready loses its
\* series, or the one of them that was ready wins it.  The window of the whole
\* wave expires with it, so one pair of a wave can be resolved in this way.
ResolveNoShow(pair) ==
  /\ wave = "ready_window_open" /\ Late
  /\ ~(pair \subseteq ready)
  /\ wave' = "ready_window_expired"
  /\ ready' = {}
  /\ settled' = settled \cup {pair}
  /\ winners' = winners \cup (pair \cap ready)
  /\ UNCHANGED <<now, deadline, away, overdue, authority, up, sockets, punctual,
                 faults>>

----------------------------------------------------------------------------
(* What becomes of a participant who comes or goes.                         *)

Active == {s \in Sockets : stamp[s] > 0}

\* CountParticipantConnectionLeases.
Counted(m, leases) == {s \in leases \cap rows : Owner[s] = m}

\* Mutant: the participant's other connections are not looked at.
LastAlways(s) == s \in rows

\* The socket still holds its row, and none of the participant's other
\* connections is counted.
Last(s) == s \in rows /\ Counted(Owner[s], Active \ {s}) = {}

\* An active game of the member; it is paused while either player is away.
Playing(m) ==
  /\ wave = "active"
  /\ \E pair \in Pairs \ settled : m \in pair /\ pair \cap away = {}

Clears(s) == Last(s) /\ WindowOpen /\ Owner[s] \in ready

\* Mutant: a member who was ready at the deadline can still be cleared.
NeverRefused(s) == FALSE

\* clearParticipantReadiness refuses to clear anybody after the deadline, and
\* the whole transaction is rolled back.
Refused(s) == Clears(s) /\ Late

Pauses(s, operation) ==
  operation = "disconnect" /\ Last(s) /\ Playing(Owner[s])

\* The lease is closed, with the one action that goes with it.  A recovery
\* leaves an active game to the recovery of the execution.
CloseLease(s, operation) ==
  /\ ~Refused(s)
  /\ stamp' = [stamp EXCEPT ![s] = 0]
  /\ IF Clears(s) THEN Marked(ready \ {Owner[s]})
     ELSE UNCHANGED <<wave, ready>>
  /\ away' = IF Pauses(s, operation) THEN away \cup {Owner[s]} ELSE away
  /\ UNCHANGED <<deadline, settled, winners, overdue>>

\* Mutant: a player who returns is not noticed.
Unnoticed(m) == away' = away

\* ActionGameReconnect: the open reconnect interval of the member ends.  An
\* interval whose deadline has passed is not found any more: it stays open for
\* its timeout, while the new lease is counted all the same.
Welcome(m) == away' = IF m \in overdue THEN away ELSE away \ {m}

\* The deadline of a reconnect interval passes.
Overdue(m) ==
  /\ m \in away \ overdue
  /\ overdue' = overdue \cup {m}
  /\ UNCHANGED <<now, wave, deadline, ready, settled, winners, away, authority,
                 up, sockets, punctual, faults>>

----------------------------------------------------------------------------
(* The handler of a connection.                                             *)

Serves(s, phase) == socket[s] = phase /\ host[s] \in up

Serve(s) ==
  /\ socket' = [socket EXCEPT ![s] = "serving"]
  /\ UNCHANGED <<now, up, host, punctual>>

Leave(s) ==
  /\ socket' = [socket EXCEPT ![s] = "gone"]
  /\ host' = [host EXCEPT ![s] = NoOne]
  /\ UNCHANGED <<now, up, punctual>>

Fault ==
  /\ faults < MaxFaults
  /\ faults' = faults + 1

\* A connection opens a subscriber row; if it resumes an older connection it
\* takes that one's row over, whatever has become of the older socket.
Open(s, h) ==
  /\ h \in up /\ socket[s] = "new"
  /\ \E old \in SUBSET {t \in rows : Owner[t] = Owner[s]} :
       /\ Cardinality(old) <= 1
       /\ rows' = (rows \ old) \cup {s}
  /\ socket' = [socket EXCEPT ![s] = "opened"]
  /\ host' = [host EXCEPT ![s] = h]
  /\ UNCHANGED <<now, match, authority, up, stamp, punctual, faults>>

\* connectParticipantConnection.
Connect(s) ==
  /\ Serves(s, "opened") /\ MayAct(host[s])
  /\ authority' = Resolved(host[s])
  /\ stamp' = [stamp EXCEPT ![s] = authority'.epoch]
  /\ Welcome(Owner[s])
  /\ Serve(s)
  /\ UNCHANGED <<wave, deadline, ready, settled, winners, overdue, rows, faults>>

\* The transaction began before the deadline of the interval and reads the
\* clock after it: reconnectCommand refuses with ErrDeadline.
Overtaken(s) == Owner[s] \in overdue

\* Another process has the authority, or the transaction fails or is
\* overtaken: the handler ends, and its Disconnect will find no lease.
ConnectFails(s) ==
  /\ Serves(s, "opened")
  /\ IF MayAct(host[s]) /\ ~Overtaken(s) THEN Fault ELSE UNCHANGED faults
  /\ Serve(s)
  /\ UNCHANGED <<match, authority, rows, stamp>>

\* The close demands the authority that the lease was stamped with.
Closable(s) == stamp[s] = Resolved(host[s]).epoch

\* closeParticipantConnection: the connection ends, for whatever reason.
Disconnect(s) ==
  /\ Serves(s, "serving") /\ MayAct(host[s])
  /\ Closable(s)
  /\ CloseLease(s, "disconnect")
  /\ authority' = Resolved(host[s])
  /\ Leave(s)
  /\ UNCHANGED <<rows, faults>>

\* Under another authority no row is closed, and nobody is told.
DisconnectUnmatched(s) ==
  /\ Serves(s, "serving") /\ MayAct(host[s])
  /\ ~Closable(s)
  /\ authority' = Resolved(host[s])
  /\ Leave(s)
  /\ UNCHANGED <<match, rows, stamp, faults>>

\* The transaction is refused, or fails: it is not tried again.
DisconnectFails(s) ==
  /\ Serves(s, "serving")
  /\ IF MayAct(host[s]) /\ ~(Closable(s) /\ Refused(s))
     THEN Fault ELSE UNCHANGED faults
  /\ Leave(s)
  /\ UNCHANGED <<match, authority, rows, stamp>>

----------------------------------------------------------------------------
(* The processes, their authority and the reaper.                           *)

\* Mutant: the reaper does not take over an authority that has run out.
MayReapOwn(h) == h \in up /\ authority.live /\ authority.holder = h

\* RecoveryAuthorityFor.
MayReap(h) == MayAct(h)

\* renewActiveAuthorities, of a reaper that finds the authority run out.
TakeOver(h) ==
  /\ MayReap(h) /\ ~authority.live /\ Active # {}
  /\ authority' = Resolved(h)
  /\ UNCHANGED <<now, match, up, sockets, punctual, faults>>

\* The leases a scan of the reaper of h would close.
Candidates(h) == {s \in Active : stamp[s] # Resolved(h).epoch}

\* recoverOrphanedConnection, for one candidate of a scan.  The scan ends at
\* the first candidate whose closing is refused.
Reap(h, s) ==
  /\ MayReap(h)
  /\ s \in Candidates(h)
  /\ \A t \in Candidates(h) : t < s => ~Refused(t)
  /\ CloseLease(s, "recovery")
  /\ authority' = Resolved(h)
  /\ UNCHANGED <<now, up, socket, host, rows, punctual, faults>>

\* The authority of a process that does not run any more ends.
Expire ==
  /\ authority.live /\ authority.holder = NoOne
  /\ authority' = [authority EXCEPT !.live = FALSE]
  /\ UNCHANGED <<now, match, up, sockets, punctual, faults>>

\* A process does not renew its authority in time.
Lapse ==
  /\ authority.live /\ authority.holder # NoOne
  /\ Fault
  /\ authority' = [authority EXCEPT !.live = FALSE]
  /\ UNCHANGED <<now, match, up, sockets, punctual>>

\* Its sockets break.  A process that starts is another holder.
Crash(h) ==
  /\ h \in up
  /\ Fault
  /\ up' = up \ {h}
  /\ authority' = IF authority.holder = h
                  THEN [authority EXCEPT !.holder = NoOne] ELSE authority
  /\ socket' = [s \in Sockets |-> IF host[s] = h THEN "lost" ELSE socket[s]]
  /\ host' = [s \in Sockets |-> IF host[s] = h THEN NoOne ELSE host[s]]
  /\ UNCHANGED <<now, match, rows, stamp, punctual>>

Restart(h) ==
  /\ h \in Processes \ up
  /\ up' = up \cup {h}
  /\ UNCHANGED <<now, match, authority, sockets, punctual, faults>>

----------------------------------------------------------------------------
\* A game ends, as GameExecution has it.
EndGame(pair) ==
  /\ wave = "active"
  /\ pair \notin settled
  /\ settled' = settled \cup {pair}
  /\ away' = away \ pair
  /\ overdue' = overdue \ pair
  /\ UNCHANGED <<now, wave, deadline, ready, winners, authority, up, sockets,
                 punctual, faults>>

Tick ==
  /\ now < Horizon
  /\ now' = now + 1
  /\ punctual' = IF WindowOpen /\ now = deadline THEN ready ELSE punctual
  /\ UNCHANGED <<match, authority, up, sockets, faults>>

Init ==
  /\ now = 0
  /\ wave = "planned"
  /\ deadline = 0
  /\ ready = {} /\ settled = {} /\ winners = {}
  /\ away = {} /\ overdue = {}
  /\ authority = [holder |-> NoOne, epoch |-> 0, live |-> FALSE]
  /\ up = Processes
  /\ socket = [s \in Sockets |-> "new"]
  /\ host = [s \in Sockets |-> NoOne]
  /\ rows = {}
  /\ stamp = [s \in Sockets |-> 0]
  /\ punctual = {}
  /\ faults = 0

Connection(s) ==
  \/ \E h \in Processes : Open(s, h)
  \/ Connect(s) \/ ConnectFails(s)
  \/ Disconnect(s) \/ DisconnectUnmatched(s) \/ DisconnectFails(s)

Reaper(h) == TakeOver(h) \/ \E s \in Sockets : Reap(h, s)

Process(h) == Start(h) \/ Reaper(h) \/ Crash(h) \/ Restart(h)

Next ==
  \/ OpenWindow
  \/ \E m \in Members : SetReady(m) \/ Overdue(m)
  \/ \E pair \in Pairs : ResolveNoShow(pair) \/ EndGame(pair)
  \/ \E s \in Sockets : Connection(s)
  \/ \E h \in Processes : Process(h)
  \/ Expire \/ Lapse \/ Tick

Spec == Init /\ [][Next]_vars

\* An authority that nobody renews runs out, processes are restarted, and a
\* reaper scans at an interval.  Nothing else is bound to happen.
Fairness ==
  /\ WF_vars(Expire)
  /\ \A h \in Processes : WF_vars(Restart(h)) /\ WF_vars(Reaper(h))

FairSpec == Spec /\ Fairness

----------------------------------------------------------------------------
TypeOK ==
  /\ now \in 0..Horizon /\ deadline \in 0..(Horizon + Window)
  /\ wave \in {"planned", "ready_window_open", "ready", "active",
               "ready_window_expired"}
  /\ ready \subseteq Members /\ punctual \subseteq Members
  /\ settled \subseteq Pairs
  /\ winners \subseteq Members
  /\ away \subseteq Members /\ overdue \subseteq away
  /\ authority \in [holder : Processes \cup {NoOne},
                    epoch : 0..(MaxFaults + 1), live : BOOLEAN]
  /\ up \subseteq Processes
  /\ socket \in [Sockets ->
       {"new", "opened", "serving", "gone", "lost"}]
  /\ host \in [Sockets -> up \cup {NoOne}]
  /\ rows \subseteq {s \in Sockets : socket[s] # "new"}
  /\ stamp \in [Sockets -> 0..authority.epoch]
  /\ \A s \in Sockets :
       socket[s] \in {"opened", "serving"} <=> host[s] \in up
  /\ faults \in 0..MaxFaults

\* A wave that has started has all its members ready, and so has one that may
\* start: no disconnect or recovery slips in between a mark and the start.
StartedTogether == wave \in {"ready", "active"} => ready = Members

\* A no-show is decided by who was ready when the deadline passed, whatever
\* connections broke or were reaped between the deadline and the decision:
\* whoever wins was ready and the opponent was not, and no pair of two ready
\* players is decided in this way.
NoShowJust ==
  /\ wave # "ready_window_expired" => winners = {}
  /\ wave = "ready_window_expired" =>
       \A pair \in settled :
         /\ pair \cap winners = pair \cap punctual
         /\ ~(pair \subseteq punctual)

\* The closing of a lease, by its handler or by a reaper on another process,
\* touches a participant exactly when that was the last connection counted
\* and its fence had not been taken over: then an open window has the
\* participant not ready, and otherwise neither readiness nor a game changes.
LastTabCounts ==
  [][\A s \in Active \ Active' :
       LET last == s \in rows /\ Counted(Owner[s], Active \ {s}) = {}
       IN /\ last /\ WindowOpen => ready' = ready \ {Owner[s]}
          /\ ~last => UNCHANGED <<ready, away>>]_vars

\* While a game waits for a participant, none of the participant's connections
\* is counted: whichever connection comes back before the deadline of the
\* interval ends it.  One that comes later is counted and ends nothing.
AwayMeansGone == \A m \in away \ overdue : Counted(m, Active) = {}

Owned == INSTANCE Ownership WITH
  Holders <- Processes,
  Nobody  <- NoOne,
  epoch   <- authority.epoch,
  holder  <- authority.holder,
  live    <- authority.live

\* Connections, reapers and the operator's start resolve the authority each on
\* their own way, and never but as module Authority allows: an epoch that has
\* not ended is used as it is, by its holder.
FollowsOwnership == Owned!OSpec

\* The scan of every reaper is stopped by a candidate that it may not close.
Stuck ==
  \E s \in Active : /\ ~authority.live \/ stamp[s] # authority.epoch
                    /\ Refused(s)

\* The lease of a connection that broke with its process is closed in the
\* end, whichever process has the authority, unless every scan is stopped by
\* the connection of somebody who was ready when the deadline passed.
OrphansReaped ==
  []<>(Stuck \/ \A s \in Active : socket[s] # "lost")
=============================================================================
