----------------------------- MODULE Leaderboard -----------------------------
(***************************************************************************)
(* The leaderboard cache of one process (usecase/leaderboard/cache.go):    *)
(* one snapshot of the ranking with a time to live, refreshed by one call  *)
(* at a time for all that wait, and dropped when a player's name or        *)
(* record is edited.                                                       *)
(*                                                                         *)
(* The ranking itself is a version number: the commits to PostgreSQL that  *)
(* changed it.  A result changes it and tells nobody; an edit changes it   *)
(* and calls Invalidate once its transaction has committed.                *)
(*                                                                         *)
(* cached() and every write of the snapshot hold Cache.mu, and             *)
(* singleflight.Group.Do enters and leaves a refresh under its own mutex,  *)
(* so each of these is one step.                                           *)
(***************************************************************************)
EXTENDS Integers, Sequences

CONSTANTS
  Callers,     \* Goroutines that call Top50, one call at a time each.
  TTL,         \* cacheTTL of the code.
  MaxTime,     \* Bound of the exploration: the clock stops here.
  MaxCommits,  \* Bound of the exploration: changes of the ranking.
  MaxFaults    \* Bound of the exploration: queries that fail.

ASSUME CacheAssumption ==
  /\ "none" \notin Callers
  /\ TTL \in Nat \ {0}
  /\ MaxTime \in Nat /\ MaxCommits \in Nat /\ MaxFaults \in Nat

VARIABLES
  now,       \* Clock.Now of the process.
  commits,   \* The commits that changed the ranking, by their time.
  due,       \* Edits that have committed and not called Invalidate yet.
  snapshot,  \* Cache.snapshot.
  leader,    \* The call whose function singleflight runs, or none.
  call,      \* Where each call is, and its locals.
  faults,    \* Queries that failed so far.
  shown,     \* History: the newest ranking that a call has returned.
  settled    \* History: the newest edit that called Invalidate while no refresh
             \* held a ranking.

vars == <<now, commits, due, snapshot, leader, call, faults, shown, settled>>

history == <<shown, settled>>

NoSnapshot == [table |-> 0, expires |-> 0]
NoOne == "none"

NoCall == [at |-> "idle", time |-> 0, table |-> 0, floor |-> 0, must |-> 0]

\* The ranking in the database.
Ranking == Len(commits)

Latest(a, b) == IF a > b THEN a ELSE b

-----------------------------------------------------------------------------
(* Cache.Top50 *)

\* cached: a snapshot that has not expired at the time the caller has read.
Cached(t) == t < snapshot.expires

To(c, at) == call' = [call EXCEPT ![c].at = at]

\* What the calls of S return, each with the time by which it was judged.
Answer(S, table, time) ==
  /\ call' = [c \in Callers |->
       IF c \in S THEN [call[c] EXCEPT !.at = "done", !.table = table, !.time = time]
       ELSE call[c]]
  /\ shown' = Latest(shown, table)
  /\ UNCHANGED settled

Begin(c) ==
  /\ call[c].at \in {"idle", "done"}
  /\ call' = [call EXCEPT ![c] =
       [at |-> "lookup", time |-> now, table |-> 0,
        floor |-> shown, must |-> settled]]
  /\ UNCHANGED <<now, commits, due, snapshot, leader, faults, history>>

Hit(c) ==
  /\ call[c].at = "lookup" /\ Cached(call[c].time)
  /\ Answer({c}, snapshot.table, call[c].time)
  /\ UNCHANGED <<now, commits, due, snapshot, leader, faults>>

Miss(c) ==
  /\ call[c].at = "lookup" /\ ~Cached(call[c].time)
  /\ To(c, "join")
  /\ UNCHANGED <<now, commits, due, snapshot, leader, faults, history>>

\* Mutant: every call that misses refreshes the snapshot itself.
LeadAlways(c) ==
  /\ call[c].at = "join"
  /\ leader' = c
  /\ call' = [call EXCEPT ![c].at = "recheck", ![c].time = now]
  /\ UNCHANGED <<now, commits, due, snapshot, faults, history>>

\* Group.Do runs the function, which reads the time before anything else.
Lead(c) ==
  /\ call[c].at = "join" /\ leader = NoOne
  /\ leader' = c
  /\ call' = [call EXCEPT ![c].at = "recheck", ![c].time = now]
  /\ UNCHANGED <<now, commits, due, snapshot, faults, history>>

\* Group.Do waits for the function of another call.
Follow(c) ==
  /\ call[c].at = "join" /\ leader # NoOne
  /\ To(c, "wait")
  /\ UNCHANGED <<now, commits, due, snapshot, leader, faults, history>>

\* The refresh before this one may have stored what it needs.
Recheck(c) ==
  /\ call[c].at = "recheck"
  /\ IF Cached(call[c].time)
       THEN call' = [call EXCEPT ![c].at = "return", ![c].table = snapshot.table]
       ELSE To(c, "load")
  /\ UNCHANGED <<now, commits, due, snapshot, leader, faults, history>>

\* Ranking.Top50 reads the statistics in one query.
Load(c) ==
  /\ call[c].at = "load"
  /\ call' = [call EXCEPT ![c].at = "store", ![c].table = Ranking]
  /\ UNCHANGED <<now, commits, due, snapshot, leader, faults, history>>

\* Mutant: the time to live runs from the end of the query.
StoreLate(c) ==
  /\ call[c].at = "store"
  /\ snapshot' = [table |-> call[c].table, expires |-> now + TTL]
  /\ To(c, "return")
  /\ UNCHANGED <<now, commits, due, leader, faults, history>>

Store(c) ==
  /\ call[c].at = "store"
  /\ snapshot' = [table |-> call[c].table, expires |-> call[c].time + TTL]
  /\ To(c, "return")
  /\ UNCHANGED <<now, commits, due, leader, faults, history>>

Waiting == {c \in Callers : call[c].at = "wait"}

\* Group.Do hands the result of the function to all that wait for it.  They
\* wake later; to count what they return at once asks more of later calls.
Return(c) ==
  /\ call[c].at = "return"
  /\ Answer({c} \cup Waiting, call[c].table, call[c].time)
  /\ leader' = NoOne
  /\ UNCHANGED <<now, commits, due, snapshot, faults>>

Fails(S) == call' = [d \in Callers |->
              IF d \in S THEN NoCall ELSE call[d]]

Fault ==
  /\ faults < MaxFaults
  /\ faults' = faults + 1

\* The query fails or the context of the call that leads ends: all that wait
\* get the error, and nothing is stored.
LoadFails(c) ==
  /\ call[c].at = "load"
  /\ Fault
  /\ Fails({c} \cup Waiting)
  /\ leader' = NoOne
  /\ UNCHANGED <<now, commits, due, snapshot, history>>

-----------------------------------------------------------------------------
(* What changes the ranking. *)

\* A settled series, or a correction, moves the statistics.
Result ==
  /\ Ranking < MaxCommits
  /\ commits' = Append(commits, now)
  /\ UNCHANGED <<now, due, snapshot, leader, call, faults, history>>

\* An administrator edits or deletes a player, or a player changes their name.
Edit ==
  /\ Ranking < MaxCommits
  /\ commits' = Append(commits, now)
  /\ due' = due \cup {Ranking + 1}
  /\ UNCHANGED <<now, snapshot, leader, call, faults, history>>

\* A refresh has read its ranking and not returned it yet.
Holds(c) == call[c].at \in {"store", "return"}

Told(v) ==
  /\ v \in due
  /\ due' = due \ {v}
  /\ settled' = IF \E c \in Callers : Holds(c) THEN settled ELSE Latest(settled, v)

\* Mutant: a refresh that runs is taken to bring the edit with it.
InvalidateUnlessRunning(v) ==
  /\ Told(v)
  /\ snapshot' = IF leader = NoOne THEN NoSnapshot ELSE snapshot
  /\ UNCHANGED <<now, commits, leader, call, faults, shown>>

Invalidate(v) ==
  /\ Told(v)
  /\ snapshot' = NoSnapshot
  /\ UNCHANGED <<now, commits, leader, call, faults, shown>>

Tick ==
  /\ now < MaxTime
  /\ now' = now + 1
  /\ UNCHANGED <<commits, due, snapshot, leader, call, faults, history>>

-----------------------------------------------------------------------------

Init ==
  /\ now = 0 /\ commits = <<>> /\ due = {} /\ faults = 0
  /\ snapshot = NoSnapshot
  /\ leader = NoOne
  /\ call = [c \in Callers |-> NoCall]
  /\ shown = 0 /\ settled = 0

\* A call that has begun goes on by itself.
CallStep(c) ==
  \/ Hit(c) \/ Miss(c) \/ Lead(c) \/ Follow(c) \/ Recheck(c) \/ Load(c)
  \/ Store(c) \/ Return(c) \/ LoadFails(c)

Next ==
  \/ \E c \in Callers : Begin(c) \/ CallStep(c)
  \/ Result \/ Edit \/ (\E v \in due : Invalidate(v))
  \/ Tick

Spec == Init /\ [][Next]_vars

-----------------------------------------------------------------------------
(* Properties *)

Times    == 0 .. MaxTime
Rankings == 0 .. MaxCommits

Calls ==
  [ at : {"idle", "lookup", "join", "wait", "recheck", "load", "store",
          "return", "done"},
    time : Times, table : Rankings,
    floor : Rankings, must : Rankings ]

\* The state has the shape of the code's fields and locals.
TypeOK ==
  /\ now \in Times
  /\ commits \in Seq(Times) /\ Len(commits) <= MaxCommits
  /\ due \subseteq 1 .. Ranking
  /\ snapshot \in [table : Rankings, expires : 0 .. (MaxTime + TTL)]
  /\ leader \in Callers \cup {NoOne}
  /\ call \in [Callers -> Calls]
  /\ faults \in 0 .. MaxFaults
  /\ shown \in Rankings /\ settled \in Rankings

Done == {c \in Callers : call[c].at = "done"}

\* The ranking never goes back: a call that begins after another one returned
\* does not return an older ranking, whichever of them hit the snapshot, led a
\* refresh or waited for one, and whatever was invalidated in between.
NeverBackwards == \A c \in Done : call[c].table >= call[c].floor

\* What an answer misses was committed less than a time to live before the
\* answer was judged fresh: when the call read the clock, or when the refresh
\* it waited for did.  A slow query does not make its snapshot live longer.
StaleByTTLAtMost ==
  \A c \in Done : \A v \in (call[c].table + 1) .. Ranking :
    commits[v] + TTL > call[c].time

\* An edit that called Invalidate while no refresh held a ranking is in every
\* answer to a call that begins later.  Of one that crosses a refresh this is
\* not true: what was read before the edit is stored after it.
EditsShow == \A c \in Done : call[c].table >= call[c].must
=============================================================================
