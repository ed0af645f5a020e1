------------------------- MODULE GameExecutionProofs -------------------------
(***************************************************************************)
(* Machine-checked facts about module GameExecution, for every number of   *)
(* games, players and processes, every duration and every resolution of    *)
(* the clock: its invariants and the action properties of the games and of *)
(* the recovery scan, by the inductive invariant IInv.                     *)
(***************************************************************************)
EXTENDS GameExecution, TLAPS

Rows ==
  [ state : {"ready", "active", "paused", "settled"},
    by : {"none", "operator", "disconnect"}, rev : Nat, bound : Nat,
    due : Nat, shown : Nat, left : Nat, gone : SUBSET Players, seen : Nat,
    receipt : {"none", "current", "stale"},
    outcome : {"none", "solved", "timeout", "forfeit", "replay", "broken"} ]

Histories ==
  [played : Nat, pauses : Nat, ran : Nat,
   how : {"none", "start", "operator", "reconnect"}]

Candidates ==
  [state : {"ready", "active", "paused", "settled"}, rev : Nat, bound : Nat,
   due : Nat]

Loads == [try : Nat] \cup [try : Nat, rev : Nat, lease : Nat]

Works ==
  [at : {"work"}, epoch : Nat, lease : Nat,
   todo : UNION {[S -> Candidates] : S \in SUBSET Games}, load : Loads]

Scans == {Resting} \cup [at : {"list"}, epoch : Nat] \cup Works

Leases == [epoch : Nat, revision : Nat, live : BOOLEAN,
           holder : Procs \cup {"gone"}]

\* The shape of the state that does not belong to a scan.
Shape ==
  /\ now \in Nat /\ started \in Nat
  /\ auth \in Leases
  /\ wave \in {"ready", "active", "paused"}
  /\ game \in [Games -> Rows]
  /\ proc \in [Procs -> {"down", "starting", "running"}]
  /\ bounds \in [renewals : Nat, pauses : Nat, faults : Nat]
  /\ hist \in [Games -> Histories]

Bounded ==
  /\ now <= MaxTime /\ started <= now
  /\ bounds.renewals <= MaxRenewals /\ bounds.pauses <= MaxPauses
  /\ bounds.faults <= MaxFaults

ScansTyped == scan \in [Procs -> Scans]

\* A game moves with its wave, and only waits for a player who is away.
WaveSound(g) ==
  /\ wave = "ready" <=> game[g].state = "ready"
  /\ wave = "ready" =>
       hist[g].played = 0 /\ hist[g].pauses = 0 /\ game[g].gone = {}
  /\ game[g].state = "active" => wave = "active" /\ game[g].gone = {}
  /\ game[g].state = "paused" /\ wave = "active" => game[g].gone # {}
  /\ game[g].state # "settled" => game[g].outcome = "none"

\* The clock of a game never holds more than what its pauses gave.
ClockSound(g) ==
  /\ hist[g].played <= now /\ hist[g].pauses <= bounds.pauses
  /\ game[g].seen <= now
  /\ game[g].left <= Duration + bounds.pauses * Milli
  /\ game[g].due <= now + Duration + bounds.pauses * Milli
  /\ game[g].shown <= game[g].due

\* What is left of the time of a game, r, fits what was played of it.
Fits(r, g) ==
  /\ r >= Duration - hist[g].played
  /\ r <= Duration - hist[g].played + hist[g].pauses * Milli

Until(due) == IF due > now THEN due - now ELSE 0

TimeSound(g) ==
  /\ game[g].state = "active" => Fits(Until(game[g].due), g)
  /\ game[g].state = "paused" => Fits(game[g].left, g)
  /\ game[g].outcome = "timeout" => hist[g].played >= Duration

\* A game the operator started or resumed is bound to the epoch of that step.
BindSound(g) ==
  /\ hist[g].ran <= auth.epoch
  /\ game[g].state = "active" /\ hist[g].how # "reconnect"
       => game[g].bound = hist[g].ran

GameSound(g) == WaveSound(g) /\ ClockSound(g) /\ TimeSound(g) /\ BindSound(g)

\* A lease row or the game itself changed after the scan listed it.
Overtaken(p, g) ==
  \/ auth.revision # scan[p].lease \/ ~auth.live
  \/ game[g].rev # scan[p].todo[g].rev

Loaded(p) == "rev" \in DOMAIN scan[p].load

ListSound(p) ==
  /\ scan[p].lease <= auth.revision
  /\ \A g \in DOMAIN scan[p].todo :
       /\ auth.revision = scan[p].lease => auth.epoch = scan[p].epoch
       /\ scan[p].todo[g].rev <= game[g].rev
       /\ scan[p].todo[g].rev = game[g].rev =>
            /\ scan[p].todo[g].state = game[g].state
            /\ scan[p].todo[g].bound = game[g].bound
            /\ scan[p].todo[g].due = game[g].shown

\* What was loaded is between what was listed and what is stored, and a load
\* is only repeated because something overtook it.
LoadSound(p) ==
  \A g \in Games : At(p, g) =>
    /\ Loaded(p) =>
         /\ scan[p].todo[g].state = "active"
         /\ scan[p].lease <= scan[p].load.lease
         /\ scan[p].load.lease <= auth.revision
         /\ scan[p].todo[g].rev <= scan[p].load.rev
         /\ scan[p].load.rev <= game[g].rev
    /\ ~Loaded(p) /\ scan[p].load.try > 0 => Overtaken(p, g)

ScanSound(p) == scan[p].at = "work" => ListSound(p) /\ LoadSound(p)

GamesInv == \A g \in Games : GameSound(g)
ScansInv == \A p \in Procs : ScanSound(p)

IInv == Shape /\ Bounded /\ ScansTyped /\ GamesInv /\ ScansInv

-----------------------------------------------------------------------------
(* Clocks *)

\* Whole milliseconds of a time are at most that time and miss less than one.
LEMMA FloorBelow ==
  ASSUME NEW t \in Int
  PROVE  /\ Floor(t) \in Int /\ Floor(t) <= t /\ t < Floor(t) + Milli
         /\ t % Milli = 0 => Floor(t) = t
         /\ t >= 0 => Floor(t) >= 0
BY ClockAssumption DEF Floor

\* Ticks of more milliseconds are more ticks.
LEMMA MilliGrows ==
  ASSUME NEW a \in Nat, NEW b \in Nat, a <= b
  PROVE  /\ a * Milli \in Nat /\ a * Milli <= b * Milli
         /\ (a + 1) * Milli = a * Milli + Milli
BY ClockAssumption

\* What a game has left, as TimeKept reads it, without Max.
LEMMA RestOfClock ==
  ASSUME NEW g \in Games, now \in Nat, game[g].due \in Nat
  PROVE  Rest(g) = IF g \in Active THEN Until(game[g].due) ELSE game[g].left
<1>1. \A t \in Int : Max({0, t}) = IF t > 0 THEN t ELSE 0
  BY DEF Max
<1>2. game[g].due - now \in Int
  OBVIOUS
<1> QED
  BY <1>1, <1>2 DEF Rest, Until

\* What an operator pause keeps is what is left, or at most a millisecond more.
LEMMA FrozenBetween ==
  ASSUME now \in Nat, NEW g \in Games, game[g].due \in Nat, Frozen(g) >= Milli
  PROVE  /\ Frozen(g) \in Nat
         /\ Until(game[g].due) <= Frozen(g)
         /\ Frozen(g) <= Until(game[g].due) + Milli
<1> DEFINE t == game[g].due - now
<1>1. t \in Int /\ -t \in Int /\ Milli \in Nat /\ Milli > 0
  BY ClockAssumption
<1>2. Frozen(g) = Cut(t) + (IF t % Milli = 0 THEN 0 ELSE Milli)
  BY DEF Frozen
<1>3. CASE t < 0
  <2>1. Cut(t) = -Floor(-t) /\ Floor(-t) \in Int /\ Floor(-t) >= 0
    BY <1>1, <1>3, FloorBelow DEF Cut
  <2>2. Frozen(g) = Milli
    BY <1>1, <1>2, <2>1
  <2> QED
    BY <1>1, <1>3, <2>2 DEF Until
<1>4. CASE t >= 0
  <2>1. Cut(t) = Floor(t) /\ Floor(t) \in Int /\ Floor(t) >= 0 /\ Floor(t) <= t
        /\ t < Floor(t) + Milli /\ (t % Milli = 0 => Floor(t) = t)
    BY <1>1, <1>4, FloorBelow DEF Cut
  <2> HIDE DEF t
  <2>2. Frozen(g) \in Nat /\ t <= Frozen(g) /\ Frozen(g) <= t + Milli
    BY <1>1, <1>2, <2>1
  <2>3. Until(game[g].due) = t
    BY <1>4 DEF Until, t
  <2> QED
    BY <2>2, <2>3
<1> QED
  BY <1>1, <1>3, <1>4

-----------------------------------------------------------------------------
(* Steps of the games *)

\* A change of a game raises its revision, and a settled game does not change.
Grows(g) ==
  /\ game[g].rev <= game'[g].rev
  /\ game[g].rev = game'[g].rev =>
       /\ game[g].state = game'[g].state /\ game[g].bound = game'[g].bound
       /\ game[g].shown = game'[g].shown
  /\ game[g].state = "settled" => game'[g] = game[g]

Moves(g) == GameSound(g)' /\ Grows(g)

\* What every step of the operator, a player, a handler or the clock leaves.
Quiet == auth' = auth /\ proc' = proc

\* A game nobody touches stays sound when the rest of the state moves on.
LEMMA Untouched ==
  ASSUME Shape, NEW g \in Games, GameSound(g), game'[g] = game[g],
         hist'[g] = hist[g], now' = now, wave' = wave,
         auth'.epoch \in Nat, auth'.epoch >= auth.epoch,
         bounds'.pauses = bounds.pauses
  PROVE  Moves(g)
<1>1. hist[g] \in Histories /\ game[g] \in Rows /\ auth.epoch \in Nat
  BY DEF Shape, Leases
<1> QED
  BY <1>1 DEF Moves, Grows, GameSound, WaveSound, ClockSound, TimeSound,
              BindSound, Fits, Until, Rows, Histories

\* One game changes, and nothing else that the games depend on.
LEMMA OneGame ==
  ASSUME Shape, Bounded, GamesInv, NEW g \in Games, NEW r \in Rows,
         game' = [game EXCEPT ![g] = r], hist' = hist, Quiet,
         UNCHANGED <<now, wave, started, bounds>>, Moves(g)
  PROVE  Shape' /\ Bounded' /\ \A h \in Games : Moves(h)
<1>1. Shape' /\ Bounded'
  BY DEF Shape, Bounded, Quiet
<1>2. ASSUME NEW h \in Games, h # g PROVE Moves(h)
  <2>1. game'[h] = game[h]
    BY <1>2 DEF Shape
  <2> QED
    BY <2>1, Untouched DEF GamesInv, Quiet, Shape, Leases
<1> QED
  BY <1>1, <1>2

\* A game that ends keeps its clock, and is never the wave's to run again.
LEMMA Settles ==
  ASSUME Shape, Bounded, GamesInv, NEW g \in Games, g \in Unsettled,
         NEW o \in {"solved", "timeout", "forfeit", "replay", "broken"},
         o = "timeout" => hist[g].played >= Duration,
         game' = [game EXCEPT ![g] = Settled(g, o)], hist' = hist, Quiet,
         UNCHANGED <<now, wave, started, bounds>>
  PROVE  Shape' /\ Bounded' /\ \A h \in Games : Moves(h)
<1>1. game[g] \in Rows /\ hist[g] \in Histories
  BY DEF Shape
<1> DEFINE r == Settled(g, o)
<1>0. r = [game[g] EXCEPT !.state = "settled", !.by = "none", !.rev = @ + 1,
                          !.outcome = o]
  BY DEF Settled
<1> HIDE DEF r
<1>a. r \in Rows
  <2>1. o \in {"none", "solved", "timeout", "forfeit", "replay", "broken"}
    OBVIOUS
  <2>2. game[g].rev + 1 \in Nat
    BY <1>1 DEF Rows
  <2> QED
    BY <1>0, <1>1, <2>1, <2>2 DEF Rows
<1>2. /\ r.state = "settled" /\ r.outcome = o /\ r.rev = game[g].rev + 1
      /\ r.bound = game[g].bound /\ r.due = game[g].due
      /\ r.shown = game[g].shown /\ r.left = game[g].left
      /\ r.seen = game[g].seen /\ r.gone = game[g].gone
  BY <1>0, <1>1 DEF Rows
<1>3. game'[g] = r /\ game' = [game EXCEPT ![g] = r]
  BY DEF Shape, r
<1>4. game[g].state \in {"active", "paused"} /\ wave # "ready"
  BY DEF Unsettled, GamesInv, GameSound, WaveSound
<1>5. GameSound(g)
  BY DEF GamesInv
<1>6. Moves(g)
  BY <1>1, <1>2, <1>3, <1>4, <1>5
     DEF Moves, Grows, GameSound, WaveSound, ClockSound, TimeSound, BindSound,
         Fits, Until, Quiet, Rows, Histories
<1> QED
  BY <1>a, <1>3, <1>6, OneGame

\* Every way a game is settled around the recovery scan.
LEMMA SettlesNow ==
  ASSUME Shape, Bounded, GamesInv, NEW g \in Games,
         \/ \E m \in Players : LastDisconnect(g, m)
         \/ ExpireReconnect(g) \/ Solve(g) \/ Timeout(g)
  PROVE  Shape' /\ Bounded' /\ \A h \in Games : Moves(h)
<1>1. CASE \E m \in Players : LastDisconnect(g, m)
  BY <1>1, Settles DEF LastDisconnect, Quiet
<1>2. CASE ExpireReconnect(g)
  BY <1>2, Settles DEF ExpireReconnect, Quiet, Paused, Unsettled
<1>3. CASE Solve(g)
  BY <1>3, Settles DEF Solve, Quiet, AcceptsFlag, Active, Unsettled
<1>4. CASE Timeout(g)
  <2>1. hist[g].played >= Duration
    <3>1. Fits(Until(game[g].due), g)
      BY <1>4 DEF Timeout, Active, GamesInv, GameSound, TimeSound
    <3>2. Until(game[g].due) = 0
      BY <1>4 DEF Timeout, Until, Shape, Rows
    <3> QED
      BY <3>1, <3>2, ClockAssumption DEF Fits, Shape, Histories
  <2> QED
    BY <1>4, <2>1, Settles DEF Timeout, Quiet, Active, Unsettled
<1> QED
  BY <1>1, <1>2, <1>3, <1>4

\* Presence of a paused game changes, its clock does not.
LEMMA PresenceMoves ==
  ASSUME Shape, Bounded, GamesInv, NEW g \in Games, g \in Paused,
         NEW away \in SUBSET Players, wave = "active" => away # {},
         NEW receipt \in {"none", game[g].receipt},
         game' = [game EXCEPT ![g] =
           [@ EXCEPT !.gone = away, !.seen = now, !.receipt = receipt]],
         hist' = hist, Quiet, UNCHANGED <<now, wave, started, bounds>>
  PROVE  Shape' /\ Bounded' /\ \A h \in Games : Moves(h)
<1> DEFINE r == [game[g] EXCEPT !.gone = away, !.seen = now, !.receipt = receipt]
<1>1. game[g] \in Rows /\ hist[g] \in Histories /\ now \in Nat
  BY DEF Shape
<1>2. /\ r \in Rows /\ r.state = game[g].state /\ r.rev = game[g].rev
      /\ r.bound = game[g].bound /\ r.due = game[g].due
      /\ r.shown = game[g].shown /\ r.left = game[g].left
      /\ r.outcome = game[g].outcome /\ r.gone = away /\ r.seen = now
  BY <1>1 DEF Rows
<1>3. game' = [game EXCEPT ![g] = r] /\ game'[g] = r
  BY DEF Shape
<1> HIDE DEF r
<1>4. GameSound(g) /\ game[g].state = "paused"
  BY DEF GamesInv, Paused
<1>5. Moves(g)
  BY <1>1, <1>2, <1>3, <1>4
     DEF Moves, Grows, GameSound, WaveSound, ClockSound, TimeSound, BindSound,
         Fits, Until, Quiet, Rows, Histories
<1> QED
  BY <1>2, <1>3, <1>5, OneGame

\* A running game is frozen with exactly what it has left.
LEMMA Freezes ==
  ASSUME Shape, Bounded, GamesInv, NEW g \in Games, NEW m \in Players,
         wave = "active", g \in Active, Freezable(g),
         NEW r, r = Interrupted(g, m), game' = [game EXCEPT ![g] = r],
         hist' = hist, Quiet, UNCHANGED <<now, wave, started, bounds>>
  PROVE  Shape' /\ Bounded' /\ \A h \in Games : Moves(h)
<1>1. game[g] \in Rows /\ hist[g] \in Histories /\ now \in Nat
  BY DEF Shape
<1>2. game[g].due - now \in Nat /\ Until(game[g].due) = game[g].due - now
  <2>1. game[g].due - now \in Int /\ game[g].due \in Nat
    BY <1>1 DEF Rows
  <2>2. Floor(game[g].due - now) >= Milli
    BY DEF Freezable
  <2>3. game[g].due - now > 0
    BY <2>1, <2>2, FloorBelow, ClockAssumption
  <2> QED
    BY <1>1, <2>1, <2>3 DEF Until
<1>3. r \in Rows
  <2>1. game[g].rev + 1 \in Nat /\ {m} \in SUBSET Players
    BY <1>1 DEF Rows
  <2> QED
    BY <1>1, <1>2, <2>1 DEF Rows, Interrupted
<1>4. /\ r.state = "paused" /\ r.rev = game[g].rev + 1
      /\ r.bound = game[g].bound /\ r.due = game[g].due
      /\ r.shown = game[g].shown /\ r.left = game[g].due - now
      /\ r.outcome = game[g].outcome /\ r.gone = {m} /\ r.seen = now
  BY <1>1 DEF Rows, Interrupted
<1>5. game'[g] = r
  BY DEF Shape
<1>6. GameSound(g) /\ game[g].state = "active"
  BY DEF GamesInv, Active
<1>7. bounds.pauses * Milli \in Nat
  BY MilliGrows DEF Shape
<1>8. Moves(g)
  <2>1. Grows(g)
    <3>1. game[g].rev \in Nat
      BY <1>1 DEF Rows
    <3> QED
      BY <3>1, <1>4, <1>5, <1>6 DEF Grows
  <2>2. WaveSound(g)'
    BY <1>4, <1>5, <1>6 DEF GameSound, WaveSound
  <2>3. ClockSound(g)'
    BY <1>1, <1>2, <1>4, <1>5, <1>6, <1>7, ClockAssumption
       DEF GameSound, ClockSound, Rows, Histories
  <2>4. TimeSound(g)'
    BY <1>1, <1>2, <1>4, <1>5, <1>6 DEF GameSound, TimeSound, Fits, WaveSound
  <2>5. BindSound(g)'
    BY <1>4, <1>5, <1>6 DEF GameSound, BindSound, Quiet
  <2> QED
    BY <2>1, <2>2, <2>3, <2>4, <2>5 DEF Moves, GameSound
<1> QED
  BY <1>3, <1>5, <1>8, OneGame

\* Players who leave, or come back to an absent opponent.
LEMMA Leaves ==
  ASSUME Shape, Bounded, GamesInv, NEW g \in Games, NEW m \in Players,
         \/ GoneWhilePaused(g, m) \/ BackWhilePaused(g, m)
         \/ Disconnect(g, m) \/ ReconnectAlone(g, m)
  PROVE  Shape' /\ Bounded' /\ \A h \in Games : Moves(h)
<1>1. game[g] \in Rows
  BY DEF Shape
<1>2. game[g].gone \subseteq Players
  BY <1>1 DEF Rows
<1>3. [game[g] EXCEPT !.receipt = game[g].receipt] = game[g]
  BY <1>1 DEF Rows
<1>4. CASE GoneWhilePaused(g, m) \/ BackWhilePaused(g, m)
  <2>1. PICK away \in SUBSET Players :
          game' = [game EXCEPT ![g] = [@ EXCEPT !.gone = away, !.seen = now]]
    <3>1. game[g].gone \cup {m} \in SUBSET Players
          /\ game[g].gone \ {m} \in SUBSET Players
      BY <1>2
    <3>2. CASE GoneWhilePaused(g, m)
      <4>1. game' = [game EXCEPT ![g] =
              [@ EXCEPT !.gone = game[g].gone \cup {m}, !.seen = now]]
        BY <3>2 DEF GoneWhilePaused, Shape
      <4> QED
        BY <3>1, <4>1
    <3>3. CASE BackWhilePaused(g, m)
      <4>1. game' = [game EXCEPT ![g] =
              [@ EXCEPT !.gone = game[g].gone \ {m}, !.seen = now]]
        BY <3>3 DEF BackWhilePaused, Shape
      <4> QED
        BY <3>1, <4>1
    <3> QED
      BY <1>4, <3>2, <3>3
  <2>2. [game[g] EXCEPT !.gone = away, !.seen = now] =
        [game[g] EXCEPT !.gone = away, !.seen = now, !.receipt = game[g].receipt]
    BY <1>1 DEF Rows
  <2>3. game' = [game EXCEPT ![g] =
          [@ EXCEPT !.gone = away, !.seen = now, !.receipt = game[g].receipt]]
    BY <2>1, <2>2
  <2>4. wave = "paused" /\ g \in Paused /\ hist' = hist /\ Quiet
        /\ UNCHANGED <<now, wave, started, bounds>>
    BY <1>4 DEF GoneWhilePaused, BackWhilePaused, Quiet
  <2> QED
    BY <2>3, <2>4, PresenceMoves
<1>5. CASE Disconnect(g, m)
  <2>1. wave = "active" /\ hist' = hist /\ Quiet
        /\ UNCHANGED <<now, wave, started, bounds>>
    BY <1>5 DEF Disconnect, Quiet
  <2>2. CASE g \in Active
    <3>1. g \notin Paused
      BY <2>2 DEF Active, Paused
    <3> QED
      BY <1>5, <2>1, <2>2, <3>1, Freezes DEF Disconnect
  <2>3. CASE g \notin Active
    <3>1. g \in Paused /\
          game' = [game EXCEPT ![g] =
            [@ EXCEPT !.gone = game[g].gone \cup {m}, !.seen = now,
                      !.receipt = "none"]]
      <4>1. g \in Paused
            /\ game' = [game EXCEPT ![g].gone = @ \cup {m}, ![g].seen = now,
                                    ![g].receipt = "none"]
        BY <1>5, <2>3 DEF Disconnect
      <4> QED
        BY <4>1 DEF Shape
    <3>2. game[g].gone \cup {m} \in SUBSET Players /\ game[g].gone \cup {m} # {}
      BY <1>2
    <3> QED
      BY <2>1, <3>1, <3>2, PresenceMoves
  <2> QED
    BY <2>2, <2>3
<1>6. CASE ReconnectAlone(g, m)
  <2>1. wave = "active" /\ hist' = hist /\ Quiet /\ g \in Paused
        /\ UNCHANGED <<now, wave, started, bounds>>
        /\ m \in game[g].gone /\ game[g].gone # {m}
    BY <1>6 DEF ReconnectAlone, Quiet
  <2>2. CASE game' = [game EXCEPT ![g] = Settled(g, "forfeit")]
    BY <2>1, <2>2, Settles DEF Paused, Unsettled
  <2>3. CASE game' = [game EXCEPT ![g].gone = @ \ {m}, ![g].seen = now,
                                  ![g].receipt = "none"]
    <3>1. game' = [game EXCEPT ![g] =
            [@ EXCEPT !.gone = game[g].gone \ {m}, !.seen = now,
                      !.receipt = "none"]]
      BY <2>3 DEF Shape
    <3>2. game[g].gone \ {m} \in SUBSET Players /\ game[g].gone \ {m} # {}
      BY <1>2, <2>1
    <3> QED
      BY <2>1, <3>1, <3>2, PresenceMoves
  <2> QED
    BY <1>6, <2>2, <2>3 DEF ReconnectAlone
<1> QED
  BY <1>4, <1>5, <1>6

\* A game that runs again has the clock that was kept for it.
LEMMA ResumedRow ==
  ASSUME Shape, NEW g \in Games
  PROVE  /\ Resumed(g) \in Rows
         /\ Resumed(g).state = "active" /\ Resumed(g).rev = game[g].rev + 1
         /\ Resumed(g).bound = game[g].bound
         /\ Resumed(g).due = now + game[g].left
         /\ Resumed(g).shown = now + Floor(game[g].left)
         /\ Resumed(g).left = game[g].left /\ Resumed(g).gone = game[g].gone
         /\ Resumed(g).seen = game[g].seen
         /\ Resumed(g).outcome = game[g].outcome
<1>1. game[g] \in Rows /\ game[g].left \in Nat /\ game[g].left \in Int /\ now \in Nat
  BY DEF Shape, Rows
<1>2. Floor(game[g].left) \in Int /\ Floor(game[g].left) >= 0
  BY <1>1, FloorBelow
<1>3. /\ game[g].rev + 1 \in Nat /\ now + game[g].left \in Nat
      /\ now + Floor(game[g].left) \in Nat
  BY <1>1, <1>2 DEF Rows
<1> QED
  BY <1>1, <1>3 DEF Resumed, Rows

\* A resumed clock is sound whoever resumes it, and whatever the game is
\* bound to then.
LEMMA ResumedClock ==
  ASSUME Shape, Bounded, NEW g \in Games, GameSound(g), g \in Paused,
         now' = now, bounds' = bounds, hist'[g].played = hist[g].played,
         hist'[g].pauses = hist[g].pauses, game'[g].due = now + game[g].left,
         game'[g].shown = now + Floor(game[g].left),
         game'[g].left = game[g].left, game'[g].state = "active",
         game'[g].seen \in {game[g].seen, now}, game'[g].outcome = "none"
  PROVE  ClockSound(g)' /\ TimeSound(g)'
<1>1. game[g] \in Rows /\ hist[g] \in Histories /\ now \in Nat
      /\ game[g].left \in Nat /\ game[g].state = "paused"
  BY DEF Shape, Rows, Paused
<1>2. Floor(game[g].left) \in Int /\ Floor(game[g].left) <= game[g].left
  BY <1>1, FloorBelow
<1>3. bounds.pauses * Milli \in Nat
  BY MilliGrows DEF Shape
<1>4. ClockSound(g)'
  BY <1>1, <1>2, <1>3, ClockAssumption DEF GameSound, ClockSound, Rows, Histories
<1>5. Until(game[g].due)' = game[g].left
  BY <1>1 DEF Until
<1>6. TimeSound(g)'
  BY <1>1, <1>5 DEF GameSound, TimeSound, Fits
<1> QED
  BY <1>4, <1>6

\* The last absent player comes back and the game runs again.
LEMMA ComesBack ==
  ASSUME Shape, Bounded, GamesInv, NEW g \in Games, NEW m \in Players,
         Reconnect(g, m)
  PROVE  Shape' /\ Bounded' /\ \A h \in Games : Moves(h)
<1> DEFINE r == [Resumed(g) EXCEPT !.gone = {}, !.receipt = "current", !.seen = now]
<1>1. wave = "active" /\ g \in Paused /\ Quiet
      /\ UNCHANGED <<now, wave, started, bounds>>
      /\ game' = [game EXCEPT ![g] = r]
  BY DEF Reconnect, Quiet
<1>2. /\ Resumed(g) \in Rows /\ now \in Nat /\ hist[g] \in Histories
      /\ auth.epoch \in Nat
  BY ResumedRow DEF Shape, Leases
<1>3. /\ r \in Rows /\ r.state = "active" /\ r.rev = game[g].rev + 1
      /\ r.bound = game[g].bound /\ r.due = now + game[g].left
      /\ r.shown = now + Floor(game[g].left) /\ r.left = game[g].left
      /\ r.outcome = game[g].outcome /\ r.gone = {} /\ r.seen = now
  BY <1>2, ResumedRow DEF Rows
<1>4. game'[g] = r
  BY <1>1 DEF Shape
<1>5. hist' = [hist EXCEPT ![g].ran = auth.epoch, ![g].how = "reconnect"]
  BY DEF Reconnect
<1>6. /\ hist'[g] \in Histories /\ hist'[g].ran = auth.epoch
      /\ hist'[g].how = "reconnect" /\ hist'[g].played = hist[g].played
      /\ hist'[g].pauses = hist[g].pauses
  BY <1>2, <1>5 DEF Shape, Histories
<1> HIDE DEF r
<1>7. Shape' /\ Bounded'
  <2>1. game' \in [Games -> Rows]
    BY <1>1, <1>3 DEF Shape
  <2>2. hist' \in [Games -> Histories]
    BY <1>5, <1>6 DEF Shape
  <2> QED
    BY <1>1, <2>1, <2>2 DEF Shape, Bounded, Quiet
<1>8. GameSound(g) /\ game[g].state = "paused" /\ game[g].outcome = "none"
  BY <1>1 DEF GamesInv, GameSound, WaveSound, Paused
<1>9. Moves(g)
  <2>1. game[g].rev \in Nat
    BY DEF Shape, Rows
  <2>2. Grows(g)
    BY <2>1, <1>3, <1>4, <1>8 DEF Grows
  <2>3. WaveSound(g)'
    BY <1>1, <1>3, <1>4, <1>8 DEF WaveSound
  <2>4. ClockSound(g)' /\ TimeSound(g)'
    BY <1>1, <1>3, <1>4, <1>6, <1>8, ResumedClock
  <2>5. BindSound(g)'
    BY <1>1, <1>2, <1>6 DEF BindSound, Quiet
  <2> QED
    BY <2>2, <2>3, <2>4, <2>5 DEF Moves, GameSound
<1>10. ASSUME NEW h \in Games, h # g PROVE Moves(h)
  <2>1. game'[h] = game[h] /\ hist'[h] = hist[h]
    BY <1>1, <1>5, <1>10 DEF Shape
  <2> QED
    BY <1>1, <2>1, Untouched DEF GamesInv, Quiet, Shape, Leases
<1> QED
  BY <1>7, <1>9, <1>10

\* The start gives every game its full clock under one epoch.
LEMMA Starts ==
  ASSUME Shape, Bounded, GamesInv, NEW e \in 1 .. auth.epoch, StartWave(e)
  PROVE  Shape' /\ Bounded' /\ \A h \in Games : Moves(h)
<1>1. wave = "ready" /\ wave' = "active" /\ e = auth.epoch /\ started' = now
      /\ Quiet /\ now' = now /\ bounds' = bounds
  BY DEF StartWave, Fence, Quiet
<1>2. auth.epoch \in Nat /\ e \in Nat /\ now \in Nat /\ Duration \in Nat
  BY <1>1, ClockAssumption DEF Shape, Leases
<1>3. ASSUME NEW g \in Games
      PROVE  /\ game'[g] \in Rows /\ game'[g].state = "active"
             /\ game'[g].rev = game[g].rev + 1 /\ game'[g].bound = e
             /\ game'[g].due = now + Duration /\ game'[g].shown = now + Duration
             /\ game'[g].left = game[g].left /\ game'[g].gone = game[g].gone
             /\ game'[g].seen = game[g].seen
             /\ game'[g].outcome = game[g].outcome
  <2>1. game[g] \in Rows /\ game[g].rev + 1 \in Nat /\ now + Duration \in Nat
    BY <1>2 DEF Shape, Rows
  <2>2. game'[g] = [game[g] EXCEPT !.state = "active", !.rev = @ + 1, !.bound = e,
                                   !.due = now + Duration, !.shown = now + Duration]
    BY DEF StartWave
  <2> QED
    BY <1>2, <2>1, <2>2 DEF Rows
<1>4. ASSUME NEW g \in Games
      PROVE  /\ hist'[g] \in Histories /\ hist'[g].ran = auth.epoch
             /\ hist'[g].played = hist[g].played
             /\ hist'[g].pauses = hist[g].pauses
  <2>1. hist[g] \in Histories
    BY DEF Shape
  <2>2. hist'[g] = [hist[g] EXCEPT !.ran = auth.epoch, !.how = "start"]
    BY DEF StartWave
  <2> QED
    BY <1>2, <2>1, <2>2 DEF Histories
<1>5. Shape' /\ Bounded'
  <2>1. game' \in [Games -> Rows]
    BY <1>3 DEF StartWave
  <2>2. hist' \in [Games -> Histories]
    BY <1>4 DEF StartWave
  <2> QED
    BY <1>1, <2>1, <2>2 DEF Shape, Bounded, Quiet
<1>6. ASSUME NEW g \in Games PROVE Moves(g)
  <2>1. GameSound(g) /\ game[g] \in Rows /\ hist[g] \in Histories
    BY DEF GamesInv, Shape
  <2>2. game[g].state = "ready" /\ hist[g].played = 0 /\ hist[g].pauses = 0
        /\ game[g].gone = {} /\ game[g].outcome = "none"
    BY <1>1, <2>1 DEF GameSound, WaveSound
  <2>3. Grows(g)
    BY <1>3, <2>1, <2>2 DEF Grows, Rows
  <2>4. WaveSound(g)'
    BY <1>1, <1>3, <2>2 DEF WaveSound
  <2>5. bounds.pauses * Milli \in Nat /\ 0 * Milli = 0
    <3>1. bounds.pauses * Milli \in Nat
      BY MilliGrows DEF Shape
    <3>2. 0 * Milli = 0
      BY ClockAssumption
    <3> QED
      BY <3>1, <3>2
  <2>6. ClockSound(g)'
    BY <1>1, <1>2, <1>3, <1>4, <2>1, <2>5 DEF GameSound, ClockSound, Rows, Histories
  <2>7. Until(game[g].due)' = Duration
    BY <1>1, <1>2, <1>3 DEF Until
  <2>8. TimeSound(g)'
    BY <1>2, <1>3, <1>4, <2>2, <2>5, <2>7 DEF TimeSound, Fits
  <2>9. BindSound(g)'
    BY <1>1, <1>2, <1>3, <1>4 DEF BindSound, Quiet
  <2> QED
    BY <2>3, <2>4, <2>6, <2>8, <2>9 DEF Moves, GameSound
<1> QED
  BY <1>5, <1>6

\* The operator pause rounds what is left of every running game up.
LEMMA Pauses ==
  ASSUME Shape, Bounded, GamesInv, PauseWave
  PROVE  Shape' /\ Bounded' /\ \A h \in Games : Moves(h)
<1>1. wave = "active" /\ wave' = "paused" /\ Quiet /\ now' = now
      /\ started' = started
      /\ bounds' = [bounds EXCEPT !.pauses = @ + 1]
      /\ bounds.pauses < MaxPauses
  BY DEF PauseWave, Quiet
<1>2. /\ bounds' \in [renewals : Nat, pauses : Nat, faults : Nat]
      /\ bounds'.pauses = bounds.pauses + 1 /\ bounds.pauses \in Nat
      /\ bounds'.renewals = bounds.renewals /\ bounds'.faults = bounds.faults
  BY <1>1 DEF Shape
<1>3. /\ bounds.pauses * Milli \in Nat
      /\ bounds'.pauses * Milli = bounds.pauses * Milli + Milli
  BY <1>2, MilliGrows
<1>4. ASSUME NEW g \in Games, g \notin Active
      PROVE  game'[g] = game[g] /\ hist'[g] = hist[g]
  BY <1>4 DEF PauseWave
<1>5. ASSUME NEW g \in Games, g \in Active
      PROVE  /\ Frozen(g) \in Nat
             /\ Until(game[g].due) <= Frozen(g)
             /\ Frozen(g) <= Until(game[g].due) + Milli
             /\ game'[g] \in Rows /\ game'[g].state = "paused"
             /\ game'[g].rev = game[g].rev + 1 /\ game'[g].left = Frozen(g)
             /\ game'[g].due = game[g].due /\ game'[g].shown = game[g].shown
             /\ game'[g].bound = game[g].bound /\ game'[g].seen = game[g].seen
             /\ game'[g].outcome = game[g].outcome
             /\ hist'[g] \in Histories /\ hist'[g].ran = hist[g].ran
             /\ hist'[g].pauses = hist[g].pauses + 1
             /\ hist'[g].played = hist[g].played /\ hist'[g].how = hist[g].how
  <2>1. game[g] \in Rows /\ hist[g] \in Histories /\ now \in Nat
        /\ game[g].rev + 1 \in Nat /\ hist[g].pauses + 1 \in Nat
        /\ game[g].due \in Nat
    BY DEF Shape, Rows, Histories
  <2>2. /\ Frozen(g) \in Nat /\ Until(game[g].due) <= Frozen(g)
        /\ Frozen(g) <= Until(game[g].due) + Milli
    <3>1. Frozen(g) >= Milli
      BY <1>5 DEF PauseWave
    <3> QED
      BY <2>1, <3>1, FrozenBetween
  <2>3. game'[g] = [game[g] EXCEPT !.state = "paused", !.by = "operator",
                                   !.rev = @ + 1, !.left = Frozen(g)]
    BY <1>5 DEF PauseWave
  <2>4. hist'[g] = [hist[g] EXCEPT !.pauses = @ + 1]
    BY <1>5 DEF PauseWave
  <2>5. game'[g] \in Rows /\ game'[g].state = "paused"
        /\ game'[g].rev = game[g].rev + 1 /\ game'[g].left = Frozen(g)
        /\ game'[g].due = game[g].due /\ game'[g].shown = game[g].shown
        /\ game'[g].bound = game[g].bound /\ game'[g].seen = game[g].seen
        /\ game'[g].outcome = game[g].outcome
    BY <2>1, <2>2, <2>3 DEF Rows
  <2>6. hist'[g] \in Histories /\ hist'[g].ran = hist[g].ran
        /\ hist'[g].pauses = hist[g].pauses + 1
        /\ hist'[g].played = hist[g].played /\ hist'[g].how = hist[g].how
    BY <2>1, <2>4 DEF Histories
  <2> QED
    BY <2>2, <2>5, <2>6
<1>6. Shape' /\ Bounded'
  <2>1. game' \in [Games -> Rows]
    <3>1. \A g \in Games : game'[g] \in Rows
      BY <1>4, <1>5 DEF Shape
    <3> QED
      BY <3>1 DEF PauseWave
  <2>2. hist' \in [Games -> Histories]
    <3>1. \A g \in Games : hist'[g] \in Histories
      BY <1>4, <1>5 DEF Shape
    <3> QED
      BY <3>1 DEF PauseWave
  <2> QED
    BY <1>1, <1>2, <2>1, <2>2, ExecutionAssumption DEF Shape, Bounded, Quiet
<1>7. ASSUME NEW g \in Games, g \in Active PROVE Moves(g)
  <2>1. GameSound(g) /\ game[g] \in Rows /\ hist[g] \in Histories
        /\ game[g].state = "active"
    BY <1>7 DEF GamesInv, Shape, Active
  <2>2. Grows(g)
    BY <1>5, <1>7, <2>1 DEF Grows, Rows
  <2>3. WaveSound(g)'
    BY <1>1, <1>5, <1>7, <2>1 DEF GameSound, WaveSound
  <2>4. /\ hist[g].pauses * Milli \in Nat
        /\ hist'[g].pauses * Milli = hist[g].pauses * Milli + Milli
        /\ hist[g].pauses * Milli <= bounds.pauses * Milli
    BY <1>2, <1>5, <1>7, <2>1, MilliGrows DEF GameSound, ClockSound, Histories
  <2>5. Fits(Until(game[g].due), g)
    BY <2>1 DEF GameSound, TimeSound
  <2>6. Fits(game[g].left, g)'
    <3>1. game[g].due \in Nat /\ now \in Nat /\ hist[g].played \in Nat
          /\ Duration \in Nat /\ Milli \in Nat
      BY <2>1, ClockAssumption DEF Shape, Rows, Histories
    <3>2. Until(game[g].due) \in Nat
      BY <3>1 DEF Until
    <3>3. game'[g].left = Frozen(g) /\ Frozen(g) \in Nat
          /\ Until(game[g].due) <= Frozen(g)
          /\ Frozen(g) <= Until(game[g].due) + Milli
          /\ hist'[g].played = hist[g].played
      BY <1>5, <1>7
    <3> HIDE DEF Frozen
    <3> QED
      BY <2>4, <2>5, <3>1, <3>2, <3>3 DEF Fits
  <2>7. TimeSound(g)'
    BY <1>5, <1>7, <2>1, <2>6 DEF GameSound, TimeSound, WaveSound
  <2>8. ClockSound(g)'
    <3>1. game'[g].left <= Duration + bounds'.pauses * Milli
      <4>1. game'[g].left <= Duration - hist[g].played + hist'[g].pauses * Milli
        BY <1>5, <1>7, <2>6 DEF Fits
      <4>2. hist[g].played \in Nat /\ Duration \in Nat /\ Milli \in Nat
            /\ game'[g].left \in Nat
        BY <1>5, <1>7, <2>1, ClockAssumption DEF Histories, Rows
      <4> QED
        BY <1>3, <2>4, <4>1, <4>2
    <3>2. /\ game[g].due <= now + Duration + bounds.pauses * Milli
          /\ game[g].due \in Nat /\ now \in Nat /\ Duration \in Nat /\ Milli \in Nat
      BY <2>1, ClockAssumption DEF GameSound, ClockSound, Rows, Shape
    <3>3. game'[g].due <= now' + Duration + bounds'.pauses * Milli
      BY <1>1, <1>3, <1>5, <1>7, <3>2
    <3>4. hist[g].played <= now /\ hist[g].pauses <= bounds.pauses
          /\ game[g].seen <= now /\ game[g].shown <= game[g].due
          /\ hist[g].pauses \in Nat
      BY <2>1 DEF GameSound, ClockSound, Histories
    <3>5. /\ hist'[g].played <= now' /\ hist'[g].pauses <= bounds'.pauses
          /\ game'[g].seen <= now' /\ game'[g].shown <= game'[g].due
      BY <1>1, <1>2, <1>5, <1>7, <3>4
    <3> QED
      BY <3>1, <3>3, <3>5 DEF ClockSound
  <2>9. BindSound(g)'
    BY <1>1, <1>5, <1>7, <2>1 DEF GameSound, BindSound, Quiet
  <2> QED
    BY <2>2, <2>3, <2>7, <2>8, <2>9 DEF Moves, GameSound
<1>8. ASSUME NEW g \in Games, g \notin Active PROVE Moves(g)
  <2>1. GameSound(g) /\ game[g] \in Rows /\ hist[g] \in Histories
        /\ game[g].state # "active" /\ game'[g] = game[g] /\ hist'[g] = hist[g]
    BY <1>4, <1>8 DEF GamesInv, Shape, Active
  <2>2. Grows(g)
    BY <2>1 DEF Grows, Rows
  <2>3. WaveSound(g)'
    BY <1>1, <2>1 DEF GameSound, WaveSound
  <2>4. ClockSound(g)'
    <3>1. now \in Nat /\ Duration \in Nat /\ Milli \in Nat
      BY ClockAssumption DEF Shape
    <3> QED
      BY <1>1, <1>2, <1>3, <2>1, <3>1
         DEF GameSound, ClockSound, Rows, Histories
  <2>5. TimeSound(g)' /\ BindSound(g)'
    BY <1>1, <2>1 DEF GameSound, TimeSound, BindSound, Fits, Quiet
  <2> QED
    BY <2>2, <2>3, <2>4, <2>5 DEF Moves, GameSound
<1> QED
  BY <1>6, <1>7, <1>8

\* The operator resume runs the connected games under the epoch it fences.
LEMMA Resumes ==
  ASSUME Shape, Bounded, GamesInv, NEW e \in 1 .. auth.epoch, ResumeWave(e)
  PROVE  Shape' /\ Bounded' /\ \A h \in Games : Moves(h)
<1>1. wave = "paused" /\ wave' = "active" /\ Quiet
      /\ UNCHANGED <<now, started, bounds>> /\ RebindFence(e)
  BY DEF ResumeWave, Quiet
<1>2. auth.epoch \in Nat /\ e \in Nat /\ now \in Nat
  BY DEF Shape, Leases
<1>3. ASSUME NEW g \in Games
      PROVE  GameSound(g) /\ game[g] \in Rows /\ hist[g] \in Histories
             /\ game[g].rev \in Nat /\ game[g].state \notin {"ready", "active"}
             /\ (g \in Paused <=> game[g].state = "paused")
  BY <1>1 DEF GamesInv, Shape, Rows, GameSound, WaveSound, Paused
<1>4. ASSUME NEW g \in Connected
      PROVE  /\ g \in Games /\ game[g].state = "paused" /\ game[g].gone = {}
             /\ e = auth.epoch
             /\ game'[g] \in Rows /\ game'[g].state = "active"
             /\ game'[g].rev = game[g].rev + 1 /\ game'[g].bound = e
             /\ game'[g].due = now + game[g].left
             /\ game'[g].shown = now + Floor(game[g].left)
             /\ game'[g].left = game[g].left /\ game'[g].gone = game[g].gone
             /\ game'[g].seen = game[g].seen
             /\ game'[g].outcome = game[g].outcome
             /\ hist'[g] \in Histories /\ hist'[g].ran = auth.epoch
             /\ hist'[g].played = hist[g].played
             /\ hist'[g].pauses = hist[g].pauses
  <2>1. g \in Games /\ game[g].state = "paused" /\ game[g].gone = {}
        /\ game[g] \in Rows /\ hist[g] \in Histories
    BY <1>4 DEF Connected, Paused, Shape
  <2>2. e = auth.epoch
    BY <1>1, <1>4 DEF RebindFence, Fence
  <2>3. game'[g] = [Resumed(g) EXCEPT !.bound = e, !.receipt = AfterOperator(g)]
    BY <1>4, <2>1 DEF ResumeWave
  <2>4. AfterOperator(g) \in {"none", "current", "stale"}
    BY <2>1 DEF AfterOperator, Rows
  <2>5. Resumed(g) \in Rows
    BY <2>1, ResumedRow
  <2>6. /\ game'[g] \in Rows /\ game'[g].bound = e
        /\ game'[g].state = Resumed(g).state /\ game'[g].rev = Resumed(g).rev
        /\ game'[g].due = Resumed(g).due /\ game'[g].shown = Resumed(g).shown
        /\ game'[g].left = Resumed(g).left /\ game'[g].gone = Resumed(g).gone
        /\ game'[g].seen = Resumed(g).seen
        /\ game'[g].outcome = Resumed(g).outcome
    BY <1>2, <2>3, <2>4, <2>5 DEF Rows
  <2>7. hist'[g] = [hist[g] EXCEPT !.ran = auth.epoch, !.how = "operator"]
    BY <1>4, <2>1 DEF ResumeWave
  <2>8. hist'[g] \in Histories /\ hist'[g].ran = auth.epoch
        /\ hist'[g].played = hist[g].played /\ hist'[g].pauses = hist[g].pauses
    BY <1>2, <2>1, <2>7 DEF Histories
  <2> QED
    BY <2>1, <2>2, <2>6, <2>8, ResumedRow
<1>5. ASSUME NEW g \in Games, g \notin Connected
      PROVE  /\ hist'[g] = hist[g] /\ game'[g] \in Rows
             /\ game'[g].state = game[g].state /\ game'[g].rev = game[g].rev
             /\ game'[g].bound = game[g].bound /\ game'[g].due = game[g].due
             /\ game'[g].shown = game[g].shown /\ game'[g].left = game[g].left
             /\ game'[g].gone = game[g].gone /\ game'[g].seen = game[g].seen
             /\ game'[g].outcome = game[g].outcome
             /\ game[g].state = "settled" => game'[g] = game[g]
  <2>1. game[g] \in Rows
    BY <1>3
  <2>2. game'[g] = [game[g] EXCEPT !.by = "disconnect"] \/ game'[g] = game[g]
    BY <1>5 DEF ResumeWave
  <2>3. game[g].state = "settled" => game'[g] = game[g]
    BY <1>5 DEF ResumeWave, Absent, Paused
  <2>4. hist'[g] = hist[g]
    BY <1>5 DEF ResumeWave
  <2> QED
    BY <2>1, <2>2, <2>3, <2>4 DEF Rows
<1>6. Shape' /\ Bounded'
  <2>1. game' \in [Games -> Rows]
    <3>1. \A g \in Games : game'[g] \in Rows
      BY <1>4, <1>5
    <3> QED
      BY <3>1 DEF ResumeWave
  <2>2. hist' \in [Games -> Histories]
    <3>1. \A g \in Games : hist'[g] \in Histories
      BY <1>4, <1>5 DEF Shape
    <3> QED
      BY <3>1 DEF ResumeWave
  <2> QED
    BY <1>1, <2>1, <2>2 DEF Shape, Bounded, Quiet
<1>7. ASSUME NEW g \in Connected PROVE Moves(g)
  <2>1. g \in Games /\ GameSound(g) /\ game[g].state = "paused"
        /\ g \in Paused /\ game[g].rev \in Nat /\ game[g].outcome = "none"
    BY <1>3, <1>4, <1>7 DEF Paused, GameSound, WaveSound
  <2>2. Grows(g)
    BY <1>4, <1>7, <2>1 DEF Grows
  <2>3. WaveSound(g)'
    BY <1>1, <1>4, <1>7, <2>1 DEF WaveSound
  <2>4. ClockSound(g)' /\ TimeSound(g)'
    <3>1. game'[g].seen \in {game[g].seen, now} /\ game'[g].outcome = "none"
      BY <1>4, <1>7, <2>1
    <3> QED
      BY <1>1, <1>4, <1>7, <2>1, <3>1, ResumedClock
  <2>5. BindSound(g)'
    BY <1>1, <1>2, <1>4, <1>7 DEF BindSound, Quiet
  <2> QED
    BY <2>2, <2>3, <2>4, <2>5 DEF Moves, GameSound
<1>8. ASSUME NEW g \in Games, g \notin Connected PROVE Moves(g)
  <2>1. GameSound(g) /\ game[g].rev \in Nat
        /\ game[g].state \notin {"ready", "active"}
        /\ (g \in Paused <=> game[g].state = "paused")
    BY <1>3, <1>8
  <2>2. game[g].state = "paused" => game[g].gone # {}
    BY <1>8, <2>1 DEF Connected
  <2>3. Grows(g)
    BY <1>5, <1>8, <2>1 DEF Grows
  <2>4. WaveSound(g)'
    BY <1>1, <1>5, <1>8, <2>1, <2>2 DEF GameSound, WaveSound
  <2>5. ClockSound(g)'
    BY <1>1, <1>5, <1>8, <2>1 DEF GameSound, ClockSound
  <2>6. TimeSound(g)' /\ BindSound(g)'
    BY <1>1, <1>5, <1>8, <2>1 DEF GameSound, TimeSound, BindSound, Fits, Quiet
  <2> QED
    BY <2>3, <2>4, <2>5, <2>6 DEF Moves, GameSound
<1>9. Connected \subseteq Games
  BY DEF Connected, Paused
<1> QED
  BY <1>6, <1>7, <1>8

\* A tick takes from a running clock what it adds to the time played.
LEMMA Ticks ==
  ASSUME Shape, Bounded, GamesInv, Tick
  PROVE  Shape' /\ Bounded' /\ \A h \in Games : Moves(h)
<1>1. now' = now + 1 /\ now < MaxTime /\ now \in Nat /\ Quiet
      /\ UNCHANGED <<wave, started, game, bounds>> /\ MaxTime \in Nat
      /\ started \in Nat
  BY ExecutionAssumption DEF Tick, Quiet, Shape
<1>2. ASSUME NEW g \in Games
      PROVE  /\ hist'[g] \in Histories /\ hist'[g].ran = hist[g].ran
             /\ hist'[g].how = hist[g].how /\ hist'[g].pauses = hist[g].pauses
             /\ hist'[g].played = IF g \in Active /\ now < game[g].due
                                    THEN hist[g].played + 1 ELSE hist[g].played
             /\ hist[g].played \in Nat
  <2>1. hist[g] \in Histories /\ hist[g].played + 1 \in Nat
    BY DEF Shape, Histories
  <2>2. hist'[g] = IF g \in Active /\ now < game[g].due
                     THEN [hist[g] EXCEPT !.played = @ + 1] ELSE hist[g]
    BY DEF Tick
  <2> QED
    BY <2>1, <2>2 DEF Histories
<1>3. Shape' /\ Bounded'
  <2>1. hist' \in [Games -> Histories]
    BY <1>2 DEF Tick
  <2> QED
    BY <1>1, <2>1 DEF Shape, Bounded, Quiet
<1>4. ASSUME NEW g \in Games PROVE Moves(g)
  <2>1. GameSound(g) /\ game[g] \in Rows /\ game[g].due \in Nat
        /\ game'[g] = game[g] /\ Duration \in Nat
        /\ (g \in Active <=> game[g].state = "active")
    BY <1>1, ClockAssumption DEF GamesInv, Shape, Rows, Active
  <2>2. Grows(g)
    BY <2>1 DEF Grows, Rows
  <2>3. WaveSound(g)'
    BY <1>1, <1>2, <2>1 DEF GameSound, WaveSound
  <2>4. bounds.pauses * Milli \in Nat /\ hist[g].pauses * Milli \in Nat
    BY MilliGrows DEF Shape, Histories
  <2>5. ClockSound(g)'
    BY <1>1, <1>2, <2>1, <2>4 DEF GameSound, ClockSound, Rows
  <2>6. TimeSound(g)'
    <3>1. game[g].state = "active" => Fits(Until(game[g].due), g)'
      <4>1. CASE now < game[g].due
        BY <1>1, <1>2, <2>1, <2>4, <4>1
           DEF GameSound, TimeSound, Fits, Until
      <4>2. CASE ~(now < game[g].due)
        BY <1>1, <1>2, <2>1, <2>4, <4>2
           DEF GameSound, TimeSound, Fits, Until
      <4> QED
        BY <4>1, <4>2
    <3>2. game[g].state = "paused" => Fits(game[g].left, g)'
      BY <1>2, <2>1 DEF GameSound, TimeSound, Fits
    <3>3. game[g].outcome = "timeout" => hist'[g].played >= Duration
      BY <1>2, <2>1 DEF GameSound, TimeSound
    <3> QED
      BY <2>1, <3>1, <3>2, <3>3 DEF TimeSound
  <2>7. BindSound(g)'
    BY <1>1, <1>2, <2>1 DEF GameSound, BindSound, Quiet
  <2> QED
    BY <2>2, <2>3, <2>5, <2>6, <2>7 DEF Moves, GameSound
<1> QED
  BY <1>3, <1>4

-----------------------------------------------------------------------------
(* Steps of the recovery scans *)

\* A lease row only follows another, and only a new row is live again.
LeaseGrows ==
  /\ auth' \in Leases /\ auth'.epoch >= auth.epoch
  /\ \/ auth'.revision > auth.revision
     \/ /\ auth'.revision = auth.revision /\ auth'.epoch = auth.epoch
        /\ auth'.live => auth.live

\* What a scan needs of any step around it.
Around == LeaseGrows /\ game' \in [Games -> Rows] /\ \A g \in Games : Grows(g)

\* A scan at work holds a list of games of the wave.
LEMMA WorkTyped ==
  ASSUME ScansTyped, NEW p \in Procs, scan[p].at = "work"
  PROVE  /\ scan[p] \in Works /\ scan[p].epoch \in Nat /\ scan[p].lease \in Nat
         /\ scan[p].load \in Loads
         /\ Todo(p) = DOMAIN scan[p].todo /\ Todo(p) \subseteq Games
         /\ scan[p].todo \in [Todo(p) -> Candidates]
<1>1. scan[p] \in Scans
  BY DEF ScansTyped
<1>2. scan[p] \in Works
  BY <1>1 DEF Scans, Resting
<1>3. scan[p].todo \in UNION {[S -> Candidates] : S \in SUBSET Games}
  BY <1>2 DEF Works
<1>4. PICK S \in SUBSET Games : scan[p].todo \in [S -> Candidates]
  BY <1>3
<1>5. Todo(p) = S
  BY <1>4 DEF Todo
<1> QED
  BY <1>2, <1>4, <1>5 DEF Works

\* A step around a scan leaves it sound.
LEMMA ScanKept ==
  ASSUME Shape, ScansTyped, Around, NEW p \in Procs, ScanSound(p),
         scan'[p] = scan[p]
  PROVE  ScanSound(p)'
<1> SUFFICES ASSUME scan[p].at = "work" PROVE ListSound(p)' /\ LoadSound(p)'
  BY DEF ScanSound
<1>1. /\ scan[p].epoch \in Nat /\ scan[p].lease \in Nat
      /\ scan[p].load \in Loads
      /\ Todo(p) = DOMAIN scan[p].todo /\ Todo(p) \subseteq Games
      /\ scan[p].todo \in [Todo(p) -> Candidates]
  BY WorkTyped
<1>2. ListSound(p) /\ LoadSound(p)
  BY DEF ScanSound
<1>3. auth \in Leases /\ auth' \in Leases /\ auth.revision \in Nat
      /\ auth'.revision \in Nat
  BY DEF Shape, Around, LeaseGrows, Leases
<1>4. scan[p].lease <= auth.revision
  BY <1>2 DEF ListSound
<1>5. auth'.revision = scan[p].lease =>
        /\ auth'.revision = auth.revision /\ auth'.epoch = auth.epoch
        /\ auth'.live => auth.live
  BY <1>1, <1>3, <1>4 DEF Around, LeaseGrows
<1>6. auth.revision <= auth'.revision
  BY <1>3 DEF Around, LeaseGrows
<1>7. ASSUME NEW g \in Todo(p)
      PROVE  /\ g \in Games /\ scan[p].todo[g].rev \in Nat
             /\ game[g].rev \in Nat /\ game'[g].rev \in Nat
             /\ scan[p].todo[g].rev <= game[g].rev /\ Grows(g)
  BY <1>1, <1>2, <1>7 DEF ListSound, Candidates, Shape, Around, Rows
<1>8. ListSound(p)'
  <2>1. scan'[p].lease <= auth'.revision
    BY <1>1, <1>3, <1>4, <1>6
  <2>2. ASSUME NEW g \in Todo(p)
        PROVE  /\ auth'.revision = scan[p].lease => auth'.epoch = scan[p].epoch
               /\ scan[p].todo[g].rev <= game'[g].rev
               /\ scan[p].todo[g].rev = game'[g].rev =>
                    /\ scan[p].todo[g].state = game'[g].state
                    /\ scan[p].todo[g].bound = game'[g].bound
                    /\ scan[p].todo[g].due = game'[g].shown
    <3>1. auth'.revision = scan[p].lease => auth'.epoch = scan[p].epoch
      BY <1>1, <1>2, <1>5, <2>2 DEF ListSound
    <3>2. scan[p].todo[g].rev <= game'[g].rev
      BY <1>7, <2>2 DEF Grows
    <3>3. ASSUME scan[p].todo[g].rev = game'[g].rev
          PROVE  /\ scan[p].todo[g].state = game'[g].state
                 /\ scan[p].todo[g].bound = game'[g].bound
                 /\ scan[p].todo[g].due = game'[g].shown
      <4>1. game[g].rev = game'[g].rev /\ scan[p].todo[g].rev = game[g].rev
        BY <1>7, <2>2, <3>3 DEF Grows
      <4>2. /\ scan[p].todo[g].state = game[g].state
            /\ scan[p].todo[g].bound = game[g].bound
            /\ scan[p].todo[g].due = game[g].shown
        BY <1>1, <1>2, <2>2, <4>1 DEF ListSound
      <4>3. Grows(g)
        BY <1>7, <2>2
      <4> QED
        BY <4>1, <4>2, <4>3 DEF Grows
    <3> QED
      BY <3>1, <3>2, <3>3
  <2> QED
    BY <1>1, <2>1, <2>2 DEF ListSound
<1>9. LoadSound(p)'
  <2> SUFFICES ASSUME NEW g \in Games, At(p, g)'
               PROVE  /\ Loaded(p)' =>
                           /\ scan[p].todo[g].state = "active"
                           /\ scan[p].lease <= scan[p].load.lease
                           /\ scan[p].load.lease <= auth'.revision
                           /\ scan[p].todo[g].rev <= scan[p].load.rev
                           /\ scan[p].load.rev <= game'[g].rev
                      /\ ~Loaded(p)' /\ scan[p].load.try > 0 => Overtaken(p, g)'
    BY DEF LoadSound
  <2>1. At(p, g) /\ g \in Todo(p) /\ (Loaded(p)' <=> Loaded(p))
    BY DEF At, Todo, Loaded
  <2>2. game[g].rev <= game'[g].rev /\ game[g].rev \in Nat /\ game'[g].rev \in Nat
        /\ scan[p].todo[g].rev \in Nat /\ scan[p].todo[g].rev <= game[g].rev
    BY <1>7, <2>1 DEF Grows
  <2>3. ASSUME Loaded(p)
        PROVE  /\ scan[p].todo[g].state = "active"
               /\ scan[p].lease <= scan[p].load.lease
               /\ scan[p].load.lease <= auth'.revision
               /\ scan[p].todo[g].rev <= scan[p].load.rev
               /\ scan[p].load.rev <= game'[g].rev
    <3>1. scan[p].load.lease \in Nat /\ scan[p].load.rev \in Nat
      BY <1>1, <2>3 DEF Loads, Loaded
    <3>2. /\ scan[p].todo[g].state = "active"
          /\ scan[p].lease <= scan[p].load.lease
          /\ scan[p].load.lease <= auth.revision
          /\ scan[p].todo[g].rev <= scan[p].load.rev
          /\ scan[p].load.rev <= game[g].rev
      BY <1>2, <2>1, <2>3 DEF LoadSound
    <3> QED
      BY <1>3, <1>6, <2>2, <3>1, <3>2
  <2>4. ASSUME ~Loaded(p), scan[p].load.try > 0 PROVE Overtaken(p, g)'
    <3>1. Overtaken(p, g)
      BY <1>2, <2>1, <2>4 DEF LoadSound
    <3> QED
      BY <1>1, <1>3, <1>4, <1>5, <1>6, <2>2, <3>1 DEF Overtaken
  <2> QED
    BY <2>1, <2>3, <2>4
<1> QED
  BY <1>8, <1>9

\* One scan moves, the others are only stepped around.
LEMMA OneScan ==
  ASSUME Shape, ScansTyped, ScansInv, Around, NEW p \in Procs, NEW s \in Scans,
         scan' = [scan EXCEPT ![p] = s], ScanSound(p)'
  PROVE  ScansTyped' /\ ScansInv'
<1>1. ScansTyped'
  BY DEF ScansTyped
<1>2. ASSUME NEW q \in Procs, q # p PROVE ScanSound(q)'
  <2>1. scan'[q] = scan[q]
    BY <1>2 DEF ScansTyped
  <2> QED
    BY <2>1, ScanKept DEF ScansInv
<1> QED
  BY <1>1, <1>2 DEF ScansInv

\* A step that no scan takes leaves every scan sound.
LEMMA NoScan ==
  ASSUME Shape, ScansTyped, ScansInv, Around, scan' = scan
  PROVE  ScansTyped' /\ ScansInv'
BY ScanKept DEF ScansTyped, ScansInv

\* A scan that is over or has not listed anything is sound.
LEMMA IdleScan ==
  ASSUME Shape, ScansTyped, ScansInv, Around, NEW p \in Procs,
         \/ scan' = [scan EXCEPT ![p] = Resting]
         \/ \E e \in Nat : scan' = [scan EXCEPT ![p] = [at |-> "list", epoch |-> e]]
  PROVE  ScansTyped' /\ ScansInv'
<1>1. PICK s \in Scans : scan' = [scan EXCEPT ![p] = s] /\ s.at # "work"
  <2>1. CASE scan' = [scan EXCEPT ![p] = Resting]
    <3>1. Resting \in Scans
      BY DEF Scans
    <3>2. Resting.at # "work"
      BY DEF Resting
    <3> QED
      BY <2>1, <3>1, <3>2
  <2>2. ASSUME NEW e \in Nat,
               scan' = [scan EXCEPT ![p] = [at |-> "list", epoch |-> e]]
        PROVE  \E s \in Scans : scan' = [scan EXCEPT ![p] = s] /\ s.at # "work"
    <3>1. [at |-> "list", epoch |-> e] \in Scans
      BY DEF Scans
    <3> QED
      BY <2>2, <3>1
  <2> QED
    BY <2>1, <2>2
<1>2. scan'[p].at # "work"
  BY <1>1 DEF ScansTyped
<1> QED
  BY <1>1, <1>2, OneScan DEF ScanSound

\* The list is what is stored, under the lease that is live.
LEMMA Lists ==
  ASSUME Shape, ScansTyped, ScansInv, Around, NEW p \in Procs, ListGames(p)
  PROVE  ScansTyped' /\ ScansInv'
<1> DEFINE listed == IF Fence(scan[p].epoch) /\ wave = "active"
                       THEN Unsettled ELSE {}
           f == [g \in listed |-> Candidate(g)]
           s == [at |-> "work", epoch |-> scan[p].epoch, lease |-> auth.revision,
                 todo |-> f, load |-> NoLoad]
<1>1. scan[p].at = "list" /\ UNCHANGED <<auth, game>>
  BY DEF ListGames
<1>2. scan[p].epoch \in Nat /\ auth.revision \in Nat
  <2>1. scan[p] \in Scans
    BY DEF ScansTyped
  <2>2. scan[p] \in [at : {"list"}, epoch : Nat]
    BY <1>1, <2>1 DEF Scans, Resting, Works
  <2> QED
    BY <2>2 DEF Shape, Leases
<1>3. listed \subseteq Games
  BY DEF Unsettled
<1>4. ASSUME NEW g \in listed PROVE Candidate(g) \in Candidates
  <2>1. game[g] \in Rows
    BY <1>3, <1>4 DEF Shape
  <2> QED
    BY <2>1 DEF Candidate, Candidates, Rows
<1>5. f \in [listed -> Candidates]
  BY <1>4
<1>6. NoLoad \in Loads /\ NoLoad.try = 0 /\ "rev" \notin DOMAIN NoLoad
  BY DEF NoLoad, Loads
<1>7. scan' = [scan EXCEPT ![p] = s]
  BY DEF ListGames
<1> HIDE DEF f
<1>8. s \in Scans
  <2>1. f \in UNION {[S -> Candidates] : S \in SUBSET Games}
    BY <1>3, <1>5
  <2>2. s \in Works
    BY <1>2, <1>6, <2>1 DEF Works
  <2> QED
    BY <2>2 DEF Scans
<1>9. scan'[p] = s
  BY <1>7 DEF ScansTyped
<1>10. ListSound(p)'
  <2>1. ASSUME NEW g \in listed
        PROVE  /\ auth.epoch = scan[p].epoch
               /\ f[g].rev = game[g].rev /\ f[g].state = game[g].state
               /\ f[g].bound = game[g].bound /\ f[g].due = game[g].shown
               /\ game[g].rev \in Nat
    <3>1. auth.epoch = scan[p].epoch
      BY <2>1 DEF Fence
    <3>2. f[g] = Candidate(g)
      BY <2>1 DEF f
    <3>3. game[g] \in Rows
      BY <1>3, <2>1 DEF Shape
    <3> QED
      BY <3>1, <3>2, <3>3 DEF Candidate, Rows
  <2>2. DOMAIN f = listed
    BY DEF f
  <2> HIDE DEF listed
  <2> QED
    BY <1>1, <1>2, <1>9, <2>1, <2>2 DEF ListSound
<1>11. LoadSound(p)'
  <2>1. scan'[p].load = NoLoad
    BY <1>9
  <2> QED
    BY <1>6, <2>1 DEF LoadSound, Loaded
<1> QED
  BY <1>7, <1>8, <1>10, <1>11, OneScan DEF ScanSound

\* What is left of a list is as sound as the list was.
LEMMA Handles ==
  ASSUME Shape, ScansTyped, ScansInv, Around, NEW p \in Procs, NEW g \in Games,
         At(p, g), Handled(p, g), auth' = auth
  PROVE  ScansTyped' /\ ScansInv'
<1> DEFINE rest == DOMAIN scan[p].todo \ {g}
           f == Restrict(scan[p].todo, rest)
           s == [scan[p] EXCEPT !.todo = f, !.load = NoLoad]
<1>1. scan[p].at = "work"
  BY DEF At, Todo
<1>2. /\ scan[p] \in Works
      /\ Todo(p) = DOMAIN scan[p].todo /\ Todo(p) \subseteq Games
      /\ scan[p].todo \in [Todo(p) -> Candidates]
  BY <1>1, WorkTyped
<1>3. f \in [rest -> Candidates] /\ DOMAIN f = rest /\ rest \subseteq Games
      /\ \A h \in rest : f[h] = scan[p].todo[h]
  BY <1>2 DEF Restrict
<1>4. NoLoad \in Loads /\ NoLoad.try = 0 /\ "rev" \notin DOMAIN NoLoad
  BY DEF NoLoad, Loads
<1>5. scan' = [scan EXCEPT ![p] = s]
  <2>1. f = Restrict(scan[p].todo, Todo(p) \ {g})
    BY <1>2
  <2>2. scan' = [scan EXCEPT ![p] = [scan[p] EXCEPT
                   !.todo = Restrict(scan[p].todo, Todo(p) \ {g}), !.load = NoLoad]]
    BY DEF Handled, ScansTyped
  <2> QED
    BY <2>1, <2>2
<1> HIDE DEF f
<1>6. s \in Works /\ s.at = "work" /\ s.epoch = scan[p].epoch
      /\ s.lease = scan[p].lease /\ s.todo = f /\ s.load = NoLoad
  <2>1. f \in UNION {[S -> Candidates] : S \in SUBSET Games}
    BY <1>3
  <2> QED
    BY <1>2, <1>4, <2>1 DEF Works
<1>7. scan'[p] = s
  BY <1>5 DEF ScansTyped
<1> HIDE DEF s
<1>8. ListSound(p)'
  <2>1. ListSound(p)
    BY <1>1 DEF ScansInv, ScanSound
  <2>2. ASSUME NEW h \in rest
        PROVE  /\ auth.revision = scan[p].lease => auth.epoch = scan[p].epoch
               /\ f[h].rev <= game'[h].rev
               /\ f[h].rev = game'[h].rev =>
                    /\ f[h].state = game'[h].state
                    /\ f[h].bound = game'[h].bound
                    /\ f[h].due = game'[h].shown
    <3>1. h \in DOMAIN scan[p].todo /\ h \in Games /\ f[h] = scan[p].todo[h]
      BY <1>3, <2>2
    <3>2. Grows(h) /\ game[h].rev \in Nat /\ game'[h].rev \in Nat
      BY <3>1 DEF Around, Shape, Rows
    <3>3. scan[p].todo[h].rev \in Nat
      BY <1>2, <3>1 DEF Candidates
    <3>4. /\ auth.revision = scan[p].lease => auth.epoch = scan[p].epoch
          /\ scan[p].todo[h].rev <= game[h].rev
          /\ scan[p].todo[h].rev = game[h].rev =>
               /\ scan[p].todo[h].state = game[h].state
               /\ scan[p].todo[h].bound = game[h].bound
               /\ scan[p].todo[h].due = game[h].shown
      BY <2>1, <3>1 DEF ListSound
    <3>5. ASSUME f[h].rev = game'[h].rev
          PROVE  game[h].rev = game'[h].rev /\ scan[p].todo[h].rev = game[h].rev
      BY <3>1, <3>2, <3>3, <3>4, <3>5 DEF Grows
    <3> QED
      BY <3>1, <3>2, <3>3, <3>4, <3>5 DEF Grows
  <2>3. scan[p].lease <= auth'.revision
    BY <2>1 DEF ListSound
  <2> HIDE DEF rest
  <2> QED
    BY <1>3, <1>6, <1>7, <2>2, <2>3 DEF ListSound
<1>9. LoadSound(p)'
  BY <1>4, <1>6, <1>7 DEF LoadSound, Loaded
<1>10. ScanSound(p)' /\ s \in Scans
  BY <1>6, <1>8, <1>9 DEF ScanSound, Scans
<1> QED
  BY <1>5, <1>10, OneScan

\* A scan only goes back to load a game again because something overtook it.
LEMMA ConflictIsOvertaken ==
  ASSUME Shape, ScansTyped, GamesInv, NEW p \in Procs, ScanSound(p),
         NEW g \in Games, Replays(p, g), Loaded(p), ~CommitMatches(p, g)
  PROVE  Overtaken(p, g)
<1>1. scan[p].at = "work" /\ g \in Todo(p) /\ At(p, g)
      /\ scan[p].todo[g].state = "active"
  BY DEF Replays, At, Todo
<1>2. /\ scan[p].lease \in Nat /\ scan[p].load \in Loads
      /\ Todo(p) = DOMAIN scan[p].todo
      /\ scan[p].todo \in [Todo(p) -> Candidates]
  BY <1>1, WorkTyped
<1>3. scan[p].load.lease \in Nat /\ scan[p].load.rev \in Nat
  BY <1>2 DEF Loads, Loaded
<1>4. auth.revision \in Nat /\ game[g].rev \in Nat /\ scan[p].todo[g].rev \in Nat
  BY <1>1, <1>2 DEF Shape, Leases, Rows, Candidates
<1>5. ListSound(p) /\ LoadSound(p)
  BY <1>1 DEF ScanSound
<1> SUFFICES ASSUME auth.revision = scan[p].lease, auth.live,
                    game[g].rev = scan[p].todo[g].rev
             PROVE  CommitMatches(p, g)
  BY DEF Overtaken
<1>6. /\ auth.epoch = scan[p].epoch /\ game[g].state = "active"
      /\ game[g].bound = scan[p].todo[g].bound
  BY <1>1, <1>2, <1>5 DEF ListSound
<1>7. wave = "active"
  BY <1>6 DEF GamesInv, GameSound, WaveSound
<1>8. auth.revision = scan[p].load.lease /\ game[g].rev = scan[p].load.rev
  BY <1>1, <1>3, <1>4, <1>5 DEF LoadSound
<1> QED
  BY <1>6, <1>7, <1>8 DEF CommitMatches, FenceRow, Active

\* A scan loads a game, or goes back to load it again.
LEMMA LoadMoves ==
  ASSUME Shape, ScansTyped, ScansInv, GamesInv, Around,
         NEW p \in Procs, NEW g \in Games,
         ReplayLoad(p, g) \/ ReplayConflict(p, g)
  PROVE  ScansTyped' /\ ScansInv'
<1>1. /\ At(p, g) /\ g \in Todo(p) /\ scan[p].at = "work"
      /\ scan[p].todo[g].state = "active"
      /\ UNCHANGED <<auth, game>>
  BY DEF ReplayLoad, ReplayConflict, Replays, At, Todo
<1>2. /\ scan[p] \in Works /\ scan[p].lease \in Nat /\ scan[p].load \in Loads
      /\ Todo(p) = DOMAIN scan[p].todo /\ Todo(p) \subseteq Games
      /\ scan[p].todo \in [Todo(p) -> Candidates]
  BY <1>1, WorkTyped
<1>3. scan[p].load.try \in Nat
  BY <1>2 DEF Loads
<1>4. auth.revision \in Nat /\ game[g].rev \in Nat /\ scan[p].todo[g].rev \in Nat
  BY <1>1, <1>2 DEF Shape, Leases, Rows, Candidates
<1>5. ListSound(p)
  BY <1>1 DEF ScansInv, ScanSound
<1>6. scan[p].lease <= auth.revision /\ scan[p].todo[g].rev <= game[g].rev
  BY <1>1, <1>2, <1>5 DEF ListSound
<1>7. PICK l \in Loads :
        /\ scan' = [scan EXCEPT ![p].load = l]
        /\ "rev" \in DOMAIN l =>
             /\ scan[p].lease <= l.lease /\ l.lease <= auth.revision
             /\ scan[p].todo[g].rev <= l.rev /\ l.rev <= game[g].rev
        /\ "rev" \notin DOMAIN l => Overtaken(p, g)
  <2>1. CASE ReplayLoad(p, g)
    <3> DEFINE l == [try |-> scan[p].load.try + 1, rev |-> game[g].rev,
                     lease |-> auth.revision]
    <3>1. scan' = [scan EXCEPT ![p].load = l]
      BY <2>1 DEF ReplayLoad
    <3>2. l \in Loads /\ "rev" \in DOMAIN l
      BY <1>3, <1>4 DEF Loads
    <3>3. l.rev = game[g].rev /\ l.lease = auth.revision
      OBVIOUS
    <3> HIDE DEF l
    <3>4. /\ scan[p].lease <= l.lease /\ l.lease <= auth.revision
          /\ scan[p].todo[g].rev <= l.rev /\ l.rev <= game[g].rev
      BY <1>4, <1>6, <3>3
    <3> QED
      BY <3>1, <3>2, <3>4
  <2>2. CASE ReplayConflict(p, g)
    <3> DEFINE l == [try |-> scan[p].load.try]
    <3>1. scan' = [scan EXCEPT ![p].load = l]
      BY <2>2 DEF ReplayConflict
    <3>2. l \in Loads /\ "rev" \notin DOMAIN l
      BY <1>3 DEF Loads
    <3>3. Overtaken(p, g)
      BY <2>2, ConflictIsOvertaken DEF ReplayConflict, ScansInv, Loaded
    <3> HIDE DEF l
    <3> QED
      BY <3>1, <3>2, <3>3
  <2> QED
    BY <2>1, <2>2
<1> DEFINE s == [scan[p] EXCEPT !.load = l]
<1>8. scan' = [scan EXCEPT ![p] = s]
  BY <1>7 DEF ScansTyped
<1>9. /\ s \in Works /\ s.at = "work" /\ s.epoch = scan[p].epoch
      /\ s.lease = scan[p].lease /\ s.todo = scan[p].todo /\ s.load = l
  BY <1>2 DEF Works
<1>10. scan'[p] = s
  BY <1>8 DEF ScansTyped
<1> HIDE DEF s
<1>11. ListSound(p)'
  BY <1>1, <1>5, <1>9, <1>10 DEF ListSound
<1>12. LoadSound(p)'
  <2>1. ASSUME NEW h \in Games, At(p, h)' PROVE h = g
    <3>1. /\ h \in Todo(p) /\ \A k \in Todo(p) : h <= k
          /\ \A k \in Todo(p) : g <= k
      BY <1>1, <1>2, <1>9, <1>10, <2>1 DEF At, Todo
    <3>2. h <= g /\ g <= h /\ h \in Nat /\ g \in Nat
      BY <1>1, <3>1, ExecutionAssumption
    <3> QED
      BY <3>2
  <2>2. "rev" \in DOMAIN l =>
          /\ scan[p].todo[g].state = "active"
          /\ scan[p].lease <= l.lease /\ l.lease <= auth.revision
          /\ scan[p].todo[g].rev <= l.rev /\ l.rev <= game[g].rev
    BY <1>1, <1>7
  <2>3. "rev" \notin DOMAIN l => Overtaken(p, g)'
    BY <1>1, <1>7, <1>9, <1>10 DEF Overtaken
  <2> QED
    BY <1>1, <1>9, <1>10, <2>1, <2>2, <2>3 DEF LoadSound, Loaded
<1>13. ScanSound(p)' /\ s \in Scans
  BY <1>9, <1>11, <1>12 DEF ScanSound, Scans
<1> QED
  BY <1>8, <1>13, OneScan

-----------------------------------------------------------------------------
(* The inductive invariant *)

\* The invariant holds when nothing has started.
LEMMA InitSound == Init => IInv
<1> SUFFICES ASSUME Init PROVE IInv
  OBVIOUS
<1>1. Shape
  BY DEF Init, Shape, Leases, Rows, Histories
<1>2. Bounded
  BY ExecutionAssumption DEF Init, Bounded
<1>3. ScansTyped /\ ScansInv
  BY DEF Init, ScansTyped, Scans, ScansInv, ScanSound, Resting
<1>4. ASSUME NEW g \in Games PROVE GameSound(g)
  <2>1. bounds.pauses * Milli \in Nat
    BY <1>1, MilliGrows DEF Shape
  <2>2. Duration \in Nat
    BY ClockAssumption
  <2> QED
    BY <2>1, <2>2 DEF Init, GameSound, WaveSound, ClockSound, TimeSound, BindSound
<1> QED
  BY <1>1, <1>2, <1>3, <1>4 DEF IInv, GamesInv

\* The steps of the games around the scans.
GameStep ==
  \/ \E e \in 1 .. auth.epoch : StartWave(e) \/ ResumeWave(e)
  \/ PauseWave
  \/ \E g \in Games :
       \/ \E m \in Players : PlayerStep(g, m)
       \/ ExpireReconnect(g) \/ Solve(g) \/ Timeout(g)
  \/ Tick

\* Steps of the games leave the games sound and the scans where they are.
LEMMA GameStepsMove ==
  ASSUME Shape, Bounded, GamesInv, GameStep
  PROVE  /\ Shape' /\ Bounded' /\ \A h \in Games : Moves(h)
         /\ Quiet /\ scan' = scan
<1>1. ASSUME NEW e \in 1 .. auth.epoch, StartWave(e) \/ ResumeWave(e)
      PROVE  /\ Shape' /\ Bounded' /\ \A h \in Games : Moves(h)
             /\ Quiet /\ scan' = scan
  BY <1>1, Starts, Resumes DEF StartWave, ResumeWave, Quiet
<1>2. CASE PauseWave
  BY <1>2, Pauses DEF PauseWave, Quiet
<1>3. ASSUME NEW g \in Games, NEW m \in Players, PlayerStep(g, m)
      PROVE  /\ Shape' /\ Bounded' /\ \A h \in Games : Moves(h)
             /\ Quiet /\ scan' = scan
  <2>1. Quiet /\ scan' = scan
    BY <1>3 DEF PlayerStep, GoneWhilePaused, BackWhilePaused, Disconnect,
                LastDisconnect, Reconnect, ReconnectAlone, Quiet
  <2>2. CASE \/ GoneWhilePaused(g, m) \/ BackWhilePaused(g, m)
             \/ Disconnect(g, m) \/ ReconnectAlone(g, m)
    BY <2>1, <2>2, Leaves
  <2>3. CASE LastDisconnect(g, m)
    BY <2>1, <2>3, SettlesNow
  <2>4. CASE Reconnect(g, m)
    BY <2>1, <2>4, ComesBack
  <2> QED
    BY <1>3, <2>2, <2>3, <2>4 DEF PlayerStep
<1>4. ASSUME NEW g \in Games, ExpireReconnect(g) \/ Solve(g) \/ Timeout(g)
      PROVE  /\ Shape' /\ Bounded' /\ \A h \in Games : Moves(h)
             /\ Quiet /\ scan' = scan
  <2>1. Quiet /\ scan' = scan
    BY <1>4 DEF ExpireReconnect, Solve, Timeout, Quiet
  <2> QED
    BY <1>4, <2>1, SettlesNow
<1>5. CASE Tick
  BY <1>5, Ticks DEF Tick, Quiet
<1> QED
  BY <1>1, <1>2, <1>3, <1>4, <1>5 DEF GameStep

\* The steps of authority, the processes and the scans around the games.
ProcessStep(p) ==
  \/ Renew(p) \/ Claim(p) \/ StartProcess(p) \/ Crash(p)
  \/ ScanStep(p) \/ ScanBreaks(p)

\* However a scan ends, its process rests and at most loses its lease.
LEMMA Ends ==
  ASSUME Shape, NEW p \in Procs, Failed(p) \/ Passed(p)
  PROVE  /\ LeaseGrows /\ proc' \in [Procs -> {"down", "starting", "running"}]
         /\ scan' = [scan EXCEPT ![p] = Resting]
<1>1. auth' = auth \/ auth' = [auth EXCEPT !.holder = "gone"]
  BY DEF Failed, Passed
<1>2. auth'.epoch = auth.epoch /\ auth'.revision = auth.revision
      /\ auth'.live = auth.live /\ auth' \in Leases
  BY <1>1 DEF Shape, Leases
<1>3. auth.epoch \in Nat /\ auth.revision \in Nat
  BY DEF Shape, Leases
<1>4. LeaseGrows
  BY <1>2, <1>3 DEF LeaseGrows
<1> QED
  BY <1>4 DEF Failed, Passed, Shape

\* A replay settles the game that is still as it was loaded.
LEMMA Commits ==
  ASSUME Shape, Bounded, GamesInv, ScansTyped, ScansInv, NEW p \in Procs,
         NEW g \in Games, ReplayCommit(p, g)
  PROVE  /\ Shape' /\ Bounded' /\ \A h \in Games : Moves(h)
         /\ ScansTyped' /\ ScansInv'
<1>1. /\ At(p, g) /\ Handled(p, g) /\ Quiet /\ auth' = auth
      /\ UNCHANGED <<now, wave, started, bounds>> /\ hist' = hist
      /\ g \in Unsettled
      /\ game' = [game EXCEPT ![g] = Settled(g, "broken")]
  BY DEF ReplayCommit, Replays, CommitMatches, FenceRow, Active, Unsettled, Quiet
<1>2. Shape' /\ Bounded' /\ \A h \in Games : Moves(h)
  BY <1>1, Settles
<1>3. Around
  BY <1>1, <1>2 DEF Around, LeaseGrows, Shape, Moves, Leases
<1> QED
  BY <1>1, <1>2, <1>3, Handles

\* A game nobody touches moves with what happens around it.
LEMMA GamesKept ==
  ASSUME Shape, GamesInv, LeaseGrows, bounds'.pauses = bounds.pauses,
         UNCHANGED <<now, wave, game, hist>>
  PROVE  \A h \in Games : Moves(h)
BY Untouched DEF GamesInv, LeaseGrows, Leases

\* Steps of leases and processes do not touch the games.
LEMMA LeaseMoves ==
  ASSUME Shape, Bounded, NEW p \in Procs,
         Lapse \/ Renew(p) \/ Claim(p) \/ StartProcess(p) \/ Crash(p)
  PROVE  /\ Shape' /\ Bounded' /\ LeaseGrows
         /\ bounds'.pauses = bounds.pauses
         /\ UNCHANGED <<now, wave, started, game, hist>>
         /\ scan' = scan \/ scan' = [scan EXCEPT ![p] = Resting]
<1>1. auth \in Leases /\ auth.epoch \in Nat /\ auth.revision \in Nat
      /\ bounds \in [renewals : Nat, pauses : Nat, faults : Nat]
      /\ MaxRenewals \in Nat /\ MaxFaults \in Nat
  BY ExecutionAssumption DEF Shape, Leases
<1>2. CASE Lapse
  <2>1. auth' = [auth EXCEPT !.live = FALSE]
        /\ UNCHANGED <<now, wave, started, game, proc, scan, bounds, hist>>
    BY <1>2 DEF Lapse
  <2>2. auth' \in Leases /\ auth'.epoch = auth.epoch /\ ~auth'.live
        /\ auth'.revision = auth.revision
    BY <1>1, <2>1 DEF Leases
  <2>3. LeaseGrows
    BY <1>1, <2>2 DEF LeaseGrows
  <2> QED
    BY <2>1, <2>2, <2>3 DEF Shape, Bounded
<1>3. CASE Renew(p)
  <2>1. auth' = [auth EXCEPT !.revision = @ + 1]
        /\ bounds' = [bounds EXCEPT !.renewals = @ + 1]
        /\ bounds.renewals < MaxRenewals
        /\ UNCHANGED <<now, wave, started, game, proc, scan, hist>>
    BY <1>3 DEF Renew
  <2>2. auth.revision + 1 \in Nat /\ auth.revision + 1 > auth.revision
    BY <1>1
  <2>3. auth' \in Leases /\ auth'.epoch = auth.epoch
        /\ auth'.revision = auth.revision + 1
    BY <1>1, <2>1, <2>2 DEF Leases
  <2>4. LeaseGrows
    BY <1>1, <2>2, <2>3 DEF LeaseGrows
  <2>5. /\ bounds' \in [renewals : Nat, pauses : Nat, faults : Nat]
        /\ bounds'.renewals = bounds.renewals + 1
        /\ bounds'.pauses = bounds.pauses /\ bounds'.faults = bounds.faults
    BY <1>1, <2>1
  <2>6. bounds.renewals + 1 <= MaxRenewals
    BY <1>1, <2>1
  <2> QED
    BY <2>1, <2>3, <2>4, <2>5, <2>6 DEF Shape, Bounded
<1>4. CASE Claim(p)
  <2>1. auth' = [epoch |-> auth.epoch + 1, revision |-> auth.revision + 1,
                 live |-> TRUE, holder |-> p]
        /\ UNCHANGED <<now, wave, started, game, proc, scan, bounds, hist>>
    BY <1>4 DEF Claim
  <2>2. auth' \in Leases /\ auth'.epoch = auth.epoch + 1
        /\ auth'.revision = auth.revision + 1
    BY <1>1, <2>1 DEF Leases
  <2>3. LeaseGrows
    BY <1>1, <2>2 DEF LeaseGrows
  <2> QED
    BY <2>1, <2>2, <2>3 DEF Shape, Bounded
<1>5. CASE StartProcess(p)
  <2>1. auth' = auth
        /\ UNCHANGED <<now, wave, started, game, scan, bounds, hist>>
        /\ proc' \in [Procs -> {"down", "starting", "running"}]
    BY <1>5 DEF StartProcess, Shape
  <2>2. LeaseGrows
    BY <1>1, <2>1 DEF LeaseGrows
  <2> QED
    BY <2>1, <2>2 DEF Shape, Bounded
<1>6. CASE Crash(p)
  <2>1. /\ auth' = auth \/ auth' = [auth EXCEPT !.holder = "gone"]
        /\ bounds' = [bounds EXCEPT !.faults = @ + 1]
        /\ bounds.faults < MaxFaults
        /\ proc' \in [Procs -> {"down", "starting", "running"}]
        /\ scan' = [scan EXCEPT ![p] = Resting]
        /\ UNCHANGED <<now, wave, started, game, hist>>
    BY <1>6 DEF Crash, Shape
  <2>2. auth' \in Leases /\ auth'.epoch = auth.epoch
        /\ auth'.revision = auth.revision /\ auth'.live = auth.live
    BY <1>1, <2>1 DEF Leases
  <2>3. LeaseGrows
    BY <1>1, <2>2 DEF LeaseGrows
  <2>4. /\ bounds' \in [renewals : Nat, pauses : Nat, faults : Nat]
        /\ bounds'.faults = bounds.faults + 1
        /\ bounds'.pauses = bounds.pauses /\ bounds'.renewals = bounds.renewals
    BY <1>1, <2>1
  <2>5. bounds.faults + 1 <= MaxFaults
    BY <1>1, <2>1, <2>4
  <2> QED
    BY <2>1, <2>2, <2>3, <2>4, <2>5 DEF Shape, Bounded
<1> QED
  BY <1>2, <1>3, <1>4, <1>5, <1>6

\* Every step of a scan but the commit leaves the games alone.
LEMMA ScanMoves ==
  ASSUME Shape, Bounded, GamesInv, ScansTyped, ScansInv, NEW p \in Procs,
         \/ ScanStep(p) /\ ~\E g \in Games : ReplayCommit(p, g)
         \/ ScanBreaks(p)
  PROVE  /\ Shape' /\ Bounded' /\ LeaseGrows
         /\ bounds'.pauses = bounds.pauses
         /\ UNCHANGED <<now, wave, started, game, hist>>
         /\ ScansTyped' /\ ScansInv'
<1>1. auth \in Leases /\ auth.epoch \in Nat /\ auth.revision \in Nat
      /\ bounds \in [renewals : Nat, pauses : Nat, faults : Nat]
      /\ MaxFaults \in Nat
  BY ExecutionAssumption DEF Shape, Leases
<1>2. auth' = auth => LeaseGrows
  BY <1>1 DEF LeaseGrows
<1>3. LeaseGrows /\ UNCHANGED <<now, wave, started, game, hist>>
        /\ bounds'.pauses = bounds.pauses => Around
  BY GamesKept DEF Around, Moves, Shape
<1>4. ASSUME Failed(p) \/ Passed(p),
             UNCHANGED <<now, wave, started, game, hist>>, Bounded',
             bounds' \in [renewals : Nat, pauses : Nat, faults : Nat],
             bounds'.pauses = bounds.pauses
      PROVE  /\ Shape' /\ LeaseGrows
             /\ ScansTyped' /\ ScansInv'
  <2>1. /\ LeaseGrows /\ proc' \in [Procs -> {"down", "starting", "running"}]
        /\ scan' = [scan EXCEPT ![p] = Resting]
    BY <1>4, Ends
  <2>2. Shape'
    BY <1>4, <2>1 DEF Shape, LeaseGrows
  <2>3. Around
    BY <1>3, <1>4, <2>1
  <2> QED
    BY <2>1, <2>2, <2>3, IdleScan
<1>5. ASSUME UNCHANGED <<now, auth, wave, started, game, proc, bounds, hist>>
      PROVE  /\ Shape' /\ Bounded' /\ LeaseGrows /\ Around
             /\ bounds'.pauses = bounds.pauses
  BY <1>2, <1>3, <1>5 DEF Shape, Bounded
<1>6. ASSUME UNCHANGED <<now, wave, started, game, bounds, hist>>,
             Failed(p) \/ Passed(p)
      PROVE  /\ Shape' /\ Bounded' /\ LeaseGrows
             /\ bounds'.pauses = bounds.pauses
             /\ ScansTyped' /\ ScansInv'
  <2>1. Bounded' /\ bounds'.pauses = bounds.pauses
        /\ bounds' \in [renewals : Nat, pauses : Nat, faults : Nat]
    BY <1>1, <1>6 DEF Bounded
  <2> QED
    BY <1>4, <1>6, <2>1
<1>7. CASE ScanBreaks(p)
  <2>1. /\ bounds' = [bounds EXCEPT !.faults = @ + 1] /\ bounds.faults < MaxFaults
        /\ Failed(p) /\ UNCHANGED <<now, wave, started, game, hist>>
    BY <1>7 DEF ScanBreaks
  <2>2. /\ bounds' \in [renewals : Nat, pauses : Nat, faults : Nat]
        /\ bounds'.faults = bounds.faults + 1
        /\ bounds'.pauses = bounds.pauses /\ bounds'.renewals = bounds.renewals
    BY <1>1, <2>1
  <2>3. bounds.faults + 1 <= MaxFaults
    BY <1>1, <2>1
  <2>4. Bounded'
    BY <2>1, <2>2, <2>3 DEF Bounded
  <2> QED
    BY <1>4, <2>1, <2>2, <2>4
<1>8. CASE ScanNothing(p) \/ ListRefused(p) \/ ScanDone(p)
  BY <1>6, <1>8 DEF ScanNothing, ListRefused, ScanDone
<1>9. CASE ScanOwned(p)
  <2>1. /\ UNCHANGED <<now, auth, wave, started, game, proc, bounds, hist>>
        /\ scan' = [scan EXCEPT ![p] = [at |-> "list", epoch |-> auth.epoch]]
    BY <1>9 DEF ScanOwned
  <2> QED
    BY <1>1, <1>5, <2>1, IdleScan
<1>10. CASE ListGames(p)
  <2>1. UNCHANGED <<now, auth, wave, started, game, proc, bounds, hist>>
    BY <1>10 DEF ListGames
  <2> QED
    BY <1>5, <1>10, <2>1, Lists
<1>11. ASSUME NEW g \in Games, ScanGame(p, g), ~ReplayCommit(p, g)
       PROVE  /\ Shape' /\ Bounded' /\ LeaseGrows
              /\ bounds'.pauses = bounds.pauses
              /\ UNCHANGED <<now, wave, started, game, hist>>
              /\ ScansTyped' /\ ScansInv'
  <2>1. CASE CountPaused(p, g) \/ Rearm(p, g) \/ ReplayKnown(p, g)
    <3>1. /\ UNCHANGED <<now, auth, wave, started, game, proc, bounds, hist>>
          /\ At(p, g) /\ Handled(p, g)
      BY <2>1 DEF CountPaused, Rearm, Rearming, ReplayKnown, Rearms, Replays
    <3> QED
      BY <1>5, <3>1, Handles
  <2>2. CASE RearmRefused(p, g) \/ LoadRefused(p, g)
    <3>1. UNCHANGED <<now, wave, started, game, bounds, hist>> /\ Failed(p)
      BY <2>2 DEF RearmRefused, LoadRefused
    <3> QED
      BY <1>6, <3>1
  <2>3. CASE ReplayLoad(p, g) \/ ReplayConflict(p, g)
    <3>1. UNCHANGED <<now, auth, wave, started, game, proc, bounds, hist>>
      BY <2>3 DEF ReplayLoad, ReplayConflict
    <3> QED
      BY <1>5, <2>3, <3>1, LoadMoves
  <2> QED
    BY <1>11, <2>1, <2>2, <2>3 DEF ScanGame
<1> QED
  BY <1>7, <1>8, <1>9, <1>10, <1>11 DEF ScanStep

\* What a step does to the games, and that it keeps the invariant.
LEMMA StepSound ==
  ASSUME IInv, Next
  PROVE  IInv' /\ \A g \in Games : Grows(g)
<1> USE DEF IInv
<1>1. SUFFICES /\ Shape' /\ Bounded' /\ ScansTyped' /\ ScansInv'
               /\ \A h \in Games : Moves(h)
  BY <1>1 DEF GamesInv, Moves
<1>2. CASE GameStep
  <2>1. /\ Shape' /\ Bounded' /\ \A h \in Games : Moves(h)
        /\ Quiet /\ scan' = scan
    BY <1>2, GameStepsMove
  <2>2. LeaseGrows
    BY <2>1 DEF LeaseGrows, Quiet, Shape, Leases
  <2>3. Around
    BY <2>1, <2>2 DEF Around, Moves, Shape
  <2> QED
    BY <2>1, <2>3, NoScan
<1>3. ASSUME NEW p \in Procs, NEW g \in Games, ReplayCommit(p, g)
      PROVE  /\ Shape' /\ Bounded' /\ ScansTyped' /\ ScansInv'
             /\ \A h \in Games : Moves(h)
  BY <1>3, Commits
<1>4. ASSUME NEW p \in Procs,
             \/ ScanStep(p) /\ ~\E g \in Games : ReplayCommit(p, g)
             \/ ScanBreaks(p)
      PROVE  /\ Shape' /\ Bounded' /\ ScansTyped' /\ ScansInv'
             /\ \A h \in Games : Moves(h)
  <2>1. /\ Shape' /\ Bounded' /\ LeaseGrows
        /\ bounds'.pauses = bounds.pauses
        /\ UNCHANGED <<now, wave, started, game, hist>>
        /\ ScansTyped' /\ ScansInv'
    BY <1>4, ScanMoves
  <2> QED
    BY <2>1, GamesKept
<1>5. ASSUME NEW p \in Procs,
             Lapse \/ Renew(p) \/ Claim(p) \/ StartProcess(p) \/ Crash(p)
      PROVE  /\ Shape' /\ Bounded' /\ ScansTyped' /\ ScansInv'
             /\ \A h \in Games : Moves(h)
  <2>1. /\ Shape' /\ Bounded' /\ LeaseGrows
        /\ bounds'.pauses = bounds.pauses
        /\ UNCHANGED <<now, wave, started, game, hist>>
        /\ scan' = scan \/ scan' = [scan EXCEPT ![p] = Resting]
    BY <1>5, LeaseMoves
  <2>2. \A h \in Games : Moves(h)
    BY <2>1, GamesKept
  <2>3. Around
    BY <2>1, <2>2 DEF Around, Moves, Shape
  <2> QED
    BY <2>1, <2>2, <2>3, NoScan, IdleScan
<1>6. CASE Lapse /\ Procs = {}
  <2>1. UNCHANGED <<now, wave, started, game, hist, scan, bounds, proc>>
        /\ auth' = [auth EXCEPT !.live = FALSE]
    BY <1>6 DEF Lapse
  <2>2. LeaseGrows
    <3>1. auth \in Leases /\ auth.epoch \in Nat
      BY DEF Shape, Leases
    <3>2. auth' \in Leases /\ auth'.epoch = auth.epoch /\ ~auth'.live
          /\ auth'.revision = auth.revision
      BY <2>1, <3>1 DEF Leases
    <3> QED
      BY <3>1, <3>2 DEF LeaseGrows
  <2>3. \A h \in Games : Moves(h)
    BY <2>1, <2>2, GamesKept
  <2> QED
    BY <1>6, <2>1, <2>2, <2>3 DEF LeaseGrows, Shape, Bounded, ScansTyped, ScansInv
<1> QED
  BY <1>2, <1>3, <1>4, <1>5, <1>6 DEF Next, GameStep

\* Nothing happens to the invariant when nothing happens.
LEMMA StutterSound ==
  ASSUME IInv, UNCHANGED vars
  PROVE  IInv' /\ \A g \in Games : game'[g] = game[g]
<1>1. /\ now' = now /\ auth' = auth /\ wave' = wave /\ started' = started
      /\ game' = game /\ proc' = proc /\ scan' = scan /\ bounds' = bounds
      /\ hist' = hist
  BY DEF vars
<1> QED
  BY <1>1 DEF IInv, Shape, Bounded, ScansTyped, GamesInv, ScansInv, GameSound,
              WaveSound, ClockSound, TimeSound, BindSound, Fits, Until,
              ScanSound, ListSound, LoadSound, Overtaken, Loaded, At, Todo

\* The inductive invariant holds in every state of every behaviour.
THEOREM ExecutionInvariant == Spec => []IInv
<1>1. Init => IInv
  BY InitSound
<1>2. IInv /\ [Next]_vars => IInv'
  BY StepSound, StutterSound
<1> QED
  BY <1>1, <1>2, PTL DEF Spec

-----------------------------------------------------------------------------
(* What follows of the games *)

\* The rows, the leases and the bounds have the shape the code gives them; no
\* clock of a game runs past the pauses that were granted.
THEOREM ExecutionTyped == Spec => []TypeOK
<1>1. ASSUME IInv PROVE TypeOK
  <2> USE <1>1 DEF IInv
  <2>1. now \in Times /\ started \in Times
    BY ExecutionAssumption DEF Shape, Bounded, Times
  <2>2. ASSUME NEW g \in Games PROVE game[g] \in GameType
    <3>1. game[g] \in Rows /\ ClockSound(g)
      BY DEF Shape, GamesInv, GameSound
    <3>2. bounds.pauses * Milli \in Nat
          /\ bounds.pauses * Milli <= MaxPauses * Milli
          /\ MaxPauses * Milli \in Nat /\ MaxPauses * Milli = Milli * MaxPauses
      BY MilliGrows, ExecutionAssumption, ClockAssumption DEF Shape, Bounded
    <3>3. now \in Nat /\ now <= MaxTime /\ MaxTime \in Nat /\ Duration \in Nat
      BY ExecutionAssumption, ClockAssumption DEF Shape, Bounded
    <3>4. /\ game[g].due \in Nat /\ game[g].shown \in Nat /\ game[g].left \in Nat
          /\ game[g].seen \in Nat
          /\ game[g].left <= Duration + bounds.pauses * Milli
          /\ game[g].due <= now + Duration + bounds.pauses * Milli
          /\ game[g].shown <= game[g].due /\ game[g].seen <= now
      BY <3>1 DEF ClockSound, Rows
    <3>5. game[g].due \in Clocks /\ game[g].shown \in Clocks
          /\ game[g].left \in Clocks /\ game[g].seen \in Times
      BY <3>2, <3>3, <3>4 DEF Clocks, Times
    <3> QED
      BY <3>1, <3>5 DEF Rows, GameType
  <2>3. ASSUME NEW g \in Games
        PROVE  hist[g] \in [played : Times, pauses : 0 .. MaxPauses, ran : Nat,
                            how : {"none", "start", "operator", "reconnect"}]
    <3>1. hist[g] \in Histories /\ hist[g].played \in Nat /\ hist[g].pauses \in Nat
          /\ hist[g].played <= now /\ hist[g].pauses <= bounds.pauses
      BY DEF Shape, GamesInv, GameSound, ClockSound, Histories
    <3>2. hist[g].played \in Times /\ hist[g].pauses \in 0 .. MaxPauses
      BY <3>1, ExecutionAssumption DEF Times, Shape, Bounded
    <3> QED
      BY <3>1, <3>2 DEF Histories
  <2>4. \A p \in Procs : scan[p].at \in {"rest", "list", "work"}
    BY DEF ScansTyped, Scans, Resting, Works
  <2>5. bounds.renewals \in 0 .. MaxRenewals
        /\ bounds.pauses \in 0 .. MaxPauses /\ bounds.faults \in 0 .. MaxFaults
    BY ExecutionAssumption DEF Shape, Bounded
  <2>6. game \in [Games -> GameType]
    BY <2>2 DEF Shape
  <2>7. hist \in [Games -> [played : Times, pauses : 0 .. MaxPauses, ran : Nat,
                            how : {"none", "start", "operator", "reconnect"}]]
    BY <2>3 DEF Shape
  <2> QED
    BY <2>1, <2>4, <2>5, <2>6, <2>7 DEF TypeOK, Shape, Leases
<1> QED
  BY <1>1, ExecutionInvariant, PTL

\* No sequence of disconnects, operator pauses and resumes takes time from the
\* players or gives them more than a millisecond for each operator pause, and
\* no game times out early.
THEOREM TimeIsKept == Spec => []TimeKept
<1>1. ASSUME IInv PROVE TimeKept
  <2> USE <1>1 DEF IInv
  <2>1. ASSUME NEW g \in Games
        PROVE  /\ g \in Unsettled => Fits(Rest(g), g)
               /\ game[g].outcome = "timeout" => hist[g].played >= Duration
    <3>1. TimeSound(g) /\ game[g].due \in Nat /\ now \in Nat
      BY DEF GamesInv, GameSound, Shape, Rows
    <3>2. Rest(g) = IF g \in Active THEN Until(game[g].due) ELSE game[g].left
      BY <3>1, RestOfClock
    <3> QED
      BY <3>1, <3>2 DEF TimeSound, Active, Unsettled
  <2> QED
    BY <2>1 DEF TimeKept, Fits
<1> QED
  BY <1>1, ExecutionInvariant, PTL

\* In a running wave only games with an absent player wait, and in a paused
\* one nothing runs.
THEOREM NobodyIsLeftWaiting == Spec => []NobodyWaits
<1>1. ASSUME IInv PROVE NobodyWaits
  BY <1>1 DEF IInv, GamesInv, GameSound, WaveSound, NobodyWaits, Active, Paused
<1> QED
  BY <1>1, ExecutionInvariant, PTL

\* Whatever a handler, a scan or a player still holds of a settled game, the
\* game does not change again.
THEOREM SettlementIsFinal == Spec => SettledOnce
<1>1. IInv /\ [Next]_vars =>
        [\A g \in Games : game[g].state = "settled" => game'[g] = game[g]]_vars
  BY StepSound DEF Grows
<1> QED
  BY <1>1, ExecutionInvariant, PTL DEF Spec, SettledOnce

\* Of all steps only the commit of a replay breaks a running game.
LEMMA OnlyCommitsBreak ==
  ASSUME IInv, Next, NEW g \in Games, Broken(g)
  PROVE  \E p \in Procs : ReplayCommit(p, g)
<1> USE DEF IInv
<1>1. game[g] \in Rows /\ game[g].state = "active" /\ game[g].outcome = "none"
      /\ game'[g].outcome = "broken"
  BY DEF Broken, Shape, GamesInv, GameSound, WaveSound
<1>2. game' # game
  BY <1>1
<1>3. ASSUME NEW e \in 1 .. auth.epoch, StartWave(e) \/ ResumeWave(e) PROVE FALSE
  <2>1. CASE StartWave(e)
    BY <1>1, <2>1 DEF StartWave, Rows
  <2>2. CASE ResumeWave(e)
    BY <1>1, <2>2 DEF ResumeWave, Connected, Absent, Paused
  <2> QED
    BY <1>3, <2>1, <2>2
<1>4. ASSUME PauseWave PROVE FALSE
  <2>1. game'[g] = [game[g] EXCEPT !.state = "paused", !.by = "operator",
                                   !.rev = @ + 1, !.left = Frozen(g)]
    BY <1>1, <1>4 DEF PauseWave, Active
  <2> QED
    BY <1>1, <2>1 DEF Rows
<1>5. ASSUME NEW h \in Games, NEW r, game' = [game EXCEPT ![h] = r],
             r.outcome # "broken"
      PROVE  FALSE
  <2>1. game'[g] = IF g = h THEN r ELSE game[g]
    BY <1>5 DEF Shape
  <2> QED
    BY <1>1, <1>5, <2>1
<1>6. ASSUME NEW h \in Games, NEW m \in Players, PlayerStep(h, m) PROVE FALSE
  <2>1. game[h] \in Rows /\ Resumed(h) \in Rows
        /\ Resumed(h).outcome = game[h].outcome
    BY ResumedRow DEF Shape
  <2>3. Settled(h, "forfeit").outcome = "forfeit"
        /\ Settled(h, "replay").outcome = "replay"
    BY <2>1 DEF Settled, Rows
  <2>4. CASE LastDisconnect(h, m)
    BY <1>5, <2>3, <2>4 DEF LastDisconnect
  <2>5. CASE h = g
    <3>1. h \notin Paused /\ wave = "active"
      BY <1>1, <2>5 DEF Paused, GamesInv, GameSound, WaveSound
    <3>2. CASE Disconnect(h, m)
      <4>1. game' = [game EXCEPT ![h] = Interrupted(h, m)]
        BY <3>1, <3>2 DEF Disconnect
      <4>2. Interrupted(h, m).outcome = game[h].outcome
        BY <2>1 DEF Interrupted, Rows
      <4> QED
        BY <1>1, <1>5, <2>5, <4>1, <4>2
    <3> QED
      BY <1>6, <2>4, <3>1, <3>2
         DEF PlayerStep, GoneWhilePaused, BackWhilePaused, Reconnect, ReconnectAlone
  <2>6. CASE h # g
    <3>1. game'[g] = game[g]
      BY <1>6, <2>6 DEF PlayerStep, GoneWhilePaused, BackWhilePaused, Disconnect,
                        LastDisconnect, Reconnect, ReconnectAlone, Shape
    <3> QED
      BY <1>1, <3>1
  <2> QED
    BY <2>5, <2>6
<1>7. ASSUME NEW h \in Games, ExpireReconnect(h) \/ Solve(h) \/ Timeout(h)
      PROVE  FALSE
  <2>1. game[h] \in Rows
    BY DEF Shape
  <2>2. \A o \in {"solved", "timeout", "forfeit", "replay"} :
          Settled(h, o).outcome = o
    BY <2>1 DEF Settled, Rows
  <2> QED
    BY <1>5, <1>7, <2>2 DEF ExpireReconnect, Solve, Timeout
<1>8. ASSUME Tick \/ Lapse PROVE FALSE
  BY <1>2, <1>8 DEF Tick, Lapse
<1>9. PICK p \in Procs : ProcessStep(p)
  BY <1>3, <1>4, <1>6, <1>7, <1>8 DEF Next, ProcessStep
<1>10. PICK h \in Games : ReplayCommit(p, h)
  BY <1>2, <1>9
     DEF ProcessStep, Renew, Claim, StartProcess, Crash, ScanBreaks, ScanStep,
         ScanGame, ScanNothing, ScanOwned, ListGames, ListRefused, ScanDone,
         CountPaused, Rearm, RearmRefused, ReplayKnown, ReplayLoad, LoadRefused,
         ReplayConflict
<1>11. h = g
  BY <1>1, <1>10 DEF ReplayCommit, Shape
<1> QED
  BY <1>10, <1>11

\* The recovery scan never gives up a game in the epoch in which the operator
\* started or resumed it, whatever it held when authority changed hands.
THEOREM BindingsProtect == Spec => BindingProtects
<1>1. ASSUME IInv, Next, NEW g \in Games, Broken(g)
      PROVE  hist[g].how = "reconnect" \/ hist[g].ran < auth.epoch
  <2>1. PICK p \in Procs : ReplayCommit(p, g)
    BY <1>1, OnlyCommitsBreak
  <2>2. game[g].bound # auth.epoch
    BY <2>1 DEF ReplayCommit, Replays, CommitMatches
  <2>3. game[g].state = "active" /\ BindSound(g) /\ hist[g].ran \in Nat
        /\ auth.epoch \in Nat
    BY <1>1 DEF Broken, IInv, GamesInv, GameSound, Shape, Histories, Leases
  <2> QED
    BY <2>2, <2>3 DEF BindSound
<1>2. IInv /\ [Next]_vars =>
        [\A g \in Games :
           Broken(g) => hist[g].how = "reconnect" \/ hist[g].ran < auth.epoch]_vars
  BY <1>1
<1> QED
  BY <1>2, ExecutionInvariant, PTL DEF Spec, BindingProtects

\* Whatever the clock's unit, how often owners change and players come and go:
\* a scan of the owner fails because something moved after it listed the game,
\* or because it came to replay a game whose stored deadline was cut.
THEOREM ScansFailByRaces == Spec => ScanFailsByRaceOnly
<1>1. ASSUME IInv, NEW p \in Procs, NEW g \in Games,
             \/ RearmRefused(p, g)
             \/ LoadRefused(p, g) /\ DeadlineMatches(g)
      PROVE  Moved(p, g)
  <2> USE DEF IInv
  <2>1. At(p, g) /\ g \in Todo(p) /\ scan[p].at = "work"
        /\ scan[p].todo[g].state = "active"
    BY <1>1 DEF RearmRefused, LoadRefused, Rearms, Replays, At, Todo
  <2>2. ListSound(p) /\ LoadSound(p) /\ Todo(p) = DOMAIN scan[p].todo
    BY <1>1, <2>1, WorkTyped DEF ScansInv, ScanSound
  <2> SUFFICES ASSUME ~Moved(p, g) PROVE FALSE
    OBVIOUS
  <2>3. auth.revision = scan[p].lease /\ auth.live /\ wave = "active"
        /\ game[g].rev = scan[p].todo[g].rev
    BY DEF Moved
  <2>4. /\ auth.epoch = scan[p].epoch /\ game[g].state = "active"
        /\ game[g].bound = scan[p].todo[g].bound
        /\ game[g].shown = scan[p].todo[g].due
    BY <1>1, <2>1, <2>2, <2>3 DEF ListSound
  <2>5. FenceRow(g)
    BY <1>1, <2>3, <2>4 DEF FenceRow, Active
  <2>6. CASE RearmRefused(p, g)
    BY <2>3, <2>4, <2>5, <2>6 DEF RearmRefused, Rearms, RearmMatches
  <2>7. CASE LoadRefused(p, g) /\ DeadlineMatches(g)
    <3>1. LoadMatches(p, g) /\ ~MayPredate(p)
      BY <2>3, <2>4, <2>5, <2>7 DEF LoadMatches, MayPredate
    <3>2. scan[p].load.try = Tries /\ ~Loaded(p)
      BY <2>7, <3>1 DEF LoadRefused, Loaded
    <3>3. scan[p].load.try > 0
      BY <3>2, ExecutionAssumption
    <3>4. Overtaken(p, g)
      BY <1>1, <2>1, <2>2, <3>2, <3>3 DEF LoadSound
    <3> QED
      BY <2>3, <3>4 DEF Overtaken
  <2> QED
    BY <1>1, <2>6, <2>7
<1>2. IInv /\ [Next]_vars =>
        [\A p \in Procs : \A g \in Games :
           /\ RearmRefused(p, g) => Moved(p, g)
           /\ LoadRefused(p, g) => Moved(p, g) \/ ~DeadlineMatches(g)]_vars
  BY <1>1
<1> QED
  BY <1>2, ExecutionInvariant, PTL DEF Spec, ScanFailsByRaceOnly

-----------------------------------------------------------------------------
(* The authority of the wave. *)

\* Whatever processes, scans, the operator and the players do to the authority
\* is what the ownership of module Authority allows (AuthorityFor,
\* RecoveryAuthorityFor, and the exit of a process whose first scan failed).
THEOREM ExecutionFollowsOwnership == Spec => FollowsOwnership
<1>1. Init => Owned!OInit
  BY DEF Init, Owned!OInit
<1>2. Shape /\ [Next]_vars => [Owned!ONext]_(Owned!ovars)
  <2> SUFFICES ASSUME Shape, [Next]_vars
               PROVE  Owned!ONext \/ UNCHANGED Owned!ovars
    OBVIOUS
  <2> USE DEF Owned!ONext, Owned!ovars
  <2>1. auth \in Leases
    BY DEF Shape
  <2>2. CASE UNCHANGED auth
    BY <2>2
  <2>3. CASE Lapse
    BY <2>1, <2>3 DEF Lapse, Leases, Owned!End
  <2>4. ASSUME NEW p \in Procs, Failed(p)
        PROVE  Owned!ONext \/ UNCHANGED Owned!ovars
    BY <2>1, <2>4 DEF Failed, Leases, Owned!Orphan
  <2>5. ASSUME NEW p \in Procs, Renew(p) \/ Claim(p) \/ Crash(p)
        PROVE  Owned!ONext \/ UNCHANGED Owned!ovars
    <3>1. CASE Renew(p)
      BY <2>1, <3>1 DEF Renew, Leases
    <3>2. CASE Claim(p)
      BY <2>1, <3>2 DEF Claim, Leases, Owned!Take
    <3>3. CASE Crash(p)
      BY <2>1, <3>3 DEF Crash, Leases, Owned!Orphan
    <3> QED
      BY <2>5, <3>1, <3>2, <3>3
  <2>6. ASSUME NEW p \in Procs, ScanStep(p)
        PROVE  UNCHANGED auth \/ Failed(p)
    <3>1. ASSUME NEW g \in Games, ScanGame(p, g)
          PROVE  UNCHANGED auth \/ Failed(p)
      BY <3>1 DEF ScanGame, CountPaused, Rearm, RearmRefused, ReplayKnown,
         ReplayLoad, LoadRefused, ReplayCommit, ReplayConflict
    <3> QED
      BY <2>6, <3>1 DEF ScanStep, ScanNothing, ScanOwned, ListGames, ListRefused,
         ScanDone, Passed
  <2>7. ASSUME NEW p \in Procs, StartProcess(p) \/ ScanBreaks(p)
        PROVE  UNCHANGED auth \/ Failed(p)
    BY <2>7 DEF StartProcess, ScanBreaks
  <2>8. ASSUME NEW g \in Games, NEW m \in Players, PlayerStep(g, m)
        PROVE  UNCHANGED auth
    BY <2>8 DEF PlayerStep, GoneWhilePaused, BackWhilePaused, Disconnect,
       LastDisconnect, Reconnect, ReconnectAlone
  <2>9. ASSUME NEW e \in 1 .. auth.epoch, StartWave(e) \/ ResumeWave(e)
        PROVE  UNCHANGED auth
    BY <2>9 DEF StartWave, ResumeWave
  <2> QED
    BY <2>2, <2>3, <2>4, <2>5, <2>6, <2>7, <2>8, <2>9
    DEF Next, vars, PauseWave, ExpireReconnect, Solve, Timeout, Tick
<1>3. IInv => Shape
  BY DEF IInv
<1> QED
  BY <1>1, <1>2, <1>3, ExecutionInvariant, PTL
  DEF Spec, FollowsOwnership, Owned!OSpec

=============================================================================
