---------------------------- MODULE PresenceProofs ----------------------------
(***************************************************************************)
(* Machine-checked facts about module Presence, for every wave, every set *)
(* of connections and processes and every length of the ready window: its *)
(* invariants, by the inductive invariant IInv, and that the closing of a *)
(* lease touches a participant exactly when the last one is closed.        *)
(***************************************************************************)
EXTENDS Presence, TLAPS

\* An epoch is only begun after a fault has ended the one before it.
EpochsBounded ==
  /\ authority.epoch <= faults + 1
  /\ ~authority.live \/ authority.holder = NoOne => authority.epoch <= faults

\* A connection that is not connected yet has no lease.
NewUnstamped ==
  \A s \in Sockets : socket[s] \in {"new", "opened"} => stamp[s] = 0

\* No series is over before the wave starts or its window expires.
NothingDecided ==
  wave \in {"planned", "ready_window_open", "ready"} => settled = {}

\* After the deadline nobody is marked and nobody is cleared.
FrozenWhenLate == WindowOpen /\ Late => punctual = ready

IInv ==
  /\ TypeOK /\ EpochsBounded /\ NewUnstamped
  /\ StartedTogether /\ NothingDecided /\ FrozenWhenLate /\ NoShowJust
  /\ AwayMeansGone

\* What IInv says of the wave, and what it says of its connections.
WaveInv == StartedTogether /\ NothingDecided /\ FrozenWhenLate /\ NoShowJust
LinkInv == NewUnstamped /\ AwayMeansGone

-----------------------------------------------------------------------------
(* The parts of a step *)

\* The authority that a process acts under is its own, and follows the one
\* before it by at most one epoch that a fault has made room for.
LEMMA ResolvedFits ==
  ASSUME TypeOK, EpochsBounded, NEW h \in Processes, MayAct(h),
         authority' = Resolved(h), faults' = faults \/ faults' = faults + 1,
         faults' \in 0..MaxFaults
  PROVE  /\ authority' \in [holder : Processes \cup {NoOne},
                            epoch : 0..(MaxFaults + 1), live : BOOLEAN]
         /\ authority'.epoch >= authority.epoch
         /\ EpochsBounded'
<1>1. CASE authority.live
  <2>1. authority' = authority
    BY <1>1 DEF Resolved
  <2> QED
    BY <2>1 DEF TypeOK, EpochsBounded
<1>2. CASE ~authority.live
  <2>1. authority' = [holder |-> h, epoch |-> authority.epoch + 1, live |-> TRUE]
    BY <1>2 DEF Resolved
  <2>2. authority.epoch \in Nat /\ authority.epoch <= faults /\ faults \in Nat
        /\ faults' <= MaxFaults /\ MaxFaults \in Nat
    BY <1>2, PresenceAssumption DEF TypeOK, EpochsBounded
  <2>3. h # NoOne
    BY PresenceAssumption DEF NoOne
  <2> QED
    BY <2>1, <2>2, <2>3 DEF EpochsBounded
<1> QED
  BY <1>1, <1>2

\* Leases stay well typed under an authority that did not go back.
LEMMA StampsFit ==
  ASSUME TypeOK, authority'.epoch \in Nat, authority'.epoch >= authority.epoch,
         NEW s \in Sockets, NEW n \in 0..authority'.epoch,
         stamp' = stamp \/ stamp' = [stamp EXCEPT ![s] = n]
  PROVE  stamp' \in [Sockets -> 0..authority'.epoch]
<1>1. \A t \in Sockets : stamp[t] \in 0..authority'.epoch
  BY DEF TypeOK
<1> QED
  BY <1>1 DEF TypeOK

\* The handler of a connection serves it or leaves it.
LEMMA HandlerMoves ==
  ASSUME TypeOK, NEW s \in Sockets, (Serve(s) /\ host[s] \in up) \/ Leave(s),
         socket[s] \in {"opened", "serving"}, rows' = rows
  PROVE  /\ socket' \in [Sockets ->
              {"new", "opened", "serving", "gone", "lost"}]
         /\ host' \in [Sockets -> up' \cup {NoOne}]
         /\ rows' \subseteq {t \in Sockets : socket'[t] # "new"}
         /\ \A t \in Sockets :
              socket'[t] \in {"opened", "serving"} <=> host'[t] \in up'
         /\ \A t \in Sockets : socket'[t] \in {"new", "opened"} =>
              t # s /\ socket'[t] = socket[t]
         /\ up' = up /\ now' = now /\ punctual' = punctual
<1>1. NoOne \notin up
  BY PresenceAssumption DEF TypeOK, NoOne
<1>2. CASE Serve(s) /\ host[s] \in up
  BY <1>2 DEF Serve, TypeOK
<1>3. CASE Leave(s)
  BY <1>1, <1>3 DEF Leave, TypeOK
<1> QED
  BY <1>2, <1>3

\* What is said of the wave holds after a mark before the deadline.
LEMMA MarkingFits ==
  ASSUME TypeOK, WaveInv, WindowOpen, ~Late,
         NEW members \in SUBSET Members, Marked(members),
         UNCHANGED <<now, deadline, settled, winners, punctual>>
  PROVE  WaveInv' /\ ready' \subseteq Members
         /\ wave' \in {"ready_window_open", "ready"}
BY DEF WaveInv, StartedTogether, NothingDecided, FrozenWhenLate, NoShowJust,
       WindowOpen, Late, Marked, TypeOK

\* A lease that is closed leaves the wave and the connections in order.
LEMMA ClosingFits ==
  ASSUME TypeOK, WaveInv, LinkInv, NEW s \in Sockets,
         NEW operation \in {"disconnect", "recovery"},
         CloseLease(s, operation), UNCHANGED <<now, punctual, rows>>,
         \A t \in Sockets : socket'[t] \in {"new", "opened"} =>
           socket'[t] = socket[t]
  PROVE  /\ WaveInv' /\ LinkInv'
         /\ ready' \subseteq Members /\ away' \subseteq Members
         /\ overdue' \subseteq away'
         /\ wave' \in {"planned", "ready_window_open", "ready", "active",
                       "ready_window_expired"}
<1> USE DEF CloseLease
<1>1. Owner[s] \in Members
  BY PresenceAssumption
<1>2. /\ WaveInv' /\ ready' \subseteq Members
      /\ wave' \in {"planned", "ready_window_open", "ready", "active",
                    "ready_window_expired"}
  <2>1. CASE Clears(s)
    <3>1. WindowOpen /\ ~Late
      BY <2>1 DEF Clears, Refused
    <3>2. ready \ {Owner[s]} \in SUBSET Members
      BY DEF TypeOK
    <3> QED
      BY <2>1, <3>1, <3>2, MarkingFits
  <2>2. CASE ~Clears(s)
    BY <2>2 DEF WaveInv, StartedTogether, NothingDecided, FrozenWhenLate,
                NoShowJust, WindowOpen, Late, TypeOK
  <2> QED
    BY <2>1, <2>2
<1>3. away' \subseteq Members /\ overdue' \subseteq away'
  BY <1>1 DEF TypeOK
<1>4. Active' = Active \ {s}
  BY DEF Active, TypeOK
<1>5. AwayMeansGone'
  <2> SUFFICES ASSUME NEW m \in away' \ overdue'
               PROVE  Counted(m, Active') = {}
    BY DEF AwayMeansGone, Counted
  <2>0. Counted(m, Active)' = Counted(m, Active')
    BY DEF Counted
  <2>1. CASE m \in away
    BY <1>4, <2>1 DEF LinkInv, AwayMeansGone, Counted
  <2>2. CASE m \notin away
    BY <1>4, <2>2 DEF Pauses, Last
  <2> QED
    BY <2>1, <2>2
<1>6. NewUnstamped'
  BY DEF LinkInv, NewUnstamped, TypeOK
<1> QED
  BY <1>2, <1>3, <1>5, <1>6 DEF LinkInv

-----------------------------------------------------------------------------
(* The invariant *)

\* Operator's and members' commands, and the end of a game.
LEMMA WaveStep ==
  ASSUME IInv,
         \/ OpenWindow
         \/ \E m \in Members : SetReady(m) \/ Overdue(m)
         \/ \E pair \in Pairs : ResolveNoShow(pair) \/ EndGame(pair)
  PROVE  IInv'
<1> USE DEF sockets
<1>1. CASE OpenWindow
  <2>1. now \in Int /\ now + Window \in 0..(Horizon + Window) /\ ~(now > now + Window)
    BY PresenceAssumption DEF IInv, TypeOK
  <2>2. TypeOK'
    BY <1>1, <2>1 DEF OpenWindow, IInv, TypeOK
  <2>3. WaveInv'
    BY <1>1, <2>1 DEF OpenWindow, IInv, WaveInv, StartedTogether, NothingDecided,
       FrozenWhenLate, NoShowJust, WindowOpen, Late
  <2>4. LinkInv' /\ EpochsBounded'
    BY <1>1 DEF OpenWindow, IInv, LinkInv, NewUnstamped, AwayMeansGone, Counted,
       Active, EpochsBounded
  <2> QED
    BY <2>2, <2>3, <2>4 DEF IInv, WaveInv, LinkInv
<1>2. ASSUME NEW m \in Members, SetReady(m)
      PROVE  IInv'
  <2>1. PICK members \in SUBSET Members : Marked(members)
    BY <1>2 DEF SetReady, IInv, TypeOK
  <2>2. WaveInv' /\ ready' \subseteq Members
        /\ wave' \in {"ready_window_open", "ready"}
    BY <1>2, <2>1, MarkingFits DEF SetReady, IInv, WaveInv
  <2>3. TypeOK'
    BY <1>2, <2>2 DEF SetReady, IInv, TypeOK
  <2>4. LinkInv' /\ EpochsBounded'
    BY <1>2 DEF SetReady, IInv, LinkInv, NewUnstamped, AwayMeansGone, Counted,
       Active, EpochsBounded
  <2> QED
    BY <2>2, <2>3, <2>4 DEF IInv, WaveInv, LinkInv
<1>3. ASSUME NEW pair \in Pairs, ResolveNoShow(pair)
      PROVE  IInv'
  <2>1. pair \subseteq Members
    BY PresenceAssumption
  <2>2. TypeOK'
    BY <1>3, <2>1 DEF ResolveNoShow, IInv, TypeOK
  <2>3. settled = {} /\ winners = {} /\ punctual = ready
    BY <1>3 DEF ResolveNoShow, IInv, NothingDecided, NoShowJust, FrozenWhenLate,
       WindowOpen
  <2>4. NoShowJust'
    BY <1>3, <2>3 DEF ResolveNoShow, NoShowJust
  <2>5. StartedTogether' /\ NothingDecided' /\ FrozenWhenLate'
    BY <1>3 DEF ResolveNoShow, StartedTogether, NothingDecided, FrozenWhenLate,
       WindowOpen
  <2>6. LinkInv' /\ EpochsBounded'
    BY <1>3 DEF ResolveNoShow, IInv, LinkInv, NewUnstamped, AwayMeansGone,
       Counted, Active, EpochsBounded
  <2> QED
    BY <2>2, <2>4, <2>5, <2>6 DEF IInv, LinkInv
<1>4. ASSUME NEW pair \in Pairs, EndGame(pair)
      PROVE  IInv'
  <2>1. TypeOK'
    BY <1>4 DEF EndGame, IInv, TypeOK
  <2>2. WaveInv'
    BY <1>4 DEF EndGame, IInv, WaveInv, StartedTogether, NothingDecided,
       FrozenWhenLate, NoShowJust, WindowOpen
  <2>3. LinkInv' /\ EpochsBounded'
    BY <1>4 DEF EndGame, IInv, LinkInv, NewUnstamped, AwayMeansGone, Counted,
       Active, EpochsBounded
  <2> QED
    BY <2>1, <2>2, <2>3 DEF IInv, WaveInv, LinkInv
<1>5. ASSUME NEW m \in Members, Overdue(m)
      PROVE  IInv'
  <2>1. TypeOK'
    BY <1>5 DEF Overdue, IInv, TypeOK
  <2>2. WaveInv'
    BY <1>5 DEF Overdue, IInv, WaveInv, StartedTogether, NothingDecided,
       FrozenWhenLate, NoShowJust, WindowOpen, Late
  <2>3. LinkInv' /\ EpochsBounded'
    BY <1>5 DEF Overdue, IInv, LinkInv, NewUnstamped, AwayMeansGone, Counted,
       Active, EpochsBounded
  <2> QED
    BY <2>1, <2>2, <2>3 DEF IInv, WaveInv, LinkInv
<1> QED
  BY <1>1, <1>2, <1>3, <1>4, <1>5

\* A step of the handler of a connection.
LEMMA ConnectionStep ==
  ASSUME IInv, NEW s \in Sockets, Connection(s)
  PROVE  IInv'
<1> USE DEF match, sockets
<1>h. host[s] \in up => host[s] \in Processes
  BY DEF IInv, TypeOK
<1>1. ASSUME NEW h \in Processes, Open(s, h)
      PROVE  IInv'
  <2>1. h \in up /\ socket[s] = "new" /\ stamp[s] = 0 /\ rows' \subseteq rows \cup {s}
    BY <1>1 DEF Open, IInv, NewUnstamped
  <2>2. TypeOK'
    BY <1>1, <2>1 DEF Open, IInv, TypeOK
  <2>3. AwayMeansGone'
    BY <1>1, <2>1 DEF Open, IInv, AwayMeansGone, Counted, Active
  <2>4. NewUnstamped'
    BY <1>1, <2>1 DEF Open, IInv, NewUnstamped, TypeOK
  <2>5. WaveInv' /\ EpochsBounded'
    BY <1>1 DEF Open, IInv, WaveInv, StartedTogether, NothingDecided,
       FrozenWhenLate, NoShowJust, WindowOpen, Late, EpochsBounded
  <2> QED
    BY <2>2, <2>3, <2>4, <2>5 DEF IInv, WaveInv
<1>2. CASE Connect(s)
  <2>1. /\ host[s] \in Processes /\ MayAct(host[s]) /\ host[s] \in up
        /\ socket[s] \in {"opened", "serving"} /\ Serve(s)
    BY <1>2, <1>h DEF Connect, Serves
  <2>2. /\ authority' \in [holder : Processes \cup {NoOne},
                           epoch : 0..(MaxFaults + 1), live : BOOLEAN]
        /\ authority'.epoch >= authority.epoch
        /\ EpochsBounded'
    BY <1>2, <2>1, ResolvedFits DEF Connect, IInv, TypeOK
  <2>3. authority'.epoch \in 0..authority'.epoch /\ authority'.epoch \in Nat
    BY <2>2
  <2>4. stamp' \in [Sockets -> 0..authority'.epoch]
    BY <1>2, <2>2, <2>3, StampsFit DEF Connect, IInv
  <2>5. /\ away' \ overdue' = (away \ overdue) \ {Owner[s]}
        /\ away' \subseteq away /\ overdue' \subseteq away'
    BY <1>2 DEF Connect, Welcome, IInv, TypeOK
  <2>6. TypeOK'
    BY <1>2, <2>1, <2>2, <2>4, <2>5, HandlerMoves DEF Connect, IInv, TypeOK
  <2>7. \A t \in Sockets : socket'[t] \in {"new", "opened"} =>
              t # s /\ socket'[t] = socket[t]
    BY <1>2, <2>1, HandlerMoves DEF Connect, IInv
  <2>8. NewUnstamped'
    BY <1>2, <2>7 DEF Connect, IInv, NewUnstamped, TypeOK
  <2>9. AwayMeansGone'
    <3>1. \A t \in Active' : t = s \/ t \in Active
      BY <1>2 DEF Connect, Active, IInv, TypeOK
    <3> QED
      BY <1>2, <2>5, <3>1 DEF Connect, IInv, AwayMeansGone, Counted
  <2>10. WaveInv'
    BY <1>2 DEF Connect, Serve, IInv, WaveInv, StartedTogether, NothingDecided,
       FrozenWhenLate, NoShowJust, WindowOpen, Late
  <2> QED
    BY <2>2, <2>6, <2>8, <2>9, <2>10 DEF IInv, WaveInv
<1>3. CASE Disconnect(s)
  <2>1. /\ host[s] \in Processes /\ MayAct(host[s])
        /\ socket[s] \in {"opened", "serving"} /\ Leave(s)
    BY <1>3, <1>h DEF Disconnect, Serves
  <2>2. /\ authority' \in [holder : Processes \cup {NoOne},
                           epoch : 0..(MaxFaults + 1), live : BOOLEAN]
        /\ authority'.epoch >= authority.epoch
        /\ EpochsBounded'
    BY <1>3, <2>1, ResolvedFits DEF Disconnect, IInv, TypeOK
  <2>3. authority'.epoch \in Nat /\ 0 \in 0..authority'.epoch
    BY <2>2
  <2>4. stamp' \in [Sockets -> 0..authority'.epoch]
    BY <1>3, <2>2, <2>3, StampsFit DEF Disconnect, CloseLease, IInv
  <2>5. \A t \in Sockets : socket'[t] \in {"new", "opened"} =>
              t # s /\ socket'[t] = socket[t]
    BY <1>3, <2>1, HandlerMoves DEF Disconnect, IInv
  <2>6. /\ WaveInv' /\ LinkInv'
        /\ ready' \subseteq Members /\ away' \subseteq Members
        /\ overdue' \subseteq away'
        /\ wave' \in {"planned", "ready_window_open", "ready", "active",
                      "ready_window_expired"}
    <3>1. UNCHANGED <<now, punctual, rows>> /\ CloseLease(s, "disconnect")
      BY <1>3 DEF Disconnect, Leave
    <3>2. TypeOK /\ WaveInv /\ LinkInv
      BY DEF IInv, WaveInv, LinkInv
    <3> QED
      BY <2>5, <3>1, <3>2, ClosingFits
  <2>7. TypeOK'
    BY <1>3, <2>1, <2>2, <2>4, <2>6, HandlerMoves
    DEF Disconnect, CloseLease, IInv, TypeOK
  <2> QED
    BY <2>2, <2>6, <2>7 DEF IInv, WaveInv, LinkInv
<1>4. CASE DisconnectUnmatched(s)
  <2>1. /\ host[s] \in Processes /\ MayAct(host[s])
        /\ socket[s] \in {"opened", "serving"} /\ Leave(s)
    BY <1>4, <1>h DEF DisconnectUnmatched, Serves
  <2>2. /\ authority' \in [holder : Processes \cup {NoOne},
                           epoch : 0..(MaxFaults + 1), live : BOOLEAN]
        /\ authority'.epoch >= authority.epoch
        /\ EpochsBounded'
    BY <1>4, <2>1, ResolvedFits DEF DisconnectUnmatched, IInv, TypeOK
  <2>3. authority'.epoch \in Nat /\ 0 \in 0..authority'.epoch
    BY <2>2
  <2>4. stamp' \in [Sockets -> 0..authority'.epoch]
    BY <1>4, <2>2, <2>3, StampsFit DEF DisconnectUnmatched, IInv
  <2>5. TypeOK'
    BY <1>4, <2>1, <2>2, <2>4, HandlerMoves DEF DisconnectUnmatched, IInv, TypeOK
  <2>6. LinkInv'
    BY <1>4, <2>1, HandlerMoves DEF DisconnectUnmatched, IInv, LinkInv,
       NewUnstamped, AwayMeansGone, Counted, Active
  <2>7. WaveInv'
    BY <1>4 DEF DisconnectUnmatched, Leave, IInv, WaveInv, StartedTogether,
       NothingDecided, FrozenWhenLate, NoShowJust, WindowOpen, Late
  <2> QED
    BY <2>2, <2>5, <2>6, <2>7 DEF IInv, WaveInv, LinkInv
<1>5. CASE ConnectFails(s) \/ DisconnectFails(s)
  <2>1. /\ socket[s] \in {"opened", "serving"}
        /\ (Serve(s) /\ host[s] \in up) \/ Leave(s)
        /\ UNCHANGED <<match, authority, rows, stamp>>
    BY <1>5 DEF ConnectFails, DisconnectFails, Serves
  <2>2. faults' \in 0..MaxFaults /\ faults' >= faults /\ EpochsBounded'
    <3>1. faults' = faults \/ (faults' = faults + 1 /\ faults < MaxFaults)
      BY <1>5 DEF ConnectFails, DisconnectFails, Fault
    <3> QED
      BY <2>1, <3>1, PresenceAssumption DEF IInv, TypeOK, EpochsBounded
  <2>3. TypeOK'
    BY <2>1, <2>2, HandlerMoves DEF IInv, TypeOK
  <2>4. LinkInv'
    BY <2>1, HandlerMoves DEF IInv, LinkInv, NewUnstamped, AwayMeansGone,
       Counted, Active
  <2>5. WaveInv'
    BY <2>1 DEF Serve, Leave, IInv, WaveInv, StartedTogether, NothingDecided,
       FrozenWhenLate, NoShowJust, WindowOpen, Late
  <2> QED
    BY <2>2, <2>3, <2>4, <2>5 DEF IInv, WaveInv, LinkInv
<1> QED
  BY <1>1, <1>2, <1>3, <1>4, <1>5 DEF Connection

\* A step of a process.
LEMMA ProcessStep ==
  ASSUME IInv, NEW h \in Processes, Process(h)
  PROVE  IInv'
<1> USE DEF match, sockets
<1>1. CASE Start(h)
  <2>1. MayAct(h) /\ authority' = Resolved(h) /\ faults' = faults
        /\ faults' \in 0..MaxFaults
    BY <1>1 DEF Start, IInv, TypeOK
  <2>2. /\ authority' \in [holder : Processes \cup {NoOne},
                           epoch : 0..(MaxFaults + 1), live : BOOLEAN]
        /\ authority'.epoch >= authority.epoch
        /\ EpochsBounded'
    BY <2>1, ResolvedFits DEF IInv
  <2>3. stamp' \in [Sockets -> 0..authority'.epoch]
    BY <1>1, <2>2 DEF Start, IInv, TypeOK
  <2>4. TypeOK'
    BY <1>1, <2>2, <2>3 DEF Start, IInv, TypeOK
  <2>5. WaveInv'
    BY <1>1 DEF Start, IInv, WaveInv, StartedTogether, NothingDecided,
       FrozenWhenLate, NoShowJust, WindowOpen, Late
  <2>6. LinkInv'
    BY <1>1 DEF Start, IInv, LinkInv, NewUnstamped, AwayMeansGone, Counted,
       Active
  <2> QED
    BY <2>2, <2>4, <2>5, <2>6 DEF IInv, WaveInv, LinkInv
<1>2. CASE TakeOver(h)
  <2>1. MayAct(h) /\ authority' = Resolved(h) /\ faults' = faults
        /\ faults' \in 0..MaxFaults
    BY <1>2 DEF TakeOver, MayReap, IInv, TypeOK
  <2>2. /\ authority' \in [holder : Processes \cup {NoOne},
                           epoch : 0..(MaxFaults + 1), live : BOOLEAN]
        /\ authority'.epoch >= authority.epoch
        /\ EpochsBounded'
    BY <2>1, ResolvedFits DEF IInv
  <2>3. stamp' \in [Sockets -> 0..authority'.epoch]
    BY <1>2, <2>2 DEF TakeOver, IInv, TypeOK
  <2>4. TypeOK'
    BY <1>2, <2>2, <2>3 DEF TakeOver, IInv, TypeOK
  <2>5. WaveInv'
    BY <1>2 DEF TakeOver, IInv, WaveInv, StartedTogether, NothingDecided,
       FrozenWhenLate, NoShowJust, WindowOpen, Late
  <2>6. LinkInv'
    BY <1>2 DEF TakeOver, IInv, LinkInv, NewUnstamped, AwayMeansGone, Counted,
       Active
  <2> QED
    BY <2>2, <2>4, <2>5, <2>6 DEF IInv, WaveInv, LinkInv
<1>3. ASSUME NEW s \in Sockets, Reap(h, s)
      PROVE  IInv'
  <2>1. MayAct(h) /\ authority' = Resolved(h) /\ faults' = faults
        /\ faults' \in 0..MaxFaults
    BY <1>3 DEF Reap, MayReap, IInv, TypeOK
  <2>2. /\ authority' \in [holder : Processes \cup {NoOne},
                           epoch : 0..(MaxFaults + 1), live : BOOLEAN]
        /\ authority'.epoch >= authority.epoch
        /\ EpochsBounded'
    BY <2>1, ResolvedFits DEF IInv
  <2>3. authority'.epoch \in Nat /\ 0 \in 0..authority'.epoch
    BY <2>2
  <2>4. stamp' \in [Sockets -> 0..authority'.epoch]
    BY <1>3, <2>2, <2>3, StampsFit DEF Reap, CloseLease, IInv
  <2>5. /\ WaveInv' /\ LinkInv'
        /\ ready' \subseteq Members /\ away' \subseteq Members
        /\ overdue' \subseteq away'
        /\ wave' \in {"planned", "ready_window_open", "ready", "active",
                      "ready_window_expired"}
    <3>1. /\ UNCHANGED <<now, punctual, rows, socket>>
          /\ CloseLease(s, "recovery")
      BY <1>3 DEF Reap
    <3>2. TypeOK /\ WaveInv /\ LinkInv
      BY DEF IInv, WaveInv, LinkInv
    <3> QED
      BY <3>1, <3>2, ClosingFits
  <2>6. TypeOK'
    BY <1>3, <2>1, <2>2, <2>4, <2>5 DEF Reap, CloseLease, IInv, TypeOK
  <2> QED
    BY <2>2, <2>5, <2>6 DEF IInv, WaveInv, LinkInv
<1>4. CASE Crash(h)
  <2>1. faults' = faults + 1 /\ faults < MaxFaults
        /\ authority'.epoch = authority.epoch
        /\ authority'.live = authority.live
        /\ authority' \in [holder : Processes \cup {NoOne},
                           epoch : 0..(MaxFaults + 1), live : BOOLEAN]
    BY <1>4 DEF Crash, Fault, IInv, TypeOK
  <2>2. EpochsBounded'
    BY <2>1, PresenceAssumption DEF IInv, EpochsBounded, TypeOK
  <2>3. NoOne \notin Processes
    BY PresenceAssumption DEF NoOne
  <2>4. /\ up' \subseteq Processes
        /\ socket' \in [Sockets -> {"new", "opened", "serving", "gone", "lost"}]
        /\ host' \in [Sockets -> up' \cup {NoOne}]
        /\ rows' \subseteq {s \in Sockets : socket'[s] # "new"}
        /\ \A s \in Sockets :
             socket'[s] \in {"opened", "serving"} <=> host'[s] \in up'
    BY <1>4, <2>3 DEF Crash, IInv, TypeOK
  <2>5. TypeOK'
    BY <1>4, <2>1, <2>4, PresenceAssumption DEF Crash, IInv, TypeOK
  <2>6. WaveInv'
    BY <1>4 DEF Crash, IInv, WaveInv, StartedTogether, NothingDecided,
       FrozenWhenLate, NoShowJust, WindowOpen, Late
  <2>7. LinkInv'
    BY <1>4 DEF Crash, IInv, LinkInv, NewUnstamped, AwayMeansGone, Counted,
       Active
  <2> QED
    BY <2>2, <2>5, <2>6, <2>7 DEF IInv, WaveInv, LinkInv
<1>5. CASE Restart(h)
  <2>1. h # NoOne
    BY PresenceAssumption DEF NoOne
  <2>2. TypeOK'
    BY <1>5, <2>1 DEF Restart, IInv, TypeOK
  <2>3. WaveInv' /\ LinkInv' /\ EpochsBounded'
    BY <1>5 DEF Restart, IInv, WaveInv, StartedTogether, NothingDecided,
       FrozenWhenLate, NoShowJust, WindowOpen, Late, LinkInv, NewUnstamped,
       AwayMeansGone, Counted, Active, EpochsBounded
  <2> QED
    BY <2>2, <2>3 DEF IInv, WaveInv, LinkInv
<1> QED
  BY <1>1, <1>2, <1>3, <1>4, <1>5 DEF Process, Reaper

\* The clock moves, or the authority ends.
LEMMA TimeStep ==
  ASSUME IInv, Tick \/ Expire \/ Lapse
  PROVE  IInv'
<1> USE DEF match, sockets
<1>1. CASE Tick
  <2>1. now \in Int /\ deadline \in Int /\ now' = now + 1 /\ now' \in 0..Horizon
    BY <1>1, PresenceAssumption DEF Tick, IInv, TypeOK
  <2>2. TypeOK'
    BY <1>1, <2>1 DEF Tick, IInv, TypeOK
  <2>3. FrozenWhenLate'
    BY <1>1, <2>1 DEF Tick, IInv, FrozenWhenLate, WindowOpen, Late
  <2>4. StartedTogether' /\ NothingDecided' /\ LinkInv' /\ EpochsBounded'
    BY <1>1 DEF Tick, IInv, StartedTogether, NothingDecided, LinkInv,
       NewUnstamped, AwayMeansGone, Counted, Active, EpochsBounded
  <2>5. NoShowJust'
    BY <1>1 DEF Tick, IInv, NoShowJust, WindowOpen
  <2> QED
    BY <2>2, <2>3, <2>4, <2>5 DEF IInv, LinkInv
<1>2. CASE Expire \/ Lapse
  <2>1. /\ authority' = [authority EXCEPT !.live = FALSE]
        /\ UNCHANGED <<now, match, up, sockets, punctual>>
    BY <1>2 DEF Expire, Lapse
  <2>2. EpochsBounded' /\ faults' \in 0..MaxFaults
    BY <1>2, <2>1, PresenceAssumption
    DEF Expire, Lapse, Fault, IInv, EpochsBounded, TypeOK
  <2>3. TypeOK'
    BY <2>1, <2>2 DEF IInv, TypeOK
  <2>4. WaveInv' /\ LinkInv'
    BY <2>1 DEF IInv, WaveInv, StartedTogether, NothingDecided,
       FrozenWhenLate, NoShowJust, WindowOpen, Late, LinkInv, NewUnstamped,
       AwayMeansGone, Counted, Active
  <2> QED
    BY <2>2, <2>3, <2>4 DEF IInv, WaveInv, LinkInv
<1> QED
  BY <1>1, <1>2

\* The invariant holds at the start and is kept by every step.
THEOREM PresenceInvariant == Spec => []IInv
<1>1. Init => IInv
  <2> SUFFICES ASSUME Init PROVE IInv
    OBVIOUS
  <2>1. NoOne \notin Processes
    BY PresenceAssumption DEF NoOne
  <2>2. TypeOK
    BY <2>1, PresenceAssumption DEF Init, TypeOK
  <2>3. EpochsBounded /\ NewUnstamped
    BY DEF Init, EpochsBounded, NewUnstamped
  <2>4. WaveInv
    BY DEF Init, WaveInv, StartedTogether, NothingDecided, FrozenWhenLate,
       NoShowJust, WindowOpen
  <2>5. AwayMeansGone
    BY DEF Init, AwayMeansGone
  <2> QED
    BY <2>2, <2>3, <2>4, <2>5 DEF IInv, WaveInv
<1>2. IInv /\ [Next]_vars => IInv'
  <2> SUFFICES ASSUME IInv, [Next]_vars PROVE IInv'
    OBVIOUS
  <2>1. CASE UNCHANGED vars
    BY <2>1 DEF vars, match, sockets, IInv, TypeOK, EpochsBounded,
       NewUnstamped, StartedTogether, NothingDecided, FrozenWhenLate,
       NoShowJust, AwayMeansGone, WindowOpen, Late, Counted, Active
  <2>2. CASE Next
    BY <2>2, WaveStep, ConnectionStep, ProcessStep, TimeStep DEF Next
  <2> QED
    BY <2>1, <2>2
<1> QED
  BY <1>1, <1>2, PTL DEF Spec

-----------------------------------------------------------------------------
(* What follows *)

\* Every variable keeps its type: at most MaxFaults + 1 epochs are begun, and
\* a handler is served by a process that runs.
THEOREM PresenceTyped == Spec => []TypeOK
<1>1. IInv => TypeOK
  BY DEF IInv
<1> QED
  BY <1>1, PresenceInvariant, PTL

\* A wave that is ready or has started has all its members ready
\* (SetParticipantReady, StartWave, the closing of leases).
THEOREM ReadyTogether == Spec => []StartedTogether
<1>1. IInv => StartedTogether
  BY DEF IInv
<1> QED
  BY <1>1, PresenceInvariant, PTL

\* A no-show is decided by who was ready when the deadline passed, whatever
\* broke or was reaped since (ResolveNoShow, clearParticipantReadiness).
THEOREM NoShowDecidedJustly == Spec => []NoShowJust
<1>1. IInv => NoShowJust
  BY DEF IInv
<1> QED
  BY <1>1, PresenceInvariant, PTL

\* Nobody whose return a game still waits for is counted present; after the
\* deadline of the interval a return is counted and ends nothing
\* (closeParticipantConnection, connectParticipantConnection).
THEOREM NobodyAwayIsCounted == Spec => []AwayMeansGone
<1>1. IInv => AwayMeansGone
  BY DEF IInv
<1> QED
  BY <1>1, PresenceInvariant, PTL

\* What the closing of one lease does to its participant.
LastTabRule ==
  \A s \in Active \ Active' :
    LET last == s \in rows /\ Counted(Owner[s], Active \ {s}) = {}
    IN /\ last /\ WindowOpen => ready' = ready \ {Owner[s]}
       /\ ~last => UNCHANGED <<ready, away>>

\* Closing a lease touches its participant exactly when it is the last one.
LEMMA ClosingOneTouchesRightly ==
  ASSUME IInv, NEW s \in Sockets, NEW operation \in {"disconnect", "recovery"},
         CloseLease(s, operation)
  PROVE  LastTabRule
<1>1. Active' = Active \ {s}
  BY DEF CloseLease, Active, IInv, TypeOK
<1>2. Owner[s] \notin ready => ready \ {Owner[s]} = ready
  BY DEF IInv, TypeOK
<1>3. Last(s) <=> s \in rows /\ Counted(Owner[s], Active \ {s}) = {}
  BY DEF Last
<1>4. Last(s) /\ WindowOpen => ready' = ready \ {Owner[s]}
  BY <1>2 DEF CloseLease, Clears, Marked
<1>5. ~Last(s) => UNCHANGED <<ready, away>>
  BY DEF CloseLease, Clears, Pauses
<1> QED
  BY <1>1, <1>3, <1>4, <1>5 DEF LastTabRule

\* The closing of a lease touches its participant exactly when it is the last
\* connection counted and its fence has not been taken over, whoever closes it
\* (closeParticipantConnection, recoverOrphanedConnection).
THEOREM OnlyTheLastTabCounts == Spec => LastTabCounts
<1>1. IInv /\ [Next]_vars => [LastTabRule]_vars
  <2> SUFFICES ASSUME IInv, Next PROVE LastTabRule
    OBVIOUS
  <2> USE DEF match, sockets
  <2>1. ASSUME stamp' = stamp
        PROVE  LastTabRule
    BY <2>1 DEF LastTabRule, Active
  <2>2. ASSUME NEW s \in Sockets, Connection(s)
        PROVE  LastTabRule
    <3>1. CASE Disconnect(s)
      BY <3>1, ClosingOneTouchesRightly DEF Disconnect
    <3>2. CASE Connect(s)
      <4>1. stamp[s] = 0 /\ \A t \in Sockets : t # s => stamp'[t] = stamp[t]
        BY <3>2 DEF Connect, Serves, IInv, NewUnstamped, TypeOK
      <4>2. Active \ Active' = {}
        BY <4>1 DEF Active, IInv, TypeOK
      <4> QED
        BY <4>2 DEF LastTabRule
    <3>3. CASE ~Disconnect(s) /\ ~Connect(s)
      BY <2>1, <2>2, <3>3 DEF Connection, Open, ConnectFails,
         DisconnectUnmatched, DisconnectFails
    <3> QED
      BY <3>1, <3>2, <3>3
  <2>3. ASSUME NEW h \in Processes, Process(h)
        PROVE  LastTabRule
    <3>1. ASSUME NEW s \in Sockets, Reap(h, s)
          PROVE  LastTabRule
      BY <3>1, ClosingOneTouchesRightly DEF Reap
    <3>2. CASE Start(h) \/ TakeOver(h) \/ Crash(h) \/ Restart(h)
      BY <2>1, <3>2 DEF Start, TakeOver, Crash, Restart
    <3> QED
      BY <2>3, <3>1, <3>2 DEF Process, Reaper
  <2>4. CASE \/ OpenWindow
             \/ \E m \in Members : SetReady(m) \/ Overdue(m)
             \/ \E pair \in Pairs : ResolveNoShow(pair) \/ EndGame(pair)
             \/ Expire \/ Lapse \/ Tick
    BY <2>1, <2>4 DEF OpenWindow, SetReady, Overdue, ResolveNoShow, EndGame,
       Expire, Lapse, Tick
  <2> QED
    BY <2>2, <2>3, <2>4 DEF Next
<1> QED
  BY <1>1, PresenceInvariant, PTL DEF Spec, LastTabCounts, LastTabRule

----------------------------------------------------------------------------
(* The authority of the connections.                                        *)

\* A process that may act uses the epoch in force, or begins the next one.
LEMMA ResolvedFollows ==
  ASSUME TypeOK, NEW h \in Processes, authority' = Resolved(h)
  PROVE  Owned!Take \/ UNCHANGED authority
<1>1. authority.epoch \in Nat /\ authority.live \in BOOLEAN
  BY DEF TypeOK
<1> QED
  BY <1>1 DEF Resolved, Owned!Take

\* Whatever connections, reapers and the operator do to the authority is what
\* the ownership of module Authority allows (AuthorityFor and
\* RecoveryAuthorityFor in connection.go, presence_recovery and wave start).
THEOREM PresenceFollowsOwnership == Spec => FollowsOwnership
<1>1. Init => Owned!OInit
  BY DEF Init, Owned!OInit
<1>2. TypeOK /\ [Next]_vars => [Owned!ONext]_(Owned!ovars)
  <2> SUFFICES ASSUME TypeOK, [Next]_vars
               PROVE  Owned!ONext \/ UNCHANGED Owned!ovars
    OBVIOUS
  <2> USE DEF Owned!ONext, Owned!ovars, match, sockets
  <2>1. authority \in [holder : Processes \cup {NoOne},
                       epoch : 0..(MaxFaults + 1), live : BOOLEAN]
    BY DEF TypeOK
  <2>2. ASSUME NEW h \in Processes, authority' = Resolved(h)
        PROVE  Owned!ONext \/ UNCHANGED Owned!ovars
    BY <2>2, ResolvedFollows
  <2>3. ASSUME NEW s \in Sockets, Connection(s)
        PROVE  Owned!ONext \/ UNCHANGED Owned!ovars
    <3>1. ASSUME Connect(s) \/ Disconnect(s) \/ DisconnectUnmatched(s)
          PROVE  host[s] \in Processes /\ authority' = Resolved(host[s])
      BY <3>1 DEF Connect, Disconnect, DisconnectUnmatched, Serves, TypeOK
    <3> QED
      BY <2>2, <2>3, <3>1 DEF Connection, Open, ConnectFails, DisconnectFails
  <2>4. ASSUME NEW h \in Processes, Process(h)
        PROVE  Owned!ONext \/ UNCHANGED Owned!ovars
    <3>1. CASE Start(h) \/ Reaper(h)
      BY <2>2, <3>1 DEF Start, Reaper, TakeOver, Reap
    <3>2. CASE Crash(h)
      BY <2>1, <3>2 DEF Crash, Owned!Orphan
    <3>3. CASE Restart(h)
      BY <3>3 DEF Restart
    <3> QED
      BY <2>4, <3>1, <3>2, <3>3 DEF Process
  <2>5. CASE Expire \/ Lapse
    BY <2>1, <2>5 DEF Expire, Lapse, Owned!End
  <2>6. CASE UNCHANGED authority
    BY <2>6
  <2> QED
    BY <2>3, <2>4, <2>5, <2>6
    DEF Next, vars, OpenWindow, SetReady, Overdue, ResolveNoShow, EndGame, Tick
<1> QED
  BY <1>1, <1>2, PresenceTyped, PTL DEF Spec, FollowsOwnership, Owned!OSpec

=============================================================================
