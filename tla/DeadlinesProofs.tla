---------------------------- MODULE DeadlinesProofs ----------------------------
(***************************************************************************)
(* Machine-checked facts about module Deadlines, for every set of          *)
(* processes and deadlines, every page size, channel capacity and delay:   *)
(* the inductive invariant IInv, that timers follow their rows, that a     *)
(* timeout comes when it is due, and that a sweep which reports completion *)
(* has armed what was pending when its process started.                    *)
(***************************************************************************)
EXTENDS Deadlines, SequenceTheorems, FiniteSetTheorems, WellFoundedInduction,
        TLAPS

CommandType == [from : {"sweep", "runner", "nobody"}, item : Items]

SweepType ==
  [phase : {"idle", "rearming", "sending", "waiting"},
   cursor : Deadlines \cup {0}, todo : SUBSET Items,
   last : Deadlines \cup {0}, complete : BOOLEAN, initial : BOOLEAN]

RunnerType == [phase : {"idle", "sending", "waiting"}, id : Deadlines \cup {0}]

RowType == [state : {"new", "pending", "paused", "settled"}, rev : Nat, due : Times]

\* The domains that TypeOK leaves open.
Typed ==
  /\ now \in 0 .. MaxTime
  /\ row \in [Deadlines -> RowType]
  /\ receipts \subseteq Deadlines \X Nat
  /\ lock \in Procs \cup {NoProc}
  /\ up \in [Procs -> BOOLEAN]
  /\ faults \in 0 .. MaxFaults /\ writes \in 0 .. MaxWrites
  /\ armed \in [Procs -> SUBSET Timers]
  /\ batch \in [Procs -> SUBSET Timers]
  /\ commands \in [Procs -> Seq(CommandType)]
  /\ sweep \in [Procs -> SweepType]
  /\ runner \in [Procs -> RunnerType]
  /\ known \in [Procs -> [Deadlines -> Nat]]

\* A listing of a row: what it said of an earlier revision, or of this one.
FollowsIn(rows, item) ==
  /\ item.rev <= rows[item.id].rev
  /\ rows[item.id].state = "pending" /\ item.rev = rows[item.id].rev
       => item.due = rows[item.id].due

\* The listings that a process holds in its timers, its channel and its sweep.
Heard(p) ==
  {t.item : t \in armed[p]} \cup sweep[p].todo
    \cup {commands[p][i].item : i \in DOMAIN commands[p]}

\* The revisions that the processes have heard of, and those settled or known
\* at a start, are not ahead of their rows.
RevisionsInv ==
  /\ \A receipt \in receipts : receipt[2] < row[receipt[1]].rev
  /\ \A p \in Procs, d \in Deadlines : known[p][d] <= row[d].rev
  /\ \A p \in Procs : \A item \in Heard(p) : FollowsIn(row, item)

\* A scheduler has one timer for a deadline, handles only timers it has and
\* none before its time; a channel holds no more than its capacity.
SchedulerInv ==
  \A p \in Procs :
    /\ batch[p] \subseteq armed[p]
    /\ \A t \in batch[p] : t.next <= now
    /\ \A t \in armed[p] : t.item.due <= t.next
    /\ \A t, u \in armed[p] : t.item.id = u.item.id => t = u
    /\ Len(commands[p]) <= Buffer

\* The callers of a scheduler know what they call it for.
CallersInv ==
  \A p \in Procs :
    /\ sweep[p].phase \in {"sending", "waiting"} => sweep[p].todo # {}
    /\ runner[p].phase # "idle" => runner[p].id \in Deadlines

IInv == Typed /\ RevisionsInv /\ SchedulerInv /\ CallersInv

-----------------------------------------------------------------------------
(* What the choices of the code find *)

LEMMA MinimumOfNaturals ==
  ASSUME NEW S \in SUBSET Nat, S # {}
  PROVE  \E m \in S : \A n \in S : m <= n
<1> DEFINE R == OpToRel(<, Nat)
<1>1. IsWellFoundedOn(R, Nat)
  BY NatLessThanWellFounded
<1>2. PICK m \in S : \A n \in S : ~ (<<n, m>> \in R)
  <2> HIDE DEF R
  <2> QED
    BY <1>1, WFMin
<1>3. m \in S /\ \A n \in S : ~ (n < m)
  BY <1>2 DEF OpToRel
<1> HIDE DEF R
<1>4. \A n \in S : m <= n
  BY <1>3
<1> QED
  BY <1>3, <1>4

LEMMA MaximumOfFiniteSet ==
  ASSUME NEW S \in SUBSET Nat, IsFiniteSet(S), S # {}
  PROVE  \E m \in S : \A n \in S : n <= m
<1> DEFINE Bad == {T \in SUBSET S : T # {} /\ ~ \E m \in T : \A n \in T : n <= m}
           R == StrictSubsetOrdering(S)
<1>1. IsWellFoundedOn(R, FiniteSubsetsOf(S)) /\ FiniteSubsetsOf(S) = SUBSET S
  BY FS_StrictSubsetOrderingWellFounded, FS_FiniteSubsetsOfFinite
<1>2. ASSUME Bad # {} PROVE FALSE
  <2>1. Bad \subseteq FiniteSubsetsOf(S)
    BY <1>1
  <2>2. PICK T \in Bad : \A U \in Bad : ~ (<<U, T>> \in R)
    <3> HIDE DEF R, Bad
    <3> QED
      BY <1>1, <1>2, <2>1, WFMin
  <2>3. PICK x \in T : TRUE
    BY <2>2
  <2>4. T \ {x} \in SUBSET S /\ <<T \ {x}, T>> \in R
    BY <2>2, <2>3 DEF StrictSubsetOrdering
  <2>5. CASE T \ {x} = {}
    <3>1. x \in T /\ \A n \in T : n <= x
      BY <2>2, <2>3, <2>5
    <3> QED
      BY <2>2, <3>1
  <2>6. CASE T \ {x} # {}
    <3>1. PICK m \in T \ {x} : \A n \in T \ {x} : n <= m
      BY <2>2, <2>4, <2>6
    <3>2. x \in Nat /\ m \in Nat /\ T \subseteq Nat
      BY <2>2, <2>3, <3>1
    <3>3. \E k \in T : \A n \in T : n <= k
      <4>1. CASE x <= m
        BY <3>1, <3>2, <4>1
      <4>2. CASE m <= x
        BY <2>3, <3>1, <3>2, <4>2
      <4> QED
        BY <3>2, <4>1, <4>2
    <3> QED
      BY <2>2, <3>3
  <2> QED
    BY <2>5, <2>6
<1> QED
  BY <1>2

LEMMA NumbersTyped ==
  /\ Times \subseteq Nat /\ 0 \in Times /\ 0..MaxTime \subseteq Times
  /\ Deadlines \subseteq Nat \ {0} /\ IsFiniteSet(Deadlines)
  /\ Buffer \in Nat \ {0} /\ Duration \in Nat \ {0} /\ RetryAfter \in Nat \ {0}
  /\ PageSize \in Nat \ {0}
  /\ MaxTime \in Nat /\ Horizon \in Nat /\ Horizon <= MaxTime
  /\ MaxFaults \in Nat /\ MaxWrites \in Nat /\ NoProc \notin Procs
BY DeadlinesAssumption DEF Times, NoProc

\* handleDue takes a timer of its batch, and no earlier one is in it.
LEMMA FirstIsOne ==
  ASSUME NEW timers \in SUBSET Timers, timers # {}
  PROVE  FirstOf(timers) \in timers
<1>1. \A t \in timers : t.next \in Nat /\ t.item.id \in Nat
  BY NumbersTyped DEF Timers, Items
<1>2. PICK n \in {t.next : t \in timers} : \A m \in {t.next : t \in timers} : n <= m
  <2>1. {t.next : t \in timers} \in SUBSET Nat /\ {t.next : t \in timers} # {}
    BY <1>1
  <2> HIDE DEF Timers
  <2> QED
    BY <2>1, MinimumOfNaturals
<1> DEFINE ids == {t.item.id : t \in {u \in timers : u.next = n}}
<1>3. PICK i \in ids : \A j \in ids : i <= j
  <2>1. ids \in SUBSET Nat /\ ids # {}
    BY <1>1, <1>2
  <2> HIDE DEF ids
  <2> QED
    BY <2>1, MinimumOfNaturals
<1>4. PICK t \in timers : t.next = n /\ t.item.id = i
  BY <1>3
<1>5. \A u \in timers : Before(t, u)
  <2> SUFFICES ASSUME NEW u \in timers PROVE Before(t, u)
    OBVIOUS
  <2>1. n \in Nat /\ u.next \in Nat /\ n <= u.next
    BY <1>1, <1>2
  <2>2. u.next = n => i <= u.item.id
    BY <1>3
  <2> QED
    BY <1>4, <2>1, <2>2 DEF Before
<1> QED
  BY <1>5 DEF FirstOf

LEMMA NextDueIsDue ==
  ASSUME IInv, NEW p \in Procs, batch[p] # {}
  PROVE  NextDue(p) \in batch[p] /\ NextDue(p) \in armed[p]
         /\ NextDue(p) \in Timers
<1>1. batch[p] \in SUBSET Timers /\ batch[p] \subseteq armed[p]
  BY DEF IInv, Typed, SchedulerInv
<1>2. FirstOf(batch[p]) \in batch[p]
  BY <1>1, FirstIsOne
<1> QED
  BY <1>1, <1>2 DEF NextDue

\* A sweep arms an item of its page.
LEMMA NextListedIsListed ==
  ASSUME IInv, NEW p \in Procs, sweep[p].todo # {}
  PROVE  NextListed(p) \in sweep[p].todo /\ NextListed(p) \in Items
<1> DEFINE todo == sweep[p].todo
           ids == {item.id : item \in todo}
<1>1. todo \subseteq Items
  BY DEF IInv, Typed, SweepType
<1>2. ids \in SUBSET Nat /\ ids # {}
  BY <1>1, NumbersTyped DEF Items
<1>3. PICK i \in ids : \A j \in ids : i <= j
  <2> HIDE DEF ids
  <2> QED
    BY <1>2, MinimumOfNaturals
<1>4. \E item \in todo : \A other \in todo : item.id <= other.id
  BY <1>3
<1>5. NextListed(p) \in todo
  BY <1>4 DEF NextListed
<1> QED
  BY <1>1, <1>5

\* The last row of a page that has one.
LEMMA LastIsOne ==
  ASSUME NEW page \in SUBSET Deadlines, page # {}
  PROVE  LET last == CHOOSE d \in page : \A e \in page : e <= d
         IN last \in page /\ \A e \in page : e <= last
<1>1. page \in SUBSET Nat /\ IsFiniteSet(page)
  BY NumbersTyped, FS_Subset
<1>2. \E d \in page : \A e \in page : e <= d
  BY <1>1, MaximumOfFiniteSet
<1> QED
  BY <1>2

-----------------------------------------------------------------------------
(* The rows *)

\* Each row is as it was, or has a greater revision.
Advances ==
  \A d \in Deadlines : row'[d] = row[d] \/ row[d].rev < row'[d].rev

LEMMA FollowsOn ==
  ASSUME Typed, Typed', Advances, NEW item \in Items, FollowsIn(row, item)
  PROVE  FollowsIn(row', item)
<1>1. item.id \in Deadlines /\ item.rev \in Nat
  BY DEF Items
<1>2. row[item.id].rev \in Nat /\ row'[item.id].rev \in Nat
  BY <1>1 DEF Typed, RowType
<1>3. item.rev <= row[item.id].rev
  BY DEF FollowsIn
<1>4. CASE row'[item.id] = row[item.id]
  BY <1>4 DEF FollowsIn
<1>5. CASE row[item.id].rev < row'[item.id].rev
  BY <1>1, <1>2, <1>3, <1>5 DEF FollowsIn
<1> QED
  BY <1>4, <1>5, <1>1 DEF Advances

\* What is listed of a row follows it.
LEMMA ListedFollows ==
  ASSUME Typed, NEW d \in Deadlines
  PROVE  Listed(d) \in Items /\ FollowsIn(row, Listed(d)) /\ Listed(d).id = d
         /\ Listed(d).rev = row[d].rev /\ Listed(d).due = row[d].due
<1>1. row[d].rev \in Nat /\ row[d].due \in Times
  BY DEF Typed, RowType
<1> QED
  BY <1>1 DEF Listed, Items, FollowsIn

LEMMA HeardItems ==
  ASSUME Typed, NEW p \in Procs
  PROVE  Heard(p) \subseteq Items
<1>1. armed[p] \subseteq Timers /\ sweep[p].todo \subseteq Items
      /\ commands[p] \in Seq(CommandType)
  BY DEF Typed, SweepType
<1>2. \A i \in DOMAIN commands[p] : commands[p][i] \in CommandType
  BY <1>1, LenProperties
<1> QED
  BY <1>1, <1>2 DEF Heard, Timers, CommandType

\* The processes keep what follows the rows when the rows advance.
LEMMA RowsAdvance ==
  ASSUME IInv, Typed', Advances,
         \A receipt \in receipts' :
           receipt \in receipts \/ receipt[2] < row'[receipt[1]].rev,
         \A p \in Procs, d \in Deadlines :
           known'[p][d] = known[p][d] \/ known'[p][d] <= row'[d].rev,
         \A p \in Procs : \A item \in Heard(p)' :
           item \in Heard(p) \/ FollowsIn(row', item)
  PROVE  RevisionsInv'
<1>0. Typed /\ RevisionsInv
  BY DEF IInv
<1>1. \A receipt \in receipts' : receipt[2] < row'[receipt[1]].rev
  <2> SUFFICES ASSUME NEW receipt \in receipts PROVE receipt[2] < row'[receipt[1]].rev
    OBVIOUS
  <2>1. receipt[1] \in Deadlines /\ receipt[2] \in Nat
    BY <1>0 DEF Typed
  <2>2. receipt[2] < row[receipt[1]].rev
    BY <1>0 DEF RevisionsInv
  <2>3. row[receipt[1]].rev \in Nat /\ row'[receipt[1]].rev \in Nat
    BY <1>0, <2>1 DEF Typed, RowType
  <2> QED
    BY <2>1, <2>2, <2>3 DEF Advances
<1>2. \A p \in Procs, d \in Deadlines : known'[p][d] <= row'[d].rev
  <2> SUFFICES ASSUME NEW p \in Procs, NEW d \in Deadlines
               PROVE known[p][d] <= row'[d].rev
    OBVIOUS
  <2>1. known[p][d] \in Nat /\ row[d].rev \in Nat /\ row'[d].rev \in Nat
    BY <1>0 DEF Typed, RowType
  <2>2. known[p][d] <= row[d].rev
    BY <1>0 DEF RevisionsInv
  <2> QED
    BY <2>1, <2>2 DEF Advances
<1>3. ASSUME NEW p \in Procs, NEW item \in Heard(p)'
      PROVE  FollowsIn(row', item)
  <2>1. CASE item \in Heard(p)
    <3>1. item \in Items /\ FollowsIn(row, item)
      BY <1>0, <2>1, HeardItems DEF RevisionsInv
    <3> QED
      BY <1>0, <3>1, FollowsOn
  <2> QED
    BY <2>1
<1> QED
  BY <1>1, <1>2, <1>3 DEF RevisionsInv

\* The same, when nothing durable changes.
LEMMA RowsRest ==
  ASSUME IInv, Typed', UNCHANGED <<row, receipts>>,
         \A p \in Procs, d \in Deadlines :
           known'[p][d] = known[p][d] \/ known'[p][d] <= row[d].rev,
         \A p \in Procs : \A item \in Heard(p)' :
           item \in Heard(p) \/ FollowsIn(row, item)
  PROVE  RevisionsInv'
BY RowsAdvance DEF Advances

-----------------------------------------------------------------------------
(* Commands that write the rows *)

LEMMA WriteStep ==
  ASSUME IInv, NEW d \in Deadlines, NEW due \in Times,
         NEW state \in {"new", "pending", "paused", "settled"},
         Write(d, state, due)
  PROVE  IInv'
<1>1. /\ row' = [row EXCEPT ![d] = [state |-> state, rev |-> @.rev + 1, due |-> due]]
      /\ UNCHANGED <<now, receipts, lock, up, armed, batch, commands, sweep, runner,
                     known, faults>>
      /\ writes' \in 0 .. MaxWrites
  BY NumbersTyped DEF Write, scheduler, IInv, Typed
<1>2. row' \in [Deadlines -> RowType]
  <2>1. row[d].rev + 1 \in Nat
    BY DEF IInv, Typed, RowType
  <2>2. [state |-> state, rev |-> row[d].rev + 1, due |-> due] \in RowType
    BY <2>1 DEF RowType
  <2> QED
    BY <1>1, <2>2 DEF IInv, Typed
<1>3. Typed'
  BY <1>1, <1>2 DEF IInv, Typed
<1>4. Advances
  <2>1. row[d].rev \in Nat
    BY DEF IInv, Typed, RowType
  <2> QED
    BY <1>1, <2>1 DEF Advances, IInv, Typed
<1>5. \A p \in Procs : Heard(p)' = Heard(p)
  BY <1>1 DEF Heard
<1>6. RevisionsInv'
  BY <1>1, <1>3, <1>4, <1>5, RowsAdvance
<1>7. SchedulerInv' /\ CallersInv'
  BY <1>1 DEF IInv, SchedulerInv, CallersInv
<1> QED
  BY <1>3, <1>6, <1>7 DEF IInv

LEMMA CommandStep ==
  ASSUME IInv, NEW d \in Deadlines,
         Start(d) \/ Suspend(d) \/ Resume(d) \/ Ready(d) \/ Finish(d)
  PROVE  IInv'
<1>1. row[d].due \in Times /\ now \in Nat /\ now <= MaxTime /\ row[d].due \in Nat
  <2>1. row[d].due \in Times /\ now \in 0..MaxTime
    BY DEF IInv, Typed, RowType
  <2>2. row[d].due \in Nat
    BY <2>1, NumbersTyped
  <2>3. now \in Nat /\ now <= MaxTime
    BY <2>1, NumbersTyped
  <2> QED
    BY <2>1, <2>2, <2>3
<1>2. CASE Start(d)
  <2>1. now + Duration \in Times
    BY <1>1, <1>2, NumbersTyped DEF Start, Times
  <2> QED
    BY <1>2, <2>1, WriteStep DEF Start
<1>3. CASE Suspend(d)
  <2>1. row[d].due - now \in Times
    BY <1>1, <1>3, NumbersTyped DEF Suspend, Times
  <2> QED
    BY <1>3, <2>1, WriteStep DEF Suspend
<1>4. CASE Resume(d)
  <2>1. now + row[d].due \in Times
    BY <1>1, <1>4, NumbersTyped DEF Resume, Times
  <2> QED
    BY <1>4, <2>1, WriteStep DEF Resume
<1>5. CASE Ready(d) \/ Finish(d)
  BY <1>1, <1>5, WriteStep DEF Ready, Finish
<1> QED
  BY <1>2, <1>3, <1>4, <1>5

-----------------------------------------------------------------------------
(* The scheduler goroutine *)

\* What a step of a scheduler must see to.
TimersFit ==
  /\ armed' \in [Procs -> SUBSET Timers] /\ batch' \in [Procs -> SUBSET Timers]
  /\ \A p \in Procs :
       /\ batch'[p] \subseteq armed'[p]
       /\ \A t \in batch'[p] : t.next <= now'
       /\ \A t \in armed'[p] : t.item.due <= t.next
       /\ \A t, u \in armed'[p] : t.item.id = u.item.id => t = u

LEMMA TimersRest ==
  ASSUME IInv, UNCHANGED <<now, armed, batch>>
  PROVE  TimersFit
BY DEF IInv, Typed, SchedulerInv, TimersFit

LEMMA HandledFits ==
  ASSUME IInv, NEW p \in Procs, NEW t \in batch[p], Handled(p, t), now' = now
  PROVE  TimersFit /\ \A q \in Procs : armed'[q] \subseteq armed[q]
<1>1. /\ armed \in [Procs -> SUBSET Timers] /\ batch \in [Procs -> SUBSET Timers]
      /\ SchedulerInv
  BY DEF IInv, Typed
<1>2. /\ batch' = [batch EXCEPT ![p] = batch[p] \ {t}]
      /\ armed' = [armed EXCEPT ![p] = armed[p] \ TimerOf(p, t.item.id)]
  BY DEF Handled
<1>3. t \in armed[p] /\ \A u \in armed[p] : u \in TimerOf(p, t.item.id) <=> u = t
  BY <1>1 DEF SchedulerInv, TimerOf
<1>4. \A q \in Procs : /\ armed'[q] = IF q = p THEN armed[p] \ {t} ELSE armed[q]
                       /\ batch'[q] = IF q = p THEN batch[p] \ {t} ELSE batch[q]
  BY <1>1, <1>2, <1>3
<1>5. armed' \in [Procs -> SUBSET Timers] /\ batch' \in [Procs -> SUBSET Timers]
  BY <1>1, <1>2
<1> QED
  BY <1>1, <1>4, <1>5 DEF SchedulerInv, TimersFit

LEMMA RetriedFits ==
  ASSUME IInv, NEW p \in Procs, NEW t \in batch[p], Retried(p, t), now' = now
  PROVE  /\ TimersFit
         /\ \A q \in Procs : \A u \in armed'[q] :
              \E v \in armed[q] : u.item = v.item
<1> DEFINE later == [t EXCEPT !.next = now + RetryAfter]
<1>1. /\ armed \in [Procs -> SUBSET Timers] /\ batch \in [Procs -> SUBSET Timers]
      /\ SchedulerInv
  BY DEF IInv, Typed
<1>2. /\ batch' = [batch EXCEPT ![p] = batch[p] \ {t}]
      /\ armed' = [armed EXCEPT ![p] =
                     (armed[p] \ TimerOf(p, t.item.id)) \cup {later}]
      /\ now + RetryAfter <= MaxTime
  BY DEF Retried
<1>3. t \in armed[p] /\ \A u \in armed[p] : u \in TimerOf(p, t.item.id) <=> u = t
  BY <1>1 DEF SchedulerInv, TimerOf
<1>4. t \in Timers /\ t.next <= now /\ t.item.due <= t.next
      /\ t.next \in Nat /\ t.item.due \in Nat /\ now \in Nat
  <2>1. t \in Timers /\ t.next <= now /\ t.item.due <= t.next /\ now \in 0..MaxTime
    BY <1>1, <1>3 DEF SchedulerInv, IInv, Typed
  <2> QED
    BY <2>1, NumbersTyped DEF Timers, Items
<1>5. later \in Timers /\ later.item = t.item /\ later.next = now + RetryAfter
      /\ t.item.due <= later.next
  BY <1>2, <1>4, NumbersTyped DEF Timers, Times
<1> HIDE DEF later
<1>6. \A q \in Procs :
        /\ armed'[q] = IF q = p THEN (armed[p] \ {t}) \cup {later} ELSE armed[q]
        /\ batch'[q] = IF q = p THEN batch[p] \ {t} ELSE batch[q]
  BY <1>1, <1>2, <1>3
<1>7. armed' \in [Procs -> SUBSET Timers] /\ batch' \in [Procs -> SUBSET Timers]
  BY <1>1, <1>2, <1>5
<1>8. TimersFit
  <2> SUFFICES ASSUME NEW q \in Procs
               PROVE  /\ batch'[q] \subseteq armed'[q]
                      /\ \A u \in batch'[q] : u.next <= now
                      /\ \A u \in armed'[q] : u.item.due <= u.next
                      /\ \A u, v \in armed'[q] : u.item.id = v.item.id => u = v
    BY <1>7 DEF TimersFit
  <2>1. CASE q # p
    BY <1>1, <1>6, <2>1 DEF SchedulerInv
  <2>2. CASE q = p
    <3>1. \A u \in armed[p] : u.item.id = t.item.id => u = t
      BY <1>1, <1>3 DEF SchedulerInv
    <3>2. armed'[q] = (armed[p] \ {t}) \cup {later} /\ batch'[q] = batch[p] \ {t}
      BY <1>6, <2>2
    <3>3. batch'[q] \subseteq armed'[q] /\ \A u \in batch'[q] : u.next <= now
      BY <1>1, <3>2 DEF SchedulerInv
    <3>4. \A u \in armed'[q] : u.item.due <= u.next
      BY <1>1, <1>5, <3>2 DEF SchedulerInv
    <3>5. \A u, v \in armed'[q] : u.item.id = v.item.id => u = v
      BY <1>1, <1>5, <3>1, <3>2 DEF SchedulerInv
    <3> QED
      BY <3>3, <3>4, <3>5
  <2> QED
    BY <2>1, <2>2
<1>9. \A q \in Procs : \A u \in armed'[q] : \E v \in armed[q] : u.item = v.item
  BY <1>3, <1>5, <1>6
<1> QED
  BY <1>8, <1>9

\* The row of a timer is settled.
LEMMA SettleFits ==
  ASSUME IInv, NEW item \in Items, LoadMatches(item), Settle(item)
  PROVE  /\ row' \in [Deadlines -> RowType] /\ receipts' \subseteq Deadlines \X Nat
         /\ Advances /\ writes' = writes
         /\ \A receipt \in receipts' :
              receipt \in receipts \/ receipt[2] < row'[receipt[1]].rev
<1>1. /\ item.id \in Deadlines /\ item.rev \in Nat
      /\ row[item.id] \in RowType /\ row[item.id].rev = item.rev
  BY DEF Items, IInv, Typed, LoadMatches
<1>2. /\ row' = [row EXCEPT ![item.id] =
                   [row[item.id] EXCEPT !.state = "settled", !.rev = item.rev + 1]]
      /\ receipts' = receipts \cup {<<item.id, item.rev>>}
      /\ writes' = writes
  BY <1>1 DEF Settle, Receipt, IInv, Typed
<1>3. [row[item.id] EXCEPT !.state = "settled", !.rev = item.rev + 1] \in RowType
  <2>1. item.rev + 1 \in Nat
    BY <1>1
  <2> QED
    BY <1>1, <2>1 DEF RowType
<1>4. row' \in [Deadlines -> RowType] /\ row'[item.id].rev = item.rev + 1
      /\ \A d \in Deadlines : d # item.id => row'[d] = row[d]
  BY <1>1, <1>2, <1>3 DEF IInv, Typed, RowType
<1>5. Advances
  BY <1>1, <1>4 DEF Advances
<1>6. receipts' \subseteq Deadlines \X Nat
  BY <1>1, <1>2 DEF IInv, Typed
<1>7. \A receipt \in receipts' :
        receipt \in receipts \/ receipt[2] < row'[receipt[1]].rev
  BY <1>1, <1>2, <1>4
<1> QED
  BY <1>2, <1>4, <1>5, <1>6, <1>7

\* A step of the handler loop.
LEMMA HandleStep ==
  ASSUME IInv, NEW p \in Procs, Handle(p) \/ HandleUnanswered(p) \/ HandleFails(p)
  PROVE  IInv'
<1> DEFINE t == NextDue(p)
<1>1. batch[p] # {}
  BY DEF Handle, HandleKnown, HandleStale, HandleDeadline, HandleUnanswered,
     HandleFails, CanSettle
<1>2. t \in batch[p] /\ t \in Timers /\ t.item \in Items
  BY <1>1, NextDueIsDue DEF Timers
<1> HIDE DEF t
<1>3. /\ UNCHANGED <<now, lock, up, commands, sweep, runner, known>>
      /\ faults' \in 0 .. MaxFaults
  BY NumbersTyped
  DEF Handle, HandleKnown, HandleStale, HandleDeadline, HandleUnanswered,
      HandleFails, Fault, IInv, Typed
<1>4. Handled(p, t) \/ Retried(p, t)
  BY DEF Handle, HandleKnown, HandleStale, HandleDeadline, HandleUnanswered,
     HandleFails, t
<1>5. /\ TimersFit
      /\ \A q \in Procs : \A u \in armed'[q] :
              \E v \in armed[q] : u.item = v.item
  BY <1>2, <1>3, <1>4, HandledFits, RetriedFits
<1>6. \/ UNCHANGED durable
      \/ LoadMatches(t.item) /\ Settle(t.item)
  BY DEF Handle, HandleKnown, HandleStale, HandleDeadline, HandleUnanswered,
     HandleFails, CanSettle, t
<1>7. /\ row' \in [Deadlines -> RowType] /\ receipts' \subseteq Deadlines \X Nat
      /\ Advances /\ writes' = writes
      /\ \A receipt \in receipts' :
           receipt \in receipts \/ receipt[2] < row'[receipt[1]].rev
  <2>1. CASE UNCHANGED durable
    BY <2>1 DEF durable, Advances, IInv, Typed
  <2>2. CASE LoadMatches(t.item) /\ Settle(t.item)
    BY <1>2, <2>2, SettleFits
  <2> QED
    BY <1>6, <2>1, <2>2
<1>8. Typed'
  BY <1>3, <1>5, <1>7 DEF IInv, Typed, TimersFit
<1>9. \A q \in Procs : \A item \in Heard(q)' : item \in Heard(q)
  BY <1>3, <1>5 DEF Heard
<1>10. RevisionsInv'
  BY <1>3, <1>7, <1>8, <1>9, RowsAdvance
<1>11. SchedulerInv' /\ CallersInv'
  BY <1>3, <1>5 DEF IInv, SchedulerInv, TimersFit, CallersInv
<1> QED
  BY <1>8, <1>10, <1>11 DEF IInv

\* The timer of the earliest deadline goes off.
LEMMA FireStep ==
  ASSUME IInv, NEW p \in Procs, Fire(p)
  PROVE  IInv'
<1>1. /\ batch' = [batch EXCEPT ![p] = {t \in armed[p] : t.next <= now}]
      /\ UNCHANGED <<now, row, receipts, writes, lock, up, armed, commands, sweep,
                     runner, known, faults>>
  BY DEF Fire, durable
<1>2. batch' \in [Procs -> SUBSET Timers]
      /\ \A q \in Procs : batch'[q] = IF q = p THEN {t \in armed[p] : t.next <= now}
                                      ELSE batch[q]
  BY <1>1 DEF IInv, Typed
<1>3. Typed'
  BY <1>1, <1>2 DEF IInv, Typed
<1>4. RevisionsInv'
  BY <1>1 DEF IInv, RevisionsInv, Heard
<1>5. SchedulerInv' /\ CallersInv'
  BY <1>1, <1>2 DEF IInv, SchedulerInv, CallersInv
<1> QED
  BY <1>3, <1>4, <1>5 DEF IInv

\* Registering an item leaves one timer for its deadline.
LEMMA RegisterFits ==
  ASSUME IInv, NEW p \in Procs, NEW item \in Items, batch[p] = {},
         armed' = [armed EXCEPT ![p] = Register(p, item)],
         UNCHANGED <<now, batch>>
  PROVE  TimersFit /\ \A q \in Procs : \A t \in armed'[q] :
           t \in armed[q] \/ (q = p /\ t.item = item)
<1> DEFINE timer == [item |-> item, next |-> item.due]
<1>1. /\ armed \in [Procs -> SUBSET Timers] /\ batch \in [Procs -> SUBSET Timers]
      /\ SchedulerInv
  BY DEF IInv, Typed
<1>2. timer \in Timers /\ timer.item = item /\ timer.item.due <= timer.next
  <2>1. item.due \in Times /\ item.due \in Nat
    BY NumbersTyped DEF Items
  <2> QED
    BY <2>1 DEF Timers
<1> HIDE DEF timer
<1>3. \/ Register(p, item) = armed[p]
      \/ Register(p, item) = (armed[p] \ TimerOf(p, item.id)) \cup {timer}
  BY DEF Register, timer
<1>4. \A q \in Procs : armed'[q] = IF q = p THEN Register(p, item) ELSE armed[q]
  BY <1>1
<1>5. Register(p, item) \subseteq Timers
  BY <1>1, <1>2, <1>3
<1>6. armed' \in [Procs -> SUBSET Timers]
  BY <1>1, <1>5
<1>7. \A t \in Register(p, item) : t.item.due <= t.next
  BY <1>1, <1>2, <1>3 DEF SchedulerInv
<1>8. \A t, u \in Register(p, item) : t.item.id = u.item.id => t = u
  BY <1>1, <1>2, <1>3 DEF SchedulerInv, TimerOf
<1>9. \A q \in Procs : /\ batch'[q] \subseteq armed'[q]
                       /\ \A t \in batch'[q] : t.next <= now'
  BY <1>1, <1>4 DEF SchedulerInv
<1>10. TimersFit
  BY <1>1, <1>4, <1>6, <1>7, <1>8, <1>9 DEF SchedulerInv, TimersFit
<1> QED
  BY <1>2, <1>3, <1>4, <1>10

\* The scheduler answers a command.
LEMMA ReceiveStep ==
  ASSUME IInv, NEW p \in Procs, Receive(p)
  PROVE  IInv'
<1> DEFINE command == Head(commands[p])
           item == command.item
<1>1. /\ commands[p] \in Seq(CommandType) /\ commands[p] # <<>> /\ batch[p] = {}
      /\ UNCHANGED <<now, row, receipts, writes, up, batch, known, faults>>
      /\ commands' = [commands EXCEPT ![p] = Tail(commands[p])]
      /\ armed' = [armed EXCEPT ![p] = Register(p, item)]
  BY DEF Receive, durable, IInv, Typed
<1>2. /\ command \in CommandType /\ command = commands[p][1]
      /\ 1 \in DOMAIN commands[p]
      /\ Tail(commands[p]) \in Seq(CommandType)
      /\ Len(Tail(commands[p])) <= Len(commands[p])
      /\ \A i \in DOMAIN Tail(commands[p]) :
           i + 1 \in DOMAIN commands[p] /\ Tail(commands[p])[i] = commands[p][i + 1]
  <2>1. Len(commands[p]) \in Nat \ {0} /\ DOMAIN commands[p] = 1..Len(commands[p])
    BY <1>1, LenProperties, EmptySeq
  <2>2. /\ command \in CommandType /\ Tail(commands[p]) \in Seq(CommandType)
        /\ Len(Tail(commands[p])) = Len(commands[p]) - 1
        /\ \A i \in 1 .. Len(Tail(commands[p])) :
             Tail(commands[p])[i] = commands[p][i + 1]
    BY <1>1, HeadTailProperties
  <2>3. DOMAIN Tail(commands[p]) = 1 .. Len(Tail(commands[p]))
    BY <2>2, LenProperties
  <2>4. command = commands[p][1]
    BY <1>1
  <2> QED
    BY <2>1, <2>2, <2>3, <2>4
<1>3. item \in Items /\ item \in Heard(p)
  BY <1>2 DEF CommandType, Heard
<1> HIDE DEF item
<1>4. /\ TimersFit
      /\ \A q \in Procs : \A t \in armed'[q] :
           t \in armed[q] \/ (q = p /\ t.item = item)
  BY <1>1, <1>3, RegisterFits
<1>5. commands' \in [Procs -> Seq(CommandType)]
      /\ \A q \in Procs :
           commands'[q] = IF q = p THEN Tail(commands[p]) ELSE commands[q]
  BY <1>1, <1>2 DEF IInv, Typed
<1>6. /\ sweep' \in [Procs -> SweepType]
      /\ \A q \in Procs :
           \/ sweep'[q] = sweep[q]
           \/ /\ sweep'[q].phase \in {"idle", "rearming"}
              /\ sweep'[q].todo \subseteq sweep[q].todo
  <2>1. sweep[p] \in SweepType /\ sweep \in [Procs -> SweepType]
    BY DEF IInv, Typed
  <2>2. \/ sweep' = sweep
        \/ sweep' = [sweep EXCEPT ![p] = [sweep[p] EXCEPT !.phase = "idle"]]
        \/ sweep' = [sweep EXCEPT ![p] =
             [@ EXCEPT !.phase = "rearming", !.todo = sweep[p].todo \ {item}]]
    <3>1. CASE command.from # "sweep"
      BY <3>1 DEF Receive
    <3>2. CASE command.from = "sweep" /\ Conflicts(p, item)
      BY <3>2 DEF Receive, item
    <3>3. CASE command.from = "sweep" /\ ~ Conflicts(p, item)
      BY <3>3 DEF Receive, item
    <3> QED
      BY <3>1, <3>2, <3>3
  <2>3. [sweep[p] EXCEPT !.phase = "idle"] \in SweepType
    BY <2>1 DEF SweepType
  <2>4. [sweep[p] EXCEPT !.phase = "rearming", !.todo = sweep[p].todo \ {item}]
          \in SweepType
    BY <2>1 DEF SweepType
  <2>5. CASE sweep' = sweep
    BY <2>1, <2>5
  <2>6. CASE sweep' = [sweep EXCEPT ![p] = [sweep[p] EXCEPT !.phase = "idle"]]
    BY <2>1, <2>3, <2>6 DEF SweepType
  <2>7. CASE sweep' = [sweep EXCEPT ![p] =
             [@ EXCEPT !.phase = "rearming", !.todo = sweep[p].todo \ {item}]]
    BY <2>1, <2>4, <2>7 DEF SweepType
  <2> QED
    BY <2>2, <2>5, <2>6, <2>7
<1>7. /\ runner' \in [Procs -> RunnerType] /\ lock' \in Procs \cup {NoProc}
      /\ \A q \in Procs : runner'[q] = runner[q] \/ runner'[q] = AtRest
  <2>1. AtRest \in RunnerType
    BY DEF AtRest, RunnerType
  <2>2. runner' = runner \/ runner' = [runner EXCEPT ![p] = AtRest]
    BY DEF Receive
  <2>3. lock' = lock \/ lock' = NoProc
    BY DEF Receive
  <2> QED
    BY <2>1, <2>2, <2>3 DEF IInv, Typed
<1>8. Typed'
  BY <1>1, <1>4, <1>5, <1>6, <1>7 DEF IInv, Typed, TimersFit
<1>9. \A q \in Procs : \A x \in Heard(q)' : x \in Heard(q)
  <2> SUFFICES ASSUME NEW q \in Procs, NEW x \in Heard(q)'
               PROVE  x \in Heard(q)
    OBVIOUS
  <2>1. CASE \E t \in armed'[q] : x = t.item
    BY <1>3, <1>4, <2>1 DEF Heard
  <2>2. CASE x \in sweep'[q].todo
    BY <1>6, <2>2 DEF Heard
  <2>3. CASE \E i \in DOMAIN commands'[q] : x = commands'[q][i].item
    <3>1. PICK i \in DOMAIN commands'[q] : x = commands'[q][i].item
      BY <2>3
    <3>2. \E j \in DOMAIN commands[q] : x = commands[q][j].item
      <4>1. CASE q # p
        BY <1>5, <3>1, <4>1
      <4>2. CASE q = p
        BY <1>2, <1>5, <3>1, <4>2
      <4> QED
        BY <4>1, <4>2
    <3> QED
      BY <3>2 DEF Heard
  <2> QED
    BY <2>1, <2>2, <2>3 DEF Heard
<1>10. RevisionsInv'
  BY <1>1, <1>8, <1>9, RowsRest
<1>11. SchedulerInv'
  <2>1. \A q \in Procs : Len(commands'[q]) <= Buffer
    <3>1. Len(commands[p]) \in Nat /\ Len(Tail(commands[p])) \in Nat
      BY <1>1, <1>2, LenProperties
    <3>2. Buffer \in Nat /\ \A q \in Procs : Len(commands[q]) <= Buffer
      BY NumbersTyped DEF IInv, SchedulerInv
    <3> QED
      BY <1>2, <1>5, <3>1, <3>2
  <2> QED
    BY <1>4, <2>1 DEF SchedulerInv, TimersFit
<1>12. CallersInv'
  BY <1>6, <1>7 DEF IInv, CallersInv, AtRest
<1> QED
  BY <1>8, <1>10, <1>11, <1>12 DEF IInv

-----------------------------------------------------------------------------
(* The callers of a scheduler *)

\* A step of a caller: only its state and the channel change.
LEMMA CallerStep ==
  ASSUME IInv, UNCHANGED <<now, row, receipts, writes, up, armed, batch, known>>,
         lock' \in Procs \cup {NoProc}, faults' \in 0 .. MaxFaults,
         commands' \in [Procs -> Seq(CommandType)],
         sweep' \in [Procs -> SweepType], runner' \in [Procs -> RunnerType],
         \A q \in Procs : Len(commands'[q]) <= Buffer,
         CallersInv',
         \A q \in Procs : \A item \in sweep'[q].todo :
           item \in Heard(q) \/ FollowsIn(row, item),
         \A q \in Procs : \A i \in DOMAIN commands'[q] :
           \/ commands'[q][i].item \in Heard(q)
           \/ FollowsIn(row, commands'[q][i].item)
  PROVE  IInv'
<1>1. Typed'
  BY DEF IInv, Typed
<1>2. \A q \in Procs : \A item \in Heard(q)' :
        item \in Heard(q) \/ FollowsIn(row, item)
  BY DEF Heard
<1>3. RevisionsInv'
  BY <1>1, <1>2, RowsRest
<1>4. SchedulerInv'
  BY DEF IInv, SchedulerInv
<1> QED
  BY <1>1, <1>3, <1>4 DEF IInv

\* The channel as it is.
LEMMA ChannelRests ==
  ASSUME IInv, commands' = commands
  PROVE  /\ commands' \in [Procs -> Seq(CommandType)]
         /\ \A q \in Procs : Len(commands'[q]) <= Buffer
         /\ \A q \in Procs : \A i \in DOMAIN commands'[q] :
              commands'[q][i].item \in Heard(q)
BY DEF IInv, Typed, SchedulerInv, Heard

\* A command that found room in the channel.
LEMMA SendFits ==
  ASSUME IInv, NEW p \in Procs, NEW from \in {"sweep", "runner"},
         NEW item \in Items, CanSend(p), Send(p, from, item)
  PROVE  /\ commands' \in [Procs -> Seq(CommandType)]
         /\ \A q \in Procs : Len(commands'[q]) <= Buffer
         /\ \A q \in Procs : \A i \in DOMAIN commands'[q] :
              commands'[q][i].item \in Heard(q) \/ commands'[q][i].item = item
<1> DEFINE command == [from |-> from, item |-> item]
<1>1. command \in CommandType /\ command.item = item
  BY DEF CommandType
<1> HIDE DEF command
<1>2. /\ commands \in [Procs -> Seq(CommandType)] /\ commands[p] \in Seq(CommandType)
      /\ Len(commands[p]) \in Nat /\ Len(commands[p]) < Buffer /\ Buffer \in Nat
      /\ commands' = [commands EXCEPT ![p] = Append(commands[p], command)]
  BY LenProperties, NumbersTyped DEF IInv, Typed, CanSend, Send, command
<1>3. /\ Append(commands[p], command) \in Seq(CommandType)
      /\ Len(Append(commands[p], command)) = Len(commands[p]) + 1
      /\ \A i \in 1 .. Len(commands[p]) :
           Append(commands[p], command)[i] = commands[p][i]
      /\ Append(commands[p], command)[Len(commands[p]) + 1] = command
  BY <1>1, <1>2, AppendProperties
<1>4. \A q \in Procs :
        commands'[q] = IF q = p THEN Append(commands[p], command) ELSE commands[q]
  BY <1>2
<1>5. commands' \in [Procs -> Seq(CommandType)]
  BY <1>2, <1>3
<1>6. \A q \in Procs : Len(commands'[q]) <= Buffer
  BY <1>2, <1>3, <1>4 DEF IInv, SchedulerInv
<1>7. \A q \in Procs : \A i \in DOMAIN commands'[q] :
        commands'[q][i].item \in Heard(q) \/ commands'[q][i].item = item
  <2> SUFFICES ASSUME NEW q \in Procs, NEW i \in DOMAIN commands'[q]
               PROVE  commands'[q][i].item \in Heard(q) \/ commands'[q][i].item = item
    OBVIOUS
  <2>1. CASE q # p
    BY <1>4, <2>1 DEF Heard
  <2>2. CASE q = p
    <3>1. DOMAIN commands'[q] = 1 .. (Len(commands[p]) + 1)
          /\ DOMAIN commands[p] = 1 .. Len(commands[p])
      BY <1>2, <1>3, <1>4, <2>2, LenProperties
    <3>2. i \in 1 .. Len(commands[p]) \/ i = Len(commands[p]) + 1
      BY <1>2, <3>1
    <3> QED
      BY <1>1, <1>3, <1>4, <2>2, <3>1, <3>2 DEF Heard
  <2> QED
    BY <2>1, <2>2
<1> QED
  BY <1>5, <1>6, <1>7

LEMMA SweepStep ==
  ASSUME IInv, NEW p \in Procs, Sweep(p)
  PROVE  IInv'
<1> USE DEF durable, scheduler
<1>0. /\ sweep \in [Procs -> SweepType] /\ sweep[p] \in SweepType
      /\ Typed /\ CallersInv
      /\ \A q \in Procs : sweep[q].todo \subseteq Heard(q)
      /\ runner \in [Procs -> RunnerType] /\ lock \in Procs \cup {NoProc}
      /\ faults \in 0 .. MaxFaults
  BY DEF IInv, Typed, Heard
<1>1. CASE SweepList(p)
  <2> DEFINE page == Page(sweep[p].cursor)
             last == IF page = {} THEN 0
                     ELSE CHOOSE d \in page : \A e \in page : e <= d
             todo == {Listed(d) : d \in page}
             complete == Cardinality(page) < PageSize
             next == [sweep[p] EXCEPT !.phase = "rearming", !.todo = todo,
                                      !.complete = complete, !.last = last]
  <2>1. page \subseteq Deadlines
    BY DEF Page, Pending
  <2>2. last \in Deadlines \cup {0}
    <3> HIDE DEF page
    <3> QED
      BY <2>1, LastIsOne
  <2>3. \A item \in todo : item \in Items /\ FollowsIn(row, item)
    BY <1>0, <2>1, ListedFollows
  <2>4. sweep' = [sweep EXCEPT ![p] = next]
    BY <1>1 DEF SweepList
  <2>5. complete \in BOOLEAN
    OBVIOUS
  <2>6. /\ UNCHANGED <<now, row, receipts, writes, lock, up, armed, batch, commands,
                       runner, known, faults>>
    BY <1>1 DEF SweepList
  <2> HIDE DEF last, todo, complete
  <2>7. next \in SweepType /\ next.phase = "rearming" /\ next.todo = todo
    BY <1>0, <2>2, <2>3, <2>5 DEF SweepType
  <2> HIDE DEF next
  <2>8. /\ sweep' \in [Procs -> SweepType]
        /\ \A q \in Procs : sweep'[q] = IF q = p THEN next ELSE sweep[q]
    BY <1>0, <2>4, <2>7
  <2>9. CallersInv'
    BY <1>0, <2>6, <2>7, <2>8 DEF CallersInv
  <2>10. \A q \in Procs : \A item \in sweep'[q].todo :
           item \in Heard(q) \/ FollowsIn(row, item)
    BY <1>0, <2>3, <2>7, <2>8
  <2> QED
    BY <1>0, <2>6, <2>8, <2>9, <2>10, CallerStep, ChannelRests
<1>2. CASE SweepSkip(p) \/ SweepReload(p) \/ SweepDone(p)
  <2> DEFINE next == sweep'[p]
  <2>1. /\ next \in SweepType /\ next.todo \subseteq sweep[p].todo
        /\ next.phase \in {"sending", "waiting"} => next.todo # {}
        /\ sweep' \in [Procs -> SweepType]
        /\ \A q \in Procs : q # p => sweep'[q] = sweep[q]
    <3>1. CASE SweepSkip(p)
      <4>1. sweep' = [sweep EXCEPT ![p].todo = sweep[p].todo \ {NextListed(p)}]
            /\ sweep[p].phase = "rearming"
        BY <3>1 DEF SweepSkip
      <4> QED
        BY <1>0, <4>1 DEF SweepType
    <3>2. CASE SweepReload(p)
      BY <1>0, <3>2 DEF SweepReload, SweepType
    <3>3. CASE SweepDone(p)
      <4>1. Recorded(sweep[p]) \in SweepType /\ Recorded(sweep[p]).phase = "idle"
            /\ Recorded(sweep[p]).todo = sweep[p].todo
        BY <1>0 DEF Recorded, SweepType
      <4>2. sweep' = [sweep EXCEPT ![p] = Recorded(sweep[p])]
        BY <3>3 DEF SweepDone
      <4> QED
        BY <1>0, <4>1, <4>2
    <3> QED
      BY <1>2, <3>1, <3>2, <3>3
  <2>2. UNCHANGED <<now, row, receipts, writes, lock, up, armed, batch, commands,
                    runner, known, faults>>
    BY <1>2 DEF SweepSkip, SweepReload, SweepDone
  <2>3. CallersInv'
    BY <1>0, <2>1, <2>2 DEF CallersInv
  <2>4. \A q \in Procs : \A item \in sweep'[q].todo : item \in Heard(q)
    BY <1>0, <2>1
  <2> QED
    BY <1>0, <2>1, <2>2, <2>3, <2>4, CallerStep, ChannelRests
<1>3. CASE SweepSend(p)
  <2>1. sweep[p].todo # {} /\ sweep[p].phase = "sending"
    BY <1>0, <1>3 DEF SweepSend, CallersInv
  <2>2. NextListed(p) \in Items /\ NextListed(p) \in Heard(p)
    BY <1>0, <2>1, NextListedIsListed
  <2>3. /\ UNCHANGED <<now, row, receipts, writes, lock, up, armed, batch,
                       runner, known, faults>>
        /\ CanSend(p) /\ Send(p, "sweep", NextListed(p))
        /\ sweep' = [sweep EXCEPT ![p].phase = "waiting"]
    BY <1>3 DEF SweepSend
  <2>4. /\ sweep' \in [Procs -> SweepType]
        /\ \A q \in Procs : sweep'[q].todo = sweep[q].todo
        /\ \A q \in Procs : q # p => sweep'[q] = sweep[q]
    BY <1>0, <2>3 DEF SweepType
  <2>5. CallersInv'
    BY <1>0, <2>1, <2>3, <2>4 DEF CallersInv
  <2>6. /\ commands' \in [Procs -> Seq(CommandType)]
        /\ \A q \in Procs : Len(commands'[q]) <= Buffer
        /\ \A q \in Procs : \A i \in DOMAIN commands'[q] :
             commands'[q][i].item \in Heard(q) \/ commands'[q][i].item = NextListed(p)
    BY <2>2, <2>3, SendFits
  <2>7. FollowsIn(row, NextListed(p))
    BY <2>2 DEF IInv, RevisionsInv
  <2> QED
    BY <1>0, <2>3, <2>4, <2>5, <2>6, <2>7, CallerStep
<1> QED
  BY <1>1, <1>2, <1>3 DEF Sweep

LEMMA SweepFailsStep ==
  ASSUME IInv, NEW p \in Procs, SweepFails(p)
  PROVE  IInv'
<1> DEFINE waiting == commands[p]
           orphan(c) == IF c.from = "sweep" THEN [c EXCEPT !.from = "nobody"] ELSE c
           left == [i \in DOMAIN waiting |-> orphan(waiting[i])]
<1>1. /\ UNCHANGED <<now, row, receipts, writes, lock, up, armed, batch, runner, known>>
      /\ sweep' = [sweep EXCEPT ![p].phase = "idle"]
      /\ commands' = [commands EXCEPT ![p] = left]
      /\ faults' \in 0 .. MaxFaults
  BY NumbersTyped DEF SweepFails, durable, Fault, IInv, Typed
<1>2. /\ waiting \in Seq(CommandType) /\ Len(waiting) \in Nat
      /\ DOMAIN waiting = 1 .. Len(waiting)
      /\ \A i \in 1 .. Len(waiting) : waiting[i] \in CommandType
  <2>1. waiting \in Seq(CommandType)
    BY DEF IInv, Typed
  <2> HIDE DEF waiting
  <2> QED
    BY <2>1, LenProperties
<1>3. \A c \in CommandType : orphan(c) \in CommandType /\ orphan(c).item = c.item
  BY DEF CommandType
<1>4. /\ left \in Seq(CommandType) /\ Len(left) = Len(waiting)
      /\ DOMAIN left = 1 .. Len(waiting)
      /\ \A i \in 1 .. Len(waiting) : left[i].item = waiting[i].item
  <2> HIDE DEF waiting, orphan
  <2>1. left = [i \in 1 .. Len(waiting) |-> orphan(waiting[i])]
    BY <1>2
  <2>2. \A i \in 1 .. Len(waiting) : orphan(waiting[i]) \in CommandType
    BY <1>2, <1>3
  <2>3. left \in Seq(CommandType)
    BY <1>2, <2>1, <2>2, IsASeq
  <2>4. DOMAIN left = 1 .. Len(waiting)
    BY <2>1
  <2>5. \A i \in 1 .. Len(waiting) : left[i].item = waiting[i].item
    BY <1>2, <1>3, <2>1
  <2> HIDE DEF left
  <2> QED
    BY <1>2, <2>3, <2>4, <2>5, LenProperties
<1> HIDE DEF left
<1>5. /\ commands' \in [Procs -> Seq(CommandType)]
      /\ \A q \in Procs : commands'[q] = IF q = p THEN left ELSE commands[q]
  BY <1>1, <1>4 DEF IInv, Typed
<1>6. \A q \in Procs : Len(commands'[q]) <= Buffer
  BY <1>4, <1>5 DEF IInv, SchedulerInv
<1>7. \A q \in Procs : \A i \in DOMAIN commands'[q] :
        commands'[q][i].item \in Heard(q)
  BY <1>2, <1>4, <1>5 DEF Heard
<1>8. /\ sweep' \in [Procs -> SweepType]
      /\ \A q \in Procs : sweep'[q].todo = sweep[q].todo
      /\ \A q \in Procs : q # p => sweep'[q] = sweep[q]
      /\ sweep'[p].phase = "idle"
  <2>1. sweep \in [Procs -> SweepType]
    BY DEF IInv, Typed
  <2> QED
    BY <1>1, <2>1 DEF SweepType
<1>9. CallersInv'
  BY <1>1, <1>8 DEF IInv, CallersInv
<1>10. \A q \in Procs : \A item \in sweep'[q].todo : item \in Heard(q)
  BY <1>8 DEF Heard
<1>11. lock' \in Procs \cup {NoProc} /\ runner' \in [Procs -> RunnerType]
  BY <1>1 DEF IInv, Typed
<1> QED
  BY <1>1, <1>5, <1>6, <1>7, <1>8, <1>9, <1>10, <1>11, CallerStep

LEMMA RunnerStep ==
  ASSUME IInv, NEW p \in Procs,
         RunnerSend(p) \/ \E d \in Deadlines : RunnerLock(p, d)
  PROVE  IInv'
<1> USE DEF durable, scheduler
<1>0. /\ Typed /\ CallersInv /\ runner \in [Procs -> RunnerType]
      /\ sweep \in [Procs -> SweepType] /\ lock \in Procs \cup {NoProc}
      /\ faults \in 0 .. MaxFaults
      /\ \A q \in Procs : sweep[q].todo \subseteq Heard(q)
  BY DEF IInv, Typed, Heard
<1>1. ASSUME NEW d \in Deadlines, RunnerLock(p, d)
      PROVE  IInv'
  <2>1. /\ UNCHANGED <<now, row, receipts, writes, up, armed, batch, commands, sweep,
                       known, faults>>
        /\ lock' = p
        /\ runner' = [runner EXCEPT ![p] = [phase |-> "sending", id |-> d]]
    BY <1>1 DEF RunnerLock
  <2>2. runner' \in [Procs -> RunnerType]
    BY <1>0, <2>1 DEF RunnerType
  <2>3. CallersInv'
    BY <1>0, <2>1 DEF CallersInv
  <2> QED
    BY <1>0, <2>1, <2>2, <2>3, CallerStep, ChannelRests
<1>2. CASE RunnerSend(p)
  <2>1. runner[p].id \in Deadlines /\ runner[p].phase = "sending"
    BY <1>0, <1>2 DEF RunnerSend, CallersInv
  <2>2. Listed(runner[p].id) \in Items /\ FollowsIn(row, Listed(runner[p].id))
    BY <1>0, <2>1, ListedFollows
  <2>3. /\ UNCHANGED <<now, row, receipts, writes, lock, up, armed, batch, sweep,
                       known, faults>>
        /\ CanSend(p) /\ Send(p, "runner", Listed(runner[p].id))
        /\ runner' = [runner EXCEPT ![p].phase = "waiting"]
    BY <1>2 DEF RunnerSend
  <2>4. /\ runner' \in [Procs -> RunnerType]
        /\ \A q \in Procs : runner'[q].id = runner[q].id
        /\ \A q \in Procs : q # p => runner'[q] = runner[q]
    BY <1>0, <2>3 DEF RunnerType
  <2>5. CallersInv'
    BY <1>0, <2>1, <2>3, <2>4 DEF CallersInv
  <2>6. /\ commands' \in [Procs -> Seq(CommandType)]
        /\ \A q \in Procs : Len(commands'[q]) <= Buffer
        /\ \A q \in Procs : \A i \in DOMAIN commands'[q] :
             \/ commands'[q][i].item \in Heard(q)
             \/ commands'[q][i].item = Listed(runner[p].id)
    BY <2>2, <2>3, SendFits
  <2> QED
    BY <1>0, <2>2, <2>3, <2>4, <2>5, <2>6, CallerStep
<1> QED
  BY <1>1, <1>2

-----------------------------------------------------------------------------
(* Processes and the clock *)

LEMMA IdleTyped ==
  /\ Idle \in SweepType /\ Idle.phase = "idle" /\ Idle.todo = {}
  /\ AtRest \in RunnerType /\ AtRest.phase = "idle"
BY DEF Idle, AtRest, SweepType, RunnerType

LEMMA CrashStep ==
  ASSUME IInv, NEW p \in Procs, Crash(p)
  PROVE  IInv'
<1>1. /\ UNCHANGED <<now, row, receipts, writes, known>>
      /\ up' = [up EXCEPT ![p] = FALSE]
      /\ armed' = [armed EXCEPT ![p] = {}]
      /\ batch' = [batch EXCEPT ![p] = {}]
      /\ commands' = [commands EXCEPT ![p] = <<>>]
      /\ sweep' = [sweep EXCEPT ![p] = Idle]
      /\ runner' = [runner EXCEPT ![p] = AtRest]
      /\ faults' \in 0 .. MaxFaults
      /\ lock' \in Procs \cup {NoProc}
  BY NumbersTyped DEF Crash, durable, Fault, IInv, Typed
<1>2. <<>> \in Seq(CommandType) /\ Len(<<>>) = 0 /\ DOMAIN <<>> = {}
  BY EmptySeq
<1>3. Typed'
  BY <1>1, <1>2, IdleTyped DEF IInv, Typed
<1>4. \A q \in Procs :
        /\ armed'[q] = IF q = p THEN {} ELSE armed[q]
        /\ batch'[q] = IF q = p THEN {} ELSE batch[q]
        /\ commands'[q] = IF q = p THEN <<>> ELSE commands[q]
        /\ sweep'[q] = IF q = p THEN Idle ELSE sweep[q]
        /\ runner'[q] = IF q = p THEN AtRest ELSE runner[q]
  BY <1>1 DEF IInv, Typed
<1>5. \A q \in Procs : \A item \in Heard(q)' : item \in Heard(q)
  BY <1>2, <1>4, IdleTyped DEF Heard
<1>6. RevisionsInv'
  BY <1>1, <1>3, <1>5, RowsRest
<1>7. SchedulerInv'
  BY <1>1, <1>2, <1>4, NumbersTyped DEF IInv, SchedulerInv
<1>8. CallersInv'
  BY <1>4, IdleTyped DEF IInv, CallersInv
<1> QED
  BY <1>3, <1>6, <1>7, <1>8 DEF IInv

LEMMA RestartStep ==
  ASSUME IInv, NEW p \in Procs, Restart(p)
  PROVE  IInv'
<1>1. /\ UNCHANGED <<now, row, receipts, writes, lock, armed, batch, commands, sweep,
                     runner, faults>>
      /\ up' = [up EXCEPT ![p] = TRUE]
      /\ known' = [known EXCEPT ![p] = PendingRevisions]
  BY DEF Restart, durable, scheduler
<1>2. /\ PendingRevisions \in [Deadlines -> Nat]
      /\ \A d \in Deadlines : PendingRevisions[d] <= row[d].rev
  BY DEF PendingRevisions, IInv, Typed, RowType
<1>3. Typed'
  BY <1>1, <1>2 DEF IInv, Typed
<1>4. \A q \in Procs : Heard(q)' = Heard(q)
  BY <1>1 DEF Heard
<1>5. \A q \in Procs, d \in Deadlines :
        known'[q][d] = known[q][d] \/ known'[q][d] <= row[d].rev
  BY <1>1, <1>2 DEF IInv, Typed
<1>6. RevisionsInv'
  BY <1>1, <1>3, <1>4, <1>5, RowsRest
<1>7. SchedulerInv' /\ CallersInv'
  BY <1>1 DEF IInv, SchedulerInv, CallersInv
<1> QED
  BY <1>3, <1>6, <1>7 DEF IInv

LEMMA TickStep ==
  ASSUME IInv, Tick
  PROVE  IInv'
<1>1. /\ UNCHANGED <<row, receipts, writes, lock, up, armed, batch, commands, sweep,
                     runner, known, faults>>
      /\ now' \in 0 .. MaxTime /\ now <= now' /\ now \in Nat /\ now' \in Nat
  <2>1. now \in 0 .. MaxTime
    BY DEF IInv, Typed
  <2> QED
    BY <2>1, NumbersTyped DEF Tick, durable, scheduler
<1>2. Typed'
  BY <1>1 DEF IInv, Typed
<1>3. RevisionsInv'
  BY <1>1 DEF IInv, RevisionsInv, Heard
<1>4. SchedulerInv'
  <2>0. \A q \in Procs : batch[q] \subseteq Timers
    BY DEF IInv, Typed
  <2>1. \A q \in Procs : \A t \in batch[q] : t.next \in Nat
    BY <2>0, NumbersTyped DEF Timers
  <2>2. \A q \in Procs : \A t \in batch[q] : t.next <= now'
    BY <1>1, <2>1 DEF IInv, SchedulerInv
  <2> QED
    BY <1>1, <2>2 DEF IInv, SchedulerInv
<1>5. CallersInv'
  BY <1>1 DEF IInv, CallersInv
<1> QED
  BY <1>2, <1>3, <1>4, <1>5 DEF IInv

-----------------------------------------------------------------------------
(* The invariant *)

LEMMA InitHolds == Init => IInv
<1> SUFFICES ASSUME Init PROVE IInv
  OBVIOUS
<1>1. <<>> \in Seq(CommandType) /\ Len(<<>>) = 0 /\ DOMAIN <<>> = {}
  BY EmptySeq
<1>2. Typed
  BY <1>1, IdleTyped, NumbersTyped DEF Init, Typed, RowType
<1>3. \A p \in Procs : Heard(p) = {}
  BY <1>1, IdleTyped DEF Init, Heard
<1>4. RevisionsInv
  BY <1>3 DEF Init, RevisionsInv
<1>5. SchedulerInv /\ CallersInv
  BY <1>1, IdleTyped, NumbersTyped DEF Init, SchedulerInv, CallersInv
<1> QED
  BY <1>2, <1>4, <1>5 DEF IInv

LEMMA StepHolds == IInv /\ [Next]_vars => IInv'
<1> SUFFICES ASSUME IInv, [Next]_vars PROVE IInv'
  OBVIOUS
<1>1. CASE UNCHANGED vars
  <2>1. UNCHANGED <<now, row, receipts, writes, lock, up, armed, batch, commands,
                    sweep, runner, known, faults>>
    BY <1>1 DEF vars, durable, scheduler
  <2>2. Typed'
    BY <2>1 DEF IInv, Typed
  <2>3. \A p \in Procs : Heard(p)' = Heard(p)
    BY <2>1 DEF Heard
  <2>4. RevisionsInv'
    BY <2>1, <2>2, <2>3, RowsRest
  <2>5. SchedulerInv' /\ CallersInv'
    BY <2>1 DEF IInv, SchedulerInv, CallersInv
  <2> QED
    BY <2>2, <2>4, <2>5 DEF IInv
<1>2. CASE Next
  BY <1>2, TickStep, CommandStep, ReceiveStep, FireStep, HandleStep, SweepStep,
     SweepFailsStep, RunnerStep, CrashStep, RestartStep
  DEF Next
<1> QED
  BY <1>1, <1>2

\* The invariant holds at the start and is kept by every step.
THEOREM DeadlinesInvariant == Spec => []IInv
BY InitHolds, StepHolds, PTL DEF Spec

-----------------------------------------------------------------------------
(* What follows *)

\* Every variable keeps its type; a channel never holds more than its capacity
\* and a scheduler has one timer for a deadline.
THEOREM DeadlinesTyped == Spec => []TypeOK
<1>1. IInv => TypeOK
  <2> SUFFICES ASSUME IInv PROVE TypeOK
    OBVIOUS
  <2>1. ASSUME NEW p \in Procs, NEW d \in Deadlines
        PROVE  Cardinality(TimerOf(p, d)) <= 1
    <3>1. CASE TimerOf(p, d) = {}
      BY <3>1, FS_EmptySet
    <3>2. CASE TimerOf(p, d) # {}
      <4>1. PICK t \in TimerOf(p, d) : TRUE
        BY <3>2
      <4>2. TimerOf(p, d) = {t}
        BY <4>1 DEF TimerOf, IInv, SchedulerInv
      <4>3. Cardinality({t}) = 1
        BY FS_Singleton
      <4> QED
        BY <4>2, <4>3
    <3> QED
      BY <3>1, <3>2
  <2>2. ASSUME NEW p \in Procs, NEW i \in DOMAIN commands[p]
        PROVE  commands[p][i] \in CommandType
    <3>1. commands[p] \in Seq(CommandType)
      BY DEF IInv, Typed
    <3> QED
      BY <2>2, <3>1, LenProperties
  <2>3. ASSUME NEW p \in Procs
        PROVE  /\ armed[p] \subseteq Timers /\ batch[p] \subseteq armed[p]
               /\ Len(commands[p]) <= Buffer
               /\ sweep[p] \in SweepType /\ runner[p] \in RunnerType
    BY DEF IInv, Typed, SchedulerInv
  <2> QED
    BY <2>1, <2>2, <2>3
    DEF TypeOK, IInv, Typed, CommandType, SweepType, RunnerType, RowType
<1> QED
  BY <1>1, DeadlinesInvariant, PTL

\* A timer of the revision a pending row has now carries the due time of the
\* row, so registerDeadline never sees two due times of one revision.
THEOREM TimersFollowTheirRows == Spec => []TimersFollowRows
<1>1. IInv => TimersFollowRows
  <2> SUFFICES ASSUME IInv, NEW p \in Procs, NEW t \in armed[p]
               PROVE  /\ t.item.rev <= row[t.item.id].rev
                      /\ t.item.id \in Pending /\ t.item.rev = row[t.item.id].rev
                           => t.item.due = row[t.item.id].due /\ t.item.due <= t.next
    BY DEF TimersFollowRows
  <2>1. FollowsIn(row, t.item)
    BY DEF IInv, RevisionsInv, Heard
  <2>2. t.item.due <= t.next
    BY DEF IInv, SchedulerInv
  <2> QED
    BY <2>1, <2>2 DEF FollowsIn, Pending
<1> QED
  BY <1>1, DeadlinesInvariant, PTL

\* A timeout is settled only at or after the due time that its row has at that
\* moment (handleDue, loadTerminalSnapshot).
THEOREM NoTimeoutIsEarly == Spec => TimedOutWhenDue
<1> DEFINE Timely ==
      \A d \in Deadlines :
        (\E receipt \in receipts' \ receipts : receipt[1] = d)
          => d \in Pending /\ row[d].due <= now
<1>1. IInv /\ [Next]_vars => [Timely]_vars
  <2> SUFFICES ASSUME IInv, Next PROVE Timely
    OBVIOUS
  <2>1. ASSUME receipts' = receipts PROVE Timely
    BY <2>1
  <2>2. ASSUME NEW p \in Procs, CanSettle(p), Settle(NextDue(p).item)
        PROVE  Timely
    <3>1. receipts' = receipts \cup {<<NextDue(p).item.id, NextDue(p).item.rev>>}
      BY <2>2 DEF Settle, Receipt
    <3>2. /\ NextDue(p).item.id \in Pending /\ NextDue(p).item.due <= now
          /\ row[NextDue(p).item.id].due = NextDue(p).item.due
      BY <2>2 DEF CanSettle, LoadMatches
    <3> QED
      BY <3>1, <3>2
  <2>3. ASSUME NEW p \in Procs, HandleDeadline(p) \/ HandleUnanswered(p)
        PROVE  Timely
    BY <2>2, <2>3 DEF HandleDeadline, HandleUnanswered
  <2>4. CASE receipts' = receipts
    BY <2>1, <2>4
  <2>5. \/ receipts' = receipts
        \/ \E p \in Procs : HandleDeadline(p) \/ HandleUnanswered(p)
    <3> HIDE DEF Timely
    <3> USE DEF durable
    <3>1. ASSUME NEW p \in Procs, Sweep(p) \/ SweepFails(p) \/ RunnerSend(p)
                   \/ \E d \in Deadlines : RunnerLock(p, d)
          PROVE  receipts' = receipts
      BY <3>1 DEF Sweep, SweepList, SweepSkip, SweepReload, SweepSend, SweepDone,
         SweepFails, RunnerSend, RunnerLock
    <3>2. ASSUME NEW p \in Procs, Receive(p) \/ Fire(p) \/ HandleKnown(p)
                   \/ HandleStale(p) \/ HandleFails(p) \/ Crash(p) \/ Restart(p)
          PROVE  receipts' = receipts
      BY <3>2 DEF Receive, Fire, HandleKnown, HandleStale, HandleFails, Crash, Restart
    <3>3. ASSUME NEW d \in Deadlines,
                 Start(d) \/ Suspend(d) \/ Resume(d) \/ Ready(d) \/ Finish(d)
          PROVE  receipts' = receipts
      BY <3>3 DEF Start, Suspend, Resume, Ready, Finish, Write
    <3>4. Tick => receipts' = receipts
      BY DEF Tick
    <3> QED
      BY <3>1, <3>2, <3>3, <3>4 DEF Next, Handle
  <2> QED
    BY <2>3, <2>4, <2>5
<1> QED
  BY <1>1, DeadlinesInvariant, PTL DEF Spec, TimedOutWhenDue

-----------------------------------------------------------------------------
(* What a sweep has covered *)

\* A row that is as it was when the process started.
Standing(p, d) == d \in Pending /\ row[d].rev = known[p][d]

Armed(p, d) == \E t \in armed[p] : t.item = Listed(d)

\* The sweeps that ended have passed the row, or the current one is about it.
Passed(s, d) == s.initial \/ d <= s.cursor
OnPage(s, d) == s.phase # "idle" /\ (s.complete \/ d <= s.last)

\* A standing row that was passed is armed; one of the current page is armed or
\* still to be armed.
CoverInv ==
  \A p \in Procs, d \in Deadlines : Standing(p, d) =>
    /\ Passed(sweep[p], d) => Armed(p, d)
    /\ OnPage(sweep[p], d) => Armed(p, d) \/ Listed(d) \in sweep[p].todo

Unstarted(s) == s.phase = "idle" /\ s.cursor = 0 /\ ~ s.initial

\* A process that is down has swept nothing, and a sweep that was answered had
\* asked: at most one command of the channel is of a sweep, which waits for it.
SweepsInv ==
  \A p \in Procs :
    /\ ~ up[p] => Unstarted(sweep[p])
    /\ \A i \in DOMAIN commands[p] : commands[p][i].from = "sweep" =>
         /\ sweep[p].phase = "waiting"
         /\ \A j \in DOMAIN commands[p] : commands[p][j].from = "sweep" => j = i

\* A page holds every pending row behind its cursor up to its last one, and one
\* that is not full all of them.
LEMMA PageCovers ==
  ASSUME Typed, NEW after \in Nat, NEW d \in Pending, after < d,
         \/ Cardinality(Page(after)) < PageSize
         \/ \E e \in Page(after) : d <= e
  PROVE  d \in Page(after)
<1> DEFINE Upto(e) == {x \in Pending : after < x /\ x <= e}
<1>1. Pending \subseteq Nat /\ IsFiniteSet(Pending) /\ PageSize \in Nat
  <2>1. Pending \subseteq Deadlines
    BY DEF Pending
  <2> QED
    BY <2>1, NumbersTyped, FS_Subset
<1>2. \A e \in Pending : e \in Page(after) <=> after < e /\ Cardinality(Upto(e)) <= PageSize
  BY DEF Page
<1>3. Page(after) \subseteq Pending /\ IsFiniteSet(Page(after))
      /\ Cardinality(Page(after)) \in Nat
  <2>1. Page(after) \subseteq Pending
    BY DEF Page
  <2> HIDE DEF Pending
  <2> QED
    BY <1>1, <2>1, FS_Subset, FS_CardinalityType
<1> HIDE DEF Pending, Page
<1>4. CASE \E e \in Page(after) : d <= e
  <2>1. PICK e \in Page(after) : d <= e
    BY <1>4
  <2>2. e \in Pending /\ Cardinality(Upto(e)) <= PageSize
    BY <1>2, <1>3
  <2>3. Upto(d) \subseteq Upto(e)
    <3>1. d \in Nat /\ e \in Nat
      BY <1>1, <2>2
    <3>2. \A x \in Nat : x <= d => x <= e
      BY <2>1, <3>1
    <3> QED
      BY <1>1, <3>2
  <2>4. IsFiniteSet(Upto(e))
    BY <1>1, FS_Subset
  <2> HIDE DEF Upto
  <2>5. /\ Cardinality(Upto(d)) <= Cardinality(Upto(e))
        /\ Cardinality(Upto(d)) \in Nat /\ Cardinality(Upto(e)) \in Nat
    BY <2>3, <2>4, FS_Subset, FS_CardinalityType
  <2> QED
    BY <1>1, <1>2, <2>2, <2>5
<1>5. CASE Cardinality(Page(after)) < PageSize
  <2> DEFINE Out == {x \in Pending : after < x /\ x \notin Page(after)}
  <2> SUFFICES ASSUME Out # {} PROVE FALSE
    OBVIOUS
  <2>1. PICK m \in Out : \A n \in Out : m <= n
    <3>1. Out \in SUBSET Nat
      BY <1>1
    <3> HIDE DEF Out
    <3> QED
      BY <3>1, MinimumOfNaturals
  <2>2. m \in Pending /\ after < m /\ m \notin Page(after)
    BY <2>1
  <2>3. Upto(m) \subseteq Page(after) \cup {m}
    <3> SUFFICES ASSUME NEW x \in Upto(m), x # m PROVE x \in Page(after)
      OBVIOUS
    <3>1. x \in Pending /\ after < x /\ ~ (m <= x)
      BY <1>1, <2>2
    <3> QED
      BY <2>1, <3>1
  <2>4. Cardinality(Page(after) \cup {m}) = Cardinality(Page(after)) + 1
        /\ IsFiniteSet(Page(after) \cup {m})
    BY <1>3, <2>2, FS_AddElement
  <2> HIDE DEF Upto, Out
  <2>5. Cardinality(Upto(m)) <= Cardinality(Page(after)) + 1
        /\ Cardinality(Upto(m)) \in Nat
    BY <2>3, <2>4, FS_Subset, FS_CardinalityType
  <2>6. Cardinality(Upto(m)) <= PageSize
    BY <1>1, <1>3, <1>5, <2>5
  <2> QED
    BY <1>2, <2>2, <2>6
<1> QED
  BY <1>4, <1>5

\* A row that stands has not been written since it did.
LEMMA StandingStays ==
  ASSUME IInv, IInv', Advances, known' = known,
         NEW p \in Procs, NEW d \in Deadlines, Standing(p, d)'
  PROVE  Standing(p, d) /\ row'[d] = row[d] /\ Listed(d)' = Listed(d)
<1>1. /\ known[p][d] <= row[d].rev
      /\ known[p][d] \in Nat /\ row[d].rev \in Nat /\ row'[d].rev \in Nat
  BY DEF IInv, Typed, RevisionsInv, RowType
<1>2. row'[d].rev = known[p][d] /\ d \in Pending'
  BY DEF Standing
<1>3. row'[d] = row[d]
  BY <1>1, <1>2 DEF Advances
<1>4. Listed(d)' = Listed(d)
  BY <1>3 DEF Listed
<1> QED
  BY <1>2, <1>3, <1>4 DEF Standing, Pending

\* The cover holds on when the sweeps rest and no standing row loses its timer.
LEMMA CoverRests ==
  ASSUME IInv, IInv', CoverInv, Advances, known' = known, sweep' = sweep,
         \A p \in Procs, d \in Deadlines :
           Standing(p, d) /\ Standing(p, d)' /\ Armed(p, d)
             => \E t \in armed'[p] : t.item = Listed(d)
  PROVE  CoverInv'
<1> SUFFICES ASSUME NEW p \in Procs, NEW d \in Deadlines, Standing(p, d)'
             PROVE  /\ Passed(sweep'[p], d) => Armed(p, d)'
                    /\ OnPage(sweep'[p], d) =>
                         Armed(p, d)' \/ Listed(d)' \in sweep'[p].todo
  BY DEF CoverInv, Passed, OnPage
<1>1. Standing(p, d) /\ Listed(d)' = Listed(d)
  BY StandingStays
<1>2. Armed(p, d) => Armed(p, d)'
  BY <1>1 DEF Armed
<1> QED
  BY <1>1, <1>2 DEF CoverInv

LEMMA SweepsRest ==
  ASSUME SweepsInv, UNCHANGED <<up, commands, sweep>>
  PROVE  SweepsInv'
BY DEF SweepsInv, Unstarted

\* Rows are written: a row that changed no longer stands.
LEMMA CommandCover ==
  ASSUME IInv, IInv', CoverInv, SweepsInv, NEW d \in Deadlines,
         Start(d) \/ Suspend(d) \/ Resume(d) \/ Ready(d) \/ Finish(d)
  PROVE  CoverInv' /\ SweepsInv'
<1>1. PICK state, due : Write(d, state, due)
  BY DEF Start, Suspend, Resume, Ready, Finish
<1>2. /\ row' = [row EXCEPT ![d] = [state |-> state, rev |-> row[d].rev + 1, due |-> due]]
      /\ UNCHANGED <<up, armed, commands, sweep, known>>
  BY <1>1 DEF Write, scheduler
<1>3. Advances
  <2>1. row[d].rev \in Nat
    BY DEF IInv, Typed, RowType
  <2> QED
    BY <1>2, <2>1 DEF Advances, IInv, Typed
<1> QED
  BY <1>2, <1>3, CoverRests, SweepsRest DEF Armed

\* The timer that the handler drops is of a row that was settled or has moved
\* on.
LEMMA HandleCover ==
  ASSUME IInv, IInv', CoverInv, SweepsInv, NEW p \in Procs,
         Handle(p) \/ HandleUnanswered(p) \/ HandleFails(p)
  PROVE  CoverInv' /\ SweepsInv'
<1> DEFINE t == NextDue(p)
<1>1. batch[p] # {} /\ UNCHANGED <<up, commands, sweep, known>>
  BY DEF Handle, HandleKnown, HandleStale, HandleDeadline, HandleUnanswered,
     HandleFails, CanSettle
<1>2. t \in batch[p] /\ t \in armed[p] /\ t.item \in Items
  BY <1>1, NextDueIsDue DEF Timers
<1> HIDE DEF t
<1>3. \/ Handled(p, t) /\ UNCHANGED durable /\ Receipt(t.item) \in receipts
      \/ Handled(p, t) /\ UNCHANGED durable /\ ~ LoadMatches(t.item)
      \/ Handled(p, t) /\ LoadMatches(t.item) /\ Settle(t.item)
      \/ Retried(p, t) /\ LoadMatches(t.item) /\ Settle(t.item)
      \/ Retried(p, t) /\ UNCHANGED durable
  BY DEF Handle, HandleKnown, HandleStale, HandleDeadline, HandleUnanswered,
     HandleFails, CanSettle, t
<1>4. Advances
  <2>1. CASE UNCHANGED durable
    BY <2>1 DEF durable, Advances
  <2>2. CASE LoadMatches(t.item) /\ Settle(t.item)
    BY <1>2, <2>2, SettleFits
  <2> QED
    BY <1>3, <2>1, <2>2
<1>5. ASSUME NEW q \in Procs, NEW d \in Deadlines,
             Standing(q, d), Standing(q, d)', Armed(q, d)
      PROVE  \E u \in armed'[q] : u.item = Listed(d)
  <2>1. PICK v \in armed[q] : v.item = Listed(d)
    BY <1>5 DEF Armed
  <2>2. armed \in [Procs -> SUBSET Timers]
    BY DEF IInv, Typed
  <2>3. CASE v \in armed'[q]
    BY <2>1, <2>3
  <2>4. CASE v \notin armed'[q]
    <3>1. q = p /\ v.item.id = t.item.id
      BY <1>3, <2>2, <2>4 DEF Handled, Retried, TimerOf
    <3>2. v = t
      BY <1>2, <3>1 DEF IInv, SchedulerInv
    <3>3. t.item = Listed(d) /\ t.item.id = d /\ t.item.rev = row[d].rev
          /\ t.item.due = row[d].due
      BY <2>1, <3>2, ListedFollows DEF IInv
    <3>4. Receipt(t.item) \notin receipts
      <4>1. row[d].rev \in Nat
        BY DEF IInv, Typed, RowType
      <4> QED
        BY <3>3, <4>1 DEF IInv, RevisionsInv, Receipt
    <3>5. LoadMatches(t.item)
      BY <1>5, <3>3 DEF LoadMatches, Standing
    <3>6. ~ Settle(t.item)
      <4>1. ASSUME Settle(t.item) PROVE row'[d].state = "settled"
        BY <3>3, <4>1 DEF Settle, IInv, Typed, RowType
      <4>2. row'[d].state = "pending"
        BY <1>5 DEF Standing, Pending
      <4> QED
        BY <4>1, <4>2
    <3>7. Retried(p, t)
      BY <1>3, <3>4, <3>5, <3>6
    <3>8. [t EXCEPT !.next = now + RetryAfter] \in armed'[p]
      BY <2>2, <3>7 DEF Retried
    <3>9. [t EXCEPT !.next = now + RetryAfter].item = t.item
      <4>1. t \in Timers
        BY <1>2, <2>2
      <4> QED
        BY <4>1 DEF Timers
    <3> QED
      BY <3>1, <3>3, <3>8, <3>9
  <2> QED
    BY <2>3, <2>4
<1> QED
  BY <1>1, <1>4, <1>5, CoverRests, SweepsRest

\* The timer of a standing row is not replaced, and the answer to a sweep means
\* that its item is armed.
LEMMA ReceiveCover ==
  ASSUME IInv, IInv', CoverInv, SweepsInv, NEW p \in Procs, Receive(p)
  PROVE  CoverInv' /\ SweepsInv'
<1> DEFINE command == Head(commands[p])
           item == command.item
<1>1. /\ commands[p] \in Seq(CommandType) /\ commands[p] # <<>> /\ up[p]
      /\ UNCHANGED <<row, up, known>>
      /\ commands' = [commands EXCEPT ![p] = Tail(commands[p])]
      /\ armed' = [armed EXCEPT ![p] = Register(p, item)]
  BY DEF Receive, durable, IInv, Typed
<1>2. /\ command = commands[p][1] /\ 1 \in DOMAIN commands[p]
      /\ command \in CommandType
      /\ \A i \in DOMAIN Tail(commands[p]) :
           i # 0 /\ i + 1 \in DOMAIN commands[p] /\ i + 1 # 1
             /\ Tail(commands[p])[i] = commands[p][i + 1]
  <2>1. Len(commands[p]) \in Nat \ {0} /\ DOMAIN commands[p] = 1..Len(commands[p])
    BY <1>1, LenProperties, EmptySeq
  <2>2. /\ command \in CommandType /\ Tail(commands[p]) \in Seq(CommandType)
        /\ Len(Tail(commands[p])) = Len(commands[p]) - 1
        /\ \A i \in 1 .. Len(Tail(commands[p])) :
             Tail(commands[p])[i] = commands[p][i + 1]
    BY <1>1, HeadTailProperties
  <2>3. DOMAIN Tail(commands[p]) = 1 .. Len(Tail(commands[p]))
    BY <2>2, LenProperties
  <2>4. command = commands[p][1]
    BY <1>1
  <2> QED
    BY <2>1, <2>2, <2>3, <2>4
<1>3. item \in Items /\ FollowsIn(row, item)
  BY <1>2 DEF CommandType, IInv, RevisionsInv, Heard
<1>4. /\ armed'[p] = Register(p, item)
      /\ \A q \in Procs \ {p} : armed'[q] = armed[q]
      /\ commands'[p] = Tail(commands[p])
      /\ \A q \in Procs \ {p} : commands'[q] = commands[q] /\ sweep'[q] = sweep[q]
  BY <1>1 DEF Receive, IInv, Typed
<1>5. \/ command.from # "sweep" /\ sweep'[p] = sweep[p]
      \/ /\ command.from = "sweep"
         /\ sweep'[p] = [sweep[p] EXCEPT !.phase = "idle"]
      \/ /\ command.from = "sweep" /\ ~ Conflicts(p, item)
         /\ sweep'[p] = [sweep[p] EXCEPT !.phase = "rearming",
                                         !.todo = sweep[p].todo \ {item}]
  BY DEF Receive, IInv, Typed
<1>6. sweep[p] \in SweepType /\ armed[p] \subseteq Timers
  BY DEF IInv, Typed
<1> HIDE DEF command, item
<1>7. ASSUME NEW d \in Deadlines, Standing(p, d),
             Armed(p, d) \/ (item = Listed(d) /\ ~ Conflicts(p, item))
      PROVE  \E t \in Register(p, item) : t.item = Listed(d)
  <2>1. /\ Listed(d).id = d /\ Listed(d).rev = row[d].rev
        /\ Listed(d).due = row[d].due
        /\ row[d].rev \in Nat /\ item.rev \in Nat
    BY <1>3, ListedFollows DEF IInv, Typed, RowType, Items
  <2>2. CASE Armed(p, d)
    <3>1. PICK v \in armed[p] : v.item = Listed(d)
      BY <2>2 DEF Armed
    <3>2. ASSUME v \in TimerOf(p, item.id), v.item.rev < item.rev PROVE FALSE
      <4>1. item.id = d
        BY <2>1, <3>1, <3>2 DEF TimerOf
      <4>2. item.rev <= row[d].rev
        BY <1>3, <4>1 DEF FollowsIn
      <4> QED
        BY <2>1, <3>1, <3>2, <4>2
    <3> QED
      BY <3>1, <3>2 DEF Register
  <2>3. CASE item = Listed(d) /\ ~ Conflicts(p, item)
    <3>1. CASE \A t \in TimerOf(p, item.id) : t.item.rev < item.rev
      <4>1. [item |-> item, next |-> item.due] \in Register(p, item)
        BY <3>1 DEF Register
      <4>2. [item |-> item, next |-> item.due].item = item
        OBVIOUS
      <4> QED
        BY <2>3, <4>1, <4>2
    <3>2. CASE \E t \in TimerOf(p, item.id) : ~ (t.item.rev < item.rev)
      <4>1. PICK t \in TimerOf(p, item.id) : ~ (t.item.rev < item.rev)
        BY <3>2
      <4>2. t \in armed[p] /\ t.item.id = d /\ t.item.rev \in Nat
        BY <1>6, <2>1, <2>3 DEF TimerOf, Timers, Items
      <4>3. t.item.rev <= row[d].rev
        BY <4>2 DEF IInv, RevisionsInv, Heard, FollowsIn
      <4>4. t.item.rev = item.rev
        BY <2>1, <2>3, <4>1, <4>2, <4>3
      <4>5. t.item = item
        BY <2>3, <4>4 DEF Conflicts
      <4> QED
        BY <2>3, <3>2, <4>2, <4>5 DEF Register
    <3> QED
      BY <3>1, <3>2
  <2> QED
    BY <1>7, <2>2, <2>3
<1>8. Advances
  BY <1>1 DEF Advances
<1>9. CoverInv'
  <2> SUFFICES ASSUME NEW q \in Procs, NEW d \in Deadlines, Standing(q, d)'
               PROVE  /\ Passed(sweep'[q], d) => Armed(q, d)'
                      /\ OnPage(sweep'[q], d) =>
                           Armed(q, d)' \/ Listed(d)' \in sweep'[q].todo
    BY DEF CoverInv, Passed, OnPage
  <2>1. Standing(q, d) /\ Listed(d)' = Listed(d)
    BY <1>1, <1>8, StandingStays
  <2>2. /\ Passed(sweep[q], d) => Armed(q, d)
        /\ OnPage(sweep[q], d) => Armed(q, d) \/ Listed(d) \in sweep[q].todo
    BY <2>1 DEF CoverInv
  <2>3. CASE q # p
    BY <1>4, <2>1, <2>2, <2>3 DEF Armed
  <2>4. CASE q = p
    <3>1. Armed(p, d) \/ (item = Listed(d) /\ ~ Conflicts(p, item)) => Armed(p, d)'
      BY <1>4, <1>7, <2>1, <2>4 DEF Armed
    <3>2. Passed(sweep'[p], d) <=> Passed(sweep[p], d)
      BY <1>5, <1>6 DEF Passed, SweepType
    <3>3. CASE command.from # "sweep" /\ sweep'[p] = sweep[p]
      BY <2>1, <2>2, <2>4, <3>1, <3>3
    <3>4. CASE sweep'[p] = [sweep[p] EXCEPT !.phase = "idle"]
      <4>1. ~ OnPage(sweep'[p], d)
        BY <1>6, <3>4 DEF OnPage, SweepType
      <4> QED
        BY <2>2, <2>4, <3>1, <3>2, <4>1
    <3>5. CASE /\ command.from = "sweep" /\ ~ Conflicts(p, item)
               /\ sweep'[p] = [sweep[p] EXCEPT !.phase = "rearming",
                                               !.todo = sweep[p].todo \ {item}]
      <4>1. sweep[p].phase = "waiting"
        BY <1>2, <3>5 DEF SweepsInv
      <4>2. sweep'[p].todo = sweep[p].todo \ {item}
            /\ (OnPage(sweep'[p], d) => OnPage(sweep[p], d))
        BY <1>6, <3>5, <4>1 DEF OnPage, SweepType
      <4> QED
        BY <2>1, <2>2, <2>4, <3>1, <3>2, <3>5, <4>2
    <3> QED
      BY <1>5, <3>3, <3>4, <3>5
  <2> QED
    BY <2>3, <2>4
<1>10. SweepsInv'
  <2> SUFFICES ASSUME NEW q \in Procs
               PROVE  /\ ~ up[q] => Unstarted(sweep'[q])
                      /\ \A i \in DOMAIN commands'[q] :
                           commands'[q][i].from = "sweep" =>
                             /\ sweep'[q].phase = "waiting"
                             /\ \A j \in DOMAIN commands'[q] :
                                  commands'[q][j].from = "sweep" => j = i
    BY <1>1 DEF SweepsInv, Unstarted
  <2>1. CASE q # p
    BY <1>4, <2>1 DEF SweepsInv
  <2>2. CASE q = p
    <3>0. commands'[q] = Tail(commands[p]) /\ sweep'[q] = sweep'[p] /\ up[q]
      BY <1>1, <1>4, <2>2
    <3>1. CASE command.from # "sweep"
      <4>1. sweep'[p] = sweep[p]
        BY <1>5, <3>1
      <4>2. ASSUME NEW i \in DOMAIN Tail(commands[p]),
                   Tail(commands[p])[i].from = "sweep"
            PROVE  /\ sweep[p].phase = "waiting"
                   /\ \A j \in DOMAIN Tail(commands[p]) :
                        Tail(commands[p])[j].from = "sweep" => j = i
        <5>1. i + 1 \in DOMAIN commands[p] /\ commands[p][i + 1].from = "sweep"
          BY <1>2, <4>2
        <5>2. DOMAIN Tail(commands[p]) \subseteq Nat
          <6>1. Tail(commands[p]) \in Seq(CommandType)
            BY <1>1, HeadTailProperties
          <6> QED
            BY <6>1, LenProperties
        <5>3. \A j \in DOMAIN Tail(commands[p]) :
                Tail(commands[p])[j].from = "sweep" => j + 1 = i + 1
          BY <1>2, <5>1 DEF SweepsInv
        <5> QED
          BY <5>1, <5>2, <5>3 DEF SweepsInv
      <4> QED
        BY <3>0, <4>1, <4>2
    <3>2. CASE command.from = "sweep"
      <4>1. \A i \in DOMAIN Tail(commands[p]) : Tail(commands[p])[i].from # "sweep"
        BY <1>2, <3>2 DEF SweepsInv
      <4> QED
        BY <3>0, <4>1
    <3> QED
      BY <3>1, <3>2
  <2> QED
    BY <2>1, <2>2
<1> QED
  BY <1>9, <1>10

\* A sweep of p changes nothing that the other processes cover.
LEMMA OneSweepCover ==
  ASSUME IInv, IInv', CoverInv, UNCHANGED <<row, armed, known>>, NEW p \in Procs,
         \A q \in Procs \ {p} : sweep'[q] = sweep[q],
         \A d \in Deadlines : Standing(p, d) =>
           /\ Passed(sweep'[p], d) => Armed(p, d)
           /\ OnPage(sweep'[p], d) => Armed(p, d) \/ Listed(d) \in sweep'[p].todo
  PROVE  CoverInv'
<1>1. \A q \in Procs, d \in Deadlines :
        /\ Standing(q, d)' <=> Standing(q, d)
        /\ Armed(q, d)' <=> Armed(q, d)
        /\ Listed(d)' = Listed(d)
  BY DEF Standing, Armed, Listed, Pending
<1> QED
  BY <1>1 DEF CoverInv, Passed, OnPage

\* A sweep covers page after page, each from the cursor that the last one left.
LEMMA SweepCover ==
  ASSUME IInv, IInv', CoverInv, SweepsInv, NEW p \in Procs, Sweep(p)
  PROVE  CoverInv' /\ SweepsInv'
<1> USE DEF durable, scheduler
<1>0. /\ sweep \in [Procs -> SweepType] /\ sweep[p] \in SweepType /\ Typed
      /\ UNCHANGED <<row, armed, known, up>>
  BY DEF IInv, Typed, Sweep, SweepList, SweepSkip, SweepReload, SweepSend, SweepDone
<1>1. CASE SweepList(p)
  <2> DEFINE page == Page(sweep[p].cursor)
             last == IF page = {} THEN 0
                     ELSE CHOOSE d \in page : \A e \in page : e <= d
             todo == {Listed(d) : d \in page}
             complete == Cardinality(page) < PageSize
             next == [sweep[p] EXCEPT !.phase = "rearming", !.todo = todo,
                                      !.complete = complete, !.last = last]
  <2>1. /\ sweep' = [sweep EXCEPT ![p] = next] /\ commands' = commands
        /\ sweep[p].phase = "idle" /\ up[p]
    BY <1>1 DEF SweepList
  <2>2. page \subseteq Deadlines
    BY DEF Page, Pending
  <2>3. page # {} => last \in page
    <3> HIDE DEF page
    <3> QED
      BY <2>2, LastIsOne
  <2>4. ASSUME NEW d \in Pending, sweep[p].cursor < d, complete \/ d <= last
        PROVE  d \in page
    <3>1. sweep[p].cursor \in Nat
      BY <1>0, NumbersTyped DEF SweepType
    <3>2. d \in Nat /\ d # 0
      BY NumbersTyped DEF Pending
    <3>3. complete \/ \E e \in page : d <= e
      <4>1. CASE complete
        BY <4>1
      <4>2. CASE d <= last
        <5>1. page # {}
          BY <3>2, <4>2
        <5> HIDE DEF last, page
        <5> QED
          BY <2>3, <4>2, <5>1
      <4> QED
        BY <2>4, <4>1, <4>2
    <3> HIDE DEF last
    <3> QED
      BY <1>0, <2>4, <3>1, <3>3, PageCovers
  <2> HIDE DEF last, page
  <2>5. /\ sweep'[p] = next /\ next.cursor = sweep[p].cursor
        /\ (next.initial <=> sweep[p].initial) /\ next.todo = todo
        /\ (next.complete <=> complete) /\ next.last = last
        /\ \A q \in Procs \ {p} : sweep'[q] = sweep[q]
    BY <1>0, <2>1 DEF SweepType
  <2> HIDE DEF next
  <2>6. ASSUME NEW d \in Deadlines, Standing(p, d)
        PROVE  /\ Passed(sweep'[p], d) => Armed(p, d)
               /\ OnPage(sweep'[p], d) => Armed(p, d) \/ Listed(d) \in sweep'[p].todo
    <3>1. Passed(sweep'[p], d) <=> Passed(sweep[p], d)
      BY <2>5 DEF Passed
    <3>2. Passed(sweep[p], d) => Armed(p, d)
      BY <2>6 DEF CoverInv
    <3>3. CASE d <= sweep[p].cursor
      BY <3>1, <3>2, <3>3 DEF Passed
    <3>4. CASE ~ (d <= sweep[p].cursor)
      <4>1. sweep[p].cursor < d
        <5>1. sweep[p].cursor \in Nat /\ d \in Nat
          BY <1>0, NumbersTyped DEF SweepType
        <5> QED
          BY <3>4, <5>1
      <4>2. OnPage(sweep'[p], d) => d \in page
        BY <2>4, <2>5, <2>6, <4>1 DEF OnPage, Standing
      <4> QED
        BY <2>5, <3>1, <3>2, <4>2
    <3> QED
      BY <3>3, <3>4
  <2>7. CoverInv'
    BY <1>0, <2>5, <2>6, OneSweepCover
  <2>8. SweepsInv'
    <3>1. \A i \in DOMAIN commands[p] : commands[p][i].from # "sweep"
      BY <2>1 DEF SweepsInv
    <3> QED
      BY <1>0, <2>1, <2>5, <3>1 DEF SweepsInv, Unstarted
  <2> QED
    BY <2>7, <2>8
<1>2. CASE SweepSkip(p) \/ SweepReload(p)
  <2>1. /\ sweep[p].phase = "rearming" /\ commands' = commands
        /\ \A q \in Procs \ {p} : sweep'[q] = sweep[q]
        /\ sweep'[p].cursor = sweep[p].cursor
        /\ (sweep'[p].initial <=> sweep[p].initial)
        /\ sweep'[p].last = sweep[p].last
        /\ (sweep'[p].complete <=> sweep[p].complete)
        /\ sweep'[p].todo = sweep[p].todo
             \/ (sweep'[p].todo = sweep[p].todo \ {NextListed(p)}
                   /\ ~ Current(NextListed(p)))
    <3>1. CASE SweepSkip(p)
      <4>1. sweep' = [sweep EXCEPT ![p].todo = sweep[p].todo \ {NextListed(p)}]
        BY <3>1 DEF SweepSkip
      <4> QED
        BY <1>0, <3>1, <4>1 DEF SweepSkip, SweepType
    <3>2. CASE SweepReload(p)
      BY <1>0, <3>2 DEF SweepReload, SweepType
    <3> QED
      BY <1>2, <3>1, <3>2
  <2>2. ASSUME NEW d \in Deadlines, Standing(p, d)
        PROVE  /\ Passed(sweep'[p], d) => Armed(p, d)
               /\ OnPage(sweep'[p], d) => Armed(p, d) \/ Listed(d) \in sweep'[p].todo
    <3>1. /\ Passed(sweep'[p], d) <=> Passed(sweep[p], d)
          /\ OnPage(sweep'[p], d) => OnPage(sweep[p], d)
      BY <2>1 DEF Passed, OnPage
    <3>2. /\ Passed(sweep[p], d) => Armed(p, d)
          /\ OnPage(sweep[p], d) => Armed(p, d) \/ Listed(d) \in sweep[p].todo
      BY <2>2 DEF CoverInv
    <3>3. Current(Listed(d))
      BY <1>0, <2>2, ListedFollows DEF Standing, Current
    <3> QED
      BY <2>1, <3>1, <3>2, <3>3
  <2>3. CoverInv'
    BY <1>0, <2>1, <2>2, OneSweepCover
  <2>4. SweepsInv'
    <3>1. /\ \A i \in DOMAIN commands[p] : commands[p][i].from # "sweep"
          /\ up[p]
      BY <2>1 DEF SweepsInv, Unstarted
    <3> QED
      BY <1>0, <2>1, <3>1 DEF SweepsInv, Unstarted
  <2> QED
    BY <2>3, <2>4
<1>3. CASE SweepSend(p)
  <2>1. /\ sweep[p].phase = "sending" /\ Send(p, "sweep", NextListed(p))
        /\ sweep' = [sweep EXCEPT ![p].phase = "waiting"]
    BY <1>3 DEF SweepSend
  <2>2. /\ \A q \in Procs \ {p} : sweep'[q] = sweep[q]
        /\ sweep'[p].phase = "waiting"
        /\ sweep'[p].cursor = sweep[p].cursor
        /\ (sweep'[p].initial <=> sweep[p].initial)
        /\ sweep'[p].last = sweep[p].last
        /\ (sweep'[p].complete <=> sweep[p].complete)
        /\ sweep'[p].todo = sweep[p].todo
    BY <1>0, <2>1 DEF SweepType
  <2>3. ASSUME NEW d \in Deadlines, Standing(p, d)
        PROVE  /\ Passed(sweep'[p], d) => Armed(p, d)
               /\ OnPage(sweep'[p], d) => Armed(p, d) \/ Listed(d) \in sweep'[p].todo
    <3>1. /\ Passed(sweep'[p], d) <=> Passed(sweep[p], d)
          /\ OnPage(sweep'[p], d) => OnPage(sweep[p], d)
      BY <2>1, <2>2 DEF Passed, OnPage
    <3> QED
      BY <2>2, <2>3, <3>1 DEF CoverInv
  <2>4. CoverInv'
    BY <1>0, <2>2, <2>3, OneSweepCover
  <2>5. SweepsInv'
    <3> DEFINE command == [from |-> "sweep", item |-> NextListed(p)]
    <3>1. /\ commands[p] \in Seq(CommandType) /\ Len(commands[p]) \in Nat
          /\ DOMAIN commands[p] = 1 .. Len(commands[p])
      BY LenProperties DEF IInv, Typed
    <3>2. \A i \in DOMAIN commands[p] : commands[p][i].from # "sweep"
      BY <2>1 DEF SweepsInv
    <3>3. /\ commands'[p] = Append(commands[p], command)
          /\ \A q \in Procs \ {p} : commands'[q] = commands[q]
      BY <2>1 DEF Send, IInv, Typed
    <3>4. /\ DOMAIN commands'[p] = 1 .. (Len(commands[p]) + 1)
          /\ \A i \in 1 .. Len(commands[p]) : commands'[p][i] = commands[p][i]
      BY <3>1, <3>3
    <3>5. \A i \in DOMAIN commands'[p] :
            commands'[p][i].from = "sweep" => i = Len(commands[p]) + 1
      BY <3>1, <3>2, <3>4
    <3>6. up[p]
      BY <2>1 DEF SweepsInv, Unstarted
    <3>7. \A i, j \in DOMAIN commands'[p] :
            commands'[p][i].from = "sweep" /\ commands'[p][j].from = "sweep" => j = i
      BY <3>5
    <3>8. up'[p]
      BY <1>0, <3>6
    <3> HIDE DEF command
    <3>9. ASSUME NEW q \in Procs, q # p
          PROVE  /\ ~ up'[q] => Unstarted(sweep'[q])
                 /\ \A i \in DOMAIN commands'[q] : commands'[q][i].from = "sweep" =>
                      /\ sweep'[q].phase = "waiting"
                      /\ \A j \in DOMAIN commands'[q] :
                           commands'[q][j].from = "sweep" => j = i
      <4>1. commands'[q] = commands[q] /\ sweep'[q] = sweep[q] /\ up'[q] = up[q]
        BY <1>0, <2>2, <3>3, <3>9
      <4> QED
        BY <4>1 DEF SweepsInv
    <3> QED
      BY <2>2, <3>7, <3>8, <3>9 DEF SweepsInv, Unstarted
  <2> QED
    BY <2>4, <2>5
<1>4. CASE SweepDone(p)
  <2>1. /\ sweep[p].phase = "rearming" /\ sweep[p].todo = {} /\ commands' = commands
        /\ sweep' = [sweep EXCEPT ![p] = Recorded(sweep[p])]
    BY <1>4 DEF SweepDone
  <2>2. /\ \A q \in Procs \ {p} : sweep'[q] = sweep[q]
        /\ sweep'[p] = Recorded(sweep[p])
    BY <1>0, <2>1
  <2>3. /\ sweep'[p].phase = "idle"
        /\ sweep'[p].cursor = IF sweep[p].complete THEN 0 ELSE sweep[p].last
        /\ (sweep'[p].initial <=> (sweep[p].initial \/ sweep[p].complete))
    BY <1>0, <2>2 DEF Recorded, SweepType
  <2>4. ASSUME NEW d \in Deadlines, Standing(p, d)
        PROVE  /\ Passed(sweep'[p], d) => Armed(p, d)
               /\ OnPage(sweep'[p], d) => Armed(p, d) \/ Listed(d) \in sweep'[p].todo
    <3>1. d \in Nat \ {0}
      BY NumbersTyped
    <3>2. Passed(sweep'[p], d) => Passed(sweep[p], d) \/ OnPage(sweep[p], d)
      BY <2>1, <2>3, <3>1 DEF Passed, OnPage
    <3>3. ~ OnPage(sweep'[p], d)
      BY <2>3 DEF OnPage
    <3> QED
      BY <2>1, <2>4, <3>2, <3>3 DEF CoverInv
  <2>5. CoverInv'
    BY <1>0, <2>2, <2>4, OneSweepCover
  <2>6. SweepsInv'
    <3>1. /\ \A i \in DOMAIN commands[p] : commands[p][i].from # "sweep"
          /\ up[p]
      BY <2>1 DEF SweepsInv, Unstarted
    <3> QED
      BY <1>0, <2>1, <2>2, <3>1 DEF SweepsInv, Unstarted
  <2> QED
    BY <2>5, <2>6
<1> QED
  BY <1>1, <1>2, <1>3, <1>4 DEF Sweep

\* A sweep that fails forgets its page but not its cursor, and nobody waits for
\* the command it sent.
LEMMA SweepFailsCover ==
  ASSUME IInv, IInv', CoverInv, SweepsInv, NEW p \in Procs, SweepFails(p)
  PROVE  CoverInv' /\ SweepsInv'
<1> DEFINE waiting == commands[p]
           orphan(c) == IF c.from = "sweep" THEN [c EXCEPT !.from = "nobody"] ELSE c
           left == [i \in DOMAIN waiting |-> orphan(waiting[i])]
<1>1. /\ UNCHANGED <<row, up, armed, known>> /\ sweep[p].phase # "idle"
      /\ sweep' = [sweep EXCEPT ![p].phase = "idle"]
      /\ commands' = [commands EXCEPT ![p] = left]
  BY DEF SweepFails, durable
<1>2. /\ \A q \in Procs \ {p} : sweep'[q] = sweep[q] /\ commands'[q] = commands[q]
      /\ commands'[p] = left
      /\ sweep'[p].phase = "idle" /\ sweep'[p].cursor = sweep[p].cursor
      /\ (sweep'[p].initial <=> sweep[p].initial)
  BY <1>1 DEF IInv, Typed, SweepType
<1>3. ASSUME NEW d \in Deadlines, Standing(p, d)
      PROVE  /\ Passed(sweep'[p], d) => Armed(p, d)
             /\ OnPage(sweep'[p], d) => Armed(p, d) \/ Listed(d) \in sweep'[p].todo
  BY <1>2, <1>3 DEF CoverInv, Passed, OnPage
<1>4. CoverInv'
  BY <1>1, <1>2, <1>3, OneSweepCover
<1>5. \A i \in DOMAIN left : left[i].from # "sweep"
  <2>1. \A i \in DOMAIN waiting : waiting[i] \in CommandType
    <3>1. waiting \in Seq(CommandType)
      BY DEF IInv, Typed
    <3> HIDE DEF waiting
    <3> QED
      BY <3>1, LenProperties
  <2>2. \A c \in CommandType : orphan(c).from # "sweep"
    BY DEF CommandType
  <2> HIDE DEF waiting, orphan
  <2> QED
    BY <2>1, <2>2
<1> HIDE DEF left
<1>6. SweepsInv'
  <2>1. up[p]
    BY <1>1 DEF SweepsInv, Unstarted
  <2> QED
    BY <1>1, <1>2, <1>5, <2>1 DEF SweepsInv, Unstarted
<1> QED
  BY <1>4, <1>6

\* The recovery runner's command is not a sweep's.
LEMMA RunnerCover ==
  ASSUME IInv, IInv', CoverInv, SweepsInv, NEW p \in Procs,
         RunnerSend(p) \/ \E d \in Deadlines : RunnerLock(p, d)
  PROVE  CoverInv' /\ SweepsInv'
<1>1. UNCHANGED <<row, up, armed, sweep, known>>
  BY DEF RunnerSend, RunnerLock, durable, scheduler
<1>2. CoverInv'
  BY <1>1, CoverRests DEF Advances, Armed
<1>3. SweepsInv'
  <2>1. CASE RunnerSend(p)
    <3> DEFINE command == [from |-> "runner", item |-> Listed(runner[p].id)]
    <3>1. /\ commands[p] \in Seq(CommandType) /\ Len(commands[p]) \in Nat
          /\ DOMAIN commands[p] = 1 .. Len(commands[p])
      BY LenProperties DEF IInv, Typed
    <3>2. /\ commands'[p] = Append(commands[p], command)
          /\ \A q \in Procs \ {p} : commands'[q] = commands[q]
      BY <2>1 DEF RunnerSend, Send, IInv, Typed
    <3>3. /\ DOMAIN commands'[p] = 1 .. (Len(commands[p]) + 1)
          /\ \A i \in 1 .. Len(commands[p]) : commands'[p][i] = commands[p][i]
          /\ commands'[p][Len(commands[p]) + 1] = command
      BY <3>1, <3>2
    <3>4. \A i \in DOMAIN commands'[p] : commands'[p][i].from = "sweep" =>
            i \in DOMAIN commands[p] /\ commands[p][i].from = "sweep"
      BY <3>1, <3>3
    <3> QED
      BY <1>1, <3>2, <3>4 DEF SweepsInv, Unstarted
  <2>2. CASE \E d \in Deadlines : RunnerLock(p, d)
    <3>1. commands' = commands
      BY <2>2 DEF RunnerLock, scheduler
    <3> QED
      BY <1>1, <3>1, SweepsRest
  <2> QED
    BY <2>1, <2>2
<1> QED
  BY <1>2, <1>3

\* A process that dies has swept nothing any more.
LEMMA CrashCover ==
  ASSUME IInv, IInv', CoverInv, SweepsInv, NEW p \in Procs, Crash(p)
  PROVE  CoverInv' /\ SweepsInv'
<1>1. /\ UNCHANGED <<row, known>>
      /\ \A q \in Procs \ {p} :
           /\ up'[q] = up[q] /\ armed'[q] = armed[q]
           /\ commands'[q] = commands[q] /\ sweep'[q] = sweep[q]
      /\ sweep'[p] = Idle /\ commands'[p] = <<>>
  BY DEF Crash, durable, IInv, Typed
<1>2. Unstarted(Idle)
  BY DEF Idle, Unstarted
<1>3. CoverInv'
  <2> SUFFICES ASSUME NEW q \in Procs, NEW d \in Deadlines, Standing(q, d)'
               PROVE  /\ Passed(sweep'[q], d) => Armed(q, d)'
                      /\ OnPage(sweep'[q], d) =>
                           Armed(q, d)' \/ Listed(d)' \in sweep'[q].todo
    BY DEF CoverInv, Passed, OnPage
  <2>1. Standing(q, d) /\ Listed(d)' = Listed(d)
    BY <1>1 DEF Standing, Pending, Listed
  <2>2. CASE q = p
    <3>1. d \in Nat \ {0}
      BY NumbersTyped
    <3>2. ~ Passed(sweep'[q], d) /\ ~ OnPage(sweep'[q], d)
      BY <1>1, <1>2, <2>2, <3>1 DEF Passed, OnPage, Unstarted
    <3> QED
      BY <3>2
  <2>3. CASE q # p
    BY <1>1, <2>1, <2>3 DEF CoverInv, Armed
  <2> QED
    BY <2>2, <2>3
<1>4. SweepsInv'
  BY <1>1, <1>2 DEF SweepsInv, Unstarted
<1> QED
  BY <1>3, <1>4

\* A process that starts has everything before it.
LEMMA RestartCover ==
  ASSUME IInv, IInv', CoverInv, SweepsInv, NEW p \in Procs, Restart(p)
  PROVE  CoverInv' /\ SweepsInv'
<1>1. /\ UNCHANGED <<row, armed, commands, sweep>>
      /\ \A q \in Procs \ {p} : up'[q] = up[q] /\ known'[q] = known[q]
      /\ ~ up[p]
  BY DEF Restart, durable, scheduler, IInv, Typed
<1>2. Unstarted(sweep[p])
  BY <1>1 DEF SweepsInv
<1>3. CoverInv'
  <2> SUFFICES ASSUME NEW q \in Procs, NEW d \in Deadlines, Standing(q, d)'
               PROVE  /\ Passed(sweep'[q], d) => Armed(q, d)'
                      /\ OnPage(sweep'[q], d) =>
                           Armed(q, d)' \/ Listed(d)' \in sweep'[q].todo
    BY DEF CoverInv, Passed, OnPage
  <2>1. CASE q = p
    <3>1. d \in Nat \ {0}
      BY NumbersTyped
    <3>2. ~ Passed(sweep'[q], d) /\ ~ OnPage(sweep'[q], d)
      BY <1>1, <1>2, <2>1, <3>1 DEF Passed, OnPage, Unstarted
    <3> QED
      BY <3>2
  <2>2. CASE q # p
    <3>1. Standing(q, d) /\ Listed(d)' = Listed(d)
      BY <1>1, <2>2 DEF Standing, Pending, Listed
    <3> QED
      BY <1>1, <3>1 DEF CoverInv, Armed
  <2> QED
    BY <2>1, <2>2
<1>4. SweepsInv'
  BY <1>1 DEF SweepsInv, Unstarted
<1> QED
  BY <1>3, <1>4

LEMMA NextCovers ==
  IInv /\ IInv' /\ CoverInv /\ SweepsInv /\ [Next]_vars => CoverInv' /\ SweepsInv'
<1> SUFFICES ASSUME IInv, IInv', CoverInv, SweepsInv, [Next]_vars
             PROVE  CoverInv' /\ SweepsInv'
  OBVIOUS
<1>1. ASSUME UNCHANGED <<row, armed, commands, sweep, up, known>>
      PROVE  CoverInv' /\ SweepsInv'
  BY <1>1, CoverRests, SweepsRest DEF Advances, Armed
<1>2. ASSUME NEW p \in Procs, Fire(p) PROVE CoverInv' /\ SweepsInv'
  BY <1>1, <1>2 DEF Fire, durable
<1>3. CASE Tick
  BY <1>1, <1>3 DEF Tick, durable, scheduler
<1>4. CASE UNCHANGED vars
  BY <1>1, <1>4 DEF vars, durable, scheduler
<1>5. CASE Next
  BY <1>2, <1>3, <1>5, CommandCover, ReceiveCover, HandleCover, SweepCover,
     SweepFailsCover, RunnerCover, CrashCover, RestartCover
  DEF Next
<1> QED
  BY <1>4, <1>5

\* A process that reports its initial sweep complete has a timer for every row
\* that was pending when it started and has not changed since, however calls
\* failed, pages moved and commands were overtaken.
THEOREM ReadyIsArmed == Spec => []ReadyMeansArmed
<1>1. Init => CoverInv /\ SweepsInv
  <2> SUFFICES ASSUME Init PROVE CoverInv /\ SweepsInv
    OBVIOUS
  <2>1. \A p \in Procs, d \in Deadlines : ~ Standing(p, d)
    BY DEF Init, Standing, Pending
  <2>2. CoverInv
    BY <2>1 DEF CoverInv
  <2>3. SweepsInv
    BY DEF Init, SweepsInv
  <2> QED
    BY <2>2, <2>3
<1>2. CoverInv => ReadyMeansArmed
  <2> SUFFICES ASSUME CoverInv, NEW p \in Procs, NEW d \in Pending,
                      sweep[p].initial, row[d].rev = known[p][d]
               PROVE  \E t \in TimerOf(p, d) : t.item = Listed(d)
    BY DEF ReadyMeansArmed
  <2>1. d \in Deadlines /\ Standing(p, d)
    BY DEF Standing, Pending
  <2>2. PICK t \in armed[p] : t.item = Listed(d)
    BY <2>1 DEF CoverInv, Passed, Armed
  <2>3. t.item.id = d
    BY <2>2 DEF Listed
  <2> QED
    BY <2>2, <2>3 DEF TimerOf
<1> QED
  BY <1>1, <1>2, InitHolds, StepHolds, NextCovers, PTL DEF Spec
================================================================================
