------------------------------ MODULE DraftProofs ------------------------------
(***************************************************************************)
(* Machine-checked facts about module Draft, for every pool of categories, *)
(* every number of turns, of clients and of deadline workers: the          *)
(* inductive invariant IInv, that the draft implements DraftRules, and     *)
(* what the clients and the series are told.                               *)
(***************************************************************************)
EXTENDS Draft, SequenceTheorems, FiniteSetTheorems, TLAPS

ActionType == [actor : {"first", "second"}, category : Pool, due : Nat, at : Nat]

LastAt == IF actions = <<>> THEN 0 ELSE actions[Len(actions)].at

\* The deadline of the current turn counts from the last action.
DeadlineCounts ==
  deadline = IF Completed THEN 0 ELSE TurnDuration + LastAt

\* No category is named twice, and no command is recorded twice.
Distinct ==
  /\ \A i, j \in DOMAIN actions :
       actions[i].category = actions[j].category => i = j
  /\ \A i, j \in DOMAIN commands :
       commands[i] = commands[j] /\ commands[i] # Timeout => i = j

\* The categories of a series are derived from its whole draft.
SelectedFromDraft ==
  series = IF Completed
           THEN [state |-> "ready", selected |-> Selected(actions)]
           ELSE Planned

\* What the log of actions satisfies, whoever appends to it.
LogInv == DeadlineCounts /\ TurnsInTime /\ Distinct /\ SelectedFromDraft

\* The transaction of a command holds the lock, has read the clock since the
\* last action and is not in a cancelled tournament.
CallsInv ==
  /\ \A c \in Commands : call[c].phase = "working" <=> lock = c
  /\ \A c \in Commands :
       call[c].phase = "working" =>
         /\ call[c].body \in Body
         /\ LastAt <= call[c].at /\ call[c].at <= now
  /\ tournament = "cancelled" => lock = NoOne

\* Where a command that was recorded is to be found.
RecordsInv ==
  \A c \in Commands :
    /\ call[c].phase \in {"new", "refused"} => ~Recorded(c)
    /\ call[c].phase \in {"failed", "done"} => call[c].body \in Body
    /\ call[c].phase = "done" => Recorded(c)
    /\ call[c].phase \in {"working", "failed", "done"} =>
         \A i \in DOMAIN commands : commands[i] = c =>
           /\ i = call[c].body.turn
           /\ actions[i].category = call[c].body.category

\* What a worker has read is true for as long as its turn is the current one.
TasksInv ==
  \A w \in Workers : task[w].phase # "idle" =>
    /\ task[w].turn \in 1..Turn /\ task[w].due <= now
    /\ task[w].phase = "built" /\ task[w].turn = Turn /\ ~Completed =>
         task[w].due = deadline /\ task[w].category \in Legal

IInv == TypeOK /\ LogInv /\ CallsInv /\ RecordsInv /\ TasksInv

LEMMA NamesApart ==
  /\ NoOne \notin Commands /\ Timeout \notin Commands
  /\ NoOne # Timeout
BY DraftAssumption DEF NoOne, Timeout

-----------------------------------------------------------------------------
(* The log of actions *)

\* There is always a category left: one more than there are turns.
LEMMA PoolSuffices ==
  ASSUME NEW log \in Seq(ActionType), Len(log) <= Turns
  PROVE  \E category \in Pool : \A i \in DOMAIN log : log[i].category # category
<1> DEFINE named == {log[i].category : i \in DOMAIN log}
           f == [i \in 1..Len(log) |-> log[i].category]
<1>1. Len(log) \in Nat /\ DOMAIN log = 1..Len(log)
  BY LenProperties
<1>2. f \in Surjection(1..Len(log), named)
  BY <1>1 DEF Surjection
<1>3. IsFiniteSet(1..Len(log)) /\ Cardinality(1..Len(log)) = Len(log)
  <2>1. IsFiniteSet(1..Len(log)) /\ Cardinality(1..Len(log)) =
          IF 1 > Len(log) THEN 0 ELSE Len(log) - 1 + 1
    BY <1>1, FS_Interval
  <2> QED
    BY <1>1, <2>1
<1>4. Cardinality(named) <= Len(log)
  <2>1. Cardinality(named) <= Cardinality(1..Len(log))
    BY <1>2, <1>3, FS_Surjection, Zenon
  <2> QED
    BY <1>3, <2>1
<1>5. named # Pool
  BY <1>1, <1>4, DraftRulesAssumption
<1>6. named \subseteq Pool
  <2>1. \A i \in 1..Len(log) : log[i] \in ActionType
    BY ElementOfSeq
  <2> QED
    BY <1>1, <2>1 DEF ActionType
<1> QED
  BY <1>5, <1>6

\* The categories of a completed draft's games.
LEMMA SelectedType ==
  ASSUME NEW log \in Seq(ActionType), Len(log) = Turns
  PROVE  /\ Selected(log) \in Seq(Pool)
         /\ DOMAIN Selected(log) = 1..(Turns - Bans + 1)
         /\ \A game \in 1..(Turns - Bans) :
              Selected(log)[game] = log[Bans + game].category
         /\ Turns - Bans + 1 > 0 =>
              \A i \in DOMAIN log :
                log[i].category # Selected(log)[Turns - Bans + 1]
<1> DEFINE rest == CHOOSE category \in Pool :
                     \A i \in DOMAIN log : log[i].category # category
           n == Turns - Bans + 1
<1>1. rest \in Pool /\ \A i \in DOMAIN log : log[i].category # rest
  BY PoolSuffices, DraftRulesAssumption
<1>2. DOMAIN log = 1..Turns /\ n \in Nat
  BY LenProperties, DraftRulesAssumption DEF Bans
<1>3. \A game \in 1..n : game <= Turns - Bans => log[Bans + game] \in ActionType
  BY <1>2, DraftRulesAssumption, ElementOfSeq DEF Bans
<1>4. Selected(log) = [game \in 1..n |->
         IF game <= Turns - Bans THEN log[Bans + game].category ELSE rest]
  BY DEF Selected
<1> HIDE DEF rest
<1>5. \A game \in 1..n : Selected(log)[game] \in Pool
  BY <1>1, <1>3, <1>4 DEF ActionType
<1>6. Selected(log) \in Seq(Pool)
  BY <1>2, <1>4, <1>5, IsASeq
<1>7. n > 0 => Selected(log)[n] = rest
  BY <1>2, <1>4, DraftRulesAssumption DEF Bans
<1>8. \A game \in 1..(Turns - Bans) :
        Selected(log)[game] = log[Bans + game].category
  BY <1>4, DraftRulesAssumption DEF Bans
<1> QED
  BY <1>1, <1>4, <1>6, <1>7, <1>8

\* An action that the rules allow, at a time the clock has reached, leaves the
\* log in order.
LEMMA AppendFits ==
  ASSUME TypeOK, LogInv, ~Completed,
         NEW category \in Legal, NEW at \in LastAt..deadline, at <= now,
         NEW command \in Commands \cup {Timeout},
         command = Timeout => at = deadline,
         ~ \E i \in DOMAIN commands : commands[i] = command /\ command # Timeout,
         AppendRevision(Action(category, at), Turn, command), now' = now
  PROVE  /\ LogInv'
         /\ actions' \in Seq(ActionType) /\ Len(actions') = Len(actions) + 1
         /\ Len(actions') <= Turns
         /\ commands' \in Seq(Commands \cup {Timeout})
         /\ Len(commands') = Len(actions')
         /\ deadline' \in Nat
         /\ series' \in [state : {"planned", "ready"}, selected : Seq(Pool)]
         /\ LastAt' = at
         /\ \A i \in DOMAIN actions : i \in DOMAIN actions' /\ actions'[i] = actions[i]
         /\ \A i \in DOMAIN commands' :
              \/ i \in DOMAIN commands /\ commands'[i] = commands[i]
              \/ i = Turn /\ commands'[i] = command
         /\ \A i \in DOMAIN commands : i \in DOMAIN commands' /\ commands'[i] = commands[i]
         /\ commands'[Turn] = command /\ Turn \in DOMAIN commands'
         /\ actions'[Turn] = Action(category, at)
         /\ Turn \in Nat /\ Turn' = Turn + 1
<1> DEFINE action == Action(category, at)
           n == Len(actions)
<1>1. /\ actions \in Seq(ActionType) /\ commands \in Seq(Commands \cup {Timeout})
      /\ n \in Nat /\ n < Turns /\ Len(commands) = n /\ Turns \in Nat
      /\ DOMAIN actions = 1..n /\ DOMAIN commands = 1..n
  BY LenProperties, DraftRulesAssumption DEF TypeOK, ActionType, Completed
<1>2. /\ deadline = TurnDuration + LastAt /\ deadline \in Nat
      /\ LastAt \in Nat /\ TurnDuration \in Nat
  <2>1. n # 0 => actions[n] \in ActionType
    BY <1>1
  <2> QED
    BY <1>1, <2>1, DraftRulesAssumption DEF LogInv, DeadlineCounts, LastAt, TypeOK, ActionType
<1>3. at \in Nat /\ LastAt <= at /\ at <= deadline
  BY <1>2
<1>4. Turn = n + 1
  BY DEF Turn
<1>5. action \in ActionType /\ action.category = category /\ action.at = at
      /\ action.due = deadline
  BY <1>2, <1>3 DEF Action, ActionType, Actor, Legal
<1>6. /\ actions' = Append(actions, action)
      /\ deadline' = IF n + 1 = Turns THEN 0 ELSE at + TurnDuration
      /\ commands' = Append(commands, command)
      /\ Complete
  BY <1>4, <1>5 DEF AppendRevision
<1>7. /\ actions' \in Seq(ActionType) /\ Len(actions') = n + 1
      /\ DOMAIN actions' = 1..(n + 1) /\ actions' # <<>>
      /\ \A i \in 1..n : actions'[i] = actions[i]
      /\ actions'[n + 1] = action
  <2> HIDE DEF action
  <2> QED
    BY <1>1, <1>5, <1>6, AppendProperties, LenProperties
<1>8. /\ commands' \in Seq(Commands \cup {Timeout}) /\ Len(commands') = n + 1
      /\ DOMAIN commands' = 1..(n + 1)
      /\ \A i \in 1..n : commands'[i] = commands[i]
      /\ commands'[n + 1] = command
  BY <1>1, <1>6, AppendProperties, LenProperties
<1> HIDE DEF action
<1>9. LastAt' = at
  BY <1>5, <1>7 DEF LastAt
<1>10. DeadlineCounts'
  <2>1. Completed' <=> n + 1 = Turns
    BY <1>7 DEF Completed
  <2>2. at + TurnDuration = TurnDuration + at
    BY <1>2, <1>3
  <2> QED
    BY <1>6, <1>9, <2>1, <2>2 DEF DeadlineCounts
<1>11. deadline' \in Nat
  BY <1>2, <1>3, <1>6
<1>12. Distinct'
  <2>1. \A i \in 1..n : actions[i].category # category
    BY <1>1 DEF Legal, Used
  <2>2. \A i, j \in DOMAIN actions' :
          actions'[i].category = actions'[j].category => i = j
    BY <1>1, <1>5, <1>7, <2>1 DEF LogInv, Distinct
  <2>3. \A i, j \in DOMAIN commands' :
          commands'[i] = commands'[j] /\ commands'[i] # Timeout => i = j
    BY <1>1, <1>8 DEF LogInv, Distinct
  <2> QED
    BY <2>2, <2>3 DEF Distinct
<1>13. TurnsInTime'
  <2> DEFINE T(i) ==
        /\ actions[i].due = TurnDuration + (IF i = 1 THEN 0 ELSE actions[i - 1].at)
        /\ actions[i].at <= actions[i].due /\ actions[i].at <= now
        /\ i > 1 => actions[i - 1].at <= actions[i].at
        /\ commands[i] = Timeout => actions[i].at = actions[i].due
  <2> DEFINE Tn(i) ==
        /\ actions'[i].due = TurnDuration + (IF i = 1 THEN 0 ELSE actions'[i - 1].at)
        /\ actions'[i].at <= actions'[i].due /\ actions'[i].at <= now'
        /\ i > 1 => actions'[i - 1].at <= actions'[i].at
        /\ commands'[i] = Timeout => actions'[i].at = actions'[i].due
  <2>1. \A i \in 1..n : T(i)
    BY <1>1 DEF LogInv, TurnsInTime
  <2>2. \A i \in 1..n : Tn(i)
    <3> SUFFICES ASSUME NEW i \in 1..n PROVE Tn(i)
      OBVIOUS
    <3>1. actions'[i] = actions[i] /\ commands'[i] = commands[i]
      BY <1>7, <1>8
    <3>2. i # 1 => actions'[i - 1] = actions[i - 1]
      BY <1>1, <1>7
    <3>3. i > 1 => i # 1
      BY <1>1
    <3> QED
      BY <2>1, <3>1, <3>2, <3>3
  <2>3. Tn(n + 1)
    <3>1. n = 0 => LastAt = 0
      BY <1>1 DEF LastAt
    <3>2. n # 0 => actions # <<>>
      BY <1>1
    <3>3. n # 0 => LastAt = actions[n].at /\ actions'[n] = actions[n]
      BY <1>1, <1>7, <3>2 DEF LastAt
    <3>4. (n + 1) - 1 = n /\ (n + 1 = 1 <=> n = 0) /\ (n + 1 > 1 <=> n # 0)
      BY <1>1
    <3>5. /\ actions'[n + 1].due = deadline /\ actions'[n + 1].at = at
          /\ commands'[n + 1] = command
      BY <1>5, <1>7, <1>8
    <3>6. IF n + 1 = 1 THEN LastAt = 0 ELSE actions'[(n + 1) - 1].at = LastAt
      BY <3>1, <3>3, <3>4
    <3> QED
      BY <1>2, <1>3, <3>4, <3>5, <3>6
  <2> HIDE DEF Tn
  <2>4. \A i \in 1..(n + 1) : i \in 1..n \/ i = n + 1
    BY <1>1
  <2>5. \A i \in 1..(n + 1) : Tn(i)
    BY <2>2, <2>3, <2>4
  <2> QED
    BY <1>7, <2>5 DEF TurnsInTime, Tn
<1>14. SelectedFromDraft'
       /\ series' \in [state : {"planned", "ready"}, selected : Seq(Pool)]
  <2>1. series = Planned
    BY DEF LogInv, SelectedFromDraft
  <2>2. CASE n + 1 = Turns
    <3>1. Completed' /\ series' = [state |-> "ready", selected |-> Selected(actions')]
      BY <1>6, <1>7, <2>2 DEF Complete, Completed
    <3>2. Selected(actions') \in Seq(Pool)
      BY <1>7, <2>2, SelectedType
    <3>4. Selected(actions)' = Selected(actions')
      BY DEF Selected
    <3> QED
      BY <3>1, <3>2, <3>4 DEF SelectedFromDraft
  <2>3. CASE n + 1 # Turns
    <3>1. ~Completed' /\ series' = series
      BY <1>6, <1>7, <2>3 DEF Complete, Completed
    <3> QED
      BY <2>1, <3>1 DEF SelectedFromDraft, Planned, TypeOK
  <2> QED
    BY <2>2, <2>3
<1>15. LogInv'
  BY <1>10, <1>12, <1>13, <1>14 DEF LogInv
<1>16. Turn' = n + 2
  BY <1>1, <1>7 DEF Turn
<1> QED
  BY <1>1, <1>4, <1>7, <1>8, <1>9, <1>11, <1>14, <1>15, <1>16 DEF action

\* A log that nobody appends to stays in order while the clock moves.
LEMMA LogStutters ==
  ASSUME TypeOK, LogInv, UNCHANGED <<series, actions, deadline, commands>>,
         now' \in Nat, now' >= now
  PROVE  LogInv'
<1>1. \A i \in DOMAIN actions : actions[i].at \in Nat
  <2>1. actions \in Seq(ActionType)
    BY DEF TypeOK, ActionType
  <2>2. \A i \in DOMAIN actions : actions[i] \in ActionType
    BY <2>1, LenProperties
  <2> QED
    BY <2>2 DEF ActionType
<1>2. now \in Nat
  BY DraftAssumption DEF TypeOK
<1>3. TurnsInTime'
  BY <1>1, <1>2 DEF LogInv, TurnsInTime
<1>4. DeadlineCounts' /\ Distinct' /\ SelectedFromDraft'
  BY DEF LogInv, DeadlineCounts, Distinct, SelectedFromDraft, Completed, LastAt,
     Selected, Planned
<1> QED
  BY <1>3, <1>4 DEF LogInv

-----------------------------------------------------------------------------
(* A participant's command *)

LEMMA BodyType ==
  ASSUME NEW body \in Body
  PROVE  /\ body.turn \in 1..Turns /\ body.category \in Pool
         /\ body.actor \in {"first", "second"}
BY DEF Body

\* A command is answered, or fails, without deciding anything.
LEMMA AnswerStep ==
  ASSUME IInv, NEW c \in Commands, Reconcile(c) \/ CallFails(c)
  PROVE  IInv'
<1> DEFINE phase == IF CallFails(c) THEN "failed"
                    ELSE IF Recorded(c) THEN "done" ELSE "refused"
<1>1. /\ call[c].phase = "working" /\ lock = c
      /\ Answer(c, phase) /\ phase \in {"failed", "done", "refused"}
      /\ UNCHANGED <<series, draft, commands>>
      /\ phase = "done" => Recorded(c)
      /\ phase = "refused" => ~Recorded(c)
      /\ faults' \in 0..MaxFaults
  <2>1. CASE CallFails(c)
    BY <2>1, DraftAssumption DEF CallFails, Fault, IInv, CallsInv, TypeOK
  <2>2. CASE ~CallFails(c)
    BY <2>2 DEF Reconcile, IInv, CallsInv, TypeOK
  <2> QED
    BY <2>1, <2>2
<1> HIDE DEF phase
<1>2. /\ call' \in [Commands ->
             [phase : {"new", "working", "failed", "stale", "done", "refused"},
              body : Body \cup {NoBody}, at : 0..Horizon]]
      /\ call'[c].phase = phase
      /\ phase # "refused" => call'[c].body = call[c].body
      /\ call'[c].body = call[c].body \/ call'[c].body = NoBody
      /\ \A d \in Commands : d # c => call'[d] = call[d]
      /\ lock' = NoOne /\ UNCHANGED <<now, tournament, task, series, draft, commands>>
  BY <1>1, DraftAssumption DEF Answer, IInv, TypeOK
<1>3. TypeOK'
  BY <1>1, <1>2 DEF IInv, TypeOK, draft
<1>4. LogInv'
  BY <1>2, LogStutters, DraftAssumption DEF IInv, TypeOK, draft
<1>5. CallsInv'
  BY <1>1, <1>2, NamesApart DEF IInv, CallsInv, draft, LastAt
<1>6. RecordsInv'
  <2> SUFFICES ASSUME NEW d \in Commands
               PROVE  /\ call'[d].phase \in {"new", "refused"} => ~Recorded(d)
                      /\ call'[d].phase \in {"failed", "done"} => call'[d].body \in Body
                      /\ call'[d].phase = "done" => Recorded(d)
                      /\ call'[d].phase \in {"working", "failed", "done"} =>
                           \A i \in DOMAIN commands : commands[i] = d =>
                             /\ i = call'[d].body.turn
                             /\ actions[i].category = call'[d].body.category
    BY <1>2 DEF RecordsInv, Recorded, draft
  <2>1. CASE d # c
    BY <1>2, <2>1 DEF IInv, RecordsInv
  <2>2. CASE d = c
    BY <1>1, <1>2, <2>2 DEF IInv, RecordsInv, CallsInv
  <2> QED
    BY <2>1, <2>2
<1>7. TasksInv'
  BY <1>2 DEF IInv, TasksInv, draft, Turn, Completed, Legal, Used
<1> QED
  BY <1>3, <1>4, <1>5, <1>6, <1>7 DEF IInv

\* A command decides the turn, whether the client hears of it or not.
LEMMA DecideStep ==
  ASSUME IInv, NEW c \in Commands, Act(c) \/ ActUnheard(c)
  PROVE  IInv'
<1> DEFINE phase == IF Act(c) THEN "done" ELSE "failed"
           body == call[c].body
           at == call[c].at
<1>1. /\ call[c].phase = "working" /\ lock = c
      /\ ~Recorded(c) /\ Acceptable(c)
      /\ AppendRevision(Action(body.category, at), Turn, c)
      /\ Answer(c, phase) /\ phase \in {"failed", "done"}
      /\ faults' \in 0..MaxFaults
  <2>1. CASE Act(c)
    BY <2>1 DEF Act, Decides, IInv, CallsInv, TypeOK
  <2>2. CASE ~Act(c)
    BY <2>2, DraftAssumption DEF ActUnheard, Decides, Fault, IInv, CallsInv, TypeOK
  <2> QED
    BY <2>1, <2>2
<1> HIDE DEF phase
<1>2. /\ body \in Body /\ body.turn = Turn /\ body.category \in Legal
      /\ at \in 0..Horizon /\ LastAt <= at /\ at <= now /\ at <= deadline
      /\ ~Completed
  BY <1>1 DEF Acceptable, IInv, CallsInv, TypeOK
<1>3. /\ call' \in [Commands ->
             [phase : {"new", "working", "failed", "stale", "done", "refused"},
              body : Body \cup {NoBody}, at : 0..Horizon]]
      /\ call'[c].phase = phase /\ call'[c].body = body
      /\ \A d \in Commands : d # c => call'[d] = call[d]
      /\ lock' = NoOne /\ UNCHANGED <<now, tournament, task>>
  BY <1>1, DraftAssumption DEF Answer, IInv, TypeOK
<1>4. LastAt \in Int
  <2>1. actions \in Seq(ActionType)
    BY DEF IInv, TypeOK, ActionType
  <2>2. actions # <<>> => actions[Len(actions)] \in ActionType
    BY <2>1, LenProperties
  <2> QED
    BY <2>2 DEF LastAt, ActionType
<1>5. at \in LastAt..deadline /\ c # Timeout
      /\ ~ \E i \in DOMAIN commands : commands[i] = c /\ c # Timeout
      /\ c \in Commands \cup {Timeout}
  BY <1>1, <1>2, <1>4, NamesApart DEF Recorded, IInv, TypeOK
<1> HIDE DEF body, at
<1>6. /\ LogInv'
      /\ actions' \in Seq(ActionType) /\ Len(actions') <= Turns
      /\ commands' \in Seq(Commands \cup {Timeout})
      /\ Len(commands') = Len(actions')
      /\ deadline' \in Nat
      /\ series' \in [state : {"planned", "ready"}, selected : Seq(Pool)]
      /\ \A i \in DOMAIN actions : i \in DOMAIN actions' /\ actions'[i] = actions[i]
      /\ \A i \in DOMAIN commands' :
           \/ i \in DOMAIN commands /\ commands'[i] = commands[i]
           \/ i = Turn /\ commands'[i] = c
      /\ \A i \in DOMAIN commands : i \in DOMAIN commands' /\ commands'[i] = commands[i]
      /\ commands'[Turn] = c /\ Turn \in DOMAIN commands'
      /\ actions'[Turn] = Action(body.category, at)
      /\ Turn \in Nat /\ Turn' = Turn + 1
  BY <1>1, <1>2, <1>3, <1>5, AppendFits DEF IInv
<1>7. TypeOK'
  BY <1>1, <1>3, <1>6 DEF IInv, TypeOK, ActionType
<1>8. CallsInv'
  BY <1>1, <1>3, NamesApart DEF IInv, CallsInv
<1>9. RecordsInv'
  <2> SUFFICES ASSUME NEW d \in Commands
               PROVE  /\ call'[d].phase \in {"new", "refused"} => ~Recorded(d)'
                      /\ call'[d].phase \in {"failed", "done"} => call'[d].body \in Body
                      /\ call'[d].phase = "done" => Recorded(d)'
                      /\ call'[d].phase \in {"working", "failed", "done"} =>
                           \A i \in DOMAIN commands' : commands'[i] = d =>
                             /\ i = call'[d].body.turn
                             /\ actions'[i].category = call'[d].body.category
    BY DEF RecordsInv
  <2>0. DOMAIN commands = DOMAIN actions
    BY LenProperties DEF IInv, TypeOK
  <2>1. CASE d # c
    <3>1. \A i \in DOMAIN commands' : commands'[i] = d =>
            i \in DOMAIN commands /\ commands[i] = d
      BY <1>6, <2>1
    <3>2. Recorded(d)' <=> Recorded(d)
      BY <1>6, <3>1 DEF Recorded
    <3> QED
      BY <1>3, <1>6, <2>0, <2>1, <3>1, <3>2 DEF IInv, RecordsInv
  <2>2. CASE d = c
    <3>1. Recorded(c)'
      BY <1>6 DEF Recorded
    <3>2. \A i \in DOMAIN commands' : commands'[i] = c => i = Turn
      BY <1>1, <1>6 DEF Recorded
    <3>3. actions'[Turn].category = body.category
      BY <1>6 DEF Action
    <3> QED
      BY <1>1, <1>2, <1>3, <2>2, <3>1, <3>2, <3>3
  <2> QED
    BY <2>1, <2>2
<1>10. TasksInv'
  BY <1>3, <1>6 DEF IInv, TasksInv
<1> QED
  BY <1>6, <1>7, <1>8, <1>9, <1>10 DEF IInv

\* A command begins its transaction, or hears that it is stale.
LEMMA BeginStep ==
  ASSUME IInv, NEW c \in Commands, Begin(c) \/ Stale(c)
  PROVE  IInv'
<1>1. /\ call[c].phase \in {"new", "failed"} /\ lock = NoOne
      /\ UNCHANGED <<now, tournament, series, draft, commands, task, faults>>
  BY DEF Begin, Stale, Called, Unlocked
<1>2. LogInv'
  BY <1>1, LogStutters, DraftAssumption DEF IInv, TypeOK, draft
<1>3. TasksInv'
  BY <1>1 DEF IInv, TasksInv, draft, Turn, Completed, Legal, Used
<1>4. CASE Stale(c)
  <2>1. /\ call' = [call EXCEPT ![c] = [New EXCEPT !.phase = "stale"]]
        /\ lock' = lock
    BY <1>4 DEF Stale
  <2>2. /\ call' \in [Commands ->
               [phase : {"new", "working", "failed", "stale", "done", "refused"},
                body : Body \cup {NoBody}, at : 0..Horizon]]
        /\ call'[c].phase = "stale"
        /\ \A d \in Commands : d # c => call'[d] = call[d]
    BY <2>1, DraftAssumption DEF IInv, TypeOK, New
  <2>3. TypeOK'
    BY <1>1, <2>1, <2>2 DEF IInv, TypeOK, draft
  <2>4. CallsInv' /\ RecordsInv'
    BY <1>1, <2>1, <2>2, NamesApart
    DEF IInv, CallsInv, RecordsInv, Recorded, draft, LastAt
  <2> QED
    BY <1>2, <1>3, <2>3, <2>4 DEF IInv
<1>5. CASE Begin(c)
  <2>1. PICK body \in Asked(c) :
          call' = [call EXCEPT ![c] = [phase |-> "working", body |-> body,
                                       at |-> now]]
    BY <1>5 DEF Begin
  <2>2. body \in Body /\ (call[c].phase = "failed" => body = call[c].body)
    BY <1>1, <2>1 DEF Asked, IInv, RecordsInv
  <2>3. tournament = "active" /\ lock' = c
    BY <1>5 DEF Begin
  <2>4. /\ call' \in [Commands ->
               [phase : {"new", "working", "failed", "stale", "done", "refused"},
                body : Body \cup {NoBody}, at : 0..Horizon]]
        /\ call'[c].phase = "working" /\ call'[c].body = body /\ call'[c].at = now
        /\ \A d \in Commands : d # c => call'[d] = call[d]
    BY <2>1, <2>2, DraftAssumption DEF IInv, TypeOK
  <2>5. TypeOK'
    BY <1>1, <2>3, <2>4 DEF IInv, TypeOK, draft
  <2>6. LastAt <= now
    <3>1. actions = <<>> \/ Len(actions) \in DOMAIN actions
      BY LenProperties DEF IInv, TypeOK
    <3>2. now >= 0
      BY DraftAssumption DEF IInv, TypeOK
    <3> QED
      BY <3>1, <3>2 DEF LastAt, IInv, LogInv, TurnsInTime
  <2>7. CallsInv'
    BY <1>1, <2>2, <2>3, <2>4, <2>6, NamesApart DEF IInv, CallsInv, draft, LastAt
  <2>8. RecordsInv'
    BY <1>1, <2>2, <2>4 DEF IInv, RecordsInv, Recorded, draft
  <2> QED
    BY <1>2, <1>3, <2>5, <2>7, <2>8 DEF IInv
<1> QED
  BY <1>4, <1>5

-----------------------------------------------------------------------------
(* A deadline worker *)

\* The automatic action that a worker built is one the rules allow if the
\* commit finds its turn.
LEMMA BuiltIsLegal ==
  ASSUME IInv, NEW w \in Workers, task[w].phase = "built", Matches(w)
  PROVE  /\ Built(w) = Action(task[w].category, deadline)
         /\ task[w].turn = Turn /\ task[w].category \in Legal
         /\ deadline \in LastAt..deadline /\ deadline <= now /\ ~Completed
         /\ LastAt \in Nat
<1>1. task[w].turn = Turn /\ ~Completed
  BY DEF Matches, InScope
<1>2. task[w].due = deadline /\ task[w].category \in Legal /\ task[w].due <= now
  BY <1>1 DEF IInv, TasksInv
<1>3. LastAt \in Nat
  <2>1. actions \in Seq(ActionType)
    BY DEF IInv, TypeOK, ActionType
  <2>2. actions # <<>> => actions[Len(actions)] \in ActionType
    BY <2>1, LenProperties
  <2> QED
    BY <2>2 DEF LastAt, ActionType
<1>4. deadline = TurnDuration + LastAt
  BY <1>1 DEF IInv, LogInv, DeadlineCounts
<1> QED
  BY <1>1, <1>2, <1>3, <1>4, DraftRulesAssumption DEF Built, Action

\* A worker commits an automatic action, whether it hears of it or not.
LEMMA ExpireStep ==
  ASSUME IInv, NEW w \in Workers, task[w].phase = "built", Unlocked, Matches(w),
         AppendRevision(Built(w), task[w].turn, Timeout), Work(w, Idle),
         faults' \in 0..MaxFaults
  PROVE  IInv'
<1>1. /\ AppendRevision(Action(task[w].category, deadline), Turn, Timeout)
      /\ task[w].category \in Legal
      /\ deadline \in LastAt..deadline /\ deadline <= now /\ ~Completed
  BY BuiltIsLegal
<1>2. UNCHANGED <<now, tournament, lock, call>>
      /\ task' = [task EXCEPT ![w] = Idle]
  BY DEF Work
<1>3. /\ LogInv'
      /\ actions' \in Seq(ActionType) /\ Len(actions') <= Turns
      /\ commands' \in Seq(Commands \cup {Timeout})
      /\ Len(commands') = Len(actions')
      /\ deadline' \in Nat
      /\ series' \in [state : {"planned", "ready"}, selected : Seq(Pool)]
      /\ \A i \in DOMAIN actions : i \in DOMAIN actions' /\ actions'[i] = actions[i]
      /\ \A i \in DOMAIN commands' :
           \/ i \in DOMAIN commands /\ commands'[i] = commands[i]
           \/ i = Turn /\ commands'[i] = Timeout
      /\ \A i \in DOMAIN commands : i \in DOMAIN commands' /\ commands'[i] = commands[i]
      /\ Turn \in Nat /\ Turn' = Turn + 1
  BY <1>1, <1>2, AppendFits DEF IInv
<1>4. /\ task' \in [Workers ->
             [phase : {"idle", "due", "built"}, turn : 0..Turns, due : Nat,
              category : Pool \cup {NoOne}]]
      /\ \A v \in Workers : task'[v].phase # "idle" => task'[v] = task[v]
  <2>1. Idle \in [phase : {"idle", "due", "built"}, turn : 0..Turns, due : Nat,
                  category : Pool \cup {NoOne}]
    BY DraftRulesAssumption DEF Idle
  <2> QED
    BY <1>2, <2>1 DEF IInv, TypeOK, Idle
<1>5. TypeOK'
  BY <1>2, <1>3, <1>4 DEF IInv, TypeOK, ActionType
<1>6. CallsInv'
  BY <1>2, NamesApart DEF IInv, CallsInv, Unlocked
<1>7. RecordsInv'
  <2>1. DOMAIN commands = DOMAIN actions
    BY LenProperties DEF IInv, TypeOK
  <2>2. \A c \in Commands : \A i \in DOMAIN commands' : commands'[i] = c =>
          i \in DOMAIN commands /\ commands[i] = c
    BY <1>3, NamesApart
  <2>3. \A c \in Commands : Recorded(c)' <=> Recorded(c)
    BY <1>3, <2>2 DEF Recorded
  <2> QED
    BY <1>2, <1>3, <2>1, <2>2, <2>3 DEF IInv, RecordsInv
<1>8. TasksInv'
  BY <1>2, <1>3, <1>4 DEF IInv, TasksInv
<1> QED
  BY <1>3, <1>5, <1>6, <1>7, <1>8 DEF IInv

\* A worker scans, builds an action or gives up: nothing durable changes.
LEMMA TaskStep ==
  ASSUME IInv, NEW w \in Workers, NEW next, Work(w, next),
         next \in [phase : {"idle", "due", "built"}, turn : 0..Turns, due : Nat,
                   category : Pool \cup {NoOne}],
         next.phase # "idle" =>
           /\ next.turn \in 1..Turn /\ next.due <= now
           /\ next.phase = "built" /\ next.turn = Turn /\ ~Completed =>
                next.due = deadline /\ next.category \in Legal,
         UNCHANGED <<series, draft, commands>>, faults' \in 0..MaxFaults
  PROVE  IInv'
<1>1. /\ task' = [task EXCEPT ![w] = next]
      /\ UNCHANGED <<now, tournament, lock, call, series, actions, deadline, commands>>
  BY DEF Work, draft
<1>2. TypeOK'
  BY <1>1 DEF IInv, TypeOK
<1>3. LogInv'
  BY <1>1, LogStutters, DraftAssumption DEF IInv, TypeOK
<1>4. CallsInv' /\ RecordsInv'
  BY <1>1 DEF IInv, CallsInv, RecordsInv, Recorded, LastAt
<1>5. TasksInv'
  <2>1. \A v \in Workers : task'[v] = IF v = w THEN next ELSE task[v]
    BY <1>1 DEF IInv, TypeOK
  <2>2. Turn' = Turn /\ Legal' = Legal /\ (Completed' <=> Completed)
    BY <1>1 DEF Turn, Legal, Used, Completed
  <2> QED
    BY <1>1, <2>1, <2>2 DEF IInv, TasksInv
<1> QED
  BY <1>2, <1>3, <1>4, <1>5 DEF IInv

LEMMA WorkerStep ==
  ASSUME IInv, NEW w \in Workers, Worker(w) \/ ExpireUnheard(w) \/ GiveUp(w)
  PROVE  IInv'
<1> DEFINE Task == [phase : {"idle", "due", "built"}, turn : 0..Turns, due : Nat,
                    category : Pool \cup {NoOne}]
<1>1. Idle \in Task /\ Idle.phase = "idle"
  BY DraftRulesAssumption DEF Idle
<1>2. Turn \in Nat /\ Turn >= 1 /\ (~Completed => Turn <= Turns)
      /\ Turns \in Nat
  BY LenProperties, DraftRulesAssumption DEF IInv, TypeOK, Turn, Completed
<1>3. task[w] \in Task /\ faults \in 0..MaxFaults
  BY DEF IInv, TypeOK
<1>4. Fault => faults' \in 0..MaxFaults
  BY <1>3, DraftAssumption DEF Fault
<1>5. CASE Scan(w)
  <2>1. /\ Work(w, [Idle EXCEPT !.phase = "due", !.turn = Turn, !.due = deadline])
        /\ deadline <= now /\ ~Completed
        /\ UNCHANGED <<series, draft, commands, faults>>
    BY <1>5 DEF Scan, InScope
  <2> DEFINE next == [Idle EXCEPT !.phase = "due", !.turn = Turn, !.due = deadline]
  <2>2. deadline \in Nat /\ Turn \in 1..Turn /\ Turn \in 0..Turns
    BY <1>2, <2>1 DEF IInv, TypeOK
  <2>3. /\ next \in Task /\ next.phase = "due" /\ next.turn = Turn
        /\ next.due = deadline
    BY <1>1, <2>2
  <2>4. Work(w, next)
    BY <2>1
  <2> HIDE DEF next
  <2> QED
    BY <1>3, <2>1, <2>2, <2>3, <2>4, TaskStep
<1>6. CASE Resolve(w)
  <2>1. task[w].phase = "due" /\ UNCHANGED <<series, draft, commands, faults>>
    BY <1>6 DEF Resolve
  <2>2. CASE ~Completed /\ Turn = task[w].turn /\ deadline = task[w].due
    <3>1. PICK category \in Legal :
            Work(w, [task[w] EXCEPT !.phase = "built", !.category = category])
      BY <1>6, <2>2 DEF Resolve
    <3> DEFINE next == [task[w] EXCEPT !.phase = "built", !.category = category]
    <3>2. /\ next \in Task /\ next.phase = "built" /\ next.turn = task[w].turn
          /\ next.due = task[w].due /\ next.category = category
      BY <1>3, <3>1 DEF Legal
    <3>3. task[w].turn \in 1..Turn /\ task[w].due <= now
      BY <2>1 DEF IInv, TasksInv
    <3> HIDE DEF next
    <3> QED
      BY <1>3, <2>1, <2>2, <3>1, <3>2, <3>3, TaskStep DEF next
  <2>3. CASE ~(~Completed /\ Turn = task[w].turn /\ deadline = task[w].due)
    <3>1. Work(w, Idle)
      BY <1>6, <2>3 DEF Resolve
    <3> QED
      BY <1>1, <1>3, <2>1, <3>1, TaskStep
  <2> QED
    BY <2>2, <2>3
<1>7. CASE Expire(w)
  <2>1. CASE Matches(w)
    BY <1>3, <1>7, <2>1, ExpireStep DEF Expire
  <2>2. CASE ~Matches(w)
    <3>1. Work(w, Idle) /\ UNCHANGED <<series, draft, commands, faults>>
      BY <1>7, <2>2 DEF Expire
    <3> QED
      BY <1>1, <1>3, <3>1, TaskStep
  <2> QED
    BY <2>1, <2>2
<1>8. CASE ExpireUnheard(w)
  BY <1>4, <1>8, ExpireStep DEF ExpireUnheard
<1>9. CASE GiveUp(w)
  BY <1>1, <1>4, <1>9, TaskStep DEF GiveUp
<1> QED
  BY <1>5, <1>6, <1>7, <1>8, <1>9 DEF Worker

-----------------------------------------------------------------------------
(* The invariant *)

\* The operator's cancellation, and the clock.
LEMMA OtherStep ==
  ASSUME IInv, Cancel \/ Tick
  PROVE  IInv'
<1>1. /\ UNCHANGED <<series, actions, deadline, commands, lock, call, task, faults>>
      /\ now' \in 0..Horizon /\ now' >= now
      /\ tournament' \in {"active", "cancelled"}
      /\ tournament' = "cancelled" => lock = NoOne
  BY DraftAssumption DEF Cancel, Tick, Unlocked, draft, IInv, TypeOK, CallsInv
<1>2. TypeOK'
  BY <1>1 DEF IInv, TypeOK
<1>3. LogInv'
  BY <1>1, LogStutters, DraftAssumption DEF IInv
<1>4. RecordsInv'
  BY <1>1 DEF IInv, RecordsInv, Recorded
<1>5. now \in Int /\ now' \in Int
  BY <1>1, DraftAssumption DEF IInv, TypeOK
<1>6. CallsInv'
  <2>1. \A c \in Commands : call[c].at \in Int
    BY DraftAssumption DEF IInv, TypeOK
  <2> QED
    BY <1>1, <1>5, <2>1 DEF IInv, CallsInv, LastAt
<1>7. TasksInv'
  <2>1. \A w \in Workers : task[w].due \in Int
    BY DEF IInv, TypeOK
  <2> QED
    BY <1>1, <1>5, <2>1 DEF IInv, TasksInv, Turn, Completed, Legal, Used
<1> QED
  BY <1>2, <1>3, <1>4, <1>6, <1>7 DEF IInv

LEMMA InitHolds == Init => IInv
<1> SUFFICES ASSUME Init PROVE IInv
  OBVIOUS
<1>1. /\ actions = <<>> /\ commands = <<>> /\ deadline = TurnDuration /\ now = 0
      /\ lock = NoOne /\ tournament = "active" /\ series = Planned /\ faults = 0
      /\ call = [c \in Commands |-> New] /\ task = [w \in Workers |-> Idle]
  BY DEF Init
<1>2. Turns \in Nat \ {0} /\ TurnDuration \in Nat /\ Horizon \in Nat
      /\ MaxFaults \in Nat
  BY DraftRulesAssumption, DraftAssumption
<1>3. ~Completed
  BY <1>1, <1>2 DEF Completed
<1>4. TypeOK
  BY <1>1, <1>2 DEF TypeOK, Planned, New, NoBody, Idle
<1>5. LogInv
  BY <1>1, <1>2, <1>3 DEF LogInv, DeadlineCounts, LastAt, TurnsInTime, Distinct,
     SelectedFromDraft
<1>6. CallsInv /\ RecordsInv /\ TasksInv
  BY <1>1, NamesApart DEF CallsInv, RecordsInv, Recorded, TasksInv, New, Idle
<1> QED
  BY <1>4, <1>5, <1>6 DEF IInv

LEMMA StepHolds == IInv /\ [Next]_vars => IInv'
<1> SUFFICES ASSUME IInv, [Next]_vars PROVE IInv'
  OBVIOUS
<1>1. CASE UNCHANGED vars
  <2>1. /\ UNCHANGED <<now, tournament, series, actions, deadline, commands, lock,
                       call, task, faults>>
    BY <1>1 DEF vars, draft
  <2>2. LogInv'
    BY <2>1, LogStutters, DraftAssumption DEF IInv, TypeOK
  <2> QED
    BY <2>1, <2>2 DEF IInv, TypeOK, CallsInv, RecordsInv, Recorded, TasksInv, LastAt,
       Turn, Completed, Legal, Used
<1>2. CASE Next
  BY <1>2, AnswerStep, DecideStep, BeginStep, WorkerStep, OtherStep
  DEF Next, Client
<1> QED
  BY <1>1, <1>2

\* The invariant holds at the start and is kept by every step.
THEOREM DraftInvariant == Spec => []IInv
BY InitHolds, StepHolds, PTL DEF Spec

-----------------------------------------------------------------------------
(* What follows *)

\* Every variable keeps its type: in particular no draft has more actions than
\* turns, and each has its command.
THEOREM DraftTyped == Spec => []TypeOK
<1>1. IInv => TypeOK
  BY DEF IInv
<1> QED
  BY <1>1, DraftInvariant, PTL

\* Every turn was decided in its own time, and an automatic action takes
\* effect exactly at the deadline (Apply, Resolve, CommitDraftRevisions).
THEOREM TurnsDecidedInTime == Spec => []TurnsInTime
<1>1. IInv => TurnsInTime
  BY DEF IInv, LogInv
<1> QED
  BY <1>1, DraftInvariant, PTL

\* A client is told the truth about its command (ResolveDraftAction).
THEOREM ClientsHearTheTruth == Spec => []AnswersTrue
<1>1. IInv => AnswersTrue
  <2> SUFFICES ASSUME IInv, NEW c \in Commands
               PROVE  LET turns == {i \in DOMAIN commands : commands[i] = c}
                      IN /\ call[c].phase = "done" =>
                              /\ turns = {call[c].body.turn}
                              /\ actions[call[c].body.turn].category =
                                   call[c].body.category
                         /\ call[c].phase = "refused" => turns = {}
    BY DEF AnswersTrue
  <2> QED
    BY DEF IInv, RecordsInv, Recorded
<1> QED
  BY <1>1, DraftInvariant, PTL

\* The series is ready exactly when its last turn has been decided, and its
\* games have distinct categories that nobody banned (deriveSelectedCategories,
\* completeSwissDraft).
THEOREM SeriesReadyWithDraft == Spec => []ReadyWithDraft
<1>1. IInv => ReadyWithDraft
  <2> SUFFICES ASSUME IInv PROVE ReadyWithDraft
    OBVIOUS
  <2>1. CASE ~Completed
    BY <2>1 DEF IInv, LogInv, SelectedFromDraft, Planned, ReadyWithDraft
  <2>2. CASE Completed
    <3> DEFINE n == Turns - Bans + 1
    <3>1. /\ actions \in Seq(ActionType) /\ Len(actions) = Turns
          /\ DOMAIN actions = 1..Turns /\ Turns \in Nat \ {0}
      BY <2>2, LenProperties, DraftRulesAssumption
      DEF IInv, TypeOK, ActionType, Completed
    <3>2. series.state = "ready" /\ series.selected = Selected(actions)
      BY <2>2 DEF IInv, LogInv, SelectedFromDraft
    <3>3. /\ DOMAIN Selected(actions) = 1..n
          /\ \A game \in 1..(Turns - Bans) :
               Selected(actions)[game] = actions[Bans + game].category
          /\ n > 0 => \A i \in DOMAIN actions :
               actions[i].category # Selected(actions)[n]
      BY <3>1, SelectedType
    <3>4. \A i, j \in DOMAIN actions :
            actions[i].category = actions[j].category => i = j
      BY DEF IInv, LogInv, Distinct
    <3>5. \A i, j \in 1..n : Selected(actions)[i] = Selected(actions)[j] => i = j
      <4> SUFFICES ASSUME NEW i \in 1..n, NEW j \in 1..n, i < j
                   PROVE  Selected(actions)[i] # Selected(actions)[j]
        BY <3>1
      <4>1. /\ i \in 1..(Turns - Bans) /\ Bans + i \in DOMAIN actions /\ n > 0
            /\ j = n \/ j \in 1..(Turns - Bans)
        BY <3>1 DEF Bans
      <4>2. CASE j = n
        BY <3>1, <3>3, <4>1, <4>2 DEF Bans
      <4>3. CASE j # n
        <5>1. Bans + j \in DOMAIN actions /\ j \in 1..(Turns - Bans)
              /\ Bans + i # Bans + j
          BY <3>1, <4>3 DEF Bans
        <5>2. Bans + i \in DOMAIN actions /\ i \in 1..(Turns - Bans)
          BY <3>1 DEF Bans
        <5> QED
          BY <3>3, <3>4, <5>1, <5>2
      <4> QED
        BY <4>2, <4>3
    <3>6. \A i \in 1..Bans, j \in 1..n : actions[i].category # Selected(actions)[j]
      <4> SUFFICES ASSUME NEW i \in 1..Bans, NEW j \in 1..n
                   PROVE  actions[i].category # Selected(actions)[j]
        OBVIOUS
      <4>1. i \in DOMAIN actions /\ n > 0
        BY <3>1 DEF Bans
      <4> QED
        BY <3>1, <3>3, <3>4, <4>1 DEF Bans
    <3> HIDE DEF n
    <3> QED
      BY <2>2, <3>2, <3>3, <3>5, <3>6 DEF ReadyWithDraft
  <2> QED
    BY <2>1, <2>2
<1> QED
  BY <1>1, DraftInvariant, PTL

-----------------------------------------------------------------------------
(* The rules of the domain *)

\* A step of the draft is a step of the rules, or leaves the draft alone.
LEMMA StepFollowsRules ==
  ASSUME IInv, [Next]_vars
  PROVE  [RulesNext]_draft
<1>1. ASSUME NEW c \in Commands, Decides(c),
             AppendRevision(Action(call[c].body.category, call[c].at), Turn, c)
      PROVE  RulesNext
  <2>1. ~Completed /\ call[c].body.category \in Legal
        /\ call[c].at <= deadline /\ call[c].at \in 0..Horizon
    BY <1>1 DEF Decides, Acceptable, IInv, TypeOK
  <2>2. call[c].at \in 0..deadline /\ call[c].body.category \in Pool
    BY <2>1, DraftAssumption DEF Legal, IInv, TypeOK
  <2>3. Apply(call[c].body.category, call[c].at)
    BY <1>1, <2>1 DEF Apply, AppendRevision, Action
  <2> QED
    BY <2>2, <2>3 DEF RulesNext
<1>2. ASSUME NEW w \in Workers, task[w].phase = "built", Matches(w),
             AppendRevision(Built(w), task[w].turn, Timeout)
      PROVE  RulesNext
  <2>1. /\ Built(w) = Action(task[w].category, deadline)
        /\ task[w].turn = Turn /\ task[w].category \in Legal /\ ~Completed
    BY <1>2, BuiltIsLegal
  <2>2. deadline \in 0..deadline /\ task[w].category \in Pool
    BY <2>1 DEF IInv, TypeOK, Legal
  <2>3. Apply(task[w].category, deadline)
    BY <1>2, <2>1 DEF Apply, AppendRevision, Action
  <2> QED
    BY <2>2, <2>3 DEF RulesNext
<1>3. ASSUME NEW c \in Commands, Client(c)
      PROVE  [RulesNext]_draft
  BY <1>1, <1>3 DEF Client, Begin, Stale, Reconcile, Act, ActUnheard, CallFails, draft
<1>4. ASSUME NEW w \in Workers, Worker(w) \/ ExpireUnheard(w) \/ GiveUp(w)
      PROVE  [RulesNext]_draft
  BY <1>2, <1>4 DEF Worker, Scan, Resolve, Expire, ExpireUnheard, GiveUp
<1>5. CASE Cancel \/ Tick \/ UNCHANGED vars
  BY <1>5 DEF Cancel, Tick, vars, draft
<1> QED
  BY <1>3, <1>4, <1>5 DEF Next

\* Players, workers and transactions together implement the rules of the
\* domain (ApplyAction, ExpireTurn).
THEOREM DraftImplementsRules == Spec => FollowsRules
<1>1. Init => RulesInit
  BY DraftRulesAssumption DEF Init, RulesInit
<1>2. IInv /\ [Next]_vars => [RulesNext]_draft
  BY StepFollowsRules
<1> QED
  BY <1>1, <1>2, DraftInvariant, PTL DEF Spec, FollowsRules, RulesSpec

\* A cancelled tournament keeps the draft and the series as they were
\* (lockTournament, InScope of the commit).
THEOREM CancellationIsFinal == Spec => CancelledIsFinal
<1> DEFINE Kept == tournament = "cancelled" => UNCHANGED <<actions, series>>
<1>1. IInv /\ [Next]_vars => [Kept]_vars
  <2> SUFFICES ASSUME IInv, Next, tournament = "cancelled"
               PROVE  UNCHANGED <<actions, series>>
    OBVIOUS
  <2>1. lock = NoOne /\ \A c \in Commands : call[c].phase # "working"
    BY NamesApart DEF IInv, CallsInv
  <2>2. \A w \in Workers : ~Matches(w)
    BY DEF Matches, InScope
  <2>3. ASSUME NEW c \in Commands, Client(c)
        PROVE  UNCHANGED <<actions, series>>
    BY <2>1, <2>3 DEF Client, Begin, Stale, Reconcile, Act, ActUnheard, Decides,
       CallFails, draft
  <2>4. ASSUME NEW w \in Workers, Worker(w) \/ ExpireUnheard(w) \/ GiveUp(w)
        PROVE  UNCHANGED <<actions, series>>
    BY <2>2, <2>4 DEF Worker, Scan, Resolve, Expire, ExpireUnheard, GiveUp, draft
  <2>5. CASE Cancel \/ Tick
    BY <2>5 DEF Cancel, Tick, draft
  <2> QED
    BY <2>3, <2>4, <2>5 DEF Next
<1> QED
  BY <1>1, DraftInvariant, PTL DEF Spec, CancelledIsFinal
=============================================================================
