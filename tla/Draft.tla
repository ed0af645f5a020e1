------------------------------- MODULE Draft -------------------------------
(***************************************************************************)
(* The draft of one series, run by its two participants and by the        *)
(* deadline workers of the service processes.                             *)
(*                                                                         *)
(* A participant's command is one transaction: it locks the tournament,   *)
(* looks for the command in the revisions of the draft, checks what the   *)
(* client expects, reads the clock and appends a revision.  It keeps the   *)
(* lock from the reading of the clock to the commit.  A deadline worker    *)
(* scans for drafts that are due, reads the draft and builds the automatic *)
(* action outside any transaction, and takes the lock only to append it,  *)
(* where the scope and the expected revision are checked again.  The      *)
(* transaction that appends the last action also makes the series ready.  *)
(*                                                                         *)
(* A revision is appended for each action and for nothing else, so the    *)
(* number of the current revision is that of the current turn.            *)
(***************************************************************************)
EXTENDS DraftRules

CONSTANTS
  Commands,   \* Commands of the participants' clients.
  Workers,    \* Deadline workers, one in each service process.
  Horizon,    \* Bound on the clock.
  MaxFaults   \* Bound on failed transactions, lost replies and crashes.

ASSUME DraftAssumption ==
  /\ Commands \cap Workers = {}
  /\ {"timeout", "none"} \cap (Commands \cup Workers) = {}
  /\ Horizon \in Nat /\ Horizon >= Turns * TurnDuration
  /\ MaxFaults \in Nat

NoOne == "none"
Timeout == "timeout"

VARIABLES
  now,         \* The clock.
  tournament,  \* Durable: "active" or "cancelled".
  series,      \* Durable: "planned", or "ready" with the selected categories.
  commands,    \* Durable: the command that decided each turn.
  lock,        \* The command or worker that holds the tournament's row.
  call,        \* The call of each client command.
  task,        \* What each deadline worker is doing.
  faults       \* Bound: the faults so far.

vars == <<now, tournament, series, actions, deadline, commands, lock, call,
          task, faults>>

Planned == [state |-> "planned", selected |-> <<>>]

Idle == [phase |-> "idle", turn |-> 0, due |-> 0, category |-> NoOne]

\* What a client asks for: it names the turn it believes to be the current
\* one, and with it the revision.
Body == [actor : {"first", "second"}, turn : 1..Turns, category : Pool]
NoBody == [actor |-> NoOne, turn |-> 0, category |-> NoOne]
New == [phase |-> "new", body |-> NoBody, at |-> 0]

----------------------------------------------------------------------------
(* The transaction that appends an action.                                  *)

\* deriveSelectedCategories: the picks in their order, then what is left.
Selected(log) ==
  [game \in 1..(Turns - Bans + 1) |->
     IF game <= Turns - Bans
     THEN log[Bans + game].category
     ELSE CHOOSE category \in Pool :
            \A i \in DOMAIN log : log[i].category # category]

\* Mutant: the turn is looked at before it is appended.
CompleteLate ==
  series' = IF Completed
            THEN [state |-> "ready", selected |-> Selected(actions)]
            ELSE series

\* completeSwissDraft and ActivateFinalAfterDraft: with the last action the
\* games of the series are created and the series becomes ready.
Complete ==
  series' = IF Len(actions') = Turns
            THEN [state |-> "ready", selected |-> Selected(actions')]
            ELSE series

\* AppendDraftRevisionCAS stores the revision as it was built, with the
\* deadline of the next turn: it decides nothing about the action in it.
AppendRevision(action, turn, command) ==
  /\ actions' = Append(actions, action)
  /\ deadline' = IF turn = Turns THEN 0 ELSE action.at + TurnDuration
  /\ commands' = Append(commands, command)
  /\ Complete

Unlocked == lock = NoOne

Fault ==
  /\ faults < MaxFaults
  /\ faults' = faults + 1

----------------------------------------------------------------------------
(* A participant's command.                                                 *)

\* Mutant: a repeated command is not looked for.
RecordedNever(c) == FALSE

Recorded(c) == \E i \in DOMAIN commands : commands[i] = c

\* draftExpectationMatches and ApplyAction: what the command must satisfy,
\* with the time that the transaction has read.
Acceptable(c) ==
  LET body == call[c].body
  IN /\ ~Completed
     /\ body.turn = Turn
     /\ body.actor = Actor(Turn)
     /\ call[c].at <= deadline
     /\ body.category \in Legal

Answer(c, phase) ==
  /\ call' = [call EXCEPT ![c] =
       [phase |-> phase, at |-> 0,
        body |-> IF phase = "refused" THEN NoBody ELSE call[c].body]]
  /\ lock' = NoOne
  /\ UNCHANGED <<now, tournament, task>>

\* What a call asks for: anything the first time, the same when a call that
\* failed is repeated.
Asked(c) == IF call[c].phase = "new" THEN Body ELSE {call[c].body}

Called(c) ==
  /\ call[c].phase \in {"new", "failed"}
  /\ Unlocked

\* ResolveDraftAction and Apply: the transaction takes the lock and reads the
\* draft and the clock.
Begin(c) ==
  /\ Called(c)
  /\ tournament = "active"
  /\ \E body \in Asked(c) :
       call' = [call EXCEPT ![c] = [phase |-> "working", body |-> body,
                                    at |-> now]]
  /\ lock' = c
  /\ UNCHANGED <<now, tournament, series, draft, commands, task, faults>>

\* validateParticipantAuthorityRevision: the tournament has been cancelled, or
\* one of its other series has published a projection the client has not seen.
\* This comes before the search for the command, so a repeated call may hear
\* it although the first one was recorded.
Stale(c) ==
  /\ Called(c)
  /\ call' = [call EXCEPT ![c] = [New EXCEPT !.phase = "stale"]]
  /\ UNCHANGED <<now, tournament, series, draft, commands, lock, task, faults>>

\* The command is answered with the revision it recorded before, or is
\* refused: in neither case is anything written.
Reconcile(c) ==
  /\ call[c].phase = "working"
  /\ \/ Recorded(c) /\ Answer(c, "done")
     \/ ~Recorded(c) /\ ~Acceptable(c) /\ Answer(c, "refused")
  /\ UNCHANGED <<series, draft, commands, faults>>

Decides(c) ==
  /\ call[c].phase = "working"
  /\ ~Recorded(c)
  /\ Acceptable(c)

Act(c) ==
  /\ Decides(c)
  /\ AppendRevision(Action(call[c].body.category, call[c].at), Turn, c)
  /\ Answer(c, "done")
  /\ UNCHANGED faults

\* The reply of the commit is lost: the client sees an error.
ActUnheard(c) ==
  /\ Decides(c)
  /\ AppendRevision(Action(call[c].body.category, call[c].at), Turn, c)
  /\ Answer(c, "failed")
  /\ Fault

\* The transaction rolls back.
CallFails(c) ==
  /\ call[c].phase = "working"
  /\ Answer(c, "failed")
  /\ Fault
  /\ UNCHANGED <<series, draft, commands>>

----------------------------------------------------------------------------
(* A deadline worker.                                                       *)

\* Mutant: an automatic action is committed into a cancelled tournament.
InScopeUnlessReady == series.state = "planned" /\ ~Completed

\* The scope that the due scan and the commit require: a draft still to be
\* completed, in a series still planned, in a tournament that is not stopped.
InScope ==
  /\ tournament = "active"
  /\ series.state = "planned"
  /\ ~Completed

Work(w, next) ==
  /\ task' = [task EXCEPT ![w] = next]
  /\ UNCHANGED <<now, tournament, lock, call>>

\* Mutant: a deadline that passed unnoticed is not due any more.
ScanOnTime(w) ==
  /\ task[w].phase = "idle"
  /\ InScope
  /\ deadline = now
  /\ Work(w, [Idle EXCEPT !.phase = "due", !.turn = Turn, !.due = deadline])
  /\ UNCHANGED <<series, draft, commands, faults>>

\* ListDueSwissDrafts: a snapshot of the draft, taken without a lock.
Scan(w) ==
  /\ task[w].phase = "idle"
  /\ InScope
  /\ deadline <= now
  /\ Work(w, [Idle EXCEPT !.phase = "due", !.turn = Turn, !.due = deadline])
  /\ UNCHANGED <<series, draft, commands, faults>>

\* Resolve, up to the commit: the draft is read again, and an automatic action
\* with one of its legal categories is built if it is still in the turn of the
\* snapshot.
Resolve(w) ==
  /\ task[w].phase = "due"
  /\ IF ~Completed /\ Turn = task[w].turn /\ deadline = task[w].due
     THEN \E category \in Legal :
            Work(w, [task[w] EXCEPT !.phase = "built", !.category = category])
     ELSE Work(w, Idle)
  /\ UNCHANGED <<series, draft, commands, faults>>

\* Mutant: a late automatic action takes effect when it is committed.
BuiltNow(w) ==
  [actor |-> Actor(task[w].turn), category |-> task[w].category,
   due |-> task[w].due, at |-> now]

\* The automatic action takes effect at the deadline it was built for.
Built(w) ==
  [actor |-> Actor(task[w].turn), category |-> task[w].category,
   due |-> task[w].due, at |-> task[w].due]

\* Mutant: the commit does not compare the revision.
MatchesAny(w) == InScope

\* The commit finds the revision that the automatic action was built on.
Matches(w) ==
  /\ InScope
  /\ Turn = task[w].turn

\* CommitDraftRevisions, however late it is.  A conflict is left to the next scan.
Expire(w) ==
  /\ task[w].phase = "built"
  /\ Unlocked
  /\ IF Matches(w)
     THEN AppendRevision(Built(w), task[w].turn, Timeout)
     ELSE UNCHANGED <<series, draft, commands>>
  /\ Work(w, Idle)
  /\ UNCHANGED faults

\* The reply of the commit is lost: the next scan starts over.
ExpireUnheard(w) ==
  /\ task[w].phase = "built"
  /\ Unlocked
  /\ Matches(w)
  /\ AppendRevision(Built(w), task[w].turn, Timeout)
  /\ Work(w, Idle)
  /\ Fault

\* A query fails, the transaction rolls back or the process is restarted.
GiveUp(w) ==
  /\ task[w].phase # "idle"
  /\ Work(w, Idle)
  /\ Fault
  /\ UNCHANGED <<series, draft, commands>>

----------------------------------------------------------------------------
\* An operator cancels the tournament, in a transaction that locks it.
Cancel ==
  /\ Unlocked
  /\ tournament = "active"
  /\ tournament' = "cancelled"
  /\ UNCHANGED <<now, series, draft, commands, lock, call, task, faults>>

Tick ==
  /\ now < Horizon
  /\ now' = now + 1
  /\ UNCHANGED <<tournament, series, draft, commands, lock, call, task, faults>>

\* StartExecution.
Init ==
  /\ now = 0
  /\ tournament = "active"
  /\ series = Planned
  /\ actions = <<>>
  /\ deadline = TurnDuration
  /\ commands = <<>>
  /\ lock = NoOne
  /\ call = [c \in Commands |-> New]
  /\ task = [w \in Workers |-> Idle]
  /\ faults = 0

Client(c) ==
  \/ Begin(c) \/ Stale(c) \/ Reconcile(c) \/ Act(c) \/ ActUnheard(c)
  \/ CallFails(c)

Worker(w) == Scan(w) \/ Resolve(w) \/ Expire(w)

Next ==
  \/ \E c \in Commands : Client(c)
  \/ \E w \in Workers : Worker(w) \/ ExpireUnheard(w) \/ GiveUp(w)
  \/ Cancel
  \/ Tick

Spec == Init /\ [][Next]_vars

\* Time passes, a transaction ends, and each worker polls: a failed pass is
\* followed by another after a bounded wait.
Fairness ==
  /\ WF_vars(Tick)
  /\ \A c \in Commands : WF_vars(Reconcile(c) \/ Act(c))
  /\ \A w \in Workers : WF_vars(Worker(w))

FairSpec == Spec /\ Fairness

----------------------------------------------------------------------------
TypeOK ==
  /\ now \in 0..Horizon
  /\ tournament \in {"active", "cancelled"}
  /\ series \in [state : {"planned", "ready"}, selected : Seq(Pool)]
  /\ Len(actions) <= Turns /\ Len(commands) = Len(actions)
  /\ actions \in Seq([actor : {"first", "second"}, category : Pool,
                      due : Nat, at : Nat])
  /\ deadline \in Nat
  /\ commands \in Seq(Commands \cup {Timeout})
  /\ lock \in Commands \cup {NoOne}
  /\ call \in [Commands ->
       [phase : {"new", "working", "failed", "stale", "done",
                "refused"},
        body : Body \cup {NoBody}, at : 0..Horizon]]
  /\ task \in [Workers ->
       [phase : {"idle", "due", "built"}, turn : 0..Turns, due : Nat,
        category : Pool \cup {NoOne}]]
  /\ faults \in 0..MaxFaults

\* Every turn was decided in its own time and after the turn before it: an
\* action of a participant in between, an automatic one exactly at the
\* deadline, and none before the clock had reached it.  The workers decide
\* from a snapshot that any of the other actors can make stale.
TurnsInTime ==
  \A i \in DOMAIN actions :
    /\ actions[i].due = TurnDuration + (IF i = 1 THEN 0 ELSE actions[i - 1].at)
    /\ actions[i].at <= actions[i].due /\ actions[i].at <= now
    /\ i > 1 => actions[i - 1].at <= actions[i].at
    /\ commands[i] = Timeout => actions[i].at = actions[i].due

\* A client was told the truth, whatever became of its earlier calls: an
\* accepted command decided the turn it named with its category, exactly
\* once, and a refused one decided nothing, even if an earlier call with the
\* same command was cut off.
AnswersTrue ==
  \A c \in Commands :
    LET turns == {i \in DOMAIN commands : commands[i] = c}
    IN /\ call[c].phase = "done" =>
            /\ turns = {call[c].body.turn}
            /\ actions[call[c].body.turn].category = call[c].body.category
       /\ call[c].phase = "refused" => turns = {}

\* The series is ready exactly when the last turn has been decided, whoever
\* decided it, and its games have distinct categories that nobody banned.
ReadyWithDraft ==
  /\ Completed <=> series.state = "ready"
  /\ Completed =>
       /\ \A i, j \in DOMAIN series.selected :
            series.selected[i] = series.selected[j] => i = j
       /\ \A i \in 1..Bans, j \in DOMAIN series.selected :
            actions[i].category # series.selected[j]

\* A cancelled tournament keeps the draft and the series as they were: no
\* transaction that was under way reaches them.
CancelledIsFinal ==
  [][tournament = "cancelled" => UNCHANGED <<actions, series>>]_vars

\* Players, workers and transactions together do nothing that the rules of
\* the domain do not allow.
FollowsRules == RulesSpec

\* A draft is completed even if nobody plays it, unless it is cancelled.
DraftEnds == []<>(Completed \/ tournament = "cancelled")
=============================================================================
