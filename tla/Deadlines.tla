----------------------------- MODULE Deadlines -----------------------------
(***************************************************************************)
(* Durable deadlines and the process-local timers that serve them.        *)
(*                                                                         *)
(* A running game, an open ready window and an open reconnect interval    *)
(* are rows of PostgreSQL with a revision and a due time.  Every process   *)
(* runs a scheduler goroutine that owns a map of armed timers, a worker    *)
(* that sweeps the pending rows page by page and arms each of them, and,   *)
(* in the process that owns the tournament, an execution recovery runner   *)
(* that arms running games from inside a transaction that has locked the   *)
(* tournament.  Arming is a call: the caller puts a command into a bounded *)
(* channel and waits for the reply of the scheduler, which answers no      *)
(* command while it handles the timers that are due.                       *)
(*                                                                         *)
(* One tournament is modelled.  A row is written only by transactions that *)
(* compare its revision, so a write is one step.  The lock of a row of     *)
(* tournaments is kept explicitly, for the one transaction that waits for  *)
(* another goroutine while it holds it.                                    *)
(***************************************************************************)
EXTENDS Integers, Sequences, FiniteSets

CONSTANTS
  Procs,        \* Service processes.
  Runners,      \* Those whose controller owns the tournament.
  Deadlines,    \* Deadline ids, numbers in the order of the sweep's cursor.
  Games,        \* The deadlines that are running games; the others are windows.
  PageSize,     \* Rows of one sweep.
  Buffer,       \* Capacity of the scheduler's command channel.
  Duration,     \* Time a deadline is given.
  RetryAfter,   \* Wait after a failed handler call.
  Horizon,      \* Bound: no deadline is due later.
  MaxTime,      \* Bound on the clock.
  MaxWrites,    \* Bound on the writes of players and operators.
  MaxFaults     \* Bound on crashes, failed calls and timeouts.

ASSUME DeadlinesAssumption ==
  /\ Runners \subseteq Procs /\ "none" \notin Procs
  /\ Deadlines \subseteq Nat \ {0} /\ IsFiniteSet(Deadlines)
  /\ Games \subseteq Deadlines
  /\ {PageSize, Buffer, Duration, RetryAfter} \subseteq Nat \ {0}
  /\ {Horizon, MaxTime, MaxWrites, MaxFaults} \subseteq Nat
  /\ Horizon <= MaxTime

NoProc == "none"

VARIABLES
  now,       \* The clock.
  row,       \* Durable: the state, revision and due time of each deadline.
  receipts,  \* Durable: the (deadline, revision) pairs a handler has settled.
  writes,    \* Bound: the writes of players and operators so far.
  lock,      \* The process whose recovery transaction locks the tournament.
  up,        \* Whether a process runs.
  armed,     \* The timers of a scheduler.
  batch,     \* The due timers its handler loop has still to handle.
  commands,  \* Its command channel.
  sweep,     \* The sweep worker of a process.
  runner,    \* The recovery runner of a process.
  known,     \* History: the revisions that were pending when a process started.
  faults     \* Bound: the faults so far.

durable == <<row, receipts, writes>>
scheduler == <<armed, batch, commands>>
vars == <<now, durable, lock, up, scheduler, sweep, runner, known, faults>>

Pending == {d \in Deadlines : row[d].state = "pending"}

\* PendingDeadline: what a listing of the row returns, with its id.
Listed(d) == [id |-> d, rev |-> row[d].rev, due |-> row[d].due]

\* The row still says what was listed.
Current(item) == item.id \in Pending /\ Listed(item.id) = item

\* A row that a transaction writes is not locked by the recovery runner.
Writable(d) == d \in Games => lock = NoProc

Idle == [phase |-> "idle", cursor |-> 0, todo |-> {}, last |-> 0,
         complete |-> FALSE, initial |-> FALSE]
AtRest == [phase |-> "idle", id |-> 0]

----------------------------------------------------------------------------
(* Commands that write the rows.                                           *)

\* Mutant: an update that forgets the revision.
WriteSameRevision(d, state, due) ==
  /\ writes < MaxWrites /\ writes' = writes + 1
  /\ row' = [row EXCEPT ![d] = [state |-> state, rev |-> @.rev, due |-> due]]
  /\ UNCHANGED <<now, receipts, lock, up, scheduler, sweep, runner, known, faults>>

Write(d, state, due) ==
  /\ writes < MaxWrites /\ writes' = writes + 1
  /\ row' = [row EXCEPT ![d] = [state |-> state, rev |-> @.rev + 1, due |-> due]]
  /\ UNCHANGED <<now, receipts, lock, up, scheduler, sweep, runner, known, faults>>

\* A wave starts its games, a ready window opens.
Start(d) ==
  /\ row[d].state = "new" /\ now + Duration <= Horizon
  /\ Write(d, "pending", now + Duration)

\* A pause freezes a game or a ready window: due keeps the time that is left.
Suspend(d) ==
  /\ d \in Pending /\ Writable(d) /\ now < row[d].due
  /\ Write(d, "paused", row[d].due - now)

Resume(d) ==
  /\ row[d].state = "paused" /\ Writable(d) /\ now + row[d].due <= Horizon
  /\ Write(d, "pending", now + row[d].due)

\* A participant is ready and others are not: the wave has a new revision,
\* its ready window the deadline it had.
Ready(d) == d \in Pending \ Games /\ Write(d, "pending", row[d].due)

\* A flag, a forfeit, the last participant ready: the row is settled in time.
Finish(d) == d \in Pending /\ Writable(d) /\ Write(d, "settled", row[d].due)

----------------------------------------------------------------------------
(* The scheduler goroutine.                                                *)

\* Equal when due, ordered by kind and id.
Before(s, t) == s.next < t.next \/ (s.next = t.next /\ s.item.id <= t.item.id)
FirstOf(timers) == CHOOSE t \in timers : \A u \in timers : Before(t, u)

TimerOf(p, d) == {t \in armed[p] : t.item.id = d}

\* registerDeadline: a newer revision replaces the timer, and two due times of
\* one revision are a conflict.
Register(p, item) ==
  LET old == TimerOf(p, item.id)
  IN IF \A t \in old : t.item.rev < item.rev
     THEN (armed[p] \ old) \cup {[item |-> item, next |-> item.due]}
     ELSE armed[p]

Conflicts(p, item) ==
  \E t \in TimerOf(p, item.id) : t.item.rev = item.rev /\ t.item # item

\* Run: one command is registered and its caller answered.  A sweep whose call
\* fails ends; the recovery runner's transaction ends with the call.
Receive(p) ==
  /\ up[p] /\ batch[p] = {} /\ commands[p] # <<>>
  /\ LET command == Head(commands[p]) IN
       /\ commands' = [commands EXCEPT ![p] = Tail(@)]
       /\ armed' = [armed EXCEPT ![p] = Register(p, command.item)]
       /\ sweep' = IF command.from # "sweep" THEN sweep ELSE
            [sweep EXCEPT ![p] =
               IF Conflicts(p, command.item) THEN [@ EXCEPT !.phase = "idle"]
               ELSE [@ EXCEPT !.phase = "rearming",
                              !.todo = sweep[p].todo \ {command.item}]]
       /\ runner' = IF command.from # "runner" THEN runner ELSE
            [runner EXCEPT ![p] = AtRest]
       /\ lock' = IF command.from # "runner" THEN lock ELSE NoProc
  /\ UNCHANGED <<now, durable, up, batch, known, faults>>

\* Run: the timer of the earliest deadline goes off; handleDue collects
\* everything that is due.
Fire(p) ==
  /\ up[p] /\ batch[p] = {}
  /\ \E t \in armed[p] : t.next <= now
  /\ batch' = [batch EXCEPT ![p] = {t \in armed[p] : t.next <= now}]
  /\ UNCHANGED <<now, durable, lock, up, armed, commands, sweep, runner, known, faults>>

\* handleDue after a call that returned no error: the timer is dropped.
Handled(p, t) ==
  /\ batch' = [batch EXCEPT ![p] = @ \ {t}]
  /\ armed' = [armed EXCEPT ![p] = @ \ TimerOf(p, t.item.id)]

\* handleDue after an error: the timer goes off again a moment later (bound:
\* while the clock has that moment).
Retried(p, t) ==
  /\ now + RetryAfter <= MaxTime
  /\ batch' = [batch EXCEPT ![p] = @ \ {t}]
  /\ armed' = [armed EXCEPT ![p] = (@ \ TimerOf(p, t.item.id)) \cup
                  {[t EXCEPT !.next = now + RetryAfter]}]

Receipt(item) == <<item.id, item.rev>>

\* Mutant: the row is looked up by its id alone.
LoadAnyRevision(item) == item.id \in Pending

\* loadTerminalSnapshot finds the row the timer was armed for.
LoadMatches(item) ==
  /\ item.id \in Pending
  /\ row[item.id].rev = item.rev /\ row[item.id].due = item.due

Settle(item) ==
  /\ row' = [row EXCEPT ![item.id].state = "settled", ![item.id].rev = @ + 1]
  /\ receipts' = receipts \cup {Receipt(item)}
  /\ UNCHANGED writes

NextDue(p) == FirstOf(batch[p])

\* A receipt of the same revision: nothing to do, and no lock was needed.
HandleKnown(p) ==
  /\ batch[p] # {} /\ Receipt(NextDue(p).item) \in receipts
  /\ Handled(p, NextDue(p))
  /\ UNCHANGED <<now, durable, lock, up, commands, sweep, runner, known, faults>>

\* The tournament is locked, and the row is no longer the one of the timer.
HandleStale(p) ==
  /\ batch[p] # {} /\ lock = NoProc
  /\ Receipt(NextDue(p).item) \notin receipts /\ ~ LoadMatches(NextDue(p).item)
  /\ Handled(p, NextDue(p))
  /\ UNCHANGED <<now, durable, lock, up, commands, sweep, runner, known, faults>>

CanSettle(p) ==
  /\ batch[p] # {} /\ lock = NoProc /\ NextDue(p).item.due <= now
  /\ Receipt(NextDue(p).item) \notin receipts /\ LoadMatches(NextDue(p).item)

HandleDeadline(p) ==
  /\ CanSettle(p) /\ Settle(NextDue(p).item) /\ Handled(p, NextDue(p))
  /\ UNCHANGED <<now, lock, up, commands, sweep, runner, known, faults>>

Fault == faults < MaxFaults /\ faults' = faults + 1

\* The transaction commits and its reply is lost.
HandleUnanswered(p) ==
  /\ Fault /\ CanSettle(p) /\ Settle(NextDue(p).item) /\ Retried(p, NextDue(p))
  /\ UNCHANGED <<now, lock, up, commands, sweep, runner, known>>

\* The transaction fails, perhaps while it waits for the lock.
HandleFails(p) ==
  /\ Fault /\ batch[p] # {} /\ Retried(p, NextDue(p))
  /\ UNCHANGED <<now, durable, lock, up, commands, sweep, runner, known>>

----------------------------------------------------------------------------
(* Arming: a call from another goroutine of the process.                   *)

\* Mutant: the channel has no bound.
CanSendAlways(p) == TRUE

CanSend(p) == Len(commands[p]) < Buffer

Send(p, from, item) ==
  commands' = [commands EXCEPT ![p] = Append(@, [from |-> from, item |-> item])]

\* ListPendingDeadlines: the first rows after the cursor.
Page(after) ==
  {d \in Pending : d > after
     /\ Cardinality({e \in Pending : after < e /\ e <= d}) <= PageSize}

SweepList(p) ==
  LET page == Page(sweep[p].cursor) IN
  /\ up[p] /\ sweep[p].phase = "idle"
  /\ sweep' = [sweep EXCEPT ![p] =
       [@ EXCEPT !.phase = "rearming", !.todo = {Listed(d) : d \in page},
                 !.complete = Cardinality(page) < PageSize,
                 !.last = IF page = {} THEN 0
                          ELSE CHOOSE d \in page : \A e \in page : e <= d]]
  /\ UNCHANGED <<now, durable, lock, up, scheduler, runner, known, faults>>

NextListed(p) ==
  CHOOSE item \in sweep[p].todo : \A other \in sweep[p].todo : item.id <= other.id

\* RearmDeadline reloads the row: one that has changed is skipped ...
SweepSkip(p) ==
  /\ sweep[p].phase = "rearming" /\ sweep[p].todo # {} /\ ~ Current(NextListed(p))
  /\ sweep' = [sweep EXCEPT ![p].todo = @ \ {NextListed(p)}]
  /\ UNCHANGED <<now, durable, lock, up, scheduler, runner, known, faults>>

\* ... and any other is armed.  The row may change before the command arrives.
SweepReload(p) ==
  /\ sweep[p].phase = "rearming" /\ sweep[p].todo # {} /\ Current(NextListed(p))
  /\ sweep' = [sweep EXCEPT ![p].phase = "sending"]
  /\ UNCHANGED <<now, durable, lock, up, scheduler, runner, known, faults>>

SweepSend(p) ==
  /\ sweep[p].phase = "sending" /\ CanSend(p)
  /\ Send(p, "sweep", NextListed(p))
  /\ sweep' = [sweep EXCEPT ![p].phase = "waiting"]
  /\ UNCHANGED <<now, durable, lock, up, armed, batch, runner, known, faults>>

\* Mutant: the last page does not put the cursor back to the start.
RecordedOnward(s) ==
  [s EXCEPT !.phase = "idle", !.cursor = IF s.last = 0 THEN s.cursor ELSE s.last,
            !.initial = s.initial \/ s.complete]

\* Mutant: the first page completes the initial sweep.
RecordedEarly(s) ==
  [s EXCEPT !.phase = "idle", !.cursor = IF s.complete THEN 0 ELSE s.last,
            !.initial = TRUE]

\* recordSweep after a sweep without an error.
Recorded(s) ==
  [s EXCEPT !.phase = "idle", !.cursor = IF s.complete THEN 0 ELSE s.last,
            !.initial = s.initial \/ s.complete]

SweepDone(p) ==
  /\ sweep[p].phase = "rearming" /\ sweep[p].todo = {}
  /\ sweep' = [sweep EXCEPT ![p] = Recorded(@)]
  /\ UNCHANGED <<now, durable, lock, up, scheduler, runner, known, faults>>

\* The sweep's context times out or a query fails: the cursor stays, and
\* nobody waits for the reply of a command already sent.
SweepFails(p) ==
  /\ Fault /\ sweep[p].phase # "idle"
  /\ sweep' = [sweep EXCEPT ![p].phase = "idle"]
  /\ commands' = [commands EXCEPT ![p] =
       [i \in DOMAIN @ |->
          IF @[i].from = "sweep" THEN [@[i] EXCEPT !.from = "nobody"] ELSE @[i]]]
  /\ UNCHANGED <<now, durable, lock, up, armed, batch, runner, known>>

\* RearmDeadline of the execution recovery: the transaction locks the
\* tournament and the game, and calls the scheduler before it ends.
RunnerLock(p, d) ==
  /\ p \in Runners /\ up[p] /\ runner[p] = AtRest
  /\ lock = NoProc /\ d \in Games \cap Pending
  /\ lock' = p
  /\ runner' = [runner EXCEPT ![p] = [phase |-> "sending", id |-> d]]
  /\ UNCHANGED <<now, durable, up, scheduler, sweep, known, faults>>

RunnerSend(p) ==
  /\ runner[p].phase = "sending" /\ CanSend(p)
  /\ Send(p, "runner", Listed(runner[p].id))
  /\ runner' = [runner EXCEPT ![p].phase = "waiting"]
  /\ UNCHANGED <<now, durable, lock, up, armed, batch, sweep, known, faults>>

----------------------------------------------------------------------------
(* Processes and the clock.                                                *)

PendingRevisions == [d \in Deadlines |-> IF d \in Pending THEN row[d].rev ELSE 0]

Crash(p) ==
  /\ Fault /\ up[p]
  /\ up' = [up EXCEPT ![p] = FALSE]
  /\ armed' = [armed EXCEPT ![p] = {}]
  /\ batch' = [batch EXCEPT ![p] = {}]
  /\ commands' = [commands EXCEPT ![p] = <<>>]
  /\ sweep' = [sweep EXCEPT ![p] = Idle]
  /\ runner' = [runner EXCEPT ![p] = AtRest]
  /\ lock' = IF lock = p THEN NoProc ELSE lock
  /\ UNCHANGED <<now, durable, known>>

Restart(p) ==
  /\ ~ up[p]
  /\ up' = [up EXCEPT ![p] = TRUE]
  /\ known' = [known EXCEPT ![p] = PendingRevisions]
  /\ UNCHANGED <<now, durable, lock, scheduler, sweep, runner, faults>>

Tick ==
  /\ now < MaxTime /\ now' = now + 1
  /\ UNCHANGED <<durable, lock, up, scheduler, sweep, runner, known, faults>>

----------------------------------------------------------------------------

Init ==
  /\ now = 0
  /\ row = [d \in Deadlines |-> [state |-> "new", rev |-> 1, due |-> 0]]
  /\ receipts = {} /\ writes = 0 /\ lock = NoProc
  /\ up = [p \in Procs |-> TRUE]
  /\ armed = [p \in Procs |-> {}]
  /\ batch = [p \in Procs |-> {}]
  /\ commands = [p \in Procs |-> <<>>]
  /\ sweep = [p \in Procs |-> Idle]
  /\ runner = [p \in Procs |-> AtRest]
  /\ known = [p \in Procs |-> [d \in Deadlines |-> 0]]
  /\ faults = 0

Handle(p) == HandleKnown(p) \/ HandleStale(p) \/ HandleDeadline(p)
Sweep(p) ==
  \/ SweepList(p) \/ SweepSkip(p) \/ SweepReload(p) \/ SweepSend(p) \/ SweepDone(p)

Next ==
  \/ Tick
  \/ \E d \in Deadlines : Start(d) \/ Suspend(d) \/ Resume(d) \/ Ready(d) \/ Finish(d)
  \/ \E p \in Procs :
       \/ Receive(p) \/ Fire(p) \/ Handle(p) \/ HandleUnanswered(p) \/ HandleFails(p)
       \/ Sweep(p) \/ SweepFails(p) \/ RunnerSend(p) \/ Crash(p) \/ Restart(p)
       \/ \E d \in Deadlines : RunnerLock(p, d)

Spec == Init /\ [][Next]_vars

\* The goroutines keep running, processes are restarted, and PostgreSQL grants
\* a row lock to its waiters in turn.
Fairness ==
  /\ WF_vars(Tick)
  /\ \A p \in Procs :
       /\ WF_vars(Receive(p)) /\ WF_vars(Fire(p)) /\ SF_vars(Handle(p))
       /\ WF_vars(Sweep(p)) /\ WF_vars(RunnerSend(p)) /\ WF_vars(Restart(p))

FairSpec == Spec /\ Fairness

----------------------------------------------------------------------------
(* Properties.                                                             *)

Times == 0 .. MaxTime + RetryAfter
Items == [id : Deadlines, rev : Nat, due : Times]
Timers == [item : Items, next : Times]

\* The type invariant.  The channel of a scheduler never holds more commands
\* than its capacity, abandoned ones included, and a scheduler has one timer
\* for a deadline.
TypeOK ==
  /\ now \in 0 .. MaxTime
  /\ row \in [Deadlines -> [state : {"new", "pending", "paused", "settled"},
                            rev : Nat, due : Times]]
  /\ receipts \subseteq Deadlines \X Nat
  /\ lock \in Procs \cup {NoProc}
  /\ up \in [Procs -> BOOLEAN]
  /\ faults \in 0 .. MaxFaults /\ writes \in 0 .. MaxWrites
  /\ \A p \in Procs :
       /\ armed[p] \subseteq Timers /\ batch[p] \subseteq armed[p]
       /\ \A d \in Deadlines : Cardinality(TimerOf(p, d)) <= 1
       /\ Len(commands[p]) <= Buffer
       /\ \A i \in DOMAIN commands[p] :
            commands[p][i] \in [from : {"sweep", "runner", "nobody"}, item : Items]
       /\ sweep[p].phase \in {"idle", "rearming", "sending", "waiting"}
       /\ {sweep[p].cursor, sweep[p].last} \subseteq Deadlines \cup {0}
       /\ sweep[p].todo \subseteq Items
       /\ {sweep[p].complete, sweep[p].initial} \subseteq BOOLEAN
       /\ runner[p] \in [phase : {"idle", "sending", "waiting"}, id : Deadlines \cup {0}]

\* A timer of the revision a pending row has now carries the due time of the
\* row, through pauses, resumes, retries and commands that arrive late: no
\* two due times share a revision, so registerDeadline never sees a conflict.
TimersFollowRows ==
  \A p \in Procs : \A t \in armed[p] :
    /\ t.item.rev <= row[t.item.id].rev
    /\ t.item.id \in Pending /\ t.item.rev = row[t.item.id].rev
         => t.item.due = row[t.item.id].due /\ t.item.due <= t.next

\* Timeouts come when they are due, and once: a row is settled by a handler only at or
\* after the due time it has at that moment, never at the one it had before a
\* pause, and whatever processes have timers for it and however replies are
\* lost.
TimedOutWhenDue ==
  [][\A d \in Deadlines :
       (\E receipt \in receipts' \ receipts : receipt[1] = d)
         => d \in Pending /\ row[d].due <= now]_vars

\* A process that reports its initial sweep complete has a timer for every row
\* that was pending when it started and has not changed since.
ReadyMeansArmed ==
  \A p \in Procs : \A d \in Pending :
    up[p] /\ sweep[p].initial /\ row[d].rev = known[p][d]
      => \E t \in TimerOf(p, d) : t.item = Listed(d)

\* The recovery runner's transaction holds the lock the handler waits for, and
\* waits for the goroutine that runs the handler.
Embraced(p) ==
  /\ runner[p].phase # "idle" /\ batch[p] # {}
  /\ Receipt(NextDue(p).item) \notin receipts

\* A deadline that is due is settled, or paused or finished by a command,
\* however calls fail and processes die - unless a process is embraced.  (Once
\* due a row stays due until it is no longer pending.)
DueSettles ==
  \A d \in Deadlines :
    []<>(d \in Pending /\ row[d].due <= now => \E p \in Procs : Embraced(p))

\* The recovery runner's call of the scheduler ends, with an answer or an
\* error, and its worker goes on to the next scan.
RunnerReturns ==
  \A p \in Procs : []<>(runner[p].phase = "idle")
=============================================================================
