---------------------------- MODULE EventDelivery ----------------------------
(***************************************************************************)
(* The durable outbox of one tournament and its delivery to one viewer     *)
(* (usecase/eventdelivery, adapter/inbound/websocket/realtime_delivery.go, *)
(* db/queries/realtime_outbox.sql).                                        *)
(*                                                                         *)
(* Three goroutines of a process may hand an event to the same connection: *)
(* the outbox worker that claimed the event, the process's replay loop,    *)
(* and the connection's own handler.  They are the agents of this module.  *)
(* An agent that delivers holds the connection's delivery mutex: it claims *)
(* a receipt, writes the frame and acknowledges the receipt, each in a     *)
(* step of its own, while other processes do as they please.               *)
(*                                                                         *)
(* A viewer's connections are numbered in the order they are made; a       *)
(* number stands for the connection id and the connection generation.  A   *)
(* subscriber is named after its first connection.  Every event is for the *)
(* viewer, the last one ends the tournament: the states completed and      *)
(* cancelled have no transition (domain/tournament.go:62).                 *)
(*                                                                         *)
(* Leases have no clock: one may end at any time, for a slow claim query   *)
(* counts against it.  A retry delay only postpones a step.  A socket that *)
(* failed is noticed when something is written to it or read from it.      *)
(***************************************************************************)
EXTENDS Integers, FiniteSets

CONSTANTS
  Procs,     \* Service processes.
  Last,      \* The sequence of the terminal event.
  MaxConn,   \* Bound: connections the viewer makes.
  MaxFaults  \* Bound: crashes and failed calls.

ASSUME DeliveryAssumption ==
  /\ Last \in Nat \ {0} /\ MaxConn \in Nat \ {0} /\ MaxFaults \in Nat
  /\ "none" \notin Procs

Events == 1 .. Last
Conns  == 1 .. MaxConn
Subscribers == Conns
NoSnapshot == -1  \* Nothing was written yet.

Worker(p) == <<"worker", p>>
Loop(p)   == <<"loop", p>>
Serve(c)  == <<"serve", c>>
Agents == ({"worker", "loop"} \X Procs) \cup ({"serve"} \X Conns)

VARIABLES
  outbox,    \* Durable: events appended and published, the claim of the next.
  row,       \* Durable: realtime_subscribers.
  receipt,   \* Durable: realtime_delivery_receipts.
  conn,      \* The viewer's connections, with their sessions.
  agent,     \* What each goroutine is doing.
  up,        \* Whether a process runs.
  faults     \* Bound: the faults so far.

durable == <<outbox, row, receipt>>
vars == <<durable, conn, agent, up, faults>>

Terminal(e) == e = Last
Head == outbox.published + 1
Unclaimed == [by |-> "none", live |-> FALSE]

AtRest == [at |-> "rest", c |-> 0, ev |-> 0, upto |-> 0, todo |-> {},
           failed |-> FALSE, initial |-> FALSE]

\* The states of an agent that holds the delivery mutex of its connection.
Delivering == {"write", "acknowledge", "complete"}

\* Mutant: deliveries to a session are not serialised.
MutexAlways(c) == TRUE

MutexFree(c) == \A a \in Agents : agent[a].c = c => agent[a].at \notin Delivering

\* sessionActive: the session is the one of its subscriber in this process.
SessionActive(c) == conn[c].registered
SessionsOf(p) == {c \in Conns : conn[c].registered /\ conn[c].proc = p}

\* The fence of every query about a subscriber.
Fenced(c) == row[conn[c].sub].conn = c /\ ~row[conn[c].sub].closed

Host(a) == IF a[1] = "serve" THEN conn[a[2]].proc ELSE a[2]
Running(a) == Host(a) \in Procs /\ up[Host(a)]

Fault == faults < MaxFaults /\ faults' = faults + 1

-----------------------------------------------------------------------------
(* The outbox.                                                             *)

\* A command commits with its projection and its next event: the row of
\* tournament_outbox_cursors stays locked until the transaction ends.
Append ==
  /\ outbox.appended < Last
  /\ outbox' = [outbox EXCEPT !.appended = @ + 1]
  /\ UNCHANGED <<row, receipt, conn, agent, up, faults>>

\* Mutant: the lease of a claim is never looked at.
ClaimableUnclaimed(e) ==
  e = Head /\ e <= outbox.appended /\ outbox.claim.by = "none"

\* Only the first unpublished event can be claimed, and when no lease holds it.
Claimable(e) == e = Head /\ e <= outbox.appended /\ ~outbox.claim.live

\* Deliver takes the sessions one after the other; answer when none is left.
NextDelivery(me, todo) ==
  IF todo = {} THEN {[me EXCEPT !.at = "answer", !.c = 0, !.todo = {}]}
  ELSE {[me EXCEPT !.at = "call", !.c = c, !.todo = todo \ {c}] : c \in todo}

\* Process: Claim, then the sessions Deliver finds.
WorkerClaim(p) ==
  /\ up[p] /\ agent[Worker(p)].at = "rest"
  /\ \E e \in Events :
       /\ Claimable(e)
       /\ outbox' = [outbox EXCEPT !.claim = [by |-> p, live |-> TRUE]]
       /\ \E me \in NextDelivery([AtRest EXCEPT !.ev = e], SessionsOf(p)) :
            agent' = [agent EXCEPT ![Worker(p)] = me]
  /\ UNCHANGED <<row, receipt, conn, up, faults>>

\* The claim of the worker is still its own: tokens are fresh, and a lease that
\* ended counts until another worker claims the event.
OwnsClaim(p) == outbox.claim.by = p /\ agent[Worker(p)].ev = Head

Publish(p) ==
  IF OwnsClaim(p)
    THEN [outbox EXCEPT !.published = @ + 1, !.claim = Unclaimed]
    ELSE outbox

Unclaim(p) == IF OwnsClaim(p) THEN [outbox EXCEPT !.claim = Unclaimed] ELSE outbox

\* Every session took the event: Acknowledge; one did not: Retry.
WorkerAnswer(p) ==
  /\ up[p] /\ agent[Worker(p)].at = "answer"
  /\ outbox' = IF agent[Worker(p)].failed THEN Unclaim(p) ELSE Publish(p)
  /\ agent' = [agent EXCEPT ![Worker(p)] = AtRest]
  /\ UNCHANGED <<row, receipt, conn, up, faults>>

\* The query fails, before or after it took effect.
WorkerAnswerFails(p) ==
  /\ Fault
  /\ up[p] /\ agent[Worker(p)].at = "answer"
  /\ outbox' \in {outbox, IF agent[Worker(p)].failed THEN Unclaim(p) ELSE Publish(p)}
  /\ agent' = [agent EXCEPT ![Worker(p)] = AtRest]
  /\ UNCHANGED <<row, receipt, conn, up>>

\* A lease ends; under a holder that is still at work this is a fault.
ClaimLapses ==
  /\ outbox.claim.live
  /\ IF OwnsClaim(outbox.claim.by) THEN Fault ELSE UNCHANGED faults
  /\ outbox' = [outbox EXCEPT !.claim.live = FALSE]
  /\ UNCHANGED <<row, receipt, conn, agent, up>>

AtWork(i, e) ==
  \E a \in Agents :
    agent[a].at \in Delivering /\ agent[a].c = receipt[i][e].by /\ agent[a].ev = e

ReceiptLapses(i, e) ==
  /\ receipt[i][e].live
  /\ IF AtWork(i, e) THEN Fault ELSE UNCHANGED faults
  /\ receipt' = [receipt EXCEPT ![i][e].live = FALSE]
  /\ UNCHANGED <<outbox, row, conn, agent, up>>

-----------------------------------------------------------------------------
(* The handler of a connection: serveTournamentConnection.                 *)

\* A viewer resumes the subscriber named in the snapshots it received, if any.
Resumed(c) ==
  LET shown == {d \in Conns : conn[d].sent # NoSnapshot}
  IN IF shown = {} THEN c ELSE conn[CHOOSE d \in shown : \A f \in shown : f <= d].sub

Unused(c) == conn[c].at = "unused" /\ \A d \in 1 .. c - 1 : conn[d].at # "unused"

Max2(m, n) == IF m < n THEN n ELSE m

\* The row of the subscriber after it was opened or taken over.
RowOpened(i, c, cursor) ==
  [row[i] EXCEPT !.conn = c, !.snap = Max2(Max2(@, row[i].ack), cursor)]

\* A closed subscriber is resumed only if its terminal receipt is written.
MayOpen(i) == row[i].closed => receipt[i][Last].outcome = "written"

TerminalState(i) ==
  IF outbox.appended < Last THEN "none"
  ELSE IF receipt[i][Last].outcome = "written" THEN "written" ELSE "pending"

\* The outbox cursor was read before: it may be behind.  The subscription is
\* opened and its session enters the registry of the process; one it replaces
\* is told that it was aborted and loses its socket.
Open(c, p) ==
  /\ up[p] /\ Unused(c)
  /\ LET i == Resumed(c) IN
       /\ MayOpen(i)
       /\ \E cursor \in 0 .. outbox.appended :
            /\ row' = [row EXCEPT ![i] = RowOpened(i, c, cursor)]
            /\ conn' = [d \in Conns |->
                 IF d = c
                   THEN [conn[d] EXCEPT !.at = "snapshot", !.sub = i, !.proc = p,
                           !.open = TRUE, !.registered = TRUE, !.init = "wait",
                           !.terminal = TerminalState(i),
                           !.cursor = RowOpened(i, c, cursor).snap]
                 ELSE IF d \in SessionsOf(p) /\ conn[d].sub = i
                   THEN [conn[d] EXCEPT !.registered = FALSE, !.open = FALSE,
                           !.init = IF @ = "wait" THEN "aborted" ELSE @]
                 ELSE conn[d]]
  /\ UNCHANGED <<outbox, receipt, agent, up, faults>>

\* The handler returns: the session leaves the registry, the socket is closed.
Left(session) ==
  [session EXCEPT !.at = "over", !.registered = FALSE, !.open = FALSE, !.terminal = "none",
                  !.init = IF @ = "wait" THEN "aborted" ELSE @]

Leave(c) == conn' = [conn EXCEPT ![c] = Left(@)]

\* CloseSubscriber, with the deliveries that are still pending.
Close(c) ==
  IF Fenced(c)
    THEN /\ row' = [row EXCEPT ![conn[c].sub].closed = TRUE]
         /\ receipt' = [receipt EXCEPT ![conn[c].sub] = [e \in Events |->
              IF @[e].outcome = "pending"
                THEN [outcome |-> "disconnected", by |-> 0, live |-> FALSE] ELSE @[e]]]
    ELSE UNCHANGED <<row, receipt>>

\* The snapshot is a picture of the tournament taken after the cursor was read.
\* Deliveries may begin; the handler goes on with the pending terminal event,
\* or with CatchUp.
WriteSnapshot(c) ==
  /\ conn[c].at = "snapshot" /\ up[conn[c].proc] /\ conn[c].open
  /\ conn' = [conn EXCEPT ![c].sent = conn[c].cursor,
                          ![c].init = IF @ = "wait" THEN "done" ELSE @,
                          ![c].at = IF conn[c].terminal = "written"
                                      THEN "ending" ELSE "stream",
                          ![c].terminal = "none"]
  /\ agent' = [agent EXCEPT ![Serve(c)] =
       CASE conn[c].terminal = "written" -> AtRest
         [] conn[c].terminal = "pending" ->
              [AtRest EXCEPT !.at = "call", !.c = c, !.ev = Last, !.upto = Last,
                             !.initial = TRUE]
         [] conn[c].terminal = "none" -> [AtRest EXCEPT !.at = "list", !.c = c]]
  /\ UNCHANGED <<durable, up, faults>>

\* The terminal receipt was written before: closeWrittenTerminal.
CloseWritten(c) ==
  /\ conn[c].at = "ending" /\ up[conn[c].proc]
  /\ Leave(c)
  /\ IF SessionActive(c) THEN Close(c) ELSE UNCHANGED <<row, receipt>>
  /\ UNCHANGED <<outbox, agent, up, faults>>

\* The snapshot cannot be read or written.
SnapshotFails(c) ==
  /\ conn[c].at = "snapshot" /\ up[conn[c].proc]
  /\ IF conn[c].open THEN Fault ELSE UNCHANGED faults
  /\ Leave(c)
  /\ UNCHANGED <<durable, agent, up>>

\* The handler returns when it has noticed that the socket is closed.
Hangup(c) ==
  /\ conn[c].at = "stream" /\ agent[Serve(c)].at = "rest" /\ up[conn[c].proc]
  /\ Leave(c)
  /\ UNCHANGED <<durable, agent, up, faults>>

-----------------------------------------------------------------------------
(* Replay: the loop sweeps over the sessions of its process, a handler     *)
(* catches up once.                                                        *)

\* The agent is done with its session: it goes on to the next one.
NextSession(a, failed) ==
  IF a[1] = "worker"
    THEN NextDelivery([agent[a] EXCEPT !.failed = @ \/ failed], agent[a].todo)
  ELSE IF agent[a].todo # {} THEN {[AtRest EXCEPT !.at = "next", !.todo = agent[a].todo]}
  ELSE {AtRest}

\* An error of the repository ends the sweep, any other the session; both end
\* a connection's handler, and the outbox worker will retry the event.
Failed(a, error, session) ==
  LET c == agent[a].c IN
  /\ \E me \in IF a[1] = "loop" /\ error = "repository" THEN {AtRest}
               ELSE NextSession(a, TRUE) :
       agent' = [agent EXCEPT ![a] = me]
  /\ conn' = [conn EXCEPT ![c] =
       IF a[1] = "serve" THEN Left(session)
       ELSE IF a[1] = "loop" /\ error # "repository"
         THEN [session EXCEPT !.registered = FALSE, !.open = FALSE]
       ELSE session]

\* Mutant: a process sweeps only while its own worker holds the outbox claim.
SweptWithClaim(p) == IF outbox.claim.by = p THEN SessionsOf(p) ELSE {}

\* Run sweeps over all the sessions of the process.
Swept(p) == SessionsOf(p)

\* The session lost the fence: it leaves the registry without a word.
Dropped(session) == [session EXCEPT !.registered = FALSE, !.open = FALSE]

\* Mutant: an idle poll does not look at the fence.
VerifiedNever(c, session) == session

\* verifySessionFence: a poll with nothing left to deliver notices that the
\* subscriber moved on.
Verified(c, session) ==
  IF session.registered /\ ~Fenced(c) THEN Dropped(session) ELSE session

\* CatchUp lists the events after the cursor (a page holds all of them).
Listed(a, c, todo) ==
  LET me == [AtRest EXCEPT !.todo = todo] IN
  IF conn[c].cursor < outbox.appended
    THEN /\ agent' = [agent EXCEPT ![a] =
              [me EXCEPT !.at = "call", !.c = c, !.ev = conn[c].cursor + 1,
                         !.upto = outbox.appended]]
         /\ UNCHANGED conn
    ELSE /\ agent' = [agent EXCEPT ![a] =
              IF todo = {} THEN AtRest ELSE [me EXCEPT !.at = "next"]]
         /\ conn' = [conn EXCEPT ![c] = Verified(c, @)]

\* CatchUp of the next session of a sweep, or of the first.
CatchUpNext(p) ==
  /\ up[p] /\ agent[Loop(p)].at \in {"rest", "next"}
  /\ LET todo == IF agent[Loop(p)].at = "rest" THEN Swept(p) ELSE agent[Loop(p)].todo
     IN \E c \in todo : Listed(Loop(p), c, todo \ {c})
  /\ UNCHANGED <<durable, up, faults>>

\* CatchUp at the start of a connection.
CatchUpInitial(c) ==
  /\ agent[Serve(c)].at = "list" /\ up[conn[c].proc]
  /\ Listed(Serve(c), c, {})
  /\ UNCHANGED <<durable, up, faults>>

\* ListAfter or SubscriberCursor fails.
CatchUpFails(a) ==
  /\ Fault /\ Running(a)
  /\ \/ a[1] = "serve" /\ agent[a].at = "list" /\ Leave(a[2])
     \/ a[1] = "loop" /\ agent[a].at = "next" /\ UNCHANGED conn
  /\ agent' = [agent EXCEPT ![a] = AtRest]
  /\ UNCHANGED <<durable, up>>

\* CatchUp finds the cursor at the event it has listed: another goroutine has
\* delivered it since.  The error names the repository.
OutOfOrder(a) ==
  /\ Running(a) /\ agent[a].at = "call" /\ a[1] # "worker" /\ ~agent[a].initial
  /\ agent[a].ev <= conn[agent[a].c].cursor
  /\ Failed(a, "repository", conn[agent[a].c])
  /\ UNCHANGED <<durable, up, faults>>

-----------------------------------------------------------------------------
(* deliverSessionEvent, under the delivery mutex of the session.           *)

\* The pending terminal event has been delivered, or nothing was left to do.
DoneInitial(a, session) ==
  /\ agent' = [agent EXCEPT ![a] =
       IF session.registered THEN [AtRest EXCEPT !.at = "list", !.c = agent[a].c]
       ELSE AtRest]
  /\ conn' = [conn EXCEPT ![agent[a].c] =
       IF session.registered THEN session ELSE Left(session)]

\* The same for a listed event: CatchUp ends if the cursor did not reach it,
\* and fails if the cursor is past the next one already.
DoneReplayed(a, session) ==
  LET me == agent[a]  last == me.ev = me.upto IN
  IF session.cursor > me.ev /\ ~last
    THEN Failed(a, "repository", session)
  ELSE IF session.cursor < me.ev \/ last
    THEN /\ \E next \in NextSession(a, FALSE) : agent' = [agent EXCEPT ![a] = next]
         /\ conn' = [conn EXCEPT ![me.c] =
              IF last THEN Verified(me.c, session) ELSE session]
    ELSE /\ agent' = [agent EXCEPT ![a].at = "call", ![a].ev = @ + 1]
         /\ conn' = [conn EXCEPT ![me.c] = session]

Done(a, session) ==
  \/ /\ a[1] = "worker"
     /\ \E next \in NextSession(a, FALSE) : agent' = [agent EXCEPT ![a] = next]
     /\ conn' = [conn EXCEPT ![agent[a].c] = session]
  \/ agent[a].initial /\ DoneInitial(a, session)
  \/ a[1] # "worker" /\ ~agent[a].initial /\ DoneReplayed(a, session)

\* Mutant: a session takes events before its snapshot is written.
InitializedAlways(c) == TRUE

\* waitForInitialization returned.
Initialized(c) == conn[c].init # "wait"

\* The event is after the session's cursor, or it is the pending terminal one.
Needed(a) ==
  /\ SessionActive(agent[a].c)
  /\ agent[a].ev > conn[agent[a].c].cursor \/ agent[a].initial

ReadyToDeliver(a) ==
  /\ Running(a) /\ agent[a].at = "call"
  /\ Initialized(agent[a].c) /\ MutexFree(agent[a].c)

\* The session was aborted before it was initialized, or there is nothing to do.
DeliverNothing(a) ==
  /\ ReadyToDeliver(a)
  /\ LET c == agent[a].c IN
       \/ conn[c].init = "aborted" /\ Failed(a, "session", conn[c])
       \/ conn[c].init # "aborted" /\ ~Needed(a) /\ Done(a, conn[c])
  /\ UNCHANGED <<durable, up, faults>>

\* Mutant: a written receipt can be claimed again.
ClaimableAgain(c, e) ==
  /\ Fenced(c)
  /\ Terminal(e) \/ row[conn[c].sub].snap < e
  /\ ~receipt[conn[c].sub][e].live

\* ClaimDelivery: the receipt is new, or pending and in nobody's lease.
ReceiptClaimable(c, e) ==
  LET r == receipt[conn[c].sub][e] IN
  /\ Fenced(c)
  /\ Terminal(e) \/ row[conn[c].sub].snap < e
  /\ r.outcome \in {"none", "pending"} /\ ~r.live

Claimed(c, e) ==
  [receipt EXCEPT ![conn[c].sub][e] = [outcome |-> "pending", by |-> c, live |-> TRUE]]

Advanced(session, e) == [session EXCEPT !.cursor = Max2(@, e)]

\* completeSessionEvent: the cursor moves, a terminal event has more to do.
Completed(a, c) ==
  IF Terminal(agent[a].ev)
    THEN agent' = [agent EXCEPT ![a].at = "complete"] /\ UNCHANGED conn
    ELSE Done(a, Advanced(conn[c], agent[a].ev))

\* resolveClaim after a refusal: the fence is gone, or the receipt was written
\* in an attempt that had no answer, or the subscriber is past the event; or
\* the receipt stays pending, in a lease that is not this attempt's.  What is
\* read here only a connection that takes the subscriber over can change.
Resolved(a) ==
  LET c == agent[a].c  e == agent[a].ev  i == conn[c].sub IN
  \/ ~Fenced(c) /\ Done(a, Dropped(conn[c]))
  \/ Fenced(c) /\ receipt[i][e].outcome = "written" /\ Completed(a, c)
  \/ /\ Fenced(c) /\ receipt[i][e].outcome # "written"
     /\ IF row[i].ack >= e THEN Done(a, Advanced(conn[c], row[i].ack))
        ELSE Failed(a, "claim lost", conn[c])

ClaimDelivery(a) ==
  /\ ReadyToDeliver(a) /\ conn[agent[a].c].init # "aborted" /\ Needed(a)
  /\ LET c == agent[a].c IN
       IF ReceiptClaimable(c, agent[a].ev)
         THEN /\ receipt' = Claimed(c, agent[a].ev)
              /\ agent' = [agent EXCEPT ![a].at = "write"]
              /\ UNCHANGED conn
         ELSE Resolved(a) /\ UNCHANGED receipt
  /\ UNCHANGED <<outbox, row, up, faults>>

\* A query fails, before or after it took effect: of ClaimDelivery, or of those
\* that resolve its refusal.
ClaimDeliveryFails(a) ==
  /\ Fault
  /\ ReadyToDeliver(a) /\ conn[agent[a].c].init # "aborted" /\ Needed(a)
  /\ LET c == agent[a].c IN
       \/ UNCHANGED receipt /\ Failed(a, "repository", conn[c])
       \/ /\ ReceiptClaimable(c, agent[a].ev)
          /\ receipt' = Claimed(c, agent[a].ev)
          /\ Failed(a, "repository", conn[c])
       \/ /\ ~ReceiptClaimable(c, agent[a].ev) /\ UNCHANGED receipt
          /\ Failed(a, "claim lost", conn[c])
  /\ UNCHANGED <<outbox, row, up>>

\* Mutant: the error of a write to a closed socket is not looked at.
WriteUnheard(a) ==
  /\ Running(a) /\ agent[a].at = "write"
  /\ conn' = IF conn[agent[a].c].open
               THEN [conn EXCEPT ![agent[a].c].sent = agent[a].ev,
                                 ![agent[a].c].told = @ \/ Terminal(agent[a].ev)]
               ELSE conn
  /\ agent' = [agent EXCEPT ![a].at = "acknowledge"]
  /\ UNCHANGED <<durable, up, faults>>

\* The frame is a picture of the tournament at this event or later.
Write(a) ==
  /\ Running(a) /\ agent[a].at = "write" /\ conn[agent[a].c].open
  /\ conn' = [conn EXCEPT ![agent[a].c].sent = agent[a].ev,
                          ![agent[a].c].told = @ \/ Terminal(agent[a].ev)]
  /\ agent' = [agent EXCEPT ![a].at = "acknowledge"]
  /\ UNCHANGED <<durable, up, faults>>

\* The receipt is still the one the agent claimed.
OwnsReceipt(c, e) ==
  LET r == receipt[conn[c].sub][e]
  IN Fenced(c) /\ r.outcome = "pending" /\ r.by = c

\* retryWrite: rendering failed, or the socket did; of a terminal event the
\* snapshot may have been written.  RetryDelivery gives the receipt back, or
\* the fence is gone.
WriteFails(a) ==
  /\ Running(a) /\ agent[a].at = "write"
  /\ IF conn[agent[a].c].open THEN Fault ELSE UNCHANGED faults
  /\ LET c == agent[a].c  e == agent[a].ev IN
       \E open \in BOOLEAN, sent \in {conn[c].sent, e} :
         LET session == [conn[c] EXCEPT !.open = @ /\ open, !.sent = sent] IN
         /\ sent = conn[c].sent \/ (Terminal(e) /\ conn[c].open)
         /\ IF OwnsReceipt(c, e)
              THEN /\ receipt' = [receipt EXCEPT ![conn[c].sub][e].by = 0,
                                                 ![conn[c].sub][e].live = FALSE]
                   /\ Failed(a, "write", session)
              ELSE UNCHANGED receipt /\ Done(a, Dropped(session))
  /\ UNCHANGED <<outbox, row, up>>

RetryDeliveryFails(a) ==
  /\ Fault /\ Running(a) /\ agent[a].at = "write"
  /\ Failed(a, "repository", conn[agent[a].c])
  /\ UNCHANGED <<durable, up>>

\* AcknowledgeDelivery: the receipt is written, the subscriber's sequences move.
Acknowledged(c, e) ==
  /\ receipt' = [receipt EXCEPT ![conn[c].sub][e] =
                   [outcome |-> "written", by |-> 0, live |-> FALSE]]
  /\ row' = [row EXCEPT ![conn[c].sub].ack = Max2(@, e),
                        ![conn[c].sub].snap = Max2(@, e)]

Acknowledge(a) ==
  /\ Running(a) /\ agent[a].at = "acknowledge"
  /\ LET c == agent[a].c  e == agent[a].ev IN
       IF OwnsReceipt(c, e)
         THEN Acknowledged(c, e) /\ Completed(a, c)
         ELSE Resolved(a) /\ UNCHANGED <<receipt, row>>
  /\ UNCHANGED <<outbox, up, faults>>

AcknowledgeFails(a) ==
  /\ Fault /\ Running(a) /\ agent[a].at = "acknowledge"
  /\ LET c == agent[a].c  e == agent[a].ev IN
       \/ OwnsReceipt(c, e) /\ Acknowledged(c, e)
       \/ UNCHANGED <<receipt, row>>
  /\ Failed(a, "repository", conn[agent[a].c])
  /\ UNCHANGED <<outbox, up>>

Over(c) == Dropped(Advanced(conn[c], Last))

CompleteTerminal(a) ==
  /\ Running(a) /\ agent[a].at = "complete"
  /\ Close(agent[a].c)
  /\ Done(a, Over(agent[a].c))
  /\ UNCHANGED <<outbox, up, faults>>

CompleteTerminalFails(a) ==
  /\ Fault /\ Running(a) /\ agent[a].at = "complete"
  /\ Close(agent[a].c) \/ UNCHANGED <<row, receipt>>
  /\ Failed(a, "repository", Over(agent[a].c))
  /\ UNCHANGED <<outbox, up>>

-----------------------------------------------------------------------------
(* Processes.                                                              *)

Down(p) ==
  /\ up' = [up EXCEPT ![p] = FALSE]
  /\ agent' = [a \in Agents |-> IF Host(a) = p THEN AtRest ELSE agent[a]]
  /\ conn' = [c \in Conns |->
       IF conn[c].proc = p /\ conn[c].at # "unused" THEN Left(conn[c]) ELSE conn[c]]
  /\ UNCHANGED <<row, receipt>>

\* An orderly stop gives the claims of the worker back, if the call succeeds.
Stop(p) ==
  /\ Fault /\ up[p] /\ Down(p)
  /\ outbox' \in {outbox, IF outbox.claim.by = p
                            THEN [outbox EXCEPT !.claim = Unclaimed] ELSE outbox}

Restart(p) ==
  /\ ~up[p]
  /\ up' = [up EXCEPT ![p] = TRUE]
  /\ UNCHANGED <<durable, conn, agent, faults>>

-----------------------------------------------------------------------------

Init ==
  /\ outbox = [appended |-> 0, published |-> 0, claim |-> Unclaimed]
  /\ row = [i \in Subscribers |-> [conn |-> 0, ack |-> 0, snap |-> 0, closed |-> FALSE]]
  /\ receipt = [i \in Subscribers |-> [e \in Events |->
       [outcome |-> "none", by |-> 0, live |-> FALSE]]]
  /\ conn = [c \in Conns |->
       [at |-> "unused", sub |-> c, proc |-> "none", open |-> FALSE, registered |-> FALSE,
        init |-> "none", terminal |-> "none", cursor |-> 0, sent |-> NoSnapshot,
        told |-> FALSE]]
  /\ agent = [a \in Agents |-> AtRest]
  /\ up = [p \in Procs |-> TRUE]
  /\ faults = 0

Session(c) ==
  WriteSnapshot(c) \/ SnapshotFails(c) \/ CloseWritten(c) \/ CatchUpInitial(c)

Advance(a) ==
  \/ OutOfOrder(a) \/ DeliverNothing(a) \/ ClaimDelivery(a)
  \/ Write(a) \/ WriteFails(a) \/ Acknowledge(a) \/ CompleteTerminal(a)

Break(a) ==
  \/ CatchUpFails(a) \/ ClaimDeliveryFails(a) \/ RetryDeliveryFails(a)
  \/ AcknowledgeFails(a) \/ CompleteTerminalFails(a)

Next ==
  \/ Append \/ ClaimLapses
  \/ \E p \in Procs :
       \/ WorkerClaim(p) \/ WorkerAnswer(p) \/ WorkerAnswerFails(p)
       \/ CatchUpNext(p) \/ Stop(p) \/ Restart(p)
       \/ \E c \in Conns : Open(c, p)
  \/ \E c \in Conns : Session(c) \/ Hangup(c)
  \/ \E i \in Subscribers, e \in Events : ReceiptLapses(i, e)
  \/ \E a \in Agents : Advance(a) \/ Break(a)

Spec == Init /\ [][Next]_vars

\* Handlers and workers keep running, leases end, a process is restarted, and
\* a mutex is given to its waiters in turn (sync.Mutex does not starve them).
Fairness ==
  /\ WF_vars(ClaimLapses)
  /\ \A p \in Procs :
       /\ WF_vars(WorkerClaim(p) \/ WorkerAnswer(p))
       /\ WF_vars(CatchUpNext(p) \/ Restart(p))
  /\ \A c \in Conns : WF_vars(Session(c) \/ (~conn[c].open /\ Hangup(c)))
  /\ \A a \in Agents : SF_vars(Advance(a))

FairSpec == Spec /\ Fairness

-----------------------------------------------------------------------------
(* Properties.                                                             *)

\* The type invariant, with the mutex: no two agents deliver to one session.
TypeOK ==
  /\ outbox \in [appended : 0 .. Last, published : 0 .. Last,
                 claim : [by : Procs \cup {"none"}, live : BOOLEAN]]
  /\ outbox.published <= outbox.appended
  /\ row \in [Subscribers -> [conn : 0 .. MaxConn, ack : 0 .. Last, snap : 0 .. Last,
                              closed : BOOLEAN]]
  /\ receipt \in [Subscribers -> [Events ->
       [outcome : {"none", "pending", "written", "disconnected"},
        by : 0 .. MaxConn, live : BOOLEAN]]]
  /\ conn \in [Conns ->
       [at : {"unused", "snapshot", "ending", "stream", "over"},
        sub : Subscribers, proc : Procs \cup {"none"}, open : BOOLEAN,
        registered : BOOLEAN, init : {"none", "wait", "done", "aborted"},
        terminal : {"none", "pending", "written"}, cursor : 0 .. Last,
        sent : NoSnapshot .. Last, told : BOOLEAN]]
  /\ agent \in [Agents ->
       [at : {"rest", "next", "list", "call", "answer"} \cup Delivering,
        c : 0 .. MaxConn, ev : 0 .. Last, upto : 0 .. Last,
        todo : SUBSET Conns, failed : BOOLEAN, initial : BOOLEAN]]
  /\ up \in [Procs -> BOOLEAN]
  /\ faults \in 0 .. MaxFaults
  /\ \A a, b \in Agents :
       agent[a].at \in Delivering /\ agent[b].at \in Delivering /\ agent[a].c = agent[b].c
         => a = b

\* What the durable record says a viewer was shown was written to a socket of
\* that viewer: the acknowledged sequence is not past the frames, the written
\* terminal receipt means a terminal frame, and a subscriber is closed only then.
AcknowledgedMeansShown ==
  \A i \in Subscribers :
    /\ row[i].ack > 0 =>
         \E c \in Conns : conn[c].sub = i /\ conn[c].sent >= row[i].ack
    /\ receipt[i][Last].outcome = "written" =>
         \E c \in Conns : conn[c].sub = i /\ conn[c].told
    /\ row[i].closed => receipt[i][Last].outcome = "written"

\* contracts.md:131: the first frame of a connection is its snapshot, although
\* the session takes deliveries from the moment it is registered.
SnapshotFirst ==
  [][\A c \in Conns :
       conn[c].sent = NoSnapshot /\ conn'[c].sent # NoSnapshot
         => conn[c].at = "snapshot" /\ conn'[c].at # "snapshot"]_vars

\* contracts.md:137-141: what is written to the connection that holds the
\* subscriber comes after all the subscriber has acknowledged: nothing is shown
\* again or late by a retry whose acknowledgement had no answer, by a new
\* connection, or by another goroutine.
FramesAfterAcknowledged ==
  [][\A a \in Agents :
       agent[a].at = "write" /\ agent'[a].at = "acknowledge" /\ Fenced(agent[a].c)
         => row[conn[agent[a].c].sub].ack < agent[a].ev]_vars

\* Every event is published: a claim of a dead process ends, a failed delivery
\* is retried, and no connection holds the outbox up for ever.
\* (Both sides are stable, so that "again and again" says "in the end".)
EventsPublished ==
  \A e \in Events : []<>(outbox.appended >= e => outbox.published >= e)

\* realtime_delivery.go:118: a claim made by another replica strands no active
\* session.  A session in the registry reaches every event, or leaves.
NobodyStranded ==
  \A c \in Conns, e \in Events :
    []<>(SessionActive(c) /\ outbox.appended >= e => conn[c].cursor >= e)

\* contracts.md:137: a resume on any process fences the previous socket, which
\* then leaves the registry of its own process.
FencedLeaves ==
  \A c \in Conns : []<>(SessionActive(c) => Fenced(c))
=============================================================================
