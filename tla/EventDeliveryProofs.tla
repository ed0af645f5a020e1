------------------------- MODULE EventDeliveryProofs -------------------------
(***************************************************************************)
(* Machine-checked facts about module EventDelivery, for every number of   *)
(* processes, connections, events and faults: what is acknowledged was     *)
(* shown, the first frame of a connection is its snapshot, no frame is     *)
(* older than what its subscriber has acknowledged, and no two goroutines  *)
(* deliver to one session.                                                 *)
(***************************************************************************)
EXTENDS EventDelivery, WellFoundedInduction, TLAPS

Places == {"unused", "snapshot", "ending", "stream", "over"}
Outcomes == {"none", "pending", "written", "disconnected"}
Engaged == {"list", "call"} \cup Delivering

Outboxes == [appended : 0 .. Last, published : 0 .. Last,
             claim : [by : Procs \cup {"none"}, live : BOOLEAN]]
Rows == [conn : 0 .. MaxConn, ack : 0 .. Last, snap : 0 .. Last, closed : BOOLEAN]
Receipts == [outcome : Outcomes, by : 0 .. MaxConn, live : BOOLEAN]
Sessions ==
  [at : Places, sub : Subscribers, proc : Procs \cup {"none"}, open : BOOLEAN,
   registered : BOOLEAN, init : {"none", "wait", "done", "aborted"},
   terminal : {"none", "pending", "written"}, cursor : 0 .. Last,
   sent : NoSnapshot .. Last, told : BOOLEAN]
Tasks ==
  [at : {"rest", "next", "list", "call", "answer"} \cup Delivering,
   c : 0 .. MaxConn, ev : 0 .. Last, upto : 0 .. Last,
   todo : SUBSET Conns, failed : BOOLEAN, initial : BOOLEAN]

Typed ==
  /\ outbox \in Outboxes /\ outbox.published <= outbox.appended
  /\ row \in [Subscribers -> Rows]
  /\ receipt \in [Subscribers -> [Events -> Receipts]]
  /\ conn \in [Conns -> Sessions]
  /\ agent \in [Agents -> Tasks]
  /\ up \in [Procs -> BOOLEAN]
  /\ faults \in 0 .. MaxFaults

Used(c) == conn[c].at # "unused"

\* A task is about connections that were made and events that were appended.
TaskFits(a, me) ==
  /\ me \in Tasks
  /\ \A c \in me.todo : Used(c)
  /\ me.at \in Engaged => me.c \in Conns /\ Used(me.c)
  /\ me.at \in Engaged /\ a[1] = "serve" => me.c = a[2]
  /\ me.at = "call" \/ me.at \in Delivering => me.ev \in Events
  /\ a[1] = "worker" /\ me.at # "rest" => me.ev \in 1 .. outbox.appended
  /\ me.initial => a[1] # "worker"
  /\ a[1] # "worker" /\ (me.at = "call" \/ me.at \in Delivering)
       => me.ev <= me.upto

WrittenTo(i, e) == receipt[i][e].outcome = "written"

\* What an agent that delivers knows of its session.
DeliverySound(a) ==
  LET me == agent[a]  c == me.c IN
  /\ me.at \in Delivering => conn[c].init = "done"
  /\ me.at = "write" /\ Fenced(c) => row[conn[c].sub].ack < me.ev
  /\ me.at = "acknowledge" =>
       conn[c].sent >= me.ev /\ (Terminal(me.ev) => conn[c].told)
  /\ me.at = "complete" => Terminal(me.ev) /\ WrittenTo(conn[c].sub, Last)

\* One agent delivers to a session.
Exclusive ==
  \A a, b \in Agents :
    agent[a].at \in Delivering /\ agent[b].at \in Delivering /\ agent[a].c = agent[b].c
      => a = b

AgentsInv ==
  /\ \A a \in Agents : TaskFits(a, agent[a]) /\ DeliverySound(a)
  /\ Exclusive

SessionSound(c) ==
  /\ conn[c].at \in {"unused", "snapshot"} =>
       conn[c].sent = NoSnapshot /\ ~conn[c].told /\ conn[c].init # "done"
  /\ conn[c].init = "done" => conn[c].sent # NoSnapshot
  /\ conn[c].init = "none" => conn[c].at = "unused"
  /\ conn[c].registered => Used(c)
  /\ conn[c].at = "ending" \/ conn[c].terminal = "written"
       => WrittenTo(conn[c].sub, Last)

\* A connection of the subscriber that was shown all it has acknowledged, and
\* is not being shown anything older.
Witness(i, d) ==
  /\ conn[d].sub = i /\ conn[d].sent >= row[i].ack
  /\ \A a \in Agents :
       agent[a].at = "write" /\ agent[a].c = d => agent[a].ev > row[i].ack

RowSound(i) ==
  /\ row[i].ack <= row[i].snap
  /\ row[i].ack = Last => WrittenTo(i, Last)
  /\ row[i].closed => WrittenTo(i, Last)
  /\ WrittenTo(i, Last) => \E d \in Conns : conn[d].sub = i /\ conn[d].told
  /\ row[i].ack > 0 => \E d \in Conns : Witness(i, d)

SessionsInv == \A c \in Conns : SessionSound(c)
RowsInv == \A i \in Subscribers : RowSound(i)

IInv == Typed /\ AgentsInv /\ SessionsInv /\ RowsInv
-----------------------------------------------------------------------------
(* Shapes *)

LEMMA Domains ==
  /\ Last \in Nat \ {0} /\ MaxConn \in Nat \ {0} /\ MaxFaults \in Nat
  /\ Events = 1 .. Last /\ Conns = 1 .. MaxConn /\ Subscribers = Conns
  /\ Last \in Events /\ NoSnapshot = -1 /\ "none" \notin Procs
  /\ 0 \notin Conns
  /\ \A p \in Procs : Worker(p) \in Agents /\ Loop(p) \in Agents
                      /\ Worker(p)[1] = "worker" /\ Loop(p)[1] = "loop"
  /\ \A c \in Conns : Serve(c) \in Agents /\ Serve(c)[1] = "serve"
                      /\ Serve(c)[2] = c
BY DeliveryAssumption
   DEF Events, Conns, Subscribers, NoSnapshot, Worker, Loop, Serve, Agents

\* The place of an agent in Delivering and Engaged.
LEMMA RestFits ==
  ASSUME NEW a \in Agents
  PROVE  /\ TaskFits(a, AtRest) /\ AtRest.at = "rest" /\ AtRest.todo = {}
         /\ AtRest \in Tasks
BY Domains DEF TaskFits, AtRest, Tasks, Engaged, Delivering

\* One connection's session replaced by another: what deliveries and handlers
\* leave of it.
Version(new, old) ==
  /\ new \in Sessions
  /\ new.sub = old.sub /\ new.sent = old.sent /\ new.told = old.told
  /\ new.at = old.at \/ (old.at # "unused" /\ new.at = "over")
  /\ new.init = old.init \/ (old.init = "wait" /\ new.init = "aborted")
  /\ new.terminal \in {old.terminal, "none"}
  /\ new.registered => old.registered

LEMMA Same ==
  ASSUME NEW s \in Sessions
  PROVE  Version(s, s)
BY DEF Version

LEMMA LeftFits ==
  ASSUME NEW s \in Sessions, NEW old \in Sessions, Version(s, old),
         s.at # "unused"
  PROVE  Version(Left(s), old) /\ Left(s).at = "over"
<1>1. Left(s) = [s EXCEPT !.at = "over", !.registered = FALSE, !.open = FALSE,
                          !.terminal = "none",
                          !.init = IF s.init = "wait" THEN "aborted" ELSE s.init]
  BY DEF Left, Sessions
<1>2. /\ Left(s).at = "over" /\ Left(s).sub = s.sub /\ Left(s).sent = s.sent
      /\ Left(s).told = s.told /\ Left(s).registered = FALSE
      /\ Left(s).terminal = "none"
      /\ Left(s).init = IF s.init = "wait" THEN "aborted" ELSE s.init
  BY <1>1 DEF Sessions
<1>3. Left(s) \in Sessions
  BY <1>1 DEF Sessions, Places
<1>4. old.at # "unused"
  BY DEF Version
<1> QED
  BY <1>2, <1>3, <1>4 DEF Version

LEMMA DroppedFits ==
  ASSUME NEW s \in Sessions, NEW old \in Sessions, Version(s, old)
  PROVE  Version(Dropped(s), old)
BY DEF Version, Sessions, Dropped

LEMMA AdvancedFits ==
  ASSUME NEW s \in Sessions, NEW old \in Sessions, Version(s, old),
         NEW e \in 0 .. Last
  PROVE  Version(Advanced(s, e), old) /\ Advanced(s, e) \in Sessions
<1>1. Max2(s.cursor, e) \in 0 .. Last
  BY Domains DEF Sessions, Max2
<1>2. Advanced(s, e) = [s EXCEPT !.cursor = Max2(s.cursor, e)]
  BY DEF Advanced, Sessions
<1> QED
  BY <1>1, <1>2 DEF Version, Sessions

LEMMA VerifiedFits ==
  ASSUME NEW c, NEW s \in Sessions, NEW old \in Sessions, Version(s, old)
  PROVE  Version(Verified(c, s), old)
BY DroppedFits DEF Verified

-----------------------------------------------------------------------------
(* The ends of a delivery *)

\* What a step makes of the tasks: each stays, or is one that delivers nothing.
Quiet(a, me) == TaskFits(a, me) /\ me.at \notin Delivering

\* Tasks that differ in a few fields.
Answering(me) == [me EXCEPT !.at = "answer", !.c = 0, !.todo = {}]
Calling(me, c, todo) == [me EXCEPT !.at = "call", !.c = c, !.todo = todo \ {c}]
GoingOn(todo) == [AtRest EXCEPT !.at = "next", !.todo = todo]
Listing(c) == [AtRest EXCEPT !.at = "list", !.c = c]
Repeating(me, e) == [me EXCEPT !.at = "call", !.ev = e]

LEMMA Numbers ==
  /\ 0 \in 0 .. MaxConn /\ 0 \in 0 .. Last
  /\ Conns \subseteq 0 .. MaxConn /\ Events \subseteq 0 .. Last
BY DeliveryAssumption DEF Conns, Events

LEMMA AnsweringTask ==
  ASSUME NEW me \in Tasks
  PROVE  /\ Answering(me) \in Tasks /\ Answering(me).at = "answer"
         /\ Answering(me).todo = {} /\ Answering(me).ev = me.ev
         /\ (Answering(me).initial <=> me.initial)
<1>1. Answering(me) \in Tasks
  BY Numbers DEF Tasks, Answering
<1> QED
  BY <1>1 DEF Tasks, Answering

LEMMA CallingTask ==
  ASSUME NEW me \in Tasks, NEW todo \in SUBSET Conns, NEW c \in Conns
  PROVE  /\ Calling(me, c, todo) \in Tasks /\ Calling(me, c, todo).at = "call"
         /\ Calling(me, c, todo).c = c /\ Calling(me, c, todo).todo = todo \ {c}
         /\ Calling(me, c, todo).ev = me.ev /\ Calling(me, c, todo).upto = me.upto
         /\ (Calling(me, c, todo).initial <=> me.initial)
<1>1. Calling(me, c, todo) \in Tasks
  BY Numbers DEF Tasks, Calling
<1> QED
  BY <1>1 DEF Tasks, Calling

LEMMA GoingOnTask ==
  ASSUME NEW todo \in SUBSET Conns
  PROVE  /\ GoingOn(todo) \in Tasks /\ GoingOn(todo).at = "next"
         /\ GoingOn(todo).todo = todo /\ ~GoingOn(todo).initial
<1>1. GoingOn(todo) \in Tasks
  BY Numbers DEF Tasks, AtRest, GoingOn
<1> QED
  BY <1>1 DEF AtRest, GoingOn

LEMMA ListingTask ==
  ASSUME NEW c \in Conns
  PROVE  /\ Listing(c) \in Tasks /\ Listing(c).at = "list"
         /\ Listing(c).c = c /\ Listing(c).todo = {} /\ ~Listing(c).initial
<1>1. Listing(c) \in Tasks
  BY Numbers DEF Tasks, AtRest, Listing
<1> QED
  BY <1>1 DEF AtRest, Listing

Replaying(c, e, upto, todo) ==
  [[AtRest EXCEPT !.todo = todo] EXCEPT !.at = "call", !.c = c, !.ev = e, !.upto = upto]

LEMMA ReplayingTask ==
  ASSUME NEW c \in Conns, NEW e \in Events, NEW upto \in 0 .. Last,
         NEW todo \in SUBSET Conns
  PROVE  LET new == Replaying(c, e, upto, todo) IN
         /\ new \in Tasks /\ new.at = "call" /\ new.c = c /\ new.ev = e
         /\ new.upto = upto /\ new.todo = todo /\ ~new.initial
<1>1. Replaying(c, e, upto, todo) \in Tasks
  BY Numbers DEF Tasks, AtRest, Replaying
<1> QED
  BY <1>1 DEF AtRest, Replaying

LEMMA RepeatingTask ==
  ASSUME NEW me \in Tasks, NEW e \in Events
  PROVE  /\ Repeating(me, e) \in Tasks /\ Repeating(me, e).at = "call"
         /\ Repeating(me, e).c = me.c /\ Repeating(me, e).todo = me.todo
         /\ Repeating(me, e).ev = e /\ Repeating(me, e).upto = me.upto
         /\ (Repeating(me, e).initial <=> me.initial)
<1>1. Repeating(me, e) \in Tasks
  BY Numbers DEF Tasks, Repeating
<1> QED
  BY <1>1 DEF Tasks, Repeating

LEMMA NextDeliveryFits ==
  ASSUME NEW p \in Procs, NEW me \in Tasks, NEW todo \in SUBSET Conns,
         \A c \in todo : Used(c), me.ev \in 1 .. outbox.appended,
         me.ev \in Events, ~me.initial,
         NEW new \in NextDelivery(me, todo)
  PROVE  Quiet(Worker(p), new)
<1>1. CASE todo = {}
  <2>1. new = Answering(me)
    BY <1>1 DEF NextDelivery, Answering
  <2>2. new \in Tasks /\ new.at = "answer" /\ new.todo = {} /\ new.ev = me.ev
        /\ (new.initial <=> me.initial)
    BY <2>1, AnsweringTask
  <2> QED
    BY <2>2, Domains DEF Quiet, TaskFits, Engaged, Delivering
<1>2. CASE todo # {}
  <2>1. PICK c \in todo : new = Calling(me, c, todo)
    BY <1>2 DEF NextDelivery, Calling
  <2>2. /\ new \in Tasks /\ new.at = "call" /\ new.c = c /\ new.todo = todo \ {c}
        /\ new.ev = me.ev /\ (new.initial <=> me.initial)
    <3>1. c \in Conns
      OBVIOUS
    <3> QED
      BY <2>1, <3>1, CallingTask
  <2> QED
    BY <2>2, Domains DEF Quiet, TaskFits, Engaged, Delivering
<1> QED
  BY <1>1, <1>2

\* An agent that goes on to the next session.
LEMMA NextSessionFits ==
  ASSUME Typed, NEW a \in Agents, TaskFits(a, agent[a]), NEW failed \in BOOLEAN,
         agent[a].at \in {"call"} \cup Delivering,
         NEW new \in NextSession(a, failed)
  PROVE  Quiet(a, new)
<1> USE Domains
<1>1. agent[a] \in Tasks /\ agent[a].todo \in SUBSET Conns
      /\ \A c \in agent[a].todo : Used(c)
  BY DEF TaskFits, Tasks
<1>2. CASE a[1] = "worker"
  <2>1. PICK p \in Procs : a = Worker(p)
    BY <1>2 DEF Agents, Worker
  <2>2. new \in NextDelivery([agent[a] EXCEPT !.failed = agent[a].failed \/ failed], agent[a].todo)
    BY <1>1, <1>2 DEF NextSession, Tasks
  <2>3. agent[a].ev \in Events /\ agent[a].ev \in 1 .. outbox.appended
    BY <1>2 DEF TaskFits, Delivering
  <2> DEFINE me == [agent[a] EXCEPT !.failed = agent[a].failed \/ failed]
  <2>4. me \in Tasks /\ me.ev = agent[a].ev /\ ~me.initial
    BY <1>1, <1>2 DEF Tasks, TaskFits
  <2> HIDE DEF me
  <2> QED
    BY <1>1, <2>1, <2>2, <2>3, <2>4, NextDeliveryFits DEF me
<1>3. CASE a[1] # "worker" /\ agent[a].todo # {}
  <2>1. new = GoingOn(agent[a].todo)
    BY <1>3 DEF NextSession, GoingOn
  <2>2. new \in Tasks /\ new.at = "next" /\ new.todo = agent[a].todo /\ ~new.initial
    BY <1>1, <2>1, GoingOnTask
  <2> QED
    BY <1>1, <1>3, <2>2 DEF Quiet, TaskFits, Engaged, Delivering
<1>4. CASE a[1] # "worker" /\ agent[a].todo = {}
  <2>1. new = AtRest
    BY <1>4 DEF NextSession
  <2> QED
    BY <2>1, RestFits DEF Quiet, Delivering
<1> QED
  BY <1>2, <1>3, <1>4

\* The step of agent a leaves a quiet task, and a version of its session.
Handed(a, session) ==
  \E me, new :
    /\ agent' = [agent EXCEPT ![a] = me] /\ Quiet(a, me)
    /\ conn' = [conn EXCEPT ![agent[a].c] = new] /\ Version(new, session)

LEMMA FailedHands ==
  ASSUME Typed, NEW a \in Agents, TaskFits(a, agent[a]),
         agent[a].at \in {"call"} \cup Delivering,
         NEW error, NEW session \in Sessions, session.at # "unused",
         Failed(a, error, session)
  PROVE  Handed(a, session)
<1> USE Domains
<1>1. PICK me \in IF a[1] = "loop" /\ error = "repository" THEN {AtRest}
                  ELSE NextSession(a, TRUE) : agent' = [agent EXCEPT ![a] = me]
  BY DEF Failed
<1>2. Quiet(a, me)
  <2>1. CASE me = AtRest
    BY <2>1, RestFits DEF Quiet, Delivering
  <2>2. CASE me \in NextSession(a, TRUE)
    BY <2>2, NextSessionFits
  <2> QED
    BY <1>1, <2>1, <2>2
<1> DEFINE new == IF a[1] = "serve" THEN Left(session)
                  ELSE IF a[1] = "loop" /\ error # "repository"
                    THEN [session EXCEPT !.registered = FALSE, !.open = FALSE]
                  ELSE session
<1>3. conn' = [conn EXCEPT ![agent[a].c] = new]
  BY DEF Failed
<1>4. Version(new, session)
  <2>1. Version(session, session)
    BY Same
  <2>2. Version(Left(session), session)
    BY <2>1, LeftFits
  <2>3. Version([session EXCEPT !.registered = FALSE, !.open = FALSE], session)
    BY <2>1, DroppedFits DEF Dropped
  <2> QED
    BY <2>1, <2>2, <2>3
<1> HIDE DEF new
<1> QED
  BY <1>1, <1>2, <1>3, <1>4 DEF Handed

LEMMA DoneHands ==
  ASSUME Typed, NEW a \in Agents, TaskFits(a, agent[a]),
         agent[a].at \in {"call"} \cup Delivering,
         NEW session \in Sessions, session.at # "unused",
         Done(a, session)
  PROVE  Handed(a, session)
<1>a. agent[a] \in Tasks /\ agent[a].c \in Conns /\ Used(agent[a].c)
      /\ agent[a].ev \in Events
  BY DEF TaskFits, Engaged
<1>b. Version(session, session)
  BY Same
<1>c. agent[a].initial => a[1] # "worker"
  BY DEF TaskFits
<1>1. CASE /\ a[1] = "worker"
           /\ \E next \in NextSession(a, FALSE) : agent' = [agent EXCEPT ![a] = next]
           /\ conn' = [conn EXCEPT ![agent[a].c] = session]
  BY <1>1, <1>b, NextSessionFits DEF Handed
<1>2. CASE agent[a].initial /\ DoneInitial(a, session)
  <2>1. CASE session.registered
    <3> DEFINE me == Listing(agent[a].c)
    <3>1. agent' = [agent EXCEPT ![a] = me] /\ conn' = [conn EXCEPT ![agent[a].c] = session]
      BY <1>2, <2>1 DEF DoneInitial, Listing
    <3>2. me \in Tasks /\ me.at = "list" /\ me.c = agent[a].c /\ me.todo = {}
          /\ ~me.initial
      BY <1>a, ListingTask
    <3>3. Quiet(a, me)
      <4> HIDE DEF me
      <4> QED
        BY <1>2, <1>c, <3>2 DEF Quiet, TaskFits, Engaged, Delivering
    <3> HIDE DEF me
    <3> QED
      BY <1>b, <3>1, <3>3 DEF Handed
  <2>2. CASE ~session.registered
    <3>1. agent' = [agent EXCEPT ![a] = AtRest] /\ conn' = [conn EXCEPT ![agent[a].c] = Left(session)]
      BY <1>2, <2>2 DEF DoneInitial
    <3>2. Quiet(a, AtRest)
      BY RestFits DEF Quiet, Delivering
    <3>3. Version(Left(session), session)
      BY <1>b, LeftFits
    <3> QED
      BY <3>1, <3>2, <3>3 DEF Handed
  <2> QED
    BY <2>1, <2>2
<1>3. CASE a[1] # "worker" /\ ~agent[a].initial /\ DoneReplayed(a, session)
  <2> DEFINE last == agent[a].ev = agent[a].upto
  <2>1. CASE session.cursor > agent[a].ev /\ ~last
    <3>1. Failed(a, "repository", session)
      BY <1>3, <2>1 DEF DoneReplayed
    <3> QED
      BY <3>1, FailedHands
  <2>2. CASE ~(session.cursor > agent[a].ev /\ ~last)
             /\ (session.cursor < agent[a].ev \/ last)
    <3>1. PICK me \in NextSession(a, FALSE) : agent' = [agent EXCEPT ![a] = me]
      BY <1>3, <2>2 DEF DoneReplayed
    <3>2. conn' = [conn EXCEPT ![agent[a].c] =
                     IF last THEN Verified(agent[a].c, session) ELSE session]
      BY <1>3, <2>2 DEF DoneReplayed
    <3>3. Version(Verified(agent[a].c, session), session)
      BY <1>b, VerifiedFits
    <3>4. Quiet(a, me)
      BY NextSessionFits
    <3> QED
      BY <1>b, <3>1, <3>2, <3>3, <3>4 DEF Handed
  <2>3. CASE ~(session.cursor > agent[a].ev /\ ~last)
             /\ ~(session.cursor < agent[a].ev \/ last)
    <3> DEFINE me == Repeating(agent[a], agent[a].ev + 1)
    <3>1. conn' = [conn EXCEPT ![agent[a].c] = session]
      BY <1>3, <2>3 DEF DoneReplayed
    <3>2. agent' = [agent EXCEPT ![a] = me]
      BY <1>3, <2>3 DEF DoneReplayed, Typed, Repeating
    <3>3. agent[a].ev <= agent[a].upto /\ agent[a].upto \in 0 .. Last
      BY <1>3, <1>a DEF TaskFits, Tasks
    <3>4. agent[a].ev + 1 \in Events /\ agent[a].ev + 1 <= agent[a].upto
      BY <1>a, <2>3, <3>3, Domains
    <3>5. me \in Tasks
      BY <1>a, <3>4, RepeatingTask
    <3>6. /\ me.at = "call" /\ me.ev = agent[a].ev + 1 /\ me.c = agent[a].c
          /\ me.todo = agent[a].todo /\ me.upto = agent[a].upto
          /\ (me.initial <=> agent[a].initial)
      <4>1. ASSUME NEW e \in Events
            PROVE  /\ Repeating(agent[a], e).at = "call"
                   /\ Repeating(agent[a], e).ev = e
                   /\ Repeating(agent[a], e).c = agent[a].c
                   /\ Repeating(agent[a], e).todo = agent[a].todo
                   /\ Repeating(agent[a], e).upto = agent[a].upto
                   /\ (Repeating(agent[a], e).initial <=> agent[a].initial)
        BY <1>a, RepeatingTask
      <4> QED
        BY <3>4, <4>1
    <3>7. Quiet(a, me)
      <4>1. \A c \in agent[a].todo : Used(c)
        BY DEF TaskFits
      <4>2. a[1] = "serve" => agent[a].c = a[2]
        BY DEF TaskFits, Engaged
      <4> HIDE DEF me
      <4> QED
        BY <1>3, <1>a, <3>4, <3>5, <3>6, <4>1, <4>2 DEF Quiet, TaskFits, Delivering
    <3> HIDE DEF me
    <3> QED
      BY <1>b, <3>1, <3>2, <3>7 DEF Handed
  <2> QED
    BY <2>1, <2>2, <2>3
<1> QED
  BY <1>1, <1>2, <1>3 DEF Done

-----------------------------------------------------------------------------
(* What is kept by steps that acknowledge nothing *)

OutboxFits ==
  /\ outbox' \in Outboxes /\ outbox'.published <= outbox'.appended
  /\ outbox.appended <= outbox'.appended

\* No sequence moves, no receipt is written or unwritten, and a subscriber is
\* closed only after its terminal receipt.
RecordsKept ==
  /\ row' \in [Subscribers -> Rows]
  /\ receipt' \in [Subscribers -> [Events -> Receipts]]
  /\ \A i \in Subscribers :
       /\ row'[i].ack = row[i].ack /\ row'[i].snap = row[i].snap
       /\ row'[i].conn = row[i].conn
       /\ row[i].closed => row'[i].closed
       /\ row'[i].closed => row[i].closed \/ WrittenTo(i, Last)
  /\ \A i \in Subscribers, e \in Events : WrittenTo(i, e)' <=> WrittenTo(i, e)

LEMMA TerminalKept ==
  ASSUME RecordsKept, NEW i \in Subscribers
  PROVE  WrittenTo(i, Last)' <=> WrittenTo(i, Last)
<1>1. Last \in Events
  BY Domains
<1> QED
  BY <1>1 DEF RecordsKept

LEMMA OtherSound ==
  ASSUME IInv, RecordsKept, NEW b \in Agents, agent'[b] = agent[b],
         agent[b].at \in Delivering =>
           Version(conn'[agent[b].c], conn[agent[b].c])
  PROVE  DeliverySound(b)'
<1> SUFFICES ASSUME agent[b].at \in Delivering
             PROVE  DeliverySound(b)'
  BY DEF DeliverySound, Delivering
<1> DEFINE c == agent[b].c
           i == conn[c].sub
<1>1. /\ DeliverySound(b) /\ TaskFits(b, agent[b])
  BY DEF IInv, AgentsInv
<1>2. c \in Conns /\ agent[b].ev \in Events
  BY <1>1 DEF TaskFits, Engaged
<1>3. i \in Subscribers
  BY <1>2 DEF IInv, Typed, Sessions
<1>4. /\ conn'[c].sub = i /\ conn'[c].sent = conn[c].sent
      /\ conn'[c].told = conn[c].told
      /\ conn[c].init = "done" => conn'[c].init = "done"
  BY DEF Version
<1>5. Fenced(c)' => Fenced(c)
  BY <1>3, <1>4 DEF Fenced, RecordsKept
<1>6. row'[i].ack = row[i].ack
  BY <1>3 DEF RecordsKept
<1>7. WrittenTo(conn[c].sub, Last)' <=> WrittenTo(conn[c].sub, Last)
  <2>1. receipt'[conn[c].sub][Last].outcome = "written"
          <=> receipt[conn[c].sub][Last].outcome = "written"
    BY <1>3, TerminalKept DEF WrittenTo
  <2> QED
    BY <1>4, <2>1 DEF WrittenTo
<1> QED
  BY <1>1, <1>4, <1>5, <1>6, <1>7 DEF DeliverySound, Terminal

LEMMA SessionKept ==
  ASSUME IInv, RecordsKept, NEW c \in Conns, Version(conn'[c], conn[c])
  PROVE  SessionSound(c)'
<1>1. SessionSound(c) /\ conn[c].sub \in Subscribers
  BY DEF IInv, SessionsInv, Typed, Sessions
<1>2. /\ conn'[c].sub = conn[c].sub /\ conn'[c].sent = conn[c].sent
      /\ conn'[c].told = conn[c].told
      /\ conn'[c].at = conn[c].at \/ (Used(c) /\ conn'[c].at = "over")
      /\ \/ conn'[c].init = conn[c].init
         \/ conn[c].init = "wait" /\ conn'[c].init = "aborted"
      /\ conn'[c].terminal \in {conn[c].terminal, "none"}
      /\ conn'[c].registered => conn[c].registered
  BY DEF Version, Used
<1>3. WrittenTo(conn[c].sub, Last)' <=> WrittenTo(conn[c].sub, Last)
  <2>1. receipt'[conn[c].sub][Last].outcome = "written"
          <=> receipt[conn[c].sub][Last].outcome = "written"
    BY <1>1, TerminalKept DEF WrittenTo
  <2> QED
    BY <1>2, <2>1 DEF WrittenTo
<1> QED
  BY <1>1, <1>2, <1>3 DEF SessionSound, Used

LEMMA RowKept ==
  ASSUME IInv, RecordsKept, NEW i \in Subscribers,
         \A d \in Conns :
           /\ conn'[d].sub = conn[d].sub
           /\ conn[d].told => conn'[d].told
           /\ Witness(i, d) => Witness(i, d)'
  PROVE  RowSound(i)'
<1>1. RowSound(i)
  BY DEF IInv, RowsInv
<1>2. /\ row'[i].ack = row[i].ack /\ row'[i].snap = row[i].snap
      /\ row'[i].closed => row[i].closed \/ WrittenTo(i, Last)
      /\ WrittenTo(i, Last)' <=> WrittenTo(i, Last)
  BY Domains DEF RecordsKept
<1>3. WrittenTo(i, Last)' => \E d \in Conns : conn'[d].sub = i /\ conn'[d].told
  BY <1>1, <1>2 DEF RowSound
<1>4. row'[i].ack > 0 => \E d \in Conns : Witness(i, d)'
  BY <1>1, <1>2 DEF RowSound
<1> QED
  BY <1>1, <1>2, <1>3, <1>4 DEF RowSound

LEMMA TaskKept ==
  ASSUME Typed, outbox.appended <= outbox'.appended,
         outbox'.appended \in Nat,
         \A c \in Conns : Used(c) => Used(c)',
         NEW b \in Agents, TaskFits(b, agent'[b])
  PROVE  TaskFits(b, agent[b])'
<1>1. /\ outbox.appended \in Nat
      /\ \A e \in 1 .. outbox.appended : e \in 1 .. outbox'.appended
  BY Domains DEF Typed, Outboxes
<1>2. agent'[b].todo \subseteq Conns
  BY DEF TaskFits, Tasks
<1> QED
  BY <1>1, <1>2 DEF TaskFits

\* A step in which nobody begins or goes on with a delivery.
LEMMA QuietStep ==
  ASSUME IInv, OutboxFits, RecordsKept, up' \in [Procs -> BOOLEAN],
         faults' \in 0 .. MaxFaults,
         conn' \in [Conns -> Sessions],
         \A d \in Conns : Version(conn'[d], conn[d]),
         agent' \in [Agents -> Tasks],
         \A b \in Agents : agent'[b] = agent[b] \/ Quiet(b, agent'[b])
  PROVE  IInv'
<1>1. Typed'
  BY DEF Typed, OutboxFits, RecordsKept
<1>2. \A c \in Conns : Used(c)' <=> Used(c)
  BY DEF Version, Used
<1>3. AgentsInv'
  <2>1. ASSUME NEW b \in Agents PROVE TaskFits(b, agent[b])'
    <3>1. TaskFits(b, agent'[b])
      BY DEF IInv, AgentsInv, Quiet
    <3>2. Typed /\ outbox'.appended \in Nat
      BY Domains DEF IInv, OutboxFits, Outboxes
    <3> QED
      BY <1>2, <3>1, <3>2, TaskKept DEF OutboxFits
  <2>2. ASSUME NEW b \in Agents PROVE DeliverySound(b)'
    <3>1. CASE agent'[b] = agent[b]
      <4>1. agent[b].at \in Delivering => agent[b].c \in Conns
        BY DEF IInv, AgentsInv, TaskFits, Engaged
      <4> QED
        BY <3>1, <4>1, OtherSound
    <3>2. CASE Quiet(b, agent'[b])
      BY <3>2 DEF Quiet, DeliverySound, Delivering
    <3> QED
      BY <3>1, <3>2
  <2>3. Exclusive'
    <3>1. \A b \in Agents : agent'[b].at \in Delivering => agent'[b] = agent[b]
      BY DEF Quiet
    <3> QED
      BY <3>1 DEF Exclusive, IInv, AgentsInv
  <2> QED
    BY <2>1, <2>2, <2>3 DEF AgentsInv
<1>4. SessionsInv'
  BY SessionKept DEF SessionsInv
<1>5. RowsInv'
  <2>1. ASSUME NEW i \in Subscribers PROVE RowSound(i)'
    <3>1. ASSUME NEW d \in Conns
          PROVE  /\ conn'[d].sub = conn[d].sub
                 /\ conn[d].told => conn'[d].told
                 /\ conn'[d].sent = conn[d].sent
      BY DEF Version
    <3>2. row'[i].ack = row[i].ack
      BY DEF RecordsKept
    <3>3. \A b \in Agents : agent'[b].at = "write" => agent'[b] = agent[b]
      BY DEF Quiet, Delivering
    <3>4. \A d \in Conns : Witness(i, d) => Witness(i, d)'
      BY <3>1, <3>2, <3>3 DEF Witness
    <3> QED
      BY <3>1, <3>4, RowKept
  <2> QED
    BY <2>1 DEF RowsInv
<1> QED
  BY <1>1, <1>3, <1>4, <1>5 DEF IInv

LEMMA NothingKept ==
  ASSUME IInv, UNCHANGED <<row, receipt>>
  PROVE  RecordsKept
BY DEF IInv, Typed, RecordsKept, WrittenTo

LEMMA SameOutbox ==
  ASSUME IInv, UNCHANGED outbox
  PROVE  OutboxFits
BY Domains DEF IInv, Typed, OutboxFits, Outboxes

LEMMA FaultCounts ==
  ASSUME IInv, Fault \/ UNCHANGED faults
  PROVE  faults' \in 0 .. MaxFaults
BY Domains DEF IInv, Typed, Fault

LEMMA VersionOfVersion ==
  ASSUME NEW x \in Sessions, NEW y \in Sessions, NEW z \in Sessions,
         Version(x, y), Version(y, z)
  PROVE  Version(x, z)
BY DEF Version

LEMMA OneSession ==
  ASSUME IInv, NEW c \in Conns, NEW s, conn' = [conn EXCEPT ![c] = s],
         Version(s, conn[c])
  PROVE  /\ conn' \in [Conns -> Sessions]
         /\ \A d \in Conns : Version(conn'[d], conn[d])
<1>1. conn \in [Conns -> Sessions]
  BY DEF IInv, Typed
<1>2. conn' \in [Conns -> Sessions]
  BY <1>1 DEF Version
<1>3. ASSUME NEW d \in Conns PROVE Version(conn'[d], conn[d])
  <2>1. CASE d = c
    BY <1>1, <2>1
  <2>2. CASE d # c
    <3>1. conn'[d] = conn[d] /\ conn[d] \in Sessions
      BY <1>1, <2>2
    <3> QED
      BY <3>1, Same
  <2> QED
    BY <2>1, <2>2
<1> QED
  BY <1>2, <1>3

LEMMA NoSession ==
  ASSUME IInv, conn' = conn
  PROVE  /\ conn' \in [Conns -> Sessions]
         /\ \A d \in Conns : Version(conn'[d], conn[d])
BY Same DEF IInv, Typed

LEMMA OneTask ==
  ASSUME IInv, NEW a \in Agents, NEW me, agent' = [agent EXCEPT ![a] = me],
         Quiet(a, me)
  PROVE  /\ agent' \in [Agents -> Tasks]
         /\ \A b \in Agents : agent'[b] = agent[b] \/ Quiet(b, agent'[b])
BY DEF IInv, Typed, Quiet, TaskFits

LEMMA NoTask ==
  ASSUME IInv, agent' = agent
  PROVE  /\ agent' \in [Agents -> Tasks]
         /\ \A b \in Agents : agent'[b] = agent[b] \/ Quiet(b, agent'[b])
BY DEF IInv, Typed

LEMMA Parts ==
  ASSUME IInv
  PROVE  /\ up \in [Procs -> BOOLEAN] /\ faults \in 0 .. MaxFaults
         /\ \A a \in Agents : TaskFits(a, agent[a]) /\ agent[a] \in Tasks
         /\ \A c \in Conns : conn[c] \in Sessions /\ SessionSound(c)
         /\ conn \in [Conns -> Sessions] /\ agent \in [Agents -> Tasks]
         /\ Typed
BY DEF IInv, Typed, AgentsInv, SessionsInv

LEMMA HandedStep ==
  ASSUME IInv, OutboxFits, RecordsKept, up' = up, faults' \in 0 .. MaxFaults,
         NEW a \in Agents, agent[a].c \in Conns,
         NEW session \in Sessions, Version(session, conn[agent[a].c]),
         Handed(a, session)
  PROVE  IInv'
<1>1. PICK me, new :
        /\ agent' = [agent EXCEPT ![a] = me] /\ Quiet(a, me)
        /\ conn' = [conn EXCEPT ![agent[a].c] = new] /\ Version(new, session)
  BY DEF Handed
<1>2. Version(new, conn[agent[a].c])
  <2>1. new \in Sessions
    BY <1>1 DEF Version
  <2> QED
    BY <1>1, <2>1, Parts, VersionOfVersion
<1>3. /\ conn' \in [Conns -> Sessions]
      /\ \A d \in Conns : Version(conn'[d], conn[d])
  BY <1>1, <1>2, OneSession
<1>4. /\ agent' \in [Agents -> Tasks]
      /\ \A b \in Agents : agent'[b] = agent[b] \/ Quiet(b, agent'[b])
  BY <1>1, OneTask
<1> QED
  BY <1>3, <1>4, Parts, QuietStep

-----------------------------------------------------------------------------
(* The outbox and its worker *)

LEMMA AppendStep ==
  ASSUME IInv, Append PROVE IInv'
<1>1. OutboxFits
  <2>1. outbox' = [outbox EXCEPT !.appended = outbox.appended + 1]
    BY DEF Append
  <2>2. outbox \in Outboxes /\ outbox.published <= outbox.appended
        /\ outbox.appended < Last
    BY DEF IInv, Typed, Append
  <2>3. outbox.appended + 1 \in 0 .. Last
    BY <2>2, Domains DEF Outboxes
  <2>4. outbox' \in Outboxes
    BY <2>1, <2>2, <2>3 DEF Outboxes
  <2> QED
    BY <2>1, <2>2, <2>4, Domains DEF OutboxFits, Outboxes
<1> QED
  BY <1>1, Parts, NoSession, NoTask, NothingKept, QuietStep DEF Append

\* A claim that is another one.
LEMMA ClaimFits ==
  ASSUME IInv, NEW claim \in [by : Procs \cup {"none"}, live : BOOLEAN],
         outbox' = [outbox EXCEPT !.claim = claim]
  PROVE  OutboxFits
<1>1. outbox \in Outboxes /\ outbox.published <= outbox.appended
  BY DEF IInv, Typed
<1>2. outbox' \in Outboxes
  BY <1>1 DEF Outboxes
<1>3. outbox'.published = outbox.published /\ outbox'.appended = outbox.appended
  BY <1>1 DEF Outboxes
<1> QED
  BY <1>1, <1>2, <1>3, Domains DEF OutboxFits, Outboxes

LEMMA ClaimLapsesStep ==
  ASSUME IInv, ClaimLapses PROVE IInv'
<1>1. OutboxFits
  <2>1. outbox \in Outboxes
    BY DEF IInv, Typed
  <2>2. outbox' = [outbox EXCEPT !.claim = [outbox.claim EXCEPT !.live = FALSE]]
    BY <2>1 DEF ClaimLapses, Outboxes
  <2>3. [outbox.claim EXCEPT !.live = FALSE]
          \in [by : Procs \cup {"none"}, live : BOOLEAN]
    BY <2>1 DEF Outboxes
  <2> QED
    BY <2>2, <2>3, ClaimFits
<1>2. faults' \in 0 .. MaxFaults
  BY FaultCounts DEF ClaimLapses
<1> QED
  BY <1>1, <1>2, Parts, NoSession, NoTask, NothingKept, QuietStep
     DEF ClaimLapses

\* The sessions that a process finds were opened.
LEMMA SessionsUsed ==
  ASSUME IInv, NEW p
  PROVE  SessionsOf(p) \in SUBSET Conns /\ \A c \in SessionsOf(p) : Used(c)
BY DEF IInv, SessionsInv, SessionSound, SessionsOf

LEMMA WorkerClaimStep ==
  ASSUME IInv, NEW p \in Procs, WorkerClaim(p) PROVE IInv'
<1>1. PICK e \in Events :
        /\ Claimable(e)
        /\ outbox' = [outbox EXCEPT !.claim = [by |-> p, live |-> TRUE]]
        /\ \E me \in NextDelivery([AtRest EXCEPT !.ev = e], SessionsOf(p)) :
             agent' = [agent EXCEPT ![Worker(p)] = me]
  BY DEF WorkerClaim
<1>2. PICK me \in NextDelivery([AtRest EXCEPT !.ev = e], SessionsOf(p)) :
        agent' = [agent EXCEPT ![Worker(p)] = me]
  BY <1>1
<1>3. OutboxFits
  BY <1>1, ClaimFits
<1>4. e \in 1 .. outbox.appended
  BY <1>1, Domains DEF Claimable, IInv, Typed, Outboxes
<1> DEFINE begun == [AtRest EXCEPT !.ev = e]
<1>5. begun \in Tasks /\ begun.ev = e /\ ~begun.initial
  BY Numbers DEF AtRest, Tasks
<1> HIDE DEF begun
<1>6. Quiet(Worker(p), me)
  BY <1>2, <1>4, <1>5, SessionsUsed, NextDeliveryFits DEF begun
<1>7. Worker(p) \in Agents
  BY Domains
<1>8. UNCHANGED <<row, receipt, conn, up, faults>>
  BY DEF WorkerClaim
<1> QED
  BY <1>2, <1>3, <1>6, <1>7, <1>8, Parts, NoSession, OneTask, NothingKept, QuietStep

\* What a worker makes of the outbox.
LEMMA AnswerFits ==
  ASSUME IInv, NEW p \in Procs, agent[Worker(p)].at = "answer",
         outbox' \in {outbox, Publish(p), Unclaim(p)}
  PROVE  OutboxFits
<1>1. Worker(p) \in Agents /\ Worker(p)[1] = "worker"
  BY Domains
<1>2. agent[Worker(p)].ev \in 1 .. outbox.appended
  BY <1>1 DEF IInv, AgentsInv, TaskFits
<1>3. outbox \in Outboxes /\ outbox.published <= outbox.appended
  BY DEF IInv, Typed
<1>4. Unclaimed \in [by : Procs \cup {"none"}, live : BOOLEAN]
  BY DEF Unclaimed
<1>5. CASE outbox' = outbox
  BY <1>5, SameOutbox
<1>6. CASE outbox' = Unclaim(p) /\ outbox' # outbox
  <2>1. outbox' = [outbox EXCEPT !.claim = Unclaimed]
    BY <1>6 DEF Unclaim
  <2> QED
    BY <1>4, <2>1, ClaimFits
<1>7. CASE outbox' = Publish(p) /\ outbox' # outbox
  <2>1. OwnsClaim(p)
    BY <1>7 DEF Publish
  <2>2. outbox' = [outbox EXCEPT !.published = outbox.published + 1, !.claim = Unclaimed]
    BY <1>7, <2>1 DEF Publish
  <2>3. outbox.published + 1 <= outbox.appended
    BY <1>2, <1>3, <2>1, Domains DEF OwnsClaim, Head, Outboxes
  <2>4. outbox.published + 1 \in 0 .. Last
    BY <1>3, <2>3, Domains DEF Outboxes
  <2>5. outbox' \in Outboxes
    BY <1>3, <1>4, <2>2, <2>4 DEF Outboxes
  <2>6. outbox'.published = outbox.published + 1 /\ outbox'.appended = outbox.appended
    BY <1>3, <2>2 DEF Outboxes
  <2> QED
    BY <1>3, <2>3, <2>5, <2>6, Domains DEF OutboxFits, Outboxes
<1> QED
  BY <1>5, <1>6, <1>7

LEMMA AtRestQuiet ==
  ASSUME NEW a \in Agents
  PROVE  Quiet(a, AtRest)
BY RestFits DEF Quiet, Delivering

LEMMA WorkerAnswerStep ==
  ASSUME IInv, NEW p \in Procs, WorkerAnswer(p) \/ WorkerAnswerFails(p)
  PROVE  IInv'
<1>1. OutboxFits
  BY AnswerFits DEF WorkerAnswer, WorkerAnswerFails
<1>2. faults' \in 0 .. MaxFaults
  BY FaultCounts DEF WorkerAnswer, WorkerAnswerFails
<1>3. Worker(p) \in Agents
  BY Domains
<1>4. /\ agent' = [agent EXCEPT ![Worker(p)] = AtRest]
      /\ UNCHANGED <<row, receipt, conn, up>>
  BY DEF WorkerAnswer, WorkerAnswerFails
<1>5. Quiet(Worker(p), AtRest)
  BY <1>3, AtRestQuiet
<1> QED
  BY <1>1, <1>2, <1>3, <1>4, <1>5, Parts, NoSession, OneTask, NothingKept, QuietStep

\* The lease of a receipt ends.
LEMMA ReceiptLapsesStep ==
  ASSUME IInv, NEW i \in Subscribers, NEW e \in Events, ReceiptLapses(i, e)
  PROVE  IInv'
<1>1. receipt' = [receipt EXCEPT ![i] = [receipt[i] EXCEPT ![e] =
                    [receipt[i][e] EXCEPT !.live = FALSE]]]
  BY DEF ReceiptLapses, IInv, Typed
<1>2. receipt \in [Subscribers -> [Events -> Receipts]]
  BY DEF IInv, Typed
<1>3. ASSUME NEW j \in Subscribers, NEW f \in Events
      PROVE  /\ receipt'[j][f] \in Receipts
             /\ receipt'[j][f].outcome = receipt[j][f].outcome
  <2>1. receipt[j][f] \in Receipts /\ receipt[i][e] \in Receipts
    BY <1>2
  <2>2. CASE j = i /\ f = e
    <3>1. receipt'[j][f] = [receipt[i][e] EXCEPT !.live = FALSE]
      BY <1>1, <1>2, <2>2
    <3> QED
      BY <2>1, <2>2, <3>1 DEF Receipts
  <2>3. CASE ~(j = i /\ f = e)
    <3>1. receipt'[j][f] = receipt[j][f]
      BY <1>1, <1>2, <2>3
    <3> QED
      BY <2>1, <3>1
  <2> QED
    BY <2>2, <2>3
<1>4. receipt' \in [Subscribers -> [Events -> Receipts]]
  <2>1. receipt' = [j \in Subscribers |-> [f \in Events |-> receipt'[j][f]]]
    BY <1>1, <1>2
  <2> QED
    BY <1>3, <2>1
<1>5. RecordsKept
  BY <1>3, <1>4 DEF RecordsKept, ReceiptLapses, IInv, Typed, WrittenTo
<1>6. UNCHANGED <<outbox, row, conn, agent, up>> /\ faults' \in 0 .. MaxFaults
  BY FaultCounts DEF ReceiptLapses
<1> QED
  BY <1>5, <1>6, Parts, SameOutbox, NoSession, NoTask, QuietStep

-----------------------------------------------------------------------------
(* Handlers and replay *)

LEMMA CloseKeeps ==
  ASSUME IInv, NEW c \in Conns, Close(c) \/ UNCHANGED <<row, receipt>>,
         WrittenTo(conn[c].sub, Last)
  PROVE  RecordsKept
<1>1. CASE UNCHANGED <<row, receipt>>
  BY <1>1, NothingKept
<1>2. CASE Close(c) /\ Fenced(c)
  <2> DEFINE i == conn[c].sub
             gone(e) == IF receipt[i][e].outcome = "pending"
                          THEN [outcome |-> "disconnected", by |-> 0, live |-> FALSE]
                          ELSE receipt[i][e]
  <2>1. i \in Subscribers
    BY Parts DEF Sessions
  <2>2. row \in [Subscribers -> Rows]
        /\ receipt \in [Subscribers -> [Events -> Receipts]]
    BY DEF IInv, Typed
  <2>3. row' = [row EXCEPT ![i] = [row[i] EXCEPT !.closed = TRUE]]
    BY <1>2, <2>1, <2>2 DEF Close
  <2>4. receipt' = [receipt EXCEPT ![i] = [e \in Events |-> gone(e)]]
    BY <1>2, <2>1, <2>2 DEF Close
  <2>5. row[i] \in Rows
    BY <2>1, <2>2
  <2>6. [row[i] EXCEPT !.closed = TRUE] \in Rows
    BY <2>5 DEF Rows
  <2>7. row' \in [Subscribers -> Rows]
    BY <2>2, <2>3, <2>6
  <2>8. ASSUME NEW e \in Events
        PROVE  /\ gone(e) \in Receipts
               /\ gone(e).outcome = "written" <=> receipt[i][e].outcome = "written"
    <3>1. receipt[i][e] \in Receipts
      BY <2>1, <2>2
    <3>2. [outcome |-> "disconnected", by |-> 0, live |-> FALSE] \in Receipts
      BY Numbers DEF Receipts, Outcomes
    <3> QED
      BY <3>1, <3>2
  <2> HIDE DEF gone
  <2>9. receipt' \in [Subscribers -> [Events -> Receipts]]
    BY <2>2, <2>4, <2>8
  <2>10. ASSUME NEW j \in Subscribers, NEW e \in Events
         PROVE  WrittenTo(j, e)' <=> WrittenTo(j, e)
    BY <2>1, <2>2, <2>4, <2>8 DEF WrittenTo
  <2>11. ASSUME NEW j \in Subscribers
         PROVE  /\ row'[j].ack = row[j].ack /\ row'[j].snap = row[j].snap
                /\ row'[j].conn = row[j].conn
                /\ row[j].closed => row'[j].closed
                /\ row'[j].closed => row[j].closed \/ WrittenTo(j, Last)
    <3>1. CASE j = i
      <4>1. row'[i] = [row[i] EXCEPT !.closed = TRUE]
        BY <2>1, <2>2, <2>3
      <4> QED
        BY <2>5, <3>1, <4>1 DEF Rows
    <3>2. CASE j # i
      BY <2>2, <2>3, <3>2
    <3> QED
      BY <3>1, <3>2
  <2> QED
    BY <2>7, <2>9, <2>10, <2>11 DEF RecordsKept
<1>3. CASE Close(c) /\ ~Fenced(c)
  BY <1>3, NothingKept DEF Close
<1> QED
  BY <1>1, <1>2, <1>3

LEMMA LeaveFits ==
  ASSUME IInv, NEW c \in Conns, Leave(c), Used(c)
  PROVE  /\ conn' \in [Conns -> Sessions]
         /\ \A d \in Conns : Version(conn'[d], conn[d])
<1>1. conn' = [conn EXCEPT ![c] = Left(conn[c])]
  BY Parts DEF Leave
<1>2. conn[c] \in Sessions /\ Version(conn[c], conn[c])
  BY Parts, Same
<1>3. Version(Left(conn[c]), conn[c])
  BY <1>2, LeftFits DEF Used
<1> QED
  BY <1>1, <1>3, OneSession

LEMMA HandlerStep ==
  ASSUME IInv, NEW c \in Conns,
         SnapshotFails(c) \/ CloseWritten(c) \/ Hangup(c)
  PROVE  IInv'
<1>1. Leave(c) /\ Used(c) /\ UNCHANGED <<outbox, agent, up>>
  BY DEF SnapshotFails, CloseWritten, Hangup, Used, durable
<1>2. RecordsKept
  <2>1. CASE CloseWritten(c)
    <3>1. WrittenTo(conn[c].sub, Last)
      BY <2>1, Parts DEF CloseWritten, SessionSound
    <3> QED
      BY <2>1, <3>1, CloseKeeps DEF CloseWritten
  <2>2. CASE UNCHANGED <<row, receipt>>
    BY <2>2, NothingKept
  <2> QED
    BY <2>1, <2>2 DEF SnapshotFails, Hangup, durable
<1>3. faults' \in 0 .. MaxFaults
  BY FaultCounts DEF SnapshotFails, CloseWritten, Hangup
<1> QED
  BY <1>1, <1>2, <1>3, Parts, LeaveFits, NoTask, SameOutbox, QuietStep

\* What CatchUp makes of an agent and its session.
LEMMA ListedStep ==
  ASSUME IInv, NEW a \in Agents, a[1] # "worker", NEW c \in Conns, Used(c),
         a[1] = "serve" => c = a[2],
         NEW todo \in SUBSET Conns, \A d \in todo : Used(d),
         Listed(a, c, todo), UNCHANGED <<durable, up, faults>>
  PROVE  IInv'
<1>1. UNCHANGED <<outbox, row, receipt, up, faults>>
  BY DEF durable
<1> DEFINE me == [AtRest EXCEPT !.todo = todo]
<1>2. outbox.appended \in 0 .. Last /\ conn[c].cursor \in 0 .. Last
  BY Parts DEF Typed, Outboxes, Sessions
<1>3. CASE conn[c].cursor < outbox.appended
  <2> DEFINE new == Replaying(c, conn[c].cursor + 1, outbox.appended, todo)
  <2>1. agent' = [agent EXCEPT ![a] = new] /\ UNCHANGED conn
    BY <1>3 DEF Listed, Replaying
  <2>2. conn[c].cursor + 1 \in Events /\ conn[c].cursor + 1 <= outbox.appended
    BY <1>2, <1>3, Domains
  <2>5. /\ new \in Tasks /\ new.at = "call" /\ new.c = c /\ new.ev = conn[c].cursor + 1
        /\ new.upto = outbox.appended /\ new.todo = todo /\ ~new.initial
    BY <1>2, <2>2, ReplayingTask
  <2> HIDE DEF new
  <2>6. Quiet(a, new)
    BY <2>2, <2>5 DEF Quiet, TaskFits, Engaged, Delivering
  <2> QED
    BY <1>1, <2>1, <2>6, Parts, NoSession, OneTask, NothingKept, SameOutbox, QuietStep
<1>4. CASE ~(conn[c].cursor < outbox.appended)
  <2> DEFINE new == IF todo = {} THEN AtRest ELSE [me EXCEPT !.at = "next"]
  <2>1. agent' = [agent EXCEPT ![a] = new]
    BY <1>4 DEF Listed
  <2>2. conn' = [conn EXCEPT ![c] = Verified(c, conn[c])]
    BY <1>4, Parts DEF Listed
  <2>3. Version(Verified(c, conn[c]), conn[c])
    BY Parts, Same, VerifiedFits
  <2>4. Quiet(a, new)
    <3>1. CASE todo = {}
      BY <3>1, AtRestQuiet
    <3>2. CASE todo # {}
      <4>1. new = GoingOn(todo)
        BY <3>2 DEF GoingOn, AtRest
      <4>2. GoingOn(todo) \in Tasks /\ GoingOn(todo).at = "next"
            /\ GoingOn(todo).todo = todo /\ ~GoingOn(todo).initial
        BY GoingOnTask
      <4> HIDE DEF new
      <4> QED
        BY <4>1, <4>2 DEF Quiet, TaskFits, Engaged, Delivering
    <3> QED
      BY <3>1, <3>2
  <2> HIDE DEF new
  <2>5. /\ conn' \in [Conns -> Sessions]
        /\ \A d \in Conns : Version(conn'[d], conn[d])
    BY <2>2, <2>3, OneSession
  <2> QED
    BY <1>1, <2>1, <2>4, <2>5, Parts, OneTask, NothingKept, SameOutbox, QuietStep
<1> QED
  BY <1>3, <1>4

LEMMA CatchUpStep ==
  ASSUME IInv
  PROVE  /\ \A p \in Procs : CatchUpNext(p) => IInv'
         /\ \A c \in Conns : CatchUpInitial(c) => IInv'
<1>1. ASSUME NEW p \in Procs, CatchUpNext(p) PROVE IInv'
  <2> DEFINE todo == IF agent[Loop(p)].at = "rest" THEN Swept(p) ELSE agent[Loop(p)].todo
  <2>1. Loop(p) \in Agents /\ Loop(p)[1] = "loop"
    BY Domains
  <2>2. todo \in SUBSET Conns /\ \A c \in todo : Used(c)
    <3>1. agent[Loop(p)].todo \in SUBSET Conns /\ \A c \in agent[Loop(p)].todo : Used(c)
      BY <2>1, Parts DEF TaskFits, Tasks
    <3> QED
      BY <3>1, SessionsUsed DEF Swept
  <2>3. PICK c \in todo : Listed(Loop(p), c, todo \ {c})
    BY <1>1 DEF CatchUpNext
  <2>4. UNCHANGED <<durable, up, faults>>
    BY <1>1 DEF CatchUpNext
  <2> HIDE DEF todo
  <2>5. c \in Conns /\ Used(c) /\ todo \ {c} \in SUBSET Conns
        /\ \A d \in todo \ {c} : Used(d)
    BY <2>2
  <2> QED
    BY <2>1, <2>3, <2>4, <2>5, ListedStep
<1>2. ASSUME NEW c \in Conns, CatchUpInitial(c) PROVE IInv'
  <2>1. Serve(c) \in Agents /\ Serve(c)[1] = "serve" /\ Serve(c)[2] = c
    BY Domains
  <2>2. agent[Serve(c)].at = "list" /\ Listed(Serve(c), c, {})
        /\ UNCHANGED <<durable, up, faults>>
    BY <1>2 DEF CatchUpInitial
  <2>3. Used(c)
    BY <2>1, <2>2, Parts, Domains DEF TaskFits, Engaged
  <2> QED
    BY <2>1, <2>2, <2>3, ListedStep
<1> QED
  BY <1>1, <1>2

-----------------------------------------------------------------------------
(* Deliveries that end *)

\* What an agent at a call or in a delivery has in hand.
LEMMA AtHand ==
  ASSUME IInv, NEW a \in Agents, agent[a].at \in {"call"} \cup Delivering
  PROVE  /\ TaskFits(a, agent[a]) /\ agent[a] \in Tasks
         /\ agent[a].c \in Conns /\ Used(agent[a].c) /\ agent[a].ev \in Events
         /\ agent[a].ev \in 0 .. Last
         /\ conn[agent[a].c] \in Sessions /\ conn[agent[a].c].sub \in Subscribers
         /\ conn[agent[a].c].at # "unused"
         /\ Version(conn[agent[a].c], conn[agent[a].c])
         /\ Typed
<1>1. TaskFits(a, agent[a])
  BY Parts
<1>2. agent[a].c \in Conns /\ Used(agent[a].c) /\ agent[a].ev \in Events
  BY <1>1 DEF TaskFits, Engaged
<1>3. conn[agent[a].c] \in Sessions
  BY <1>2, Parts
<1> QED
  BY <1>1, <1>2, <1>3, Parts, Same, Numbers DEF Sessions, Used

\* A delivery that ends without a word to the viewer, when the records are kept.
LEMMA EndStep ==
  ASSUME IInv, RecordsKept, UNCHANGED <<outbox, up>>, faults' \in 0 .. MaxFaults,
         NEW a \in Agents, agent[a].at \in {"call"} \cup Delivering,
         NEW session \in Sessions, Version(session, conn[agent[a].c]),
         session.at # "unused", NEW error,
         Done(a, session) \/ Failed(a, error, session)
  PROVE  IInv'
<1>1. Handed(a, session)
  BY AtHand, DoneHands, FailedHands
<1> QED
  BY <1>1, AtHand, SameOutbox, HandedStep

LEMMA CatchUpFailsStep ==
  ASSUME IInv, NEW a \in Agents, CatchUpFails(a) PROVE IInv'
<1>1. /\ agent' = [agent EXCEPT ![a] = AtRest] /\ UNCHANGED <<durable, up>>
      /\ faults' \in 0 .. MaxFaults
  BY FaultCounts DEF CatchUpFails
<1>2. UNCHANGED <<outbox, row, receipt, up>>
  BY <1>1 DEF durable
<1>3. /\ conn' \in [Conns -> Sessions]
      /\ \A d \in Conns : Version(conn'[d], conn[d])
  <2>1. CASE a[1] = "serve" /\ agent[a].at = "list" /\ Leave(a[2])
    <3>1. a[2] \in Conns /\ Used(a[2])
      BY <2>1, Parts DEF TaskFits, Engaged
    <3> QED
      BY <2>1, <3>1, LeaveFits
  <2>2. CASE UNCHANGED conn
    BY <2>2, NoSession
  <2> QED
    BY <2>1, <2>2 DEF CatchUpFails
<1> QED
  BY <1>1, <1>2, <1>3, Parts, AtRestQuiet, OneTask, NothingKept, SameOutbox, QuietStep

LEMMA CutShortStep ==
  ASSUME IInv, NEW a \in Agents,
         OutOfOrder(a) \/ DeliverNothing(a) \/ RetryDeliveryFails(a)
  PROVE  IInv'
<1>1. agent[a].at \in {"call"} \cup Delivering
  BY DEF OutOfOrder, DeliverNothing, RetryDeliveryFails, ReadyToDeliver, Delivering
<1>2. \/ Done(a, conn[agent[a].c])
      \/ \E error \in {"repository", "session"} : Failed(a, error, conn[agent[a].c])
  BY DEF OutOfOrder, DeliverNothing, RetryDeliveryFails
<1>3. UNCHANGED <<durable, up>> /\ (Fault \/ UNCHANGED faults)
  BY DEF OutOfOrder, DeliverNothing, RetryDeliveryFails
<1>4. RecordsKept /\ UNCHANGED <<outbox, up>> /\ faults' \in 0 .. MaxFaults
  BY <1>3, NothingKept, FaultCounts DEF durable
<1> QED
  BY <1>1, <1>2, <1>4, AtHand, EndStep

\* A receipt that was not written and is not.
LEMMA ReceiptKeeps ==
  ASSUME IInv, NEW i \in Subscribers, NEW e \in Events, NEW new \in Receipts,
         receipt' = [receipt EXCEPT ![i] = [receipt[i] EXCEPT ![e] = new]],
         row' = row, new.outcome # "written", ~WrittenTo(i, e)
  PROVE  RecordsKept
<1>1. receipt \in [Subscribers -> [Events -> Receipts]]
  BY DEF IInv, Typed
<1>2. receipt' \in [Subscribers -> [Events -> Receipts]]
  BY <1>1
<1>3. ASSUME NEW j \in Subscribers, NEW f \in Events
      PROVE  WrittenTo(j, f)' <=> WrittenTo(j, f)
  <2>1. CASE j = i /\ f = e
    BY <1>1, <2>1 DEF WrittenTo
  <2>2. CASE ~(j = i /\ f = e)
    BY <1>1, <2>2 DEF WrittenTo
  <2> QED
    BY <2>1, <2>2
<1> QED
  BY <1>2, <1>3 DEF RecordsKept, IInv, Typed

LEMMA ClaimKeeps ==
  ASSUME IInv, NEW a \in Agents, agent[a].at = "call",
         ReceiptClaimable(agent[a].c, agent[a].ev),
         receipt' = Claimed(agent[a].c, agent[a].ev), row' = row
  PROVE  RecordsKept
<1> DEFINE c == agent[a].c
           e == agent[a].ev
           i == conn[c].sub
           new == [outcome |-> "pending", by |-> c, live |-> TRUE]
<1>1. c \in Conns /\ e \in Events /\ i \in Subscribers
  BY AtHand
<1>2. new \in Receipts
  BY <1>1, Numbers DEF Receipts, Outcomes
<1>3. ~WrittenTo(i, e)
  BY DEF ReceiptClaimable, WrittenTo
<1>4. receipt' = [receipt EXCEPT ![i] = [receipt[i] EXCEPT ![e] = new]]
  BY <1>1 DEF Claimed, IInv, Typed
<1>5. new.outcome # "written"
  OBVIOUS
<1> HIDE DEF c, e, i, new
<1> QED
  BY <1>1, <1>2, <1>3, <1>4, <1>5, ReceiptKeeps

LEMMA ClaimDeliveryFailsStep ==
  ASSUME IInv, NEW a \in Agents, ClaimDeliveryFails(a) PROVE IInv'
<1>1. agent[a].at = "call"
  BY DEF ClaimDeliveryFails, ReadyToDeliver
<1>2. /\ UNCHANGED <<outbox, up>> /\ row' = row /\ faults' \in 0 .. MaxFaults
  BY FaultCounts DEF ClaimDeliveryFails
<1>3. RecordsKept
  <2>1. CASE UNCHANGED receipt
    BY <1>2, <2>1, NothingKept
  <2>2. CASE /\ ReceiptClaimable(agent[a].c, agent[a].ev)
             /\ receipt' = Claimed(agent[a].c, agent[a].ev)
    BY <1>1, <1>2, <2>2, ClaimKeeps
  <2> QED
    BY <2>1, <2>2 DEF ClaimDeliveryFails
<1>4. \E error \in {"repository", "claim lost"} : Failed(a, error, conn[agent[a].c])
  BY DEF ClaimDeliveryFails
<1> QED
  BY <1>1, <1>2, <1>3, <1>4, AtHand, EndStep

LEMMA OverFits ==
  ASSUME IInv, NEW a \in Agents, agent[a].at \in {"call"} \cup Delivering
  PROVE  /\ Over(agent[a].c) \in Sessions /\ Over(agent[a].c).at # "unused"
         /\ Version(Over(agent[a].c), conn[agent[a].c])
<1> DEFINE s == conn[agent[a].c]
<1>1. s \in Sessions /\ Version(s, s) /\ s.at # "unused"
  BY AtHand
<1>2. Last \in 0 .. Last
  BY Domains
<1>3. Version(Advanced(s, Last), s) /\ Advanced(s, Last) \in Sessions
  BY <1>1, <1>2, AdvancedFits
<1>4. Version(Over(agent[a].c), s)
  BY <1>1, <1>3, DroppedFits DEF Over
<1> QED
  BY <1>1, <1>4 DEF Version

LEMMA CompleteTerminalStep ==
  ASSUME IInv, NEW a \in Agents, CompleteTerminal(a) \/ CompleteTerminalFails(a)
  PROVE  IInv'
<1>1. agent[a].at = "complete" /\ agent[a].at \in {"call"} \cup Delivering
  BY DEF CompleteTerminal, CompleteTerminalFails, Delivering
<1>2. /\ UNCHANGED <<outbox, up>> /\ faults' \in 0 .. MaxFaults
  BY FaultCounts DEF CompleteTerminal, CompleteTerminalFails
<1>3. RecordsKept
  <2>1. WrittenTo(conn[agent[a].c].sub, Last)
    BY <1>1 DEF IInv, AgentsInv, DeliverySound
  <2>2. Close(agent[a].c) \/ UNCHANGED <<row, receipt>>
    BY DEF CompleteTerminal, CompleteTerminalFails
  <2> QED
    BY <1>1, <2>1, <2>2, AtHand, CloseKeeps
<1>4. Done(a, Over(agent[a].c)) \/ Failed(a, "repository", Over(agent[a].c))
  BY DEF CompleteTerminal, CompleteTerminalFails
<1> QED
  BY <1>1, <1>2, <1>3, <1>4, OverFits, EndStep

\* A process stops or is started again.
LEMMA ProcessStep ==
  ASSUME IInv, NEW p \in Procs, Stop(p) \/ Restart(p) PROVE IInv'
<1>1. up' \in [Procs -> BOOLEAN] /\ faults' \in 0 .. MaxFaults
  BY FaultCounts, Parts DEF Stop, Down, Restart
<1>2. CASE Restart(p)
  BY <1>1, <1>2, NoSession, NoTask, NothingKept, SameOutbox, QuietStep
     DEF Restart, durable
<1>3. CASE Stop(p)
  <2>1. OutboxFits
    <3>1. CASE outbox' = outbox
      BY <3>1, SameOutbox
    <3>2. CASE outbox' = [outbox EXCEPT !.claim = Unclaimed]
      BY <3>2, ClaimFits DEF Unclaimed
    <3> QED
      BY <1>3, <3>1, <3>2 DEF Stop
  <2>2. RecordsKept
    BY <1>3, NothingKept DEF Stop, Down
  <2>3. /\ agent' = [a \in Agents |-> IF Host(a) = p THEN AtRest ELSE agent[a]]
        /\ conn' = [c \in Conns |->
             IF conn[c].proc = p /\ conn[c].at # "unused"
               THEN Left(conn[c]) ELSE conn[c]]
    BY <1>3 DEF Stop, Down
  <2>4. \A c \in Conns : Version(conn'[c], conn[c])
    <3>1. ASSUME NEW c \in Conns PROVE Version(conn'[c], conn[c])
      <4>1. conn[c] \in Sessions /\ Version(conn[c], conn[c])
        BY Parts, Same
      <4>2. conn[c].at # "unused" => Version(Left(conn[c]), conn[c])
        BY <4>1, LeftFits
      <4> QED
        BY <2>3, <4>1, <4>2
    <3> QED
      BY <3>1
  <2>5. conn' \in [Conns -> Sessions]
    <3>1. \A c \in Conns : conn'[c] \in Sessions
      BY <2>4 DEF Version
    <3>2. conn' = [c \in Conns |-> conn'[c]]
      BY <2>3
    <3> QED
      BY <3>1, <3>2
  <2>6. \A b \in Agents : agent'[b] = agent[b] \/ Quiet(b, agent'[b])
    BY <2>3, AtRestQuiet
  <2>7. agent' \in [Agents -> Tasks]
    BY <2>3, Parts, RestFits
  <2> QED
    BY <1>1, <2>1, <2>2, <2>4, <2>5, <2>6, <2>7, QuietStep
<1> QED
  BY <1>2, <1>3

-----------------------------------------------------------------------------
(* Deliveries that go on *)

\* Agent a takes the next step of its delivery, or begins it with the mutex.
Moves(a, x) ==
  /\ agent' = [agent EXCEPT ![a] = [agent[a] EXCEPT !.at = x]]
  /\ x \in Delivering
  /\ agent[a].at \in {"call"} \cup Delivering
  /\ agent[a].at = "call" => MutexFree(agent[a].c)

LEMMA MovesFit ==
  ASSUME IInv, NEW a \in Agents, NEW x, Moves(a, x), outbox' = outbox,
         \A c \in Conns : Used(c)' <=> Used(c)
  PROVE  /\ agent' \in [Agents -> Tasks]
         /\ \A b \in Agents : TaskFits(b, agent[b])'
         /\ Exclusive'
         /\ \A b \in Agents \ {a} : agent'[b] = agent[b]
         /\ agent'[a].at = x /\ agent'[a].c = agent[a].c
         /\ agent'[a].ev = agent[a].ev
<1>1. agent[a] \in Tasks /\ agent \in [Agents -> Tasks] /\ TaskFits(a, agent[a])
  BY Parts
<1>2. x \in Delivering /\ agent[a].at \in {"call"} \cup Delivering
  BY DEF Moves
<1> DEFINE me == [agent[a] EXCEPT !.at = x]
<1>3. me \in Tasks
  BY <1>1, <1>2 DEF Tasks
<1>4. /\ me.at = x /\ me.c = agent[a].c /\ me.ev = agent[a].ev
      /\ me.upto = agent[a].upto /\ me.todo = agent[a].todo
      /\ (me.initial <=> agent[a].initial)
  BY <1>1 DEF Tasks
<1>5. agent' = [agent EXCEPT ![a] = me]
  BY DEF Moves
<1> HIDE DEF me
<1>6. /\ agent' \in [Agents -> Tasks] /\ agent'[a] = me
      /\ \A b \in Agents \ {a} : agent'[b] = agent[b]
  BY <1>1, <1>3, <1>5
<1>7. TaskFits(a, me)
  BY <1>1, <1>2, <1>3, <1>4 DEF TaskFits, Engaged, Delivering
<1>8. ASSUME NEW b \in Agents PROVE TaskFits(b, agent[b])'
  <2>1. TaskFits(b, agent'[b])
    BY <1>6, <1>7, Parts
  <2>2. outbox'.appended \in Nat /\ outbox.appended <= outbox'.appended
    BY Domains DEF IInv, Typed, Outboxes
  <2> QED
    BY <2>1, <2>2, Parts, TaskKept
<1>9. Exclusive'
  <2>1. ASSUME NEW b \in Agents, b # a, agent[b].at \in Delivering
        PROVE  agent[b].c # agent[a].c
    <3>1. CASE agent[a].at = "call"
      BY <2>1, <3>1 DEF Moves, MutexFree
    <3>2. CASE agent[a].at \in Delivering
      BY <2>1, <3>2 DEF IInv, AgentsInv, Exclusive
    <3> QED
      BY <1>2, <3>1, <3>2
  <2>2. Exclusive
    BY DEF IInv, AgentsInv
  <2>3. agent'[a].c = agent[a].c
    BY <1>4, <1>6
  <2> QED
    BY <1>6, <2>1, <2>2, <2>3 DEF Exclusive
<1> QED
  BY <1>4, <1>6, <1>8, <1>9

\* The delivery is written next, or completes its terminal event.
LEMMA GoOnStep ==
  ASSUME IInv, RecordsKept, UNCHANGED <<outbox, conn, up, faults>>,
         NEW a \in Agents, NEW x, Moves(a, x), x # "acknowledge",
         conn[agent[a].c].init = "done",
         x = "write" => row[conn[agent[a].c].sub].ack < agent[a].ev,
         x = "complete" =>
           Terminal(agent[a].ev) /\ WrittenTo(conn[agent[a].c].sub, Last)
  PROVE  IInv'
<1> DEFINE c == agent[a].c
<1>1. \A d \in Conns : Version(conn'[d], conn[d]) /\ (Used(d)' <=> Used(d))
  BY NoSession DEF Used
<1>2. /\ agent' \in [Agents -> Tasks]
      /\ \A b \in Agents : TaskFits(b, agent[b])'
      /\ Exclusive'
      /\ \A b \in Agents \ {a} : agent'[b] = agent[b]
      /\ agent'[a].at = x /\ agent'[a].c = c /\ agent'[a].ev = agent[a].ev
  BY <1>1, MovesFit
<1>3. c \in Conns /\ conn[c].sub \in Subscribers /\ x \in Delivering
  BY AtHand DEF Moves
<1>4. Typed'
  BY <1>2, Parts DEF Typed, RecordsKept
<1>5. ASSUME NEW b \in Agents PROVE DeliverySound(b)'
  <2>1. CASE b = a
    <3>1. row'[conn[c].sub].ack = row[conn[c].sub].ack
      BY <1>3 DEF RecordsKept
    <3>2. receipt'[conn[c].sub][Last].outcome = "written"
            <=> receipt[conn[c].sub][Last].outcome = "written"
      BY <1>3, TerminalKept DEF WrittenTo
    <3> QED
      BY <1>2, <1>3, <2>1, <3>1, <3>2 DEF DeliverySound, WrittenTo, Terminal, Delivering
  <2>2. CASE b # a
    <3>1. agent[b].at \in Delivering => agent[b].c \in Conns
      BY Parts DEF TaskFits, Engaged
    <3> QED
      BY <1>1, <1>2, <2>2, <3>1, OtherSound
  <2> QED
    BY <2>1, <2>2
<1>6. SessionsInv'
  BY <1>1, SessionKept DEF SessionsInv
<1>7. ASSUME NEW i \in Subscribers PROVE RowSound(i)'
  <2>1. ASSUME NEW d \in Conns, Witness(i, d) PROVE Witness(i, d)'
    <3>1. row'[i].ack = row[i].ack
      BY DEF RecordsKept
    <3>2. ASSUME NEW b \in Agents, agent'[b].at = "write", agent'[b].c = d
          PROVE  agent'[b].ev > row[i].ack
      <4>1. CASE b = a
        <5>1. d = c /\ conn[c].sub = i /\ x = "write"
          BY <1>2, <2>1, <3>2, <4>1 DEF Witness
        <5>2. row[i].ack \in Nat /\ agent[a].ev \in Nat
          <6>1. row[i] \in Rows
            BY Parts DEF Typed
          <6>2. agent[a].ev \in Events
            BY AtHand DEF Moves
          <6> QED
            BY <6>1, <6>2, Domains DEF Rows
        <5> QED
          BY <1>2, <4>1, <5>1, <5>2
      <4>2. CASE b # a
        BY <1>2, <2>1, <3>2, <4>2 DEF Witness
      <4> QED
        BY <4>1, <4>2
    <3> QED
      BY <2>1, <3>1, <3>2 DEF Witness
  <2> QED
    BY <2>1, RowKept
<1> QED
  BY <1>2, <1>4, <1>5, <1>6, <1>7 DEF IInv, AgentsInv, RowsInv

\* A frame is written, or an attempt to write it ends the delivery.
LEMMA ShownStep ==
  ASSUME IInv, RecordsKept, UNCHANGED <<outbox, up>>, faults' \in 0 .. MaxFaults,
         NEW a \in Agents, agent[a].at = "write",
         NEW me, NEW new \in Sessions,
         agent' = [agent EXCEPT ![a] = me],
         conn' = [conn EXCEPT ![agent[a].c] = new],
         new.sub = conn[agent[a].c].sub,
         new.at = conn[agent[a].c].at \/ new.at = "over",
         new.init = conn[agent[a].c].init,
         new.terminal \in {conn[agent[a].c].terminal, "none"},
         conn[agent[a].c].told => new.told,
         new.sent \in {conn[agent[a].c].sent, agent[a].ev},
         \/ Quiet(a, me)
         \/ /\ me = [agent[a] EXCEPT !.at = "acknowledge"]
            /\ new.sent = agent[a].ev /\ (Terminal(agent[a].ev) => new.told)
  PROVE  IInv'
<1> DEFINE c == agent[a].c
<1>1. /\ c \in Conns /\ conn[c].sub \in Subscribers /\ Used(c)
      /\ agent[a].ev \in Events /\ conn \in [Conns -> Sessions]
      /\ agent \in [Agents -> Tasks] /\ agent[a] \in Tasks
  BY AtHand, Parts DEF Delivering
<1>2. DeliverySound(a) /\ SessionSound(c) /\ Exclusive
  BY <1>1 DEF IInv, AgentsInv, SessionsInv
<1>3. conn[c].init = "done" /\ conn[c].at \notin {"unused", "snapshot"}
  BY <1>2 DEF DeliverySound, SessionSound, Delivering
<1>4. /\ conn' \in [Conns -> Sessions] /\ conn'[c] = new
      /\ \A d \in Conns \ {c} : conn'[d] = conn[d] /\ Version(conn'[d], conn[d])
  <2>1. conn' \in [Conns -> Sessions] /\ conn'[c] = new
        /\ \A d \in Conns \ {c} : conn'[d] = conn[d]
    BY <1>1
  <2>2. \A d \in Conns : conn[d] \in Sessions
    BY <1>1
  <2> QED
    BY <2>1, <2>2, Same
<1>5. \A d \in Conns : Used(d)' <=> Used(d)
  BY <1>1, <1>3, <1>4 DEF Used
<1>6. /\ agent' \in [Agents -> Tasks]
      /\ \A b \in Agents : TaskFits(b, agent[b])'
      /\ Exclusive'
      /\ \A b \in Agents \ {a} : agent'[b] = agent[b]
      /\ agent'[a].at # "write"
      /\ \/ agent'[a].at \notin Delivering
         \/ /\ agent'[a].at = "acknowledge" /\ agent'[a].c = c
            /\ agent'[a].ev = agent[a].ev /\ new.sent = agent[a].ev
            /\ Terminal(agent[a].ev) => new.told
  <2>1. CASE Quiet(a, me)
    <3>1. me \in Tasks /\ me.at \notin Delivering /\ TaskFits(a, me)
      BY <2>1 DEF Quiet, TaskFits
    <3>2. /\ agent' \in [Agents -> Tasks] /\ agent'[a] = me
          /\ \A b \in Agents \ {a} : agent'[b] = agent[b]
      BY <1>1, <3>1
    <3>3. ASSUME NEW b \in Agents PROVE TaskFits(b, agent[b])'
      <4>1. TaskFits(b, agent'[b])
        BY <3>1, <3>2, Parts
      <4>2. outbox'.appended \in Nat /\ outbox.appended <= outbox'.appended
        BY Domains DEF IInv, Typed, Outboxes
      <4> QED
        BY <1>5, <4>1, <4>2, Parts, TaskKept
    <3>4. Exclusive'
      BY <1>2, <3>1, <3>2 DEF Exclusive
    <3> QED
      BY <3>1, <3>2, <3>3, <3>4 DEF Delivering
  <2>2. CASE /\ me = [agent[a] EXCEPT !.at = "acknowledge"]
             /\ new.sent = agent[a].ev /\ (Terminal(agent[a].ev) => new.told)
    <3>1. Moves(a, "acknowledge")
      BY <2>2 DEF Moves, Delivering
    <3> QED
      BY <1>5, <2>2, <3>1, MovesFit DEF Delivering
  <2> QED
    BY <2>1, <2>2
<1>7. Typed'
  BY <1>4, <1>6, Parts DEF Typed, RecordsKept
<1>8. ASSUME NEW b \in Agents PROVE DeliverySound(b)'
  <2>1. CASE b = a
    <3>1. CASE agent'[a].at \notin Delivering
      BY <2>1, <3>1 DEF DeliverySound, Delivering
    <3>2. CASE /\ agent'[a].at = "acknowledge" /\ agent'[a].c = c
               /\ agent'[a].ev = agent[a].ev /\ new.sent = agent[a].ev
               /\ Terminal(agent[a].ev) => new.told
      <4>1. agent[a].ev >= agent[a].ev
        BY <1>1, Domains
      <4> QED
        BY <1>3, <1>4, <2>1, <3>2, <4>1 DEF DeliverySound, Terminal
    <3> QED
      BY <1>6, <3>1, <3>2
  <2>2. CASE b # a
    <3>1. agent[b].at \in Delivering => agent[b].c \in Conns \ {c}
      <4>1. agent[a].at \in Delivering
        BY DEF Delivering
      <4> QED
        BY <1>2, <2>2, <4>1, Parts DEF TaskFits, Engaged, Exclusive
    <3> QED
      BY <1>4, <1>6, <2>2, <3>1, OtherSound
  <2> QED
    BY <2>1, <2>2
<1>9. ASSUME NEW d \in Conns PROVE SessionSound(d)'
  <2>1. CASE d # c
    BY <1>4, <2>1, SessionKept
  <2>2. CASE d = c
    <3>1. new.sent # NoSnapshot
      BY <1>1, <1>2, <1>3, Domains DEF SessionSound
    <3>2. receipt'[conn[c].sub][Last].outcome = "written"
            <=> receipt[conn[c].sub][Last].outcome = "written"
      BY <1>1, TerminalKept DEF WrittenTo
    <3> QED
      BY <1>2, <1>3, <1>4, <2>2, <3>1, <3>2 DEF SessionSound, Used, WrittenTo
  <2> QED
    BY <2>1, <2>2
<1>10. ASSUME NEW i \in Subscribers PROVE RowSound(i)'
  <2>1. ASSUME NEW d \in Conns
        PROVE  conn'[d].sub = conn[d].sub /\ (conn[d].told => conn'[d].told)
    BY <1>4
  <2>2. ASSUME NEW d \in Conns, Witness(i, d) PROVE Witness(i, d)'
    <3>1. row'[i].ack = row[i].ack /\ row[i].ack \in Nat
      BY Parts, Domains DEF RecordsKept, Typed, Rows
    <3>2. conn'[d].sent >= row[i].ack
      <4>1. CASE d # c
        BY <1>4, <2>2, <4>1 DEF Witness
      <4>2. CASE d = c
        <5>1. agent[a].ev > row[i].ack /\ conn[d].sent >= row[i].ack
          BY <2>2, <4>2 DEF Witness
        <5> QED
          BY <1>1, <1>4, <3>1, <4>2, <5>1, Domains
      <4> QED
        BY <4>1, <4>2
    <3>3. \A b \in Agents : agent'[b].at = "write" => b # a /\ agent'[b] = agent[b]
      BY <1>6
    <3> QED
      BY <2>1, <2>2, <3>1, <3>2, <3>3 DEF Witness
  <2> QED
    BY <2>1, <2>2, RowKept
<1> QED
  BY <1>6, <1>7, <1>8, <1>9, <1>10 DEF IInv, AgentsInv, SessionsInv, RowsInv

-----------------------------------------------------------------------------
(* A delivery is acknowledged *)

LEMMA AcknowledgedRecords ==
  ASSUME IInv, NEW c \in Conns, NEW e \in Events, NEW i \in Subscribers,
         i = conn[c].sub, Acknowledged(c, e)
  PROVE  /\ row' \in [Subscribers -> Rows]
         /\ receipt' \in [Subscribers -> [Events -> Receipts]]
         /\ row'[i].ack = Max2(row[i].ack, e)
         /\ row'[i].snap = Max2(row[i].snap, e)
         /\ row'[i].conn = row[i].conn /\ (row'[i].closed <=> row[i].closed)
         /\ \A j \in Subscribers \ {i} : row'[j] = row[j]
         /\ \A j \in Subscribers, f \in Events :
              WrittenTo(j, f)' <=> WrittenTo(j, f) \/ (j = i /\ f = e)
<1> DEFINE new == [row[i] EXCEPT !.ack = Max2(row[i].ack, e),
                                 !.snap = Max2(row[i].snap, e)]
           written == [outcome |-> "written", by |-> 0, live |-> FALSE]
<1>1. /\ row \in [Subscribers -> Rows] /\ row[i] \in Rows
      /\ receipt \in [Subscribers -> [Events -> Receipts]]
  BY DEF IInv, Typed
<1>2. row' = [row EXCEPT ![i] = new]
  BY <1>1 DEF Acknowledged, Rows
<1>3. Max2(row[i].ack, e) \in 0 .. Last /\ Max2(row[i].snap, e) \in 0 .. Last
  <2>1. row[i].ack \in 0 .. Last /\ row[i].snap \in 0 .. Last /\ e \in 0 .. Last
    BY <1>1, Numbers DEF Rows
  <2> QED
    BY <2>1 DEF Max2
<1>4. new \in Rows
  BY <1>1, <1>3 DEF Rows
<1>5. /\ new.ack = Max2(row[i].ack, e) /\ new.snap = Max2(row[i].snap, e)
      /\ new.conn = row[i].conn /\ (new.closed <=> row[i].closed)
  BY <1>1 DEF Rows
<1>6. written \in Receipts /\ written.outcome = "written"
  BY Numbers DEF Receipts, Outcomes
<1>7. receipt' = [receipt EXCEPT ![i] = [receipt[i] EXCEPT ![e] = written]]
  BY <1>1 DEF Acknowledged
<1> HIDE DEF new, written
<1>8. /\ row' \in [Subscribers -> Rows] /\ row'[i] = new
      /\ \A j \in Subscribers \ {i} : row'[j] = row[j]
  BY <1>1, <1>2, <1>4
<1>9. receipt' \in [Subscribers -> [Events -> Receipts]]
  BY <1>1, <1>6, <1>7
<1>10. \A j \in Subscribers, f \in Events :
         WrittenTo(j, f)' <=> WrittenTo(j, f) \/ (j = i /\ f = e)
  BY <1>1, <1>6, <1>7 DEF WrittenTo
<1> QED
  BY <1>5, <1>8, <1>9, <1>10

\* What an acknowledgement leaves of the agent: it delivers no more, or it has
\* the terminal event to complete.
LEMMA AcknowledgedStep ==
  ASSUME IInv, UNCHANGED <<outbox, up>>, faults' \in 0 .. MaxFaults,
         NEW a \in Agents, agent[a].at = "acknowledge",
         NEW c \in Conns, NEW e \in Events, NEW i \in Subscribers,
         c = agent[a].c, e = agent[a].ev, i = conn[c].sub,
         OwnsReceipt(c, e), Acknowledged(c, e),
         \A d \in Conns : Version(conn'[d], conn[d]),
         conn' \in [Conns -> Sessions], agent' \in [Agents -> Tasks],
         \A b \in Agents : TaskFits(b, agent[b])',
         \A b \in Agents \ {a} : agent'[b] = agent[b],
         \/ agent'[a].at \notin Delivering
         \/ /\ agent'[a].at = "complete" /\ agent'[a].c = c
            /\ agent'[a].ev = e /\ Terminal(e)
  PROVE  IInv'
<1>1. /\ c \in Conns /\ e \in Events /\ i \in Subscribers /\ e \in 0 .. Last
      /\ DeliverySound(a) /\ Exclusive
  BY AtHand DEF Delivering, IInv, AgentsInv
<1>2. /\ conn[c].sent >= e /\ (Terminal(e) => conn[c].told) /\ conn[c].init = "done"
      /\ conn[c].sent \in Int
  <2>1. conn[c].sent \in -1 .. Last
    BY Parts, Domains DEF Sessions
  <2>2. conn[c].sent \in Int
    BY <2>1, Domains
  <2> QED
    BY <1>1, <2>2 DEF DeliverySound, Delivering
<1>3. /\ row' \in [Subscribers -> Rows]
      /\ receipt' \in [Subscribers -> [Events -> Receipts]]
      /\ row'[i].ack = Max2(row[i].ack, e)
      /\ row'[i].snap = Max2(row[i].snap, e)
      /\ row'[i].conn = row[i].conn /\ (row'[i].closed <=> row[i].closed)
      /\ \A j \in Subscribers \ {i} : row'[j] = row[j]
      /\ \A j \in Subscribers, f \in Events :
           WrittenTo(j, f)' <=> WrittenTo(j, f) \/ (j = i /\ f = e)
  BY <1>1, AcknowledgedRecords
<1>4. \A j \in Subscribers : row[j].ack \in 0 .. Last /\ row[j].snap \in 0 .. Last
  BY DEF IInv, Typed, Rows
<1>5. /\ \A d \in Conns : /\ conn'[d].sub = conn[d].sub /\ conn[d].sub \in Subscribers
                          /\ conn'[d].sent = conn[d].sent
                          /\ conn'[d].told = conn[d].told
                          /\ conn[d].init = "done" => conn'[d].init = "done"
                          /\ Used(d)' <=> Used(d)
  BY Parts DEF Version, Sessions, Used
<1>6. Last \in Events /\ \A j \in Subscribers : WrittenTo(j, Last) => WrittenTo(j, Last)'
  BY <1>3, Domains
<1>7. Typed'
  BY <1>3, Parts DEF Typed
<1>8. Exclusive'
  <2>1. agent'[a].at \in Delivering => agent[a].at \in Delivering /\ agent'[a].c = agent[a].c
    BY DEF Delivering
  <2> QED
    BY <1>1, <2>1 DEF Exclusive
<1>9. ASSUME NEW b \in Agents PROVE DeliverySound(b)'
  <2>1. CASE b = a
    <3>1. CASE agent'[a].at \notin Delivering
      BY <2>1, <3>1 DEF DeliverySound, Delivering
    <3>2. CASE /\ agent'[a].at = "complete" /\ agent'[a].c = c
               /\ agent'[a].ev = e /\ Terminal(e)
      <4>1. WrittenTo(i, Last)'
        BY <1>1, <1>3, <3>2 DEF Terminal
      <4>2. receipt'[conn[c].sub][Last].outcome = "written"
        BY <4>1 DEF WrittenTo
      <4> QED
        BY <1>1, <1>2, <1>5, <2>1, <3>2, <4>2 DEF DeliverySound, Terminal, WrittenTo
    <3> QED
      BY <3>1, <3>2
  <2>2. CASE b # a
    <3> SUFFICES ASSUME agent[b].at \in Delivering PROVE DeliverySound(b)'
      BY <2>2 DEF DeliverySound, Delivering
    <3> DEFINE x == agent[b].c
    <3>1. x \in Conns /\ x # c /\ DeliverySound(b) /\ agent'[b] = agent[b]
      <4>1. agent[a].at \in Delivering
        BY DEF Delivering
      <4> QED
        BY <1>1, <2>2, <4>1, Parts DEF TaskFits, Engaged, Exclusive, IInv, AgentsInv
    <3>2. conn[x].init = "done" /\ conn'[x].init = "done" /\ conn'[x].sub = conn[x].sub
          /\ conn'[x].sent = conn[x].sent /\ conn'[x].told = conn[x].told
      BY <1>5, <3>1 DEF DeliverySound
    <3>3. Fenced(x)' => Fenced(x) /\ row'[conn[x].sub] = row[conn[x].sub]
      <4>1. CASE conn[x].sub = i
        <5>1. row[i].conn = c
          BY DEF OwnsReceipt, Fenced
        <5> QED
          BY <1>3, <3>1, <3>2, <4>1, <5>1 DEF Fenced
      <4>2. CASE conn[x].sub # i
        <5>1. conn[x].sub \in Subscribers \ {i}
          BY <1>5, <3>1, <4>2
        <5>2. row'[conn[x].sub] = row[conn[x].sub]
          BY <1>3, <5>1
        <5> QED
          BY <3>1, <3>2, <5>2 DEF Fenced
      <4> QED
        BY <4>1, <4>2
    <3>4. WrittenTo(conn[x].sub, Last) => receipt'[conn[x].sub][Last].outcome = "written"
      BY <1>5, <1>6, <3>1 DEF WrittenTo
    <3>5. agent[b].at = "write" /\ Fenced(x)' => row'[conn[x].sub].ack < agent[b].ev
      BY <3>1, <3>3 DEF DeliverySound
    <3> QED
      BY <3>1, <3>2, <3>4, <3>5 DEF DeliverySound, Terminal, WrittenTo
  <2> QED
    BY <2>1, <2>2
<1>10. ASSUME NEW d \in Conns PROVE SessionSound(d)'
  <2>1. SessionSound(d) /\ Version(conn'[d], conn[d])
    BY Parts
  <2>2. WrittenTo(conn[d].sub, Last) => receipt'[conn[d].sub][Last].outcome = "written"
    BY <1>5, <1>6 DEF WrittenTo
  <2> QED
    BY <2>1, <2>2 DEF SessionSound, Version, Used, WrittenTo
<1>11. ASSUME NEW j \in Subscribers PROVE RowSound(j)'
  <2>1. RowSound(j)
    BY DEF IInv, RowsInv
  <2>2. CASE j # i
    <3>1. row'[j] = row[j] /\ (WrittenTo(j, Last)' <=> WrittenTo(j, Last))
      BY <1>3, <1>6, <2>2
    <3>2. ASSUME NEW d \in Conns, Witness(j, d) PROVE Witness(j, d)'
      <4>1. \A b \in Agents : agent'[b].at = "write" => b # a /\ agent'[b] = agent[b]
        BY DEF Delivering
      <4> QED
        BY <1>5, <3>1, <3>2, <4>1 DEF Witness
    <3>3. row'[j].ack > 0 => \E d \in Conns : Witness(j, d)'
      BY <2>1, <3>1, <3>2 DEF RowSound
    <3>4. WrittenTo(j, Last)' => \E d \in Conns : conn'[d].sub = j /\ conn'[d].told
      BY <1>5, <2>1, <3>1 DEF RowSound
    <3> QED
      BY <2>1, <3>1, <3>3, <3>4 DEF RowSound
  <2>3. CASE j = i
    <3>1. row'[i].ack <= row'[i].snap
      <4>1. row[i].ack \in Int /\ row[i].snap \in Int /\ e \in Int
        BY <1>1, <1>4
      <4>2. row[i].ack <= row[i].snap
        BY <2>1, <2>3 DEF RowSound
      <4>3. row'[i].ack = Max2(row[i].ack, e) /\ row'[i].snap = Max2(row[i].snap, e)
        BY <1>3
      <4> QED
        BY <4>1, <4>2, <4>3 DEF Max2
    <3>2. row'[i].ack = Last => WrittenTo(i, Last)'
      <4>1. row'[i].ack = row[i].ack \/ row'[i].ack = e
        BY <1>3 DEF Max2
      <4> QED
        BY <1>1, <1>3, <1>6, <2>1, <2>3, <4>1 DEF RowSound
    <3>3. row'[i].closed => WrittenTo(i, Last)'
      BY <1>3, <1>6, <2>1, <2>3 DEF RowSound
    <3>4. WrittenTo(i, Last)' => \E d \in Conns : conn'[d].sub = i /\ conn'[d].told
      <4>1. WrittenTo(i, Last)' => WrittenTo(i, Last) \/ e = Last
        BY <1>1, <1>3, <1>6
      <4>2. e = Last => conn'[c].sub = i /\ conn'[c].told
        BY <1>1, <1>2, <1>5 DEF Terminal
      <4> QED
        BY <1>1, <1>5, <2>1, <2>3, <4>1, <4>2 DEF RowSound
    <3>5. row'[i].ack > 0 => \E d \in Conns : Witness(i, d)'
      <4>1. \A b \in Agents : agent'[b].at = "write" => b # a /\ agent'[b] = agent[b]
        BY DEF Delivering
      <4>2. CASE row[i].ack < e
        <5>1. row'[i].ack = e
          BY <1>3, <4>2 DEF Max2
        <5>2. \A b \in Agents : agent'[b].at = "write" => agent'[b].c # c
          <6>1. agent[a].at \in Delivering
            BY DEF Delivering
          <6> QED
            BY <1>1, <4>1, <6>1 DEF Exclusive, Delivering
        <5>3. Witness(i, c)'
          BY <1>1, <1>2, <1>5, <5>1, <5>2 DEF Witness
        <5> QED
          BY <1>1, <5>3
      <4>3. CASE ~(row[i].ack < e)
        <5>1. row'[i].ack = row[i].ack
          BY <1>3, <4>3 DEF Max2
        <5>2. \A d \in Conns : Witness(i, d) => Witness(i, d)'
          BY <1>5, <4>1, <5>1 DEF Witness
        <5> QED
          BY <2>1, <2>3, <5>1, <5>2 DEF RowSound
      <4> QED
        BY <4>2, <4>3
    <3> QED
      BY <2>3, <3>1, <3>2, <3>3, <3>4, <3>5 DEF RowSound
  <2> QED
    BY <2>2, <2>3
<1> QED
  BY <1>7, <1>8, <1>9, <1>10, <1>11 DEF IInv, AgentsInv, SessionsInv, RowsInv

\* Resolving a claim or an acknowledgement that was refused.
LEMMA ResolvedStep ==
  ASSUME IInv, UNCHANGED <<durable, up>>, faults' = faults,
         NEW a \in Agents, agent[a].at \in {"call", "acknowledge"},
         agent[a].at = "call" => MutexFree(agent[a].c),
         conn[agent[a].c].init = "done", Resolved(a)
  PROVE  IInv'
<1> DEFINE c == agent[a].c
           e == agent[a].ev
           i == conn[c].sub
<1>1. /\ agent[a].at \in {"call"} \cup Delivering /\ c \in Conns /\ e \in Events
      /\ i \in Subscribers /\ conn[c] \in Sessions /\ Version(conn[c], conn[c])
      /\ conn[c].at # "unused"
  <2>1. agent[a].at \in {"call"} \cup Delivering
    BY DEF Delivering
  <2> QED
    BY <2>1, AtHand
<1>2. /\ RecordsKept /\ UNCHANGED <<outbox, up>> /\ faults' \in 0 .. MaxFaults
  BY NothingKept, FaultCounts DEF durable
<1>3. ASSUME NEW f \in 0 .. Last, Done(a, Advanced(conn[c], f)) PROVE IInv'
  <2>1. Version(Advanced(conn[c], f), conn[c]) /\ Advanced(conn[c], f) \in Sessions
    BY <1>1, AdvancedFits
  <2>2. Advanced(conn[c], f).at # "unused"
    BY <1>1, <2>1 DEF Version
  <2> QED
    BY <1>1, <1>2, <1>3, <2>1, <2>2, EndStep
<1>4. CASE Done(a, Dropped(conn[c]))
  <2>1. Version(Dropped(conn[c]), conn[c])
    BY <1>1, DroppedFits
  <2>2. Dropped(conn[c]) \in Sessions /\ Dropped(conn[c]).at # "unused"
    BY <1>1, <2>1 DEF Version
  <2> QED
    BY <1>1, <1>2, <1>4, <2>1, <2>2, EndStep
<1>5. CASE receipt[i][e].outcome = "written" /\ Completed(a, c)
  <2>1. CASE Terminal(e)
    <3>1. Moves(a, "complete") /\ UNCHANGED conn
      <4>1. agent' = [agent EXCEPT ![a] = [agent[a] EXCEPT !.at = "complete"]] /\ UNCHANGED conn
        BY <1>5, <2>1, Parts DEF Completed
      <4> QED
        BY <1>1, <4>1 DEF Moves, Delivering
    <3>2. Terminal(e) /\ WrittenTo(i, Last)
      BY <1>5, <2>1 DEF Terminal, WrittenTo
    <3>3. UNCHANGED <<outbox, conn, up, faults>>
      BY <1>2, <3>1
    <3> QED
      BY <1>2, <3>1, <3>2, <3>3, GoOnStep
  <2>2. CASE ~Terminal(e)
    <3>1. Done(a, Advanced(conn[c], e))
      BY <1>5, <2>2 DEF Completed
    <3> QED
      BY <1>1, <1>3, <3>1, Numbers
  <2> QED
    BY <2>1, <2>2
<1>6. CASE Done(a, Advanced(conn[c], row[i].ack))
  <2>1. row[i].ack \in 0 .. Last
    BY <1>1, Parts DEF Typed, Rows
  <2> QED
    BY <1>3, <1>6, <2>1
<1>7. CASE Failed(a, "claim lost", conn[c])
  BY <1>1, <1>2, <1>7, EndStep
<1> QED
  BY <1>4, <1>5, <1>6, <1>7 DEF Resolved

LEMMA ClaimDeliveryStep ==
  ASSUME IInv, NEW a \in Agents, ClaimDelivery(a) PROVE IInv'
<1> DEFINE c == agent[a].c
           e == agent[a].ev
           i == conn[c].sub
<1>1. /\ agent[a].at = "call" /\ MutexFree(c) /\ conn[c].init \notin {"wait", "aborted"}
      /\ conn[c].registered /\ UNCHANGED <<outbox, row, up, faults>>
  BY DEF ClaimDelivery, ReadyToDeliver, Initialized, Needed, SessionActive
<1>2. /\ c \in Conns /\ e \in Events /\ i \in Subscribers /\ conn[c] \in Sessions
      /\ SessionSound(c)
  BY <1>1, AtHand, Parts
<1>3. conn[c].init = "done"
  BY <1>1, <1>2 DEF SessionSound, Sessions, Used
<1>4. CASE ReceiptClaimable(c, e)
  <2>1. /\ receipt' = Claimed(c, e) /\ agent' = [agent EXCEPT ![a].at = "write"]
        /\ UNCHANGED conn
    BY <1>4 DEF ClaimDelivery
  <2>2. RecordsKept
    BY <1>1, <1>4, <2>1, ClaimKeeps
  <2>3. Moves(a, "write")
    <3>1. agent' = [agent EXCEPT ![a] = [agent[a] EXCEPT !.at = "write"]]
      BY <2>1, Parts
    <3> QED
      BY <1>1, <3>1 DEF Moves, Delivering
  <2>4. row[i].ack < e
    <3>1. row[i] \in Rows /\ RowSound(i)
      BY <1>2, Parts DEF Typed, IInv, RowsInv
    <3>2. row[i].ack \in 0 .. Last /\ row[i].snap \in 0 .. Last
      BY <3>1 DEF Rows
    <3>3. CASE row[i].snap < e
      <4>1. row[i].ack <= row[i].snap /\ e \in Int
        BY <1>2, <3>1, Domains DEF RowSound
      <4> QED
        BY <3>2, <3>3, <4>1
    <3>4. CASE e = Last
      <4>1. ~WrittenTo(i, Last)
        BY <1>4, <3>4 DEF ReceiptClaimable, WrittenTo
      <4>2. row[i].ack # Last
        BY <3>1, <4>1 DEF RowSound
      <4> QED
        BY <3>2, <3>4, <4>2, DeliveryAssumption
    <3> QED
      BY <1>4, <3>3, <3>4 DEF ReceiptClaimable, Terminal
  <2>5. UNCHANGED <<outbox, conn, up, faults>>
    BY <1>1, <2>1
  <2> QED
    BY <1>3, <2>2, <2>3, <2>4, <2>5, GoOnStep
<1>5. CASE ~ReceiptClaimable(c, e)
  <2>1. Resolved(a) /\ UNCHANGED receipt
    BY <1>5 DEF ClaimDelivery
  <2>2. UNCHANGED durable
    BY <1>1, <2>1 DEF durable
  <2> QED
    BY <1>1, <1>3, <2>1, <2>2, ResolvedStep
<1> QED
  BY <1>4, <1>5

LEMMA WriteStep ==
  ASSUME IInv, NEW a \in Agents, Write(a) PROVE IInv'
<1> DEFINE c == agent[a].c
           e == agent[a].ev
           new == [conn[c] EXCEPT !.sent = e, !.told = conn[c].told \/ Terminal(e)]
           me == [agent[a] EXCEPT !.at = "acknowledge"]
<1>1. /\ agent[a].at = "write" /\ UNCHANGED <<outbox, row, receipt, up, faults>>
  BY DEF Write, durable
<1>2. /\ c \in Conns /\ e \in Events /\ conn[c] \in Sessions /\ Typed
      /\ e \in NoSnapshot .. Last
  <2>1. agent[a].at \in {"call"} \cup Delivering
    BY <1>1 DEF Delivering
  <2>2. c \in Conns /\ e \in Events /\ conn[c] \in Sessions /\ Typed
    BY <2>1, AtHand
  <2> QED
    BY <2>2, Domains
<1>3. agent' = [agent EXCEPT ![a] = me]
  BY Parts DEF Write
<1>4. conn' = [conn EXCEPT ![c] = new]
  BY <1>2 DEF Write, Typed, Sessions
<1>5. new \in Sessions
  BY <1>2 DEF Sessions
<1>6. /\ new.sub = conn[c].sub /\ new.at = conn[c].at /\ new.init = conn[c].init
      /\ new.terminal = conn[c].terminal /\ (conn[c].told => new.told)
      /\ new.sent = e /\ (Terminal(e) => new.told)
  BY <1>2 DEF Sessions
<1>7. me = [agent[a] EXCEPT !.at = "acknowledge"]
  OBVIOUS
<1>8. RecordsKept /\ faults' \in 0 .. MaxFaults
  BY <1>1, NothingKept, FaultCounts
<1> HIDE DEF new, me
<1> QED
  BY <1>1, <1>3, <1>4, <1>5, <1>6, <1>7, <1>8, ShownStep

LEMMA WriteFailsStep ==
  ASSUME IInv, NEW a \in Agents, WriteFails(a) PROVE IInv'
<1> DEFINE c == agent[a].c
           e == agent[a].ev
           i == conn[c].sub
<1>1. /\ agent[a].at = "write" /\ UNCHANGED <<outbox, row, up>>
      /\ faults' \in 0 .. MaxFaults
  BY FaultCounts DEF WriteFails
<1>2. /\ agent[a].at \in {"call"} \cup Delivering
      /\ TaskFits(a, agent[a]) /\ c \in Conns /\ e \in Events /\ i \in Subscribers
      /\ conn[c] \in Sessions /\ conn[c].at # "unused" /\ Typed
      /\ e \in NoSnapshot .. Last
  <2>1. agent[a].at \in {"call"} \cup Delivering
    BY <1>1 DEF Delivering
  <2>2. /\ TaskFits(a, agent[a]) /\ c \in Conns /\ e \in Events /\ i \in Subscribers
        /\ conn[c] \in Sessions /\ conn[c].at # "unused" /\ Typed
    BY <2>1, AtHand
  <2> QED
    BY <2>1, <2>2, Domains
<1>3. PICK open \in BOOLEAN, sent \in {conn[c].sent, e} :
        LET session == [conn[c] EXCEPT !.open = conn[c].open /\ open, !.sent = sent] IN
        IF OwnsReceipt(c, e)
          THEN /\ receipt' = [receipt EXCEPT ![i][e].by = 0, ![i][e].live = FALSE]
               /\ Failed(a, "write", session)
          ELSE UNCHANGED receipt /\ Done(a, Dropped(session))
  BY <1>2 DEF WriteFails, Sessions
<1> DEFINE session == [conn[c] EXCEPT !.open = conn[c].open /\ open, !.sent = sent]
<1>4. /\ session \in Sessions /\ session.at = conn[c].at /\ session.sub = conn[c].sub
      /\ session.init = conn[c].init /\ session.terminal = conn[c].terminal
      /\ (session.told <=> conn[c].told) /\ session.sent = sent
  BY <1>2 DEF Sessions
<1>5. \/ /\ OwnsReceipt(c, e)
         /\ receipt' = [receipt EXCEPT ![i][e].by = 0, ![i][e].live = FALSE]
         /\ Failed(a, "write", session)
      \/ UNCHANGED receipt /\ Done(a, Dropped(session))
  BY <1>3
<1> HIDE DEF session
<1>6. Version(session, session) /\ session.at # "unused"
  BY <1>2, <1>4, Same
<1>7. \E s \in {session, Dropped(session)} : Handed(a, s) /\ s \in Sessions /\ Version(s, session)
  <2>1. Version(Dropped(session), session)
    BY <1>4, <1>6, DroppedFits
  <2>2. Dropped(session) \in Sessions /\ Dropped(session).at # "unused"
    BY <1>6, <2>1 DEF Version
  <2>3. CASE Failed(a, "write", session)
    BY <1>2, <1>4, <1>6, <2>3, FailedHands
  <2>4. CASE Done(a, Dropped(session))
    BY <1>2, <2>1, <2>2, <2>4, DoneHands
  <2> QED
    BY <1>5, <2>3, <2>4
<1>s. PICK s \in {session, Dropped(session)} :
        Handed(a, s) /\ s \in Sessions /\ Version(s, session)
  BY <1>7
<1>8. PICK me, new :
        /\ agent' = [agent EXCEPT ![a] = me] /\ Quiet(a, me)
        /\ conn' = [conn EXCEPT ![c] = new] /\ Version(new, s)
  BY <1>s DEF Handed
<1>9. Version(new, session) /\ new \in Sessions
  <2>1. new \in Sessions
    BY <1>8 DEF Version
  <2> QED
    BY <1>s, <1>4, <1>8, <2>1, VersionOfVersion
<1>10. new.init = conn[c].init
  <2>1. DeliverySound(a)
    BY DEF IInv, AgentsInv
  <2>2. conn[c].init = "done"
    BY <1>1, <2>1 DEF DeliverySound, Delivering
  <2> QED
    BY <1>4, <1>9, <2>2 DEF Version
<1>11. /\ new.sub = conn[c].sub /\ (new.at = conn[c].at \/ new.at = "over")
       /\ new.terminal \in {conn[c].terminal, "none"}
       /\ (conn[c].told => new.told) /\ new.sent \in {conn[c].sent, e}
  BY <1>4, <1>9 DEF Version
<1>12. RecordsKept
  <2>1. CASE UNCHANGED receipt
    BY <1>1, <2>1, NothingKept
  <2>2. CASE /\ OwnsReceipt(c, e)
             /\ receipt' = [receipt EXCEPT ![i][e].by = 0, ![i][e].live = FALSE]
    <3> DEFINE r == [receipt[i][e] EXCEPT !.by = 0, !.live = FALSE]
    <3>1. receipt[i][e] \in Receipts /\ receipt[i][e].outcome = "pending"
      BY <1>2, <2>2 DEF Typed, OwnsReceipt
    <3>2. receipt' = [receipt EXCEPT ![i] = [receipt[i] EXCEPT ![e] = r]]
      BY <1>2, <2>2, <3>1 DEF Typed, Receipts
    <3>3. r \in Receipts /\ r.outcome = "pending"
      BY <3>1, Numbers DEF Receipts
    <3>4. ~WrittenTo(i, e) /\ r.outcome # "written" /\ row' = row
      BY <1>1, <3>1, <3>3 DEF WrittenTo
    <3> HIDE DEF r
    <3> QED
      BY <1>2, <3>2, <3>3, <3>4, ReceiptKeeps
  <2> QED
    BY <1>5, <2>1, <2>2
<1> QED
  BY <1>1, <1>8, <1>9, <1>10, <1>11, <1>12, ShownStep

LEMMA AcknowledgeStep ==
  ASSUME IInv, NEW a \in Agents, Acknowledge(a) \/ AcknowledgeFails(a)
  PROVE  IInv'
<1> DEFINE c == agent[a].c
           e == agent[a].ev
           i == conn[c].sub
<1>1. /\ agent[a].at = "acknowledge" /\ UNCHANGED <<outbox, up>>
      /\ faults' \in 0 .. MaxFaults
  BY FaultCounts DEF Acknowledge, AcknowledgeFails
<1>2. /\ agent[a].at \in {"call"} \cup Delivering
      /\ TaskFits(a, agent[a]) /\ c \in Conns /\ e \in Events /\ i \in Subscribers
      /\ conn[c] \in Sessions /\ conn[c].at # "unused" /\ Typed
      /\ Version(conn[c], conn[c]) /\ e \in 0 .. Last
  <2>1. agent[a].at \in {"call"} \cup Delivering
    BY <1>1 DEF Delivering
  <2> QED
    BY <2>1, AtHand
<1>3. conn[c].init = "done"
  BY <1>1 DEF IInv, AgentsInv, DeliverySound, Delivering
<1>4. CASE OwnsReceipt(c, e) /\ Acknowledged(c, e)
  <2>1. ASSUME NEW s \in Sessions, Version(s, conn[c]), Handed(a, s) PROVE IInv'
    <3>1. PICK me, new :
            /\ agent' = [agent EXCEPT ![a] = me] /\ Quiet(a, me)
            /\ conn' = [conn EXCEPT ![c] = new] /\ Version(new, s)
      BY <2>1 DEF Handed
    <3>2. Version(new, conn[c])
      <4>1. new \in Sessions
        BY <3>1 DEF Version
      <4> QED
        BY <1>2, <2>1, <3>1, <4>1, VersionOfVersion
    <3>3. /\ conn' \in [Conns -> Sessions]
          /\ \A d \in Conns : Version(conn'[d], conn[d])
      BY <1>2, <3>1, <3>2, OneSession
    <3>4. /\ agent' \in [Agents -> Tasks]
          /\ \A b \in Agents : agent'[b] = agent[b] \/ Quiet(b, agent'[b])
      BY <3>1, OneTask
    <3>5. /\ agent'[a] = me /\ \A b \in Agents \ {a} : agent'[b] = agent[b]
      BY <3>1, Parts
    <3>6. ASSUME NEW b \in Agents PROVE TaskFits(b, agent[b])'
      <4>1. TaskFits(b, agent'[b])
        BY <3>4, Parts DEF Quiet
      <4>2. \A d \in Conns : Used(d) => Used(d)'
        BY <3>3 DEF Version, Used
      <4>3. outbox'.appended \in Nat /\ outbox.appended <= outbox'.appended
        BY <1>1, Domains DEF IInv, Typed, Outboxes
      <4> QED
        BY <1>2, <4>1, <4>2, <4>3, TaskKept
    <3>7. agent'[a].at \notin Delivering
      BY <3>1, <3>5 DEF Quiet
    <3> QED
      BY <1>1, <1>2, <1>4, <3>3, <3>4, <3>5, <3>6, <3>7, AcknowledgedStep
  <2>2. CASE Failed(a, "repository", conn[c])
    BY <1>2, <2>1, <2>2, FailedHands
  <2>3. CASE Terminal(e) /\ Completed(a, c)
    <3>1. agent' = [agent EXCEPT ![a] = [agent[a] EXCEPT !.at = "complete"]] /\ UNCHANGED conn
      BY <2>3, Parts DEF Completed
    <3>2. Moves(a, "complete")
      BY <1>1, <3>1 DEF Moves, Delivering
    <3>3. /\ conn' \in [Conns -> Sessions]
          /\ \A d \in Conns : Version(conn'[d], conn[d]) /\ (Used(d)' <=> Used(d))
      BY <3>1, NoSession DEF Used
    <3>4. /\ agent' \in [Agents -> Tasks]
          /\ \A b \in Agents : TaskFits(b, agent[b])'
          /\ \A b \in Agents \ {a} : agent'[b] = agent[b]
          /\ agent'[a].at = "complete" /\ agent'[a].c = c /\ agent'[a].ev = e
      BY <1>1, <3>2, <3>3, MovesFit
    <3> QED
      BY <1>1, <1>2, <1>4, <2>3, <3>3, <3>4, AcknowledgedStep
  <2>4. CASE ~Terminal(e) /\ Completed(a, c)
    <3>1. Done(a, Advanced(conn[c], e))
      BY <2>4 DEF Completed
    <3>2. Version(Advanced(conn[c], e), conn[c]) /\ Advanced(conn[c], e) \in Sessions
      BY <1>2, AdvancedFits
    <3>3. Advanced(conn[c], e).at # "unused"
      BY <1>2, <3>2 DEF Version
    <3>4. Handed(a, Advanced(conn[c], e))
      BY <1>2, <3>1, <3>2, <3>3, DoneHands
    <3> QED
      BY <2>1, <3>2, <3>4
  <2>5. CASE ~OwnsReceipt(c, e)
    BY <1>4, <2>5
  <2> QED
    BY <1>4, <2>2, <2>3, <2>4 DEF Acknowledge, AcknowledgeFails
<1>5. CASE UNCHANGED <<receipt, row>> /\ Resolved(a) /\ faults' = faults
  <2>1. UNCHANGED <<durable, up>>
    BY <1>1, <1>5 DEF durable
  <2> QED
    BY <1>1, <1>3, <1>5, <2>1, ResolvedStep
<1>6. CASE UNCHANGED <<receipt, row>> /\ Failed(a, "repository", conn[c])
  <2>1. RecordsKept
    BY <1>6, NothingKept
  <2> QED
    BY <1>1, <1>2, <1>6, <2>1, EndStep
<1> QED
  BY <1>4, <1>5, <1>6 DEF Acknowledge, AcknowledgeFails

-----------------------------------------------------------------------------
(* A connection is made, and its snapshot written *)

LEMMA WriteSnapshotStep ==
  ASSUME IInv, NEW c \in Conns, WriteSnapshot(c) PROVE IInv'
<1> DEFINE a == Serve(c)
           new == [conn[c] EXCEPT
                     !.sent = conn[c].cursor,
                     !.init = IF conn[c].init = "wait" THEN "done" ELSE conn[c].init,
                     !.at = IF conn[c].terminal = "written" THEN "ending" ELSE "stream",
                     !.terminal = "none"]
           final == [AtRest EXCEPT !.at = "call", !.c = c, !.ev = Last, !.upto = Last,
                                   !.initial = TRUE]
           me == CASE conn[c].terminal = "written" -> AtRest
                   [] conn[c].terminal = "pending" -> final
                   [] conn[c].terminal = "none" -> Listing(c)
<1>1. /\ conn[c].at = "snapshot" /\ UNCHANGED <<outbox, row, receipt, up, faults>>
      /\ a \in Agents /\ a[1] = "serve" /\ a[2] = c
  BY Domains DEF WriteSnapshot, durable
<1>2. /\ conn[c] \in Sessions /\ SessionSound(c) /\ conn \in [Conns -> Sessions]
      /\ agent \in [Agents -> Tasks]
  BY Parts
<1>3. conn[c].sent = NoSnapshot /\ ~conn[c].told /\ conn[c].init # "done"
      /\ conn[c].init # "none"
  BY <1>1, <1>2 DEF SessionSound
<1>4. conn' = [conn EXCEPT ![c] = new]
  BY <1>2 DEF WriteSnapshot, Sessions
<1>5. conn[c].cursor \in 0 .. Last /\ conn[c].cursor \in NoSnapshot .. Last
      /\ conn[c].cursor # NoSnapshot
  <2>1. conn[c].cursor \in 0 .. Last
    BY <1>2 DEF Sessions
  <2> QED
    BY <2>1, Domains
<1>6. new \in Sessions
  BY <1>2, <1>5 DEF Sessions, Places
<1>7. /\ new.sent = conn[c].cursor /\ new.sub = conn[c].sub
      /\ new.at = (IF conn[c].terminal = "written" THEN "ending" ELSE "stream")
      /\ new.terminal = "none" /\ (new.told <=> conn[c].told)
      /\ new.init # "none"
  BY <1>2, <1>3 DEF Sessions
<1>8. agent' = [agent EXCEPT ![a] = me]
  BY DEF WriteSnapshot, Listing
<1>9. Last \in Events /\ Last \in 0 .. Last /\ Last <= Last /\ c \in 0 .. MaxConn
  BY Domains
<1> HIDE DEF new, a
<1>10. /\ conn' \in [Conns -> Sessions] /\ conn'[c] = new
       /\ \A d \in Conns \ {c} : conn'[d] = conn[d] /\ Version(conn'[d], conn[d])
  <2>1. /\ conn' \in [Conns -> Sessions] /\ conn'[c] = new
        /\ \A d \in Conns \ {c} : conn'[d] = conn[d]
    BY <1>2, <1>4, <1>6
  <2> QED
    BY <1>2, <2>1, Same
<1>11. \A d \in Conns : (Used(d) <=> Used(d)')
  BY <1>1, <1>7, <1>10 DEF Used
<1>12. me \in Tasks /\ me.at \notin Delivering /\ TaskFits(a, me)
  <2>1. CASE conn[c].terminal = "written"
    <3>1. me = AtRest
      BY <2>1
    <3> QED
      BY <1>1, <3>1, RestFits DEF Delivering
  <2>2. CASE conn[c].terminal = "pending"
    <3>1. me = final
      BY <2>2
    <3>2. final \in Tasks
      BY <1>9, Numbers DEF AtRest, Tasks
    <3>3. /\ final.at = "call" /\ final.c = c /\ final.ev = Last /\ final.upto = Last
          /\ final.initial /\ final.todo = {}
      BY DEF AtRest
    <3>4. Used(c)
      BY <1>1 DEF Used
    <3> HIDE DEF me, final
    <3> QED
      BY <1>1, <1>9, <3>1, <3>2, <3>3, <3>4 DEF TaskFits, Engaged, Delivering
  <2>3. CASE conn[c].terminal = "none"
    <3>1. me = Listing(c)
      BY <2>3
    <3>2. Listing(c) \in Tasks /\ Listing(c).at = "list" /\ Listing(c).c = c
          /\ Listing(c).todo = {} /\ ~Listing(c).initial
      BY ListingTask
    <3>3. Used(c)
      BY <1>1 DEF Used
    <3> HIDE DEF me
    <3> QED
      BY <1>1, <3>1, <3>2, <3>3 DEF TaskFits, Engaged, Delivering
  <2> QED
    BY <1>2, <2>1, <2>2, <2>3 DEF Sessions
<1> HIDE DEF me
<1>13. /\ agent' \in [Agents -> Tasks] /\ agent'[a] = me
       /\ \A b \in Agents \ {a} : agent'[b] = agent[b]
  BY <1>1, <1>2, <1>8, <1>12
<1>14. RecordsKept /\ Typed'
  <2>1. RecordsKept
    BY <1>1, NothingKept
  <2> QED
    BY <1>1, <1>10, <1>13, <2>1, Parts DEF Typed
<1>15. AgentsInv'
  <2>1. ASSUME NEW b \in Agents PROVE TaskFits(b, agent[b])'
    <3>1. TaskFits(b, agent'[b])
      BY <1>12, <1>13, Parts
    <3>2. outbox'.appended \in Nat /\ outbox.appended <= outbox'.appended
      BY <1>1, Domains DEF IInv, Typed, Outboxes
    <3> QED
      BY <1>11, <3>1, <3>2, Parts, TaskKept
  <2>2. \A b \in Agents : agent[b].at \in Delivering => agent[b].c \in Conns \ {c}
    BY <1>3 DEF IInv, AgentsInv, TaskFits, Engaged, DeliverySound
  <2>3. ASSUME NEW b \in Agents PROVE DeliverySound(b)'
    <3>1. CASE b = a
      BY <1>12, <1>13, <3>1 DEF DeliverySound, Delivering
    <3>2. CASE b # a
      BY <1>10, <1>13, <1>14, <2>2, <3>2, OtherSound
    <3> QED
      BY <3>1, <3>2
  <2>4. Exclusive'
    BY <1>12, <1>13 DEF IInv, AgentsInv, Exclusive
  <2> QED
    BY <2>1, <2>3, <2>4 DEF AgentsInv
<1>16. ASSUME NEW d \in Conns PROVE SessionSound(d)'
  <2>1. CASE d # c
    BY <1>10, <1>14, <2>1, SessionKept
  <2>2. CASE d = c
    <3>1. conn[c].sub \in Subscribers
      BY <1>2 DEF Sessions
    <3>2. receipt'[conn[c].sub][Last].outcome = receipt[conn[c].sub][Last].outcome
      BY <1>1
    <3> QED
      BY <1>2, <1>5, <1>7, <1>10, <2>2, <3>2 DEF SessionSound, Used, WrittenTo
  <2> QED
    BY <2>1, <2>2
<1>17. ASSUME NEW i \in Subscribers PROVE RowSound(i)'
  <2>1. ASSUME NEW d \in Conns
        PROVE  conn'[d].sub = conn[d].sub /\ (conn[d].told => conn'[d].told)
    BY <1>7, <1>10
  <2>2. ASSUME NEW d \in Conns, Witness(i, d) PROVE Witness(i, d)'
    <3>1. row[i].ack \in Nat /\ row' = row
      BY <1>1, Parts, Domains DEF Typed, Rows
    <3>2. d # c
      BY <1>3, <2>2, <3>1, Domains DEF Witness
    <3>3. \A b \in Agents : agent'[b].at = "write" => b # a /\ agent'[b] = agent[b]
      BY <1>12, <1>13 DEF Delivering
    <3> QED
      BY <1>10, <2>2, <3>1, <3>2, <3>3 DEF Witness
  <2> QED
    BY <1>14, <2>1, <2>2, RowKept
<1> QED
  BY <1>14, <1>15, <1>16, <1>17 DEF IInv, SessionsInv, RowsInv

LEMMA GreatestConn ==
  ASSUME NEW S, S \subseteq Conns, S # {}
  PROVE  \E d \in S : \A f \in S : f <= d
<1> DEFINE T == {MaxConn - d : d \in S}
<1>1. S \subseteq 1 .. MaxConn /\ MaxConn \in Nat
  BY Domains
<1>2. T \subseteq Nat /\ T # {}
  <2>1. \A d \in S : d \in Int /\ MaxConn - d \in Nat
    BY <1>1, SMT
  <2>2. \E d \in S : MaxConn - d \in T
    OBVIOUS
  <2> QED
    BY <2>1, <2>2
<1>3. \E x \in T : \A y \in T : ~ (<<y, x>> \in OpToRel(<, Nat))
  <2> HIDE DEF T
  <2> QED
    BY <1>2, NatLessThanWellFounded, WFMin
<1>4. PICK x \in T : \A y \in T : ~ (y < x)
  BY <1>2, <1>3 DEF OpToRel
<1>5. PICK d \in S : x = MaxConn - d
  BY <1>4
<1>6. ASSUME NEW f \in S PROVE f <= d
  <2>1. ~ (MaxConn - f < MaxConn - d)
    <3>1. MaxConn - f \in T
      OBVIOUS
    <3> QED
      BY <1>4, <1>5, <3>1
  <2>2. MaxConn \in Int /\ d \in Int /\ f \in Int
    BY <1>1, <1>5
  <2> HIDE DEF T
  <2> QED
    BY <2>1, <2>2, SMT
<1> QED
  BY <1>6

LEMMA ResumedFits ==
  ASSUME IInv, NEW c \in Conns
  PROVE  Resumed(c) \in Subscribers
<1> DEFINE shown == {d \in Conns : conn[d].sent # NoSnapshot}
<1>1. CASE shown = {}
  BY <1>1, Domains DEF Resumed
<1>2. CASE shown # {}
  <2> DEFINE latest == CHOOSE d \in shown : \A f \in shown : f <= d
  <2>1. \E d \in shown : \A f \in shown : f <= d
    BY <1>2, GreatestConn
  <2>2. latest \in shown
    BY <2>1
  <2>3. Resumed(c) = conn[latest].sub
    BY <1>2 DEF Resumed
  <2> HIDE DEF latest
  <2>4. latest \in Conns
    BY <2>2
  <2> QED
    BY <2>3, <2>4, Parts DEF Sessions
<1> QED
  BY <1>1, <1>2

\* A takeover leaves of the row what was acknowledged, and raises its snapshot.
LEMMA RowOpenedFits ==
  ASSUME IInv, NEW i \in Subscribers, NEW c \in Conns, NEW cursor \in 0 .. Last
  PROVE  LET new == RowOpened(i, c, cursor) IN
         /\ new \in Rows /\ new.conn = c /\ new.ack = row[i].ack
         /\ new.ack <= new.snap /\ new.snap \in 0 .. Last
         /\ (new.closed <=> row[i].closed)
<1> DEFINE snap == Max2(Max2(row[i].snap, row[i].ack), cursor)
<1>1. row[i] \in Rows
  BY DEF IInv, Typed
<1>2. row[i].snap \in 0 .. Last /\ row[i].ack \in 0 .. Last
  BY <1>1 DEF Rows
<1>3. snap \in 0 .. Last /\ row[i].ack <= snap
  BY <1>2 DEF Max2
<1>4. RowOpened(i, c, cursor) = [row[i] EXCEPT !.conn = c, !.snap = snap]
  BY <1>1 DEF RowOpened, Rows
<1> HIDE DEF snap
<1>5. c \in 0 .. MaxConn
  BY Numbers
<1> QED
  BY <1>1, <1>3, <1>4, <1>5 DEF Rows

LEMMA OpenStep ==
  ASSUME IInv, NEW p \in Procs, NEW c \in Conns, Open(c, p) PROVE IInv'
<1>1. /\ conn[c].at = "unused" /\ UNCHANGED <<outbox, receipt, agent, up, faults>>
  BY DEF Open, Unused
<1> DEFINE i == Resumed(c)
<1>2. i \in Subscribers
  BY ResumedFits
<1>3. PICK cursor \in 0 .. Last :
        /\ row' = [row EXCEPT ![i] = RowOpened(i, c, cursor)]
        /\ conn' = [d \in Conns |->
             IF d = c
               THEN [conn[d] EXCEPT !.at = "snapshot", !.sub = i, !.proc = p,
                       !.open = TRUE, !.registered = TRUE, !.init = "wait",
                       !.terminal = TerminalState(i),
                       !.cursor = RowOpened(i, c, cursor).snap]
             ELSE IF d \in SessionsOf(p) /\ conn[d].sub = i
               THEN [conn[d] EXCEPT !.registered = FALSE, !.open = FALSE,
                       !.init = IF conn[d].init = "wait" THEN "aborted" ELSE conn[d].init]
             ELSE conn[d]]
  <2>1. 0 .. outbox.appended \subseteq 0 .. Last
    BY Domains DEF IInv, Typed, Outboxes
  <2>2. \E cursor \in 0 .. outbox.appended :
        /\ row' = [row EXCEPT ![i] = RowOpened(i, c, cursor)]
        /\ conn' = [d \in Conns |->
             IF d = c
               THEN [conn[d] EXCEPT !.at = "snapshot", !.sub = i, !.proc = p,
                       !.open = TRUE, !.registered = TRUE, !.init = "wait",
                       !.terminal = TerminalState(i),
                       !.cursor = RowOpened(i, c, cursor).snap]
             ELSE IF d \in SessionsOf(p) /\ conn[d].sub = i
               THEN [conn[d] EXCEPT !.registered = FALSE, !.open = FALSE,
                       !.init = IF @ = "wait" THEN "aborted" ELSE @]
             ELSE conn[d]]
    BY Zenon DEF Open
  <2>3. \A d \in Conns :
          [conn[d] EXCEPT !.registered = FALSE, !.open = FALSE,
                          !.init = IF @ = "wait" THEN "aborted" ELSE @]
          = [conn[d] EXCEPT !.registered = FALSE, !.open = FALSE,
                !.init = IF conn[d].init = "wait" THEN "aborted" ELSE conn[d].init]
    BY Parts DEF Sessions
  <2> QED
    BY <2>1, <2>2, <2>3
<1> HIDE DEF i
<1> DEFINE made == RowOpened(i, c, cursor)
           new == [conn[c] EXCEPT !.at = "snapshot", !.sub = i, !.proc = p,
                     !.open = TRUE, !.registered = TRUE, !.init = "wait",
                     !.terminal = TerminalState(i), !.cursor = made.snap]
           replaced(d) == [conn[d] EXCEPT !.registered = FALSE, !.open = FALSE,
                       !.init = IF conn[d].init = "wait" THEN "aborted" ELSE conn[d].init]
<1>4. /\ made \in Rows /\ made.conn = c /\ made.ack = row[i].ack
      /\ made.ack <= made.snap /\ made.snap \in 0 .. Last
      /\ (made.closed <=> row[i].closed)
  BY <1>2, RowOpenedFits
<1>5. /\ row' = [row EXCEPT ![i] = made]
      /\ conn' = [d \in Conns |->
           IF d = c THEN new
           ELSE IF d \in SessionsOf(p) /\ conn[d].sub = i THEN replaced(d) ELSE conn[d]]
  BY <1>3
<1> HIDE DEF made
<1>6. /\ conn[c] \in Sessions /\ SessionSound(c) /\ conn[c].sent = NoSnapshot
      /\ ~conn[c].told
  BY <1>1, Parts DEF SessionSound
<1>7. /\ new \in Sessions /\ new.at = "snapshot" /\ new.sub = i
      /\ new.sent = conn[c].sent /\ (new.told <=> conn[c].told) /\ new.init = "wait"
      /\ new.terminal = TerminalState(i)
  <2>1. TerminalState(i) \in {"none", "pending", "written"}
    BY DEF TerminalState
  <2>2. new \in Sessions
    BY <1>2, <1>4, <1>6, <2>1 DEF Sessions, Places
  <2> QED
    BY <1>6, <2>2 DEF Sessions
<1>8. ASSUME NEW d \in Conns \ {c} PROVE Version(conn'[d], conn[d]) /\ conn'[d] \in Sessions
  <2>1. conn[d] \in Sessions /\ Version(conn[d], conn[d])
    BY Parts, Same
  <2>2. replaced(d) \in Sessions
    BY <2>1 DEF Sessions
  <2>3. /\ replaced(d).sub = conn[d].sub /\ replaced(d).sent = conn[d].sent
        /\ replaced(d).told = conn[d].told /\ replaced(d).at = conn[d].at
        /\ replaced(d).terminal = conn[d].terminal /\ replaced(d).registered = FALSE
        /\ replaced(d).init = IF conn[d].init = "wait" THEN "aborted" ELSE conn[d].init
    BY <2>1 DEF Sessions
  <2> HIDE DEF replaced
  <2>4. Version(replaced(d), conn[d])
    BY <2>2, <2>3 DEF Version
  <2>5. conn'[d] = replaced(d) \/ conn'[d] = conn[d]
    BY <1>5
  <2> QED
    BY <2>1, <2>2, <2>4, <2>5
<1> HIDE DEF new, replaced
<1>9. conn' \in [Conns -> Sessions] /\ conn'[c] = new
  <2>1. conn'[c] = new
    BY <1>5
  <2>2. conn' = [d \in Conns |-> conn'[d]]
    BY <1>5
  <2> QED
    BY <1>7, <1>8, <2>1, <2>2
<1>10. /\ row' \in [Subscribers -> Rows] /\ row'[i] = made
       /\ \A j \in Subscribers \ {i} : row'[j] = row[j]
       /\ \A j \in Subscribers : row'[j].ack = row[j].ack
  <2>1. row \in [Subscribers -> Rows]
    BY DEF IInv, Typed
  <2>2. /\ row' \in [Subscribers -> Rows] /\ row'[i] = made
        /\ \A j \in Subscribers \ {i} : row'[j] = row[j]
    BY <1>2, <1>4, <1>5, <2>1
  <2> QED
    BY <1>4, <2>2
<1>11. Typed'
  BY <1>1, <1>9, <1>10, Parts DEF Typed
<1>12. AgentsInv'
  <2>1. \A d \in Conns : Used(d) => Used(d)' /\ d # c
    BY <1>1, <1>8 DEF Version, Used
  <2>2. ASSUME NEW b \in Agents PROVE TaskFits(b, agent[b])'
    <3>1. TaskFits(b, agent'[b])
      BY <1>1, Parts
    <3>2. outbox'.appended \in Nat /\ outbox.appended <= outbox'.appended
      BY <1>1, Domains DEF IInv, Typed, Outboxes
    <3> QED
      BY <2>1, <3>1, <3>2, Parts, TaskKept
  <2>3. ASSUME NEW b \in Agents PROVE DeliverySound(b)'
    <3> SUFFICES ASSUME agent[b].at \in Delivering PROVE DeliverySound(b)'
      BY <1>1 DEF DeliverySound, Delivering
    <3>1. PICK x \in Conns : x = agent[b].c /\ Used(x)
      BY Parts DEF TaskFits, Engaged
    <3>2. agent'[b] = agent[b] /\ DeliverySound(b) /\ x # c
      BY <1>1, <2>1, <3>1 DEF IInv, AgentsInv
    <3>3. conn[x].sub \in Subscribers /\ Version(conn'[x], conn[x])
      BY <1>8, <3>1, <3>2, Parts DEF Sessions
    <3>4. /\ conn[x].init = "done" => conn'[x].init = "done"
          /\ conn'[x].sub = conn[x].sub
          /\ conn'[x].sent = conn[x].sent /\ conn'[x].told = conn[x].told
      BY <3>3 DEF Version
    <3>5. Fenced(x)' => Fenced(x)
      <4>1. CASE conn[x].sub = i
        BY <1>4, <1>10, <3>2, <3>4, <4>1 DEF Fenced
      <4>2. CASE conn[x].sub # i
        BY <1>10, <3>3, <3>4, <4>2 DEF Fenced
      <4> QED
        BY <4>1, <4>2
    <3>6. row'[conn[x].sub].ack = row[conn[x].sub].ack /\ receipt' = receipt
      BY <1>1, <1>10, <3>3
    <3> QED
      BY <3>1, <3>2, <3>4, <3>5, <3>6 DEF DeliverySound, Terminal, WrittenTo
  <2>4. Exclusive'
    BY <1>1 DEF IInv, AgentsInv, Exclusive
  <2> QED
    BY <2>2, <2>3, <2>4 DEF AgentsInv
<1>13. ASSUME NEW d \in Conns PROVE SessionSound(d)'
  <2>1. CASE d # c
    <3>1. SessionSound(d) /\ Version(conn'[d], conn[d]) /\ receipt' = receipt
      BY <1>1, <1>8, <2>1, Parts
    <3> QED
      BY <3>1 DEF SessionSound, Version, Used, WrittenTo
  <2>2. CASE d = c
    <3>1. TerminalState(i) = "written" => receipt'[i][Last].outcome = "written"
      BY <1>1 DEF TerminalState
    <3> QED
      BY <1>6, <1>7, <1>9, <2>2, <3>1 DEF SessionSound, Used, WrittenTo
  <2> QED
    BY <2>1, <2>2
<1>14. ASSUME NEW j \in Subscribers PROVE RowSound(j)'
  <2>1. RowSound(j)
    BY DEF IInv, RowsInv
  <2>2. /\ row'[j].ack = row[j].ack /\ row'[j].ack <= row'[j].snap
        /\ (row'[j].closed <=> row[j].closed)
    <3>1. CASE j = i
      BY <1>4, <1>10, <3>1
    <3>2. CASE j # i
      BY <1>10, <2>1, <3>2 DEF RowSound
    <3> QED
      BY <3>1, <3>2
  <2>3. WrittenTo(j, Last)' <=> WrittenTo(j, Last)
    BY <1>1 DEF WrittenTo
  <2>4. ASSUME NEW d \in Conns, d # c
        PROVE  /\ conn'[d].sub = conn[d].sub /\ conn'[d].told = conn[d].told
               /\ conn'[d].sent = conn[d].sent
    BY <1>8, <2>4 DEF Version
  <2>5. WrittenTo(j, Last)' => \E d \in Conns : conn'[d].sub = j /\ conn'[d].told
    <3>1. ASSUME NEW d \in Conns, conn[d].sub = j, conn[d].told
          PROVE  conn'[d].sub = j /\ conn'[d].told
      BY <1>6, <2>4, <3>1
    <3> QED
      BY <2>1, <2>3, <3>1 DEF RowSound
  <2>6. ASSUME NEW d \in Conns, Witness(j, d) PROVE Witness(j, d)'
    <3>1. row[j].ack \in Nat
      BY Parts, Domains DEF Typed, Rows
    <3>2. d # c
      BY <1>6, <2>6, <3>1, Domains DEF Witness
    <3> QED
      BY <1>1, <2>2, <2>4, <2>6, <3>2 DEF Witness
  <2>7. row'[j].ack > 0 => \E d \in Conns : Witness(j, d)'
    BY <2>1, <2>2, <2>6 DEF RowSound
  <2> QED
    BY <2>1, <2>2, <2>3, <2>5, <2>7 DEF RowSound
<1> QED
  BY <1>11, <1>12, <1>13, <1>14 DEF IInv, SessionsInv, RowsInv

-----------------------------------------------------------------------------
(* The invariant *)

LEMMA InitInv ==
  Init => IInv
<1> SUFFICES ASSUME Init PROVE IInv
  OBVIOUS
<1>1. /\ \A a \in Agents : agent[a] = AtRest
      /\ \A i \in Subscribers : row[i].ack = 0 /\ row[i].snap = 0 /\ row[i].closed = FALSE
      /\ \A i \in Subscribers, e \in Events : receipt[i][e].outcome = "none"
      /\ \A c \in Conns : conn[c].at = "unused" /\ conn[c].sent = NoSnapshot
                          /\ conn[c].init = "none" /\ conn[c].told = FALSE
                          /\ conn[c].registered = FALSE /\ conn[c].terminal = "none"
  BY DEF Init
<1>2. Last \in Events /\ Last # 0 /\ 0 <= 0 /\ ~(0 > 0)
  BY Domains
<1>3. Typed
  <2>1. outbox \in Outboxes /\ outbox.published <= outbox.appended
    BY Numbers, <1>2 DEF Init, Outboxes, Unclaimed
  <2>2. row \in [Subscribers -> Rows]
    BY Numbers DEF Init, Rows
  <2>3. receipt \in [Subscribers -> [Events -> Receipts]]
    BY Numbers DEF Init, Receipts, Outcomes
  <2>4. conn \in [Conns -> Sessions]
    <3>1. NoSnapshot \in NoSnapshot .. Last
      BY Domains
    <3> QED
      BY <3>1, Numbers DEF Init, Sessions, Places, Subscribers
  <2>5. agent \in [Agents -> Tasks] /\ up \in [Procs -> BOOLEAN]
    BY RestFits DEF Init
  <2>6. faults \in 0 .. MaxFaults
    BY Domains DEF Init
  <2> QED
    BY <2>1, <2>2, <2>3, <2>4, <2>5, <2>6 DEF Typed
<1>4. AgentsInv
  BY <1>1, RestFits DEF AgentsInv, DeliverySound, Exclusive, Delivering
<1>5. SessionsInv
  BY <1>1 DEF SessionsInv, SessionSound, Used
<1>6. RowsInv
  BY <1>1, <1>2 DEF RowsInv, RowSound, WrittenTo
<1> QED
  BY <1>3, <1>4, <1>5, <1>6 DEF IInv

LEMMA NextInv ==
  IInv /\ [Next]_vars => IInv'
<1> SUFFICES ASSUME IInv, [Next]_vars PROVE IInv'
  OBVIOUS
<1>1. CASE Append \/ ClaimLapses
  BY <1>1, AppendStep, ClaimLapsesStep
<1>2. ASSUME NEW p \in Procs,
             WorkerClaim(p) \/ WorkerAnswer(p) \/ WorkerAnswerFails(p)
               \/ CatchUpNext(p) \/ Stop(p) \/ Restart(p) \/ \E c \in Conns : Open(c, p)
      PROVE  IInv'
  BY <1>2, WorkerClaimStep, WorkerAnswerStep, CatchUpStep, ProcessStep, OpenStep
<1>3. ASSUME NEW c \in Conns, Session(c) \/ Hangup(c) PROVE IInv'
  BY <1>3, WriteSnapshotStep, HandlerStep, CatchUpStep DEF Session
<1>4. ASSUME NEW i \in Subscribers, NEW e \in Events, ReceiptLapses(i, e) PROVE IInv'
  BY <1>4, ReceiptLapsesStep
<1>5. ASSUME NEW a \in Agents, Advance(a) PROVE IInv'
  BY <1>5, CutShortStep, ClaimDeliveryStep, WriteStep, WriteFailsStep, AcknowledgeStep,
     CompleteTerminalStep DEF Advance
<1>6. ASSUME NEW a \in Agents, Break(a) PROVE IInv'
  BY <1>6, CatchUpFailsStep, ClaimDeliveryFailsStep, CutShortStep, AcknowledgeStep,
     CompleteTerminalStep DEF Break
<1>7. CASE UNCHANGED vars
  <2>1. UNCHANGED <<outbox, row, receipt, conn, agent, up, faults>>
    BY <1>7 DEF vars, durable
  <2> QED
    BY <2>1, Parts, NoSession, NoTask, NothingKept, SameOutbox, QuietStep
<1> QED
  BY <1>1, <1>2, <1>3, <1>4, <1>5, <1>6, <1>7 DEF Next

\* Whatever the processes, the connections and the faults, the invariant that
\* ties the goroutines, their sessions and the durable records together holds.
THEOREM DeliveryInvariant == Spec => []IInv
BY InitInv, NextInv, PTL DEF Spec

\* Types, and the delivery mutex: no two goroutines deliver to one session at
\* a time (realtime_delivery.go, deliverSessionEvent).
THEOREM DeliveryTyped == Spec => []TypeOK
<1>1. IInv => TypeOK
  BY DEF IInv, Typed, AgentsInv, Exclusive, TypeOK, Outboxes, Rows, Receipts,
         Outcomes, Sessions, Places, Tasks
<1> QED
  BY <1>1, DeliveryInvariant, PTL

\* What the database says a viewer was shown was written to a socket of that
\* viewer: the acknowledged sequence, the terminal receipt, the closed row.
THEOREM AcknowledgedWasShown == Spec => []AcknowledgedMeansShown
<1>1. IInv => AcknowledgedMeansShown
  BY DEF IInv, RowsInv, RowSound, Witness, WrittenTo, AcknowledgedMeansShown
<1> QED
  BY <1>1, DeliveryInvariant, PTL

\* Nothing is shown again, or late, to the connection that holds a subscriber:
\* a frame is newer than all the subscriber has acknowledged.
THEOREM FramesFollow == Spec => FramesAfterAcknowledged
<1>1. IInv => \A a \in Agents :
                agent[a].at = "write" /\ agent'[a].at = "acknowledge" /\ Fenced(agent[a].c)
                  => row[conn[agent[a].c].sub].ack < agent[a].ev
  BY DEF IInv, AgentsInv, DeliverySound
<1> QED
  BY <1>1, DeliveryInvariant, PTL DEF FramesAfterAcknowledged

-----------------------------------------------------------------------------
(* Who writes the first frame *)

SentKept == \A d \in Conns : conn'[d].sent = conn[d].sent

LEMMA VersionsSent ==
  ASSUME \A d \in Conns : Version(conn'[d], conn[d])
  PROVE  SentKept
BY DEF Version, SentKept

LEMMA HandedSent ==
  ASSUME IInv, NEW a \in Agents, agent[a].at \in {"call"} \cup Delivering,
         NEW s \in Sessions, Version(s, conn[agent[a].c]), s.at # "unused", NEW error,
         Done(a, s) \/ Failed(a, error, s)
  PROVE  SentKept
<1>1. Handed(a, s) /\ agent[a].c \in Conns
  BY AtHand, DoneHands, FailedHands
<1>2. PICK me, new : conn' = [conn EXCEPT ![agent[a].c] = new] /\ Version(new, s)
  BY <1>1 DEF Handed
<1>3. Version(new, conn[agent[a].c])
  <2>1. new \in Sessions
    BY <1>2 DEF Version
  <2> QED
    BY <1>1, <1>2, <2>1, Parts, VersionOfVersion
<1> QED
  BY <1>1, <1>2, <1>3, OneSession, VersionsSent

LEMMA ListedSent ==
  ASSUME IInv, NEW a, NEW c \in Conns, NEW todo, Listed(a, c, todo)
  PROVE  SentKept
<1>1. CASE UNCHANGED conn
  BY <1>1 DEF SentKept
<1>2. CASE conn' = [conn EXCEPT ![c] = Verified(c, conn[c])]
  <2>1. Version(Verified(c, conn[c]), conn[c])
    BY Parts, Same, VerifiedFits
  <2> QED
    BY <1>2, <2>1, OneSession, VersionsSent
<1> QED
  BY <1>1, <1>2, Parts DEF Listed

LEMMA ProcessSent ==
  ASSUME IInv, NEW p \in Procs,
         Stop(p) \/ CatchUpNext(p) \/ \E c \in Conns : Open(c, p)
  PROVE  SentKept
<1>1. CASE Stop(p)
  BY <1>1, Parts DEF Stop, Down, Left, Sessions, SentKept
<1>2. CASE CatchUpNext(p)
  <2>1. Swept(p) \subseteq Conns /\ agent[Loop(p)].todo \subseteq Conns
    BY Domains, Parts DEF Swept, SessionsOf, Tasks
  <2>2. \E c \in Conns : \E todo : Listed(Loop(p), c, todo)
    BY <1>2, <2>1 DEF CatchUpNext
  <2> QED
    BY <2>2, ListedSent
<1>3. CASE \E c \in Conns : Open(c, p)
  <2>1. PICK c \in Conns : Open(c, p)
    BY <1>3
  <2>2. PICK cursor \in 0 .. outbox.appended :
          conn' = [d \in Conns |->
             IF d = c
               THEN [conn[d] EXCEPT !.at = "snapshot", !.sub = Resumed(c), !.proc = p,
                       !.open = TRUE, !.registered = TRUE, !.init = "wait",
                       !.terminal = TerminalState(Resumed(c)),
                       !.cursor = RowOpened(Resumed(c), c, cursor).snap]
             ELSE IF d \in SessionsOf(p) /\ conn[d].sub = Resumed(c)
               THEN [conn[d] EXCEPT !.registered = FALSE, !.open = FALSE,
                       !.init = IF @ = "wait" THEN "aborted" ELSE @]
             ELSE conn[d]]
    BY <2>1, Zenon DEF Open
  <2>3. ASSUME NEW d \in Conns PROVE conn'[d].sent = conn[d].sent
    <3>1. conn[d] \in Sessions
      BY Parts
    <3>2. CASE d = c
      BY <2>2, <3>1, <3>2 DEF Sessions
    <3>3. CASE d # c /\ d \in SessionsOf(p) /\ conn[d].sub = Resumed(c)
      <4>1. conn'[d] = [conn[d] EXCEPT !.registered = FALSE, !.open = FALSE,
                          !.init = IF conn[d].init = "wait" THEN "aborted" ELSE conn[d].init]
        BY <2>2, <3>3
      <4> QED
        BY <3>1, <4>1 DEF Sessions
    <3>4. CASE d # c /\ ~(d \in SessionsOf(p) /\ conn[d].sub = Resumed(c))
      BY <2>2, <3>4
    <3> QED
      BY <3>2, <3>3, <3>4
  <2> QED
    BY <2>3 DEF SentKept
<1> QED
  BY <1>1, <1>2, <1>3

LEMMA HandlerSent ==
  ASSUME IInv, NEW c \in Conns,
         SnapshotFails(c) \/ CloseWritten(c) \/ Hangup(c) \/ CatchUpInitial(c)
  PROVE  SentKept
<1>1. CASE SnapshotFails(c) \/ CloseWritten(c) \/ Hangup(c)
  <2>1. Leave(c) /\ Used(c)
    BY <1>1 DEF SnapshotFails, CloseWritten, Hangup, Used
  <2> QED
    BY <2>1, LeaveFits, VersionsSent
<1>2. CASE CatchUpInitial(c)
  BY <1>2, ListedSent DEF CatchUpInitial
<1> QED
  BY <1>1, <1>2

LEMMA DeliverySent ==
  ASSUME IInv, NEW a \in Agents, Advance(a) \/ Break(a)
  PROVE  SentKept \/ Write(a) \/ WriteFails(a)
<1> DEFINE c == agent[a].c
           s == conn[c]
           i == s.sub
<1>1. CASE CatchUpFails(a)
  <2>1. CASE a[1] = "serve" /\ agent[a].at = "list" /\ Leave(a[2])
    <3>1. a[2] \in Conns /\ Used(a[2])
      BY <2>1, Parts DEF TaskFits, Engaged
    <3> QED
      BY <2>1, <3>1, LeaveFits, VersionsSent
  <2>2. CASE UNCHANGED conn
    BY <2>2 DEF SentKept
  <2> QED
    BY <1>1, <2>1, <2>2 DEF CatchUpFails
<1>2. CASE OutOfOrder(a) \/ DeliverNothing(a) \/ RetryDeliveryFails(a)
           \/ ClaimDelivery(a) \/ ClaimDeliveryFails(a) \/ Acknowledge(a)
           \/ AcknowledgeFails(a) \/ CompleteTerminal(a) \/ CompleteTerminalFails(a)
  <2>1. agent[a].at \in {"call"} \cup Delivering
    BY <1>2 DEF OutOfOrder, DeliverNothing, RetryDeliveryFails, ClaimDelivery,
           ClaimDeliveryFails, Acknowledge, AcknowledgeFails, CompleteTerminal,
           CompleteTerminalFails, ReadyToDeliver, Delivering
  <2>2. /\ c \in Conns /\ s \in Sessions /\ Version(s, s) /\ s.at # "unused"
        /\ i \in Subscribers /\ agent[a].ev \in 0 .. Last
    BY <2>1, AtHand
  <2>3. ASSUME NEW f \in 0 .. Last
        PROVE  /\ Version(Advanced(s, f), s) /\ Advanced(s, f) \in Sessions
               /\ Advanced(s, f).at # "unused"
    <3>1. Version(Advanced(s, f), s) /\ Advanced(s, f) \in Sessions
      BY <2>2, AdvancedFits
    <3> QED
      BY <2>2, <3>1 DEF Version
  <2>4. /\ Version(Dropped(s), s) /\ Dropped(s) \in Sessions
        /\ Dropped(s).at # "unused"
    <3>1. Version(Dropped(s), s)
      BY <2>2, DroppedFits
    <3> QED
      BY <2>2, <3>1 DEF Version
  <2>5. row[i].ack \in 0 .. Last
    BY <2>2, Parts DEF Typed, Rows
  <2>6. ASSUME UNCHANGED conn PROVE SentKept
    BY <2>6 DEF SentKept
  <2>7. ASSUME Completed(a, c) PROVE SentKept
    <3>1. UNCHANGED conn \/ Done(a, Advanced(s, agent[a].ev))
      BY <2>7 DEF Completed
    <3> QED
      BY <2>1, <2>2, <2>3, <2>6, <3>1, HandedSent
  <2>8. ASSUME Resolved(a) PROVE SentKept
    <3>1. \/ Done(a, Dropped(s)) \/ Completed(a, c) \/ Done(a, Advanced(s, row[i].ack))
          \/ Failed(a, "claim lost", s)
      BY <2>8 DEF Resolved
    <3> QED
      BY <2>1, <2>2, <2>3, <2>4, <2>5, <2>7, <3>1, HandedSent
  <2>9. \/ Done(a, s) \/ \E error \in {"repository", "session", "claim lost"} : Failed(a, error, s)
        \/ UNCHANGED conn \/ Resolved(a) \/ Completed(a, c)
        \/ Done(a, Over(c)) \/ Failed(a, "repository", Over(c))
    BY <1>2 DEF OutOfOrder, DeliverNothing, RetryDeliveryFails, ClaimDelivery,
           ClaimDeliveryFails, Acknowledge, AcknowledgeFails, CompleteTerminal,
           CompleteTerminalFails
  <2>10. /\ Over(c) \in Sessions /\ Over(c).at # "unused" /\ Version(Over(c), s)
    BY <2>1, OverFits
  <2> QED
    BY <2>1, <2>2, <2>6, <2>7, <2>8, <2>9, <2>10, HandedSent
<1> QED
  BY <1>1, <1>2 DEF Advance, Break

\* A session takes deliveries from the moment it is registered, and yet the
\* first frame on its socket is the snapshot its handler writes.
THEOREM SnapshotComesFirst == Spec => SnapshotFirst
<1>1. ASSUME IInv, IInv', [Next]_vars, NEW c \in Conns,
             conn[c].sent = NoSnapshot, conn'[c].sent # NoSnapshot
      PROVE  conn[c].at = "snapshot" /\ conn'[c].at # "snapshot"
  <2>1. conn'[c].at # "snapshot"
    BY <1>1 DEF IInv, SessionsInv, SessionSound
  <2>2. ~SentKept
    BY <1>1 DEF SentKept
  <2>3. ASSUME NEW a \in Agents, Write(a) \/ WriteFails(a) PROVE FALSE
    <3>1. agent[a].at = "write" /\ agent[a].at \in {"call"} \cup Delivering
      BY <2>3 DEF Write, WriteFails, Delivering
    <3>2. agent[a].c \in Conns /\ conn[agent[a].c].init = "done"
      BY <1>1, <3>1, AtHand DEF IInv, AgentsInv, DeliverySound
    <3>3. agent[a].c # c
      BY <1>1, <3>2 DEF IInv, SessionsInv, SessionSound
    <3>4. conn'[c] = conn[c]
      <4>1. CASE Write(a)
        BY <1>1, <3>2, <3>3, <4>1, Parts DEF Write
      <4>2. CASE WriteFails(a)
        <5>1. \E s : Failed(a, "write", s) \/ Done(a, s)
          BY <4>2 DEF WriteFails
        <5>2. \E s : conn' = [conn EXCEPT ![agent[a].c] = s]
          BY <5>1 DEF Failed, Done, DoneInitial, DoneReplayed
        <5> QED
          BY <1>1, <3>3, <5>2, Parts
      <4> QED
        BY <2>3, <4>1, <4>2
    <3> QED
      BY <1>1, <3>4
  <2>4. ASSUME NEW a \in Agents, Advance(a) \/ Break(a) PROVE FALSE
    BY <1>1, <2>2, <2>3, <2>4, DeliverySent
  <2>5. ASSUME NEW d \in Conns, WriteSnapshot(d) PROVE conn[c].at = "snapshot"
    <3>1. d = c
      BY <1>1, <2>5, Parts DEF WriteSnapshot
    <3> QED
      BY <2>5, <3>1 DEF WriteSnapshot
  <2>6. ASSUME NEW d \in Conns, Session(d) \/ Hangup(d) PROVE conn[c].at = "snapshot"
    BY <1>1, <2>2, <2>5, <2>6, HandlerSent DEF Session
  <2>7. ASSUME NEW p \in Procs,
               WorkerClaim(p) \/ WorkerAnswer(p) \/ WorkerAnswerFails(p)
               \/ CatchUpNext(p) \/ Stop(p) \/ Restart(p) \/ \E d \in Conns : Open(d, p)
        PROVE  FALSE
    <3>1. UNCHANGED conn => SentKept
      BY DEF SentKept
    <3> QED
      BY <1>1, <2>2, <2>7, <3>1, ProcessSent
         DEF WorkerClaim, WorkerAnswer, WorkerAnswerFails, Restart
  <2>8. CASE UNCHANGED conn
    BY <1>1, <2>8
  <2>9. Append \/ ClaimLapses \/ UNCHANGED vars
          \/ (\E i \in Subscribers, e \in Events : ReceiptLapses(i, e)) => UNCHANGED conn
    BY DEF Append, ClaimLapses, vars, ReceiptLapses
  <2> QED
    BY <1>1, <2>1, <2>4, <2>6, <2>7, <2>8, <2>9 DEF Next
<1>2. IInv /\ IInv' /\ [Next]_vars =>
        \A c \in Conns :
          conn[c].sent = NoSnapshot /\ conn'[c].sent # NoSnapshot
            => conn[c].at = "snapshot" /\ conn'[c].at # "snapshot"
  BY <1>1
<1> QED
  BY <1>2, DeliveryInvariant, PTL DEF SnapshotFirst, Spec
=============================================================================
