-------------------------- MODULE LeaderboardProofs --------------------------
(***************************************************************************)
(* Machine-checked facts about module Leaderboard, for every number of     *)
(* callers, every time to live and every history of commits: what a call   *)
(* may return.  Two things carry the proof.  One call at a time refreshes, *)
(* so rankings reach the snapshot in the order in which they were read     *)
(* (Ordered).  And the time to live runs from a time before the read, so   *)
(* that what a snapshot misses is younger than the snapshot (Missed).      *)
(***************************************************************************)
EXTENDS Leaderboard, TLAPS

\* The points of a call that runs the function of singleflight.
Leading == {"recheck", "load", "store", "return"}

OneLeader ==
  /\ \A c \in Callers : call[c].at \in Leading => leader = c
  /\ \A c \in Callers : call[c].at = "wait" => leader # NoOne
  /\ \A c \in Callers : call[c].time <= now

HasSnapshot == snapshot.expires > 0

\* Everything that ranking t misses was committed at time e or later.
MissedFrom(t, e) == \A v \in (t + 1) .. Ranking : commits[v] >= e

\* What was returned, then the snapshot, then a refresh under way, then the
\* database: each has at least what the one before it has.
Ordered ==
  /\ shown <= Ranking /\ settled <= Ranking
  /\ HasSnapshot =>
       /\ shown <= snapshot.table /\ settled <= snapshot.table
       /\ snapshot.table <= Ranking
  /\ \A c \in Callers : Holds(c) =>
       /\ shown <= call[c].table /\ settled <= call[c].table
       /\ HasSnapshot => snapshot.table <= call[c].table
       /\ call[c].table <= Ranking
  /\ \A c \in Callers :
       call[c].at = "return" /\ HasSnapshot => call[c].table <= snapshot.table

\* What the snapshot misses was committed when it was refreshed or later, and
\* what a refresh misses within a time to live of its time.
Missed ==
  /\ snapshot.expires <= now + TTL
  /\ HasSnapshot => \A v \in (snapshot.table + 1) .. Ranking :
                      commits[v] + TTL >= snapshot.expires
  /\ \A c \in Callers :
       call[c].at = "store" => MissedFrom(call[c].table, call[c].time)
  /\ \A c \in Callers : call[c].at \in {"return", "done"} =>
       \A v \in (call[c].table + 1) .. Ranking : commits[v] + TTL > call[c].time

\* What a call found when it began is behind everything it may return.
Floors ==
  /\ \A c \in Callers : call[c].floor <= shown /\ call[c].must <= settled
  /\ NeverBackwards /\ EditsShow

IInv == TypeOK /\ OneLeader /\ Ordered /\ Missed /\ Floors

-----------------------------------------------------------------------------

\* The numbers of the model are integers.
LEMMA Numbers ==
  ASSUME TypeOK
  PROVE  /\ now \in Int /\ Ranking \in Nat /\ shown \in Int /\ settled \in Int
         /\ snapshot.table \in Int /\ snapshot.expires \in Int /\ TTL \in Int
         /\ snapshot.table >= 0 /\ TTL > 0
         /\ \A v \in 1 .. Ranking : commits[v] \in Int
         /\ \A c \in Callers :
              /\ call[c].time \in Int /\ call[c].table \in Nat
              /\ call[c].floor \in Int /\ call[c].must \in Int
<1> USE CacheAssumption DEF TypeOK, Calls, Times, Rankings, Ranking
<1>1. /\ now \in Int /\ Ranking \in Nat /\ shown \in Int /\ settled \in Int
      /\ snapshot.table \in Int /\ snapshot.expires \in Int /\ TTL \in Int
      /\ snapshot.table >= 0 /\ TTL > 0
  OBVIOUS
<1>2. \A v \in 1 .. Ranking : commits[v] \in Int
  OBVIOUS
<1>3. \A c \in Callers :
        /\ call[c].time \in Int /\ call[c].table \in Nat
        /\ call[c].floor \in Int /\ call[c].must \in Int
  OBVIOUS
<1> QED
  BY <1>1, <1>2, <1>3

\* Only the call leads that leader names.
LEMMA OthersDoNotLead ==
  ASSUME OneLeader, NEW c \in Callers, call[c].at \in Leading
  PROVE  leader = c /\ \A d \in Callers \ {c} : call[d].at \notin Leading /\ ~Holds(d)
BY DEF OneLeader, Leading, Holds

LEMMA InitSound == Init => IInv
BY CacheAssumption
DEF Init, IInv, TypeOK, OneLeader, Ordered, Missed, Floors, NeverBackwards,
    EditsShow, NoCall, NoSnapshot, Calls, Times, Rankings, Ranking, Leading,
    HasSnapshot, Holds, Done, MissedFrom

\* A step that only moves the point of one call, to one where it neither leads
\* nor has an answer.
LEMMA Misses ==
  ASSUME IInv, NEW c \in Callers, Miss(c) \/ Follow(c)
  PROVE  IInv'
<1>1. PICK p \in {"join", "wait"} :
        /\ call' = [call EXCEPT ![c].at = p]
        /\ p = "wait" => leader # NoOne
        /\ UNCHANGED <<now, commits, due, snapshot, leader, faults, history>>
  BY DEF Miss, Follow, To
<1> USE <1>1 DEF history
<1>2. TypeOK'
  BY DEF IInv, TypeOK, Calls, Ranking
<1>3. /\ \A d \in Callers \ {c} : call'[d] = call[d]
      /\ call'[c].at = p /\ call'[c].time = call[c].time
      /\ call'[c].floor = call[c].floor /\ call'[c].must = call[c].must
  BY DEF IInv, TypeOK, Calls
<1> HIDE <1>1
<1>4. UNCHANGED <<now, commits, snapshot, leader, shown, settled>>
  BY <1>1 DEF history
<1>5. OneLeader' /\ Ordered' /\ Missed' /\ Floors'
  BY <1>1, <1>3, <1>4
  DEF IInv, OneLeader, Ordered, Missed, MissedFrom, Floors, NeverBackwards,
      EditsShow, Done, Holds, Leading, HasSnapshot, Ranking
<1> QED
  BY <1>2, <1>5 DEF IInv

LEMMA Begins ==
  ASSUME IInv, NEW c \in Callers, Begin(c)
  PROVE  IInv'
<1>1. /\ UNCHANGED <<now, commits, due, snapshot, leader, faults, shown, settled>>
      /\ call' = [call EXCEPT ![c] =
           [at |-> "lookup", time |-> now, table |-> 0,
            floor |-> shown, must |-> settled]]
  BY DEF Begin, history
<1>2. TypeOK'
  BY <1>1, CacheAssumption DEF IInv, TypeOK, Calls, Ranking, Rankings
<1>3. /\ \A d \in Callers \ {c} : call'[d] = call[d]
      /\ call'[c].at = "lookup" /\ call'[c].time = now
      /\ call'[c].floor = shown /\ call'[c].must = settled
  BY <1>1 DEF IInv, TypeOK
<1>4. now \in Int /\ shown \in Int /\ settled \in Int
  BY Numbers DEF IInv
<1>5. OneLeader' /\ Ordered' /\ Missed' /\ Floors'
  BY <1>1, <1>3, <1>4
  DEF IInv, OneLeader, Ordered, Missed, MissedFrom, Floors, NeverBackwards,
      EditsShow, Done, Holds, Leading, HasSnapshot, Ranking
<1> QED
  BY <1>2, <1>5 DEF IInv

LEMMA Leads ==
  ASSUME IInv, NEW c \in Callers, Lead(c)
  PROVE  IInv'
<1>1. /\ UNCHANGED <<now, commits, due, snapshot, faults, shown, settled>>
      /\ call' = [call EXCEPT ![c].at = "recheck", ![c].time = now]
      /\ leader = NoOne /\ leader' = c
  BY DEF Lead, history
<1>2. TypeOK'
  BY <1>1 DEF IInv, TypeOK, Calls, Ranking
<1>3. /\ \A d \in Callers \ {c} : call'[d] = call[d]
      /\ call'[c].at = "recheck" /\ call'[c].time = now
      /\ call'[c].floor = call[c].floor /\ call'[c].must = call[c].must
  BY <1>1 DEF IInv, TypeOK, Calls
<1>4. now \in Int /\ \A d \in Callers : d # NoOne
  BY Numbers, CacheAssumption DEF IInv, NoOne
<1>5. \A d \in Callers : call[d].at \notin Leading
  BY <1>1, <1>4 DEF IInv, OneLeader
<1>6. OneLeader'
  <2>1. \A d \in Callers : call'[d].at \in Leading => leader' = d
    BY <1>1, <1>3, <1>5
  <2>2. leader' # NoOne
    BY <1>1, <1>4
  <2>3. now <= now
    BY <1>4
  <2>4. \A d \in Callers : call'[d].time <= now'
    BY <1>1, <1>3, <2>3 DEF IInv, OneLeader
  <2> QED
    BY <2>1, <2>2, <2>4 DEF OneLeader
<1>7. Ordered' /\ Missed' /\ Floors'
  BY <1>1, <1>3
  DEF IInv, Ordered, Missed, MissedFrom, Floors, NeverBackwards,
      EditsShow, Done, Holds, HasSnapshot, Ranking
<1> QED
  BY <1>2, <1>6, <1>7 DEF IInv

\* The answers of a step: rankings that are no older than what was returned,
\* judged fresh.
LEMMA Answers ==
  ASSUME IInv, NEW S \in SUBSET Callers, NEW table \in Rankings, NEW time \in Times,
         Answer(S, table, time),
         UNCHANGED <<now, commits, due, snapshot, faults>>,
         leader' \in Callers \cup {NoOne},
         shown <= table, settled <= table, table <= Ranking, time <= now,
         HasSnapshot => table <= snapshot.table,
         \A d \in Callers \ S : Holds(d) => table <= call[d].table,
         \A d \in Callers \ S : call[d].at \in Leading => leader' = d,
         \A d \in Callers \ S : call[d].at = "wait" => leader' # NoOne,
         \A v \in (table + 1) .. Ranking : commits[v] + TTL > time
  PROVE  IInv'
<1>1. /\ call' = [d \in Callers |->
           IF d \in S THEN [call[d] EXCEPT !.at = "done", !.table = table,
                                           !.time = time]
           ELSE call[d]]
      /\ shown' = Latest(shown, table)
      /\ UNCHANGED settled
  BY DEF Answer
<1>2. table \in Int /\ shown' = table
  <2>1. table \in Int
    BY CacheAssumption DEF Rankings
  <2>2. shown \in Int
    BY Numbers DEF IInv
  <2>3. shown <= table
    OBVIOUS
  <2>4. shown' = IF shown > table THEN shown ELSE table
    BY <1>1 DEF Latest
  <2>5. ~(shown > table) \/ shown = table
    BY <2>1, <2>2, <2>3
  <2> QED
    BY <2>1, <2>4, <2>5
<1>3. TypeOK'
  BY <1>1, <1>2 DEF IInv, TypeOK, Calls, Ranking
<1>4. /\ \A d \in Callers \ S : call'[d] = call[d]
      /\ \A d \in S : /\ call'[d].at = "done" /\ call'[d].table = table
                      /\ call'[d].time = time
                      /\ call'[d].floor = call[d].floor
                      /\ call'[d].must = call[d].must
  BY <1>1 DEF IInv, TypeOK, Calls
<1>5. Ranking' = Ranking /\ HasSnapshot' = HasSnapshot
  BY DEF Ranking, HasSnapshot
<1>6. OneLeader'
  BY <1>4 DEF IInv, OneLeader, Leading
<1>7. Ordered'
  <2>1. \A d \in Callers : Holds(d)' => d \notin S /\ Holds(d)
    BY <1>4 DEF Holds
  <2> QED
    BY <1>1, <1>2, <1>4, <1>5, <2>1 DEF IInv, Ordered
<1>8. Missed'
  BY <1>4, <1>5 DEF IInv, Missed, MissedFrom
<1>9. Floors'
  <2>1. \A d \in Callers : call'[d].floor <= shown' /\ call'[d].must <= settled'
    <3> TAKE d \in Callers
    <3>1. call'[d].floor = call[d].floor /\ call'[d].must = call[d].must
      BY <1>4
    <3>2. call[d].floor <= shown /\ call[d].must <= settled
      BY DEF IInv, Floors
    <3>3. call[d].floor \in Int /\ shown \in Int /\ shown <= table
      BY Numbers DEF IInv
    <3>4. call[d].floor <= table
      BY <1>2, <3>2, <3>3
    <3> QED
      BY <1>1, <1>2, <3>1, <3>2, <3>4
  <2>2. \A d \in Done' : call'[d].table >= call'[d].floor
                         /\ call'[d].table >= call'[d].must
    <3> TAKE d \in Done'
    <3>1. d \in Callers /\ call'[d].at = "done"
      BY DEF Done
    <3>2. CASE d \in S
      <4>1. call'[d].floor \in Int /\ call'[d].must \in Int
        BY <1>4, <3>2, Numbers DEF IInv
      <4>2. call'[d].floor <= table /\ call'[d].must <= settled
        BY <1>1, <1>2, <2>1, <3>1
      <4>3. settled \in Int /\ settled <= table
        BY Numbers DEF IInv
      <4> QED
        BY <1>2, <1>4, <3>2, <4>1, <4>2, <4>3
    <3>3. CASE d \notin S
      BY <1>4, <3>1, <3>3 DEF IInv, Floors, NeverBackwards, EditsShow, Done
    <3> QED
      BY <3>2, <3>3
  <2> QED
    BY <2>1, <2>2 DEF Floors, NeverBackwards, EditsShow, Done
<1> QED
  BY <1>3, <1>6, <1>7, <1>8, <1>9 DEF IInv

LEMMA Hits ==
  ASSUME IInv, NEW c \in Callers, Hit(c)
  PROVE  IInv'
<1>1. /\ call[c].at = "lookup" /\ call[c].time < snapshot.expires
      /\ Answer({c}, snapshot.table, call[c].time)
      /\ UNCHANGED <<now, commits, due, snapshot, leader, faults>>
  BY DEF Hit, Cached
<1>2. /\ snapshot.table \in Rankings /\ call[c].time \in Times
      /\ leader \in Callers \cup {NoOne}
  BY DEF IInv, TypeOK, Calls
<1>3. HasSnapshot
  BY <1>1, <1>2 DEF HasSnapshot, IInv, TypeOK, Times
<1>4. \A v \in (snapshot.table + 1) .. Ranking : commits[v] + TTL > call[c].time
  <2> TAKE v \in (snapshot.table + 1) .. Ranking
  <2>1. v \in 1 .. Ranking /\ commits[v] + TTL >= snapshot.expires
    BY <1>3, Numbers DEF IInv, Missed
  <2> QED
    BY <1>1, <2>1, Numbers DEF IInv
<1>5. /\ shown <= snapshot.table /\ settled <= snapshot.table
      /\ snapshot.table <= Ranking
      /\ \A d \in Callers : Holds(d) => snapshot.table <= call[d].table
  BY <1>3 DEF IInv, Ordered
<1>6. call[c].time <= now /\ snapshot.table <= snapshot.table
  BY Numbers DEF IInv, OneLeader
<1>7. /\ \A d \in Callers : call[d].at \in Leading => leader' = d
      /\ \A d \in Callers : call[d].at = "wait" => leader' # NoOne
  BY <1>1 DEF IInv, OneLeader
<1> QED
  BY <1>1, <1>2, <1>4, <1>5, <1>6, <1>7, Answers

LEMMA Returns ==
  ASSUME IInv, NEW c \in Callers, Return(c)
  PROVE  IInv'
<1>1. /\ call[c].at = "return" /\ leader' = NoOne
      /\ Answer({c} \cup Waiting, call[c].table, call[c].time)
      /\ UNCHANGED <<now, commits, due, snapshot, faults>>
  BY DEF Return
<1>2. /\ call[c].table \in Rankings /\ call[c].time \in Times
      /\ {c} \cup Waiting \in SUBSET Callers
  BY DEF IInv, TypeOK, Calls, Waiting
<1>3. \A d \in Callers \ {c} : call[d].at \notin Leading /\ ~Holds(d)
  BY <1>1, OthersDoNotLead DEF IInv, Leading
<1>4. /\ shown <= call[c].table /\ settled <= call[c].table
      /\ call[c].table <= Ranking
  BY <1>1 DEF IInv, Ordered, Holds
<1>5. HasSnapshot => call[c].table <= snapshot.table
  BY <1>1 DEF IInv, Ordered
<1>6. \A v \in (call[c].table + 1) .. Ranking : commits[v] + TTL > call[c].time
  BY <1>1 DEF IInv, Missed
<1>7. \A d \in Callers \ ({c} \cup Waiting) :
        call[d].at \notin Leading /\ ~Holds(d) /\ call[d].at # "wait"
  BY <1>3 DEF Waiting
<1>8. call[c].time <= now
  BY DEF IInv, OneLeader
<1> QED
  BY <1>1, <1>2, <1>4, <1>5, <1>6, <1>7, <1>8, Answers

LEMMA Rechecks ==
  ASSUME IInv, NEW c \in Callers, Recheck(c)
  PROVE  IInv'
<1>1. /\ call[c].at = "recheck" /\ leader = c
      /\ UNCHANGED <<now, commits, due, snapshot, leader, faults, shown, settled>>
  BY DEF Recheck, history, IInv, OneLeader, Leading
<1>2. Ranking' = Ranking /\ HasSnapshot' = HasSnapshot
  BY <1>1 DEF Ranking, HasSnapshot
<1>3. CASE Cached(call[c].time)
  <2>1. call' = [call EXCEPT ![c].at = "return", ![c].table = snapshot.table]
    BY <1>3 DEF Recheck
  <2>2. TypeOK'
    <3>1. call' \in [Callers -> Calls]
      <4>1. snapshot.table \in Rankings
        BY DEF IInv, TypeOK
      <4> QED
        BY <2>1, <4>1 DEF IInv, TypeOK, Calls
    <3> QED
      BY <1>1, <3>1 DEF IInv, TypeOK, Ranking
  <2>3. /\ \A d \in Callers \ {c} : call'[d] = call[d]
        /\ call'[c].at = "return" /\ call'[c].table = snapshot.table
        /\ call'[c].time = call[c].time
        /\ call'[c].floor = call[c].floor /\ call'[c].must = call[c].must
    BY <2>1 DEF IInv, TypeOK, Calls
  <2>4. HasSnapshot /\ call[c].time < snapshot.expires
    BY <1>3, Numbers DEF Cached, HasSnapshot, IInv, TypeOK, Calls, Times
  <2>5. OneLeader' /\ Floors'
    BY <1>1, <2>3
    DEF IInv, OneLeader, Floors, NeverBackwards, EditsShow, Done, Leading
  <2>6. Ordered'
    BY <1>1, <1>2, <2>3, <2>4, Numbers DEF IInv, Ordered, Holds
  <2>7. \A v \in (snapshot.table + 1) .. Ranking : commits[v] + TTL > call[c].time
    <3> TAKE v \in (snapshot.table + 1) .. Ranking
    <3>1. v \in 1 .. Ranking /\ commits[v] + TTL >= snapshot.expires
      BY <2>4, Numbers DEF IInv, Missed
    <3> QED
      BY <2>4, <3>1, Numbers DEF IInv
  <2>8. Missed'
    BY <1>1, <1>2, <2>3, <2>7 DEF IInv, Missed, MissedFrom
  <2> QED
    BY <2>2, <2>5, <2>6, <2>8 DEF IInv
<1>4. CASE ~Cached(call[c].time)
  <2>1. call' = [call EXCEPT ![c].at = "load"]
    BY <1>4 DEF Recheck, To
  <2>2. TypeOK'
    BY <1>1, <2>1 DEF IInv, TypeOK, Calls, Ranking
  <2>3. /\ \A d \in Callers \ {c} : call'[d] = call[d]
        /\ call'[c].at = "load" /\ call'[c].time = call[c].time
        /\ call'[c].floor = call[c].floor /\ call'[c].must = call[c].must
    BY <2>1 DEF IInv, TypeOK, Calls
  <2>4. OneLeader' /\ Ordered' /\ Missed' /\ Floors'
    BY <1>1, <1>2, <2>3
    DEF IInv, OneLeader, Ordered, Missed, MissedFrom, Floors, NeverBackwards,
        EditsShow, Done, Holds, Leading
  <2> QED
    BY <2>2, <2>4 DEF IInv
<1> QED
  BY <1>3, <1>4

\* A ranking is read when nobody else holds one: it is the newest there is.
LEMMA Loads ==
  ASSUME IInv, NEW c \in Callers, Load(c)
  PROVE  IInv'
<1>1. /\ call[c].at = "load" /\ leader = c
      /\ call' = [call EXCEPT ![c].at = "store", ![c].table = Ranking]
      /\ UNCHANGED <<now, commits, due, snapshot, leader, faults, shown, settled>>
  BY DEF Load, history, IInv, OneLeader, Leading
<1>2. Ranking' = Ranking /\ HasSnapshot' = HasSnapshot
  BY <1>1 DEF Ranking, HasSnapshot
<1>3. TypeOK'
  <2>1. Ranking \in Rankings
    BY Numbers, CacheAssumption DEF IInv, TypeOK, Ranking, Rankings
  <2>2. call' \in [Callers -> Calls]
    BY <1>1, <2>1 DEF IInv, TypeOK, Calls
  <2> QED
    BY <1>1, <2>2 DEF IInv, TypeOK, Ranking
<1>4. /\ \A d \in Callers \ {c} : call'[d] = call[d]
      /\ call'[c].at = "store" /\ call'[c].table = Ranking
      /\ call'[c].time = call[c].time
      /\ call'[c].floor = call[c].floor /\ call'[c].must = call[c].must
  BY <1>1 DEF IInv, TypeOK, Calls
<1>5. OneLeader' /\ Floors'
  BY <1>1, <1>4
  DEF IInv, OneLeader, Floors, NeverBackwards, EditsShow, Done, Leading
<1>6. Ordered'
  <2>1. /\ shown <= Ranking /\ settled <= Ranking /\ Ranking <= Ranking
        /\ HasSnapshot => snapshot.table <= Ranking
    BY Numbers DEF IInv, Ordered
  <2>2. \A d \in Callers \ {c} : Holds(d)' => Holds(d)
    BY <1>4 DEF Holds
  <2> QED
    BY <1>1, <1>2, <1>4, <2>1, <2>2 DEF IInv, Ordered
<1>7. Missed'
  <2>1. (Ranking + 1) .. Ranking = {}
    BY Numbers DEF IInv
  <2> QED
    BY <1>1, <1>2, <1>4, <2>1 DEF IInv, Missed, MissedFrom
<1> QED
  BY <1>3, <1>5, <1>6, <1>7 DEF IInv

LEMMA Stores ==
  ASSUME IInv, NEW c \in Callers, Store(c)
  PROVE  IInv'
<1>1. /\ call[c].at = "store" /\ leader = c
      /\ snapshot' = [table |-> call[c].table, expires |-> call[c].time + TTL]
      /\ call' = [call EXCEPT ![c].at = "return"]
      /\ UNCHANGED <<now, commits, due, leader, faults, shown, settled>>
  BY DEF Store, To, history, IInv, OneLeader, Leading
<1>2. call[c].time \in Times /\ call[c].table \in Rankings /\ call[c].time <= now
  BY DEF IInv, TypeOK, Calls, OneLeader
<1>3. /\ snapshot'.table = call[c].table
      /\ snapshot'.expires = call[c].time + TTL
      /\ snapshot'.expires <= now + TTL
      /\ snapshot' \in [table : Rankings, expires : 0 .. (MaxTime + TTL)]
  BY <1>1, <1>2, CacheAssumption, Numbers DEF Times, IInv
<1>4. TypeOK'
  BY <1>1, <1>3 DEF IInv, TypeOK, Calls, Ranking
<1>5. /\ \A d \in Callers \ {c} : call'[d] = call[d]
      /\ call'[c].at = "return" /\ call'[c].table = call[c].table
      /\ call'[c].time = call[c].time
      /\ call'[c].floor = call[c].floor /\ call'[c].must = call[c].must
  BY <1>1 DEF IInv, TypeOK, Calls
<1>6. OneLeader' /\ Floors'
  BY <1>1, <1>5
  DEF IInv, OneLeader, Floors, NeverBackwards, EditsShow, Done, Leading
<1>7. \A d \in Callers \ {c} : call[d].at \notin Leading /\ ~Holds(d)
  BY <1>1, OthersDoNotLead DEF IInv, Leading
<1>8. Ordered'
  BY <1>1, <1>3, <1>5, <1>7, Numbers DEF IInv, Ordered, Holds, Ranking, Leading
<1>9. \A v \in (call[c].table + 1) .. Ranking :
        commits[v] + TTL >= call[c].time + TTL /\ commits[v] + TTL > call[c].time
  <2> TAKE v \in (call[c].table + 1) .. Ranking
  <2>1. v \in 1 .. Ranking /\ commits[v] >= call[c].time
    BY <1>1, Numbers DEF IInv, Missed, MissedFrom
  <2> QED
    BY <2>1, Numbers DEF IInv
<1>10. Missed'
  BY <1>1, <1>3, <1>5, <1>9 DEF IInv, Missed, MissedFrom, Ranking
<1> QED
  BY <1>4, <1>6, <1>8, <1>10 DEF IInv

LEMMA FailingEnds ==
  ASSUME IInv, NEW c \in Callers, LoadFails(c)
  PROVE  IInv'
<1>1. /\ call[c].at = "load" /\ leader' = NoOne /\ faults' \in 0 .. MaxFaults
      /\ call' = [d \in Callers |-> IF d \in {c} \cup Waiting THEN NoCall ELSE call[d]]
      /\ UNCHANGED <<now, commits, due, snapshot, shown, settled>>
  BY CacheAssumption DEF LoadFails, Fails, Fault, history, IInv, TypeOK
<1>2. NoCall \in Calls
  BY CacheAssumption DEF NoCall, Calls, Times, Rankings
<1>3. TypeOK'
  BY <1>1, <1>2 DEF IInv, TypeOK, Ranking
<1>4. \A d \in Callers : call'[d] = NoCall \/ (call'[d] = call[d] /\ d \notin {c} \cup Waiting)
  BY <1>1
<1>5. \A d \in Callers \ {c} : call[d].at \notin Leading /\ ~Holds(d)
  BY <1>1, OthersDoNotLead DEF IInv, Leading
<1>6. /\ shown >= 0 /\ settled >= 0 /\ now >= 0
      /\ NoCall.at = "idle" /\ NoCall.time = 0 /\ NoCall.floor = 0 /\ NoCall.must = 0
  BY CacheAssumption DEF IInv, TypeOK, Rankings, Times, NoCall
<1>7. OneLeader'
  BY <1>1, <1>4, <1>5, <1>6 DEF IInv, OneLeader, Leading, Waiting
<1>8. Ordered' /\ Missed' /\ Floors'
  BY <1>1, <1>4, <1>6
  DEF IInv, Ordered, Missed, MissedFrom, Floors, NeverBackwards, EditsShow,
      Done, Holds, HasSnapshot, Ranking
<1> QED
  BY <1>3, <1>7, <1>8 DEF IInv

\* A commit is missed by whatever was read before it, and is not late for it.
LEMMA Commits ==
  ASSUME IInv, Result \/ Edit
  PROVE  IInv'
<1>1. /\ Ranking < MaxCommits /\ commits' = Append(commits, now)
      /\ due' \subseteq due \cup {Ranking + 1}
      /\ UNCHANGED <<now, snapshot, leader, call, faults, shown, settled>>
  BY DEF Result, Edit, history
<1>2. /\ commits' \in Seq(Times) /\ Ranking' = Ranking + 1
      /\ \A v \in 1 .. Ranking : commits'[v] = commits[v]
      /\ commits'[Ranking + 1] = now
  BY <1>1 DEF IInv, TypeOK, Ranking
<1>3. TypeOK'
  <2>1. Ranking \in Nat /\ Ranking' <= MaxCommits
    BY <1>1, <1>2, Numbers, CacheAssumption DEF IInv
  <2>2. due' \subseteq 1 .. Ranking'
    BY <1>1, <1>2, <2>1 DEF IInv, TypeOK
  <2> QED
    BY <1>1, <1>2, <2>1, <2>2 DEF IInv, TypeOK, Ranking
<1>4. HasSnapshot' = HasSnapshot /\ \A d \in Callers : Holds(d)' = Holds(d)
  BY <1>1 DEF HasSnapshot, Holds
<1>5. OneLeader' /\ Floors'
  BY <1>1 DEF IInv, OneLeader, Floors, NeverBackwards, EditsShow, Done
<1>6. Ordered'
  BY <1>1, <1>2, <1>4, Numbers DEF IInv, Ordered
<1>7. Missed'
  <2>1. ASSUME NEW t \in Nat, NEW v \in (t + 1) .. Ranking'
        PROVE  \/ v \in (t + 1) .. Ranking /\ commits'[v] = commits[v]
               \/ commits'[v] = now
    BY <1>2, <2>1, Numbers DEF IInv
  <2>2. ASSUME NEW d \in Callers
        PROVE  /\ call[d].time <= now /\ now + TTL > call[d].time
               /\ call[d].table \in Nat
    BY Numbers DEF IInv, OneLeader
  <2>3. now + TTL >= snapshot.expires /\ snapshot.table \in Nat
    BY Numbers DEF IInv, Missed
  <2>4. HasSnapshot => \A v \in (snapshot.table + 1) .. Ranking' :
                         commits'[v] + TTL >= snapshot.expires
    BY <2>1, <2>3 DEF IInv, Missed
  <2>5. ASSUME NEW d \in Callers
        PROVE  /\ call[d].at = "store" =>
                    \A v \in (call[d].table + 1) .. Ranking' :
                      commits'[v] >= call[d].time
               /\ call[d].at \in {"return", "done"} =>
                    \A v \in (call[d].table + 1) .. Ranking' :
                      commits'[v] + TTL > call[d].time
    BY <2>1, <2>2 DEF IInv, Missed, MissedFrom
  <2> QED
    BY <1>1, <1>4, <2>3, <2>4, <2>5 DEF Missed, MissedFrom, HasSnapshot, IInv
<1> QED
  BY <1>3, <1>5, <1>6, <1>7 DEF IInv

LEMMA Invalidates ==
  ASSUME IInv, NEW v \in due, Invalidate(v)
  PROVE  IInv'
<1>1. /\ snapshot' = NoSnapshot /\ due' = due \ {v}
      /\ settled' = IF \E c \in Callers : Holds(c) THEN settled
                    ELSE Latest(settled, v)
      /\ UNCHANGED <<now, commits, leader, call, faults, shown>>
  BY DEF Invalidate, Told
<1>2. v \in 1 .. Ranking /\ Ranking <= MaxCommits
  BY DEF IInv, TypeOK, Ranking
<1>3. /\ settled <= settled' /\ settled' \in Rankings /\ settled' <= Ranking
      /\ (\E c \in Callers : Holds(c)) => settled' = settled
  BY <1>1, <1>2, Numbers, CacheAssumption
  DEF Latest, IInv, TypeOK, Rankings, Ordered
<1>4. ~HasSnapshot' /\ NoSnapshot \in [table : Rankings, expires : 0 .. (MaxTime + TTL)]
      /\ NoSnapshot.expires <= now + TTL
  BY <1>1, Numbers, CacheAssumption
  DEF HasSnapshot, NoSnapshot, Rankings, IInv, TypeOK, Times
<1>5. TypeOK'
  BY <1>1, <1>3, <1>4 DEF IInv, TypeOK, Ranking
<1>6. OneLeader' /\ Missed'
  BY <1>1, <1>4 DEF IInv, OneLeader, Missed, MissedFrom, Ranking
<1>7. Ordered'
  BY <1>1, <1>3, <1>4 DEF IInv, Ordered, Holds, Ranking
<1>8. Floors'
  <2>1. \A d \in Callers : call[d].must <= settled'
    BY <1>3, Numbers DEF IInv, Floors, Rankings
  <2> QED
    BY <1>1, <2>1 DEF IInv, Floors, NeverBackwards, EditsShow, Done
<1> QED
  BY <1>5, <1>6, <1>7, <1>8 DEF IInv

LEMMA Ticks ==
  ASSUME IInv, Tick
  PROVE  IInv'
<1>1. /\ now' = now + 1 /\ now' \in Times
      /\ UNCHANGED <<commits, due, snapshot, leader, call, faults, shown, settled>>
  BY CacheAssumption DEF Tick, history, IInv, TypeOK, Times
<1>2. TypeOK'
  BY <1>1 DEF IInv, TypeOK, Ranking
<1>3. OneLeader'
  BY <1>1, Numbers DEF IInv, OneLeader
<1>4. snapshot'.expires <= now' + TTL
  BY <1>1, Numbers DEF IInv, Missed
<1>5. Ordered' /\ Missed' /\ Floors'
  BY <1>1, <1>4
  DEF IInv, Ordered, Missed, MissedFrom, Floors, NeverBackwards, EditsShow,
      Done, Holds, HasSnapshot, Ranking
<1> QED
  BY <1>2, <1>3, <1>5 DEF IInv

LEMMA Stutters == IInv /\ UNCHANGED vars => IInv'
BY DEF vars, history, IInv, TypeOK, OneLeader, Ordered, Missed, MissedFrom,
   Floors, NeverBackwards, EditsShow, Done, Holds, HasSnapshot, Ranking

-----------------------------------------------------------------------------

\* The inductive invariant of the cache: one call refreshes at a time, and
\* rankings, times and floors are in order.
THEOREM CacheInvariant == Spec => []IInv
<1>1. IInv /\ [Next]_vars => IInv'
  <2> SUFFICES ASSUME IInv, Next PROVE IInv'
    BY Stutters
  <2>1. ASSUME NEW c \in Callers, Begin(c) \/ CallStep(c) PROVE IInv'
    BY <2>1, Begins, Hits, Misses, Leads, Rechecks, Loads, Stores, Returns, FailingEnds
    DEF CallStep
  <2>2. CASE Result \/ Edit
    BY <2>2, Commits
  <2>3. ASSUME NEW v \in due, Invalidate(v) PROVE IInv'
    BY <2>3, Invalidates
  <2>4. CASE Tick
    BY <2>4, Ticks
  <2> QED
    BY <2>1, <2>2, <2>3, <2>4 DEF Next
<1> QED
  BY <1>1, InitSound, PTL DEF Spec

\* Every variable keeps its type.
THEOREM CacheTyped == Spec => []TypeOK
<1>1. IInv => TypeOK
  BY DEF IInv
<1> QED
  BY <1>1, CacheInvariant, PTL

\* No caller sees the ranking go back, however refreshes, hits and Invalidate
\* interleave (Cache.Top50).
THEOREM RankingNeverGoesBack == Spec => []NeverBackwards
<1>1. IInv => NeverBackwards
  BY DEF IInv, Floors
<1> QED
  BY <1>1, CacheInvariant, PTL

\* What an answer misses is younger than a time to live, however long the query
\* took that it came from (Cache.Top50, cacheTTL).
THEOREM StalenessIsBounded == Spec => []StaleByTTLAtMost
<1>1. IInv => StaleByTTLAtMost
  BY DEF IInv, Missed, StaleByTTLAtMost, Done
<1> QED
  BY <1>1, CacheInvariant, PTL

\* An edit whose Invalidate met no refresh that held a ranking is in every later
\* answer (Cache.Invalidate).
THEOREM EditsAreShown == Spec => []EditsShow
<1>1. IInv => EditsShow
  BY DEF IInv, Floors
<1> QED
  BY <1>1, CacheInvariant, PTL
=============================================================================
