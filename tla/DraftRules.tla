---------------------------- MODULE DraftRules ----------------------------
(***************************************************************************)
(* The draft of the categories of one series, as the domain states it:    *)
(* two participants decide the turns alternately, first the bans and then *)
(* the picks, each with a category nobody has named before and not after  *)
(* the deadline of the turn.  The deadline of a turn counts from the time *)
(* of the action before it.  Nothing here says who runs the rules; module *)
(* Draft does, with players, deadline workers and transactions.            *)
(***************************************************************************)
EXTENDS Integers, Sequences, FiniteSets

CONSTANTS
  Pool,          \* The categories of the series' format.
  Turns,         \* Turns of the format: 2 in a BO1, 4 in a BO3.
  TurnDuration   \* Time a turn is given.

ASSUME DraftRulesAssumption ==
  /\ Turns \in Nat \ {0} /\ TurnDuration \in Nat \ {0}
  /\ IsFiniteSet(Pool) /\ Cardinality(Pool) = Turns + 1

VARIABLES
  actions,   \* The actions so far, one for each decided turn.
  deadline   \* Deadline of the current turn, 0 once all are decided.

draft == <<actions, deadline>>

Bans == 2

\* The first participant decides the odd turns.
Actor(turn) == IF turn % 2 = 1 THEN "first" ELSE "second"

Turn == Len(actions) + 1
Completed == Len(actions) = Turns

Used == {actions[i].category : i \in DOMAIN actions}
Legal == Pool \ Used

Action(category, at) ==
  [actor |-> Actor(Turn), category |-> category, due |-> deadline, at |-> at]

RulesInit ==
  /\ actions = <<>>
  /\ deadline \in Nat /\ deadline >= TurnDuration

\* ApplyAction: the next turn is decided at a time the turn allows.
Apply(category, at) ==
  /\ ~Completed
  /\ category \in Legal
  /\ actions' = Append(actions, Action(category, at))
  /\ deadline' = IF Turn = Turns THEN 0 ELSE at + TurnDuration

RulesNext == \E category \in Pool, at \in 0..deadline : Apply(category, at)

RulesSpec == RulesInit /\ [][RulesNext]_draft
=============================================================================
