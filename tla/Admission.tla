----------------------------- MODULE Admission -----------------------------
(***************************************************************************)
(* What the executor promises about admission, without its counter: a     *)
(* room with Cap places.  A call that finds a place is inside until it has *)
(* been answered and leaves; one that finds none is turned away as busy.   *)
(* A call on its way out after being turned away still takes up a place in *)
(* the door, and nothing else does: a call is never turned away because of *)
(* calls that have left.  Every call is answered once, and keeps its       *)
(* answer.                                                                 *)
(*                                                                         *)
(* Executor implements this with one atomic integer that it increments     *)
(* before it looks at it.                                                  *)
(***************************************************************************)
EXTENDS Integers, FiniteSets

CONSTANTS
  Calls,
  Cap,       \* max_inflight; <= 0 means unlimited
  Answers,
  NoAnswer,  \* a call that has not been answered
  Busy       \* the answer of a call that was turned away

VARIABLES
  inside,  \* calls that have a place
  turned,  \* calls turned away that are still in the door
  answer   \* the answer of each call

vars == << inside, turned, answer >>

Init ==
  /\ inside = {} /\ turned = {}
  /\ answer = [c \in Calls |-> NoAnswer]

New(c) == c \notin inside \cup turned /\ answer[c] = NoAnswer

Taken == Cardinality(inside) + Cardinality(turned)

Enter(c) ==
  /\ New(c)
  /\ Cap > 0 => Taken < Cap
  /\ inside' = inside \cup {c}
  /\ UNCHANGED << turned, answer >>

TurnAway(c) ==
  /\ New(c)
  /\ Cap > 0 /\ Taken >= Cap
  /\ turned' = turned \cup {c}
  /\ UNCHANGED << inside, answer >>

Refuse(c) ==
  /\ c \in turned
  /\ turned' = turned \ {c}
  /\ answer' = [answer EXCEPT ![c] = Busy]
  /\ UNCHANGED inside

Answer(c) ==
  /\ c \in inside /\ answer[c] = NoAnswer
  /\ answer'[c] \in Answers \ {NoAnswer, Busy}
  /\ answer' = [answer EXCEPT ![c] = answer'[c]]
  /\ UNCHANGED << inside, turned >>

Leave(c) ==
  /\ c \in inside /\ answer[c] # NoAnswer
  /\ inside' = inside \ {c}
  /\ UNCHANGED << turned, answer >>

Next == \E c \in Calls : Enter(c) \/ TurnAway(c) \/ Refuse(c) \/ Answer(c) \/ Leave(c)

Spec == Init /\ [][Next]_vars

=============================================================================
