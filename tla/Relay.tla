------------------------------- MODULE Relay -------------------------------
(***************************************************************************)
(* What the plugin promises about one streamed response, without its       *)
(* goroutines and channels: a source produces messages 1, 2, ... and ends  *)
(* once, for a reason; the client gets them in order, none left out and    *)
(* none twice, and then one close that tells the reason, after the last    *)
(* message.  A client that sees success finds its slot free.  Only a client *)
(* that has left may be closed early.                                      *)
(***************************************************************************)
EXTENDS Integers, Sequences

CONSTANTS
  Endings,  \* reasons a response may end for, "ok" among them
  GaveUp    \* what the stream of a client that left is closed with

VARIABLES
  sent,    \* messages produced
  ending,  \* why the source ended, or "none"
  slot,    \* the request still holds its slot
  there,   \* the client takes messages
  got,     \* messages the client has
  closed   \* "open", or what the client was told at the end

vars == << sent, ending, slot, there, got, closed >>

Init ==
  /\ sent = 0 /\ ending = "none" /\ slot = TRUE
  /\ there = TRUE /\ got = << >> /\ closed = "open"

Produce ==
  /\ ending = "none"
  /\ sent' \in Nat /\ sent' >= sent
  /\ ending' \in Endings \cup {"none"}
  /\ UNCHANGED << slot, there, got, closed >>

Free ==
  /\ ending # "none" /\ slot
  /\ slot' = FALSE
  /\ UNCHANGED << sent, ending, there, got, closed >>

Deliver ==
  /\ there /\ closed = "open"
  /\ Len(got) < sent
  /\ got' = Append(got, Len(got) + 1)
  /\ UNCHANGED << sent, ending, slot, there, closed >>

Leave ==
  /\ there
  /\ there' = FALSE
  /\ UNCHANGED << sent, ending, slot, got, closed >>

Close ==
  /\ closed = "open" /\ ending # "none"
  /\ Len(got) = sent
  /\ ending = "ok" => ~slot
  /\ closed' = ending
  /\ UNCHANGED << sent, ending, slot, there, got >>

GiveUp ==
  /\ ~there /\ closed = "open"
  /\ Len(got) < sent
  /\ closed' = GaveUp
  /\ UNCHANGED << sent, ending, slot, there, got >>

Next == Produce \/ Free \/ Deliver \/ Leave \/ Close \/ GiveUp

Spec == Init /\ [][Next]_vars

=============================================================================
