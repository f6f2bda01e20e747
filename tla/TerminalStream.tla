--------------------------- MODULE TerminalStream ---------------------------
(***************************************************************************)
(* What a terminal promises to those who watch its output, with nothing    *)
(* said about rings, channels or tasks.                                    *)
(*                                                                         *)
(* A client joins with the newest bytes shown so far.  From there it gets   *)
(* every byte once and in order, unless it falls behind; a client that has  *)
(* fallen behind may miss bytes, but what it gets stays in order.  Its      *)
(* stream ends when it leaves, or when the terminal is over and, unless it  *)
(* fell behind, it has everything.                                          *)
(***************************************************************************)
EXTENDS Naturals

CONSTANT Clients

VARIABLES
  shown,   \* how many bytes the terminal has shown
  over,    \* it will show no more
  state,   \* client -> "away", "here", "ended", "left"
  span,    \* client -> the bytes it has, those after low up to high
  whole,   \* the clients that have each of those bytes exactly once
  behind   \* the clients that fell behind

vars == <<shown, over, state, span, whole, behind>>

Init ==
  /\ shown \in Nat
  /\ over = FALSE
  /\ state = [c \in Clients |-> "away"]
  /\ span = [c \in Clients |-> [low |-> 0, high |-> 0]]
  /\ whole = Clients
  /\ behind = {}

Show ==
  /\ ~over
  /\ shown' \in Nat
  /\ shown' > shown
  /\ UNCHANGED <<over, state, span, whole, behind>>

Finish ==
  /\ over' = TRUE
  /\ UNCHANGED <<shown, state, span, whole, behind>>

Join(c) ==
  /\ state[c] = "away"
  /\ state' = [state EXCEPT ![c] = "here"]
  /\ \E low \in 0 .. shown : span' = [span EXCEPT ![c] = [low |-> low, high |-> shown]]
  /\ UNCHANGED <<shown, over, whole, behind>>

(* A client that keeps up gets the bytes that come next, so what it has     *)
(* stays whole.                                                             *)
Deliver(c) ==
  /\ state[c] = "here"
  /\ \E high \in span[c].high + 1 .. shown : span' = [span EXCEPT ![c].high = high]
  /\ \/ UNCHANGED whole
     \/ c \in behind /\ whole' = whole \ {c}
  /\ UNCHANGED <<shown, over, state, behind>>

FallBehind(c) ==
  /\ state[c] = "here"
  /\ behind' = behind \union {c}
  /\ UNCHANGED <<shown, over, state, span, whole>>

End(c) ==
  /\ state[c] = "here"
  /\ over
  /\ c \notin behind => span[c].high = shown /\ c \in whole
  /\ state' = [state EXCEPT ![c] = "ended"]
  /\ UNCHANGED <<shown, over, span, whole, behind>>

Leave(c) ==
  /\ state[c] = "here"
  /\ state' = [state EXCEPT ![c] = "left"]
  /\ UNCHANGED <<shown, over, span, whole, behind>>

Next ==
  \/ Show
  \/ Finish
  \/ \E c \in Clients : Join(c) \/ Deliver(c) \/ FallBehind(c) \/ End(c) \/ Leave(c)

Spec == Init /\ [][Next]_vars
=============================================================================
