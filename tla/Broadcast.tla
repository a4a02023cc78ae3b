----------------------------- MODULE Broadcast -----------------------------
(***************************************************************************)
(* A receiver of a tokio broadcast channel, as the watch and sync streams  *)
(* of server.rs use it.  A sender never waits: when the channel is full    *)
(* the oldest message is overwritten, and a receiver that had not read it  *)
(* is told once, by the error Lagged, before it goes on with what is left. *)
(* A message sent before subscribe is never received.                      *)
(***************************************************************************)
EXTENDS Naturals, Sequences

CONSTANT Capacity   \* messages the channel keeps

NewReceiver == [queue |-> <<>>, lagged |-> FALSE]

Received(rx, m) ==
  IF Len(rx.queue) < Capacity THEN [rx EXCEPT !.queue = Append(@, m)]
  ELSE [queue |-> Append(Tail(rx.queue), m), lagged |-> TRUE]

(* recv after it has returned a message, or the error.                     *)
Popped(rx) ==
  IF rx.lagged THEN [rx EXCEPT !.lagged = FALSE] ELSE [rx EXCEPT !.queue = Tail(@)]
=============================================================================
