------------------------------ MODULE Transport ------------------------------
(***************************************************************************)
(* What Client (src/src/core/client.cpp, stream.cpp) promises to PushSDK:  *)
(* a queue of unsent packets that outlives the stream, and, while a stream *)
(* is connected, a reliable FIFO in each direction that dies with it.      *)
(*                                                                         *)
(* Each operator primes the variables its comment names and no other, so   *)
(* that Session conjoins it with what PushSDK does in the same step.       *)
(***************************************************************************)
EXTENDS Integers, Sequences

VARIABLES
  up,      \* the stream is connected
  sendQ,   \* Client::msg_queue_: packets no stream has taken yet
  wire,    \* packets a stream took and the server has not read
  inbox    \* packets the server wrote and the client loop has not read

TransportInit ==
  /\ up = FALSE
  /\ sendQ = <<>>
  /\ wire = <<>>
  /\ inbox = <<>>

(* Client::Send: primes sendQ. *)
Send(m) == sendQ' = Append(sendQ, m)

(* Client::CleanQueue: primes sendQ. *)
CleanQueue == sendQ' = <<>>

(* send_all_msgs: the stream takes the whole queue.  Primes sendQ, wire. *)
SendAllMsgs ==
  /\ wire' = wire \o sendQ
  /\ sendQ' = <<>>

(* A CONNECTED event with ok = true.  The loop has by then read all that   *)
(* the stream before it had received.  Primes up.                          *)
Connect ==
  /\ ~up
  /\ inbox = <<>>
  /\ up' = TRUE

(* Finish: nothing more is sent, and what the stream took and the server   *)
(* has not read is lost, as are packets on their way to the client; those  *)
(* received before can still be read.  Primes up, wire, inbox.             *)
Disconnect ==
  /\ up
  /\ up' = FALSE
  /\ wire' = <<>>
  /\ \E n \in 0..Len(inbox) : inbox' = SubSeq(inbox, 1, n)

(* A READ_DONE event: the queue is flushed if the stream still sends, then *)
(* the packet is handled, which may queue the packets of out.              *)
(* Primes inbox, sendQ, wire.                                              *)
Read(out) ==
  /\ inbox # <<>>
  /\ inbox' = Tail(inbox)
  /\ IF up
     THEN wire' = wire \o sendQ /\ sendQ' = out
     ELSE sendQ' = sendQ \o out /\ UNCHANGED wire

=============================================================================
