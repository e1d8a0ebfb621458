------------------------------- MODULE Channel -------------------------------
(***************************************************************************)
(* The transport as a system of its own: what the threads of Client and    *)
(* the gateway do to it between Client::Initialize and Client::Destroy.    *)
(* Session makes the same steps together with its own; StreamLoop          *)
(* implements this specification.                                          *)
(***************************************************************************)
EXTENDS Transport

CONSTANTS
  Requests,  \* packets the SDK may send
  Pushed     \* packets the server may write

VARIABLE alive   \* Destroy was not called yet

channel == <<alive, up, sendQ, wire, inbox>>

Init == alive = TRUE /\ TransportInit

(* Destroy: nothing is promised any more, and nothing happens. *)
Close ==
  /\ alive' = FALSE
  /\ up' = FALSE
  /\ sendQ' = <<>>
  /\ wire' = <<>>
  /\ inbox' = <<>>

ServerReads ==
  /\ wire # <<>>
  /\ wire' = Tail(wire)

ServerWrites(m) ==
  /\ up
  /\ inbox' = Append(inbox, m)

Transports ==
  \/ \E m \in Requests : Send(m) /\ UNCHANGED <<up, wire, inbox>>
  \/ up /\ SendAllMsgs /\ UNCHANGED <<up, inbox>>
  \/ Connect /\ UNCHANGED <<sendQ, wire, inbox>>
  \/ Disconnect /\ UNCHANGED sendQ
  \/ Read(<<>>) /\ UNCHANGED up
  \/ ServerReads /\ UNCHANGED <<up, sendQ, inbox>>
  \/ \E m \in Pushed : ServerWrites(m) /\ UNCHANGED <<up, sendQ, wire>>

Next ==
  /\ alive
  /\ \/ Transports /\ UNCHANGED alive
     \/ Close

Spec == Init /\ [][Next]_channel
=============================================================================
