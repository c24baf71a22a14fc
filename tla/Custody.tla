------------------------------- MODULE Custody -------------------------------
(***************************************************************************)
(* What delivery promises of an envelope: once recorded, somebody has it.  *)
(* The device records it, the server takes a copy, and only then may the   *)
(* device let go of its own ("nothing is dropped", outbox_sender.dart:49). *)
(***************************************************************************)
CONSTANT Envelope

VARIABLES
  device,   \* the envelopes in the device's outbox
  server    \* the envelopes whose payload the server holds

TypeOK == device \subseteq Envelope /\ server \subseteq Envelope

Init == device = {} /\ server = {}

\* A recorded envelope is new to both.
Record(S) ==
  /\ S \cap (device \cup server) = {}
  /\ device' = device \cup S
  /\ UNCHANGED server

\* The server takes a copy of what the device has.
Take(e) ==
  /\ e \in device
  /\ server' = server \cup {e}
  /\ UNCHANGED device

\* The device lets go of what the server holds.
LetGo(S) ==
  /\ S \subseteq server
  /\ device' = device \ S
  /\ UNCHANGED server

Next ==
  \/ \E S \in SUBSET Envelope : Record(S) \/ LetGo(S)
  \/ \E e \in Envelope : Take(e)

Spec == Init /\ [][Next]_<<device, server>>

=============================================================================
