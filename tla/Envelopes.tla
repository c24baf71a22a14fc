------------------------------ MODULE Envelopes ------------------------------
(***************************************************************************)
(* What the device and the server have in common: envelope ids, the hash   *)
(* of a payload, and receipts (schema/api/receipt.schema.json).            *)
(***************************************************************************)
EXTENDS Naturals, FiniteSets

CONSTANTS
  Item,      \* the envelope ids the device can use
  Report,    \* those it uses for its own client_error envelopes
  Mangled,   \* items the server hashes differently from the device
  Reused     \* ids another sender also posts, with another payload

\* An id is a UUID: there are finitely many.
ASSUME EnvelopeAssumption ==
  /\ IsFiniteSet(Item)
  /\ Report \subseteq Item
  /\ Mangled \subseteq Item
  /\ Reused \subseteq Item

\* A payload is known by its hash.  "own" is the device's payload_hash.
Hash == {"own", "mangled", "foreign"}

\* canonicalHash of the payload the device sends for i: the same bytes, the
\* same hash each time.
ServerHash(i) == IF i \in Mangled THEN "mangled" ELSE "own"

\* The states in which the server is done with an envelope.
Finished == {"committed", "duplicate", "rejected", "conflict"}

\* "refused" is the receipt {state: null, durable: false}; every other
\* receipt the server gives says durable: true.
Receipt == [state: {"refused", "deferred"} \cup Finished,
            hash: Hash \cup {"none"}]

\* What the pull says of an envelope; "settled" stands for the resolutions
\* 'resolved' and 'attached'.
Outcome == [state: {"deferred"} \cup Finished,
            resolution: {"none", "reprocessed", "settled"}]

=============================================================================
