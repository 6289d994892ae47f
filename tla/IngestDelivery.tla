--------------------------- MODULE IngestDelivery ---------------------------
(***************************************************************************)
(* Ingest implements OutboxDelivery: a row is durable when the collection  *)
(* holds a document under its tenant and its eventId, and lost when it was *)
(* buried by an answer about the whole request.                            *)
(***************************************************************************)
EXTENDS Ingest

Delivery == INSTANCE OutboxDelivery WITH
                Rows <- Events,
                StorableRows <- {e \in Events : Storable(e)},
                status <- outbox,
                durable <- {e \in Events : Stored(e)},
                lost <- {e \in Events : cause[e] \in {"envelope", "body"}}

(* Every step of the ingest path, concurrent and faulty as it is, is a step*)
(* of the promise made to the outbox, or changes nothing the promise sees. *)
Delivers == Delivery!Spec
=============================================================================
