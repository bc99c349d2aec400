------------------------ MODULE MCOperationRegistry --------------------------
(* Two concurrent LoadOperations calls for one tenant, a TTL of two ticks. *)
EXTENDS OperationRegistry
MCReaders == {"r1", "r2"}
====
