--------------------------- MODULE MCOutboxWorker ---------------------------
(***************************************************************************)
(* Small instances of OutboxWorker: two workers competing for one message  *)
(* (OutboxRace.cfg), and one worker with two messages in a batch           *)
(* (OutboxBatch.cfg).                                                      *)
(***************************************************************************)
EXTENDS OutboxWorker, TLC

InterchangeableWorkers == Permutations(Workers)
=============================================================================
