-------------------------- MODULE MCConsumerWorker --------------------------
(***************************************************************************)
(* ConsumerWorker with interchangeable workers, for TLC.                   *)
(***************************************************************************)
EXTENDS ConsumerWorker, TLC

\* The workers of a group run the same program.
WorkerSymmetry == Permutations(Workers)

=============================================================================
