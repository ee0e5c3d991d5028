----------------------------- MODULE MCPersister -----------------------------
(***************************************************************************)
(* Persister for model checking: the streams of record batches.            *)
(***************************************************************************)
EXTENDS Persister

\* No batch, a batch without rows, batches with rows, a stream that fails
\* after a batch, and one with a batch of another schema
MCStreams == {<<>>, <<0>>, <<0, 2>>, <<1>>, <<1, FAILED>>, <<2, MISMATCH, 1>>}

=============================================================================
