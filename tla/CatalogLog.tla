----------------------------- MODULE CatalogLog -----------------------------
(***************************************************************************)
(* What the catalog promises, whatever its tasks, permits, retries,        *)
(* checkpoints and restarts do to keep it: the catalog is a state machine  *)
(* that follows an append-only log.  A batch is added to the log only by   *)
(* someone who has seen the whole log; what is logged is never changed or  *)
(* taken back; the state is the state after the first `applied` batches,   *)
(* applied in order, and `applied` only grows.                             *)
(*                                                                         *)
(* Module Catalog is shown to implement this specification.                *)
(***************************************************************************)
EXTENDS Naturals, Sequences

CONSTANTS
    Initial,            \* the state before any batch
    Step(_, _, _)       \* the state after a batch: Step(state, batch, sequence)

VARIABLES
    log,                \* the batches, by sequence number
    applied,            \* how many of them the state has taken in
    state               \* the catalog

log_vars == <<log, applied, state>>

\* The state after the batches from..upto of the log, starting from `from_state`
RECURSIVE After(_, _, _, _)
After(from_state, batches, from, upto) ==
    IF from > upto THEN from_state
    ELSE After(Step(from_state, batches[from], from), batches, from + 1, upto)

\* The first batch is logged and applied when the catalog is created.
LogInit ==
    /\ Len(log) = 1
    /\ applied = 1
    /\ state = After(Initial, log, 1, 1)

\* A batch is logged, by a writer that is not behind the log.
AppendBatch ==
    /\ applied = Len(log)
    /\ Len(log') = Len(log) + 1
    /\ SubSeq(log', 1, Len(log)) = log
    /\ UNCHANGED <<applied, state>>

\* The catalog takes in one or more of the batches it has not yet applied.
Advance ==
    /\ applied' \in (applied + 1)..Len(log)
    /\ state' = After(state, log, applied + 1, applied')
    /\ UNCHANGED log

LogNext == AppendBatch \/ Advance

LogSpec == LogInit /\ [][LogNext]_log_vars

=============================================================================
