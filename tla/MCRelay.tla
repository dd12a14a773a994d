------------------------------- MODULE MCRelay -------------------------------
(***************************************************************************)
(* Relay for TLC.  Requests are interchangeable, which the safety runs     *)
(* use.  The liveness run has one recipient, so no partial refusals, sets  *)
(* fail_on_partial_refusal off, and takes one status of those that mean    *)
(* the same to the task: a rejection is 400, an answer without a task 413. *)
(***************************************************************************)
EXTENDS Relay, TLC

Symmetry == Permutations(Requests)

LiveInit == Init /\ ~strict
LiveNext == Next /\ \A r \in Requests : status'[r] \notin {401, 403, 413} /\ answered'[r] # 404
LiveSpec == LiveInit /\ [][LiveNext]_vars /\ Fairness

===============================================================================
