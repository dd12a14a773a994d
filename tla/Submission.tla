------------------------------ MODULE Submission ------------------------------
(***************************************************************************)
(* What one SMTP submission promises the request that asked for it: the    *)
(* contract of the trait Submitter and of SubmitError, independent of the  *)
(* SMTP dialogue behind it.                                                *)
(*                                                                         *)
(* The mail server takes the message at most once, for some of the         *)
(* recipients.  The submission reports one outcome, once.  Success lists   *)
(* the refused recipients: the server has taken the message for every      *)
(* other one, and there is at least one.  A failure promises nothing about *)
(* what was taken before it, but only a temporary failure leaves the       *)
(* question open: after success or a permanent failure nothing more is     *)
(* taken.                                                                  *)
(***************************************************************************)
EXTENDS FiniteSets

CONSTANT Recipients

VARIABLES
  taken,     (* the recipients the mail server has taken the message for   *)
  outcome,   (* what the submission reported, "pending" until it has       *)
  refused    (* the refused recipients a success lists                     *)

vars == <<taken, outcome, refused>>

Failures == {"temporary", "permanent"}
Outcomes == {"pending", "ok"} \cup Failures

TypeOK ==
  /\ taken \in SUBSET Recipients
  /\ outcome \in Outcomes
  /\ refused \in SUBSET Recipients

Init ==
  /\ taken = {}
  /\ outcome = "pending"
  /\ refused = {}

Take ==
  /\ taken = {}
  /\ outcome \in {"pending", "temporary"}
  /\ taken' \in (SUBSET Recipients) \ {{}}
  /\ UNCHANGED <<outcome, refused>>

Succeed ==
  /\ outcome = "pending"
  /\ outcome' = "ok"
  /\ refused' \in (SUBSET Recipients) \ {Recipients}
  /\ Recipients \ refused' \subseteq taken
  /\ UNCHANGED taken

Fail ==
  /\ outcome = "pending"
  /\ outcome' \in Failures
  /\ UNCHANGED <<taken, refused>>

Next == Take \/ Succeed \/ Fail

Spec == Init /\ [][Next]_vars

===============================================================================
