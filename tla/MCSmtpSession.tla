---------------------------- MODULE MCSmtpSession ----------------------------
(***************************************************************************)
(* SmtpSession for TLC.  The codes are one of every kind the client tells  *)
(* apart: each wanted reply (220 stands for any positive code), a 2xx code *)
(* that no step wants, 421, another 4xx and a 5xx.                         *)
(***************************************************************************)
EXTENDS SmtpSession

Codes == {220, 235, 250, 251, 252, 334, 354, 421, 451, 550}

(* For the liveness run: the happy path, 421, 4xx and 5xx.                 *)
FewCodes == {235, 250, 334, 354, 421, 451, 550}

===============================================================================
