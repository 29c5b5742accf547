------------------------- MODULE VerificationStatus -------------------------
(***************************************************************************)
(* The values a verification's status takes, as the enum VerificationStatus *)
(* and the varchar column verifications.status hold them, and the two       *)
(* groups the service's conditions distinguish.                             *)
(***************************************************************************)

Status == {"pending", "in_progress", "completed", "failed", "expired",
           "cancelled"}

\* The statuses for which the handlers still talk to a provider: the test
\* written out in getVerification, cancelVerification and
\* checkAndUpdateExpiration.
OpenStatus == {"pending", "in_progress"}

\* The statuses from which the documented state machine has no way out.
FinalStatus == Status \ OpenStatus

=============================================================================
