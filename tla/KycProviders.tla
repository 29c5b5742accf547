---------------------------- MODULE KycProviders ----------------------------
(***************************************************************************)
(* What the implementations of IKycProvider do, as far as                  *)
(* VerificationsService can tell them apart: the statuses createVerification *)
(* can report, the statuses in which cancelVerification succeeds, and       *)
(* whether the sessions live outside this process (they survive a restart,  *)
(* make progress of their own, and an answer of theirs can be lost).        *)
(***************************************************************************)

\* The provider the application registers: it decides at once, keeps its
\* sessions in a Map and never cancels.
MockRegulaProvider ==
  [initial |-> {"completed", "failed"}, cancellable |-> {}, remote |-> FALSE]

\* The one meant for production, which nothing registers.
RegulaProvider ==
  [initial |-> {"completed"}, cancellable |-> {}, remote |-> FALSE]

\* A provider of the kind IKycProvider is designed for ("returns a one-time
\* link for the user to complete verification"): asynchronous and elsewhere;
\* a person it knows already may be verified at once.
ExternalLinkProvider ==
  [initial |-> {"pending", "in_progress", "completed"},
   cancellable |-> {"pending", "in_progress"}, remote |-> TRUE]

=============================================================================
