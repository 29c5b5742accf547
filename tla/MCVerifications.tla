-------------------------- MODULE MCVerifications ---------------------------
(***************************************************************************)
(* Small instances of Verifications.                                       *)
(***************************************************************************)
EXTENDS Verifications, KycProviders, TLC

CONSTANTS t1, t2, mock, link, idle

\* A tenant on an asynchronous provider.
MCSeedLink == <<[tenant |-> t1, provider |-> link, priority |-> 1]>>

\* A second provider for t1; t2 has none until an administrator assigns one.
MCSeedSpare ==
  <<[tenant |-> t1, provider |-> link, priority |-> 1],
    [tenant |-> t1, provider |-> mock, priority |-> 2]>>

MCBehaviour ==
  [p \in Registered |->
     IF p = mock THEN MockRegulaProvider ELSE ExternalLinkProvider]

\* Every verification is in progress at once: the smaller instance of the liveness run.
MCStarted ==
  [p \in Registered |-> [ExternalLinkProvider EXCEPT !.initial = {"in_progress"}]]

RequestSymmetry == Permutations(Requests)

=============================================================================
