----------------------- MODULE MCProviderAssignments ------------------------
(***************************************************************************)
(* Small instances of ProviderAssignments.                                 *)
(***************************************************************************)
EXTENDS ProviderAssignments, TLC

CONSTANTS t1, t2, mock, link, idle

\* The test tenant as the migrations leave it: two providers, one primary,
\* and a second tenant with one.
MCSeed ==
  <<[tenant |-> t1, provider |-> mock, priority |-> 1],
    [tenant |-> t1, provider |-> link, priority |-> 2],
    [tenant |-> t2, provider |-> mock, priority |-> 1]>>

\* One tenant with two providers.
MCSeedPair == SubSeq(MCSeed, 1, 2)

AdminSymmetry == Permutations(Admins)

=============================================================================
