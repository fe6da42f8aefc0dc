---------------------------- MODULE MCPaidLimits ----------------------------
\* An instance of PaidLimits for TLC.
EXTENDS PaidLimits, TLC

CONSTANTS plus, pro

\* Both channels raise the limit of the first subject, one of them that of the
\* second: removing the user for the sake of the first takes the second away.
TwoSubjects == <<"subscriptions", "interests">>
SharedTiers == [subscriptions |-> (plus :> 5) @@ (pro :> 10),
                interests |-> plus :> 4]
=============================================================================
