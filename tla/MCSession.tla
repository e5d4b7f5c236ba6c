----------------------------- MODULE MCSession ------------------------------
(* Instances of Session for TLC: the session policies a pool may have, and    *)
(* the interchangeable ids, keys and requests.                                *)
EXTENDS Session, TLC

CONSTANTS s1, s2, s3, s4, k1, k2, r1, r2, r3, e1, e2

NoLimits   == [ttl |-> 0, idle |-> 0, requests |-> 0, bytes |-> 0]
OneRequest == [NoLimits EXCEPT !.requests = 1]
OneByte    == [NoLimits EXCEPT !.bytes = 1]
Short      == [NoLimits EXCEPT !.ttl = 1]
Restless   == [NoLimits EXCEPT !.idle = 1]

ExpiryPolicies == {Short, Restless, OneByte}
ChangePolicies == {NoLimits, OneRequest}
UsagePolicies  == {OneRequest}
FreePolicies   == {NoLimits}

Symmetric == Permutations(Ids) \cup Permutations(Keys) \cup Permutations(Requests)
               \cup Permutations(Endpoints)
=============================================================================
