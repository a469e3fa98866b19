----------------------------- MODULE MCRecordApi -----------------------------
(* The three parts of the record API keep no state in common: each behaviour *)
(* of this model exercises one of them while the others rest.                *)
EXTENDS RateLimiter, DeveloperKeys, LicenseSearch, TLC

CONSTANTS a1, a2, a3, k1, k2, r1, r2, r3, l1, l2, l3

MCClient == {a1, a2, a3}
MCApiKey == {k1, k2}
MCRequest == {r1, r2, r3}
MCLicense == {l1, l2, l3}

MCSymmetry == Permutations(MCRequest)

VARIABLE part

Init ==
    /\ part \in {"limiter", "keys", "search"}
    /\ LimiterInit /\ KeysInit /\ SearchInit

Next ==
    /\ UNCHANGED part
    /\ \/ part = "limiter" /\ LimiterNext /\ UNCHANGED <<keyVars, searchVars>>
       \/ part = "keys" /\ KeysNext /\ UNCHANGED <<limiterVars, searchVars>>
       \/ part = "search" /\ SearchNext /\ UNCHANGED <<limiterVars, keyVars>>

\* The state of each part has its types, and the limiter's map its bound.
TypeOK == LimiterTypeOK /\ KeysTypeOK /\ SearchTypeOK

Spec == Init /\ [][Next]_<<part, limiterVars, keyVars, searchVars>>

=============================================================================
