----------------------------- MODULE MCServing -----------------------------
(* Serving with five settings, two requests among a few bodies, two         *)
(* environments and two encryption keys.                                   *)
EXTENDS Serving

CONSTANTS flux, bucket, domain, base, bonus, r1, r2, g1, k1, k2, a, b, bad, def, zero

MCKeys == {flux, bucket, domain, base, bonus}
MCSecrets == {flux}
MCEnvKeys == <<base, flux, bucket, domain>>
MCR2Keys == {bucket, domain}
MCValues == {a, b, bad, def, zero}
MCLegal == [k \in MCKeys |-> IF k \in {flux, bucket} THEN {a, b}
                             ELSE IF k = bonus THEN {zero, a} ELSE {a}]
MCEncKeys == {k1, k2}
MCRequests == {r1, r2}
MCGens == {g1}
None == [k \in MCKeys |-> Empty]
\* One environment is complete but names a bad address, one only adds a secret.
MCEnvs == {[None EXCEPT ![flux] = a, ![bucket] = a, ![domain] = bad],
           [None EXCEPT ![base] = a, ![flux] = b]}
MCBodies == {[k \in {flux} |-> Empty],
             [k \in {bucket, domain} |-> a],
             [k \in {flux, bucket} |-> b],
             [k \in {domain} |-> bad]}
=============================================================================
