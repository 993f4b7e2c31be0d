------------------------------ MODULE MCRunDir ------------------------------
(* RunDir with two records.                                                *)
EXTENDS RunDir

CONSTANTS r1, r2

MCRecords == <<r1, r2>>

MCPlans == {[stages |-> CanonicalStages, force |-> {}],
            [stages |-> <<"m2-post", "m5">>, force |-> {"m5"}]}
=============================================================================
