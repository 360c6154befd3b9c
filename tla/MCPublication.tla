---------------------------- MODULE MCPublication ----------------------------
(***************************************************************************)
(* Instances of Publication for TLC.                                       *)
(***************************************************************************)
EXTENDS Publication, TLC

CONSTANTS w1, w2, d1, d2

TwoFindings == <<"f1", "f2">>

Ask(output, enforcing, accepted, publish, advisory) ==
    [output |-> output, enforcing |-> enforcing, accepted |-> accepted, pr |-> publish,
     advisory |-> advisory]

\* Every kind of output; a rejected patch under both kinds of Gate.
AllJobs ==
    {Ask("patch", TRUE, TRUE, TRUE, {}),
     Ask("patch", FALSE, FALSE, FALSE, {}), Ask("patch", FALSE, TRUE, FALSE, {}),
     Ask("both", TRUE, TRUE, TRUE, {}), Ask("both", TRUE, TRUE, TRUE, {"f2"}),
     Ask("both", TRUE, FALSE, TRUE, {}), Ask("findings", TRUE, FALSE, TRUE, {"f1"}),
     Ask("findings", FALSE, FALSE, TRUE, {}), Ask("findings", TRUE, TRUE, TRUE, {"f1", "f2"})}

WorkerSymmetry == Permutations(Workers) \cup Permutations(Digests)
=============================================================================
