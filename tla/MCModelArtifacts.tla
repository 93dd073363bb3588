--------------------------- MODULE MCModelArtifacts ---------------------------
(* TLC instance of ModelArtifacts: the approved report, one that swaps the *)
(* training and the test day, and one without a test day.                  *)
EXTENDS ModelArtifacts

MCDays == {"d14", "d22", "d28"}
MCExpected ==
    [train |-> {"d14"}, validation |-> {"d22"}, test |-> {"d28"}]
MCValidations ==
    {[score |-> 1, f1 |-> 1], [score |-> 1, f1 |-> 2], [score |-> 2, f1 |-> 1]}
MCReports ==
    {[d14 |-> "train", d22 |-> "validation", d28 |-> "test"],
     [d14 |-> "test", d22 |-> "validation", d28 |-> "train"],
     [d14 |-> "train", d22 |-> "validation", d28 |-> "train"]}
==============================================================================
