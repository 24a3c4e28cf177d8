---------------------------- MODULE MCDirectory ----------------------------
(* The instance of Directory for TLC.                                        *)
EXTENDS Directory, TLC

\* Replicas of one deployment are interchangeable.
MCReplicas == Permutations(Workers)

MCCompanies == {"co1", "co2"}

\* The department is created in co1, moved to co2 and back.
MCCompanyAt == <<"co1", "co2", "co1">>

\* Its rows before the move and after the move back admit this request.
MCRequests ==
    {[code |-> "x", manager |-> None, employmentStatus |-> "PENDING",
      datesOrdered |-> TRUE,
      refs |-> [company |-> "co1", department |-> "dep"]]}

MCPatches ==
    {[company |-> "co2"], [company |-> None], [department |-> "dep"],
     [company |-> "co2", department |-> None], [grade |-> "grade"]}
=============================================================================
