-------------------------- MODULE MCEmployeeCreate --------------------------
(* Instances of EmployeeCreate for TLC.                                      *)
EXTENDS EmployeeCreate

MCEntities == {"co1", "co2", "dep1", "dep2", "loc1", "grade1", "title1"}

\* dep1 may be moved; the other units stay where they are.
MCHomes ==
    [e \in MCEntities |->
        CASE e = "dep1" -> {"co1", "co2"}
          [] e = "dep2" -> {"co2"}
          [] e = "loc1" -> {"co1"}
          [] OTHER -> {None}]

\* The first event of grade1 is still to come.
MCProjected ==
    [e \in MCEntities |->
        [status |-> IF e = "grade1" THEN "ABSENT" ELSE "ACTIVE",
         company |-> CASE e \in {"dep1", "loc1"} -> "co1"
                       [] e = "dep2" -> "co2"
                       [] OTHER -> None]]

MCStaff ==
    {[id |-> -1, code |-> "boss", status |-> "ACTIVE",
      employmentStatus |-> "ACTIVE"],
     [id |-> -2, code |-> "gone", status |-> "ACTIVE",
      employmentStatus |-> "ENDED"],
     [id |-> -3, code |-> "left", status |-> "TERMINATED",
      employmentStatus |-> "ACTIVE"]}

Body(code, refs, manager, employmentStatus, datesOrdered) ==
    [code |-> code, refs |-> refs, manager |-> manager,
     employmentStatus |-> employmentStatus, datesOrdered |-> datesOrdered]

Unit(company, department) == [company |-> company, department |-> department]
Full == [company |-> "co1", department |-> "dep1", location |-> "loc1",
         grade |-> "grade1", jobTitle |-> "title1"]

MCRequests ==
    {Body("x", Full, -1, "PENDING", TRUE),
     Body("x", Unit("co1", "dep1"), None, "SUSPENDED", TRUE),
     Body("y", Unit("co1", "dep2"), 1, "PENDING", TRUE),
     Body("y", Unit("co2", "dep2"), 1, "PENDING", FALSE),
     Body("z", [company |-> "co2"], -2, "ACTIVE", TRUE),
     Body("z", [company |-> "co2"], 1, "ACTIVE", TRUE)}
=============================================================================
