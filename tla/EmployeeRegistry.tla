-------------------------- MODULE EmployeeRegistry --------------------------
(***************************************************************************)
(* What employee creation promises: a registry that only grows, by one     *)
(* whole dossier at a time.  A dossier is an employee with its profile,    *)
(* its assignment and its event; its code is new, and its manager, if it   *)
(* has one, was in the registry before it.                                 *)
(***************************************************************************)
CONSTANTS
    Founders,   \* the employees that were there before
    None        \* no manager

VARIABLES
    employees,  \* the registered [id, code]
    profiles,   \* ids that have a profile
    reports,    \* the [id, manager] of the assignments
    events      \* ids whose creation was announced

registry == <<employees, profiles, reports, events>>

Ids == {e.id : e \in employees}
Codes == {e.code : e \in employees}

Init ==
    /\ employees = Founders
    /\ profiles = Ids
    /\ reports = {}
    /\ events = {}

Register(id, code, manager) ==
    /\ id \notin Ids
    /\ code \notin Codes
    /\ manager \in Ids \cup {None}
    /\ employees' = employees \cup {[id |-> id, code |-> code]}
    /\ profiles' = profiles \cup {id}
    /\ reports' = reports \cup {[id |-> id, manager |-> manager]}
    /\ events' = events \cup {id}

Next ==
    \E e \in employees' \ employees, r \in reports' \ reports :
        Register(e.id, e.code, r.manager)

Spec == Init /\ [][Next]_registry
=============================================================================
