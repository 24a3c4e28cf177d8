--------------------------- MODULE VersionedReplica ---------------------------
(***************************************************************************)
(* What a read projection promises its readers (specs/003, US3 and FR-008),*)
(* with no Kafka, no handlers and no SQL: a source publishes successive    *)
(* states of one entity, some of them as a whole and some as a change of   *)
(* status only, in any order of arrival; the replica moves forward to      *)
(* them.  Writers that race may tear it, and then each column still is a   *)
(* published one.                                                          *)
(***************************************************************************)
EXTENDS Integers, Sequences

VARIABLES
    states,    \* what the source has published; states[v] is version v
    replica,   \* what the replica shows, at version 0 before the first
    torn       \* whether a race has torn it

vars == <<states, replica, torn>>

Init ==
    /\ states = <<>>
    /\ replica.version = 0
    /\ torn = FALSE

\* The source publishes one more version.
Publish ==
    /\ Len(states') = Len(states) + 1
    /\ \A v \in 1 .. Len(states) : states'[v] = states[v]
    /\ UNCHANGED <<replica, torn>>

\* The replica adopts a newer state that was published as a whole, which may
\* end its being torn.
Adopt ==
    /\ \E v \in 1 .. Len(states) :
        /\ states[v].whole
        /\ v > replica.version
        /\ replica' = [attrs |-> states[v].attrs, status |-> states[v].status,
                       version |-> v]
    /\ torn' => torn
    /\ UNCHANGED states

\* It adopts a newer status and keeps its attributes.
AdoptStatus ==
    /\ replica.version > 0
    /\ \E v \in 1 .. Len(states) :
        /\ ~states[v].whole
        /\ v > replica.version
        /\ replica' = [replica EXCEPT !.status = states[v].status, !.version = v]
    /\ UNCHANGED <<states, torn>>

\* Racing writers leave published columns, and no promise about the version.
Tear ==
    /\ torn'
    /\ replica'.version > 0
    /\ \E v \in 1 .. Len(states) : replica'.attrs = states[v].attrs
    /\ \E v \in 1 .. Len(states) : replica'.status = states[v].status
    /\ UNCHANGED states

Next == Publish \/ Adopt \/ AdoptStatus \/ Tear

Spec == Init /\ [][Next]_vars
=============================================================================
