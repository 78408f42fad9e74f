--------------------------- MODULE AdmissionControl ---------------------------
(***************************************************************************)
(* What the per-source limits promise: members are admitted one at a time, *)
(* never above the quota of their owner, and leave one at a time.  The     *)
(* promise is not made for an owner that has been lost count of; it is     *)
(* made again when that owner has no member left.  The counted connections *)
(* and the counted half-open flows of the data plane (ConntrackLimits) are *)
(* both such a set.                                                        *)
(***************************************************************************)
EXTENDS Naturals, FiniteSets

CONSTANTS
    Member,      \* what may be admitted
    Owner,       \* the owner each member is charged to
    Quota        \* how many members each owner may hold

VARIABLES
    admitted,    \* the members that are in
    unsure       \* the owners that have been lost count of

Held(o) == {m \in admitted : Owner[m] = o}

Init == admitted = {} /\ unsure = {}

Admit(m) ==
    /\ m \in Member \ admitted
    /\ Cardinality(Held(Owner[m])) < Quota[Owner[m]] \/ Owner[m] \in unsure'
    /\ admitted' = admitted \cup {m}

Release(m) ==
    /\ m \in admitted
    /\ admitted' = admitted \ {m}

Regained == \A o \in unsure \ unsure' : Held(o)' = {}

\* Who has been admitted is in afterwards, who is released was in before.
Next ==
    /\ \/ UNCHANGED admitted
       \/ \E m \in admitted' : Admit(m)
       \/ \E m \in admitted : Release(m)
    /\ Regained

Spec == Init /\ [][Next]_<<admitted, unsure>>
=============================================================================
