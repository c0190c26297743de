---------------------------- MODULE Memberships ----------------------------
(***************************************************************************)
(* What onboarding promises about organizations and who belongs to them,   *)
(* without handlers, rows or compensation: nobody leaves, an organization   *)
(* with members is never removed, and a user is told "this is your         *)
(* organization" only as one of its members.                               *)
(***************************************************************************)
CONSTANTS
    Users,           \* people who sign in
    Organizations    \* identities of organizations

VARIABLES
    open,       \* organizations that exist
    members,    \* <<user, organization>>
    promised    \* memberships that were answered to their user

vars == <<open, members, promised>>

Init == open = {} /\ members = {} /\ promised = {}

Found(o) ==
    /\ open' = open \cup {o}
    /\ UNCHANGED <<members, promised>>

Close(o) ==
    /\ o \in open
    /\ \A u \in Users : <<u, o>> \notin members
    /\ open' = open \ {o}
    /\ UNCHANGED <<members, promised>>

Join(u, o) ==
    /\ o \in open
    /\ members' = members \cup {<<u, o>>}
    /\ UNCHANGED <<open, promised>>

Promise(u, o) ==
    /\ <<u, o>> \in members
    /\ promised' = promised \cup {<<u, o>>}
    /\ UNCHANGED <<open, members>>

Next ==
    \/ \E o \in Organizations : Found(o) \/ Close(o)
    \/ \E u \in Users, o \in Organizations : Join(u, o) \/ Promise(u, o)

Spec == Init /\ [][Next]_vars
=============================================================================
