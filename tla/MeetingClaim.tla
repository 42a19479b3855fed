---------------------------- MODULE MeetingClaim -----------------------------
(***************************************************************************)
(* What the five recording claims of the jobs table promise together,      *)
(* whatever the phases and payloads are: a meeting has at most one holder, *)
(* a holder is never pre-empted by another one, and a registered meeting   *)
(* disappears only in the hands of its holder.                             *)
(***************************************************************************)
CONSTANTS Meetings, Tokens, Free, Absent

VARIABLE holder

LeaseInit == holder = [m \in Meetings |-> Absent]

Register(m) == holder[m] = Absent /\ holder' = [holder EXCEPT ![m] = Free]

Acquire(m, token) == holder[m] = Free /\ holder' = [holder EXCEPT ![m] = token]

Release(m) == holder[m] \in Tokens /\ holder' = [holder EXCEPT ![m] = Free]

Destroy(m) == holder[m] \in Tokens /\ holder' = [holder EXCEPT ![m] = Absent]

LeaseNext ==
    \E m \in Meetings :
        \/ Register(m)
        \/ \E token \in Tokens : Acquire(m, token)
        \/ Release(m)
        \/ Destroy(m)

LeaseSpec == LeaseInit /\ [][LeaseNext]_holder
==============================================================================
