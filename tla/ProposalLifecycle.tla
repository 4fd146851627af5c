--------------------------- MODULE ProposalLifecycle --------------------------
(***************************************************************************)
(* What the governance module promises of the life of a proposal: its      *)
(* status moves along one path, each step of it is taken at the height     *)
(* that was planned when the proposal was created, and no height passes    *)
(* while a step planned for it is outstanding. Votes, deposits and the     *)
(* queue do not appear.                                                    *)
(***************************************************************************)
EXTENDS Integers

CONSTANTS ProposalIds, Heights, StartHeight

VARIABLES height, status, plan

vars == <<height, status, plan>>

Kinds == {"start", "quorum", "ends", "execute"}

Init ==
    /\ height = StartHeight
    /\ status = [p \in ProposalIds |-> "ABSENT"]
    /\ plan = [p \in ProposalIds |-> [k \in Kinds |-> 0]]

\* The plan is made once, and its steps are ordered.
Propose(p) ==
    /\ status[p] = "ABSENT"
    /\ LET when == plan'[p] IN
          /\ when \in [Kinds -> Heights]
          /\ height <= when["start"] /\ when["start"] <= when["quorum"]
          /\ when["quorum"] <= when["ends"] /\ when["ends"] <= when["execute"]
          /\ plan' = [plan EXCEPT ![p] = when]
    /\ status' = [status EXCEPT ![p] = "CREATED"]
    /\ UNCHANGED height

Move(p, kind, from, to) ==
    /\ height = plan[p][kind]
    /\ status[p] = from
    /\ status' = [status EXCEPT ![p] = to]
    /\ UNCHANGED <<height, plan>>

Step(p) ==
    \/ Move(p, "start", "CREATED", "ACTIVE")
    \/ Move(p, "quorum", "ACTIVE", "FAILED_QUORUM")
    \/ Move(p, "ends", "ACTIVE", "ACCEPTED")
    \/ Move(p, "ends", "ACTIVE", "REJECTED")
    \/ Move(p, "execute", "ACCEPTED", "EXECUTED")
    \/ Move(p, "execute", "ACCEPTED", "EXECUTED_WITH_ERROR")

\* No step is left behind.
Advance ==
    /\ \A p \in ProposalIds :
          /\ status[p] = "CREATED" => height < plan[p]["start"]
          /\ status[p] = "ACCEPTED" => height < plan[p]["execute"]
    /\ height' = height + 1
    /\ UNCHANGED <<status, plan>>

Next == Advance \/ \E p \in ProposalIds : Propose(p) \/ Step(p)

Spec == Init /\ [][Next]_vars
===============================================================================
