---------------------------- MODULE MCBoardRaces ----------------------------
(***************************************************************************)
(* Instances of BoardRaces for TLC: one process with a middle stage and    *)
(* one vacancy.                                                            *)
(***************************************************************************)
EXTENDS BoardRaces, TLC

CONSTANTS p1, s1, s2, s3, v1, c1, c2, r1, r2

MCStageProcess == [s \in Stages |-> p1]
MCStageOrder == [s \in Stages |-> CASE s = s1 -> 1 [] s = s2 -> 2 [] OTHER -> 9999]
MCStageRole ==
    [s \in Stages |-> CASE s = s1 -> "initial" [] s = s2 -> "middle" [] OTHER -> "final"]

NoField == [status |-> Unset, stage |-> Unset, sub |-> Unset, reason |-> Unset]
NoVacancyField == [status |-> Unset, process |-> Unset, openings |-> Unset, active |-> Unset]

PatchOf(c, b) == [op |-> "patch", vacancy |-> v1, candidate |-> c, body |-> b]
MoveTo(c, s) == PatchOf(c, [NoField EXCEPT !.stage = s])
RejectOf(c) == PatchOf(c, [NoField EXCEPT !.stage = NULL, !.reason = "manual"])
RejectAgainOf(c) == PatchOf(c, [NoField EXCEPT !.stage = NULL])
SubStatusOf(c) == PatchOf(c, [NoField EXCEPT !.sub = TRUE])
ApplyOf(c) ==
    [op |-> "apply", vacancy |-> v1, candidate |-> c, portal |-> TRUE, status |-> "active"]
PlaceOf(c) ==
    [op |-> "apply", vacancy |-> v1, candidate |-> c, portal |-> FALSE, status |-> "hired"]
WithdrawOf(c) == [op |-> "withdraw", vacancy |-> v1, candidate |-> c]
EndAs(status) == [op |-> "end", vacancy |-> v1, body |-> [NoVacancyField EXCEPT !.status = status]]
Delete == [op |-> "deleteVacancy", vacancy |-> v1]
DeleteStageOf(s) == [op |-> "deleteStage", stage |-> s]

\* Every kind of request on every candidate.
AllRequests ==
    UNION {{MoveTo(c, s2), MoveTo(c, s3), RejectOf(c), RejectAgainOf(c), SubStatusOf(c),
            ApplyOf(c), PlaceOf(c), WithdrawOf(c)} : c \in Candidates}
        \cup {EndAs("closed"), EndAs("cancelled"), Delete, DeleteStageOf(s2)}

\* Everybody stays: nobody withdraws or applies again.
StayingRequests == {MoveTo(c1, s3), RejectOf(c1), EndAs("cancelled"), Delete}

Symmetry == Permutations(Candidates) \cup Permutations(Slots)
=============================================================================
