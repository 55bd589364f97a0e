---------------------------- MODULE MCRecruitment ----------------------------
(***************************************************************************)
(* Instances of Recruitment for TLC: one vacancy, and one process with a   *)
(* middle stage.                                                           *)
(***************************************************************************)
EXTENDS Recruitment, TLC

CONSTANTS p1, s1, s2, s3, v1, c1, c2

MCStageProcess == [s \in Stages |-> p1]
MCStageOrder == [s \in Stages |-> CASE s = s1 -> 1 [] s = s2 -> 2 [] OTHER -> 9999]
MCStageRole ==
    [s \in Stages |-> CASE s = s1 -> "initial" [] s = s2 -> "middle" [] OTHER -> "final"]

NoField == [status |-> Unset, stage |-> Unset, sub |-> Unset, reason |-> Unset]

\* The Kanban board: it moves cards, writes a reason when it rejects, sets a
\* sub-status, and a client writes the outcome by hand.
BoardPatches ==
    {[NoField EXCEPT !.stage = s] : s \in Stages}
        \cup {[NoField EXCEPT !.stage = NULL, !.reason = r] : r \in {"manual", Unset}}
        \cup {[NoField EXCEPT !.sub = TRUE], [NoField EXCEPT !.status = "hired"]}

NoVacancyField == [status |-> Unset, process |-> Unset, openings |-> Unset, active |-> Unset]

\* The vacancy form: the status, or the process.
FormPatches ==
    {[NoVacancyField EXCEPT !.status = s] : s \in VacancyStatus}
        \cup {[NoVacancyField EXCEPT !.process = p] : p \in Processes \cup {NULL}}

\* Search bound of the two-candidate run: every request is explored one step
\* deep, but not beyond a switched-off process, a paused or cancelled vacancy
\* (closed ones are reopened), or a vacancy drafted as a request or left without
\* a process, and beyond a switched-off profile only while the other candidate
\* has not applied.
TwoCandidateFocus ==
    /\ \A p \in Processes : processes[p]
    /\ \A c \in Candidates : ~profiles[c] => \A v \in Vacancies, d \in Candidates \ {c} :
          profiles[d] /\ applications[v][d].row = "absent"
    /\ \A v \in Vacancies : vacancies[v].row # "absent" =>
          vacancies[v].status \notin {"paused", "solicitud", "cancelled"} /\ vacancies[v].process # NULL

CandidateSymmetry == Permutations(Candidates)
=============================================================================
