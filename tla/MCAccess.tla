------------------------------ MODULE MCAccess ------------------------------
(***************************************************************************)
(* An administrator and one more account; the administrator's role, the    *)
(* candidates', a role the bootstrap keeps and nothing protects, as        *)
(* "Marketing", and a name for a fourth; two permissions, one parameter    *)
(* type, one vacancy to tell of.                                           *)
(***************************************************************************)
EXTENDS Notifications, TLC

CONSTANTS admin, other, manage, publish, city, Administrador, candidate, Marketing, Custom

Allowed == Marketing :> {publish, city} @@ candidate :> {publish}

\* Search bound: with a vacancy to tell of, one request fewer.
NoticeFocus == vacancy # "absent" => edits < MaxEdits
=============================================================================
