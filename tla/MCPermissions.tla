---------------------------- MODULE MCPermissions ----------------------------
(***************************************************************************)
(* Instances of Permissions for TLC.                                       *)
(***************************************************************************)
EXTENDS Permissions

CONSTANTS na, nb, m1, m2, m3

MCNameOrder == <<na, nb>>
\* Two objects of one name: a permission can be removed and added again.
MCPermName == (m1 :> na) @@ (m2 :> nb) @@ (m3 :> na)
MCLinks == {None, [None EXCEPT ![nb] = "false"]}

\* One object is destroyed by removePermission, or all by clearPlugins; attachments are
\* given to players.
Small == Cardinality(freed) <= 1 /\ attachments[Console] = <<>>
=============================================================================
