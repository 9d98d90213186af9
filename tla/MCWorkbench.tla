---------------------------- MODULE MCWorkbench ----------------------------
(***************************************************************************)
(* A small instance of Workbench: two organizations, a member, and an      *)
(* administrator of both; two requests and a worker at once.               *)
(***************************************************************************)
EXTENDS Workbench, TLC

CONSTANTS q1, q2, w1, i1, i2, alice, bob, orgA, orgB, scope

\* The member also holds a role that the catalog no longer has.
MCRolesOf == alice :> {"member", "keyholder"} @@ bob :> {"administrator"}
MCMembers == {<<alice, orgA>>, <<bob, orgA>>, <<bob, orgB>>}
MCOrgOf == scope :> orgA

\* Two back to back, each of which overlaps itself, and one that is too long.
MCWindows == {<<0, 1>>, <<1, 2>>, <<0, 2>>}
=============================================================================
