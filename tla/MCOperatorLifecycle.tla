------------------------ MODULE MCOperatorLifecycle ------------------------
(***************************************************************************)
(* Finite values for OperatorLifecycle: which grant signs which plan, by   *)
(* whom, until when, and how many grants a plan needs.                     *)
(***************************************************************************)
EXTENDS OperatorLifecycle, TLC

CONSTANTS p1, p2, a1, a2, a3, bob, carol

\* One explicit_plan grant.
SingleApprovedPlan == (a1 :> p1)
SingleSignedBy == (a1 :> bob)
SingleGrantUntil == (a1 :> 1)
SingleCount == (p1 :> 1)

\* p1 needs dual control: one grant of each of two authorities.
PairApprovedPlan == (a1 :> p1 @@ a2 :> p1)
PairSignedBy == (a1 :> bob @@ a2 :> carol)
PairGrantUntil == (a1 :> 1 @@ a2 :> 2)

\* The same plan with a spare grant: a3 is a second grant by the authority of a1.
DualApprovedPlan == (a1 :> p1 @@ a2 :> p1 @@ a3 :> p1)
DualSignedBy == (a1 :> bob @@ a2 :> carol @@ a3 :> bob)
DualGrantUntil == (a1 :> 1 @@ a2 :> 2 @@ a3 :> 2)
DualCount == (p1 :> 2)

Symmetry == Permutations(Runners)
=============================================================================
