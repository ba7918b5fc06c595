-------------------------- MODULE MCGovernedWrite --------------------------
(***************************************************************************)
(* Two keys of which one undoes what the other one does.                   *)
(***************************************************************************)
EXTENDS GovernedWrite, TLC

CONSTANTS k1, k2, p1, p2

TwoKeys == {k1, k2}
OneKey == {k1}
TwoProfiles == {"old", "new"}
ThreeProfiles == {"old", "new", "other"}
WantsNew == (k1 :> "new")
WantsBoth == (k1 :> "new" @@ k2 :> "old")
Symmetric == Permutations({p1, p2})

=============================================================================
