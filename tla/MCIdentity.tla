----------------------------- MODULE MCIdentity -----------------------------
(***************************************************************************)
(* Two tracks of persons in one event, which look different, and one of a  *)
(* pet that looks like the first in another modality; two names, so a name *)
(* may be given to a person and to the pet.                                *)
(***************************************************************************)
EXTENDS Identity

CONSTANTS ann, bob, t1, t2, t3, e1, e2, dark, light, memory

MCTracks == {t1, t2, t3}
MCEventOf == (t1 :> e1) @@ (t2 :> e1) @@ (t3 :> e2)
MCKindOf == (t1 :> "person") @@ (t2 :> "person") @@ (t3 :> "pet")
MCFramesOf == (t1 :> 2) @@ (t2 :> 1) @@ (t3 :> 1)
MCLookOf == (t1 :> dark) @@ (t2 :> light) @@ (t3 :> dark)
MCModalitiesOf == (t1 :> {"body"}) @@ (t2 :> {"body"}) @@ (t3 :> {"pet"})
MCPercent == [body |-> 60, pet |-> 50]
MCModalities == DOMAIN MCPercent

Names == Permutations({ann, bob})

=============================================================================
