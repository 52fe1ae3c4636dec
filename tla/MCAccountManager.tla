-------------------------- MODULE MCAccountManager --------------------------
(***************************************************************************)
(* Small instances of AccountManager, with one or two users already in the   *)
(* table.                                                                    *)
(***************************************************************************)
EXTENDS AccountManager, TLC

CONSTANTS r1, r2, r3, ann, ben, pin, key

Row(login) == [login |-> login, password |-> pin, by |-> NoRequest]
OnlyAnn == <<Row(ann)>>
AnnAndBen == <<Row(ann), Row(ben)>>
Symmetry == Permutations(Requests)
=============================================================================
