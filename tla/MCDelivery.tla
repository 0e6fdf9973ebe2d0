----------------------------- MODULE MCDelivery -----------------------------
(***************************************************************************)
(* One phone, its gateway, and another sender.                             *)
(***************************************************************************)
EXTENDS Delivery

MCOthers == {<<"other", "a">>}
MCSignatures == (Identities \X Sigs) \cup MCOthers

\* The identities are alike.
IdentitySymmetry == Permutations(Identities)
=============================================================================
