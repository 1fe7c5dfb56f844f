----------------------------- MODULE MCContacts -----------------------------
(* Values for model checking Contacts. *)
EXTENDS Contacts, TLC
MCSymmetry == Permutations(Calls)
=============================================================================
