---------------------------- MODULE MCAccounts -----------------------------
(***************************************************************************)
(* Two accounts: ann's is used, bob's keeps an address taken.  Clients may *)
(* write a profile column, an address, and a new password.                 *)
(***************************************************************************)
EXTENDS Accounts, TLC

CONSTANTS r1, r2, ann, bob

MCClientPatches ==
    {[set |-> "other"]} \cup [set: {"email"}, to: Emails] \cup [set: {"password"}, to: {"new"}]

MCSymmetry == Permutations({r1, r2})

\* The accounts as they are made: ann's address is "a", bob's is "b".
MCInit ==
    /\ Init
    /\ \A u \in Users : /\ rows[u].password = "old"
                        /\ rows[u].email = IF u = ann THEN "a" ELSE "b"

MCSpec == MCInit /\ [][Next]_vars
=============================================================================
