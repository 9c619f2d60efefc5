----------------------------- MODULE MCAccounts -----------------------------
(* Two spellings of one address and another address, two requests at a time. *)
EXTENDS Accounts, TLC

MCEmails == {"A", "a", "b"}
MCLower == [e \in MCEmails |-> IF e = "A" THEN "a" ELSE e]
Symmetry == Permutations(Requests) \cup Permutations(Handles) \cup Permutations(Passwords)
            \cup Permutations(Keys)
=============================================================================
