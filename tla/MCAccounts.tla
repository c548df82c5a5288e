------------------------------ MODULE MCAccounts ------------------------------
(* Accounts with two requests at a time. *)
EXTENDS Accounts, TLC

CONSTANTS t1, t2, u1, u2, u3, m1, m2

MCThreads == {t1, t2}
MCUsers == {u1, u2, u3}
MCMails == {m1, m2}
MCOps == ByName \cup ByToken \cup {"approve", "ban", "adminPassword", "delete"}
Symmetry == Permutations(MCThreads) \cup Permutations(MCMails)
===============================================================================
