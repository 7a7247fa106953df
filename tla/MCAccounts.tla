------------------------------ MODULE MCAccounts ------------------------------
(* Accounts for TLC: an e-mail with and without blanks around it makes two       *)
(* accounts; two names, each also with blanks; a password with and without       *)
(* blanks, and another.  What follows a clash, a torn change or stray data is    *)
(* not explored: there the data properties hold for want of their premise, and   *)
(* stray data change nothing but directories.                                    *)
EXTENDS Accounts, TLC

CONSTANTS Mail, NameWords, Secret, OtherSecret

AllWords == {Mail, Secret, OtherSecret} \cup NameWords
TypedEmails == [word : {Mail}, padded : BOOLEAN]
TypedNames == [word : NameWords, padded : BOOLEAN]
TypedPasswords == [word : {Secret}, padded : BOOLEAN] \cup [word : {OtherSecret}, padded : {FALSE}]

Symmetry == Permutations(NameWords)

Explored == Tidy
=============================================================================
