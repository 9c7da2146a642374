------------------------------ MODULE GatePeople ------------------------------
(***************************************************************************)
(* The people the accounts, the apps and their access lists all name.      *)
(***************************************************************************)
CONSTANTS
    Emails,      \* addresses of users, in the users table or not yet
    NoEmail,
    Groups       \* groups the identity provider asserts

ASSUME PeopleAssumption == Emails \cap Groups = {} /\ NoEmail \notin Emails \cup Groups
===============================================================================
