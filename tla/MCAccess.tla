------------------------------- MODULE MCAccess -------------------------------
(***************************************************************************)
(* Instances of Access for TLC.                                            *)
(***************************************************************************)
EXTENDS Access, TLC

\* Requests, addresses and good passwords are interchangeable.
NameSymmetry ==
    Permutations(Registrations) \cup Permutations(Logins) \cup Permutations(Emails)
        \cup Permutations(Hashable)

=============================================================================
