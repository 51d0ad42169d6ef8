-------------------------- MODULE MCEmailFrameworks -------------------------
EXTENDS EmailFrameworks, TLC

CONSTANTS m1, m2, o1, o2

MCOneOwner  == [m \in Messages |-> o1]
MCMixedMail == (m1 :> o1) @@ (m2 :> Unverified)
=============================================================================
