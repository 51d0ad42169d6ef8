--------------------------- MODULE MCEmailChannel ---------------------------
EXTENDS EmailChannelProps, TLC

CONSTANTS m1, m2, o1, o2

\* Both arrivals are the first owner's.
MCOneOwner == [m \in Messages |-> o1]

\* One arrival of each owner.
MCTwoOwners == (m1 :> o1) @@ (m2 :> o2)

\* One arrival of the owner, one that must never start a turn.
MCMixedMail == (m1 :> o1) @@ (m2 :> Unverified)
=============================================================================
