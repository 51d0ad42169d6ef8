-------------------------- MODULE MCGoogleWorkspace -------------------------
EXTENDS GoogleWorkspaceProps, TLC

MCSymmetry == Permutations(Copies)

\* Bound: a revocation gets a second worker beside a living one only where no
\* other sign-in was begun.
MCApart ==
  beside = {} \/ \A h \in Handoffs \ {First} : handoff[h].status = "unused"
=============================================================================
