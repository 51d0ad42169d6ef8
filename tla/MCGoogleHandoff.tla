--------------------------- MODULE MCGoogleHandoff --------------------------
EXTENDS GoogleHandoffProps, TLC

Single == Handoffs \ Twice

\* An account that was connected before.
MCInstalled(h) ==
  [id |-> h, subject |-> CHOOSE s \in Subjects : TRUE, from |-> h, by |-> 1,
   binding |-> 1, token |-> 0]

\* Two sign-ins on a Computer without accounts; or one, with two workers, that adds
\* an account beside another or replaces it.
MCInit ==
  \/ InitWith({}, Twice)
  \/ \E h \in Single : InitWith({MCInstalled(h)}, Single \ {h})

MCSpec == MCInit /\ [][HandoffNext]_allVars

MCSymmetry == Permutations(Single)
=============================================================================
