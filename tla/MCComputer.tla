----------------------------- MODULE MCComputer -----------------------------
EXTENDS Computer

\* Two savers, each with a credential of its own.
MCNameOf == <<"k", "m">>

\* Two commits; the second drops a skill.
MCSkillsAt == <<{"a", "b"}, {"a"}>>

\* The one Visual ends at the first tick.
MCEndOf == [s \in Visuals |-> 1]

\* Each ceremony asks for one credential, a bundle for two.
MCNamesOf == [h \in Handoffs \ SlackHandoffs |->
                IF h \in Bundles \union Transfers THEN {"x", "y"} ELSE {"x"}]

\* Ceremonies whose steps meet: on a Hat's worker lock, in its store, in the
\* env file, in Slack's bundle.
MCAgendas ==
  {<<"b", "t">>, <<"t", "r">>, <<"g", "r">>, <<"s", Removal>>, <<"c", Removal>>, <<"c", "d">>}
=============================================================================
