---------------------------- MODULE MCUnitRoute ----------------------------
EXTENDS UnitRoute
\* A text, a question about it and a FAQ.
AskedKinds == <<"html", "problem", "la_faq">>
\* Nothing, one critical finding or one major finding about a component.
FewCounts == {[critical |-> 0, major |-> 0], [critical |-> 1, major |-> 0], [critical |-> 0, major |-> 1]}
=============================================================================
