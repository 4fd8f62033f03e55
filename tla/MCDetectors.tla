----------------------------- MODULE MCDetectors -----------------------------
(* The two detectors side by side: a behaviour runs one of them.            *)
EXTENDS InjectionMatcher, LuhnCheck

MCBytes == <<"a", "b">>
MCLower(b) == IF b = "A" THEN "a" ELSE b

StringsOf(set, n) == UNION {[1 .. k -> set] : k \in 0 .. n}

MCPatterns == (StringsOf({"a", "b"}, 3) \ {<< >>}) \cup {<<" ">>, <<" ", "A", "b">>}
MCPatternLists == {<<p, q>> : p \in MCPatterns, q \in MCPatterns}
                      \cup {<<p, q, r>> : p, q, r \in StringsOf({"a", "b"}, 2) \ {<< >>}}
MCTexts == StringsOf({"a", "b", "A"}, 4)

\* 11 stands for a separator and 12 for any other character.
MCCandidates == StringsOf({0, 4, 5, 9, 11, 12}, 5)
MCSeparators == {11}
MCCharacters == 0 .. 12

DetectorsInit ==
    \/ MatcherInit /\ LuhnStart(<< >>)
    \/ MatcherStart(<< >>) /\ LuhnInit

MatcherRuns == patterns # << >> /\ MatcherNext /\ UNCHANGED luhnVars

LuhnRuns == patterns = << >> /\ LuhnNext /\ UNCHANGED matcherVars

DetectorsNext == MatcherRuns \/ LuhnRuns

DetectorsSpec == DetectorsInit /\ [][DetectorsNext]_<<matcherVars, luhnVars>>
==============================================================================
