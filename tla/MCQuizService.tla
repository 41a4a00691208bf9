--------------------------- MODULE MCQuizService ---------------------------
(* Instances of QuizService for TLC. *)
EXTENDS QuizService, TLC

\* Ids, requests and contents differ in name only.
ServiceSymmetry ==
    Permutations(Quiz) \cup Permutations(Request) \cup Permutations(Content)

Texts == {"", "q", "a", "A", "b", "c", "d", "e", "long"}
SmallLetters == [t \in Texts |-> IF t = "A" THEN "a" ELSE t]

\* Options that differ, that do not, and that cannot stand; the right one
\* given by index, by text or both, wrongly and not at all.  The reply of
\* ai_job_lifecycle_integration, two options with index 1, is one of them.
Options == {<<"a", "b", "c", "d">>, <<"a", "A", "c", "d">>, <<"a", "b", "c", "long">>,
            <<"a", "b", "c">>, <<"a", "b">>}
Questions == [text : {"q"}, options : Options, index : {0, 1, 4, None}, correct : {"a", "b", "e", None}]
Replies == {<<>>} \cup {<<g>> : g \in Questions}

Good(index) == [text |-> "q", options |-> <<"a", "b", "c", "d">>, index |-> index]
Banks == {<<>>, <<Good(0), Good(1)>>, <<Good(2), Good(4)>>}
===========================================================================
