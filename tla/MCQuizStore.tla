---------------------------- MODULE MCQuizStore ----------------------------
(* Instances of QuizStore for TLC. *)
EXTENDS QuizStore, TLC

\* Ids, requests and contents differ in name only.
StoreSymmetry ==
    Permutations(Quiz) \cup Permutations(Request) \cup Permutations(Content)
===========================================================================
