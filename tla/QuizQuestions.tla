--------------------------- MODULE QuizQuestions ---------------------------
(***************************************************************************)
(* The checks the quiz service makes of questions before it stores them,   *)
(* and what it makes of the questions a language model answers with.       *)
(*                                                                         *)
(* The text of an option stands for all that differ from it in surrounding *)
(* white space, which the checks trim away; Empty stands for all blank     *)
(* ones.  Indexes count from 0, as in the messages.                        *)
(***************************************************************************)
EXTENDS Naturals, Sequences, QuizNull

CONSTANTS
    Text,  \* texts of questions and options
    Empty, \* the blank one
    Long,  \* those of more than 160 bytes
    Lower  \* to_lowercase

ASSUME TextAssumption == Empty \in Text /\ Long \subseteq Text /\ Lower \in [Text -> Text]
ASSUME NoTextAssumption == None \notin Text \cup Nat

Question == [text : Text, options : Seq(Text), index : Nat \cup {None}]
\* What a model answers: the correct option by index, by text, both or neither
Generated == [text : Text, options : Seq(Text), index : Nat \cup {None},
              correct : Text \cup {None}]

---------------------------------------------------------------------------
(* validate_questions.                                                     *)

Stands(t) == t # Empty /\ t \notin Long

Distinct(options) == \A i, k \in DOMAIN options : Lower[options[i]] = Lower[options[k]] => i = k

ValidQuestion(q) ==
    /\ Stands(q.text)
    /\ Len(q.options) = 4
    /\ \A i \in 1 .. 4 : Stands(q.options[i])
    /\ Distinct(q.options)
    /\ q.index # None /\ q.index <= 3
ValidQuestions(quiz) == quiz # <<>> /\ \A i \in DOMAIN quiz : ValidQuestion(quiz[i])

---------------------------------------------------------------------------
(* build_quiz_from_generated_payload.                                      *)

Matches(g) == {i \in DOMAIN g.options : g.options[i] = g.correct}
FromText(g) == (CHOOSE i \in Matches(g) : \A k \in Matches(g) : i <= k) - 1

\* Mutant: the index is believed when the text names another option.
HasMatch(g) == g.correct # None => Matches(g) # {}
Agrees(g) ==
    g.correct # None =>
        Matches(g) # {} /\ (g.index # None => g.index = FromText(g))

CorrectIndex(g) == IF g.index = None /\ g.correct # None THEN FromText(g) ELSE g.index

Built(reply) ==
    [i \in DOMAIN reply |->
        [text |-> reply[i].text, options |-> reply[i].options,
         index |-> CorrectIndex(reply[i])]]
Usable(reply) == (\A i \in DOMAIN reply : Agrees(reply[i])) /\ ValidQuestions(Built(reply))

---------------------------------------------------------------------------
\* What a player must be able to rely on: of four options no two look alike,
\* and the one that counts is the one its author meant, said either way.
Follows(q, g) ==
    /\ q.text = g.text /\ q.options = g.options
    /\ Len(q.options) = 4 /\ q.index \in 0 .. 3
    /\ \A i, k \in 1 .. 4 : i # k => Lower[q.options[i]] # Lower[q.options[k]]
    /\ g.index # None => q.index = g.index
    /\ g.correct # None => q.options[q.index + 1] = g.correct
FollowsReply(quiz, reply) ==
    /\ Len(quiz) = Len(reply) /\ Len(quiz) > 0
    /\ \A i \in DOMAIN quiz : Follows(quiz[i], reply[i])
===========================================================================
