----------------------------- MODULE QuizNull -----------------------------
(* What the modules of the quiz service write for no row and no value. *)
CONSTANT None
===========================================================================
