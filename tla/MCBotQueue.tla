---------------------------- MODULE MCBotQueue ----------------------------
(* Instances of BotQueue for TLC. *)
EXTENDS BotQueue, TLC

CONSTANTS u1, u2, b1

\* Both updates are of one bot.
OneBot == [u \in Update |-> b1]
\* Updates of one bot and runners differ in name only.
QueueSymmetry == Permutations(Update) \cup Permutations(Runner)
===========================================================================
