--------------------------- MODULE MCBotRegistry ---------------------------
(* Instances of BotRegistry for TLC. *)
EXTENDS BotRegistry, TLC

\* Ids and requests differ in name only.
RegistrySymmetry == Permutations(Id) \cup Permutations(Request)
============================================================================
