---------------------------- MODULE QuizService ----------------------------
(***************************************************************************)
(* The quiz service: requests on quizzes and tasks of AI jobs, side by     *)
(* side over one database, in a process that may end at any moment.  What  *)
(* the tables say survives it, handlers and tasks do not.                  *)
(***************************************************************************)
EXTENDS QuizStore, AiJobs

serviceVars == <<vars, jobVars>>

ServiceInit == Init /\ JobsInit

\* The process ends, and another one starts on the same tables.
Restart == EndHandlers /\ EndWorkers

ServiceNext ==
    \/ (\E r \in Request : Handler(r)) /\ UNCHANGED jobVars
    \/ (\E j \in Job : WorkOn(j)) /\ UNCHANGED vars
    \/ Restart
ServiceSpec == ServiceInit /\ [][ServiceNext]_serviceVars
===========================================================================
