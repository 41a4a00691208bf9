------------------------------ MODULE AiJobs ------------------------------
(***************************************************************************)
(* Quizzes written by a language model: the rows of ai_quiz_jobs and the   *)
(* task of the quiz service that works on each.                            *)
(*                                                                         *)
(* start_ai_quiz_job inserts a row and spawns the task, which writes its   *)
(* progress to the row in statements that name the id only.  Nobody takes  *)
(* up a row whose task is gone.  A statement that fails may have been      *)
(* executed.  get_ai_quiz_job only reads.                                  *)
(***************************************************************************)
EXTENDS QuizQuestions

CONSTANTS
    Job,       \* ids that may be drawn
    Reply,     \* lists of questions a model answers with
    Bank,      \* fallback question banks
    Count,     \* desired_question_count
    MaxRetries \* max_retries of the configuration

ASSUME ReplyAssumption == Reply \subseteq Seq(Generated)
ASSUME BankAssumption == Bank \subseteq Seq(Question)
ASSUME CountAssumption == Count \subseteq Nat \ {0} /\ MaxRetries \in Nat

VARIABLES
    jobs,     \* table ai_quiz_jobs: a row of each job, or None
    workers,  \* the task of each job, or None
    said,     \* history: what a worker made the quiz of, or None
    unsure,   \* history: jobs stored by a statement that reported an error
    stranded  \* history: jobs whose task ended without a last word

jobVars == <<jobs, workers, said, unsure, stranded>>

JobRow == [status : {"queued", "running", "done", "failed"}, quiz : Seq(Question) \cup {None}]
Worker == [step : {"start", "generate", "store", "fail"}, tries : Nat,
           quiz : Seq(Question) \cup {None}]
ASSUME NoJobAssumption == None \notin JobRow \cup Worker \cup Seq(Question) \cup Seq(Generated)

JobsInit ==
    /\ jobs = [j \in Job |-> None] /\ workers = [j \in Job |-> None]
    /\ said = [j \in Job |-> None] /\ unsure = {} /\ stranded = {}

WorkerAt(j, s) == workers[j] # None /\ workers[j].step = s
GoesTo(j, s) == workers' = [workers EXCEPT ![j].step = s]
WorkerEnds(j) == workers' = [workers EXCEPT ![j] = None]
Writes(j, s, quiz) == jobs' = [jobs EXCEPT ![j] = [status |-> s, quiz |-> quiz]]
Runs(j) == jobs' = [jobs EXCEPT ![j].status = "running"]

---------------------------------------------------------------------------
\* The task is not spawned when the INSERT reported an error though it was
\* executed, or the client was gone before it was answered.
StartJob(j) ==
    /\ jobs[j] = None
    /\ Writes(j, "queued", None)
    /\ \/ /\ workers' = [workers EXCEPT ![j] =
                            [step |-> "start", tries |-> 0, quiz |-> None]]
          /\ UNCHANGED stranded
       \/ /\ stranded' = stranded \cup {j}
          /\ UNCHANGED workers
    /\ UNCHANGED <<said, unsure>>

SetRunning(j) ==
    /\ WorkerAt(j, "start")
    /\ \/ Runs(j) /\ GoesTo(j, "generate") /\ UNCHANGED stranded
       \/ /\ Runs(j) \/ UNCHANGED jobs
          /\ WorkerEnds(j)
          /\ stranded' = stranded \cup {j}
    /\ UNCHANGED <<said, unsure>>

---------------------------------------------------------------------------
(* The quiz: generate_quiz_via_model, or questions of the bank.            *)

\* Mutant: the task ends where it should record the failure.
GivesUp(j) == WorkerEnds(j)
Rejects(j) == GoesTo(j, "fail")

Keeps(j, quiz, reply) ==
    /\ workers' = [workers EXCEPT ![j].step = "store", ![j].quiz = quiz]
    /\ said' = [said EXCEPT ![j] = reply]

\* An answer that is late, missing, no JSON or not Usable is asked for again.
AskModel(j) ==
    /\ WorkerAt(j, "generate")
    /\ \/ \E reply \in Reply : Usable(reply) /\ Keeps(j, Built(reply), reply)
       \/ /\ workers[j].tries < MaxRetries
          /\ workers' = [workers EXCEPT ![j].tries = @ + 1]
          /\ UNCHANGED said
       \/ workers[j].tries >= MaxRetries /\ Rejects(j) /\ UNCHANGED said
    /\ UNCHANGED <<jobs, unsure, stranded>>

FirstOf(bank, n) == SubSeq(bank, 1, IF n < Len(bank) THEN n ELSE Len(bank))
Unsaid(quiz) ==
    [i \in DOMAIN quiz |-> [text |-> quiz[i].text, options |-> quiz[i].options,
                            index |-> quiz[i].index, correct |-> None]]

\* A service without a model takes the first questions of its bank.
TakeFallback(j) ==
    /\ WorkerAt(j, "generate") /\ workers[j].tries = 0
    /\ \E bank \in Bank, n \in Count :
        LET quiz == FirstOf(bank, n)
        IN  \/ ValidQuestions(quiz) /\ Keeps(j, quiz, Unsaid(quiz))
            \/ ~ ValidQuestions(quiz) /\ Rejects(j) /\ UNCHANGED said
    /\ UNCHANGED <<jobs, unsure, stranded>>

---------------------------------------------------------------------------
(* The outcome.                                                            *)

StoreJob(j) ==
    /\ WorkerAt(j, "store")
    /\ \/ Writes(j, "done", workers[j].quiz) /\ WorkerEnds(j) /\ UNCHANGED unsure
       \/ Rejects(j) /\ UNCHANGED <<jobs, unsure>>
       \/ /\ Writes(j, "done", workers[j].quiz) /\ Rejects(j)
          /\ unsure' = unsure \cup {j}
    /\ UNCHANGED <<said, stranded>>

\* Mutant: the task goes on after it recorded the failure.
GoesOn(j) == GoesTo(j, "store")
AfterFailure(j) == WorkerEnds(j)

\* Whether the failure was recorded is not looked at.
FailJob(j) ==
    /\ WorkerAt(j, "fail")
    /\ \/ Writes(j, "failed", None) /\ UNCHANGED stranded
       \/ UNCHANGED jobs /\ stranded' = stranded \cup {j}
    /\ AfterFailure(j)
    /\ UNCHANGED <<said, unsure>>

\* The process ends, its tasks with it.
EndWorkers ==
    /\ workers' = [j \in Job |-> None]
    /\ stranded' = stranded \cup {j \in Job : workers[j] # None}
    /\ UNCHANGED <<jobs, said, unsure>>

WorkOn(j) ==
    StartJob(j) \/ SetRunning(j) \/ AskModel(j) \/ TakeFallback(j) \/ StoreJob(j) \/ FailJob(j)
JobsNext == EndWorkers \/ \E j \in Job : WorkOn(j)
JobsSpec == JobsInit /\ [][JobsNext]_jobVars

---------------------------------------------------------------------------
(* Properties.                                                             *)

JobsTypeOK ==
    /\ jobs \in [Job -> JobRow \cup {None}]
    /\ workers \in [Job -> Worker \cup {None}]
    /\ said \in [Job -> Seq(Generated) \cup {None}]
    /\ unsure \subseteq Job /\ stranded \subseteq Job

Is(j, s) == jobs[j] # None /\ jobs[j].status = s

\* Whatever the model answers and whichever check refuses it, a client that
\* polls an unfinished job waits for a task that still works on it, unless
\* the task was lost with its process or with a statement that failed.
UnfinishedJobHasWorker ==
    \A j \in Job : Is(j, "queued") \/ Is(j, "running") => workers[j] # None \/ j \in stranded

\* What a client was told of a finished job stays so; only a quiz whose
\* store was executed but reported as failed may turn into a failure.
FinishedJobStays ==
    [][\A j \in Job : Is(j, "done") \/ Is(j, "failed") =>
          \/ jobs'[j] = jobs[j]
          \/ j \in unsure /\ Is(j, "done") /\ jobs'[j].status = "failed"]_jobVars

\* A done job, and no other, has a quiz, and its questions say what the
\* model or the bank said: the option that counts is the one meant, though
\* an answer may give it by index, by text or by both.  That they are four
\* is the rule of validate_questions, the prompt and the forms; the test
\* ai_job_lifecycle_integration expects a done job from a question with two.
DoneQuizIsRight ==
    \A j \in Job : jobs[j] # None =>
        IF Is(j, "done")
        THEN said[j] # None /\ jobs[j].quiz # None /\ FollowsReply(jobs[j].quiz, said[j])
        ELSE jobs[j].quiz = None
===========================================================================
