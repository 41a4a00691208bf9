------------------------- MODULE QuizServiceProofs -------------------------
(***************************************************************************)
(* Proofs about AiJobs, for any number of jobs and whatever the model      *)
(* answers: an unfinished job has its worker, a finished one stays, and a  *)
(* done one has the quiz that was meant.  And the quiz service implements  *)
(* its two parts, so that what is proved of QuizStore, in QuizStoreProofs, *)
(* and of AiJobs holds of it.                                              *)
(***************************************************************************)
EXTENDS QuizService, QuizStoreProofs

---------------------------------------------------------------------------
(* Questions.                                                              *)

\* The first match is one.
LEMMA TextIsMatched ==
  ASSUME NEW g \in Generated, Len(g.options) = 4, Matches(g) # {}
  PROVE  FromText(g) \in 0 .. 3 /\ g.options[FromText(g) + 1] = g.correct
<1>1. Matches(g) \subseteq {1, 2, 3, 4}  BY DEF Matches, Generated
<1>2. \E i \in Matches(g) : \A k \in Matches(g) : i <= k
  <2>1. CASE 1 \in Matches(g)  BY <1>1, <2>1
  <2>2. CASE 1 \notin Matches(g) /\ 2 \in Matches(g)  BY <1>1, <2>2
  <2>3. CASE Matches(g) \subseteq {3, 4} /\ 3 \in Matches(g)  BY <2>3
  <2>4. CASE Matches(g) \subseteq {4}  BY <2>4
  <2> QED  BY <1>1, <2>1, <2>2, <2>3, <2>4
<1> DEFINE first == CHOOSE i \in Matches(g) : \A k \in Matches(g) : i <= k
<1>3. first \in Matches(g)  BY <1>2
<1>4. FromText(g) = first - 1  BY DEF FromText
<1> HIDE DEF first
<1>5. first \in 1 .. 4 /\ g.options[first] = g.correct  BY <1>1, <1>3 DEF Matches
<1>6. FromText(g) \in 0 .. 3 /\ FromText(g) + 1 = first  BY <1>4, <1>5
<1> QED  BY <1>5, <1>6

\* Of four distinct texts no two look alike.
LEMMA DistinctLook ==
  ASSUME NEW options \in Seq(Text), Len(options) = 4, Distinct(options)
  PROVE  \A i, k \in 1 .. 4 : i # k => Lower[options[i]] # Lower[options[k]]
  BY DEF Distinct

\* A valid question follows from what was said of it.
LEMMA ValidFollows ==
  ASSUME NEW q \in Question, NEW g \in Generated, ValidQuestion(q),
         q.text = g.text, q.options = g.options, g.index # None => q.index = g.index,
         g.correct # None => q.options[q.index + 1] = g.correct
  PROVE  Follows(q, g)
<1>1. q.index \in 0 .. 3  BY DEF ValidQuestion, Question
<1>2. q.options \in Seq(Text) /\ Len(q.options) = 4 /\ Distinct(q.options)
  BY DEF ValidQuestion, Question
<1> QED  BY <1>1, <1>2, DistinctLook DEF Follows

\* What is made of an answer that is accepted is what the answer meant.
LEMMA BuiltFollows ==
  ASSUME NEW reply \in Seq(Generated), Usable(reply)
  PROVE  Built(reply) \in Seq(Question) /\ FollowsReply(Built(reply), reply)
<1>1. Built(reply) \in [1 .. Len(reply) -> Question]
  <2> SUFFICES ASSUME NEW i \in 1 .. Len(reply)
               PROVE  [text |-> reply[i].text, options |-> reply[i].options,
                       index |-> CorrectIndex(reply[i])] \in Question
    BY DEF Built
  <2>1. reply[i] \in Generated  OBVIOUS
  <2>2. CASE reply[i].index # None \/ reply[i].correct = None
    BY <2>1, <2>2 DEF CorrectIndex, Generated, Question
  <2>3. CASE reply[i].index = None /\ reply[i].correct # None
    <3>1. Matches(reply[i]) # {}  BY <2>3 DEF Usable, Agrees
    <3>2. i \in DOMAIN Built(reply) /\ Built(reply)[i].options = reply[i].options
      BY DEF Built
    <3>3. Len(reply[i].options) = 4  BY <3>2 DEF Usable, ValidQuestions, ValidQuestion
    <3>4. FromText(reply[i]) \in Nat  BY <2>1, <3>1, <3>3, TextIsMatched
    <3> QED  BY <2>1, <2>3, <3>4 DEF CorrectIndex, Generated, Question
  <2> QED  BY <2>2, <2>3
<1>2. Built(reply) \in Seq(Question) /\ Len(Built(reply)) = Len(reply)
  BY <1>1
<1>3. Len(reply) > 0
  BY <1>2 DEF Usable, ValidQuestions
<1>4. ASSUME NEW i \in DOMAIN Built(reply) PROVE Follows(Built(reply)[i], reply[i])
  <2> DEFINE g == reply[i]
             q == Built(reply)[i]
  <2>1. i \in DOMAIN reply /\ g \in Generated /\ q \in Question  BY <1>1, <1>2
  <2>2. q.text = g.text /\ q.options = g.options /\ q.index = CorrectIndex(g)
    BY <2>1 DEF Built
  <2>3. ValidQuestion(q) /\ Agrees(g)  BY <2>1 DEF Usable, ValidQuestions
  <2>4. Len(g.options) = 4  BY <2>2, <2>3 DEF ValidQuestion
  <2>5. g.index # None => q.index = g.index  BY <2>2 DEF CorrectIndex
  <2>6. ASSUME g.correct # None PROVE q.options[q.index + 1] = g.correct
    <3>1. Matches(g) # {} /\ (g.index # None => g.index = FromText(g))
      BY <2>3, <2>6 DEF Agrees
    <3>2. q.index = FromText(g)  BY <2>2, <2>6, <3>1 DEF CorrectIndex
    <3> QED  BY <2>1, <2>2, <2>4, <3>1, <3>2, TextIsMatched
  <2> QED  BY <2>1, <2>2, <2>3, <2>5, <2>6, ValidFollows
<1> QED  BY <1>2, <1>3, <1>4 DEF FollowsReply

\* And so are questions of the bank.
LEMMA BankFollows ==
  ASSUME NEW quiz \in Seq(Question), ValidQuestions(quiz)
  PROVE  Unsaid(quiz) \in Seq(Generated) /\ FollowsReply(quiz, Unsaid(quiz))
<1>1. Unsaid(quiz) \in [1 .. Len(quiz) -> Generated]
  <2>1. ASSUME NEW i \in DOMAIN quiz
        PROVE  [text |-> quiz[i].text, options |-> quiz[i].options,
                index |-> quiz[i].index, correct |-> None] \in Generated
    <3>1. quiz[i] \in Question  OBVIOUS
    <3> QED  BY <3>1 DEF Question, Generated
  <2>2. Unsaid(quiz) \in [DOMAIN quiz -> Generated]  BY <2>1 DEF Unsaid
  <2>3. DOMAIN quiz = 1 .. Len(quiz)  OBVIOUS
  <2> QED  BY <2>2, <2>3
<1>2. Unsaid(quiz) \in Seq(Generated) /\ Len(Unsaid(quiz)) = Len(quiz)  BY <1>1
<1>3. Len(quiz) > 0  BY DEF ValidQuestions
<1>4. ASSUME NEW i \in DOMAIN quiz PROVE Follows(quiz[i], Unsaid(quiz)[i])
  <2>1. quiz[i] \in Question /\ Unsaid(quiz)[i] \in Generated  BY <1>1
  <2>2. Unsaid(quiz)[i] = [text |-> quiz[i].text, options |-> quiz[i].options,
                           index |-> quiz[i].index, correct |-> None]
    BY DEF Unsaid
  <2>3. ValidQuestion(quiz[i])  BY DEF ValidQuestions
  <2> QED  BY <2>1, <2>2, <2>3, ValidFollows
<1> QED  BY <1>2, <1>3, <1>4 DEF FollowsReply

\* The first questions of a bank are questions.
LEMMA FirstOfBank ==
  ASSUME NEW bank \in Bank, NEW n \in Count PROVE FirstOf(bank, n) \in Seq(Question)
<1>1. bank \in Seq(Question) /\ n \in Nat /\ n > 0  BY BankAssumption, CountAssumption
<1> DEFINE m == IF n < Len(bank) THEN n ELSE Len(bank)
<1>2. m \in Nat /\ m <= Len(bank)  BY <1>1
<1>3. SubSeq(bank, 1, m) \in Seq(Question)  BY <1>1, <1>2
<1> QED  BY <1>3 DEF FirstOf

---------------------------------------------------------------------------
(* The inductive invariant.                                                *)

\* What a worker at work says of its row: it is unfinished until the worker
\* stores or fails, and a stored quiz that may fail is an unsure one.
WorkerInv(j) ==
    workers[j] # None =>
        /\ jobs[j] # None
        /\ workers[j].step # "fail" => Is(j, "queued") \/ Is(j, "running")
        /\ workers[j].step = "fail" => ~ Is(j, "failed") /\ (Is(j, "done") => j \in unsure)
        /\ workers[j].step = "store" =>
               /\ said[j] # None /\ workers[j].quiz # None
               /\ FollowsReply(workers[j].quiz, said[j])

HasWorker(j) == Is(j, "queued") \/ Is(j, "running") => workers[j] # None \/ j \in stranded
QuizIsRight(j) ==
    jobs[j] # None =>
        IF Is(j, "done")
        THEN said[j] # None /\ jobs[j].quiz # None /\ FollowsReply(jobs[j].quiz, said[j])
        ELSE jobs[j].quiz = None

JobInv(j) == WorkerInv(j) /\ HasWorker(j) /\ QuizIsRight(j)
JInv == JobsTypeOK /\ \A j \in Job : JobInv(j)

---------------------------------------------------------------------------
(* Types.                                                                  *)

\* The table is empty at first.
LEMMA JobInitTypes == JobsInit => JobsTypeOK
  BY DEF JobsInit, JobsTypeOK

\* The row, the worker and what was said of a job, one type each.
LEMMA JobKeepsTypes ==
  ASSUME JobsTypeOK, NEW j \in Job, NEW quiz \in Seq(Question), NEW reply \in Seq(Generated),
         workers[j] # None, Keeps(j, quiz, reply)
  PROVE  workers' \in [Job -> Worker \cup {None}] /\ said' \in [Job -> Seq(Generated) \cup {None}]
<1>1. [workers[j] EXCEPT !.step = "store", !.quiz = quiz] \in Worker
  BY DEF JobsTypeOK, Worker
<1>2. workers' = [workers EXCEPT ![j] = [@ EXCEPT !.step = "store", !.quiz = quiz]]
  BY DEF Keeps, JobsTypeOK, Worker
<1> QED  BY <1>1, <1>2 DEF Keeps, JobsTypeOK

\* A worker moves on to another step.
LEMMA JobStepTypes ==
  ASSUME JobsTypeOK, NEW j \in Job, NEW s \in {"start", "generate", "store", "fail"},
         workers[j] # None, GoesTo(j, s)
  PROVE  workers' \in [Job -> Worker \cup {None}]
<1>1. [workers[j] EXCEPT !.step = s] \in Worker  BY DEF JobsTypeOK, Worker
<1> QED  BY <1>1 DEF GoesTo, JobsTypeOK

\* Or ends.
LEMMA JobEndTypes ==
  ASSUME JobsTypeOK, NEW j \in Job, WorkerEnds(j)
  PROVE  workers' \in [Job -> Worker \cup {None}]
  BY DEF WorkerEnds, JobsTypeOK

\* The row is written.
LEMMA JobWriteTypes ==
  ASSUME JobsTypeOK, NEW j \in Job, NEW s \in {"queued", "running", "done", "failed"},
         NEW quiz \in Seq(Question) \cup {None}, Writes(j, s, quiz)
  PROVE  jobs' \in [Job -> JobRow \cup {None}]
  BY DEF Writes, JobsTypeOK, JobRow

\* A type for each step.
LEMMA JobNextTypes == JInv /\ [JobsNext]_jobVars => JobsTypeOK'
<1> SUFFICES ASSUME JInv, [JobsNext]_jobVars PROVE JobsTypeOK'  OBVIOUS
<1> JobsTypeOK  BY DEF JInv
<1>0. CASE UNCHANGED jobVars  BY <1>0 DEF JobsTypeOK, jobVars
<1>1. CASE EndWorkers  BY <1>1 DEF JobsTypeOK, EndWorkers
<1>2. ASSUME NEW j \in Job, StartJob(j) PROVE JobsTypeOK'
  <2>1. jobs' \in [Job -> JobRow \cup {None}]  BY <1>2, JobWriteTypes DEF StartJob
  <2>2. [step |-> "start", tries |-> 0, quiz |-> None] \in Worker  BY DEF Worker
  <2> QED  BY <1>2, <2>1, <2>2 DEF JobsTypeOK, StartJob
<1>3. ASSUME NEW j \in Job, SetRunning(j) PROVE JobsTypeOK'
  <2>1. jobs[j] \in JobRow  BY <1>3 DEF JInv, JobInv, WorkerInv, SetRunning, WorkerAt, JobsTypeOK
  <2>2. [jobs[j] EXCEPT !.status = "running"] \in JobRow  BY <2>1 DEF JobRow
  <2>3. jobs' \in [Job -> JobRow \cup {None}]
    BY <1>3, <2>2 DEF SetRunning, Runs, JobsTypeOK
  <2>4. workers' \in [Job -> Worker \cup {None}]
    BY <1>3, JobStepTypes, JobEndTypes DEF SetRunning, WorkerAt
  <2> QED  BY <1>3, <2>3, <2>4 DEF JobsTypeOK, SetRunning
<1>4. ASSUME NEW j \in Job, AskModel(j) PROVE JobsTypeOK'
  <2>0. workers[j] \in Worker  BY <1>4 DEF AskModel, WorkerAt, JobsTypeOK
  <2>1. CASE \E reply \in Reply : Usable(reply) /\ Keeps(j, Built(reply), reply)
    <3>1. PICK reply \in Seq(Generated) : Usable(reply) /\ Keeps(j, Built(reply), reply)
      BY <2>1, ReplyAssumption
    <3>2. Built(reply) \in Seq(Question)  BY <3>1, BuiltFollows
    <3> QED  BY <1>4, <3>1, <3>2, JobKeepsTypes DEF AskModel, WorkerAt, JobsTypeOK
  <2>2. CASE workers' = [workers EXCEPT ![j].tries = @ + 1] /\ UNCHANGED said
    <3>1. [workers[j] EXCEPT !.tries = @ + 1] \in Worker  BY <2>0 DEF Worker
    <3>2. workers' \in [Job -> Worker \cup {None}]  BY <2>0, <2>2, <3>1 DEF JobsTypeOK, Worker
    <3> QED  BY <1>4, <2>2, <3>2 DEF AskModel, JobsTypeOK
  <2>3. CASE Rejects(j) /\ UNCHANGED said
    <3>1. workers' \in [Job -> Worker \cup {None}]
      BY <1>4, <2>3, JobStepTypes DEF AskModel, WorkerAt, Rejects
    <3> QED  BY <1>4, <2>3, <3>1 DEF AskModel, JobsTypeOK
  <2> QED  BY <1>4, <2>1, <2>2, <2>3 DEF AskModel
<1>5. ASSUME NEW j \in Job, TakeFallback(j) PROVE JobsTypeOK'
  <2>1. PICK quiz \in Seq(Question) :
           \/ ValidQuestions(quiz) /\ Keeps(j, quiz, Unsaid(quiz))
           \/ Rejects(j) /\ UNCHANGED said
    BY <1>5, FirstOfBank DEF TakeFallback
  <2>2. CASE ValidQuestions(quiz) /\ Keeps(j, quiz, Unsaid(quiz))
    BY <1>5, <2>2, BankFollows, JobKeepsTypes DEF TakeFallback, WorkerAt, JobsTypeOK
  <2>3. CASE Rejects(j) /\ UNCHANGED said
    BY <1>5, <2>3, JobStepTypes DEF TakeFallback, WorkerAt, Rejects, JobsTypeOK
  <2> QED  BY <2>1, <2>2, <2>3
<1>6. ASSUME NEW j \in Job, StoreJob(j) PROVE JobsTypeOK'
  <2>1. workers[j] \in Worker  BY <1>6 DEF StoreJob, WorkerAt, JobsTypeOK
  <2>2. workers[j].quiz \in Seq(Question) \cup {None}  BY <2>1 DEF Worker
  <2>3. jobs' \in [Job -> JobRow \cup {None}]
    BY <1>6, <2>2, JobWriteTypes DEF StoreJob, JobsTypeOK
  <2>4. workers' \in [Job -> Worker \cup {None}]
    BY <1>6, JobStepTypes, JobEndTypes DEF StoreJob, WorkerAt, Rejects
  <2> QED  BY <1>6, <2>3, <2>4 DEF StoreJob, JobsTypeOK
<1>7. ASSUME NEW j \in Job, FailJob(j) PROVE JobsTypeOK'
  <2>1. jobs' \in [Job -> JobRow \cup {None}]
    BY <1>7, JobWriteTypes DEF FailJob, JobsTypeOK
  <2> QED  BY <1>7, <2>1, JobEndTypes DEF FailJob, AfterFailure, JobsTypeOK
<1> QED
  BY <1>0, <1>1, <1>2, <1>3, <1>4, <1>5, <1>6, <1>7 DEF JobsNext, WorkOn

---------------------------------------------------------------------------
(* Jobs.                                                                   *)

\* A step that changes nothing about a job.
Untouched(j) ==
    /\ jobs'[j] = jobs[j] /\ workers'[j] = workers[j] /\ said'[j] = said[j]
    /\ unsure \subseteq unsure' /\ stranded \subseteq stranded'

\* Nothing about the job is lost by it.
LEMMA UntouchedStep ==
  ASSUME NEW j \in Job, JobInv(j), Untouched(j) PROVE JobInv(j)'
  BY DEF JobInv, WorkerInv, HasWorker, QuizIsRight, Untouched, Is

\* Work on a job touches no other.
LEMMA OthersUntouched ==
  ASSUME JInv, NEW j \in Job, WorkOn(j), NEW i \in Job, i # j PROVE Untouched(i)
<1> JobsTypeOK  BY DEF JInv
<1>1. CASE StartJob(j)  BY <1>1 DEF StartJob, Writes, Untouched, JobsTypeOK
<1>2. CASE SetRunning(j)
  BY <1>2 DEF SetRunning, Runs, GoesTo, WorkerEnds, Untouched, JobsTypeOK
<1>3. CASE AskModel(j)  BY <1>3 DEF AskModel, Keeps, Rejects, GoesTo, Untouched, JobsTypeOK
<1>4. CASE TakeFallback(j)
  BY <1>4 DEF TakeFallback, Keeps, Rejects, GoesTo, Untouched, JobsTypeOK
<1>5. CASE StoreJob(j)
  BY <1>5 DEF StoreJob, Writes, WorkerEnds, Rejects, GoesTo, Untouched, JobsTypeOK
<1>6. CASE FailJob(j)
  BY <1>6 DEF FailJob, Writes, AfterFailure, WorkerEnds, Untouched, JobsTypeOK
<1> QED  BY <1>1, <1>2, <1>3, <1>4, <1>5, <1>6 DEF WorkOn

\* A quiz that follows what was said moves to the store.
LEMMA KeepsStep ==
  ASSUME JInv, NEW j \in Job, WorkerAt(j, "generate"), NEW quiz \in Seq(Question),
         NEW reply \in Seq(Generated), FollowsReply(quiz, reply), Keeps(j, quiz, reply),
         UNCHANGED <<jobs, unsure, stranded>>
  PROVE  JobInv(j)'
<1>1. workers[j] \in Worker /\ JobInv(j)  BY DEF JInv, JobsTypeOK, WorkerAt
<1>2. workers'[j] = [workers[j] EXCEPT !.step = "store", !.quiz = quiz] /\ said'[j] = reply
  BY <1>1 DEF Keeps, JInv, JobsTypeOK, Worker
<1>3. /\ workers'[j].step = "store" /\ workers'[j].quiz = quiz /\ workers'[j] \in Worker
  BY <1>1, <1>2 DEF Worker
<1>4. quiz # None /\ reply # None /\ workers'[j] # None  BY <1>3, NoJobAssumption
<1>5. Is(j, "queued") \/ Is(j, "running")  BY <1>1 DEF JobInv, WorkerInv, WorkerAt
<1>6. WorkerInv(j)'  BY <1>2, <1>3, <1>4, <1>5 DEF WorkerInv, Is
<1>7. HasWorker(j)'  BY <1>4 DEF HasWorker
<1>8. QuizIsRight(j)'  BY <1>1, <1>5 DEF JobInv, QuizIsRight, Is
<1> QED  BY <1>6, <1>7, <1>8 DEF JobInv

\* A worker that is refused a quiz goes to record that, its job unfinished.
LEMMA RejectsStep ==
  ASSUME JInv, NEW j \in Job, WorkerAt(j, "generate") \/ WorkerAt(j, "store"), Rejects(j),
         UNCHANGED <<jobs, said, unsure, stranded>>
  PROVE  JobInv(j)'
<1>1. workers[j] \in Worker /\ JobInv(j)  BY DEF JInv, JobsTypeOK, WorkerAt
<1>2. workers'[j] = [workers[j] EXCEPT !.step = "fail"]
  BY <1>1 DEF Rejects, GoesTo, JInv, JobsTypeOK
<1>3. workers'[j].step = "fail" /\ workers'[j] # None
  <2>1. workers'[j] \in Worker /\ workers'[j].step = "fail"  BY <1>1, <1>2 DEF Worker
  <2> QED  BY <2>1, NoJobAssumption
<1>4. Is(j, "queued") \/ Is(j, "running")  BY <1>1 DEF JobInv, WorkerInv, WorkerAt
<1> QED  BY <1>1, <1>3, <1>4 DEF JobInv, WorkerInv, HasWorker, QuizIsRight, Is

\* A worker ends with a word in the row or is remembered as stranded.
LEMMA EndsStep ==
  ASSUME JInv, NEW j \in Job, WorkerEnds(j),
         \/ jobs'[j] # None /\ QuizIsRight(j)' /\ (Is(j, "done")' \/ Is(j, "failed")')
         \/ QuizIsRight(j)' /\ j \in stranded'
  PROVE  JobInv(j)'
<1>1. workers'[j] = None  BY DEF WorkerEnds, JInv, JobsTypeOK
<1> QED  BY <1>1 DEF JobInv, WorkerInv, HasWorker, Is

\* Every step of a worker keeps its job's invariant.
LEMMA WorkStep ==
  ASSUME JInv, NEW j \in Job, WorkOn(j) PROVE JobInv(j)'
<1> JobsTypeOK /\ JobInv(j)  BY DEF JInv
<1>1. CASE StartJob(j)
  <2>1. jobs'[j] = [status |-> "queued", quiz |-> None]
    BY <1>1 DEF StartJob, Writes, JobsTypeOK
  <2>2. jobs'[j] \in JobRow  BY <2>1 DEF JobRow
  <2>3. QuizIsRight(j)'  BY <2>1 DEF QuizIsRight, Is
  <2>4. CASE workers' = [workers EXCEPT ![j] = [step |-> "start", tries |-> 0, quiz |-> None]]
    <3>1. workers'[j] = [step |-> "start", tries |-> 0, quiz |-> None]
      BY <2>4 DEF JobsTypeOK
    <3>2. workers'[j] \in Worker  BY <3>1 DEF Worker
    <3>3. jobs'[j] # None /\ workers'[j] # None  BY <2>2, <3>2, NoJobAssumption
    <3> QED  BY <2>1, <2>3, <3>1, <3>3 DEF JobInv, WorkerInv, HasWorker, Is
  <2>5. CASE stranded' = stranded \cup {j} /\ UNCHANGED workers
    <3>1. workers[j] = None  BY <1>1 DEF StartJob, JobInv, WorkerInv
    <3> QED  BY <2>3, <2>5, <3>1 DEF JobInv, WorkerInv, HasWorker
  <2> QED  BY <1>1, <2>4, <2>5 DEF StartJob
<1>2. CASE SetRunning(j)
  <2>1. /\ workers[j] \in Worker /\ jobs[j] \in JobRow
        /\ Is(j, "queued") \/ Is(j, "running")
    BY <1>2 DEF SetRunning, WorkerAt, JobsTypeOK, JobInv, WorkerInv
  <2>2. jobs[j].quiz = None  BY <2>1 DEF JobInv, QuizIsRight, Is
  <2>3. ASSUME Runs(j) PROVE QuizIsRight(j)' /\ Is(j, "running")'
    <3>1. jobs'[j] = [jobs[j] EXCEPT !.status = "running"]  BY <2>3 DEF Runs, JobsTypeOK
    <3>2. jobs'[j] \in JobRow /\ jobs'[j].quiz = None /\ jobs'[j].status = "running"
      BY <2>1, <2>2, <3>1 DEF JobRow
    <3> QED  BY <3>2, NoJobAssumption DEF QuizIsRight, Is
  <2>4. ASSUME UNCHANGED jobs PROVE QuizIsRight(j)'
    BY <2>1, <2>2, <2>4 DEF QuizIsRight, Is
  <2>5. CASE Runs(j) /\ GoesTo(j, "generate")
    <3>1. workers'[j] = [workers[j] EXCEPT !.step = "generate"]
      BY <2>5 DEF GoesTo, JobsTypeOK
    <3>2. workers'[j] \in Worker /\ workers'[j].step = "generate"  BY <2>1, <3>1 DEF Worker
    <3>3. workers'[j] # None  BY <3>2, NoJobAssumption
    <3> QED  BY <2>3, <2>5, <3>2, <3>3 DEF JobInv, WorkerInv, HasWorker, Is
  <2>6. CASE (Runs(j) \/ UNCHANGED jobs) /\ WorkerEnds(j) /\ stranded' = stranded \cup {j}
    BY <2>3, <2>4, <2>6, EndsStep
  <2> QED  BY <1>2, <2>5, <2>6 DEF SetRunning
<1>3. CASE AskModel(j)
  <2>1. CASE \E reply \in Reply : Usable(reply) /\ Keeps(j, Built(reply), reply)
    <3>1. PICK reply \in Seq(Generated) : Usable(reply) /\ Keeps(j, Built(reply), reply)
      BY <2>1, ReplyAssumption
    <3>2. Built(reply) \in Seq(Question) /\ FollowsReply(Built(reply), reply)
      BY <3>1, BuiltFollows
    <3> QED  BY <1>3, <3>1, <3>2, KeepsStep DEF AskModel
  <2>2. CASE workers' = [workers EXCEPT ![j].tries = @ + 1] /\ UNCHANGED said
    <3>1. workers[j] \in Worker /\ workers[j].step = "generate"
      BY <1>3 DEF AskModel, WorkerAt, JobsTypeOK
    <3>2. workers'[j] = [workers[j] EXCEPT !.tries = @ + 1]
      BY <2>2 DEF JobsTypeOK
    <3>3. workers'[j] \in Worker /\ workers'[j].step = "generate"  BY <3>1, <3>2 DEF Worker
    <3>4. workers[j] # None /\ workers'[j] # None  BY <3>1, <3>3, NoJobAssumption
    <3> QED
      BY <1>3, <2>2, <3>1, <3>3, <3>4
      DEF AskModel, JobInv, WorkerInv, HasWorker, QuizIsRight, Is
  <2>3. CASE Rejects(j) /\ UNCHANGED said
    BY <1>3, <2>3, RejectsStep DEF AskModel
  <2> QED  BY <1>3, <2>1, <2>2, <2>3 DEF AskModel
<1>4. CASE TakeFallback(j)
  <2>1. PICK quiz \in Seq(Question) :
           \/ ValidQuestions(quiz) /\ Keeps(j, quiz, Unsaid(quiz))
           \/ Rejects(j) /\ UNCHANGED said
    BY <1>4, FirstOfBank DEF TakeFallback
  <2>2. CASE ValidQuestions(quiz) /\ Keeps(j, quiz, Unsaid(quiz))
    BY <1>4, <2>2, BankFollows, KeepsStep DEF TakeFallback
  <2>3. CASE Rejects(j) /\ UNCHANGED said
    BY <1>4, <2>3, RejectsStep DEF TakeFallback
  <2> QED  BY <2>1, <2>2, <2>3
<1>5. CASE StoreJob(j)
  <2>1. workers[j] \in Worker /\ workers[j].step = "store" /\ jobs[j] # None
    BY <1>5 DEF StoreJob, WorkerAt, JobsTypeOK, JobInv, WorkerInv
  <2>2. said[j] # None /\ workers[j].quiz # None /\ FollowsReply(workers[j].quiz, said[j])
    BY <1>5 DEF StoreJob, WorkerAt, JobInv, WorkerInv
  <2>3. ASSUME Writes(j, "done", workers[j].quiz)
        PROVE  QuizIsRight(j)' /\ Is(j, "done")' /\ jobs'[j] # None
    <3>1. jobs'[j] = [status |-> "done", quiz |-> workers[j].quiz]
      BY <2>3 DEF Writes, JobsTypeOK
    <3>2. jobs'[j] \in JobRow  BY <2>1, <3>1 DEF JobRow, Worker
    <3>3. said' = said  BY <1>5 DEF StoreJob
    <3> QED  BY <2>2, <3>1, <3>2, <3>3, NoJobAssumption DEF QuizIsRight, Is
  <2>4. CASE Writes(j, "done", workers[j].quiz) /\ WorkerEnds(j)
    BY <2>3, <2>4, EndsStep
  <2>5. CASE Rejects(j) /\ UNCHANGED <<jobs, unsure>>
    BY <1>5, <2>5, RejectsStep DEF StoreJob
  <2>6. CASE Writes(j, "done", workers[j].quiz) /\ Rejects(j) /\ unsure' = unsure \cup {j}
    <3>1. workers'[j] = [workers[j] EXCEPT !.step = "fail"]
      BY <2>6 DEF Rejects, GoesTo, JobsTypeOK
    <3>2. workers'[j] \in Worker /\ workers'[j].step = "fail"  BY <2>1, <3>1 DEF Worker
    <3>3. workers'[j] # None  BY <3>2, NoJobAssumption
    <3> QED  BY <2>3, <2>6, <3>2, <3>3 DEF JobInv, WorkerInv, HasWorker, Is
  <2> QED  BY <1>5, <2>4, <2>5, <2>6 DEF StoreJob
<1>6. CASE FailJob(j)
  <2>1. CASE Writes(j, "failed", None)
    <3>1. jobs'[j] = [status |-> "failed", quiz |-> None]  BY <2>1 DEF Writes, JobsTypeOK
    <3>2. jobs'[j] \in JobRow  BY <3>1 DEF JobRow
    <3>3. QuizIsRight(j)' /\ Is(j, "failed")' /\ jobs'[j] # None
      BY <3>1, <3>2, NoJobAssumption DEF QuizIsRight, Is
    <3> QED  BY <1>6, <3>3, EndsStep DEF FailJob, AfterFailure
  <2>2. CASE UNCHANGED jobs /\ stranded' = stranded \cup {j}
    <3>1. QuizIsRight(j)'  BY <1>6, <2>2 DEF FailJob, JobInv, QuizIsRight, Is
    <3> QED  BY <1>6, <2>2, <3>1, EndsStep DEF FailJob, AfterFailure
  <2> QED  BY <1>6, <2>1, <2>2 DEF FailJob
<1> QED  BY <1>1, <1>2, <1>3, <1>4, <1>5, <1>6 DEF WorkOn

\* No job is there at first.
LEMMA JobInitInv == JobsInit => JInv
  BY JobInitTypes DEF JobsInit, JInv, JobInv, WorkerInv, HasWorker, QuizIsRight, Is

\* Every step keeps the invariant.
LEMMA JobNextInv == JInv /\ [JobsNext]_jobVars => JInv'
<1> SUFFICES ASSUME JInv, [JobsNext]_jobVars PROVE JInv'  OBVIOUS
<1>0. JobsTypeOK'  BY JobNextTypes
<1>1. ASSUME NEW j \in Job, UNCHANGED jobVars PROVE JobInv(j)'
  BY <1>1, UntouchedStep DEF JInv, Untouched, jobVars
<1>2. ASSUME NEW j \in Job, EndWorkers PROVE JobInv(j)'
  <2>1. workers'[j] = None /\ jobs'[j] = jobs[j] /\ said'[j] = said[j]
        /\ stranded \subseteq stranded' /\ (workers[j] # None => j \in stranded')
    BY <1>2 DEF EndWorkers
  <2> QED  BY <2>1 DEF JInv, JobInv, WorkerInv, HasWorker, QuizIsRight, Is
<1>3. ASSUME NEW i \in Job, WorkOn(i), NEW j \in Job PROVE JobInv(j)'
  <2>1. CASE i = j  BY <1>3, <2>1, WorkStep
  <2>2. CASE i # j  BY <1>3, <2>2, OthersUntouched, UntouchedStep DEF JInv
  <2> QED  BY <2>1, <2>2
<1> QED  BY <1>0, <1>1, <1>2, <1>3 DEF JInv, JobsNext

\* Rows and workers keep their types.
THEOREM JobsTypeCorrect == JobsSpec => []JobsTypeOK
<1>1. JInv => JobsTypeOK  BY DEF JInv
<1> QED  BY <1>1, JobInitInv, JobNextInv, PTL DEF JobsSpec

\* Whoever refuses the quiz of a job, its task goes on to record that.
THEOREM JobsAreWorkedOn == JobsSpec => []UnfinishedJobHasWorker
<1>1. JInv => UnfinishedJobHasWorker  BY DEF JInv, JobInv, HasWorker, UnfinishedJobHasWorker
<1> QED  BY <1>1, JobInitInv, JobNextInv, PTL DEF JobsSpec

\* A done job has the quiz its model or bank meant, for every answer.
THEOREM QuizzesAreRight == JobsSpec => []DoneQuizIsRight
<1>1. JInv => DoneQuizIsRight  BY DEF JInv, JobInv, QuizIsRight, DoneQuizIsRight
<1> QED  BY <1>1, JobInitInv, JobNextInv, PTL DEF JobsSpec

\* No task writes to a finished job but the one that does not know it is.
THEOREM FinishedJobsStay == JobsSpec => FinishedJobStays
<1> DEFINE Stays ==
        \A j \in Job : Is(j, "done") \/ Is(j, "failed") =>
            \/ jobs'[j] = jobs[j]
            \/ j \in unsure /\ Is(j, "done") /\ jobs'[j].status = "failed"
<1>1. JInv /\ [JobsNext]_jobVars => [Stays]_jobVars
  <2> SUFFICES ASSUME JInv, JobsNext PROVE Stays  BY DEF jobVars
  <2>1. CASE EndWorkers  BY <2>1 DEF EndWorkers
  <2>2. ASSUME NEW i \in Job, WorkOn(i), NEW j \in Job, Is(j, "done") \/ Is(j, "failed")
        PROVE  \/ jobs'[j] = jobs[j]
               \/ j \in unsure /\ Is(j, "done") /\ jobs'[j].status = "failed"
    <3>1. CASE i # j  BY <2>2, <3>1, OthersUntouched DEF Untouched
    <3>2. CASE i = j
      <4>1. workers[j] # None => workers[j].step = "fail" /\ j \in unsure /\ Is(j, "done")
        BY <2>2 DEF JInv, JobInv, WorkerInv, Is
      <4>2. CASE StartJob(j)  BY <2>2, <4>2 DEF StartJob, Is
      <4>3. CASE FailJob(j)
        BY <4>1, <4>3 DEF FailJob, WorkerAt, Writes, JInv, JobsTypeOK
      <4>4. ~ SetRunning(j) /\ ~ AskModel(j) /\ ~ TakeFallback(j) /\ ~ StoreJob(j)
        BY <4>1 DEF SetRunning, AskModel, TakeFallback, StoreJob, WorkerAt
      <4> QED  BY <2>2, <3>2, <4>2, <4>3, <4>4 DEF WorkOn
    <3> QED  BY <3>1, <3>2
  <2> QED  BY <2>1, <2>2 DEF JobsNext
<1> QED  BY <1>1, JobInitInv, JobNextInv, PTL DEF JobsSpec, FinishedJobStays

---------------------------------------------------------------------------
(* The service.                                                            *)


\* Requests, jobs and restarts are steps of the store, or none.
LEMMA StoreSteps == [ServiceNext]_serviceVars => [Next]_vars
<1> SUFFICES ASSUME [ServiceNext]_serviceVars PROVE [Next]_vars  OBVIOUS
<1>1. CASE UNCHANGED serviceVars  BY <1>1 DEF serviceVars
<1>2. CASE \E r \in Request : Handler(r)  BY <1>2 DEF Next
<1>3. CASE UNCHANGED vars  BY <1>3
<1>4. CASE Restart  BY <1>4 DEF Restart, Next
<1> QED  BY <1>1, <1>2, <1>3, <1>4 DEF ServiceNext

\* And steps of the jobs, or none.
LEMMA JobSteps == [ServiceNext]_serviceVars => [JobsNext]_jobVars
<1> SUFFICES ASSUME [ServiceNext]_serviceVars PROVE [JobsNext]_jobVars  OBVIOUS
<1>1. CASE UNCHANGED serviceVars  BY <1>1 DEF serviceVars
<1>2. CASE \E j \in Job : WorkOn(j)  BY <1>2 DEF JobsNext
<1>3. CASE UNCHANGED jobVars  BY <1>3
<1>4. CASE Restart  BY <1>4 DEF Restart, JobsNext
<1> QED  BY <1>1, <1>2, <1>3, <1>4 DEF ServiceNext

\* A service that restarts is a store whose handlers all end and jobs whose
\* tasks all end, at the same moment.
THEOREM ServiceImplementsParts == ServiceSpec => Spec /\ JobsSpec
<1>1. ServiceInit => Init /\ JobsInit  BY DEF ServiceInit
<1> QED  BY <1>1, StoreSteps, JobSteps, PTL DEF ServiceSpec, Spec, JobsSpec

\* What is proved of the store and of the jobs holds of the service, whose
\* end takes the handlers and the tasks with it: versions are consecutive
\* (publish_quiz), an unfinished job has its task and a done one the quiz
\* that was meant (spawn_ai_quiz_worker).
THEOREM ServiceKeepsInvariants ==
    ServiceSpec => [](/\ VersionsConsecutive /\ AnsweredVersionHolds /\ PublishedAsShown
                      /\ UnfinishedJobHasWorker /\ DoneQuizIsRight)
BY ServiceImplementsParts, VersionsStayConsecutive, AnswersHold, ShownAsPublished,
   JobsAreWorkedOn, QuizzesAreRight, PTL
===========================================================================
