----------------------------- MODULE QuizStore -----------------------------
(***************************************************************************)
(* The quizzes of the quiz service and their published versions.           *)
(*                                                                         *)
(* Each handler reads the quiz in one statement, decides, and writes in    *)
(* another; nothing locks the row in between.  Publishing inserts a row in *)
(* quiz_versions and marks the quiz in one transaction, which the database *)
(* serialises with every other statement on the quiz.  A handler is        *)
(* dropped at any call when its client disconnects or the database fails.  *)
(***************************************************************************)
EXTENDS Naturals, FiniteSets, QuizNull

CONSTANTS
    Quiz,       \* quiz ids that may be drawn
    User,
    Content,    \* titles, descriptions and questions that pass validate_questions
    Request,    \* requests served at a time
    MaxVersion  \* bound: versions published of a quiz

ASSUME RequestAssumption == IsFiniteSet(Request)
ASSUME VersionAssumption == MaxVersion \in Nat

VARIABLES
    quizzes,  \* table quizzes: a row of each quiz, or None
    versions, \* table quiz_versions
    requests, \* what each request has read, or None
    created,  \* history: ids that were drawn
    answers,  \* history: what publish_quiz answered
    overlapped \* history: quizzes two requests worked on at a time

vars == <<quizzes, versions, requests, created, answers, overlapped>>

Row == [owner : User, content : Content, status : {"draft", "published"},
        published_version : Nat]
Version == [quiz : Quiz, version : Nat, content : Content]
\* row is what find_by_id returned, content what the client sends.
Pending == [op : {"update", "delete", "publish", "refresh"}, quiz : Quiz, row : Row,
            content : Content]
ASSUME NoneAssumption == None \notin Row /\ None \notin Pending
\* read is the content the handler published, shown the one in its answer.
Answer == [quiz : Quiz, version : Nat, read : Content, shown : Content]

Init ==
    /\ quizzes = [q \in Quiz |-> None]
    /\ versions = {} /\ created = {} /\ answers = {} /\ overlapped = {}
    /\ requests = [r \in Request |-> None]

Exists(q) == quizzes[q] # None
Ends(r) == requests' = [requests EXCEPT ![r] = None]

---------------------------------------------------------------------------
(* create_quiz: one statement.                                             *)

CreateQuiz(r, u, c) ==
    /\ requests[r] = None
    /\ \E q \in Quiz \ created :
        /\ quizzes' = [quizzes EXCEPT ![q] = [owner |-> u, content |-> c,
                           status |-> "draft", published_version |-> 0]]
        /\ created' = created \cup {q}
    /\ UNCHANGED <<versions, requests, answers, overlapped>>

---------------------------------------------------------------------------
(* find_by_id and the checks that follow it.                               *)

Reads(r, op, q, c) ==
    /\ requests[r] = None /\ Exists(q)
    /\ requests' = [requests EXCEPT ![r] =
                       [op |-> op, quiz |-> q, row |-> quizzes[q], content |-> c]]
    /\ overlapped' = IF \E s \in Request : requests[s] # None /\ requests[s].quiz = q
                      THEN overlapped \cup {q} ELSE overlapped
    /\ UNCHANGED <<quizzes, versions, created, answers>>

\* Mutant: a published quiz is edited in place.
AnyStatus(row) == TRUE
MayEdit(row) == row.status # "published"

UpdateQuiz(r, q, c) == Exists(q) /\ MayEdit(quizzes[q]) /\ Reads(r, "update", q, c)
DeleteQuiz(r, q, u) ==
    /\ Exists(q) /\ quizzes[q].owner = u
    /\ Reads(r, "delete", q, quizzes[q].content)
PublishQuiz(r, q, u) ==
    /\ Exists(q) /\ quizzes[q].owner = u
    /\ quizzes[q].published_version < MaxVersion
    /\ Reads(r, "publish", q, quizzes[q].content)

---------------------------------------------------------------------------
(* The statements that write.                                              *)

\* Mutant: the whole row that was read is written back.
WriteRow(now, read, c) == [read EXCEPT !.content = c]
\* UPDATE quizzes SET title, description, status, questions_json
SetColumns(now, read, c) == [now EXCEPT !.content = c, !.status = read.status]

\* No row is updated when the quiz is gone; the answer is the same.
WriteUpdate(r) ==
    LET p == requests[r]
    IN  /\ p # None /\ p.op = "update"
        /\ quizzes' = IF Exists(p.quiz)
                      THEN [quizzes EXCEPT ![p.quiz] = SetColumns(@, p.row, p.content)]
                      ELSE quizzes
        /\ Ends(r)
        /\ UNCHANGED <<versions, created, answers, overlapped>>

\* quiz_versions follow by ON DELETE CASCADE.
WriteDelete(r) ==
    LET p == requests[r]
    IN  /\ p # None /\ p.op = "delete"
        /\ quizzes' = [quizzes EXCEPT ![p.quiz] = None]
        /\ versions' = {v \in versions : v.quiz # p.quiz}
        /\ Ends(r)
        /\ UNCHANGED <<created, answers, overlapped>>

\* Mutant: quiz_versions has no UNIQUE (quiz_id, version).
NoConstraint(v) == Exists(v.quiz)
\* The foreign key and the unique constraint
Insertable(v) ==
    /\ Exists(v.quiz)
    /\ \A w \in versions : w.quiz # v.quiz \/ w.version # v.version

\* publish_snapshot commits, or violates a constraint and rolls back.
Snapshot(r) ==
    LET p == requests[r]
        v == [quiz |-> p.quiz, version |-> p.row.published_version + 1,
              content |-> p.row.content]
    IN  /\ p # None /\ p.op = "publish"
        /\ \/ /\ Insertable(v)
              /\ versions' = versions \cup {v}
              /\ quizzes' = [quizzes EXCEPT ![p.quiz].status = "published",
                                            ![p.quiz].published_version = v.version]
              /\ requests' = [requests EXCEPT ![r].op = "refresh"]
           \/ /\ ~ Insertable(v)
              /\ Ends(r)
              /\ UNCHANGED <<quizzes, versions>>
        /\ UNCHANGED <<created, answers, overlapped>>

\* The quiz is read again for the answer.
Refresh(r) ==
    LET p == requests[r]
    IN  /\ p # None /\ p.op = "refresh"
        /\ answers' = IF Exists(p.quiz)
                      THEN answers \cup
                           {[quiz |-> p.quiz, version |-> p.row.published_version + 1,
                             read |-> p.row.content, shown |-> quizzes[p.quiz].content]}
                      ELSE answers
        /\ Ends(r)
        /\ UNCHANGED <<quizzes, versions, created, overlapped>>

\* The handler's future is dropped, or its next statement fails.
Abandon(r) ==
    /\ requests[r] # None
    /\ Ends(r)
    /\ UNCHANGED <<quizzes, versions, created, answers, overlapped>>

\* The process ends, and all its handlers.
EndHandlers ==
    /\ requests' = [r \in Request |-> None]
    /\ UNCHANGED <<quizzes, versions, created, answers, overlapped>>

---------------------------------------------------------------------------
Handler(r) ==
    \/ \E u \in User, c \in Content : CreateQuiz(r, u, c)
    \/ \E q \in Quiz, c \in Content : UpdateQuiz(r, q, c)
    \/ \E q \in Quiz, u \in User : DeleteQuiz(r, q, u) \/ PublishQuiz(r, q, u)
    \/ WriteUpdate(r) \/ WriteDelete(r) \/ Snapshot(r) \/ Refresh(r) \/ Abandon(r)

Next == EndHandlers \/ \E r \in Request : Handler(r)
Spec == Init /\ [][Next]_vars

---------------------------------------------------------------------------
(* Properties.                                                             *)

TypeOK ==
    /\ quizzes \in [Quiz -> Row \cup {None}]
    /\ versions \subseteq Version
    /\ requests \in [Request -> Pending \cup {None}]
    /\ created \subseteq Quiz
    /\ answers \subseteq Answer
    /\ overlapped \subseteq Quiz

VersionsOf(q) == {v \in versions : v.quiz = q}

\* The versions of a quiz are 1 .. published_version, one row each, however
\* its publications, edits and deletion overlap; a deleted quiz has none.
VersionsConsecutive ==
    \A q \in Quiz :
        LET n == IF Exists(q) THEN quizzes[q].published_version ELSE 0
        IN  /\ {v.version : v \in VersionsOf(q)} = 1 .. n
            /\ \A v, w \in VersionsOf(q) : v.version = w.version => v = w

Contents(q, n) == {v.content : v \in {w \in VersionsOf(q) : w.version = n}}

\* The version publish_quiz answered holds what its handler had read, as
\* long as the quiz exists: no other publication took the number.
AnsweredVersionHolds ==
    \A a \in answers :
        Exists(a.quiz) => Contents(a.quiz, a.version) = {a.read}

\* As long as no two requests worked on it at a time, a published quiz is
\* what its latest version says, and its publisher was shown nothing else.
PublishedAsShown ==
    \A q \in Quiz \ overlapped :
        /\ Exists(q) /\ quizzes[q].status = "published" =>
               Contents(q, quizzes[q].published_version) = {quizzes[q].content}
        /\ \A a \in answers : a.quiz = q => a.shown = a.read

\* A published quiz is immutable: only deleting it changes what it says or
\* makes it a draft again.
PublishedIsImmutable ==
    [][\A q \in Quiz :
          Exists(q) /\ quizzes[q].status = "published" =>
              \/ ~ Exists(q)'
              \/ /\ quizzes'[q].status = "published"
                 /\ quizzes'[q].content = quizzes[q].content]_vars
===========================================================================
