-------------------------- MODULE QuizStoreProofs --------------------------
(***************************************************************************)
(* Proofs about QuizStore: types, the numbering of versions, what the      *)
(* answers of publish_quiz promise, and quizzes edited by one at a time.   *)
(***************************************************************************)
EXTENDS QuizStore, TLAPS

---------------------------------------------------------------------------
(* The inductive invariant.                                                *)

\* Ids are drawn once: rows, versions, requests and answers name drawn ids.
Known ==
    /\ \A q \in Quiz : Exists(q) => q \in created
    /\ \A r \in Request : requests[r] # None => requests[r].quiz \in created
    /\ \A a \in answers : a.quiz \in created

\* The number a request has read is never ahead of the row.
PastRead(r) ==
    requests[r] # None /\ Exists(requests[r].quiz) =>
        requests[r].row.published_version <= quizzes[requests[r].quiz].published_version

\* A publication that committed finds its content under its number.
Committed(r) ==
    requests[r] # None /\ requests[r].op = "refresh" /\ Exists(requests[r].quiz) =>
        Contents(requests[r].quiz, requests[r].row.published_version + 1)
            = {requests[r].row.content}

ReadsArePast == \A r \in Request : PastRead(r)
CommittedHolds == \A r \in Request : Committed(r)

IInv ==
    TypeOK /\ VersionsConsecutive /\ AnsweredVersionHolds /\ Known /\ ReadsArePast
    /\ CommittedHolds

---------------------------------------------------------------------------
(* Types.                                                                  *)

\* The tables are empty at first.
LEMMA InitTypes == Init => TypeOK
  BY DEF Init, TypeOK

\* A request that starts remembers a row of the table.
LEMMA ReadsTypes ==
  ASSUME TypeOK, NEW r \in Request, NEW op \in {"update", "delete", "publish"},
         NEW q \in Quiz, NEW c \in Content, Reads(r, op, q, c)
  PROVE  TypeOK'
<1>1. quizzes[q] \in Row  BY DEF TypeOK, Reads, Exists
<1>2. [op |-> op, quiz |-> q, row |-> quizzes[q], content |-> c] \in Pending
  BY <1>1 DEF Pending
<1>3. requests' \in [Request -> Pending \cup {None}]  BY <1>2 DEF TypeOK, Reads
<1> QED  BY <1>3 DEF TypeOK, Reads

\* Every step keeps the types.
LEMMA NextTypes == TypeOK /\ [Next]_vars => TypeOK'
<1> SUFFICES ASSUME TypeOK, [Next]_vars PROVE TypeOK'  OBVIOUS
<1>0. CASE UNCHANGED vars  BY <1>0 DEF TypeOK, vars
<1>1. ASSUME NEW r \in Request, NEW u \in User, NEW c \in Content, CreateQuiz(r, u, c)
      PROVE  TypeOK'
  <2>1. [owner |-> u, content |-> c, status |-> "draft", published_version |-> 0] \in Row
    BY DEF Row
  <2> QED  BY <1>1, <2>1 DEF TypeOK, CreateQuiz
<1>2. ASSUME NEW r \in Request, NEW q \in Quiz, NEW c \in Content, UpdateQuiz(r, q, c)
      PROVE  TypeOK'
  BY <1>2, ReadsTypes DEF UpdateQuiz
<1>3. ASSUME NEW r \in Request, NEW q \in Quiz, NEW u \in User,
             DeleteQuiz(r, q, u) \/ PublishQuiz(r, q, u)
      PROVE  TypeOK'
  <2>1. quizzes[q] \in Row /\ quizzes[q].content \in Content
    BY <1>3 DEF TypeOK, DeleteQuiz, PublishQuiz, Exists, Row
  <2> QED  BY <1>3, <2>1, ReadsTypes DEF DeleteQuiz, PublishQuiz
<1>4. ASSUME NEW r \in Request, requests[r] # None PROVE requests[r] \in Pending
  BY <1>4 DEF TypeOK
<1>5. ASSUME NEW r \in Request, WriteUpdate(r) PROVE TypeOK'
  <2>1. requests[r] \in Pending  BY <1>4, <1>5 DEF WriteUpdate
  <2> DEFINE p == requests[r]
  <2>2. p.quiz \in Quiz /\ p.row \in Row /\ p.content \in Content  BY <2>1 DEF Pending
  <2>3. Exists(p.quiz) => SetColumns(quizzes[p.quiz], p.row, p.content) \in Row
    BY <2>2 DEF TypeOK, Exists, SetColumns, Row
  <2> QED  BY <1>5, <2>2, <2>3 DEF TypeOK, WriteUpdate, Ends
<1>6. ASSUME NEW r \in Request, WriteDelete(r) PROVE TypeOK'
  BY <1>6 DEF TypeOK, WriteDelete, Ends
<1>7. ASSUME NEW r \in Request, Snapshot(r) PROVE TypeOK'
  <2>1. requests[r] \in Pending  BY <1>4, <1>7 DEF Snapshot
  <2> DEFINE p == requests[r]
             v == [quiz |-> p.quiz, version |-> p.row.published_version + 1,
                   content |-> p.row.content]
  <2>2. p.quiz \in Quiz /\ p.row \in Row  BY <2>1 DEF Pending
  <2>3. v \in Version  BY <2>2 DEF Version, Row
  <2>4. CASE ~ Insertable(v)  BY <1>7, <2>4 DEF TypeOK, Snapshot, Ends
  <2>5. CASE Insertable(v)
    <3>1. quizzes[p.quiz] \in Row  BY <2>2, <2>5 DEF TypeOK, Insertable, Exists
    <3>2. [quizzes[p.quiz] EXCEPT !.status = "published", !.published_version = v.version]
              \in Row
      BY <3>1, <2>3 DEF Row, Version
    <3>3. quizzes' = [quizzes EXCEPT ![p.quiz] =
                         [@ EXCEPT !.status = "published", !.published_version = v.version]]
      BY <1>7, <2>2, <2>5, <3>1 DEF Snapshot, TypeOK, Row
    <3>4. quizzes' \in [Quiz -> Row \cup {None}]  BY <3>2, <3>3, <2>2 DEF TypeOK
    <3>5. [p EXCEPT !.op = "refresh"] \in Pending  BY <2>1 DEF Pending
    <3>6. requests' \in [Request -> Pending \cup {None}]
      BY <1>7, <2>5, <3>5 DEF Snapshot, TypeOK
    <3> QED  BY <1>7, <2>3, <2>5, <3>4, <3>6 DEF TypeOK, Snapshot
  <2> QED  BY <2>4, <2>5
<1>8. ASSUME NEW r \in Request, Refresh(r) PROVE TypeOK'
  <2>1. requests[r] \in Pending  BY <1>4, <1>8 DEF Refresh
  <2> DEFINE p == requests[r]
  <2>2. p.quiz \in Quiz /\ p.row \in Row  BY <2>1 DEF Pending
  <2>3. Exists(p.quiz) => quizzes[p.quiz].content \in Content
    BY <2>2 DEF TypeOK, Exists, Row
  <2>4. answers' \subseteq Answer
    BY <1>8, <2>2, <2>3 DEF TypeOK, Refresh, Answer, Row
  <2> QED  BY <1>8, <2>4 DEF TypeOK, Refresh, Ends
<1>9. ASSUME NEW r \in Request, Abandon(r) PROVE TypeOK'
  BY <1>9 DEF TypeOK, Abandon, Ends
<1>10. CASE EndHandlers
  BY <1>10 DEF TypeOK, EndHandlers
<1> QED
  BY <1>0, <1>1, <1>2, <1>3, <1>5, <1>6, <1>7, <1>8, <1>9, <1>10 DEF Next, Handler

\* Every state has its types.
THEOREM TypeCorrect == Spec => []TypeOK
  BY InitTypes, NextTypes, PTL DEF Spec

---------------------------------------------------------------------------
(* Numbers and contents.                                                   *)

\* The invariant holds before any quiz exists.
LEMMA InitInv == Init => IInv
  BY InitTypes
  DEF Init, IInv, VersionsConsecutive, AnsweredVersionHolds, Known, ReadsArePast,
      CommittedHolds, PastRead, Committed, VersionsOf, Exists

\* A step that leaves versions alone and no quiz with another number.
Quiet ==
    /\ versions' = versions
    /\ \A q \in Quiz : Exists(q) => Exists(q)'
    /\ \A q \in Quiz : Exists(q)' =>
           \/ /\ Exists(q)
              /\ quizzes'[q].published_version = quizzes[q].published_version
           \/ /\ q \notin created
              /\ quizzes'[q].published_version = 0

\* A quiet step leaves the numbering as it is.
LEMMA QuietNumbers ==
  ASSUME IInv, Quiet PROVE VersionsConsecutive'
<1> SUFFICES ASSUME NEW q \in Quiz
             PROVE  LET n == IF Exists(q)' THEN quizzes'[q].published_version ELSE 0
                    IN  /\ {v.version : v \in VersionsOf(q)'} = 1 .. n
                        /\ \A v, w \in VersionsOf(q)' : v.version = w.version => v = w
  BY DEF VersionsConsecutive
<1>1. VersionsOf(q)' = VersionsOf(q)  BY DEF Quiet, VersionsOf
<1>2. (IF Exists(q)' THEN quizzes'[q].published_version ELSE 0)
          = (IF Exists(q) THEN quizzes[q].published_version ELSE 0)
  BY DEF Quiet, IInv, Known
<1> QED  BY <1>1, <1>2 DEF IInv, VersionsConsecutive

\* Contents of a number, and the quizzes that existed, after a quiet step.
LEMMA QuietContents ==
  ASSUME IInv, Quiet, NEW q \in created, Exists(q)'
  PROVE  Exists(q) /\ \A n \in Nat : Contents(q, n)' = Contents(q, n)
<1>1. q \in Quiz  BY DEF IInv, TypeOK
<1>2. Exists(q)  BY <1>1 DEF Quiet
<1> QED  BY <1>2 DEF Quiet, Contents, VersionsOf

\* And what answered versions hold.
LEMMA QuietAnswers ==
  ASSUME IInv, Quiet, answers' = answers PROVE AnsweredVersionHolds'
<1> SUFFICES ASSUME NEW a \in answers, Exists(a.quiz)'
             PROVE  Contents(a.quiz, a.version)' = {a.read}
  BY DEF AnsweredVersionHolds
<1>1. a.quiz \in created /\ a.version \in Nat  BY DEF IInv, Known, TypeOK, Answer
<1> QED  BY <1>1, QuietContents DEF IInv, AnsweredVersionHolds

\* The request keeps what it has read, or has just ended.
Remains(r) == requests'[r] = requests[r] \/ requests'[r] = None

\* What a request that goes on has read.
LEMMA Going ==
  ASSUME IInv, NEW r \in Request, Remains(r), requests'[r] # None
  PROVE  \E p \in Pending : /\ requests[r] = p /\ requests'[r] = p
                            /\ p.quiz \in Quiz /\ p.quiz \in created
                            /\ p.row.published_version \in Nat
  BY DEF Remains, IInv, TypeOK, Known, Pending, Row

\* A request that goes on stays behind the row.
LEMMA QuietReads ==
  ASSUME IInv, Quiet, NEW r \in Request, Remains(r)
  PROVE  PastRead(r)'
<1>1. CASE requests'[r] = None  BY <1>1 DEF PastRead
<1>2. CASE requests'[r] # None
  <2>1. PICK p \in Pending : /\ requests[r] = p /\ requests'[r] = p
                             /\ p.quiz \in Quiz /\ p.quiz \in created
    BY <1>2, Going
  <2>2. PastRead(r)  BY DEF IInv, ReadsArePast
  <2> QED  BY <1>2, <2>1, <2>2 DEF Quiet, PastRead, Exists
<1> QED  BY <1>1, <1>2

\* And a committed publication keeps its version.
LEMMA QuietCommitted ==
  ASSUME IInv, Quiet, NEW r \in Request, Remains(r)
  PROVE  Committed(r)'
<1>1. CASE requests'[r] = None  BY <1>1 DEF Committed
<1>2. CASE requests'[r] # None
  <2>1. PICK p \in Pending : /\ requests[r] = p /\ requests'[r] = p
                             /\ p.quiz \in Quiz /\ p.quiz \in created
                             /\ p.row.published_version \in Nat
    BY <1>2, Going
  <2>2. Committed(r)  BY DEF IInv, CommittedHolds
  <2>3. Exists(p.quiz)' => /\ Exists(p.quiz)
                           /\ Contents(p.quiz, p.row.published_version + 1)'
                              = Contents(p.quiz, p.row.published_version + 1)
    BY <2>1, QuietContents
  <2> QED  BY <1>2, <2>1, <2>2, <2>3 DEF Committed, Exists, Contents, VersionsOf
<1> QED  BY <1>1, <1>2

\* What most steps have in common.
LEMMA QuietStep ==
  ASSUME IInv, TypeOK', Quiet, answers' = answers, Known', \A r \in Request : Remains(r)
  PROVE  IInv'
  BY QuietNumbers, QuietAnswers, QuietReads, QuietCommitted
  DEF IInv, ReadsArePast, CommittedHolds

\* create_quiz draws an id that nothing names.
LEMMA CreateStep ==
  ASSUME IInv, TypeOK', NEW r \in Request, NEW u \in User, NEW c \in Content,
         CreateQuiz(r, u, c)
  PROVE  IInv'
<1> PICK q \in Quiz \ created :
        /\ quizzes' = [quizzes EXCEPT ![q] = [owner |-> u, content |-> c,
                           status |-> "draft", published_version |-> 0]]
        /\ created' = created \cup {q}
  BY DEF CreateQuiz
<1>1. Quiet  BY NoneAssumption DEF CreateQuiz, Quiet, Exists, IInv, TypeOK, Row
<1>2. Known'  BY DEF CreateQuiz, IInv, Known, TypeOK, Exists
<1>3. \A s \in Request : Remains(s)  BY DEF CreateQuiz, Remains
<1> QED  BY <1>1, <1>2, <1>3, QuietStep DEF CreateQuiz

\* What a request reads now is no number ahead.
LEMMA ReadsStep ==
  ASSUME IInv, TypeOK', NEW r \in Request, NEW op \in {"update", "delete", "publish"},
         NEW q \in Quiz, NEW c \in Content, Reads(r, op, q, c)
  PROVE  IInv'
<1>1. Quiet  BY DEF Reads, Quiet, Exists
<1>2. requests'[r] = [op |-> op, quiz |-> q, row |-> quizzes[q], content |-> c]
  BY DEF Reads, IInv, TypeOK
<1>3. \A s \in Request \ {r} : Remains(s)  BY DEF Reads, Remains, IInv, TypeOK
<1>4. Known'  BY <1>2, <1>3 DEF Reads, IInv, Known, Remains, Exists
<1>5. ReadsArePast'
  <2>1. quizzes[q].published_version \in Nat
    BY DEF Reads, Exists, IInv, TypeOK, Row
  <2>2. PastRead(r)'  BY <1>2, <2>1 DEF Reads, PastRead
  <2> QED  BY <1>1, <1>3, <2>2, QuietReads DEF ReadsArePast
<1>6. CommittedHolds'
  <2>1. Committed(r)'  BY <1>2 DEF Committed
  <2> QED  BY <1>1, <1>3, <2>1, QuietCommitted DEF CommittedHolds
<1> QED  BY <1>1, <1>4, <1>5, <1>6, QuietNumbers, QuietAnswers DEF IInv, Reads

\* SET leaves published_version alone.
LEMMA UpdateStep ==
  ASSUME IInv, TypeOK', NEW r \in Request, WriteUpdate(r)
  PROVE  IInv'
<1> DEFINE p == requests[r]
<1>1. p \in Pending  BY DEF WriteUpdate, IInv, TypeOK
<1>2. p.quiz \in Quiz  BY <1>1 DEF Pending
<1>3. Exists(p.quiz) => /\ SetColumns(quizzes[p.quiz], p.row, p.content) \in Row
                        /\ SetColumns(quizzes[p.quiz], p.row, p.content).published_version
                           = quizzes[p.quiz].published_version
  BY <1>1, <1>2 DEF IInv, TypeOK, Exists, SetColumns, Row, Pending
<1>4. \A q \in Quiz : quizzes'[q] = IF Exists(p.quiz) /\ q = p.quiz
                                   THEN SetColumns(quizzes[q], p.row, p.content)
                                   ELSE quizzes[q]
  BY <1>2 DEF WriteUpdate, IInv, TypeOK
<1>5. \A q \in Quiz : Exists(q)' <=> Exists(q)
  BY <1>3, <1>4, NoneAssumption DEF Exists
<1>6. Quiet
  BY <1>3, <1>4, <1>5 DEF Quiet, WriteUpdate
<1>7. \A s \in Request : Remains(s)  BY DEF WriteUpdate, Ends, Remains, IInv, TypeOK
<1>8. Known'  BY <1>5, <1>7 DEF WriteUpdate, IInv, Known, Remains
<1> QED  BY <1>6, <1>7, <1>8, QuietStep DEF WriteUpdate

\* A dropped handler changes no table.
LEMMA AbandonStep ==
  ASSUME IInv, TypeOK', NEW r \in Request, Abandon(r)
  PROVE  IInv'
<1>1. Quiet  BY DEF Abandon, Quiet, Exists
<1>2. \A s \in Request : Remains(s)  BY DEF Abandon, Ends, Remains, IInv, TypeOK
<1>3. Known'  BY <1>2 DEF Abandon, IInv, Known, Remains, Exists
<1> QED  BY <1>1, <1>2, <1>3, QuietStep DEF Abandon

\* Nor do all of them.
LEMMA EndStep ==
  ASSUME IInv, TypeOK', EndHandlers
  PROVE  IInv'
<1>1. Quiet  BY DEF EndHandlers, Quiet, Exists
<1>2. \A s \in Request : Remains(s)  BY DEF EndHandlers, Remains
<1>3. Known'  BY <1>2 DEF EndHandlers, IInv, Known, Remains, Exists
<1> QED  BY <1>1, <1>2, <1>3, QuietStep DEF EndHandlers

\* The answer names the version that was committed.
LEMMA RefreshStep ==
  ASSUME IInv, TypeOK', NEW r \in Request, Refresh(r)
  PROVE  IInv'
<1> DEFINE p == requests[r]
<1>1. Quiet  BY DEF Refresh, Quiet, Exists
<1>2. \A s \in Request : Remains(s)  BY DEF Refresh, Ends, Remains, IInv, TypeOK
<1>3. \A a \in answers' : a \notin answers =>
          /\ a.quiz = p.quiz /\ Exists(p.quiz)
          /\ a.version = p.row.published_version + 1 /\ a.read = p.row.content
  BY DEF Refresh
<1>4. Known'  BY <1>2, <1>3 DEF Refresh, IInv, Known, Remains, Exists
<1>5. AnsweredVersionHolds'
  <2> SUFFICES ASSUME NEW a \in answers', Exists(a.quiz)'
               PROVE  Contents(a.quiz, a.version)' = {a.read}
    BY DEF AnsweredVersionHolds
  <2>1. Contents(a.quiz, a.version)' = Contents(a.quiz, a.version)
        /\ Exists(a.quiz)
    BY DEF Refresh, Contents, VersionsOf, Exists
  <2>2. CASE a \in answers  BY <2>1, <2>2 DEF IInv, AnsweredVersionHolds
  <2>3. CASE a \notin answers
    <3>1. p # None /\ p.op = "refresh"  BY DEF Refresh
    <3> QED  BY <1>3, <2>1, <2>3, <3>1 DEF IInv, CommittedHolds, Committed
  <2> QED  BY <2>2, <2>3
<1>6. ReadsArePast' /\ CommittedHolds'
  BY <1>1, <1>2, QuietReads, QuietCommitted DEF ReadsArePast, CommittedHolds
<1> QED  BY <1>1, <1>4, <1>5, <1>6, QuietNumbers DEF IInv

\* The cascade takes the versions of the deleted quiz and no other.
LEMMA DeleteStep ==
  ASSUME IInv, TypeOK', NEW r \in Request, WriteDelete(r)
  PROVE  IInv'
<1>1. PICK d \in Quiz : requests[r].quiz = d  BY DEF WriteDelete, IInv, TypeOK, Pending
<1>2. /\ quizzes' = [quizzes EXCEPT ![d] = None]
      /\ versions' = {v \in versions : v.quiz # d}
      /\ created' = created /\ answers' = answers
  BY <1>1 DEF WriteDelete
<1>3. ~ Exists(d)' /\ VersionsOf(d)' = {}
  BY <1>1, <1>2 DEF Exists, VersionsOf, IInv, TypeOK
<1>4. ASSUME NEW q, q # d
      PROVE  /\ VersionsOf(q)' = VersionsOf(q)
             /\ \A n : Contents(q, n)' = Contents(q, n)
  BY <1>2, <1>4 DEF VersionsOf, Contents
<1>5. ASSUME NEW q \in Quiz, q # d PROVE quizzes'[q] = quizzes[q]
  BY <1>2, <1>5 DEF IInv, TypeOK
<1>6. \A s \in Request : Remains(s)  BY DEF WriteDelete, Ends, Remains, IInv, TypeOK
<1>7. VersionsConsecutive'
  <2> SUFFICES ASSUME NEW q \in Quiz
               PROVE  LET n == IF Exists(q)' THEN quizzes'[q].published_version ELSE 0
                      IN  /\ {v.version : v \in VersionsOf(q)'} = 1 .. n
                          /\ \A v, w \in VersionsOf(q)' : v.version = w.version => v = w
    BY DEF VersionsConsecutive
  <2>1. CASE q = d  BY <1>3, <2>1
  <2>2. CASE q # d  BY <1>4, <1>5, <2>2 DEF IInv, VersionsConsecutive, Exists
  <2> QED  BY <2>1, <2>2
<1>8. \A q \in created : Exists(q)' => q \in Quiz /\ q # d /\ Exists(q)
  BY <1>3, <1>5 DEF Exists, IInv, TypeOK
<1>9. AnsweredVersionHolds'
  <2> SUFFICES ASSUME NEW a \in answers, Exists(a.quiz)'
               PROVE  Contents(a.quiz, a.version)' = {a.read}
    BY <1>2 DEF AnsweredVersionHolds
  <2>1. a.quiz # d /\ Exists(a.quiz)  BY <1>8 DEF IInv, Known
  <2> QED  BY <1>4, <2>1 DEF IInv, AnsweredVersionHolds
<1>10. Known'  BY <1>2, <1>3, <1>5, <1>6 DEF IInv, Known, Remains, Exists
<1>11. ASSUME NEW s \in Request, requests'[s] # None
       PROVE  PastRead(s)' /\ Committed(s)'
  <2>1. PICK p \in Pending : /\ requests[s] = p /\ requests'[s] = p
                             /\ p.quiz \in Quiz /\ p.quiz \in created
    BY <1>6, <1>11, Going
  <2>2. PastRead(s) /\ Committed(s)  BY DEF IInv, ReadsArePast, CommittedHolds
  <2>3. CASE p.quiz = d  BY <1>3, <2>1, <2>3 DEF PastRead, Committed, Exists
  <2>4. CASE p.quiz # d
    <3>1. quizzes'[p.quiz] = quizzes[p.quiz]
          /\ Contents(p.quiz, p.row.published_version + 1)'
             = Contents(p.quiz, p.row.published_version + 1)
      BY <1>4, <1>5, <2>1, <2>4
    <3>2. PastRead(s)'  BY <1>11, <2>1, <2>2, <3>1 DEF PastRead, Exists
    <3>3. Committed(s)'
      BY <1>11, <2>1, <2>2, <3>1 DEF Committed, Exists, Contents, VersionsOf
    <3> QED  BY <3>2, <3>3
  <2> QED  BY <2>3, <2>4
<1>12. ReadsArePast' /\ CommittedHolds'
  BY <1>11 DEF ReadsArePast, CommittedHolds, PastRead, Committed
<1> QED  BY <1>7, <1>9, <1>10, <1>12 DEF IInv

\* The constraint lets only the next number in.
LEMMA SnapshotStep ==
  ASSUME IInv, TypeOK', NEW r \in Request, Snapshot(r)
  PROVE  IInv'
<1>0. PICK p \in Pending : requests[r] = p  BY DEF Snapshot, IInv, TypeOK
<1> DEFINE q == p.quiz
           n == p.row.published_version + 1
           v == [quiz |-> q, version |-> n, content |-> p.row.content]
<1>1. p \in Pending /\ q \in Quiz /\ n \in Nat /\ p.row.published_version \in Nat
  BY <1>0 DEF Pending, Row
<1>2. CASE ~ Insertable(v)
  <2>1. Quiet  BY <1>0, <1>2 DEF Snapshot, Quiet, Exists
  <2>2. \A s \in Request : Remains(s)  BY <1>0, <1>2 DEF Snapshot, Ends, Remains, IInv, TypeOK
  <2>3. Known'  BY <1>0, <1>2, <2>2 DEF Snapshot, IInv, Known, Remains, Exists
  <2> QED  BY <2>1, <2>2, <2>3, <1>0, <1>2, QuietStep DEF Snapshot
<1>3. CASE Insertable(v)
  <2>1. versions' = versions \cup {v} /\ created' = created /\ answers' = answers
    BY <1>0, <1>3 DEF Snapshot
  <2>2. Exists(q) /\ quizzes[q] \in Row
    BY <1>1, <1>3 DEF Insertable, Exists, IInv, TypeOK
  <2>3. \A x \in Quiz : quizzes'[x] = IF x = q
              THEN [quizzes[q] EXCEPT !.status = "published", !.published_version = n]
              ELSE quizzes[x]
    BY <1>0, <1>1, <1>3, <2>2 DEF Snapshot, IInv, TypeOK, Row
  <2>4. /\ Exists(q)' /\ quizzes'[q].published_version = n
        /\ \A x \in Quiz : Exists(x)' <=> Exists(x)
    <3>1. [quizzes[q] EXCEPT !.status = "published", !.published_version = n] \in Row
      BY <1>1, <2>2 DEF Row
    <3>2. [quizzes[q] EXCEPT !.status = "published", !.published_version = n]
              .published_version = n
      BY <2>2 DEF Row
    <3> QED  BY <1>1, <2>2, <2>3, <3>1, <3>2, NoneAssumption DEF Exists
  <2>5. quizzes[q].published_version = p.row.published_version
    <3> DEFINE k == quizzes[q].published_version
    <3>1. k \in Nat /\ {w.version : w \in VersionsOf(q)} = 1 .. k
      BY <1>1, <2>2 DEF IInv, VersionsConsecutive, Row
    <3>2. p.row.published_version <= k
      BY <1>0, <2>2 DEF Snapshot, IInv, ReadsArePast, PastRead
    <3>3. n \notin 1 .. k
      BY <3>1, <1>3 DEF Insertable, VersionsOf
    <3> QED  BY <1>1, <3>1, <3>2, <3>3
  <2>6. VersionsOf(q)' = VersionsOf(q) \cup {v}
        /\ \A x : x # q => VersionsOf(x)' = VersionsOf(x)
    BY <2>1 DEF VersionsOf
  <2>7. \A w \in VersionsOf(q) : w.version # n
    BY <1>3 DEF Insertable, VersionsOf
  <2>8. \A x : \A m : x # q \/ m # n => Contents(x, m)' = Contents(x, m)
    BY <2>6 DEF Contents
  <2>9. Contents(q, n)' = {p.row.content}
    <3>1. {w \in VersionsOf(q)' : w.version = n} = {v}  BY <2>6, <2>7
    <3>2. Contents(q, n)' = {w.content : w \in {v}}  BY <3>1 DEF Contents
    <3> QED  BY <3>2
  <2>10. Contents(q, n) = {}
    <3>1. {w \in VersionsOf(q) : w.version = n} = {}  BY <2>7
    <3> QED  BY <3>1 DEF Contents
  <2>11. \A s \in Request \ {r} : requests'[s] = requests[s]
    BY <1>0, <1>3 DEF Snapshot, IInv, TypeOK
  <2>12. requests'[r] = [p EXCEPT !.op = "refresh"]
    BY <1>0, <1>3 DEF Snapshot, IInv, TypeOK
  <2>13. requests'[r].quiz = q /\ requests'[r].row = p.row
    BY <1>1, <2>12 DEF Pending
  <2>14. VersionsConsecutive'
    <3> SUFFICES ASSUME NEW x \in Quiz
                 PROVE  LET m == IF Exists(x)' THEN quizzes'[x].published_version ELSE 0
                        IN  /\ {w.version : w \in VersionsOf(x)'} = 1 .. m
                            /\ \A w, y \in VersionsOf(x)' : w.version = y.version => w = y
      BY DEF VersionsConsecutive
    <3>1. CASE x # q
      BY <2>3, <2>4, <2>6, <3>1 DEF IInv, VersionsConsecutive
    <3>2. CASE x = q
      <4>1. {w.version : w \in VersionsOf(q)} = 1 .. p.row.published_version
            /\ \A w, y \in VersionsOf(q) : w.version = y.version => w = y
        BY <1>1, <2>2, <2>5 DEF IInv, VersionsConsecutive
      <4>2. {w.version : w \in VersionsOf(q)'} = {w.version : w \in VersionsOf(q)} \cup {n}
        <5>1. v.version = n  OBVIOUS
        <5> HIDE DEF v
        <5> QED  BY <2>6, <5>1
      <4>3. (1 .. p.row.published_version) \cup {n} = 1 .. n  BY <1>1
      <4>4. \A w, y \in VersionsOf(q)' : w.version = y.version => w = y
        BY <2>6, <2>7, <4>1
      <4> QED  BY <2>4, <3>2, <4>1, <4>2, <4>3, <4>4
    <3> QED  BY <3>1, <3>2
  <2>15. AnsweredVersionHolds'
    <3> SUFFICES ASSUME NEW a \in answers, Exists(a.quiz)'
                 PROVE  Contents(a.quiz, a.version)' = {a.read}
      BY <2>1 DEF AnsweredVersionHolds
    <3>1. a.quiz \in Quiz  BY DEF IInv, TypeOK, Answer
    <3>2. Contents(a.quiz, a.version) = {a.read}
      BY <2>4, <3>1 DEF IInv, AnsweredVersionHolds
    <3>3. a.quiz # q \/ a.version # n  BY <2>10, <3>2
    <3> QED  BY <2>8, <3>2, <3>3
  <2>16. Known'
    <3>1. \A x \in Quiz : Exists(x)' => x \in created'  BY <2>1, <2>4 DEF IInv, Known
    <3>2. \A s \in Request : requests'[s] # None => requests'[s].quiz \in created'
      BY <1>0, <2>1, <2>11, <2>13 DEF IInv, Known, Snapshot
    <3> QED  BY <2>1, <3>1, <3>2 DEF IInv, Known
  <2>17. PastRead(r)'
    BY <1>1, <2>4, <2>13 DEF PastRead
  <2>18. Committed(r)'
    BY <1>1, <2>9, <2>13 DEF Committed, Contents, VersionsOf
  <2>19. ASSUME NEW s \in Request \ {r}, requests'[s] # None
         PROVE  PastRead(s)' /\ Committed(s)'
    <3>1. PICK o \in Pending : requests[s] = o /\ requests'[s] = o
      BY <2>11, <2>19 DEF IInv, TypeOK
    <3>2. o.quiz \in Quiz /\ o.row.published_version \in Nat  BY <3>1 DEF Pending, Row
    <3>3. PastRead(s) /\ Committed(s)  BY DEF IInv, ReadsArePast, CommittedHolds
    <3>4. PastRead(s)'
      <4>1. CASE o.quiz = q
        BY <1>1, <2>2, <2>4, <2>5, <2>19, <3>1, <3>2, <3>3, <4>1 DEF PastRead, Row
      <4>2. CASE o.quiz # q
        BY <2>3, <2>19, <3>1, <3>2, <3>3, <4>2 DEF PastRead, Exists
      <4> QED  BY <4>1, <4>2
    <3>5. Committed(s)'
      <4> SUFFICES ASSUME o.op = "refresh", Exists(o.quiz)'
                   PROVE  Contents(o.quiz, o.row.published_version + 1)' = {o.row.content}
        BY <3>1 DEF Committed, Exists, Contents, VersionsOf
      <4>1. Contents(o.quiz, o.row.published_version + 1) = {o.row.content}
        BY <2>4, <2>19, <3>1, <3>2, <3>3 DEF Committed
      <4>2. o.quiz # q \/ o.row.published_version + 1 # n  BY <2>10, <4>1
      <4> QED  BY <2>8, <4>1, <4>2
    <3> QED  BY <3>4, <3>5
  <2>20. ReadsArePast' /\ CommittedHolds'
    BY <2>17, <2>18, <2>19 DEF ReadsArePast, CommittedHolds, PastRead, Committed
  <2> QED  BY <2>14, <2>15, <2>16, <2>20 DEF IInv
<1> QED  BY <1>2, <1>3

\* Every step keeps the invariant.
LEMMA NextInv == IInv /\ [Next]_vars => IInv'
<1> SUFFICES ASSUME IInv, [Next]_vars PROVE IInv'  OBVIOUS
<1>0. TypeOK'  BY NextTypes DEF IInv
<1>1. CASE UNCHANGED vars
  BY <1>0, <1>1 DEF vars, IInv, VersionsConsecutive, AnsweredVersionHolds, Known,
     ReadsArePast, CommittedHolds, PastRead, Committed, VersionsOf, Contents, Exists
<1>2. ASSUME NEW r \in Request, NEW q \in Quiz, NEW u \in User,
             DeleteQuiz(r, q, u) \/ PublishQuiz(r, q, u)
      PROVE  IInv'
  <2>1. quizzes[q].content \in Content
    BY <1>2 DEF IInv, TypeOK, DeleteQuiz, PublishQuiz, Exists, Row
  <2> QED  BY <1>0, <1>2, <2>1, ReadsStep DEF DeleteQuiz, PublishQuiz
<1>3. ASSUME NEW r \in Request, NEW q \in Quiz, NEW c \in Content, UpdateQuiz(r, q, c)
      PROVE  IInv'
  BY <1>0, <1>3, ReadsStep DEF UpdateQuiz
<1> QED
  BY <1>0, <1>1, <1>2, <1>3, CreateStep, UpdateStep, DeleteStep, SnapshotStep, RefreshStep,
     AbandonStep, EndStep DEF Next, Handler

\* However many requests overlap and wherever they are dropped, the versions
\* of a quiz are 1 .. published_version with one row each, because the number
\* a publication read is never ahead of the row and the constraint refuses
\* the numbers behind it.
THEOREM VersionsStayConsecutive == Spec => []VersionsConsecutive
  BY InitInv, NextInv, PTL DEF Spec, IInv

\* And no other publication ever takes the number an answer named.
THEOREM AnswersHold == Spec => []AnsweredVersionHolds
  BY InitInv, NextInv, PTL DEF Spec, IInv

---------------------------------------------------------------------------
(* Quizzes that one request at a time works on.                            *)

Works(r, q) == requests[r] # None /\ requests[r].quiz = q

\* What the only request on a quiz has read is still what the row says.
Alone(q) ==
    /\ \A r, s \in Request : Works(r, q) /\ Works(s, q) => r = s
    /\ \A r \in Request : Works(r, q) =>
           /\ Exists(q)
           /\ requests[r].row.content = quizzes[q].content
           /\ requests[r].op # "refresh" => requests[r].row = quizzes[q]
           /\ requests[r].op = "update" => requests[r].row.status # "published"

SaysItsVersion(q) ==
    Exists(q) /\ quizzes[q].status = "published" =>
        Contents(q, quizzes[q].published_version) = {quizzes[q].content}
ShownWasRead(q) == \A a \in answers : a.quiz = q => a.shown = a.read

InOrder(q) == Alone(q) /\ SaysItsVersion(q) /\ ShownWasRead(q)
OInv == IInv /\ \A q \in Quiz \ overlapped : InOrder(q)

\* A step that changes nothing about a quiz, though requests on it may end.
Elsewhere(q) ==
    /\ quizzes'[q] = quizzes[q]
    /\ VersionsOf(q)' = VersionsOf(q)
    /\ \A r \in Request : Works(r, q)' => requests'[r] = requests[r]
    /\ \A a \in answers' : a.quiz = q => a \in answers

\* Such a step keeps the quiz in order.
LEMMA ElsewhereStep ==
  ASSUME NEW q \in Quiz, InOrder(q), Elsewhere(q) PROVE InOrder(q)'
<1>1. Alone(q)'
  <2>1. ASSUME NEW r \in Request, Works(r, q)' PROVE Works(r, q) /\ requests'[r] = requests[r]
    BY <2>1 DEF Elsewhere, Works
  <2> QED  BY <2>1 DEF InOrder, Alone, Elsewhere, Exists
<1>2. SaysItsVersion(q)'
  <2>1. \A n : Contents(q, n)' = Contents(q, n)  BY DEF Elsewhere, Contents
  <2> QED  BY <2>1 DEF InOrder, SaysItsVersion, Elsewhere, Exists
<1>3. ShownWasRead(q)'  BY DEF InOrder, ShownWasRead, Elsewhere
<1> QED  BY <1>1, <1>2, <1>3 DEF InOrder

\* A new quiz is a draft nobody works on.
LEMMA CreateInOrder ==
  ASSUME OInv, NEW r \in Request, NEW u \in User, NEW c \in Content, CreateQuiz(r, u, c),
         NEW q \in Quiz \ overlapped
  PROVE  InOrder(q)'
<1> PICK d \in Quiz \ created :
        /\ quizzes' = [quizzes EXCEPT ![d] = [owner |-> u, content |-> c,
                           status |-> "draft", published_version |-> 0]]
        /\ created' = created \cup {d}
  BY DEF CreateQuiz
<1>1. CASE q # d
  BY <1>1, ElsewhereStep DEF OInv, IInv, TypeOK, CreateQuiz, Elsewhere, VersionsOf, Works
<1>2. CASE q = d
  <2>1. \A s \in Request : ~ Works(s, q)'
    BY <1>2 DEF OInv, IInv, Known, Works, CreateQuiz
  <2>2. quizzes'[q].status = "draft"  BY <1>2 DEF OInv, IInv, TypeOK
  <2>3. ShownWasRead(q)'  BY DEF OInv, InOrder, ShownWasRead, CreateQuiz
  <2> QED  BY <2>1, <2>2, <2>3 DEF InOrder, Alone, SaysItsVersion
<1> QED  BY <1>1, <1>2

\* Whoever reads a quiz in use makes it overlapped; who reads another knows it.
LEMMA ReadsInOrder ==
  ASSUME OInv, NEW r \in Request, NEW op \in {"update", "delete", "publish"},
         NEW d \in Quiz, NEW c \in Content, Reads(r, op, d, c),
         op = "update" => quizzes[d].status # "published",
         NEW q \in Quiz \ overlapped'
  PROVE  InOrder(q)'
<1>0. q \notin overlapped  BY DEF Reads
<1>1. requests'[r] = [op |-> op, quiz |-> d, row |-> quizzes[d], content |-> c]
  BY DEF Reads, OInv, IInv, TypeOK
<1>2. \A s \in Request \ {r} : requests'[s] = requests[s]  BY DEF Reads, OInv, IInv, TypeOK
<1>3. CASE q # d
  <2>1. Elsewhere(q)  BY <1>1, <1>2, <1>3 DEF Reads, Elsewhere, VersionsOf, Works
  <2> QED  BY <1>0, <2>1, ElsewhereStep DEF OInv
<1>4. CASE q = d
  <2>1. \A s \in Request : ~ Works(s, q)  BY <1>0, <1>4 DEF Reads, Works
  <2>2. \A s \in Request : Works(s, q)' => s = r  BY <1>2, <2>1 DEF Works
  <2>3. Exists(q)' /\ quizzes' = quizzes  BY <1>4 DEF Reads, Exists
  <2>4. Alone(q)'  BY <1>1, <1>4, <2>2, <2>3 DEF Alone
  <2>5. SaysItsVersion(q)' /\ ShownWasRead(q)'
    BY <1>0 DEF OInv, InOrder, SaysItsVersion, ShownWasRead, Reads, Exists, Contents, VersionsOf
  <2> QED  BY <2>4, <2>5 DEF InOrder
<1> QED  BY <1>3, <1>4

\* The statements that write end the request, so nobody is left on the quiz.
LEMMA NobodyLeft ==
  ASSUME OInv, NEW r \in Request, Ends(r), NEW q \in Quiz \ overlapped, Works(r, q)
  PROVE  \A s \in Request : ~ Works(s, q)'
<1>1. requests'[r] = None /\ \A s \in Request \ {r} : requests'[s] = requests[s]
  BY DEF Ends, OInv, IInv, TypeOK
<1>2. \A s \in Request : Works(s, q) => s = r  BY DEF OInv, InOrder, Alone
<1> QED  BY <1>1, <1>2 DEF Works

\* A request that ends and leaves the tables and answers of a quiz alone
LEMMA EndsElsewhere ==
  ASSUME OInv, NEW r \in Request, Ends(r), NEW q \in Quiz \ overlapped,
         quizzes'[q] = quizzes[q], VersionsOf(q)' = VersionsOf(q),
         \A a \in answers' : a.quiz = q => a \in answers
  PROVE  InOrder(q)'
<1>1. Elsewhere(q)  BY DEF Elsewhere, Ends, Works, OInv, IInv, TypeOK
<1> QED  BY <1>1, ElsewhereStep DEF OInv

\* An edit that was alone found a draft and leaves a draft.
LEMMA UpdateInOrder ==
  ASSUME OInv, NEW r \in Request, WriteUpdate(r), NEW q \in Quiz \ overlapped
  PROVE  InOrder(q)'
<1> DEFINE p == requests[r]
<1>1. p \in Pending /\ p.quiz \in Quiz  BY DEF WriteUpdate, OInv, IInv, TypeOK, Pending
<1>2. CASE q # p.quiz
  BY <1>1, <1>2, EndsElsewhere DEF WriteUpdate, OInv, IInv, TypeOK, VersionsOf
<1>3. CASE q = p.quiz
  <2>1. Works(r, q) /\ Alone(q)  BY <1>3 DEF Works, WriteUpdate, OInv, InOrder
  <2>2. Exists(q) /\ p.row.status # "published"  BY <2>1 DEF Alone, WriteUpdate
  <2>3. quizzes'[q] = SetColumns(quizzes[q], p.row, p.content) /\ quizzes[q] \in Row
    BY <1>3, <2>2 DEF WriteUpdate, OInv, IInv, TypeOK, Exists
  <2>4. quizzes'[q].status # "published"  BY <2>2, <2>3 DEF SetColumns, Row
  <2>5. \A s \in Request : ~ Works(s, q)'  BY <2>1, NobodyLeft DEF WriteUpdate
  <2>6. ShownWasRead(q)'  BY DEF OInv, InOrder, ShownWasRead, WriteUpdate
  <2> QED  BY <2>4, <2>5, <2>6 DEF InOrder, Alone, SaysItsVersion
<1> QED  BY <1>2, <1>3

\* A deletion leaves nothing to say.
LEMMA DeleteInOrder ==
  ASSUME OInv, NEW r \in Request, WriteDelete(r), NEW q \in Quiz \ overlapped
  PROVE  InOrder(q)'
<1> DEFINE p == requests[r]
<1>1. p \in Pending /\ p.quiz \in Quiz  BY DEF WriteDelete, OInv, IInv, TypeOK, Pending
<1>2. CASE q # p.quiz
  BY <1>1, <1>2, EndsElsewhere DEF WriteDelete, OInv, IInv, TypeOK, VersionsOf
<1>3. CASE q = p.quiz
  <2>1. Works(r, q)  BY <1>3 DEF Works, WriteDelete
  <2>2. ~ Exists(q)'  BY <1>3 DEF WriteDelete, OInv, IInv, TypeOK, Exists
  <2>3. \A s \in Request : ~ Works(s, q)'  BY <2>1, NobodyLeft DEF WriteDelete
  <2>4. ShownWasRead(q)'  BY DEF OInv, InOrder, ShownWasRead, WriteDelete
  <2> QED  BY <2>2, <2>3, <2>4 DEF InOrder, Alone, SaysItsVersion
<1> QED  BY <1>2, <1>3

\* A publication that was alone stores what the row says.
LEMMA SnapshotInOrder ==
  ASSUME OInv, NEW r \in Request, Snapshot(r), NEW q \in Quiz \ overlapped
  PROVE  InOrder(q)'
<1>0. PICK p \in Pending : requests[r] = p  BY DEF Snapshot, OInv, IInv, TypeOK
<1> DEFINE n == p.row.published_version + 1
           v == [quiz |-> p.quiz, version |-> n, content |-> p.row.content]
<1>1. p # None /\ p.op = "publish" /\ p.quiz \in Quiz /\ n \in Nat /\ p.row \in Row
  BY <1>0 DEF Snapshot, Pending, Row
<1>2. CASE ~ Insertable(v)
  BY <1>0, <1>2, EndsElsewhere DEF Snapshot, VersionsOf
<1>3. CASE Insertable(v)
  <2>1. /\ versions' = versions \cup {v} /\ answers' = answers
        /\ requests' = [requests EXCEPT ![r].op = "refresh"]
        /\ quizzes' = [quizzes EXCEPT ![p.quiz].status = "published",
                                      ![p.quiz].published_version = n]
    BY <1>0, <1>3 DEF Snapshot
  <2>2. requests'[r] = [p EXCEPT !.op = "refresh"]
        /\ \A s \in Request \ {r} : requests'[s] = requests[s]
    BY <1>0, <2>1 DEF OInv, IInv, TypeOK
  <2>3. /\ requests'[r] # None /\ requests'[r].quiz = p.quiz
        /\ requests'[r].row = p.row /\ requests'[r].op = "refresh"
    <3>1. [p EXCEPT !.op = "refresh"] \in Pending  BY DEF Pending
    <3> QED  BY <2>2, <3>1, NoneAssumption DEF Pending
  <2>4. CASE q # p.quiz
    <3>1. quizzes'[q] = quizzes[q]  BY <2>1, <2>4 DEF OInv, IInv, TypeOK
    <3>2. VersionsOf(q)' = VersionsOf(q)  BY <2>1, <2>4 DEF VersionsOf
    <3>3. Elsewhere(q)  BY <2>1, <2>2, <2>3, <2>4, <3>1, <3>2 DEF Elsewhere, Works
    <3> QED  BY <3>3, ElsewhereStep DEF OInv
  <2>5. CASE q = p.quiz
    <3>1. Works(r, q) /\ Alone(q)  BY <1>0, <1>1, <2>5 DEF Works, OInv, InOrder
    <3>2. Exists(q) /\ p.row = quizzes[q] /\ quizzes[q] \in Row
      BY <1>0, <1>1, <3>1 DEF Alone
    <3>3. quizzes'[q] = [quizzes[q] EXCEPT !.status = "published", !.published_version = n]
      BY <2>1, <2>5, <3>2 DEF OInv, IInv, TypeOK, Row
    <3>4. /\ quizzes'[q] \in Row /\ quizzes'[q].content = p.row.content
          /\ quizzes'[q].published_version = n
      BY <1>1, <3>2, <3>3 DEF Row
    <3>5. Contents(q, n)' = {p.row.content}
      <4>1. \A w \in VersionsOf(q) : w.version # n
        BY <1>3, <2>5 DEF Insertable, VersionsOf
      <4>2. VersionsOf(q)' = VersionsOf(q) \cup {v}  BY <2>1, <2>5 DEF VersionsOf
      <4>3. {w \in VersionsOf(q)' : w.version = n} = {v}  BY <4>1, <4>2
      <4>4. Contents(q, n)' = {w.content : w \in {v}}  BY <4>3 DEF Contents
      <4> QED  BY <4>4
    <3>6. SaysItsVersion(q)'  BY <3>4, <3>5 DEF SaysItsVersion, Contents, VersionsOf
    <3>7. \A s \in Request : Works(s, q)' => s = r
      BY <2>2, <3>1 DEF Works, Alone
    <3>8. Exists(q)'  BY <3>4, NoneAssumption DEF Exists
    <3>9. Alone(q)'  BY <2>3, <3>4, <3>7, <3>8 DEF Alone
    <3>10. ShownWasRead(q)'  BY <2>1 DEF OInv, InOrder, ShownWasRead
    <3> QED  BY <3>6, <3>9, <3>10 DEF InOrder
  <2> QED  BY <2>4, <2>5
<1> QED  BY <1>2, <1>3

\* And the publisher is shown what it published.
LEMMA RefreshInOrder ==
  ASSUME OInv, NEW r \in Request, Refresh(r), NEW q \in Quiz \ overlapped
  PROVE  InOrder(q)'
<1> DEFINE p == requests[r]
<1>1. CASE q # p.quiz
  BY <1>1, EndsElsewhere DEF Refresh, VersionsOf
<1>2. CASE q = p.quiz
  <2>1. Works(r, q) /\ InOrder(q)  BY <1>2 DEF Works, Refresh, OInv
  <2>2. Exists(q) /\ p.row.content = quizzes[q].content  BY <2>1 DEF InOrder, Alone
  <2>3. ShownWasRead(q)'  BY <1>2, <2>1, <2>2 DEF Refresh, ShownWasRead, InOrder
  <2>4. \A s \in Request : ~ Works(s, q)'  BY <2>1, NobodyLeft DEF Refresh
  <2>5. SaysItsVersion(q)'
    BY <2>1 DEF InOrder, SaysItsVersion, Refresh, Exists, Contents, VersionsOf
  <2> QED  BY <2>3, <2>4, <2>5 DEF InOrder, Alone
<1> QED  BY <1>1, <1>2

\* Every step keeps the quizzes in order that do not overlap.
LEMMA NextInOrder == OInv /\ [Next]_vars => OInv'
<1> SUFFICES ASSUME OInv, [Next]_vars PROVE OInv'  OBVIOUS
<1>0. IInv'  BY NextInv DEF OInv
<1> SUFFICES ASSUME NEW q \in Quiz, q \notin overlapped' PROVE InOrder(q)'
  BY <1>0 DEF OInv
<1>1. CASE UNCHANGED vars
  BY <1>1, ElsewhereStep DEF vars, OInv, Elsewhere, VersionsOf
<1>2. CASE EndHandlers
  BY <1>2, ElsewhereStep DEF EndHandlers, OInv, Elsewhere, VersionsOf, Works
<1>3. ASSUME NEW r \in Request, NEW u \in User, NEW c \in Content, CreateQuiz(r, u, c)
      PROVE  InOrder(q)'
  BY <1>3, CreateInOrder DEF CreateQuiz
<1>4. ASSUME NEW r \in Request, NEW d \in Quiz, NEW c \in Content, UpdateQuiz(r, d, c)
      PROVE  InOrder(q)'
  BY <1>4, ReadsInOrder DEF UpdateQuiz, MayEdit
<1>5. ASSUME NEW r \in Request, NEW d \in Quiz, NEW u \in User,
             DeleteQuiz(r, d, u) \/ PublishQuiz(r, d, u)
      PROVE  InOrder(q)'
  <2>1. quizzes[d].content \in Content
    BY <1>5 DEF OInv, IInv, TypeOK, DeleteQuiz, PublishQuiz, Exists, Row
  <2> QED  BY <1>5, <2>1, ReadsInOrder DEF DeleteQuiz, PublishQuiz
<1>6. ASSUME NEW r \in Request,
             WriteUpdate(r) \/ WriteDelete(r) \/ Snapshot(r) \/ Refresh(r)
      PROVE  InOrder(q)'
  BY <1>6, UpdateInOrder, DeleteInOrder, SnapshotInOrder, RefreshInOrder
  DEF WriteUpdate, WriteDelete, Snapshot, Refresh
<1>7. ASSUME NEW r \in Request, Abandon(r) PROVE InOrder(q)'
  BY <1>7, EndsElsewhere DEF Abandon, VersionsOf
<1> QED
  BY <1>1, <1>2, <1>3, <1>4, <1>5, <1>6, <1>7 DEF Next, Handler

\* A quiz that no two requests worked on at a time says, while published,
\* what its version says, and was never shown to its publisher otherwise:
\* what the only request on it has read cannot be stale.
THEOREM ShownAsPublished == Spec => []PublishedAsShown
<1>1. Init => OInv
  BY InitInv DEF Init, OInv, InOrder, Alone, Works, SaysItsVersion, ShownWasRead, Exists
<1>2. OInv => PublishedAsShown
  BY DEF OInv, InOrder, SaysItsVersion, ShownWasRead, PublishedAsShown
<1> QED  BY <1>1, <1>2, NextInOrder, PTL DEF Spec
===========================================================================
