-------------------------- MODULE BotQueueProofs --------------------------
(***************************************************************************)
(* What is proved of BotQueue, for any number of updates, bots, processes  *)
(* and attempts, and whatever the limits: calls may fail and processes end *)
(* at any step.                                                            *)
(*                                                                         *)
(* The argument is about the mark of an update.  At most one entry of the  *)
(* update holds it, from the SET NX that was answered with OK to the DEL;  *)
(* who does not hold it drops the entry, and while nothing fails the mark  *)
(* is held or the update was handled.                                      *)
(***************************************************************************)
EXTENDS BotQueue, TLAPS

---------------------------------------------------------------------------
(* The invariant.                                                          *)

\* Entries are queued until the group delivers them, those before the group
\* for ever, and have a process while their task runs.
Delivered ==
    /\ skipped <= read
    /\ ~ group => read = 0
    /\ \A i \in 1 .. Len(stream) :
          /\ stream[i].step = "queued" <=> i <= skipped \/ i > read
          /\ stream[i].step \in {"queued", "acked", "gone"} <=> stream[i].runner = None

\* From the mark to its removal
Holding == {"handle", "reply", "unmark"}

\* One entry at most holds the mark of an update.
OneHolder ==
    \A i \in 1 .. Len(stream) : stream[i].step \in Holding =>
        /\ UpdateOf(i) \in marks
        /\ \A j \in 1 .. Len(stream) :
              stream[j].step \in Holding /\ UpdateOf(i) = UpdateOf(j) => i = j

\* What was done for an update, by what its mark and its holder say
Counted ==
    /\ \A u \in Update :
          /\ handled[u] <= 1 /\ rooms[u] <= failures[u] + 1
          /\ u \notin marks => handled[u] = 0 /\ rooms[u] <= failures[u]
    /\ \A i \in 1 .. Len(stream) : stream[i].step \in Holding =>
          /\ handled[UpdateOf(i)] = 0
          /\ stream[i].step # "reply" => rooms[UpdateOf(i)] <= failures[UpdateOf(i)]

\* An entry of the n-th attempt has n failures behind it.
Tried ==
    /\ DeadMeansTried
    /\ \A i \in 1 .. Len(stream) :
          /\ stream[i].attempt <= failures[UpdateOf(i)]
          /\ stream[i].step \in {"unmark", "backoff", "bury"} =>
                stream[i].attempt + 1 <= failures[UpdateOf(i)]
          /\ stream[i].step = "bury" => stream[i].attempt + 1 >= MaxAttempts

\* The mark of an update not handled is held.
MarkIsHeld ==
    faulty \/ \A u \in marks : handled[u] > 0 \/
        \E i \in 1 .. Len(stream) : UpdateOf(i) = u /\ stream[i].step \in Holding

Inv ==
    /\ TypeOK /\ Delivered /\ OneHolder /\ Counted /\ Tried
    /\ MarkIsHeld /\ NothingForgotten

---------------------------------------------------------------------------
(* What a step does to the entries.                                        *)

\* Entry i goes to s, the others stay, and perhaps an entry is added.
Moves(i, s) ==
    /\ Len(stream') \in {Len(stream), Len(stream) + 1}
    /\ \A j \in 1 .. Len(stream) :
          /\ stream'[j].update = stream[j].update /\ stream'[j].attempt = stream[j].attempt
          /\ j # i => stream'[j].step = stream[j].step /\ stream'[j].runner = stream[j].runner
          /\ j = i => /\ stream'[j].step = s
                      /\ stream'[j].runner =
                            IF s \in {"acked", "gone"} THEN None ELSE stream[j].runner
    /\ \A j \in Len(stream) + 1 .. Len(stream') :
          stream'[j].step = "queued" /\ stream'[j].runner = None

\* Whatever process reads or ends, an entry keeps what it carries.
Spawns(batch, r) ==
    /\ Len(stream') = Len(stream)
    /\ \A j \in 1 .. Len(stream) :
          /\ stream'[j].update = stream[j].update /\ stream'[j].attempt = stream[j].attempt
          /\ j \notin batch => stream'[j].step = stream[j].step /\ stream'[j].runner = stream[j].runner
          /\ j \in batch => stream'[j].step = "spawned" /\ stream'[j].runner = r
Ends(I) ==
    /\ Len(stream') = Len(stream)
    /\ \A j \in 1 .. Len(stream) :
          /\ stream'[j].update = stream[j].update /\ stream'[j].attempt = stream[j].attempt
          /\ j \notin I => stream'[j].step = stream[j].step /\ stream'[j].runner = stream[j].runner
          /\ j \in I => stream'[j].step = "gone" /\ stream'[j].runner = None

LEMMA EntryType ==
    ASSUME TypeOK, NEW i \in 1 .. Len(stream)
    PROVE  /\ stream[i] \in Entry /\ stream[i].update \in Update /\ stream[i].attempt \in Nat
           /\ stream[i].step \in TaskStep /\ stream[i].runner \in Runner \cup {None}
<1>1. stream[i] \in Entry
  BY DEF TypeOK
<1>. QED
  BY <1>1 DEF Entry

LEMMA NewEntryType ==
    ASSUME NEW u \in Update, NEW n \in Nat
    PROVE  /\ NewEntry(u, n) \in Entry /\ NewEntry(u, n).step = "queued"
           /\ NewEntry(u, n).runner = None
           /\ NewEntry(u, n).update = u /\ NewEntry(u, n).attempt = n
BY DEF NewEntry, Entry, TaskStep

\* The entries, one of which was moved
MovedTo(i, s, r) == [stream EXCEPT ![i] = [stream[i] EXCEPT !.step = s, !.runner = r]]
Moved(q, i, s, r) ==
    /\ q \in Seq(Entry) /\ Len(q) = Len(stream)
    /\ \A j \in 1 .. Len(stream) :
          /\ j # i => q[j] = stream[j]
          /\ j = i => /\ q[j].update = stream[j].update /\ q[j].attempt = stream[j].attempt
                      /\ q[j].step = s /\ q[j].runner = r

LEMMA MovedToMoved ==
    ASSUME TypeOK, NEW i \in 1 .. Len(stream), NEW s \in TaskStep, NEW r \in Runner \cup {None}
    PROVE  Moved(MovedTo(i, s, r), i, s, r)
<1>1. stream \in Seq(Entry) /\ stream[i] \in Entry
  BY EntryType DEF TypeOK
<1>. DEFINE e == [stream[i] EXCEPT !.step = s, !.runner = r]
<1>2. /\ e \in Entry /\ e.step = s /\ e.runner = r
      /\ e.update = stream[i].update /\ e.attempt = stream[i].attempt
  BY <1>1 DEF Entry
<1>. HIDE DEF e
<1>3. MovedTo(i, s, r) = [stream EXCEPT ![i] = e]
  BY DEF e, MovedTo
<1>. QED
  BY <1>1, <1>2, <1>3 DEF Moved

LEMMA MoveMoves ==
    ASSUME TypeOK, NEW i \in 1 .. Len(stream), NEW s \in TaskStep, NEW r,
           r = IF s \in {"acked", "gone"} THEN None ELSE stream[i].runner, Moved(stream', i, s, r)
    PROVE  stream' \in Seq(Entry) /\ Moves(i, s)
<1>1. Len(stream') = Len(stream) /\ Len(stream) \in Nat
  BY DEF Moved, TypeOK
<1>2. Len(stream) + 1 .. Len(stream') = {}
  BY <1>1
<1>. QED
  BY <1>1, <1>2 DEF Moves, Moved

\* And then an entry was added.
LEMMA MoveAppendMoves ==
    ASSUME TypeOK, NEW i \in 1 .. Len(stream), NEW s \in TaskStep, NEW r, NEW q,
           r = IF s \in {"acked", "gone"} THEN None ELSE stream[i].runner, Moved(q, i, s, r),
           NEW e \in Entry, e.step = "queued", e.runner = None, stream' = Append(q, e)
    PROVE  /\ stream' \in Seq(Entry) /\ Moves(i, s)
           /\ Len(stream') = Len(stream) + 1 /\ stream'[Len(stream) + 1] = e
<1>1. q \in Seq(Entry) /\ Len(q) = Len(stream) /\ Len(stream) \in Nat
  BY DEF Moved, TypeOK
<1>2. /\ stream' \in Seq(Entry) /\ Len(stream') = Len(stream) + 1
      /\ stream'[Len(stream) + 1] = e /\ \A j \in 1 .. Len(stream) : stream'[j] = q[j]
  BY <1>1
<1>3. \A j \in Len(stream) + 1 .. Len(stream') : stream'[j] = e
  BY <1>1, <1>2
<1>4. \A j \in 1 .. Len(stream) :
        /\ stream'[j].update = stream[j].update /\ stream'[j].attempt = stream[j].attempt
        /\ j # i => stream'[j].step = stream[j].step /\ stream'[j].runner = stream[j].runner
        /\ j = i => stream'[j].step = s /\ stream'[j].runner = r
  BY <1>2 DEF Moved
<1>. QED
  BY <1>2, <1>3, <1>4 DEF Moves

LEMMA GotoIsMove ==
    ASSUME TypeOK, NEW i \in 1 .. Len(stream), NEW s
    PROVE  /\ [stream EXCEPT ![i].step = s] = MovedTo(i, s, stream[i].runner)
           /\ [stream EXCEPT ![i].step = s, ![i].runner = None] = MovedTo(i, s, None)
<1>1. stream[i] \in Entry /\ stream \in Seq(Entry)
  BY EntryType DEF TypeOK
<1>2. [stream[i] EXCEPT !.step = s, !.runner = stream[i].runner] = [stream[i] EXCEPT !.step = s]
  BY <1>1 DEF Entry
<1>. QED
  BY <1>1, <1>2 DEF MovedTo

LEMMA GotoMoves ==
    ASSUME TypeOK, NEW i \in 1 .. Len(stream), NEW s \in TaskStep \ {"acked", "gone"}, Goto(i, s)
    PROVE  stream' \in Seq(Entry) /\ Moves(i, s)
<1>0. stream' = MovedTo(i, s, stream[i].runner)
  BY GotoIsMove DEF Goto
<1>1. Moved(stream', i, s, stream[i].runner)
  <2>1. Moved(MovedTo(i, s, stream[i].runner), i, s, stream[i].runner)
    BY EntryType, MovedToMoved
  <2>. QED
    BY <1>0, <2>1
<1>. QED
  BY <1>1, MoveMoves

LEMMA LeaveMoves ==
    ASSUME TypeOK, NEW i \in 1 .. Len(stream), NEW s \in {"acked", "gone"}, Leave(i, s)
    PROVE  stream' \in Seq(Entry) /\ Moves(i, s)
<1>1. s \in TaskStep
  BY DEF TaskStep
<1>2. Moved(stream', i, s, None)
  <2>1. stream' = MovedTo(i, s, None)
    BY GotoIsMove DEF Leave
  <2>2. Moved(MovedTo(i, s, None), i, s, None)
    BY <1>1, MovedToMoved
  <2>. QED
    BY <2>1, <2>2
<1>. QED
  BY <1>1, <1>2, MoveMoves

\* The update is added once more, and its entry acknowledged or not.
LEMMA RequeueMoves ==
    ASSUME TypeOK, NEW i \in 1 .. Len(stream), NEW s \in {"ack", "gone"},
           stream' = Append(MovedTo(i, s, IF s = "gone" THEN None ELSE stream[i].runner),
                            NewEntry(UpdateOf(i), stream[i].attempt + 1))
    PROVE  /\ stream' \in Seq(Entry) /\ Moves(i, s)
           /\ Len(stream') = Len(stream) + 1
           /\ stream'[Len(stream) + 1] = NewEntry(UpdateOf(i), stream[i].attempt + 1)
<1>. DEFINE e == NewEntry(UpdateOf(i), stream[i].attempt + 1)
            r == IF s = "gone" THEN None ELSE stream[i].runner
<1>1. e \in Entry /\ e.step = "queued" /\ e.runner = None
  BY EntryType, NewEntryType DEF UpdateOf
<1>2. s \in TaskStep /\ r \in Runner \cup {None}
      /\ r = IF s \in {"acked", "gone"} THEN None ELSE stream[i].runner
  BY EntryType DEF TaskStep
<1>3. stream' = Append(MovedTo(i, s, r), e)
  OBVIOUS
<1>. HIDE DEF e, r
<1>4. Moved(MovedTo(i, s, r), i, s, r)
  BY <1>2, MovedToMoved
<1>5. /\ stream' \in Seq(Entry) /\ Moves(i, s)
      /\ Len(stream') = Len(stream) + 1 /\ stream'[Len(stream) + 1] = e
  BY <1>1, <1>2, <1>3, <1>4, MoveAppendMoves
<1>. QED
  BY <1>5 DEF e

LEMMA AppendMoves ==
    ASSUME TypeOK, NEW u \in Update, stream' = Append(stream, NewEntry(u, 0))
    PROVE  /\ stream' \in Seq(Entry) /\ Moves(0, "queued")
           /\ Len(stream') = Len(stream) + 1 /\ stream'[Len(stream) + 1] = NewEntry(u, 0)
<1>1. /\ NewEntry(u, 0) \in Entry /\ NewEntry(u, 0).step = "queued" /\ NewEntry(u, 0).runner = None
      /\ stream \in Seq(Entry) /\ Len(stream) \in Nat
  BY NewEntryType DEF TypeOK
<1>2. /\ stream' \in Seq(Entry) /\ Len(stream') = Len(stream) + 1
      /\ stream'[Len(stream) + 1] = NewEntry(u, 0)
      /\ \A j \in 1 .. Len(stream) : stream'[j] = stream[j]
  BY <1>1
<1>3. \A j \in Len(stream) + 1 .. Len(stream') : stream'[j] = NewEntry(u, 0)
  BY <1>1, <1>2
<1>. QED
  BY <1>1, <1>2, <1>3 DEF Moves

LEMMA EntryMoves ==
    ASSUME TypeOK, NEW i \in 1 .. Len(stream)
    PROVE  /\ \A s \in {"global", "mark", "handle", "reply", "unmark", "backoff", "bury", "ack"} :
                 Goto(i, s) => stream' \in Seq(Entry) /\ Moves(i, s)
           /\ \A s \in {"acked", "gone"} :
                 Leave(i, s) => stream' \in Seq(Entry) /\ Moves(i, s)
           /\ stream' = Append([stream EXCEPT ![i].step = "ack"],
                               NewEntry(UpdateOf(i), stream[i].attempt + 1)) =>
                 /\ stream' \in Seq(Entry) /\ Moves(i, "ack") /\ Len(stream') = Len(stream) + 1
                 /\ stream'[Len(stream) + 1] = NewEntry(UpdateOf(i), stream[i].attempt + 1)
           /\ stream' = Append([stream EXCEPT ![i].step = "gone", ![i].runner = None],
                               NewEntry(UpdateOf(i), stream[i].attempt + 1)) =>
                 /\ stream' \in Seq(Entry) /\ Moves(i, "gone") /\ Len(stream') = Len(stream) + 1
                 /\ stream'[Len(stream) + 1] = NewEntry(UpdateOf(i), stream[i].attempt + 1)
<1>1. ASSUME NEW s \in {"global", "mark", "handle", "reply", "unmark", "backoff", "bury", "ack"}, Goto(i, s)
      PROVE  stream' \in Seq(Entry) /\ Moves(i, s)
  <2>1. s \in TaskStep \ {"acked", "gone"}
    BY DEF TaskStep
  <2>. QED
    BY <1>1, <2>1, GotoMoves
<1>2. ASSUME NEW s \in {"acked", "gone"}, Leave(i, s)
      PROVE  stream' \in Seq(Entry) /\ Moves(i, s)
  BY <1>2, LeaveMoves
<1>3. ASSUME stream' = Append([stream EXCEPT ![i].step = "ack"],
                              NewEntry(UpdateOf(i), stream[i].attempt + 1))
      PROVE  /\ stream' \in Seq(Entry) /\ Moves(i, "ack") /\ Len(stream') = Len(stream) + 1
             /\ stream'[Len(stream) + 1] = NewEntry(UpdateOf(i), stream[i].attempt + 1)
  <2>1. [stream EXCEPT ![i].step = "ack"] = MovedTo(i, "ack", stream[i].runner)
    BY GotoIsMove
  <2>2. stream' = Append(MovedTo(i, "ack", IF "ack" = "gone" THEN None ELSE stream[i].runner),
                         NewEntry(UpdateOf(i), stream[i].attempt + 1))
    BY <1>3, <2>1
  <2>. QED
    BY <2>2, RequeueMoves
<1>4. ASSUME stream' = Append([stream EXCEPT ![i].step = "gone", ![i].runner = None],
                              NewEntry(UpdateOf(i), stream[i].attempt + 1))
      PROVE  /\ stream' \in Seq(Entry) /\ Moves(i, "gone") /\ Len(stream') = Len(stream) + 1
             /\ stream'[Len(stream) + 1] = NewEntry(UpdateOf(i), stream[i].attempt + 1)
  <2>1. [stream EXCEPT ![i].step = "gone", ![i].runner = None] = MovedTo(i, "gone", None)
    BY GotoIsMove
  <2>2. stream' = Append(MovedTo(i, "gone", IF "gone" = "gone" THEN None ELSE stream[i].runner),
                         NewEntry(UpdateOf(i), stream[i].attempt + 1))
    BY <1>4, <2>1
  <2>. QED
    BY <2>2, RequeueMoves
<1>. QED
  BY <1>1, <1>2, <1>3, <1>4

\* A task moves its entry from a step in which it runs.
LEMMA TaskMoves ==
    ASSUME TypeOK, NEW i \in 1 .. Len(stream), Task(i) \/ CallFails(i)
    PROVE  /\ stream' \in Seq(Entry)
           /\ stream[i].step \notin {"queued", "acked", "gone"}
           /\ \E s \in TaskStep \ {"queued"} : Moves(i, s)
<1>. DEFINE Going == {"global", "mark", "handle", "reply", "unmark", "backoff", "bury", "ack"}
<1>0. Going \cup {"acked", "gone"} \subseteq TaskStep \ {"queued"}
  BY DEF TaskStep
<1>. SUFFICES /\ stream[i].step \notin {"queued", "acked", "gone"}
              /\ stream' \in Seq(Entry) /\ \E s \in Going \cup {"acked", "gone"} : Moves(i, s)
  BY <1>0
<1>1. CASE TakeGlobal(i) \/ TakeBot(i) \/ Mark(i) \/ Unmark(i) \/ Bury(i)
  BY <1>1, EntryMoves DEF TakeGlobal, TakeBot, Mark, Unmark, Bury, At
<1>2. CASE Handle(i) \/ Reply(i)
  BY <1>2, EntryMoves DEF Handle, Reply, Succeeds, Fails, At
<1>3. CASE Requeue(i)
  BY <1>3, EntryMoves DEF Requeue, At
<1>4. CASE Ack(i)
  BY <1>4, EntryMoves DEF Ack, At
<1>5. CASE CallFails(i)
  BY <1>5, EntryMoves DEF CallFails, At
<1>. QED
  BY <1>1, <1>2, <1>3, <1>4, <1>5 DEF Task

LEMMA EndEnds ==
    ASSUME TypeOK, NEW I, End(I)
    PROVE  stream' \in Seq(Entry) /\ Ends(I)
<1>0. Len(stream) \in Nat
  BY DEF TypeOK
<1>1. ASSUME NEW j \in 1 .. Len(stream)
      PROVE  LET e == IF j \in I THEN [stream[j] EXCEPT !.step = "gone", !.runner = None] ELSE stream[j]
             IN  /\ e \in Entry /\ e.update = stream[j].update /\ e.attempt = stream[j].attempt
                 /\ j \notin I => e.step = stream[j].step /\ e.runner = stream[j].runner
                 /\ j \in I => e.step = "gone" /\ e.runner = None
  BY EntryType DEF Entry, TaskStep
<1>2. stream' \in [1 .. Len(stream) -> Entry]
  BY <1>1 DEF End
<1>3. stream' \in Seq(Entry) /\ Len(stream') = Len(stream)
  BY <1>0, <1>2
<1>4. \A j \in 1 .. Len(stream) : stream'[j] =
        IF j \in I THEN [stream[j] EXCEPT !.step = "gone", !.runner = None] ELSE stream[j]
  BY DEF End
<1>. QED
  BY <1>1, <1>3, <1>4 DEF Ends

LEMMA ReadMoves ==
    ASSUME TypeOK, NEW r \in Runner, ReadEntries(r)
    PROVE  /\ stream' \in Seq(Entry) /\ group /\ LastRead \in read .. Len(stream) /\ read' = LastRead
           /\ UNCHANGED <<group, skipped, marks, dead, telegram, history>>
           /\ \/ Spawns(read + 1 .. LastRead, r) /\ faulty' = faulty
              \/ Ends((read + 1 .. LastRead) \cup TasksOf(r, TaskStep)) /\ faulty' = TRUE
<1>0. /\ read \in Nat /\ Len(stream) \in Nat /\ Batch \in Nat /\ read <= Len(stream) /\ group
      /\ read' = LastRead /\ UNCHANGED <<group, skipped, marks, dead, telegram, history>>
  <2>1. Len(stream) \in Nat /\ read \in 0 .. Len(stream)
    BY DEF TypeOK
  <2>2. Batch \in Nat
    BY LimitAssumption
  <2>3. group /\ read' = LastRead /\ UNCHANGED <<group, skipped, marks, dead, telegram, history>>
    BY DEF ReadEntries
  <2>. QED
    BY <2>1, <2>2, <2>3
<1>1. LastRead \in read .. Len(stream)
  BY <1>0 DEF LastRead
<1>. DEFINE batch == read + 1 .. LastRead
<1>2. CASE End(batch \cup TasksOf(r, TaskStep)) /\ faulty' = TRUE
  BY <1>0, <1>1, <1>2, EndEnds
<1>3. CASE /\ stream' = [i \in 1 .. Len(stream) |->
                IF i \in batch THEN [stream[i] EXCEPT !.step = "spawned", !.runner = r] ELSE stream[i]]
           /\ faulty' = faulty
  <2>. HIDE DEF batch
  <2>1. ASSUME NEW j \in 1 .. Len(stream)
        PROVE  LET e == IF j \in batch THEN [stream[j] EXCEPT !.step = "spawned", !.runner = r] ELSE stream[j]
               IN  /\ e \in Entry /\ e.update = stream[j].update /\ e.attempt = stream[j].attempt
                   /\ j \notin batch => e.step = stream[j].step /\ e.runner = stream[j].runner
                   /\ j \in batch => e.step = "spawned" /\ e.runner = r
    BY EntryType DEF Entry, TaskStep
  <2>2. stream' \in [1 .. Len(stream) -> Entry]
    BY <1>3, <2>1
  <2>3. stream' \in Seq(Entry) /\ Len(stream') = Len(stream)
    BY <1>0, <2>2
  <2>4. \A j \in 1 .. Len(stream) : stream'[j] =
          IF j \in batch THEN [stream[j] EXCEPT !.step = "spawned", !.runner = r] ELSE stream[j]
    BY <1>3
  <2>5. Spawns(batch, r)
    BY <2>1, <2>3, <2>4 DEF Spawns
  <2>. QED
    BY <1>0, <1>1, <1>3, <2>3, <2>5 DEF batch
<1>. QED
  BY <1>2, <1>3 DEF ReadEntries

---------------------------------------------------------------------------
(* Types.                                                                  *)

LEMMA TypeStep == TypeOK /\ [Next]_vars => TypeOK'
<1>. SUFFICES ASSUME TypeOK, [Next]_vars PROVE TypeOK'
  OBVIOUS
<1>0. Len(stream) \in Nat
  BY DEF TypeOK
<1>1. CASE UNCHANGED vars
  BY <1>1 DEF TypeOK, vars, consumers, telegram, history
<1>2. ASSUME NEW u \in Update, Webhook(u) PROVE TypeOK'
  <2>1. stream' \in Seq(Entry) /\ Len(stream') >= Len(stream)
    <3>1. CASE stream' = stream
      BY <1>0, <3>1 DEF TypeOK
    <3>2. CASE stream' = Append(stream, NewEntry(u, 0))
      BY <1>0, <3>2, AppendMoves
    <3>. QED
      BY <1>2, <3>1, <3>2 DEF Webhook
  <2>2. read \in 0 .. Len(stream')
    BY <1>0, <2>1 DEF TypeOK
  <2>. QED
    BY <1>2, <2>1, <2>2 DEF TypeOK, Webhook, consumers, history
<1>3. CASE CreateGroup
  BY <1>0, <1>3 DEF TypeOK, CreateGroup, telegram, history
<1>4. ASSUME NEW r \in Runner, ReadEntries(r) PROVE TypeOK'
  <2>0. /\ stream' \in Seq(Entry) /\ read' \in read .. Len(stream)
        /\ \/ Spawns(read + 1 .. LastRead, r) /\ faulty' = faulty
           \/ Ends((read + 1 .. LastRead) \cup TasksOf(r, TaskStep)) /\ faulty' = TRUE
    <3>1. /\ stream' \in Seq(Entry) /\ LastRead \in read .. Len(stream) /\ read' = LastRead
          /\ \/ Spawns(read + 1 .. LastRead, r) /\ faulty' = faulty
             \/ Ends((read + 1 .. LastRead) \cup TasksOf(r, TaskStep)) /\ faulty' = TRUE
      BY <1>4, ReadMoves
    <3>2. read' \in read .. Len(stream)
      BY <3>1, Zenon
    <3>. QED
      BY <3>1, <3>2
  <2>2. Len(stream') = Len(stream) /\ faulty' \in BOOLEAN
    BY <2>0 DEF TypeOK, Spawns, Ends
  <2>3. read \in 0 .. Len(stream)
    BY DEF TypeOK
  <2>1. stream' \in Seq(Entry) /\ read' \in 0 .. Len(stream') /\ faulty' \in BOOLEAN
    BY <1>0, <2>0, <2>2, <2>3
  <2>. QED
    BY <1>4, <2>1, ReadMoves DEF TypeOK, telegram, history
<1>5. ASSUME NEW r \in Runner, Crash(r) PROVE TypeOK'
  <2>1. stream' \in Seq(Entry) /\ Len(stream') = Len(stream)
    BY <1>5, EndEnds DEF Crash, Ends
  <2>. QED
    BY <1>5, <2>1 DEF Crash, TypeOK, consumers, telegram, history
<1>6. ASSUME NEW i \in 1 .. Len(stream), Task(i) \/ CallFails(i) PROVE TypeOK'
  <2>1. stream' \in Seq(Entry) /\ Len(stream') >= Len(stream) /\ UpdateOf(i) \in Update
    BY <1>0, <1>6, TaskMoves, EntryType DEF Moves, UpdateOf
  <2>2. read \in 0 .. Len(stream')
    BY <1>0, <2>1 DEF TypeOK
  <2>3. UNCHANGED <<consumers, telegram>>
    BY <1>6 DEF Task, TakeGlobal, TakeBot, Mark, Handle, Reply, Unmark, Requeue, Bury, Ack, CallFails
  <2>4. marks' \subseteq Update /\ dead' \subseteq Update /\ faulty' \in BOOLEAN
    BY <1>6, <2>1 DEF Task, TakeGlobal, TakeBot, Mark, Handle, Reply, Unmark, Requeue, Bury, Ack,
       CallFails, WithoutMark, TypeOK
  <2>5. /\ failures' \in [Update -> Nat] /\ handled' \in [Update -> Nat]
        /\ rooms' \in [Update -> Nat]
    <3>0. /\ [failures EXCEPT ![UpdateOf(i)] = @ + 1] \in [Update -> Nat]
          /\ [handled EXCEPT ![UpdateOf(i)] = @ + 1] \in [Update -> Nat]
          /\ [rooms EXCEPT ![UpdateOf(i)] = @ + 1] \in [Update -> Nat]
      BY <2>1 DEF TypeOK
    <3>1. CASE Handle(i) \/ Reply(i)
      <4>1. failures' \in {failures, [failures EXCEPT ![UpdateOf(i)] = @ + 1]}
        BY <3>1 DEF Handle, Reply, Succeeds, Fails, history
      <4>2. handled' \in {handled, [handled EXCEPT ![UpdateOf(i)] = @ + 1]}
        BY <3>1 DEF Handle, Reply, Succeeds, Fails, history
      <4>3. rooms' \in {rooms, [rooms EXCEPT ![UpdateOf(i)] = @ + 1]}
        BY <3>1 DEF Handle, Reply, Succeeds, Fails, history
      <4>. QED
        BY <3>0, <4>1, <4>2, <4>3 DEF TypeOK
    <3>2. CASE UNCHANGED history
      BY <3>2 DEF TypeOK, history
    <3>. QED
      BY <1>6, <3>1, <3>2 DEF Task, TakeGlobal, TakeBot, Mark, Unmark, Requeue, Bury, Ack, CallFails
  <2>. QED
    BY <2>1, <2>2, <2>3, <2>4, <2>5 DEF TypeOK, consumers, telegram
<1>. QED
  BY <1>1, <1>2, <1>3, <1>4, <1>5, <1>6 DEF Next

---------------------------------------------------------------------------
(* Which entries are queued, and which have a process.                     *)

\* Entries that only a step moves, or that are added at the end
LEMMA DeliveredMoves ==
    ASSUME TypeOK, Delivered, NEW i \in Nat, NEW s, Moves(i, s), UNCHANGED consumers,
           i \in 1 .. Len(stream) => s # "queued" /\ stream[i].step \notin {"queued", "acked", "gone"}
    PROVE  Delivered'
<1>0. Len(stream) \in Nat /\ read \in 0 .. Len(stream) /\ skipped \in Nat
  BY DEF TypeOK
<1>1. skipped' = skipped /\ read' = read /\ group' = group
  BY DEF consumers
<1>2. ASSUME NEW j \in 1 .. Len(stream')
      PROVE  /\ stream'[j].step = "queued" <=> j <= skipped \/ j > read
             /\ stream'[j].step \in {"queued", "acked", "gone"} <=> stream'[j].runner = None
  <2>1. CASE j \in 1 .. Len(stream)
    <3>1. /\ stream[j].step = "queued" <=> j <= skipped \/ j > read
          /\ stream[j].step \in {"queued", "acked", "gone"} <=> stream[j].runner = None
      BY <2>1 DEF Delivered
    <3>2. CASE j = i
      <4>1. /\ stream'[j].step = s
            /\ stream'[j].runner = IF s \in {"acked", "gone"} THEN None ELSE stream[j].runner
        BY <2>1, <3>2 DEF Moves
      <4>. QED
        BY <2>1, <3>1, <3>2, <4>1
    <3>3. CASE j # i
      BY <2>1, <3>1, <3>3 DEF Moves
    <3>. QED
      BY <3>2, <3>3
  <2>2. CASE j \notin 1 .. Len(stream)
    <3>1. j \in Len(stream) + 1 .. Len(stream') /\ j > read
      BY <1>0, <2>2 DEF Moves
    <3>2. stream'[j].step = "queued" /\ stream'[j].runner = None
      BY <3>1 DEF Moves
    <3>. QED
      BY <3>1, <3>2
  <2>. QED
    BY <2>1, <2>2
<1>. QED
  BY <1>1, <1>2 DEF Delivered

\* Entries of a process that ends, with those it was delivered to end with
LEMMA DeliveredEnds ==
    ASSUME TypeOK, Delivered, NEW r \in Runner, NEW n \in read .. Len(stream),
           Ends((read + 1 .. n) \cup TasksOf(r, TaskStep)), group' = group, skipped' = skipped,
           read' = n, group \/ n = read
    PROVE  Delivered'
<1>. DEFINE I == (read + 1 .. n) \cup TasksOf(r, TaskStep)
<1>0. /\ Len(stream) \in Nat /\ read \in 0 .. Len(stream) /\ skipped \in Nat
      /\ r # None /\ skipped <= read
  BY UpdateAssumption DEF TypeOK, Delivered
<1>1. Len(stream') = Len(stream)
  BY DEF Ends
<1>2. ASSUME NEW j \in 1 .. Len(stream)
      PROVE  /\ stream'[j].step = "queued" <=> j <= skipped \/ j > n
             /\ stream'[j].step \in {"queued", "acked", "gone"} <=> stream'[j].runner = None
  <2>1. /\ stream[j].step = "queued" <=> j <= skipped \/ j > read
        /\ stream[j].step \in {"queued", "acked", "gone"} <=> stream[j].runner = None
    BY DEF Delivered
  <2>2. CASE j \in I
    <3>1. stream'[j].step = "gone" /\ stream'[j].runner = None
      BY <2>2 DEF Ends
    <3>2. CASE j \in read + 1 .. n
      BY <1>0, <3>1, <3>2
    <3>3. CASE j \in TasksOf(r, TaskStep)
      <4>1. stream[j].runner # None
        BY <1>0, <3>3 DEF TasksOf
      <4>. QED
        BY <1>0, <2>1, <3>1, <4>1
    <3>. QED
      BY <2>2, <3>2, <3>3
  <2>3. CASE j \notin I
    <3>1. stream'[j].step = stream[j].step /\ stream'[j].runner = stream[j].runner
      BY <2>3 DEF Ends
    <3>2. j \notin read + 1 .. n
      BY <2>3
    <3>. QED
      BY <1>0, <2>1, <3>1, <3>2
  <2>. QED
    BY <2>2, <2>3
<1>3. skipped <= n /\ (~ group => n = 0)
  BY <1>0 DEF Delivered
<1>. QED
  BY <1>1, <1>2, <1>3 DEF Delivered

\* Entries that are spawned were queued.
LEMMA DeliveredSpawns ==
    ASSUME TypeOK, Delivered, NEW r \in Runner, NEW n \in read .. Len(stream),
           Spawns(read + 1 .. n, r), group, group' = group, skipped' = skipped, read' = n
    PROVE  Delivered'
<1>0. /\ Len(stream) \in Nat /\ read \in 0 .. Len(stream) /\ skipped \in Nat
      /\ r # None /\ skipped <= read
  BY UpdateAssumption DEF TypeOK, Delivered
<1>1. Len(stream') = Len(stream)
  BY DEF Spawns
<1>2. ASSUME NEW j \in 1 .. Len(stream)
      PROVE  /\ stream'[j].step = "queued" <=> j <= skipped \/ j > n
             /\ stream'[j].step \in {"queued", "acked", "gone"} <=> stream'[j].runner = None
  <2>1. /\ stream[j].step = "queued" <=> j <= skipped \/ j > read
        /\ stream[j].step \in {"queued", "acked", "gone"} <=> stream[j].runner = None
    BY DEF Delivered
  <2>2. CASE j \in read + 1 .. n
    <3>1. stream'[j].step = "spawned" /\ stream'[j].runner = r
      BY <2>2 DEF Spawns
    <3>. QED
      BY <1>0, <2>2, <3>1
  <2>3. CASE j \notin read + 1 .. n
    <3>1. stream'[j].step = stream[j].step /\ stream'[j].runner = stream[j].runner
      BY <2>3 DEF Spawns
    <3>. QED
      BY <1>0, <2>1, <2>3, <3>1
  <2>. QED
    BY <2>2, <2>3
<1>3. skipped <= n
  BY <1>0
<1>. QED
  BY <1>1, <1>2, <1>3 DEF Delivered

LEMMA DeliveredStep == TypeOK /\ Delivered /\ [Next]_vars => Delivered'
<1>. SUFFICES ASSUME TypeOK, Delivered, [Next]_vars PROVE Delivered'
  OBVIOUS
<1>0. Len(stream) \in Nat /\ read \in 0 .. Len(stream) /\ skipped \in Nat
  BY DEF TypeOK
<1>1. CASE UNCHANGED stream /\ UNCHANGED consumers
  BY <1>1 DEF Delivered, consumers
<1>2. ASSUME NEW u \in Update, Webhook(u) PROVE Delivered'
  <2>1. UNCHANGED consumers /\ (stream' = stream \/ stream' = Append(stream, NewEntry(u, 0)))
    BY <1>2 DEF Webhook
  <2>2. CASE stream' = Append(stream, NewEntry(u, 0))
    <3>1. Moves(0, "queued")
      BY <2>2, AppendMoves
    <3>2. 0 \in Nat /\ 0 \notin 1 .. Len(stream)
      BY <1>0
    <3>. QED
      BY <2>1, <3>1, <3>2, DeliveredMoves
  <2>. QED
    BY <1>1, <2>1, <2>2
<1>3. CASE CreateGroup
  <2>1. /\ group' = TRUE /\ skipped' = Len(stream) /\ read' = Len(stream) /\ stream' = stream
        /\ read = 0
    BY <1>3 DEF CreateGroup, Delivered
  <2>2. \A j \in 1 .. Len(stream) : stream[j].step = "queued" /\ stream[j].runner = None
    BY <1>0, <2>1 DEF Delivered
  <2>3. \A j \in 1 .. Len(stream) : j <= Len(stream)
    BY <1>0
  <2>. QED
    BY <1>0, <2>1, <2>2, <2>3 DEF Delivered
<1>4. ASSUME NEW r \in Runner, ReadEntries(r) PROVE Delivered'
  <2>1. /\ group /\ LastRead \in read .. Len(stream) /\ read' = LastRead
        /\ group' = group /\ skipped' = skipped
        /\ \/ Spawns(read + 1 .. LastRead, r)
           \/ Ends((read + 1 .. LastRead) \cup TasksOf(r, TaskStep))
    BY <1>4, ReadMoves
  <2>. QED
    BY <2>1, DeliveredSpawns, DeliveredEnds
<1>5. ASSUME NEW r \in Runner, Crash(r) PROVE Delivered'
  <2>1. UNCHANGED consumers /\ Ends(TasksOf(r, TaskStep))
    BY <1>5, EndEnds DEF Crash
  <2>2. (read + 1 .. read) \cup TasksOf(r, TaskStep) = TasksOf(r, TaskStep)
    <3>1. read + 1 .. read = {}
      BY <1>0
    <3>. QED
      BY <3>1
  <2>3. read \in read .. Len(stream)
    BY <1>0
  <2>4. Ends((read + 1 .. read) \cup TasksOf(r, TaskStep))
    BY <2>1, <2>2
  <2>5. group' = group /\ skipped' = skipped /\ read' = read
    BY <2>1 DEF consumers
  <2>. QED
    BY <2>3, <2>4, <2>5, DeliveredEnds
<1>6. ASSUME NEW i \in 1 .. Len(stream), Task(i) \/ CallFails(i) PROVE Delivered'
  <2>1. stream[i].step \notin {"queued", "acked", "gone"}
    BY <1>6, TaskMoves
  <2>2. PICK s \in TaskStep \ {"queued"} : Moves(i, s)
    BY <1>6, TaskMoves
  <2>3. UNCHANGED consumers
    BY <1>6 DEF Task, TakeGlobal, TakeBot, Mark, Handle, Reply, Unmark, Requeue, Bury, Ack, CallFails
  <2>4. i \in Nat
    BY <1>0
  <2>. QED
    BY <2>1, <2>2, <2>3, <2>4, DeliveredMoves
<1>. QED
  BY <1>1, <1>2, <1>3, <1>4, <1>5, <1>6 DEF Next, vars

---------------------------------------------------------------------------
(* Who holds the mark of an update.                                        *)

\* No entry comes to hold a mark.
NoNewHolder ==
    \A j \in 1 .. Len(stream') : stream'[j].step \in Holding =>
        /\ j \in 1 .. Len(stream) /\ stream[j].step \in Holding
        /\ stream'[j].update = stream[j].update

LEMMA MovesNoHolder ==
    ASSUME TypeOK, NEW i \in Nat, NEW s, Moves(i, s),
           i \in 1 .. Len(stream) => s \notin Holding \/ stream[i].step \in Holding
    PROVE  NoNewHolder
<1>0. Len(stream) \in Nat
  BY DEF TypeOK
<1>1. SUFFICES ASSUME NEW j \in 1 .. Len(stream'), stream'[j].step \in Holding
               PROVE  /\ j \in 1 .. Len(stream) /\ stream[j].step \in Holding
                      /\ stream'[j].update = stream[j].update
  BY DEF NoNewHolder
<1>2. CASE j \in Len(stream) + 1 .. Len(stream')
  <2>1. stream'[j].step = "queued"
    BY <1>2 DEF Moves
  <2>. QED
    BY <1>1, <2>1 DEF Holding
<1>3. CASE j \in 1 .. Len(stream)
  <2>1. /\ stream'[j].update = stream[j].update
        /\ j # i => stream'[j].step = stream[j].step
        /\ j = i => stream'[j].step = s
    BY <1>3 DEF Moves
  <2>. QED
    BY <1>1, <1>3, <2>1
<1>. QED
  BY <1>0, <1>2, <1>3

LEMMA OthersNoHolder ==
    ASSUME TypeOK, (\E I : Ends(I)) \/ (\E I, r : Spawns(I, r)) \/ stream' = stream
    PROVE  NoNewHolder
<1>1. CASE \E I : Ends(I)
  BY <1>1 DEF Ends, NoNewHolder, Holding
<1>2. CASE \E I, r : Spawns(I, r)
  BY <1>2 DEF Spawns, NoNewHolder, Holding
<1>3. CASE stream' = stream
  BY <1>3 DEF NoNewHolder
<1>. QED
  BY <1>1, <1>2, <1>3

\* What is not a step of a task leaves the marks and the histories alone.
LEMMA QuietSteps ==
    ASSUME TypeOK, [Next]_vars,
           ~ \E i \in 1 .. Len(stream) : Task(i) \/ CallFails(i)
    PROVE  /\ NoNewHolder /\ marks' = marks /\ dead' = dead /\ UNCHANGED history
           /\ \/ \E i \in Nat \ (1 .. Len(stream)) : \E s : Moves(i, s)
              \/ (\E I : Ends(I)) \/ (\E I, r : Spawns(I, r))
              \/ stream' = stream
<1>0. 0 \in Nat \ (1 .. Len(stream))
  BY DEF TypeOK
<1>1. CASE UNCHANGED vars
  BY <1>1, OthersNoHolder DEF vars
<1>2. ASSUME NEW u \in Update, Webhook(u)
      PROVE  /\ stream' = stream \/ Moves(0, "queued")
             /\ marks' = marks /\ dead' = dead /\ UNCHANGED history
  BY <1>2, AppendMoves DEF Webhook
<1>3. CASE CreateGroup
  BY <1>3, OthersNoHolder DEF CreateGroup
<1>4. ASSUME NEW r \in Runner, ReadEntries(r)
      PROVE  /\ (\E I : Ends(I)) \/ (\E I : Spawns(I, r))
             /\ marks' = marks /\ dead' = dead /\ UNCHANGED history
  BY <1>4, ReadMoves
<1>5. ASSUME NEW r \in Runner, Crash(r)
      PROVE  (\E I : Ends(I)) /\ marks' = marks /\ dead' = dead /\ UNCHANGED history
  BY <1>5, EndEnds DEF Crash
<1>6. Moves(0, "queued") => NoNewHolder
  BY <1>0, MovesNoHolder
<1>. QED
  BY <1>0, <1>1, <1>2, <1>3, <1>4, <1>5, <1>6, OthersNoHolder DEF Next

\* The only way to hold a mark is to set it.
LEMMA TaskHolders ==
    ASSUME TypeOK, NEW i \in 1 .. Len(stream), Task(i) \/ CallFails(i)
    PROVE  \/ /\ NoNewHolder
              /\ \/ marks \subseteq marks'
                 \/ /\ stream[i].step = "unmark" /\ stream'[i].step \notin Holding
                    /\ marks \ {UpdateOf(i)} \subseteq marks'
           \/ /\ stream[i].step = "mark" /\ Moves(i, "handle")
              /\ UpdateOf(i) \notin marks /\ marks' = marks \cup {UpdateOf(i)}
<1>0. i \in Nat
  BY DEF TypeOK
<1>. DEFINE Plain == {"global", "mark", "backoff", "bury", "ack", "acked", "gone"}
<1>1. ASSUME NEW s \in Plain, Moves(i, s)
      PROVE  NoNewHolder /\ stream'[i].step \notin Holding
  <2>1. s \notin Holding /\ stream'[i].step = s
    BY <1>1 DEF Holding, Moves
  <2>. QED
    BY <1>0, <1>1, <2>1, MovesNoHolder
<1>2. ASSUME NEW s, Moves(i, s), stream[i].step \in Holding PROVE NoNewHolder
  BY <1>0, <1>2, MovesNoHolder
<1>3. CASE Mark(i)
  <2>1. CASE Unmarked(UpdateOf(i)) /\ marks' = marks \cup {UpdateOf(i)} /\ Goto(i, "handle")
    BY <1>3, <2>1, EntryMoves DEF Mark, At, Unmarked
  <2>2. CASE Goto(i, "ack") /\ UNCHANGED marks
    BY <1>1, <2>2, EntryMoves
  <2>. QED
    BY <1>3, <2>1, <2>2 DEF Mark
<1>4. CASE TakeGlobal(i) \/ TakeBot(i) \/ Requeue(i) \/ Bury(i) \/ Ack(i)
  BY <1>1, <1>4, EntryMoves DEF TakeGlobal, TakeBot, Requeue, Bury, Ack
<1>5. CASE Handle(i) \/ Reply(i)
  <2>1. stream[i].step \in Holding /\ marks' = marks
    BY <1>5 DEF Handle, Reply, At, Holding
  <2>2. \E s \in TaskStep : Moves(i, s)
    BY <1>5, TaskMoves DEF Task
  <2>. QED
    BY <1>2, <2>1, <2>2
<1>6. CASE Unmark(i)
  <2>1. /\ stream[i].step = "unmark" /\ marks' = marks \ {UpdateOf(i)}
        /\ Moves(i, "bury") \/ Moves(i, "backoff")
    BY <1>6, EntryMoves DEF Unmark, At, WithoutMark
  <2>. QED
    BY <1>1, <2>1
<1>7. CASE CallFails(i)
  <2>1. Moves(i, "gone") \/ Moves(i, "acked")
    BY <1>7, EntryMoves DEF CallFails
  <2>2. marks \subseteq marks' \/ (stream[i].step = "unmark" /\ marks \ {UpdateOf(i)} \subseteq marks')
    BY <1>7 DEF CallFails, At
  <2>. QED
    BY <1>1, <2>1, <2>2
<1>. QED
  BY <1>3, <1>4, <1>5, <1>6, <1>7 DEF Task

\* Fewer holders, whose updates are still marked
LEMMA HoldersKept ==
    ASSUME OneHolder, NoNewHolder,
           \A j \in 1 .. Len(stream) :
              j \in 1 .. Len(stream') /\ stream[j].step \in Holding /\ stream'[j].step \in Holding =>
                 stream[j].update \in marks'
    PROVE  OneHolder'
<1>1. SUFFICES ASSUME NEW j \in 1 .. Len(stream'), stream'[j].step \in Holding
               PROVE  /\ stream'[j].update \in marks'
                      /\ \A k \in 1 .. Len(stream') :
                            stream'[k].step \in Holding /\ stream'[j].update = stream'[k].update => j = k
  BY DEF OneHolder, UpdateOf
<1>2. /\ j \in 1 .. Len(stream) /\ stream[j].step \in Holding
      /\ stream'[j].update = stream[j].update
  BY <1>1 DEF NoNewHolder
<1>3. stream[j].update \in marks'
  BY <1>1, <1>2
<1>4. ASSUME NEW k \in 1 .. Len(stream'), stream'[k].step \in Holding,
             stream'[j].update = stream'[k].update
      PROVE  j = k
  <2>1. /\ k \in 1 .. Len(stream) /\ stream[k].step \in Holding
        /\ stream'[k].update = stream[k].update
    BY <1>4 DEF NoNewHolder
  <2>. QED
    BY <1>2, <1>4, <2>1 DEF OneHolder, UpdateOf
<1>. QED
  BY <1>2, <1>3, <1>4

\* The one that sets the mark is the only one: nobody held it.
LEMMA HolderNew ==
    ASSUME TypeOK, OneHolder, NEW i \in 1 .. Len(stream), Moves(i, "handle"),
           UpdateOf(i) \notin marks, marks' = marks \cup {UpdateOf(i)}
    PROVE  OneHolder'
<1>0. Len(stream) \in Nat
  BY DEF TypeOK
<1>1. ASSUME NEW j \in 1 .. Len(stream'), stream'[j].step \in Holding
      PROVE  /\ j \in 1 .. Len(stream) /\ stream'[j].update = stream[j].update
             /\ j # i => stream[j].step \in Holding
  <2>1. j \in 1 .. Len(stream)
    <3>1. CASE j \in Len(stream) + 1 .. Len(stream')
      <4>1. stream'[j].step = "queued"
        BY <3>1 DEF Moves
      <4>. QED
        BY <1>1, <4>1 DEF Holding
    <3>. QED
      BY <1>0, <3>1
  <2>2. stream'[j].update = stream[j].update /\ (j # i => stream'[j].step = stream[j].step)
    BY <2>1 DEF Moves
  <2>. QED
    BY <1>1, <2>1, <2>2
<1>2. SUFFICES ASSUME NEW j \in 1 .. Len(stream'), stream'[j].step \in Holding
               PROVE  /\ stream'[j].update \in marks'
                      /\ \A k \in 1 .. Len(stream') :
                            stream'[k].step \in Holding /\ stream'[j].update = stream'[k].update => j = k
  BY DEF OneHolder, UpdateOf
<1>3. stream'[j].update \in marks'
  BY <1>1, <1>2 DEF OneHolder, UpdateOf
<1>4. ASSUME NEW k \in 1 .. Len(stream'), stream'[k].step \in Holding,
             stream'[j].update = stream'[k].update
      PROVE  j = k
  <2>1. /\ j \in 1 .. Len(stream) /\ (j # i => stream[j].step \in Holding)
        /\ k \in 1 .. Len(stream) /\ (k # i => stream[k].step \in Holding)
        /\ stream[j].update = stream[k].update
    BY <1>1, <1>2, <1>4
  <2>. QED
    BY <2>1 DEF OneHolder, UpdateOf
<1>. QED
  BY <1>3, <1>4

LEMMA OneHolderStep == TypeOK /\ OneHolder /\ [Next]_vars => OneHolder'
<1>. SUFFICES ASSUME TypeOK, OneHolder, [Next]_vars PROVE OneHolder'
  OBVIOUS
<1>1. CASE ~ \E i \in 1 .. Len(stream) : Task(i) \/ CallFails(i)
  <2>1. NoNewHolder /\ marks' = marks
    BY <1>1, QuietSteps
  <2>. QED
    BY <2>1, HoldersKept DEF OneHolder, UpdateOf
<1>2. ASSUME NEW i \in 1 .. Len(stream), Task(i) \/ CallFails(i) PROVE OneHolder'
  <2>1. CASE NoNewHolder /\ marks \subseteq marks'
    BY <2>1, HoldersKept DEF OneHolder, UpdateOf
  <2>2. CASE /\ NoNewHolder /\ stream[i].step = "unmark" /\ stream'[i].step \notin Holding
             /\ marks \ {UpdateOf(i)} \subseteq marks'
    <3>1. ASSUME NEW j \in 1 .. Len(stream), stream[j].step \in Holding, stream'[j].step \in Holding
          PROVE  stream[j].update \in marks'
      <4>1. j # i /\ stream[i].step \in Holding
        BY <2>2, <3>1 DEF Holding
      <4>2. UpdateOf(i) # UpdateOf(j) /\ UpdateOf(j) \in marks
        BY <3>1, <4>1 DEF OneHolder
      <4>. QED
        BY <2>2, <4>2 DEF UpdateOf
    <3>. QED
      BY <2>2, <3>1, HoldersKept
  <2>3. CASE /\ Moves(i, "handle") /\ UpdateOf(i) \notin marks
             /\ marks' = marks \cup {UpdateOf(i)}
    BY <2>3, HolderNew
  <2>. QED
    BY <1>2, <2>1, <2>2, <2>3, TaskHolders
<1>. QED
  BY <1>1, <1>2

---------------------------------------------------------------------------
(* What was done for an update.                                            *)

\* The other entries that hold a mark go on as they were.
OthersSame(i) ==
    \A j \in 1 .. Len(stream') : j # i /\ stream'[j].step \in Holding =>
        /\ j \in 1 .. Len(stream)
        /\ stream'[j].step = stream[j].step /\ stream'[j].update = stream[j].update

LEMMA MovesOthersSame ==
    ASSUME TypeOK, NEW i \in Nat, NEW s, Moves(i, s)
    PROVE  OthersSame(i)
<1>0. Len(stream) \in Nat
  BY DEF TypeOK
<1>1. SUFFICES ASSUME NEW j \in 1 .. Len(stream'), j # i, stream'[j].step \in Holding
               PROVE  /\ j \in 1 .. Len(stream)
                      /\ stream'[j].step = stream[j].step /\ stream'[j].update = stream[j].update
  BY DEF OthersSame
<1>2. CASE j \in Len(stream) + 1 .. Len(stream')
  <2>1. stream'[j].step = "queued"
    BY <1>2 DEF Moves
  <2>. QED
    BY <1>1, <2>1 DEF Holding
<1>3. CASE j \in 1 .. Len(stream)
  BY <1>1, <1>3 DEF Moves
<1>. QED
  BY <1>0, <1>2, <1>3

LEMMA QuietOthersSame ==
    ASSUME TypeOK, NEW i, NoNewHolder,
           \/ \E k \in Nat \ (1 .. Len(stream)) : \E s : Moves(k, s)
           \/ (\E I : Ends(I)) \/ (\E I, r : Spawns(I, r))
           \/ stream' = stream
    PROVE  OthersSame(i)
<1>0. ASSUME NEW j \in 1 .. Len(stream'), stream'[j].step \in Holding
      PROVE  /\ j \in 1 .. Len(stream)
             /\ stream'[j].step = stream[j].step /\ stream'[j].update = stream[j].update
  <2>0. j \in 1 .. Len(stream) /\ stream'[j].update = stream[j].update
    BY <1>0 DEF NoNewHolder
  <2>1. CASE \E k \in Nat \ (1 .. Len(stream)) : \E s : Moves(k, s)
    BY <2>0, <2>1 DEF Moves
  <2>2. CASE \E I : Ends(I)
    BY <1>0, <2>0, <2>2 DEF Ends, Holding
  <2>3. CASE \E I, r : Spawns(I, r)
    BY <1>0, <2>0, <2>3 DEF Spawns, Holding
  <2>. QED
    BY <2>0, <2>1, <2>2, <2>3
<1>. QED
  BY <1>0 DEF OthersSame

\* Nothing is done for other updates.
Elsewhere(u) ==
    \A v \in Update \ {u} :
        /\ handled'[v] = handled[v] /\ rooms'[v] = rooms[v] /\ failures'[v] = failures[v]
        /\ v \in marks' <=> v \in marks

\* A step of a task for its update u: nothing is counted, or it held the mark.
LEMMA CountedTask ==
    ASSUME TypeOK, Counted, OneHolder, NEW i \in 1 .. Len(stream), NEW s, Moves(i, s),
           NEW u \in Update, u = UpdateOf(i), Elsewhere(u),
           UNCHANGED history \/ stream[i].step \in Holding,
           handled'[u] <= 1, rooms'[u] <= failures'[u] + 1,
           u \notin marks' => handled'[u] = 0 /\ rooms'[u] <= failures'[u],
           s \in Holding => handled'[u] = 0 /\ (s # "reply" => rooms'[u] <= failures'[u])
    PROVE  Counted'
<1>1. ASSUME NEW v \in Update
      PROVE  /\ handled'[v] <= 1 /\ rooms'[v] <= failures'[v] + 1
             /\ v \notin marks' => handled'[v] = 0 /\ rooms'[v] <= failures'[v]
  <2>1. CASE v = u
    BY <2>1
  <2>2. CASE v # u
    BY <2>2 DEF Elsewhere, Counted
  <2>. QED
    BY <2>1, <2>2
<1>2. ASSUME NEW j \in 1 .. Len(stream'), stream'[j].step \in Holding
      PROVE  /\ handled'[stream'[j].update] = 0
             /\ stream'[j].step # "reply" => rooms'[stream'[j].update] <= failures'[stream'[j].update]
  <2>1. CASE j = i
    <3>1. stream'[j].step = s /\ stream'[j].update = u
      BY <2>1 DEF Moves, UpdateOf
    <3>. QED
      BY <1>2, <3>1
  <2>2. CASE j # i
    <3>1. i \in Nat
      BY DEF TypeOK
    <3>2. OthersSame(i)
      BY <3>1, MovesOthersSame
    <3>3. /\ j \in 1 .. Len(stream) /\ stream[j].step \in Holding
          /\ stream'[j].step = stream[j].step /\ stream'[j].update = stream[j].update
      BY <1>2, <2>2, <3>2 DEF OthersSame
    <3>4. /\ handled[stream[j].update] = 0
          /\ stream[j].step # "reply" => rooms[stream[j].update] <= failures[stream[j].update]
      BY <3>3 DEF Counted, UpdateOf
    <3>5. CASE UNCHANGED history
      BY <3>3, <3>4, <3>5 DEF history
    <3>6. CASE stream[i].step \in Holding
      <4>1. stream[j].update # u
        BY <2>2, <3>3, <3>6 DEF OneHolder, UpdateOf
      <4>2. stream[j].update \in Update
        BY <3>3, EntryType
      <4>. QED
        BY <3>3, <3>4, <4>1, <4>2 DEF Elsewhere
    <3>. QED
      BY <3>5, <3>6
  <2>. QED
    BY <2>1, <2>2
<1>. QED
  BY <1>1, <1>2 DEF Counted, UpdateOf

\* What the steps of a task do to the histories
LEMMA TaskHistory ==
    ASSUME TypeOK, NEW i \in 1 .. Len(stream), NEW u \in Update, u = UpdateOf(i)
    PROVE  /\ UNCHANGED <<history, marks>> => Elsewhere(u)
           /\ \A m \in {{u}, {}} : UNCHANGED history /\ marks' = marks \cup m => Elsewhere(u)
           /\ UNCHANGED history /\ marks' = marks \ {u} => Elsewhere(u)
           /\ Succeeds(i) /\ UNCHANGED <<rooms, marks>> =>
                 /\ Elsewhere(u) /\ handled'[u] = handled[u] + 1
                 /\ rooms' = rooms /\ failures' = failures
           /\ Fails(i) /\ marks' = marks /\ rooms' \in {rooms, [rooms EXCEPT ![UpdateOf(i)] = @ + 1]} =>
                 /\ Elsewhere(u) /\ failures'[u] = failures[u] + 1
                 /\ rooms'[u] \in {rooms[u], rooms[u] + 1} /\ handled' = handled
           /\ (rooms' = [rooms EXCEPT ![UpdateOf(i)] = @ + 1] /\ UNCHANGED <<failures, handled, marks>>) =>
                 Elsewhere(u) /\ rooms'[u] = rooms[u] + 1
<1>0. /\ failures \in [Update -> Nat] /\ handled \in [Update -> Nat] /\ rooms \in [Update -> Nat]
  BY DEF TypeOK
<1>1. UNCHANGED <<history, marks>> => Elsewhere(u)
  BY DEF history, Elsewhere
<1>2. \A m \in {{u}, {}} : UNCHANGED history /\ marks' = marks \cup m => Elsewhere(u)
  BY DEF history, Elsewhere
<1>3. UNCHANGED history /\ marks' = marks \ {u} => Elsewhere(u)
  BY DEF history, Elsewhere
<1>4. Succeeds(i) /\ UNCHANGED <<rooms, marks>> =>
          /\ Elsewhere(u) /\ handled'[u] = handled[u] + 1
          /\ rooms' = rooms /\ failures' = failures
  BY <1>0 DEF Succeeds, Elsewhere
<1>5. Fails(i) /\ marks' = marks /\ rooms' \in {rooms, [rooms EXCEPT ![UpdateOf(i)] = @ + 1]} =>
          /\ Elsewhere(u) /\ failures'[u] = failures[u] + 1
          /\ rooms'[u] \in {rooms[u], rooms[u] + 1} /\ handled' = handled
  BY <1>0 DEF Fails, Elsewhere
<1>6. (rooms' = [rooms EXCEPT ![UpdateOf(i)] = @ + 1] /\ UNCHANGED <<failures, handled, marks>>) =>
          Elsewhere(u) /\ rooms'[u] = rooms[u] + 1
  BY <1>0 DEF Elsewhere
<1>. QED
  BY <1>1, <1>2, <1>3, <1>4, <1>5, <1>6

LEMMA CountedHandle ==
    ASSUME TypeOK, Counted, OneHolder, NEW i \in 1 .. Len(stream), Handle(i) \/ Reply(i)
    PROVE  Counted'
<1>. DEFINE u == UpdateOf(i)
<1>0. /\ u \in Update /\ UpdateOf(i) \in marks /\ stream[i].step \in Holding
      /\ failures[u] \in Nat /\ handled[u] = 0 /\ rooms[u] \in Nat
      /\ stream[i].step # "reply" => rooms[u] <= failures[u]
      /\ rooms[u] <= failures[u] + 1
  <2>1. u \in Update
    BY EntryType DEF UpdateOf
  <2>2. stream[i].step \in Holding
    BY DEF Handle, Reply, At, Holding
  <2>3. failures[u] \in Nat /\ rooms[u] \in Nat
    BY <2>1 DEF TypeOK
  <2>4. UpdateOf(i) \in marks
    BY <2>2 DEF OneHolder
  <2>5. rooms[u] <= failures[u] + 1
    BY <2>1 DEF Counted
  <2>6. handled[u] = 0 /\ (stream[i].step # "reply" => rooms[u] <= failures[u])
    BY <2>2 DEF Counted
  <2>. QED
    BY <2>1, <2>2, <2>3, <2>4, <2>5, <2>6
<1>1. marks' = marks /\ u \in marks'
  BY <1>0 DEF Handle, Reply
<1>. USE <1>0, <1>1
<1>. HIDE DEF u
<1>2. u = UpdateOf(i)
  BY DEF u
<1>3. CASE Succeeds(i) /\ UNCHANGED rooms
  <2>1. Elsewhere(u) /\ handled'[u] = 1 /\ rooms' = rooms /\ failures' = failures
    BY <1>2, <1>3, TaskHistory
  <2>2. Moves(i, "ack") /\ "ack" \notin Holding
    BY <1>3, EntryMoves DEF Succeeds, Holding
  <2>. QED
    BY <1>2, <2>1, <2>2, CountedTask
<1>4. CASE /\ Fails(i) /\ rooms' \in {rooms, [rooms EXCEPT ![UpdateOf(i)] = @ + 1]}
           /\ Handle(i) \/ rooms' = rooms
  <2>0. Handle(i) => rooms[u] <= failures[u]
    BY DEF Handle, At
  <2>1. /\ Elsewhere(u) /\ failures'[u] = failures[u] + 1 /\ handled' = handled
        /\ rooms'[u] \in {rooms[u], rooms[u] + 1}
    BY <1>2, <1>4, TaskHistory
  <2>2. Moves(i, "unmark")
    BY <1>4, EntryMoves DEF Fails
  <2>3. rooms'[u] <= failures'[u] /\ rooms'[u] <= failures'[u] + 1 /\ handled'[u] <= 1 /\ handled'[u] = 0
    BY <1>4, <2>0, <2>1
  <2>. QED
    BY <1>2, <2>1, <2>2, <2>3, CountedTask
<1>5. CASE /\ Handle(i) /\ Goto(i, "reply") /\ UNCHANGED <<failures, handled>>
           /\ rooms' \in {rooms, [rooms EXCEPT ![UpdateOf(i)] = @ + 1]}
  <2>0. rooms[u] <= failures[u]
    BY <1>5 DEF Handle, At
  <2>1. Elsewhere(u) /\ rooms'[u] \in {rooms[u], rooms[u] + 1}
    BY <1>2, <1>5, TaskHistory DEF history
  <2>2. rooms'[u] <= failures'[u] + 1 /\ handled'[u] <= 1 /\ handled'[u] = 0
    BY <1>5, <2>0, <2>1
  <2>3. Moves(i, "reply")
    BY <1>5, EntryMoves
  <2>. QED
    BY <1>2, <2>1, <2>2, <2>3, CountedTask
<1>. QED
  BY <1>3, <1>4, <1>5 DEF Handle, Reply, history

LEMMA CountedStep == TypeOK /\ OneHolder /\ Counted /\ [Next]_vars => Counted'
<1>. SUFFICES ASSUME TypeOK, OneHolder, Counted, [Next]_vars PROVE Counted'
  OBVIOUS
<1>1. CASE ~ \E i \in 1 .. Len(stream) : Task(i) \/ CallFails(i)
  <2>1. marks' = marks /\ UNCHANGED history /\ NoNewHolder
    BY <1>1, QuietSteps
  <2>2. OthersSame(0)
    BY <1>1, QuietSteps, QuietOthersSame
  <2>3. \A j \in 1 .. Len(stream') : j # 0
    OBVIOUS
  <2>. QED
    BY <2>1, <2>2, <2>3 DEF Counted, OthersSame, UpdateOf, history
<1>2. ASSUME NEW i \in 1 .. Len(stream), Task(i) \/ CallFails(i), ~ Handle(i), ~ Reply(i)
      PROVE  Counted'
  <2>. DEFINE u == UpdateOf(i)
  <2>1. u \in Update /\ failures[u] \in Nat /\ rooms[u] \in Nat
    BY EntryType DEF TypeOK, UpdateOf
  <2>2. UNCHANGED history
    BY <1>2 DEF Task, TakeGlobal, TakeBot, Mark, Unmark, Requeue, Bury, Ack, CallFails
  <2>3. handled[u] <= 1 /\ rooms[u] <= failures[u] + 1
        /\ (u \notin marks => handled[u] = 0 /\ rooms[u] <= failures[u])
    BY <2>1 DEF Counted
  <2>4. \/ \E m \in {{u}, {}} : marks' = marks \cup m
        \/ marks' = marks \ {u} /\ stream[i].step = "unmark"
    BY <1>2 DEF Task, TakeGlobal, TakeBot, Mark, Unmark, Requeue, Bury, Ack, CallFails, WithoutMark, At
  <2>5. stream[i].step = "unmark" => handled[u] = 0 /\ rooms[u] <= failures[u]
    BY DEF Counted, Holding
  <2>6. \/ \E s \in TaskStep \ Holding : Moves(i, s)
        \/ Moves(i, "handle") /\ u \notin marks
    BY <1>2, EntryMoves DEF Task, TakeGlobal, TakeBot, Mark, Unmarked, Unmark, Requeue, Bury, Ack,
       CallFails, TaskStep, Holding
  <2>. HIDE DEF u
  <2>7. u = UpdateOf(i)
    BY DEF u
  <2>8. Elsewhere(u)
    BY <2>1, <2>2, <2>4, <2>7, TaskHistory
  <2>9. /\ handled'[u] <= 1 /\ rooms'[u] <= failures'[u] + 1
        /\ u \notin marks' => handled'[u] = 0 /\ rooms'[u] <= failures'[u]
    BY <2>2, <2>3, <2>4, <2>5 DEF history
  <2>10. CASE \E s \in TaskStep \ Holding : Moves(i, s)
    BY <2>1, <2>2, <2>7, <2>8, <2>9, <2>10, CountedTask
  <2>11. CASE Moves(i, "handle") /\ u \notin marks
    <3>1. handled'[u] = 0 /\ rooms'[u] <= failures'[u]
      BY <2>2, <2>3, <2>11 DEF history
    <3>. QED
      BY <2>1, <2>2, <2>7, <2>8, <2>9, <2>11, <3>1, CountedTask
  <2>. QED
    BY <2>6, <2>10, <2>11
<1>. QED
  BY <1>1, <1>2, CountedHandle

---------------------------------------------------------------------------
(* How often an update was tried.                                          *)

LEMMA FailuresGrow ==
    ASSUME TypeOK, [Next]_vars, NEW v \in Update
    PROVE  failures[v] \in Nat /\ failures'[v] \in Nat /\ failures[v] <= failures'[v]
<1>0. failures \in [Update -> Nat] /\ failures[v] \in Nat
  BY DEF TypeOK
<1>1. CASE failures' = failures
  BY <1>0, <1>1
<1>2. ASSUME NEW i \in 1 .. Len(stream), Handle(i) \/ Reply(i), failures' # failures
      PROVE  failures[v] <= failures'[v] /\ failures'[v] \in Nat
  <2>1. failures' = [failures EXCEPT ![UpdateOf(i)] = @ + 1]
    BY <1>2 DEF Handle, Reply, Succeeds, Fails, history
  <2>. QED
    BY <1>0, <2>1
<1>3. ASSUME NEW i \in 1 .. Len(stream), Task(i) \/ CallFails(i), ~ Handle(i), ~ Reply(i)
      PROVE  failures' = failures
  BY <1>3 DEF Task, TakeGlobal, TakeBot, Mark, Unmark, Requeue, Bury, Ack, CallFails, history
<1>4. ASSUME ~ \E i \in 1 .. Len(stream) : Task(i) \/ CallFails(i)
      PROVE  failures' = failures
  BY <1>4, QuietSteps DEF history
<1>. QED
  BY <1>0, <1>1, <1>2, <1>3, <1>4

\* What the entries there were say stays true when more failed.
LEMMA TriedMoves ==
    ASSUME TypeOK, Tried, [Next]_vars, NEW i \in Nat, NEW s, Moves(i, s),
           i \in 1 .. Len(stream) =>
              /\ s \in {"unmark", "backoff", "bury"} => stream[i].attempt + 1 <= failures'[UpdateOf(i)]
              /\ s = "bury" => stream[i].attempt + 1 >= MaxAttempts,
           \A j \in Len(stream) + 1 .. Len(stream') :
              stream'[j].attempt <= failures'[stream'[j].update],
           \A u \in dead' : u \in dead \/ failures'[u] >= MaxAttempts
    PROVE  Tried'
<1>0. Len(stream) \in Nat /\ MaxAttempts \in Nat /\ dead \subseteq Update
  BY LimitAssumption DEF TypeOK
<1>1. ASSUME NEW u \in dead' PROVE failures'[u] >= MaxAttempts
  <2>1. CASE u \in dead
    <3>1. failures[u] >= MaxAttempts
      BY <2>1 DEF Tried, DeadMeansTried
    <3>2. failures[u] \in Nat /\ failures'[u] \in Nat /\ failures[u] <= failures'[u]
      BY <1>0, <2>1, FailuresGrow
    <3>. QED
      BY <1>0, <3>1, <3>2
  <2>. QED
    BY <1>1, <2>1
<1>2. ASSUME NEW j \in 1 .. Len(stream')
      PROVE  /\ stream'[j].attempt <= failures'[stream'[j].update]
             /\ stream'[j].step \in {"unmark", "backoff", "bury"} =>
                   stream'[j].attempt + 1 <= failures'[stream'[j].update]
             /\ stream'[j].step = "bury" => stream'[j].attempt + 1 >= MaxAttempts
  <2>1. CASE j \in 1 .. Len(stream)
    <3>0. /\ stream[j].attempt \in Nat /\ stream[j].update \in Update
          /\ stream'[j].update = stream[j].update /\ stream'[j].attempt = stream[j].attempt
      BY <2>1, EntryType DEF Moves
    <3>1. /\ failures[stream[j].update] \in Nat /\ failures'[stream[j].update] \in Nat
          /\ failures[stream[j].update] <= failures'[stream[j].update]
      BY <3>0, FailuresGrow
    <3>2. /\ stream[j].attempt <= failures[stream[j].update]
          /\ stream[j].step \in {"unmark", "backoff", "bury"} =>
                stream[j].attempt + 1 <= failures[stream[j].update]
          /\ stream[j].step = "bury" => stream[j].attempt + 1 >= MaxAttempts
      BY <2>1 DEF Tried, UpdateOf
    <3>3. stream'[j].attempt <= failures'[stream'[j].update]
      BY <3>0, <3>1, <3>2
    <3>4. CASE j = i
      <4>1. stream'[j].step = s
        BY <2>1, <3>4 DEF Moves
      <4>. QED
        BY <2>1, <3>0, <3>3, <3>4, <4>1 DEF UpdateOf
    <3>5. CASE j # i
      <4>1. stream'[j].step = stream[j].step
        BY <2>1, <3>5 DEF Moves
      <4>2. stream'[j].step \in {"unmark", "backoff", "bury"} =>
               stream[j].attempt + 1 <= failures'[stream[j].update]
        BY <3>0, <3>1, <3>2, <4>1
      <4>. QED
        BY <3>0, <3>2, <3>3, <4>1, <4>2
    <3>. QED
      BY <3>4, <3>5
  <2>2. CASE j \in Len(stream) + 1 .. Len(stream')
    BY <2>2 DEF Moves
  <2>. QED
    BY <1>0, <2>1, <2>2
<1>. QED
  BY <1>1, <1>2 DEF Tried, DeadMeansTried, UpdateOf

\* No failure, no new entry
LEMMA TriedKept ==
    ASSUME TypeOK, Tried, UNCHANGED history, dead' = dead,
           stream' = stream \/ (\E I : Ends(I)) \/ (\E I, r : Spawns(I, r))
    PROVE  Tried'
<1>1. ASSUME NEW j \in 1 .. Len(stream')
      PROVE  /\ j \in 1 .. Len(stream)
             /\ stream'[j].update = stream[j].update /\ stream'[j].attempt = stream[j].attempt
             /\ stream'[j].step \in {stream[j].step, "gone", "spawned"}
  BY <1>1 DEF Ends, Spawns
<1>2. failures' = failures
  BY DEF history
<1>3. ASSUME NEW j \in 1 .. Len(stream')
      PROVE  /\ stream'[j].attempt <= failures'[stream'[j].update]
             /\ stream'[j].step \in {"unmark", "backoff", "bury"} =>
                   stream'[j].attempt + 1 <= failures'[stream'[j].update]
             /\ stream'[j].step = "bury" => stream'[j].attempt + 1 >= MaxAttempts
  <2>1. /\ j \in 1 .. Len(stream)
        /\ stream'[j].update = stream[j].update /\ stream'[j].attempt = stream[j].attempt
        /\ stream'[j].step \in {stream[j].step, "gone", "spawned"}
    BY <1>1
  <2>2. /\ stream[j].attempt <= failures[stream[j].update]
        /\ stream[j].step \in {"unmark", "backoff", "bury"} =>
              stream[j].attempt + 1 <= failures[stream[j].update]
        /\ stream[j].step = "bury" => stream[j].attempt + 1 >= MaxAttempts
    BY <2>1 DEF Tried, UpdateOf
  <2>. QED
    BY <1>2, <2>1, <2>2
<1>. QED
  BY <1>2, <1>3 DEF Tried, DeadMeansTried, UpdateOf

LEMMA LengthKept ==
    ASSUME TypeOK, NEW i \in 1 .. Len(stream)
    PROVE  /\ \A s : Goto(i, s) \/ Leave(i, s) => Len(stream') = Len(stream)
           /\ \A f : Len(stream') = Len(stream) =>
                 \A j \in Len(stream) + 1 .. Len(stream') : stream'[j].attempt <= f[stream'[j].update]
<1>1. stream \in Seq(Entry) /\ Len(stream) \in Nat
  BY DEF TypeOK
<1>2. \A s : Goto(i, s) => Len(stream') = Len(stream)
  BY <1>1 DEF Goto
<1>3. \A s : Leave(i, s) => Len(stream') = Len(stream)
  BY <1>1 DEF Leave
<1>4. Len(stream') = Len(stream) => Len(stream) + 1 .. Len(stream') = {}
  BY <1>1
<1>. QED
  BY <1>2, <1>3, <1>4

\* A failed update goes on with one failure more than it was tried before.
LEMMA TriedTask ==
    ASSUME TypeOK, Tried, [Next]_vars, NEW i \in 1 .. Len(stream), Task(i) \/ CallFails(i)
    PROVE  Tried'
<1>. DEFINE u == UpdateOf(i)
            n == stream[i].attempt
<1>0. /\ u \in Update /\ n \in Nat /\ MaxAttempts \in Nat /\ i \in Nat
      /\ failures[u] \in Nat /\ failures'[u] \in Nat /\ failures[u] <= failures'[u]
  BY EntryType, FailuresGrow, LimitAssumption DEF UpdateOf
<1>1. /\ n <= failures[u]
      /\ stream[i].step \in {"unmark", "backoff", "bury"} => n + 1 <= failures[u]
      /\ stream[i].step = "bury" => n + 1 >= MaxAttempts
  BY DEF Tried
<1>3. UpdateOf(i) = u
  OBVIOUS
<1>4. u = stream[i].update /\ n = stream[i].attempt
  BY DEF UpdateOf
<1>. HIDE DEF u, n
<1>. DEFINE Safe == {"global", "mark", "handle", "reply", "ack", "acked", "gone"}
<1>5. ASSUME NEW s \in Safe, Moves(i, s), dead' = dead, Len(stream') = Len(stream) PROVE Tried'
  <2>1. \A j \in Len(stream) + 1 .. Len(stream') : stream'[j].attempt <= failures'[stream'[j].update]
    BY <1>5, LengthKept
  <2>2. s \notin {"unmark", "backoff", "bury"}
    OBVIOUS
  <2>. QED
    BY <1>0, <1>5, <2>1, <2>2, TriedMoves
<1>6. CASE TakeGlobal(i) \/ TakeBot(i) \/ Mark(i) \/ Ack(i)
  <2>1. (\E s \in Safe : Moves(i, s)) /\ Len(stream') = Len(stream) /\ dead' = dead
    BY <1>6, EntryMoves, LengthKept DEF TakeGlobal, TakeBot, Mark, Ack
  <2>. QED
    BY <1>5, <2>1
<1>7. CASE Handle(i) \/ Reply(i)
  <2>0. dead' = dead
    BY <1>7 DEF Handle, Reply
  <2>1. CASE Goto(i, "reply") \/ Goto(i, "ack")
    <3>1. (\E s \in Safe : Moves(i, s)) /\ Len(stream') = Len(stream)
      BY <2>1, EntryMoves, LengthKept
    <3>. QED
      BY <1>5, <2>0, <3>1
  <2>2. CASE Fails(i)
    <3>1. Moves(i, "unmark") /\ Len(stream') = Len(stream)
      BY <2>2, EntryMoves, LengthKept DEF Fails
    <3>2. failures'[u] = failures[u] + 1
      BY <1>0, <1>3, <2>2 DEF Fails, TypeOK
    <3>3. n + 1 <= failures'[u]
      BY <1>0, <1>1, <3>2
    <3>4. \A j \in Len(stream) + 1 .. Len(stream') : stream'[j].attempt <= failures'[stream'[j].update]
      BY <3>1, LengthKept
    <3>. QED
      BY <1>0, <1>3, <1>4, <2>0, <3>1, <3>3, <3>4, TriedMoves
  <2>. QED
    BY <1>7, <2>1, <2>2 DEF Handle, Reply, Succeeds
<1>8. CASE Unmark(i)
  <2>1. /\ stream[i].step = "unmark" /\ dead' = dead /\ Len(stream') = Len(stream)
        /\ \/ Moves(i, "bury") /\ LastAttempt(i)
           \/ Moves(i, "backoff")
    BY <1>8, EntryMoves, LengthKept DEF Unmark, At
  <2>2. n + 1 <= failures'[u] /\ (LastAttempt(i) => n + 1 >= MaxAttempts)
    BY <1>0, <1>1, <1>4, <2>1 DEF LastAttempt
  <2>3. \A j \in Len(stream) + 1 .. Len(stream') : stream'[j].attempt <= failures'[stream'[j].update]
    BY <2>1, LengthKept
  <2>. QED
    BY <1>0, <1>3, <1>4, <2>1, <2>2, <2>3, TriedMoves
<1>9. ASSUME stream[i].step = "backoff", NEW s \in {"ack", "gone"}, Moves(i, s), dead' = dead,
             Len(stream') = Len(stream) + 1,
             stream'[Len(stream) + 1] = NewEntry(UpdateOf(i), stream[i].attempt + 1)
      PROVE  Tried'
  <2>1. n + 1 <= failures'[u]
    BY <1>0, <1>1, <1>9
  <2>2. \A j \in Len(stream) + 1 .. Len(stream') : stream'[j].attempt <= failures'[stream'[j].update]
    <3>1. Len(stream) \in Nat
      BY DEF TypeOK
    <3>2. stream'[Len(stream) + 1].attempt = n + 1 /\ stream'[Len(stream) + 1].update = u
      BY <1>3, <1>4, <1>9 DEF NewEntry
    <3>. QED
      BY <1>9, <2>1, <3>1, <3>2
  <2>. QED
    BY <1>0, <1>9, <2>2, TriedMoves
<1>10. CASE Requeue(i)
  BY <1>9, <1>10, EntryMoves DEF Requeue, At
<1>11. ASSUME stream[i].step = "bury", NEW s \in {"ack", "gone"}, Moves(i, s),
              dead' \subseteq dead \cup {UpdateOf(i)}, Len(stream') = Len(stream)
       PROVE  Tried'
  <2>1. failures'[u] >= MaxAttempts
    BY <1>0, <1>1, <1>11
  <2>2. \A v \in dead' : v \in dead \/ failures'[v] >= MaxAttempts
    BY <1>3, <1>11, <2>1
  <2>3. \A j \in Len(stream) + 1 .. Len(stream') : stream'[j].attempt <= failures'[stream'[j].update]
    BY <1>11, LengthKept
  <2>. QED
    BY <1>0, <1>11, <2>2, <2>3, TriedMoves
<1>12. CASE Bury(i)
  BY <1>11, <1>12, EntryMoves, LengthKept DEF Bury, At
<1>13. CASE CallFails(i)
  <2>1. CASE dead' = dead /\ (Leave(i, "gone") \/ Leave(i, "acked"))
    <3>1. (\E s \in Safe : Moves(i, s)) /\ Len(stream') = Len(stream)
      BY <2>1, EntryMoves, LengthKept
    <3>. QED
      BY <1>5, <2>1, <3>1
  <2>2. CASE At(i, "bury") /\ Leave(i, "gone") /\ dead' \in {dead, dead \cup {UpdateOf(i)}}
    BY <1>11, <2>2, EntryMoves, LengthKept DEF At
  <2>3. CASE /\ At(i, "backoff") /\ dead' = dead
             /\ stream' = Append([stream EXCEPT ![i].step = "gone", ![i].runner = None],
                                 NewEntry(UpdateOf(i), stream[i].attempt + 1))
    BY <1>9, <2>3, EntryMoves DEF At
  <2>. QED
    BY <1>13, <2>1, <2>2, <2>3 DEF CallFails
<1>. QED
  BY <1>6, <1>7, <1>8, <1>10, <1>12, <1>13 DEF Task

LEMMA TriedStep == TypeOK /\ Tried /\ [Next]_vars => Tried'
<1>. SUFFICES ASSUME TypeOK, Tried, [Next]_vars PROVE Tried'
  OBVIOUS
<1>1. ASSUME NEW u \in Update, Webhook(u), stream' # stream PROVE Tried'
  <2>0. /\ Moves(0, "queued") /\ Len(stream') = Len(stream) + 1
        /\ stream'[Len(stream) + 1] = NewEntry(u, 0) /\ dead' = dead
    BY <1>1, AppendMoves DEF Webhook
  <2>1. 0 \in Nat /\ 0 \notin 1 .. Len(stream) /\ Len(stream) \in Nat
    BY DEF TypeOK
  <2>2. failures'[u] \in Nat
    BY FailuresGrow
  <2>3. \A j \in Len(stream) + 1 .. Len(stream') : stream'[j].attempt <= failures'[stream'[j].update]
    BY <2>0, <2>1, <2>2 DEF NewEntry
  <2>. QED
    BY <2>0, <2>1, <2>3, TriedMoves
<1>2. CASE stream' = stream /\ dead' = dead /\ UNCHANGED history
  BY <1>2, TriedKept
<1>3. ASSUME NEW r \in Runner, ReadEntries(r) PROVE Tried'
  <2>1. /\ dead' = dead /\ UNCHANGED history
        /\ (\E I : Ends(I)) \/ (\E I : Spawns(I, r))
    BY <1>3, ReadMoves
  <2>. QED
    BY <2>1, TriedKept
<1>4. ASSUME NEW r \in Runner, Crash(r) PROVE Tried'
  <2>1. dead' = dead /\ UNCHANGED history /\ \E I : Ends(I)
    BY <1>4, EndEnds DEF Crash
  <2>. QED
    BY <2>1, TriedKept
<1>5. CASE UNCHANGED vars \/ CreateGroup \/ \E u \in Update : Webhook(u) /\ stream' = stream
  BY <1>2, <1>5 DEF vars, CreateGroup, Webhook
<1>. QED
  BY <1>1, <1>3, <1>4, <1>5, TriedTask DEF Next

---------------------------------------------------------------------------
(* While no call fails and no process ends.                                *)

\* Entry j is as it was.
Stays(j) ==
    /\ j \in 1 .. Len(stream')
    /\ stream'[j].step = stream[j].step /\ stream'[j].update = stream[j].update

LEMMA CleanTask ==
    ASSUME TypeOK, NEW i \in 1 .. Len(stream), Task(i), NEW j \in 1 .. Len(stream), j # i
    PROVE  Stays(j)
<1>1. PICK s : Moves(i, s)
  BY TaskMoves
<1>2. j \in 1 .. Len(stream')
  BY <1>1 DEF Moves, TypeOK
<1>. QED
  BY <1>1, <1>2 DEF Moves, Stays

LEMMA CleanRead ==
    ASSUME TypeOK, Delivered, NEW r \in Runner, ReadEntries(r), ~ faulty', NEW j \in 1 .. Len(stream)
    PROVE  Stays(j) \/ /\ j \in 1 .. Len(stream') /\ stream[j].step = "queued"
                       /\ stream'[j].step = "spawned" /\ stream'[j].update = stream[j].update
<1>1. Spawns(read + 1 .. LastRead, r) /\ LastRead \in read .. Len(stream)
  BY ReadMoves
<1>2. j \in read + 1 .. LastRead => stream[j].step = "queued"
  <2>1. j \in read + 1 .. LastRead => j > read
    BY <1>1 DEF TypeOK
  <2>. QED
    BY <2>1 DEF Delivered
<1>. QED
  BY <1>1, <1>2 DEF Spawns, Stays

\* A fault is remembered.
LEMMA FaultyStays ==
    ASSUME TypeOK, [Next]_vars, ~ faulty'
    PROVE  /\ ~ faulty
           /\ \/ UNCHANGED vars \/ CreateGroup
              \/ \E u \in Update : Webhook(u)
              \/ \E r \in Runner : ReadEntries(r)
              \/ \E i \in 1 .. Len(stream) : Task(i)
<1>1. ~ \E r \in Runner : Crash(r)
  BY DEF Crash
<1>2. ~ \E i \in 1 .. Len(stream) : CallFails(i)
  BY DEF CallFails
<1>3. \/ UNCHANGED vars \/ CreateGroup
      \/ \E u \in Update : Webhook(u)
      \/ \E r \in Runner : ReadEntries(r)
      \/ \E i \in 1 .. Len(stream) : Task(i)
  BY <1>1, <1>2 DEF Next
<1>4. ASSUME NEW r \in Runner, ReadEntries(r) PROVE ~ faulty
  BY <1>4, ReadMoves
<1>5. CASE UNCHANGED vars \/ CreateGroup \/ \E u \in Update : Webhook(u)
  BY <1>5 DEF vars, CreateGroup, Webhook
<1>6. ASSUME NEW i \in 1 .. Len(stream), Task(i) PROVE ~ faulty
  BY <1>6 DEF Task, TakeGlobal, TakeBot, Mark, Handle, Reply, Unmark, Requeue, Bury, Ack
<1>. QED
  BY <1>3, <1>4, <1>5, <1>6

\* What was done stays done.
LEMMA HandledGrows ==
    ASSUME TypeOK, [Next]_vars, NEW u \in Update, handled[u] > 0
    PROVE  handled'[u] > 0
<1>0. handled \in [Update -> Nat] /\ handled[u] \in Nat
  BY DEF TypeOK
<1>1. ASSUME NEW i \in 1 .. Len(stream), Task(i) \/ CallFails(i), handled' # handled
      PROVE  handled' = [handled EXCEPT ![UpdateOf(i)] = @ + 1]
  BY <1>1 DEF Task, TakeGlobal, TakeBot, Mark, Handle, Reply, Succeeds, Fails, Unmark, Requeue, Bury,
     Ack, CallFails, history
<1>2. ASSUME ~ \E i \in 1 .. Len(stream) : Task(i) \/ CallFails(i) PROVE handled' = handled
  BY <1>2, QuietSteps DEF history
<1>3. ASSUME NEW v, handled' = [handled EXCEPT ![v] = @ + 1] PROVE handled'[u] > 0
  BY <1>0, <1>3
<1>. QED
  BY <1>1, <1>2, <1>3

\* Who has the mark keeps it, handles the update or takes the mark off.
LEMMA HolderGoes ==
    ASSUME TypeOK, NEW i \in 1 .. Len(stream), Task(i)
    PROVE  /\ i \in 1 .. Len(stream') /\ stream'[i].update = stream[i].update
           /\ marks' \subseteq marks \cup {UpdateOf(i)}
           /\ stream[i].step \in Holding \/ UpdateOf(i) \notin marks =>
                 \/ stream'[i].step \in Holding
                 \/ handled'[UpdateOf(i)] > 0
                 \/ UpdateOf(i) \notin marks'
<1>1. PICK s : Moves(i, s)
  BY TaskMoves
<1>2. i \in 1 .. Len(stream') /\ stream'[i].update = stream[i].update
  BY <1>1 DEF Moves, TypeOK
<1>3. \A t : Moves(i, t) => stream'[i].step = t
  BY DEF Moves
<1>4. CASE Mark(i)
  <2>1. \/ marks' = marks \cup {UpdateOf(i)} /\ Goto(i, "handle")
        \/ marks' = marks /\ UpdateOf(i) \in marks
    BY <1>4 DEF Mark, Unmarked
  <2>2. stream[i].step \notin Holding
    BY <1>4 DEF Mark, At, Holding
  <2>3. Goto(i, "handle") => stream'[i].step \in Holding
    BY <1>3, EntryMoves DEF Holding
  <2>. QED
    BY <1>2, <2>1, <2>2, <2>3
<1>5. CASE Handle(i) \/ Reply(i)
  <2>1. marks' = marks
    BY <1>5 DEF Handle, Reply
  <2>2. CASE Goto(i, "reply") \/ Goto(i, "unmark")
    <3>1. stream'[i].step \in Holding
      BY <1>3, <2>2, EntryMoves DEF Holding
    <3>. QED
      BY <1>2, <2>1, <3>1
  <2>3. CASE Succeeds(i)
    <3>1. UpdateOf(i) \in Update
      BY EntryType DEF UpdateOf
    <3>2. handled'[UpdateOf(i)] > 0
      BY <2>3, <3>1 DEF Succeeds, TypeOK
    <3>. QED
      BY <1>2, <2>1, <3>2
  <2>. QED
    BY <1>5, <2>2, <2>3 DEF Handle, Reply, Fails
<1>6. CASE Unmark(i)
  <2>1. marks' = marks \ {UpdateOf(i)}
    BY <1>6 DEF Unmark, WithoutMark
  <2>. QED
    BY <1>2, <2>1
<1>7. CASE TakeGlobal(i) \/ TakeBot(i) \/ Requeue(i) \/ Bury(i) \/ Ack(i)
  <2>1. marks' = marks /\ stream[i].step \notin Holding
    BY <1>7 DEF TakeGlobal, TakeBot, Requeue, Bury, Ack, At, Holding
  <2>. QED
    BY <1>2, <2>1
<1>. QED
  BY <1>4, <1>5, <1>6, <1>7 DEF Task

LEMMA MarkIsHeldStep == TypeOK /\ Delivered /\ MarkIsHeld /\ [Next]_vars => MarkIsHeld'
<1>. SUFFICES ASSUME TypeOK, Delivered, MarkIsHeld, [Next]_vars, ~ faulty', NEW u \in marks'
              PROVE  handled'[u] > 0 \/
                     \E j \in 1 .. Len(stream') : stream'[j].update = u /\ stream'[j].step \in Holding
  BY DEF MarkIsHeld, UpdateOf
<1>0. ~ faulty
  BY FaultyStays
<1>1. ASSUME marks' = marks,
             \A j \in 1 .. Len(stream) : stream[j].step \in Holding => Stays(j)
      PROVE  handled'[u] > 0 \/
             \E j \in 1 .. Len(stream') : stream'[j].update = u /\ stream'[j].step \in Holding
  <2>1. u \in marks /\ u \in Update
    BY <1>1 DEF TypeOK
  <2>2. CASE handled[u] > 0
    BY <2>1, <2>2, HandledGrows
  <2>3. CASE \E j \in 1 .. Len(stream) : UpdateOf(j) = u /\ stream[j].step \in Holding
    BY <1>1, <2>3 DEF Stays, UpdateOf
  <2>. QED
    BY <1>0, <2>1, <2>2, <2>3 DEF MarkIsHeld
<1>2. CASE stream' = stream /\ marks' = marks
  BY <1>1, <1>2 DEF Stays
<1>3. ASSUME NEW v \in Update, Webhook(v), stream' # stream
      PROVE  marks' = marks /\ \A j \in 1 .. Len(stream) : Stays(j)
  <2>1. marks' = marks /\ Moves(0, "queued") /\ Len(stream') = Len(stream) + 1
    BY <1>3, AppendMoves DEF Webhook
  <2>2. Len(stream) \in Nat
    BY DEF TypeOK
  <2>3. \A j \in 1 .. Len(stream) : j # 0 /\ j \in 1 .. Len(stream')
    BY <2>1, <2>2
  <2>. QED
    BY <2>1, <2>3 DEF Moves, Stays
<1>4. ASSUME NEW r \in Runner, ReadEntries(r)
      PROVE  marks' = marks /\ \A j \in 1 .. Len(stream) : stream[j].step \in Holding => Stays(j)
  <2>1. marks' = marks
    BY <1>4 DEF ReadEntries
  <2>2. "queued" \notin Holding
    BY DEF Holding
  <2>. QED
    BY <1>4, <2>1, <2>2, CleanRead
<1>5. ASSUME NEW i \in 1 .. Len(stream), Task(i)
      PROVE  handled'[u] > 0 \/
             \E j \in 1 .. Len(stream') : stream'[j].update = u /\ stream'[j].step \in Holding
  <2>0. u \in marks \/ u = UpdateOf(i)
    BY <1>5, HolderGoes
  <2>1. CASE u = UpdateOf(i) /\ (stream[i].step \in Holding \/ u \notin marks)
    <3>1. /\ i \in 1 .. Len(stream') /\ stream'[i].update = u
          /\ stream'[i].step \in Holding \/ handled'[u] > 0
      BY <1>5, <2>1, HolderGoes DEF UpdateOf
    <3>. QED
      BY <3>1
  <2>2. CASE u \in marks /\ handled[u] > 0
    <3>1. u \in Update
      BY <2>2 DEF TypeOK
    <3>. QED
      BY <2>2, <3>1, HandledGrows
  <2>3. ASSUME NEW j \in 1 .. Len(stream), j # i, UpdateOf(j) = u, stream[j].step \in Holding
        PROVE  \E k \in 1 .. Len(stream') : stream'[k].update = u /\ stream'[k].step \in Holding
    <3>1. Stays(j)
      BY <1>5, <2>3, CleanTask
    <3>. QED
      BY <2>3, <3>1 DEF Stays, UpdateOf
  <2>. QED
    BY <1>0, <2>0, <2>1, <2>2, <2>3 DEF MarkIsHeld
<1>6. CASE UNCHANGED vars \/ CreateGroup \/ \E v \in Update : Webhook(v) /\ stream' = stream
  BY <1>2, <1>6 DEF vars, CreateGroup, Webhook
<1>. QED
  BY <1>1, <1>3, <1>4, <1>5, <1>6, FaultyStays

\* Entry i goes on, settled its update, or leaves it to another entry.
LEMMA PendingGoes ==
    ASSUME TypeOK, Delivered, MarkIsHeld, ~ faulty, NEW i \in 1 .. Len(stream), i > skipped,
           Task(i), [Next]_vars, stream[i].step \in Alive
    PROVE  \/ handled'[UpdateOf(i)] > 0 \/ UpdateOf(i) \in dead'
           \/ \E j \in skipped + 1 .. Len(stream') :
                 stream'[j].update = UpdateOf(i) /\ stream'[j].step \in Alive
<1>0. /\ UpdateOf(i) \in Update /\ Len(stream) \in Nat /\ skipped \in Nat
      /\ skipped <= Len(stream)
  BY EntryType DEF UpdateOf, TypeOK
<1>1. PICK s : Moves(i, s)
  BY TaskMoves
<1>2. /\ i \in 1 .. Len(stream') /\ stream'[i].update = UpdateOf(i)
      /\ \A t : Moves(i, t) => stream'[i].step = t
  BY <1>0, <1>1 DEF Moves, UpdateOf
<1>3. i \in skipped + 1 .. Len(stream')
  BY <1>0, <1>2
<1>4. CASE TakeGlobal(i) \/ TakeBot(i) \/ Unmark(i)
  <2>1. Moves(i, "global") \/ Moves(i, "mark") \/ Moves(i, "bury") \/ Moves(i, "backoff")
    BY <1>4, EntryMoves DEF TakeGlobal, TakeBot, Unmark
  <2>2. stream'[i].step \in Alive
    BY <1>2, <2>1 DEF Alive, TaskStep
  <2>. QED
    BY <1>2, <1>3, <2>2
<1>5. CASE Mark(i)
  <2>1. CASE Goto(i, "handle")
    <3>1. stream'[i].step \in Alive
      BY <1>2, <2>1, EntryMoves DEF Alive, TaskStep
    <3>. QED
      BY <1>2, <1>3, <3>1
  <2>2. CASE UpdateOf(i) \in marks
    <3>1. CASE handled[UpdateOf(i)] > 0
      BY <1>0, <3>1, HandledGrows
    <3>2. ASSUME NEW j \in 1 .. Len(stream), UpdateOf(j) = UpdateOf(i), stream[j].step \in Holding
          PROVE  \E k \in skipped + 1 .. Len(stream') :
                    stream'[k].update = UpdateOf(i) /\ stream'[k].step \in Alive
      <4>1. j # i /\ stream[j].step # "queued" /\ stream[j].step \in Alive
        BY <1>5, <3>2 DEF Mark, At, Holding, Alive, TaskStep
      <4>2. Stays(j)
        BY <4>1, CleanTask
      <4>3. j > skipped
        <5>1. ~ (j <= skipped)
          BY <3>2, <4>1 DEF Delivered
        <5>. QED
          BY <1>0, <5>1
      <4>4. j \in skipped + 1 .. Len(stream')
        BY <1>0, <4>2, <4>3 DEF Stays
      <4>. QED
        BY <3>2, <4>1, <4>2, <4>4 DEF Stays, UpdateOf
    <3>. QED
      BY <2>2, <3>1, <3>2 DEF MarkIsHeld
  <2>. QED
    BY <1>5, <2>1, <2>2 DEF Mark, Unmarked
<1>6. CASE Handle(i) \/ Reply(i)
  <2>1. CASE Goto(i, "reply") \/ Goto(i, "unmark")
    <3>1. stream'[i].step \in Alive
      BY <1>2, <2>1, EntryMoves DEF Alive, TaskStep
    <3>. QED
      BY <1>2, <1>3, <3>1
  <2>2. CASE Succeeds(i)
    BY <1>0, <2>2 DEF Succeeds, TypeOK
  <2>. QED
    BY <1>6, <2>1, <2>2 DEF Handle, Reply, Fails
<1>7. CASE Requeue(i)
  <2>1. /\ Len(stream') = Len(stream) + 1
        /\ stream'[Len(stream) + 1] = NewEntry(UpdateOf(i), stream[i].attempt + 1)
    BY <1>7, EntryMoves DEF Requeue
  <2>2. stream'[Len(stream) + 1].update = UpdateOf(i) /\ stream'[Len(stream) + 1].step \in Alive
    BY <2>1 DEF NewEntry, Alive, TaskStep
  <2>3. Len(stream) + 1 \in skipped + 1 .. Len(stream')
    BY <1>0, <2>1
  <2>. QED
    BY <2>2, <2>3
<1>8. CASE Bury(i)
  BY <1>8 DEF Bury
<1>9. CASE Ack(i)
  BY <1>9 DEF Ack, At, Alive
<1>. QED
  BY <1>4, <1>5, <1>6, <1>7, <1>8, <1>9 DEF Task

LEMMA DeadGrows == TypeOK /\ [Next]_vars => dead \subseteq dead'
<1>. SUFFICES ASSUME TypeOK, [Next]_vars PROVE dead \subseteq dead'
  OBVIOUS
<1>1. CASE ~ \E i \in 1 .. Len(stream) : Task(i) \/ CallFails(i)
  BY <1>1, QuietSteps
<1>2. ASSUME NEW i \in 1 .. Len(stream), Task(i) \/ CallFails(i) PROVE dead \subseteq dead'
  BY <1>2 DEF Task, TakeGlobal, TakeBot, Mark, Handle, Reply, Unmark, Requeue, Bury, Ack, CallFails
<1>. QED
  BY <1>1, <1>2

\* Entries are never taken out, and carry what they carry.
LEMMA UpdatesStay ==
    ASSUME TypeOK, [Next]_vars, NEW j \in 1 .. Len(stream)
    PROVE  j \in 1 .. Len(stream') /\ stream'[j].update = stream[j].update
<1>0. Len(stream) \in Nat
  BY DEF TypeOK
<1>1. CASE (\E i, s : Moves(i, s)) \/ (\E I : Ends(I)) \/ (\E I, r : Spawns(I, r)) \/ stream' = stream
  <2>1. Len(stream') \in {Len(stream), Len(stream) + 1} /\ stream'[j].update = stream[j].update
    BY <1>0, <1>1 DEF Moves, Ends, Spawns
  <2>. QED
    BY <1>0, <2>1
<1>2. ASSUME NEW i \in 1 .. Len(stream), Task(i) \/ CallFails(i) PROVE \E s : Moves(i, s)
  BY <1>2, TaskMoves
<1>3. ASSUME ~ \E i \in 1 .. Len(stream) : Task(i) \/ CallFails(i)
      PROVE  (\E i, s : Moves(i, s)) \/ (\E I : Ends(I)) \/ (\E I, r : Spawns(I, r)) \/ stream' = stream
  <2>1. \/ \E i \in Nat \ (1 .. Len(stream)) : \E s : Moves(i, s)
        \/ (\E I : Ends(I)) \/ (\E I, r : Spawns(I, r)) \/ stream' = stream
    BY <1>3, QuietSteps
  <2>. QED
    BY <2>1
<1>. QED
  BY <1>1, <1>2, <1>3

LEMMA NothingForgottenStep ==
    TypeOK /\ Delivered /\ MarkIsHeld /\ NothingForgotten /\ [Next]_vars => NothingForgotten'
<1>. SUFFICES ASSUME TypeOK, Delivered, MarkIsHeld, NothingForgotten, [Next]_vars, ~ faulty',
                     NEW u \in accepted'
              PROVE  \/ handled'[u] > 0 \/ u \in dead'
                     \/ \E j \in 1 .. skipped' : stream'[j].update = u
                     \/ \E j \in skipped' + 1 .. Len(stream') :
                           stream'[j].update = u /\ stream'[j].step \in Alive
  BY DEF NothingForgotten, Settled, Skipped, Pending, UpdateOf
<1>. DEFINE Done == handled'[u] > 0 \/ u \in dead'
            Lost == \E j \in 1 .. skipped' : stream'[j].update = u
            Waits == \E j \in skipped' + 1 .. Len(stream') :
                        stream'[j].update = u /\ stream'[j].step \in Alive
<1>. SUFFICES Done \/ Lost \/ Waits
  OBVIOUS
<1>0. /\ ~ faulty /\ Len(stream) \in Nat /\ skipped \in Nat /\ read \in 0 .. Len(stream)
      /\ skipped <= read
  BY FaultyStays DEF TypeOK, Delivered
<1>1. skipped' \in Nat /\ skipped <= skipped' /\ (~ CreateGroup => skipped' = skipped)
  <2>1. CreateGroup => skipped' = Len(stream)
    BY DEF CreateGroup
  <2>2. ~ CreateGroup => skipped' = skipped
    BY DEF Next, vars, Webhook, ReadEntries, Crash, Task, TakeGlobal, TakeBot, Mark, Handle, Reply,
       Unmark, Requeue, Bury, Ack, CallFails, consumers
  <2>. QED
    BY <1>0, <2>1, <2>2
<1>2. CASE u \in accepted /\ Settled(u)
  <2>1. u \in Update
    BY <1>2 DEF TypeOK
  <2>. QED
    BY <1>2, <2>1, HandledGrows, DeadGrows DEF Settled
<1>3. CASE Skipped(u)
  <2>1. PICK j \in 1 .. skipped : UpdateOf(j) = u
    BY <1>3 DEF Skipped
  <2>2. j \in 1 .. Len(stream) /\ j \in 1 .. skipped'
    BY <1>0, <1>1
  <2>. QED
    BY <2>1, <2>2, UpdatesStay DEF UpdateOf
<1>4. ASSUME NEW j \in skipped + 1 .. Len(stream), UpdateOf(j) = u, stream[j].step \in Alive
      PROVE  Done \/ Lost \/ Waits
  <2>0. j \in 1 .. Len(stream) /\ j > skipped
    BY <1>0
  <2>1. j \in 1 .. Len(stream') /\ stream'[j].update = u
    BY <1>4, <2>0, UpdatesStay DEF UpdateOf
  <2>2. CASE CreateGroup
    <3>1. skipped' = Len(stream)
      BY <2>2 DEF CreateGroup
    <3>. QED
      BY <2>0, <2>1, <3>1
  <2>. SUFFICES ASSUME ~ CreateGroup PROVE Done \/ Lost \/ Waits
    BY <2>2
  <2>3. skipped' = skipped /\ j \in skipped' + 1 .. Len(stream')
    BY <1>0, <1>1, <2>0, <2>1
  <2>4. CASE stream'[j].step \in Alive
    BY <2>1, <2>3, <2>4
  <2>5. CASE UNCHANGED vars
    BY <1>4, <2>4, <2>5 DEF vars
  <2>6. ASSUME NEW v \in Update, Webhook(v) PROVE stream'[j].step \in Alive
    <3>1. j # 0
      BY <2>0
    <3>2. stream' = stream \/ Moves(0, "queued")
      BY <2>6, AppendMoves DEF Webhook
    <3>. QED
      BY <1>4, <2>0, <3>1, <3>2 DEF Moves
  <2>7. ASSUME NEW r \in Runner, ReadEntries(r) PROVE stream'[j].step \in Alive
    <3>1. "spawned" \in Alive
      BY DEF Alive, TaskStep
    <3>. QED
      BY <1>4, <2>0, <2>7, <3>1, CleanRead DEF Stays
  <2>8. ASSUME NEW i \in 1 .. Len(stream), Task(i) PROVE Done \/ Lost \/ Waits
    <3>1. CASE i = j
      <4>1. \/ handled'[u] > 0 \/ u \in dead'
            \/ \E k \in skipped + 1 .. Len(stream') :
                  stream'[k].update = u /\ stream'[k].step \in Alive
        BY <1>0, <1>4, <2>0, <2>8, <3>1, PendingGoes
      <4>. QED
        BY <2>3, <4>1
    <3>2. CASE i # j
      <4>1. Stays(j)
        BY <2>0, <2>8, <3>2, CleanTask
      <4>. QED
        BY <1>4, <2>4, <4>1 DEF Stays
    <3>. QED
      BY <3>1, <3>2
  <2>. QED
    BY <2>4, <2>5, <2>6, <2>7, <2>8, FaultyStays
<1>5. ASSUME u \notin accepted PROVE Waits
  <2>1. PICK v \in Update : Webhook(v)
    BY <1>5, FaultyStays DEF vars, telegram, CreateGroup, ReadEntries, Task, TakeGlobal, TakeBot,
       Mark, Handle, Reply, Unmark, Requeue, Bury, Ack
  <2>2. u = v /\ stream' = Append(stream, NewEntry(v, 0)) /\ skipped' = skipped
    BY <1>5, <2>1 DEF Webhook, consumers
  <2>3. Len(stream') = Len(stream) + 1 /\ stream'[Len(stream) + 1] = NewEntry(v, 0)
    BY <2>2, AppendMoves
  <2>4. stream'[Len(stream) + 1].update = u /\ stream'[Len(stream) + 1].step \in Alive
    BY <2>2, <2>3 DEF NewEntry, Alive, TaskStep
  <2>5. Len(stream) + 1 \in skipped' + 1 .. Len(stream')
    BY <1>0, <2>2, <2>3
  <2>. QED
    BY <2>4, <2>5
<1>6. u \in accepted => Settled(u) \/ Skipped(u) \/ Pending(u)
  BY <1>0 DEF NothingForgotten
<1>. QED
  BY <1>2, <1>3, <1>4, <1>5, <1>6 DEF Pending

---------------------------------------------------------------------------
(* The theorems.                                                           *)

LEMMA InvInit == Init => Inv
<1>. SUFFICES ASSUME Init PROVE Inv
  OBVIOUS
<1>1. /\ stream = <<>> /\ Len(stream) = 0 /\ 1 .. Len(stream) = {}
  BY DEF Init
<1>2. TypeOK
  <2>1. stream \in Seq(Entry) /\ read \in 0 .. Len(stream) /\ skipped \in Nat
    BY <1>1 DEF Init
  <2>2. /\ sends \in [Update -> Nat] /\ failures \in [Update -> Nat]
        /\ handled \in [Update -> Nat] /\ rooms \in [Update -> Nat]
    BY DEF Init
  <2>. QED
    BY <2>1, <2>2 DEF Init, TypeOK
<1>3. Delivered
  BY <1>1 DEF Init, Delivered
<1>4. OneHolder /\ MarkIsHeld /\ NothingForgotten
  BY <1>1 DEF Init, OneHolder, MarkIsHeld, NothingForgotten
<1>5. Counted
  BY <1>1 DEF Init, Counted
<1>6. Tried
  BY <1>1 DEF Init, Tried, DeadMeansTried
<1>. QED
  BY <1>2, <1>3, <1>4, <1>5, <1>6 DEF Inv

LEMMA Invariant == Spec => []Inv
<1>1. Init => Inv
  BY InvInit
<1>2. Inv /\ [Next]_vars => Inv'
  BY TypeStep, DeliveredStep, OneHolderStep, CountedStep, TriedStep, MarkIsHeldStep,
     NothingForgottenStep DEF Inv
<1>. QED
  BY <1>1, <1>2, PTL DEF Spec

\* The state of the queue keeps its types: entries carry an update that was
\* sent and a count of attempts, and the group has read no further than the
\* stream is long (bot_ingress handle_webhook, bot_runner run_loop and
\* process_entry).
THEOREM TypeCorrect == Spec => []TypeOK
<1>1. Inv => TypeOK
  BY DEF Inv
<1>. QED
  BY <1>1, Invariant, PTL

\* However often Telegram sends an update, whichever processes read it and
\* whatever calls fail, at most one task is between the SET NX of its
\* idempotency key and the end of handling it (bot_runner process_entry).
THEOREM HandledByOne == Spec => []OneHandlerAtATime
<1>1. Inv => OneHandlerAtATime
  BY DEF Inv, OneHolder, OneHandlerAtATime, Holding
<1>. QED
  BY <1>1, Invariant, PTL

\* An update is handled successfully at most once, and each room created for
\* it after the first was preceded by a failure of handling it (bot_runner
\* process_entry and handle_update).
THEOREM HandledAtMostOnce == Spec => []HandledOnce
<1>1. Inv => HandledOnce
  BY DEF Inv, Counted, HandledOnce
<1>. QED
  BY <1>1, Invariant, PTL

\* No update becomes a dead letter before it failed BOT_QUEUE_MAX_ATTEMPTS
\* times (bot_runner process_entry, retry and dead letters).
THEOREM DeadLettersWereTried == Spec => []DeadMeansTried
<1>1. Inv => DeadMeansTried
  BY DEF Inv, Tried
<1>. QED
  BY <1>1, Invariant, PTL

\* While no call of a runner fails and no process ends, every update that the
\* webhook answered with 200 after the group was made is settled or waits in
\* an entry, though entries of a marked update are dropped (bot_ingress
\* handle_webhook, bot_runner process_entry).
THEOREM NothingIsForgotten == Spec => []NothingForgotten
<1>1. Inv => NothingForgotten
  BY DEF Inv
<1>. QED
  BY <1>1, Invariant, PTL
===========================================================================
