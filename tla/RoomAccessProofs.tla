------------------------- MODULE RoomAccessProofs -------------------------
(***************************************************************************)
(* What is proved of RoomAccess, for any number of clients, rooms, pins,   *)
(* tokens, tickets, requests and retries.                                  *)
(*                                                                         *)
(* Ids are drawn at random, so who drew one is the only one to write it.   *)
(* Everything follows from where an id can be by then: a ticket is stored, *)
(* in the hands of one who consumed it, or spent; a token is written for   *)
(* the last time before anybody can read it from its room and delete it.   *)
(***************************************************************************)
EXTENDS RoomAccess, TLAPS

---------------------------------------------------------------------------
(* Types.                                                                  *)

\* Pins, invites and tickets open rooms, rooms name their invite.
Kinds ==
    /\ \A k \in Pin \cup Token \cup Ticket : redis[k] \in Room \cup {None}
    /\ \A r \in Room : redis[r] \in Token \cup {None}

\* The commands that write
WriteCommand(cmd) ==
    \/ cmd.op = "SETNX" /\ cmd.key \in Pin /\ cmd.value \in Room
    \/ cmd.op = "SET" /\ cmd.key \in Token \cup Ticket /\ cmd.value \in Room
    \/ cmd.op = "SET" /\ cmd.key \in Room /\ cmd.value \in Token
    \/ cmd.op = "DEL" /\ cmd.key \in Token /\ cmd.value = None
    \/ cmd.op = "CONSUME" /\ cmd.key \in Ticket /\ cmd.value = None

\* What a request at step s knows
Local(s, r) ==
    /\ s = "idle" => r = NoRequest
    /\ s \in {"reservePin", "insert"} => r.op = "create"
    /\ s \in {"readToken", "deleteOld"} => r.op = "regenerate"
    /\ s \in {"writeInvite", "writeToken"} => r.op \in {"create", "regenerate"}
    /\ s \in {"lookup", "writeTicket"} => r.op = "issue"
    /\ s \in {"consume", "enter"} => r.op = "join"
    /\ r.op = "create" => r.room \in Room /\ r.from \in Pin /\ r.token \in Token /\ r.previous = None
    /\ r.op = "regenerate" => r.room \in Room /\ (s # "readToken" => r.token \in Token)
    /\ s = "deleteOld" => r.previous \in Token
    /\ s = "readToken" => r.token = None /\ r.previous = None
    /\ r.op = "issue" => r.from \in Pin \cup Token
    /\ s = "writeTicket" => r.room \in Room /\ r.ticket \in Ticket
    /\ r.op \in {"issue", "join"} => r.token = None /\ r.previous = None
    /\ s \in {"consume", "enter"} => r.ticket \in Ticket
    /\ s \notin {"writeTicket", "consume", "enter"} => r.ticket = None

Types ==
    /\ TypeOK /\ Kinds
    /\ \A cmd \in late : WriteCommand(cmd)
    /\ \A c \in Client : Local(step[c], req[c])

\* Fields of a request
LEMMA RequestType ==
    ASSUME Types, NEW c \in Client
    PROVE  /\ req[c] \in Request /\ step[c] \in Step /\ Local(step[c], req[c])
           /\ req[c].room \in Room \cup {None} /\ req[c].from \in Pin \cup Token \cup {None}
           /\ req[c].token \in Token \cup {None} /\ req[c].previous \in Token \cup {None}
           /\ req[c].ticket \in Ticket \cup {None} /\ req[c].aged \in BOOLEAN
           /\ req[c].attempt \in 0 .. MaxRetries
<1>1. req[c] \in Request /\ step[c] \in Step /\ Local(step[c], req[c])
  BY DEF Types, TypeOK
<1>. QED
  BY <1>1 DEF Request

LEMMA KeyKinds ==
    /\ None \notin Key /\ Key = Pin \cup Token \cup Room \cup Ticket
    /\ \A k \in Key : /\ k \in Pin => k \notin Token \cup Room \cup Ticket
                      /\ k \in Token => k \notin Pin \cup Room \cup Ticket
                      /\ k \in Room => k \notin Pin \cup Token \cup Ticket
                      /\ k \in Ticket => k \notin Pin \cup Token \cup Room
BY KindsAssumption DEF Key

\* A request is as another but for the attempts.
Like(a, b) ==
    /\ a \in Request
    /\ a.op = b.op /\ a.room = b.room /\ a.from = b.from /\ a.token = b.token
    /\ a.previous = b.previous /\ a.ticket = b.ticket /\ a.aged = b.aged

\* Client c goes on to step s, the others stay.
Becomes(c, s, r) ==
    /\ step'[c] = s /\ Like(req'[c], r)
    /\ step' \in [Client -> Step] /\ req' \in [Client -> Request]
    /\ \A d \in Client : d # c => step'[d] = step[d] /\ req'[d] = req[d]

LEMMA GotoBecomes ==
    ASSUME Types, NEW c \in Client, NEW s \in Step, NEW r \in Request, Goto(c, s, r)
    PROVE  Becomes(c, s, r)
BY DEF Goto, Becomes, Like, Types, TypeOK

LEMMA ProceedBecomes ==
    ASSUME Types, NEW c \in Client, NEW s \in Step, NEW r \in Request, Proceed(c, s, r)
    PROVE  Becomes(c, s, r)
<1>1. 0 \in 0 .. MaxRetries
  BY BoundsAssumption
<1>2. [r EXCEPT !.attempt = 0] \in Request /\ Like([r EXCEPT !.attempt = 0], r)
  BY <1>1 DEF Request, Like
<1>3. Becomes(c, s, [r EXCEPT !.attempt = 0])
  BY <1>2, GotoBecomes DEF Proceed
<1>. QED
  BY <1>2, <1>3 DEF Becomes, Like

LEMMA FinishBecomes ==
    ASSUME Types, NEW c \in Client, Finish(c)
    PROVE  Becomes(c, "idle", NoRequest) /\ req'[c] = NoRequest
<1>1. NoRequest \in Request
  BY BoundsAssumption DEF NoRequest, Request
<1>2. "idle" \in Step
  BY DEF Step
<1>3. req'[c] = NoRequest
  BY DEF Finish, Goto, Types, TypeOK
<1>. QED
  BY <1>1, <1>2, <1>3, GotoBecomes DEF Finish

---------------------------------------------------------------------------
(* What a command does.                                                    *)

LEMMA Commands ==
    ASSUME NEW c \in Client
    PROVE  /\ step[c] = "reservePin" =>
                 Command(c) = [op |-> "SETNX", key |-> req[c].from, value |-> req[c].room]
           /\ step[c] = "readToken" => Command(c) = [op |-> "GET", key |-> req[c].room, value |-> None]
           /\ step[c] = "writeInvite" =>
                 Command(c) = [op |-> "SET", key |-> req[c].token, value |-> req[c].room]
           /\ step[c] = "writeToken" =>
                 Command(c) = [op |-> "SET", key |-> req[c].room, value |-> req[c].token]
           /\ step[c] = "deleteOld" =>
                 Command(c) = [op |-> "DEL", key |-> req[c].previous, value |-> None]
           /\ step[c] = "lookup" => Command(c) = [op |-> "GET", key |-> req[c].from, value |-> None]
           /\ step[c] = "writeTicket" =>
                 Command(c) = [op |-> "SET", key |-> req[c].ticket, value |-> req[c].room]
           /\ step[c] = "consume" =>
                 Command(c) = [op |-> "CONSUME", key |-> req[c].ticket, value |-> None]
BY DEF Command

LEMMA CommandWrites ==
    ASSUME Types, NEW c \in Client, step[c] \in Calling
    PROVE  \/ Command(c).op = "GET" /\ step[c] \in {"readToken", "lookup"}
           \/ WriteCommand(Command(c)) /\ Command(c).op \in {"SET", "SETNX", "DEL", "CONSUME"}
<1>. DEFINE cmd == Command(c)
<1>1. Local(step[c], req[c]) /\ req[c].from \in Pin \cup Token \cup {None}
  BY RequestType
<1>2. CASE step[c] = "reservePin"
  <2>1. cmd.op = "SETNX" /\ cmd.key = req[c].from /\ cmd.value = req[c].room
    BY <1>2, Commands
  <2>. QED
    BY <1>1, <1>2, <2>1 DEF Local, WriteCommand
<1>3. CASE step[c] \in {"readToken", "lookup"}
  BY <1>3, Commands
<1>4. CASE step[c] = "writeInvite"
  <2>1. cmd.op = "SET" /\ cmd.key = req[c].token /\ cmd.value = req[c].room
    BY <1>4, Commands
  <2>. QED
    BY <1>1, <1>4, <2>1 DEF Local, WriteCommand
<1>5. CASE step[c] = "writeToken"
  <2>1. cmd.op = "SET" /\ cmd.key = req[c].room /\ cmd.value = req[c].token
    BY <1>5, Commands
  <2>. QED
    BY <1>1, <1>5, <2>1 DEF Local, WriteCommand
<1>6. CASE step[c] = "deleteOld"
  <2>1. cmd.op = "DEL" /\ cmd.key = req[c].previous /\ cmd.value = None
    BY <1>6, Commands
  <2>. QED
    BY <1>1, <1>6, <2>1 DEF Local, WriteCommand
<1>7. CASE step[c] = "writeTicket"
  <2>1. cmd.op = "SET" /\ cmd.key = req[c].ticket /\ cmd.value = req[c].room
    BY <1>7, Commands
  <2>. QED
    BY <1>1, <1>7, <2>1 DEF Local, WriteCommand
<1>8. CASE step[c] = "consume"
  <2>1. cmd.op = "CONSUME" /\ cmd.key = req[c].ticket /\ cmd.value = None
    BY <1>8, Commands
  <2>. QED
    BY <1>1, <1>8, <2>1 DEF Local, WriteCommand
<1>. QED
  BY <1>2, <1>3, <1>4, <1>5, <1>6, <1>7, <1>8 DEF Calling

\* A write keeps the kinds of the keys.
LEMMA KindsKept ==
    ASSUME Types, redis' \in [Key -> Room \cup Token \cup {None}],
           \/ redis' = redis
           \/ \E cmd : WriteCommand(cmd) /\ Execute(cmd)
           \/ \E k \in Key : redis' = [redis EXCEPT ![k] = None]
    PROVE  Kinds'
<1>0. Kinds /\ redis \in [Key -> Room \cup Token \cup {None}]
  BY DEF Types, TypeOK
<1>1. CASE redis' = redis
  BY <1>0, <1>1 DEF Kinds
<1>2. ASSUME NEW cmd, WriteCommand(cmd), redis' = [redis EXCEPT ![cmd.key] = cmd.value]
      PROVE  Kinds'
  <2>1. ASSUME NEW k \in Key, redis'[k] # redis[k] PROVE k = cmd.key /\ redis'[k] = cmd.value
    BY <1>0, <1>2, <2>1
  <2>2. ASSUME NEW k \in Pin \cup Token \cup Ticket PROVE redis'[k] \in Room \cup {None}
    <3>1. k \in Key /\ redis[k] \in Room \cup {None}
      BY <1>0, <2>2 DEF Kinds, Key
    <3>2. cmd.key = k => cmd.value \in Room \cup {None}
      BY <1>2, <2>2, KeyKinds, <3>1 DEF WriteCommand
    <3>. QED
      BY <2>1, <3>1, <3>2
  <2>3. ASSUME NEW r \in Room PROVE redis'[r] \in Token \cup {None}
    <3>1. r \in Key /\ redis[r] \in Token \cup {None}
      BY <1>0 DEF Kinds, Key
    <3>2. cmd.key = r => cmd.value \in Token \cup {None}
      BY <1>2, KeyKinds, <3>1 DEF WriteCommand
    <3>. QED
      BY <2>1, <3>1, <3>2
  <2>. QED
    BY <2>2, <2>3 DEF Kinds
<1>3. ASSUME NEW k \in Key, redis' = [redis EXCEPT ![k] = None] PROVE Kinds'
  <2>1. \A j \in Key : redis'[j] \in {redis[j], None}
    BY <1>0, <1>3
  <2>2. Pin \cup Token \cup Ticket \subseteq Key /\ Room \subseteq Key
    BY DEF Key
  <2>. QED
    BY <1>0, <2>1, <2>2 DEF Kinds
<1>. QED
  BY <1>1, <1>2, <1>3 DEF Execute

LEMMA ExecuteType ==
    ASSUME Types, NEW cmd, WriteCommand(cmd) \/ cmd.op = "GET", Execute(cmd)
    PROVE  /\ redis' \in [Key -> Room \cup Token \cup {None}]
           /\ Kinds'
<1>0. redis \in [Key -> Room \cup Token \cup {None}]
  BY DEF Types, TypeOK
<1>1. CASE redis' = redis
  BY <1>0, <1>1, KindsKept
<1>2. CASE WriteCommand(cmd)
  <2>1. cmd.value \in Room \cup Token \cup {None}
    BY <1>2 DEF WriteCommand
  <2>2. redis' \in [Key -> Room \cup Token \cup {None}]
    BY <1>0, <2>1 DEF Execute
  <2>. QED
    BY <1>2, <2>2, KindsKept
<1>3. CASE cmd.op = "GET"
  <2>1. redis' = redis
    BY <1>3 DEF Execute, Writes
  <2>. QED
    BY <1>1, <2>1
<1>. QED
  BY <1>2, <1>3

\* The keys that the command of client c writes
LEMMA ExecuteEffect ==
    ASSUME Types, NEW c \in Client, step[c] \in Calling, Execute(Command(c))
    PROVE  /\ step[c] = "reservePin" =>
                 \/ redis[req[c].from] # None /\ redis' = redis
                 \/ redis[req[c].from] = None /\ redis' = [redis EXCEPT ![req[c].from] = req[c].room]
           /\ step[c] \in {"readToken", "lookup"} => redis' = redis
           /\ step[c] = "writeInvite" => redis' = [redis EXCEPT ![req[c].token] = req[c].room]
           /\ step[c] = "writeToken" => redis' = [redis EXCEPT ![req[c].room] = req[c].token]
           /\ step[c] = "deleteOld" => redis' = [redis EXCEPT ![req[c].previous] = None]
           /\ step[c] = "writeTicket" => redis' = [redis EXCEPT ![req[c].ticket] = req[c].room]
           /\ step[c] = "consume" => redis' = [redis EXCEPT ![req[c].ticket] = None]
<1>0. /\ Command(c).op = "GET" => redis' = redis
      /\ Command(c).op \in {"SET", "DEL", "CONSUME"} =>
            redis' = [redis EXCEPT ![Command(c).key] = Command(c).value]
      /\ Command(c).op = "SETNX" =>
            \/ redis[Command(c).key] # None /\ redis' = redis
            \/ /\ redis[Command(c).key] = None
               /\ redis' = [redis EXCEPT ![Command(c).key] = Command(c).value]
  BY DEF Execute, Writes
<1>1. ASSUME step[c] = "reservePin"
      PROVE  \/ redis[req[c].from] # None /\ redis' = redis
             \/ redis[req[c].from] = None /\ redis' = [redis EXCEPT ![req[c].from] = req[c].room]
  <2>1. Command(c).op = "SETNX" /\ Command(c).key = req[c].from /\ Command(c).value = req[c].room
    BY <1>1, Commands
  <2>. QED
    BY <1>0, <2>1, Zenon
<1>2. step[c] \in {"readToken", "lookup"} => redis' = redis
  BY <1>0, Commands
<1>3. ASSUME step[c] = "writeInvite" PROVE redis' = [redis EXCEPT ![req[c].token] = req[c].room]
  <2>1. Command(c).op = "SET" /\ Command(c).key = req[c].token /\ Command(c).value = req[c].room
    BY <1>3, Commands
  <2>. QED
    BY <1>0, <2>1, Zenon
<1>4. ASSUME step[c] = "writeToken" PROVE redis' = [redis EXCEPT ![req[c].room] = req[c].token]
  <2>1. Command(c).op = "SET" /\ Command(c).key = req[c].room /\ Command(c).value = req[c].token
    BY <1>4, Commands
  <2>. QED
    BY <1>0, <2>1, Zenon
<1>5. ASSUME step[c] = "deleteOld" PROVE redis' = [redis EXCEPT ![req[c].previous] = None]
  <2>1. Command(c).op = "DEL" /\ Command(c).key = req[c].previous /\ Command(c).value = None
    BY <1>5, Commands
  <2>. QED
    BY <1>0, <2>1, Zenon
<1>6. ASSUME step[c] = "writeTicket" PROVE redis' = [redis EXCEPT ![req[c].ticket] = req[c].room]
  <2>1. Command(c).op = "SET" /\ Command(c).key = req[c].ticket /\ Command(c).value = req[c].room
    BY <1>6, Commands
  <2>. QED
    BY <1>0, <2>1, Zenon
<1>7. ASSUME step[c] = "consume" PROVE redis' = [redis EXCEPT ![req[c].ticket] = None]
  <2>1. Command(c).op = "CONSUME" /\ Command(c).key = req[c].ticket /\ Command(c).value = None
    BY <1>7, Commands
  <2>. QED
    BY <1>0, <2>1, Zenon
<1>. QED
  BY <1>1, <1>2, <1>3, <1>4, <1>5, <1>6, <1>7

---------------------------------------------------------------------------
(* What the handlers do to the requests.                                   *)

LEMMA NoRequestType ==
    /\ NoRequest \in Request /\ NoRequest.op = "join" /\ NoRequest.room = None
    /\ NoRequest.from = None /\ NoRequest.token = None /\ NoRequest.previous = None
    /\ NoRequest.ticket = None /\ NoRequest.aged = FALSE
<1>1. 0 \in 0 .. MaxRetries
  BY BoundsAssumption
<1>. QED
  BY <1>1 DEF NoRequest, Request

LEMMA BeginBecomes ==
    ASSUME Types, NEW c \in Client, NEW op \in {"create", "regenerate", "issue", "join"},
           NEW s \in Step, NEW r \in Request, Begin(c, op, s, r)
    PROVE  \E q \in Request :
              /\ Becomes(c, s, q)
              /\ q.op = op /\ q.room = r.room /\ q.from = r.from /\ q.token = r.token
              /\ q.previous = r.previous /\ q.ticket = r.ticket /\ q.aged = r.aged
<1>. DEFINE q == [r EXCEPT !.op = op]
<1>1. /\ q \in Request /\ q.op = op /\ q.room = r.room /\ q.from = r.from /\ q.token = r.token
      /\ q.previous = r.previous /\ q.ticket = r.ticket /\ q.aged = r.aged
  BY DEF Request
<1>2. Goto(c, s, q)
  BY DEF Begin
<1>. HIDE DEF q
<1>. QED
  BY <1>1, <1>2, GotoBecomes

LEMMA CreateEffect ==
    ASSUME Types, NEW c \in Client, CreateRoom(c)
    PROVE  /\ step[c] = "idle"
           /\ \E q \in Request :
                 /\ Becomes(c, "reservePin", q)
                 /\ q.op = "create" /\ q.room \in Room \ used /\ q.from \in Pin
                 /\ q.token \in Token \ used /\ q.previous = None
                 /\ q.ticket = None /\ q.aged = FALSE
                 /\ used' = used \cup {q.room, q.token}
           /\ UNCHANGED <<redis, late, game, given, old, history, faults>>
<1>1. PICK r \in Fresh(Room), p \in Pin, t \in Fresh(Token) :
        /\ Begin(c, "create", "reservePin",
                 [NoRequest EXCEPT !.room = r, !.from = p, !.token = t])
        /\ used' = used \cup {r, t} /\ UNCHANGED tidy
  BY DEF CreateRoom
<1>. DEFINE n == [NoRequest EXCEPT !.room = r, !.from = p, !.token = t]
<1>3. r \in Room \ used /\ t \in Token \ used
  BY DEF Fresh
<1>4. /\ n \in Request /\ n.room = r /\ n.from = p /\ n.token = t
      /\ n.previous = None /\ n.ticket = None /\ n.aged = FALSE
  BY <1>3, NoRequestType DEF Request
<1>5. "reservePin" \in Step
  BY DEF Step, Calling
<1>6. Begin(c, "create", "reservePin", n)
  BY <1>1
<1>. HIDE DEF n
<1>7. PICK q \in Request :
        /\ Becomes(c, "reservePin", q)
        /\ q.op = "create" /\ q.room = n.room /\ q.from = n.from /\ q.token = n.token
        /\ q.previous = n.previous /\ q.ticket = n.ticket /\ q.aged = n.aged
  BY <1>4, <1>5, <1>6, BeginBecomes
<1>. QED
  BY <1>1, <1>3, <1>4, <1>6, <1>7 DEF Begin, history

LEMMA RegenerateEffect ==
    ASSUME Types, NEW c \in Client, RegenerateInvite(c)
    PROVE  /\ step[c] = "idle"
           /\ \E q \in Request :
                 /\ Becomes(c, "readToken", q)
                 /\ q.op = "regenerate" /\ q.room \in rooms /\ q.from = None
                 /\ q.token = None /\ q.previous = None /\ q.ticket = None /\ q.aged = FALSE
                 /\ tidy' = IF Writers(q.room) = {} THEN tidy ELSE tidy \ {q.room}
           /\ UNCHANGED <<redis, late, game, used, given, old, admitted, revoked, faults>>
<1>1. PICK r \in rooms :
        /\ Begin(c, "regenerate", "readToken", [NoRequest EXCEPT !.room = r])
        /\ tidy' = IF Writers(r) = {} THEN tidy ELSE tidy \ {r}
        /\ UNCHANGED used
  BY DEF RegenerateInvite
<1>. DEFINE n == [NoRequest EXCEPT !.room = r]
<1>3. r \in Room
  BY DEF Types, TypeOK
<1>4. /\ n \in Request /\ n.room = r /\ n.from = None /\ n.token = None
      /\ n.previous = None /\ n.ticket = None /\ n.aged = FALSE
  BY <1>3, NoRequestType DEF Request
<1>5. "readToken" \in Step
  BY DEF Step, Calling
<1>6. Begin(c, "regenerate", "readToken", n)
  BY <1>1
<1>. HIDE DEF n
<1>7. PICK q \in Request :
        /\ Becomes(c, "readToken", q)
        /\ q.op = "regenerate" /\ q.room = n.room /\ q.from = n.from /\ q.token = n.token
        /\ q.previous = n.previous /\ q.ticket = n.ticket /\ q.aged = n.aged
  BY <1>4, <1>5, <1>6, BeginBecomes
<1>. QED
  BY <1>1, <1>3, <1>4, <1>6, <1>7 DEF Begin

LEMMA IssueEffect ==
    ASSUME Types, NEW c \in Client, IssueTicket(c)
    PROVE  /\ step[c] = "idle"
           /\ \E q \in Request :
                 /\ Becomes(c, "lookup", q)
                 /\ q.op = "issue" /\ q.room = None /\ q.from \in Pin \cup Token
                 /\ q.token = None /\ q.previous = None /\ q.ticket = None /\ q.aged = FALSE
           /\ UNCHANGED <<redis, late, game, used, given, old, history, faults>>
<1>1. PICK f \in Pin \cup (Token \cap used) :
        /\ Begin(c, "issue", "lookup", [NoRequest EXCEPT !.from = f])
        /\ UNCHANGED <<used, tidy>>
  BY DEF IssueTicket
<1>. DEFINE n == [NoRequest EXCEPT !.from = f]
<1>4. /\ n \in Request /\ n.room = None /\ n.from = f /\ n.token = None
      /\ n.previous = None /\ n.ticket = None /\ n.aged = FALSE
  BY NoRequestType DEF Request
<1>5. "lookup" \in Step
  BY DEF Step, Calling
<1>6. Begin(c, "issue", "lookup", n)
  BY <1>1
<1>. HIDE DEF n
<1>7. PICK q \in Request :
        /\ Becomes(c, "lookup", q)
        /\ q.op = "issue" /\ q.room = n.room /\ q.from = n.from /\ q.token = n.token
        /\ q.previous = n.previous /\ q.ticket = n.ticket /\ q.aged = n.aged
  BY <1>4, <1>5, <1>6, BeginBecomes
<1>. QED
  BY <1>1, <1>4, <1>6, <1>7 DEF Begin, history

LEMMA JoinEffect ==
    ASSUME Types, NEW c \in Client, JoinRoom(c)
    PROVE  /\ step[c] = "idle"
           /\ \E q \in Request :
                 /\ Becomes(c, "consume", q)
                 /\ q.op = "join" /\ q.room = None /\ q.from = None
                 /\ q.token = None /\ q.previous = None
                 /\ q.ticket \in given /\ q.aged = (q.ticket \in old)
           /\ UNCHANGED <<redis, late, game, used, given, old, history, faults>>
<1>1. PICK k \in given :
        /\ Begin(c, "join", "consume", [NoRequest EXCEPT !.ticket = k, !.aged = k \in old])
        /\ UNCHANGED <<used, tidy>>
  BY DEF JoinRoom
<1>. DEFINE n == [NoRequest EXCEPT !.ticket = k, !.aged = k \in old]
<1>3. k \in Ticket
  BY DEF Types, TypeOK
<1>4. /\ n \in Request /\ n.room = None /\ n.from = None /\ n.token = None
      /\ n.previous = None /\ n.ticket = k /\ n.aged = (k \in old)
  <2>1. ASSUME NEW a \in BOOLEAN
        PROVE  LET m == [NoRequest EXCEPT !.ticket = k, !.aged = a]
               IN  /\ m \in Request /\ m.room = None /\ m.from = None /\ m.token = None
                   /\ m.previous = None /\ m.ticket = k /\ m.aged = a
    BY <1>3, NoRequestType DEF Request
  <2>2. (k \in old) \in BOOLEAN
    OBVIOUS
  <2>. QED
    BY <2>1, <2>2, Zenon
<1>5. "consume" \in Step
  BY DEF Step, Calling
<1>6. Begin(c, "join", "consume", n)
  BY <1>1
<1>. HIDE DEF n
<1>7. PICK q \in Request :
        /\ Becomes(c, "consume", q)
        /\ q.op = "join" /\ q.room = n.room /\ q.from = n.from /\ q.token = n.token
        /\ q.previous = n.previous /\ q.ticket = n.ticket /\ q.aged = n.aged
  BY <1>4, <1>5, <1>6, BeginBecomes
<1>. QED
  BY <1>1, <1>3, <1>4, <1>6, <1>7 DEF Begin, history

\* The steps are steps, and Order is what it is.
LEMMA Steps ==
    /\ \A s \in Calling \cup {"idle", "insert", "enter"} : s \in Step
    /\ Order[1] = "writeInvite" /\ Order[2] = "writeToken"
    /\ {"reservePin", "readToken", "writeInvite", "writeToken", "deleteOld", "lookup",
        "writeTicket", "consume"} = Calling
BY DEF Step, Order, Calling

LEMMA ReservePinEffect ==
    ASSUME Types, NEW c \in Client, ReservePin(c)
    PROVE  /\ step[c] = "reservePin"
           /\ \/ /\ redis[req[c].from] = None /\ redis' = [redis EXCEPT ![req[c].from] = req[c].room]
                 /\ Becomes(c, "writeInvite", req[c])
              \/ /\ redis' = redis
                 /\ \E q \in Request :
                       /\ Becomes(c, "reservePin", q) /\ q.from \in Pin
                       /\ q.op = req[c].op /\ q.room = req[c].room /\ q.token = req[c].token
                       /\ q.previous = req[c].previous /\ q.ticket = req[c].ticket
                       /\ q.aged = req[c].aged
           /\ UNCHANGED <<late, game, used, given, old, history, faults>>
<1>1. step[c] = "reservePin" /\ step[c] \in Calling /\ Execute(Command(c)) /\ req[c] \in Request
  BY RequestType, Steps DEF ReservePin, Answered
<1>2. Reply(c) = redis[req[c].from]
  BY <1>1, Commands DEF Reply
<1>3. \/ redis[req[c].from] # None /\ redis' = redis
      \/ redis[req[c].from] = None /\ redis' = [redis EXCEPT ![req[c].from] = req[c].room]
  BY <1>1, ExecuteEffect
<1>4. UNCHANGED <<late, game, used, given, old, history, faults>>
  BY DEF ReservePin, Answered, history
<1>5. CASE Reply(c) = None /\ Proceed(c, Order[1], req[c])
  <2>1. Becomes(c, "writeInvite", req[c])
    BY <1>1, <1>5, Steps, ProceedBecomes
  <2>. QED
    BY <1>1, <1>2, <1>3, <1>4, <1>5, <2>1
<1>6. ASSUME Reply(c) # None, NEW p \in Pin, Proceed(c, "reservePin", [req[c] EXCEPT !.from = p])
      PROVE  /\ redis' = redis
             /\ \E q \in Request :
                   /\ Becomes(c, "reservePin", q) /\ q.from \in Pin
                   /\ q.op = req[c].op /\ q.room = req[c].room /\ q.token = req[c].token
                   /\ q.previous = req[c].previous /\ q.ticket = req[c].ticket
                   /\ q.aged = req[c].aged
  <2>. DEFINE q == [req[c] EXCEPT !.from = p]
  <2>1. /\ q \in Request /\ q.from = p /\ q.op = req[c].op /\ q.room = req[c].room
        /\ q.token = req[c].token /\ q.previous = req[c].previous /\ q.ticket = req[c].ticket
        /\ q.aged = req[c].aged
    BY <1>1 DEF Request
  <2>2. Proceed(c, "reservePin", q)
    BY <1>6
  <2>. HIDE DEF q
  <2>3. Becomes(c, "reservePin", q)
    BY <2>1, <2>2, Steps, ProceedBecomes
  <2>. QED
    BY <1>2, <1>3, <1>6, <2>1, <2>3
<1>. QED
  BY <1>1, <1>4, <1>5, <1>6 DEF ReservePin

LEMMA ReadTokenEffect ==
    ASSUME Types, NEW c \in Client, ReadToken(c)
    PROVE  /\ step[c] = "readToken" /\ redis' = redis
           /\ \E q \in Request :
                 /\ Becomes(c, "writeInvite", q)
                 /\ q.token \in Token \ used /\ q.previous = redis[req[c].room]
                 /\ q.op = req[c].op /\ q.room = req[c].room /\ q.from = req[c].from
                 /\ q.ticket = req[c].ticket /\ q.aged = req[c].aged
                 /\ used' = used \cup {q.token}
           /\ UNCHANGED <<late, game, given, old, history, faults>>
<1>1. step[c] = "readToken" /\ step[c] \in Calling /\ Execute(Command(c)) /\ req[c] \in Request
  BY RequestType, Steps DEF ReadToken, Answered
<1>2. redis' = redis /\ Reply(c) = redis[req[c].room] /\ Reply(c) \in Token \cup {None}
  <2>1. redis' = redis
    BY <1>1, ExecuteEffect
  <2>2. Reply(c) = redis[req[c].room]
    BY <1>1, Commands DEF Reply
  <2>3. req[c].room \in Room
    BY <1>1, RequestType DEF Local
  <2>. QED
    BY <2>1, <2>2, <2>3 DEF Types, Kinds
<1>3. PICK t \in Fresh(Token) :
        /\ Proceed(c, Order[1], [req[c] EXCEPT !.token = t, !.previous = Reply(c)])
        /\ used' = used \cup {t}
  BY DEF ReadToken
<1>4. PICK v \in Token \cup {None} : v = Reply(c)
  BY <1>2
<1>. DEFINE q == [req[c] EXCEPT !.token = t, !.previous = v]
<1>5. t \in Token \ used
  BY DEF Fresh
<1>6. /\ q \in Request /\ q.token = t /\ q.previous = v /\ q.op = req[c].op
      /\ q.room = req[c].room /\ q.from = req[c].from
      /\ q.ticket = req[c].ticket /\ q.aged = req[c].aged
  BY <1>1, <1>5 DEF Request
<1>7. Proceed(c, "writeInvite", q)
  BY <1>3, <1>4, Steps
<1>. HIDE DEF q
<1>8. Becomes(c, "writeInvite", q)
  BY <1>6, <1>7, Steps, ProceedBecomes
<1>9. UNCHANGED <<late, game, given, old, history, faults>>
  BY DEF ReadToken, Answered, history
<1>. QED
  BY <1>1, <1>2, <1>3, <1>4, <1>5, <1>6, <1>8, <1>9

LEMMA WriteFirstEffect ==
    ASSUME Types, NEW c \in Client, WriteFirst(c)
    PROVE  /\ step[c] = "writeInvite" /\ redis' = [redis EXCEPT ![req[c].token] = req[c].room]
           /\ Becomes(c, "writeToken", req[c])
           /\ UNCHANGED <<late, game, used, given, old, history, faults>>
<1>1. step[c] = "writeInvite" /\ step[c] \in Calling /\ Execute(Command(c)) /\ req[c] \in Request
  BY RequestType, Steps DEF WriteFirst, Answered
<1>2. redis' = [redis EXCEPT ![req[c].token] = req[c].room]
  BY <1>1, ExecuteEffect
<1>3. Becomes(c, "writeToken", req[c])
  BY <1>1, Steps, ProceedBecomes DEF WriteFirst
<1>. QED
  BY <1>1, <1>2, <1>3 DEF WriteFirst, Answered, history

LEMMA WriteSecondEffect ==
    ASSUME Types, NEW c \in Client, WriteSecond(c)
    PROVE  /\ step[c] = "writeToken" /\ redis' = [redis EXCEPT ![req[c].room] = req[c].token]
           /\ \/ req[c].op = "create" /\ Becomes(c, "insert", req[c])
              \/ /\ req[c].op = "regenerate" /\ req[c].previous # None
                 /\ Becomes(c, "deleteOld", req[c])
              \/ /\ req[c].op = "regenerate" /\ req[c].previous = None
                 /\ Becomes(c, "idle", NoRequest) /\ req'[c] = NoRequest
           /\ UNCHANGED <<late, game, used, given, old, history, faults>>
<1>1. step[c] = "writeToken" /\ step[c] \in Calling /\ Execute(Command(c)) /\ req[c] \in Request
  BY RequestType, Steps DEF WriteSecond, Answered
<1>2. redis' = [redis EXCEPT ![req[c].room] = req[c].token]
  BY <1>1, ExecuteEffect
<1>3. CASE req[c].op = "create" /\ Proceed(c, "insert", req[c])
  <2>1. Becomes(c, "insert", req[c])
    BY <1>1, <1>3, Steps, ProceedBecomes
  <2>. QED
    BY <1>1, <1>2, <1>3, <2>1 DEF WriteSecond, Answered, history
<1>4. CASE req[c].op = "regenerate" /\ HasOld(c) /\ Proceed(c, "deleteOld", req[c])
  <2>1. Becomes(c, "deleteOld", req[c])
    BY <1>1, <1>4, Steps, ProceedBecomes
  <2>. QED
    BY <1>1, <1>2, <1>4, <2>1 DEF WriteSecond, Answered, history, HasOld
<1>5. CASE req[c].op = "regenerate" /\ ~ HasOld(c) /\ Finish(c)
  <2>1. Becomes(c, "idle", NoRequest) /\ req'[c] = NoRequest
    BY <1>5, FinishBecomes
  <2>. QED
    BY <1>1, <1>2, <1>5, <2>1 DEF WriteSecond, Answered, history, HasOld
<1>. QED
  BY <1>3, <1>4, <1>5 DEF WriteSecond

LEMMA DeleteOldEffect ==
    ASSUME Types, NEW c \in Client, DeleteOld(c)
    PROVE  /\ step[c] = "deleteOld" /\ redis' = [redis EXCEPT ![req[c].previous] = None]
           /\ revoked' = revoked \cup {req[c].previous}
           /\ Becomes(c, "idle", NoRequest) /\ req'[c] = NoRequest
           /\ UNCHANGED <<late, game, used, given, old, admitted, tidy, faults>>
<1>1. step[c] = "deleteOld" /\ step[c] \in Calling /\ Execute(Command(c)) /\ Finish(c)
  BY Steps DEF DeleteOld, Answered
<1>2. redis' = [redis EXCEPT ![req[c].previous] = None]
  BY <1>1, ExecuteEffect
<1>. QED
  BY <1>1, <1>2, FinishBecomes DEF DeleteOld, Answered

LEMMA InsertEffect ==
    ASSUME Types, NEW c \in Client, Insert(c)
    PROVE  /\ step[c] = "insert" /\ rooms' = rooms \cup {req[c].room}
           /\ roomPins' = [roomPins EXCEPT ![req[c].room] = req[c].from]
           /\ Becomes(c, "idle", NoRequest) /\ req'[c] = NoRequest
           /\ UNCHANGED <<redis, late, used, given, old, history, faults>>
BY FinishBecomes DEF Insert

LEMMA LookupEffect ==
    ASSUME Types, NEW c \in Client, Lookup(c)
    PROVE  /\ step[c] = "lookup" /\ redis' = redis
           /\ \/ Becomes(c, "idle", NoRequest) /\ req'[c] = NoRequest /\ used' = used
              \/ \E q \in Request :
                    /\ Becomes(c, "writeTicket", q)
                    /\ q.ticket \in Ticket \ used /\ q.room \in Room
                    /\ q.op = req[c].op /\ q.from = req[c].from /\ q.token = req[c].token
                    /\ q.previous = req[c].previous /\ q.aged = req[c].aged
                    /\ used' = used \cup {q.ticket}
           /\ UNCHANGED <<late, game, given, old, history, faults>>
<1>1. step[c] = "lookup" /\ step[c] \in Calling /\ Execute(Command(c)) /\ req[c] \in Request
  BY RequestType, Steps DEF Lookup, Answered
<1>2. redis' = redis
  BY <1>1, ExecuteEffect
<1>3. Reply(c) \in Room \cup {None}
  <2>1. Reply(c) = redis[req[c].from]
    BY <1>1, Commands DEF Reply
  <2>2. req[c].from \in Pin \cup Token
    BY <1>1, RequestType DEF Local
  <2>. QED
    BY <2>1, <2>2 DEF Types, Kinds
<1>4. UNCHANGED <<late, game, given, old, history, faults>>
  BY DEF Lookup, Answered, history
<1>5. CASE Finish(c) /\ UNCHANGED used
  BY <1>1, <1>2, <1>4, <1>5, FinishBecomes
<1>6. ASSUME Reply(c) # None, NEW k \in Fresh(Ticket),
             Proceed(c, "writeTicket", [req[c] EXCEPT !.room = Reply(c), !.ticket = k]),
             used' = used \cup {k}
      PROVE  \E q \in Request :
                    /\ Becomes(c, "writeTicket", q)
                    /\ q.ticket \in Ticket \ used /\ q.room \in Room
                    /\ q.op = req[c].op /\ q.from = req[c].from /\ q.token = req[c].token
                    /\ q.previous = req[c].previous /\ q.aged = req[c].aged
                    /\ used' = used \cup {q.ticket}
  <2>1. PICK v \in Room : v = Reply(c)
    BY <1>3, <1>6
  <2>. DEFINE q == [req[c] EXCEPT !.room = v, !.ticket = k]
  <2>2. k \in Ticket \ used
    BY DEF Fresh
  <2>3. /\ q \in Request /\ q.ticket = k /\ q.room = v
        /\ q.op = req[c].op /\ q.from = req[c].from /\ q.token = req[c].token
        /\ q.previous = req[c].previous /\ q.aged = req[c].aged
    BY <1>1, <2>2 DEF Request
  <2>4. Proceed(c, "writeTicket", q)
    BY <1>6, <2>1
  <2>. HIDE DEF q
  <2>5. Becomes(c, "writeTicket", q)
    BY <2>3, <2>4, Steps, ProceedBecomes
  <2>. QED
    BY <1>6, <2>2, <2>3, <2>5
<1>. QED
  BY <1>1, <1>2, <1>4, <1>5, <1>6 DEF Lookup

LEMMA WriteTicketEffect ==
    ASSUME Types, NEW c \in Client, WriteTicket(c)
    PROVE  /\ step[c] = "writeTicket" /\ redis' = [redis EXCEPT ![req[c].ticket] = req[c].room]
           /\ given' = given \cup {req[c].ticket}
           /\ Becomes(c, "idle", NoRequest) /\ req'[c] = NoRequest
           /\ UNCHANGED <<late, game, used, old, history, faults>>
<1>1. step[c] = "writeTicket" /\ step[c] \in Calling /\ Execute(Command(c)) /\ Finish(c)
  BY Steps DEF WriteTicket, Answered
<1>2. redis' = [redis EXCEPT ![req[c].ticket] = req[c].room]
  BY <1>1, ExecuteEffect
<1>. QED
  BY <1>1, <1>2, FinishBecomes DEF WriteTicket, Answered, history

LEMMA ConsumeEffect ==
    ASSUME Types, NEW c \in Client, Consume(c)
    PROVE  /\ step[c] = "consume" /\ redis' = [redis EXCEPT ![req[c].ticket] = None]
           /\ \/ Becomes(c, "idle", NoRequest) /\ req'[c] = NoRequest
              \/ /\ redis[req[c].ticket] # None /\ req[c].ticket \notin old
                 /\ \E q \in Request :
                       /\ Becomes(c, "enter", q) /\ q.room \in Room
                       /\ q.op = req[c].op /\ q.from = req[c].from /\ q.token = req[c].token
                       /\ q.previous = req[c].previous /\ q.ticket = req[c].ticket
                       /\ q.aged = req[c].aged
           /\ UNCHANGED <<late, game, used, given, old, history, faults>>
<1>1. step[c] = "consume" /\ step[c] \in Calling /\ Execute(Command(c)) /\ req[c] \in Request
  BY RequestType, Steps DEF Consume, Answered
<1>2. redis' = [redis EXCEPT ![req[c].ticket] = None]
  BY <1>1, ExecuteEffect
<1>3. Reply(c) = redis[req[c].ticket]
  BY <1>1, Commands DEF Reply
<1>4. UNCHANGED <<late, game, used, given, old, history, faults>>
  BY DEF Consume, Answered, history
<1>5. CASE Finish(c)
  BY <1>1, <1>2, <1>4, <1>5, FinishBecomes
<1>6. CASE /\ Reply(c) # None /\ Young(req[c].ticket) /\ Reply(c) \in rooms
           /\ Proceed(c, "enter", [req[c] EXCEPT !.room = Reply(c)])
  <2>0. rooms \subseteq Room
    BY DEF Types, TypeOK
  <2>1. PICK v \in Room : v = Reply(c)
    BY <1>6, <2>0
  <2>. DEFINE q == [req[c] EXCEPT !.room = v]
  <2>3. /\ q \in Request /\ q.room = v
        /\ q.op = req[c].op /\ q.from = req[c].from /\ q.token = req[c].token
        /\ q.previous = req[c].previous /\ q.ticket = req[c].ticket /\ q.aged = req[c].aged
    BY <1>1 DEF Request
  <2>4. Proceed(c, "enter", q)
    BY <1>6, <2>1
  <2>. HIDE DEF q
  <2>5. Becomes(c, "enter", q)
    BY <2>3, <2>4, Steps, ProceedBecomes
  <2>. QED
    BY <1>1, <1>2, <1>3, <1>4, <1>6, <2>3, <2>5 DEF Young
<1>. QED
  BY <1>5, <1>6 DEF Consume

LEMMA EnterEffect ==
    ASSUME Types, NEW c \in Client, Enter(c)
    PROVE  /\ step[c] = "enter"
           /\ admitted' \in {admitted, [admitted EXCEPT ![req[c].ticket] = @ + 1]}
           /\ Becomes(c, "idle", NoRequest) /\ req'[c] = NoRequest
           /\ UNCHANGED <<redis, late, game, used, given, old, revoked, tidy, faults>>
BY FinishBecomes DEF Enter

\* A call that times out is made again, or the request fails.
LEMMA TimesOutEffect ==
    ASSUME Types, NEW c \in Client, TimesOut(c)
    PROVE  /\ step[c] \in Calling
           /\ redis' = redis \/ Execute(Command(c))
           /\ late' = late \/ /\ late' = late \cup {Command(c)}
                              /\ WriteCommand(Command(c)) /\ Command(c).op # "GET"
           /\ faults' = faults \cup {"lost"}
           /\ \/ Becomes(c, step[c], req[c]) /\ tidy' = tidy
              \/ /\ Becomes(c, "idle", NoRequest) /\ req'[c] = NoRequest
                 /\ tidy' = IF c \in Writers(req[c].room) THEN tidy \ {req[c].room} ELSE tidy
           /\ UNCHANGED <<game, used, given, old, admitted, revoked>>
<1>1. step[c] \in Calling /\ req[c] \in Request /\ req[c].attempt \in 0 .. MaxRetries /\ step[c] \in Step
  BY RequestType DEF TimesOut
<1>2. late' = late \/ /\ late' = late \cup {Command(c)}
                      /\ WriteCommand(Command(c)) /\ Command(c).op # "GET"
  BY <1>1, CommandWrites DEF TimesOut
<1>3. CASE /\ MayRetry(c) /\ req' = [req EXCEPT ![c].attempt = @ + 1]
           /\ UNCHANGED <<step, tidy>>
  <2>1. req[c].attempt + 1 \in 0 .. MaxRetries
    <3>1. MaxRetries \in Nat
      BY BoundsAssumption
    <3>. QED
      BY <1>1, <1>3, <3>1 DEF MayRetry
  <2>. DEFINE q == [req[c] EXCEPT !.attempt = req[c].attempt + 1]
  <2>2. q \in Request /\ Like(q, req[c])
    BY <1>1, <2>1 DEF Request, Like
  <2>3. req \in [Client -> Request] /\ step \in [Client -> Step]
    BY DEF Types, TypeOK
  <2>4. req' = [req EXCEPT ![c] = q]
    BY <1>3, <2>3
  <2>. HIDE DEF q
  <2>5. Becomes(c, step[c], req[c])
    BY <1>3, <2>2, <2>3, <2>4 DEF Becomes, Like
  <2>. QED
    BY <1>1, <1>2, <1>3, <2>5 DEF TimesOut, Again
<1>4. CASE Fail(c)
  BY <1>1, <1>2, <1>4, FinishBecomes DEF TimesOut, Again, Fail
<1>. QED
  BY <1>3, <1>4 DEF TimesOut, Again

\* A process ends: its requests are gone.
LEMMA AbandonEffect ==
    ASSUME Types, NEW ops, Abandon(ops)
    PROVE  /\ step' \in [Client -> Step] /\ req' \in [Client -> Request]
           /\ \A d \in Client :
                 \/ step'[d] = step[d] /\ req'[d] = req[d] /\ (step[d] = "idle" \/ req[d].op \notin ops)
                 \/ step'[d] = "idle" /\ req'[d] = NoRequest
           /\ tidy' = {r \in tidy : \A d \in Writers(r) : req[d].op \notin ops}
           /\ UNCHANGED <<redis, late, used, given, old, admitted, revoked, faults>>
<1>1. step \in [Client -> Step] /\ req \in [Client -> Request] /\ "idle" \in Step
  BY Steps DEF Types, TypeOK
<1>2. step' \in [Client -> Step] /\ req' \in [Client -> Request]
  BY <1>1, NoRequestType DEF Abandon
<1>3. \A d \in Client :
         \/ step'[d] = step[d] /\ req'[d] = req[d] /\ (step[d] = "idle" \/ req[d].op \notin ops)
         \/ step'[d] = "idle" /\ req'[d] = NoRequest
  BY DEF Abandon
<1>4. tidy' = {r \in tidy : \A d \in Writers(r) : req[d].op \notin ops}
  <2>. DEFINE gone == {c \in Client : step[c] # "idle" /\ req[c].op \in ops}
  <2>1. tidy' = {r \in tidy : Writers(r) \cap gone = {}}
    BY DEF Abandon
  <2>2. ASSUME NEW r PROVE Writers(r) \cap gone = {} <=> \A d \in Writers(r) : req[d].op \notin ops
    BY DEF Writers
  <2>. QED
    BY <2>1, <2>2
<1>. QED
  BY <1>2, <1>3, <1>4 DEF Abandon

---------------------------------------------------------------------------
(* Types are kept.                                                         *)

LEMMA LocalBecomes ==
    ASSUME Types, NEW c \in Client, NEW s, NEW q, Becomes(c, s, q), Local(s, q),
           s # "idle" \/ req'[c] = NoRequest
    PROVE  \A d \in Client : Local(step'[d], req'[d])
<1>1. Local(step'[c], req'[c])
  BY DEF Becomes, Like, Local
<1>2. ASSUME NEW d \in Client, d # c PROVE Local(step'[d], req'[d])
  BY <1>2 DEF Becomes, Types
<1>. QED
  BY <1>1, <1>2

LEMMA LocalIdle == Local("idle", NoRequest)
BY NoRequestType DEF Local

\* Steps that leave redis in its type, for the fields each kind of step sets
LEMMA TypesFrom ==
    ASSUME Types, redis' \in [Key -> Room \cup Token \cup {None}], Kinds',
           \A cmd \in late' : /\ WriteCommand(cmd)
                              /\ cmd \in late \/ \E c \in Client : cmd = Command(c) /\ step[c] \in Calling,
           step' \in [Client -> Step], req' \in [Client -> Request],
           \A d \in Client : Local(step'[d], req'[d]),
           rooms' \subseteq Room, roomPins' \in [Room -> Pin \cup {None}],
           requests' \in Nat, used' \subseteq Room \cup Token \cup Ticket,
           given' \subseteq Ticket, old' \subseteq Ticket, admitted' \in [Ticket -> Nat],
           revoked' \subseteq Token, tidy' \subseteq Room, faults' \subseteq {"lost", "overdue"}
    PROVE  Types'
<1>1. late' \subseteq [op : {"SET", "SETNX", "DEL", "CONSUME"}, key : Key,
                       value : Room \cup Token \cup {None}]
  <2>. SUFFICES ASSUME NEW cmd \in late'
                PROVE  cmd \in [op : {"SET", "SETNX", "DEL", "CONSUME"}, key : Key,
                                value : Room \cup Token \cup {None}]
    OBVIOUS
  <2>1. CASE cmd \in late
    BY <2>1 DEF Types, TypeOK
  <2>2. ASSUME NEW c \in Client, cmd = Command(c), WriteCommand(cmd), step[c] \in Calling
        PROVE  cmd \in [op : {"SET", "SETNX", "DEL", "CONSUME"}, key : Key,
                        value : Room \cup Token \cup {None}]
    <3>1. \E o, k, v : cmd = [op |-> o, key |-> k, value |-> v]
      BY <2>2, Commands DEF Calling
    <3>2. PICK o, k, v : cmd = [op |-> o, key |-> k, value |-> v]
      BY <3>1
    <3>3. cmd.op = o /\ cmd.key = k /\ cmd.value = v
      BY <3>2
    <3>4. o \in {"SET", "SETNX", "DEL", "CONSUME"} /\ k \in Key /\ v \in Room \cup Token \cup {None}
      BY <2>2, <3>3 DEF WriteCommand, Key
    <3>. QED
      BY <3>2, <3>4
  <2>. QED
    BY <2>1, <2>2
<1>2. \A cmd \in late' : WriteCommand(cmd)
  OBVIOUS
<1>3. TypeOK'
  BY <1>1 DEF TypeOK
<1>. QED
  BY <1>2, <1>3 DEF Types

LEMMA RedisTypes ==
    ASSUME Types, [Next]_vars
    PROVE  redis' \in [Key -> Room \cup Token \cup {None}] /\ Kinds'
<1>0. redis \in [Key -> Room \cup Token \cup {None}]
  BY DEF Types, TypeOK
<1>1. CASE redis' = redis
  BY <1>0, <1>1, KindsKept
<1>2. ASSUME NEW c \in Client, step[c] \in Calling, Execute(Command(c))
      PROVE  redis' \in [Key -> Room \cup Token \cup {None}] /\ Kinds'
  BY <1>2, CommandWrites, ExecuteType
<1>3. ASSUME NEW cmd \in late, Execute(cmd)
      PROVE  redis' \in [Key -> Room \cup Token \cup {None}] /\ Kinds'
  <2>1. WriteCommand(cmd)
    BY DEF Types
  <2>. QED
    BY <1>3, <2>1, ExecuteType
<1>4. ASSUME NEW k \in Key, redis' = [redis EXCEPT ![k] = None]
      PROVE  redis' \in [Key -> Room \cup Token \cup {None}] /\ Kinds'
  <2>1. redis' \in [Key -> Room \cup Token \cup {None}]
    BY <1>0, <1>4
  <2>. QED
    BY <1>4, <2>1, KindsKept
<1>5. CASE UNCHANGED vars
  BY <1>1, <1>5 DEF vars
<1>6. ASSUME NEW c \in Client, Handler(c)
      PROVE  redis' \in [Key -> Room \cup Token \cup {None}] /\ Kinds'
  <2>1. redis' = redis \/ (step[c] \in Calling /\ Execute(Command(c)))
    BY <1>6, Steps DEF Handler, CreateRoom, ReservePin, WriteFirst, WriteSecond, Insert, RegenerateInvite,
       ReadToken, DeleteOld, IssueTicket, Lookup, WriteTicket, JoinRoom, Consume, Enter, Begin, Answered
  <2>. QED
    BY <1>1, <1>2, <2>1
<1>7. ASSUME NEW c \in Client, TimesOut(c)
      PROVE  redis' \in [Key -> Room \cup Token \cup {None}] /\ Kinds'
  BY <1>1, <1>2, <1>7, TimesOutEffect
<1>8. CASE ExecuteLate
  BY <1>3, <1>8 DEF ExecuteLate
<1>9. CASE TicketAges \/ KeyExpires
  BY <1>4, <1>9 DEF TicketAges, KeyExpires, Key
<1>10. CASE RestartGame \/ RestartJoin
  BY <1>1, <1>10 DEF RestartGame, RestartJoin, Abandon
<1>. QED
  BY <1>5, <1>6, <1>7, <1>8, <1>9, <1>10 DEF Next

\* The locals of the requests after a step of a handler
LEMMA HandlerLocal ==
    ASSUME Types, NEW c \in Client, Handler(c)
    PROVE  \E s \in Step, q \in Request :
              Becomes(c, s, q) /\ Local(s, q) /\ (s # "idle" \/ req'[c] = NoRequest)
<1>. DEFINE Goal == \E s \in Step, q \in Request :
              Becomes(c, s, q) /\ Local(s, q) /\ (s # "idle" \/ req'[c] = NoRequest)
<1>0. req[c] \in Request /\ Local(step[c], req[c])
  BY RequestType
<1>1. ASSUME Becomes(c, "idle", NoRequest), req'[c] = NoRequest PROVE Goal
  BY <1>1, LocalIdle, NoRequestType, Steps
<1>2. ASSUME NEW s \in Step, NEW q \in Request, Becomes(c, s, q), Local(s, q), s # "idle" PROVE Goal
  BY <1>2
<1>. SUFFICES Goal
  OBVIOUS
<1>. HIDE DEF Goal
<1>3. CASE CreateRoom(c)
  <2>1. PICK q \in Request :
                 /\ Becomes(c, "reservePin", q)
                 /\ q.op = "create" /\ q.room \in Room \ used /\ q.from \in Pin
                 /\ q.token \in Token \ used /\ q.previous = None
                 /\ q.ticket = None /\ q.aged = FALSE
    BY <1>3, CreateEffect
  <2>2. Local("reservePin", q)
    BY <2>1 DEF Local
  <2>. QED
    BY <1>2, <2>1, <2>2, Steps
<1>4. CASE RegenerateInvite(c)
  <2>0. rooms \subseteq Room
    BY DEF Types, TypeOK
  <2>1. PICK q \in Request :
                 /\ Becomes(c, "readToken", q)
                 /\ q.op = "regenerate" /\ q.room \in rooms /\ q.from = None
                 /\ q.token = None /\ q.previous = None /\ q.ticket = None /\ q.aged = FALSE
    BY <1>4, RegenerateEffect
  <2>2. Local("readToken", q)
    BY <2>0, <2>1 DEF Local
  <2>. QED
    BY <1>2, <2>1, <2>2, Steps
<1>5. CASE IssueTicket(c)
  <2>1. PICK q \in Request :
                 /\ Becomes(c, "lookup", q)
                 /\ q.op = "issue" /\ q.room = None /\ q.from \in Pin \cup Token
                 /\ q.token = None /\ q.previous = None /\ q.ticket = None /\ q.aged = FALSE
    BY <1>5, IssueEffect
  <2>2. Local("lookup", q)
    BY <2>1 DEF Local
  <2>. QED
    BY <1>2, <2>1, <2>2, Steps
<1>6. CASE JoinRoom(c)
  <2>0. given \subseteq Ticket
    BY DEF Types, TypeOK
  <2>1. PICK q \in Request :
                 /\ Becomes(c, "consume", q)
                 /\ q.op = "join" /\ q.room = None /\ q.from = None
                 /\ q.token = None /\ q.previous = None
                 /\ q.ticket \in given
    BY <1>6, JoinEffect
  <2>2. Local("consume", q)
    BY <2>0, <2>1 DEF Local
  <2>. QED
    BY <1>2, <2>1, <2>2, Steps
<1>7. CASE ReservePin(c)
  <2>1. step[c] = "reservePin"
    BY <1>7, ReservePinEffect
  <2>2. CASE Becomes(c, "writeInvite", req[c])
    <3>1. Local("writeInvite", req[c])
      BY <1>0, <2>1 DEF Local
    <3>. QED
      BY <1>0, <1>2, <2>2, <3>1, Steps
  <2>3. CASE \E q \in Request :
                       /\ Becomes(c, "reservePin", q) /\ q.from \in Pin
                       /\ q.op = req[c].op /\ q.room = req[c].room /\ q.token = req[c].token
                       /\ q.previous = req[c].previous /\ q.ticket = req[c].ticket
                       /\ q.aged = req[c].aged
    <3>1. PICK q \in Request :
                       /\ Becomes(c, "reservePin", q) /\ q.from \in Pin
                       /\ q.op = req[c].op /\ q.room = req[c].room /\ q.token = req[c].token
                       /\ q.previous = req[c].previous /\ q.ticket = req[c].ticket
                       /\ q.aged = req[c].aged
      BY <2>3
    <3>2. Local("reservePin", q)
      BY <1>0, <2>1, <3>1 DEF Local
    <3>. QED
      BY <1>2, <3>1, <3>2, Steps
  <2>. QED
    BY <1>7, <2>2, <2>3, ReservePinEffect
<1>8. CASE ReadToken(c)
  <2>1. step[c] = "readToken"
    BY <1>8, ReadTokenEffect
  <2>2. PICK q \in Request :
                 /\ Becomes(c, "writeInvite", q)
                 /\ q.token \in Token \ used /\ q.previous = redis[req[c].room]
                 /\ q.op = req[c].op /\ q.room = req[c].room /\ q.from = req[c].from
                 /\ q.ticket = req[c].ticket /\ q.aged = req[c].aged
    BY <1>8, ReadTokenEffect
  <2>3. Local("writeInvite", q)
    BY <1>0, <2>1, <2>2 DEF Local
  <2>. QED
    BY <1>2, <2>2, <2>3, Steps
<1>9. CASE WriteFirst(c)
  <2>1. step[c] = "writeInvite" /\ Becomes(c, "writeToken", req[c])
    BY <1>9, WriteFirstEffect
  <2>2. Local("writeToken", req[c])
    BY <1>0, <2>1 DEF Local
  <2>. QED
    BY <1>0, <1>2, <2>1, <2>2, Steps
<1>10. CASE WriteSecond(c)
  <2>1. step[c] = "writeToken"
    BY <1>10, WriteSecondEffect
  <2>2. CASE req[c].op = "create" /\ Becomes(c, "insert", req[c])
    <3>1. Local("insert", req[c])
      BY <1>0, <2>1, <2>2 DEF Local
    <3>. QED
      BY <1>0, <1>2, <2>2, <3>1, Steps
  <2>3. CASE req[c].op = "regenerate" /\ req[c].previous # None /\ Becomes(c, "deleteOld", req[c])
    <3>0. req[c].previous \in Token \cup {None}
      BY RequestType
    <3>1. Local("deleteOld", req[c])
      BY <1>0, <2>1, <2>3, <3>0 DEF Local
    <3>. QED
      BY <1>0, <1>2, <2>3, <3>1, Steps
  <2>. QED
    BY <1>1, <1>10, <2>2, <2>3, WriteSecondEffect
<1>11. CASE DeleteOld(c)
  BY <1>1, <1>11, DeleteOldEffect
<1>12. CASE Insert(c)
  BY <1>1, <1>12, InsertEffect
<1>13. CASE Lookup(c)
  <2>1. step[c] = "lookup"
    BY <1>13, LookupEffect
  <2>2. CASE \E q \in Request :
                    /\ Becomes(c, "writeTicket", q)
                    /\ q.ticket \in Ticket \ used /\ q.room \in Room
                    /\ q.op = req[c].op /\ q.from = req[c].from /\ q.token = req[c].token
                    /\ q.previous = req[c].previous /\ q.aged = req[c].aged
    <3>1. PICK q \in Request :
                    /\ Becomes(c, "writeTicket", q)
                    /\ q.ticket \in Ticket \ used /\ q.room \in Room
                    /\ q.op = req[c].op /\ q.from = req[c].from /\ q.token = req[c].token
                    /\ q.previous = req[c].previous /\ q.aged = req[c].aged
      BY <2>2
    <3>2. Local("writeTicket", q)
      BY <1>0, <2>1, <3>1 DEF Local
    <3>. QED
      BY <1>2, <3>1, <3>2, Steps
  <2>. QED
    BY <1>1, <1>13, <2>2, LookupEffect
<1>14. CASE WriteTicket(c)
  BY <1>1, <1>14, WriteTicketEffect
<1>15. CASE Consume(c)
  <2>1. step[c] = "consume"
    BY <1>15, ConsumeEffect
  <2>2. CASE \E q \in Request :
                       /\ Becomes(c, "enter", q) /\ q.room \in Room
                       /\ q.op = req[c].op /\ q.from = req[c].from /\ q.token = req[c].token
                       /\ q.previous = req[c].previous /\ q.ticket = req[c].ticket
                       /\ q.aged = req[c].aged
    <3>1. PICK q \in Request :
                       /\ Becomes(c, "enter", q) /\ q.room \in Room
                       /\ q.op = req[c].op /\ q.from = req[c].from /\ q.token = req[c].token
                       /\ q.previous = req[c].previous /\ q.ticket = req[c].ticket
      BY <2>2
    <3>2. Local("enter", q)
      BY <1>0, <2>1, <3>1 DEF Local
    <3>. QED
      BY <1>2, <3>1, <3>2, Steps
  <2>. QED
    BY <1>1, <1>15, <2>2, ConsumeEffect
<1>16. CASE Enter(c)
  BY <1>1, <1>16, EnterEffect
<1>. QED
  BY <1>3, <1>4, <1>5, <1>6, <1>7, <1>8, <1>9, <1>10, <1>11, <1>12, <1>13, <1>14, <1>15, <1>16 DEF Handler

LEMMA RequestTypes ==
    ASSUME Types, [Next]_vars
    PROVE  /\ step' \in [Client -> Step] /\ req' \in [Client -> Request]
           /\ \A d \in Client : Local(step'[d], req'[d])
<1>0. /\ step \in [Client -> Step] /\ req \in [Client -> Request]
      /\ \A d \in Client : Local(step[d], req[d])
  BY DEF Types, TypeOK
<1>1. CASE UNCHANGED <<step, req>>
  BY <1>0, <1>1
<1>2. ASSUME NEW c \in Client, NEW s \in Step, NEW q \in Request, Becomes(c, s, q), Local(s, q),
             s # "idle" \/ req'[c] = NoRequest
      PROVE  /\ step' \in [Client -> Step] /\ req' \in [Client -> Request]
             /\ \A d \in Client : Local(step'[d], req'[d])
  BY <1>2, LocalBecomes DEF Becomes
<1>3. ASSUME NEW c \in Client, Handler(c)
      PROVE  /\ step' \in [Client -> Step] /\ req' \in [Client -> Request]
             /\ \A d \in Client : Local(step'[d], req'[d])
  BY <1>2, <1>3, HandlerLocal
<1>4. ASSUME NEW c \in Client, TimesOut(c)
      PROVE  /\ step' \in [Client -> Step] /\ req' \in [Client -> Request]
             /\ \A d \in Client : Local(step'[d], req'[d])
  <2>1. step[c] \in Calling /\ step[c] # "idle" /\ req[c] \in Request /\ step[c] \in Step
    BY <1>4, TimesOutEffect, RequestType DEF Calling
  <2>. QED
    BY <1>0, <1>2, <1>4, <2>1, TimesOutEffect, NoRequestType, LocalIdle, Steps
<1>5. ASSUME NEW ops, Abandon(ops)
      PROVE  /\ step' \in [Client -> Step] /\ req' \in [Client -> Request]
             /\ \A d \in Client : Local(step'[d], req'[d])
  <2>1. ASSUME NEW d \in Client PROVE Local(step'[d], req'[d])
    <3>1. \/ step'[d] = step[d] /\ req'[d] = req[d]
          \/ step'[d] = "idle" /\ req'[d] = NoRequest
      BY <1>5, AbandonEffect
    <3>. QED
      BY <1>0, <3>1, LocalIdle
  <2>. QED
    BY <1>5, <2>1, AbandonEffect
<1>. QED
  BY <1>1, <1>3, <1>4, <1>5 DEF Next, vars, ExecuteLate, TicketAges, KeyExpires, RestartGame, RestartJoin

LEMMA SetTypes ==
    ASSUME Types, [Next]_vars
    PROVE  /\ rooms' \subseteq Room /\ roomPins' \in [Room -> Pin \cup {None}]
           /\ requests' \in Nat /\ used' \subseteq Room \cup Token \cup Ticket
           /\ given' \subseteq Ticket /\ old' \subseteq Ticket /\ admitted' \in [Ticket -> Nat]
           /\ revoked' \subseteq Token /\ tidy' \subseteq Room /\ faults' \subseteq {"lost", "overdue"}
<1>. DEFINE Goal == /\ rooms' \subseteq Room /\ roomPins' \in [Room -> Pin \cup {None}]
                    /\ requests' \in Nat /\ used' \subseteq Room \cup Token \cup Ticket
                    /\ given' \subseteq Ticket /\ old' \subseteq Ticket /\ admitted' \in [Ticket -> Nat]
                    /\ revoked' \subseteq Token /\ tidy' \subseteq Room
                    /\ faults' \subseteq {"lost", "overdue"}
<1>0. TypeOK
  BY DEF Types
<1>1. ASSUME NEW c \in Client, Handler(c) PROVE Goal
  <2>0. Local(step[c], req[c])
    BY RequestType
  <2>1. CASE CreateRoom(c)
    BY <1>0, <2>1 DEF CreateRoom, Begin, Fresh, TypeOK, game
  <2>2. CASE RegenerateInvite(c)
    BY <1>0, <2>2 DEF RegenerateInvite, Begin, TypeOK, game
  <2>3. CASE IssueTicket(c) \/ JoinRoom(c)
    <3>1. requests' = requests + 1
      BY <2>3 DEF IssueTicket, JoinRoom, Begin
    <3>2. UNCHANGED <<rooms, roomPins, used, given, old, admitted, revoked, tidy, faults>>
      BY <2>3 DEF IssueTicket, JoinRoom, Begin, game
    <3>. QED
      BY <1>0, <3>1, <3>2 DEF TypeOK
  <2>4. CASE ReservePin(c) \/ WriteFirst(c) \/ WriteSecond(c) \/ Consume(c)
    BY <1>0, <2>4 DEF ReservePin, WriteFirst, WriteSecond, Consume, Answered, TypeOK, game
  <2>5. CASE ReadToken(c) \/ Lookup(c)
    BY <1>0, <2>5 DEF ReadToken, Lookup, Fresh, Answered, TypeOK, game
  <2>6. CASE DeleteOld(c)
    <3>1. req[c].previous \in Token
      BY <2>0, <2>6 DEF DeleteOld, Answered, Local
    <3>. QED
      BY <1>0, <2>6, <3>1 DEF DeleteOld, Answered, TypeOK, game
  <2>7. CASE Insert(c)
    <3>1. req[c].room \in Room /\ req[c].from \in Pin
      BY <2>0, <2>7 DEF Insert, Local
    <3>. QED
      BY <1>0, <2>7, <3>1 DEF Insert, history, TypeOK
  <2>8. CASE WriteTicket(c)
    <3>1. req[c].ticket \in Ticket
      BY <2>0, <2>8 DEF WriteTicket, Answered, Local
    <3>. QED
      BY <1>0, <2>8, <3>1 DEF WriteTicket, Answered, TypeOK, game
  <2>9. CASE Enter(c)
    <3>1. req[c].ticket \in Ticket
      BY <2>0, <2>9 DEF Enter, Local
    <3>. QED
      BY <1>0, <2>9, <3>1 DEF Enter, TypeOK, game
  <2>. QED
    BY <1>1, <2>1, <2>2, <2>3, <2>4, <2>5, <2>6, <2>7, <2>8, <2>9 DEF Handler
<1>2. ASSUME NEW c \in Client, TimesOut(c) PROVE Goal
  BY <1>0, <1>2 DEF TimesOut, Again, Fail, TypeOK, game
<1>3. CASE ExecuteLate
  BY <1>0, <1>3 DEF ExecuteLate, history, TypeOK, game
<1>4. CASE TicketAges \/ KeyExpires
  BY <1>0, <1>4 DEF TicketAges, KeyExpires, history, TypeOK, game
<1>5. CASE RestartGame \/ RestartJoin
  BY <1>0, <1>5 DEF RestartGame, RestartJoin, Abandon, TypeOK, game
<1>6. CASE UNCHANGED vars
  BY <1>0, <1>6 DEF vars, history, TypeOK, game
<1>. QED
  BY <1>1, <1>2, <1>3, <1>4, <1>5, <1>6 DEF Next

\* A late command is one that a request gave up.
LEMMA LateTypes ==
    ASSUME Types, [Next]_vars
    PROVE  \A cmd \in late' :
              /\ WriteCommand(cmd)
              /\ cmd \in late \/ \E c \in Client : cmd = Command(c) /\ step[c] \in Calling
<1>0. \A cmd \in late : WriteCommand(cmd)
  BY DEF Types
<1>1. late' \subseteq late \/ \E c \in Client : TimesOut(c)
  BY DEF Next, vars, ExecuteLate, TicketAges, KeyExpires, RestartGame, RestartJoin, Abandon,
         Handler, CreateRoom, ReservePin, WriteFirst, WriteSecond, Insert, RegenerateInvite, ReadToken,
         DeleteOld, IssueTicket, Lookup, WriteTicket, JoinRoom, Consume, Enter, Begin, Answered
<1>2. ASSUME NEW c \in Client, TimesOut(c)
      PROVE  \A cmd \in late' :
                /\ WriteCommand(cmd)
                /\ cmd \in late \/ \E d \in Client : cmd = Command(d) /\ step[d] \in Calling
  BY <1>0, <1>2, TimesOutEffect
<1>. QED
  BY <1>0, <1>1, <1>2

LEMMA TypesStep == ASSUME Types, [Next]_vars PROVE Types'
BY RedisTypes, LateTypes, RequestTypes, SetTypes, TypesFrom

LEMMA TypesInit == Init => Types
<1>. SUFFICES ASSUME Init PROVE Types
  OBVIOUS
<1>1. Kinds
  BY DEF Init, Kinds, Key
<1>2. TypeOK
  BY NoRequestType DEF Init, TypeOK, Step
<1>3. \A c \in Client : Local(step[c], req[c])
  BY LocalIdle DEF Init
<1>. QED
  BY <1>1, <1>2, <1>3 DEF Types, Init

\* Every key holds what its kind of key may hold, every request knows what
\* its handler has learnt by the step it is at.
THEOREM TypeCorrect == Spec => []TypeOK
<1>1. Types /\ [Next]_vars => Types'
  BY TypesStep
<1>2. Types => TypeOK
  BY DEF Types
<1>. QED
  BY <1>1, <1>2, TypesInit, PTL DEF Spec

---------------------------------------------------------------------------
(* Tickets.                                                                *)

\* One request stores a ticket, before the ticket is answered; only then is
\* it presented.
Issued ==
    /\ given \subseteq used
    /\ \A c \in Client : step[c] = "writeTicket" =>
          /\ req[c].ticket \in used \ given
          /\ \A d \in Client : req[d].ticket = req[c].ticket => d = c
    /\ \A c \in Client : step[c] \in {"consume", "enter"} => req[c].ticket \in given

\* A ticket is stored, held by one request that consumed it, or spent.
Spent == "overdue" \in faults \/
    /\ \A k \in Ticket :
       /\ admitted[k] <= 1
       /\ k \notin given => admitted[k] = 0
       /\ k \notin used => redis[k] = None
       /\ redis[k] # None => admitted[k] = 0
    /\ \A c \in Client : step[c] = "enter" =>
       /\ admitted[req[c].ticket] = 0 /\ redis[req[c].ticket] = None
       /\ \A d \in Client : step[d] = "enter" /\ req[d].ticket = req[c].ticket => d = c

\* A request whose ticket was old when it began waits for Redis, and the
\* ticket is old for ever.
Aged == \A c \in Client : req[c].aged => step[c] = "consume" /\ req[c].ticket \in old

Tickets == Issued /\ Spent /\ Aged

\* Nobody comes to hold a ticket, and what is written to one is written by
\* the request that stores it.
QuietTickets ==
    /\ \A d \in Client : step'[d] \in {"writeTicket", "consume", "enter"} =>
          step'[d] = step[d] /\ req'[d].ticket = req[d].ticket
    /\ \A d \in Client : req'[d].aged =>
          req[d].aged /\ step'[d] = step[d] /\ req'[d].ticket = req[d].ticket
    /\ \A k \in Ticket : k \in used' <=> k \in used
    /\ given' = given /\ old \subseteq old' /\ admitted' = admitted /\ faults \subseteq faults'
    /\ \/ "overdue" \in faults'
       \/ \A k \in Ticket : \/ redis'[k] \in {redis[k], None}
                            \/ \E d \in Client : step[d] = "writeTicket" /\ req[d].ticket = k

LEMMA TicketsStayQuiet ==
    ASSUME Types, Types', Tickets, QuietTickets
    PROVE  Tickets'
<1>1. given \subseteq Ticket
  BY DEF Types, TypeOK
<1>2. \A d \in Client : step'[d] \notin {"writeTicket", "consume", "enter"} => req'[d].ticket = None
  BY DEF Types, Local
<1>3. \A d \in Client : /\ step[d] \in {"writeTicket", "consume", "enter"} => req[d].ticket \in Ticket
                        /\ req[d].ticket # None => step[d] \in {"writeTicket", "consume", "enter"}
  BY DEF Types, Local
<1>4. None \notin Ticket
  BY KeyKinds
<1>5. Issued'
  <2>1. given' \subseteq used'
    BY <1>1 DEF Tickets, Issued, QuietTickets
  <2>2. ASSUME NEW c \in Client, step'[c] = "writeTicket"
        PROVE  /\ req'[c].ticket \in used' \ given'
               /\ \A d \in Client : req'[d].ticket = req'[c].ticket => d = c
    <3>1. step[c] = "writeTicket" /\ req'[c].ticket = req[c].ticket /\ req[c].ticket \in Ticket
      BY <1>3, <2>2 DEF QuietTickets
    <3>2. req[c].ticket \in used \ given /\ \A d \in Client : req[d].ticket = req[c].ticket => d = c
      BY <3>1 DEF Tickets, Issued
    <3>3. req'[c].ticket \in used' \ given'
      BY <3>1, <3>2 DEF QuietTickets
    <3>4. ASSUME NEW d \in Client, req'[d].ticket = req'[c].ticket PROVE d = c
      BY <1>2, <1>4, <3>1, <3>2, <3>4 DEF QuietTickets
    <3>. QED
      BY <3>3, <3>4
  <2>3. ASSUME NEW c \in Client, step'[c] \in {"consume", "enter"} PROVE req'[c].ticket \in given'
    BY <2>3 DEF Tickets, Issued, QuietTickets
  <2>. QED
    BY <2>1, <2>2, <2>3 DEF Issued
<1>6. Spent'
  <2>1. CASE "overdue" \in faults'
    BY <2>1 DEF Spent
  <2>2. CASE "overdue" \notin faults'
    <3>1. "overdue" \notin faults
      BY <2>2 DEF QuietTickets
    <3>2. ASSUME NEW k \in Ticket
          PROVE  /\ admitted'[k] <= 1
                 /\ k \notin given' => admitted'[k] = 0
                 /\ k \notin used' => redis'[k] = None
                 /\ redis'[k] # None => admitted'[k] = 0
      <4>1. /\ admitted[k] <= 1 /\ (k \notin given => admitted[k] = 0)
            /\ k \notin used => redis[k] = None
            /\ redis[k] # None => admitted[k] = 0
        BY <3>1 DEF Tickets, Spent
      <4>2. admitted'[k] = admitted[k] /\ given' = given /\ (k \in used' <=> k \in used)
        BY DEF QuietTickets
      <4>3. \/ redis'[k] \in {redis[k], None}
            \/ \E d \in Client : step[d] = "writeTicket" /\ req[d].ticket = k
        BY <2>2 DEF QuietTickets
      <4>4. (\E d \in Client : step[d] = "writeTicket" /\ req[d].ticket = k) => k \in used \ given
        BY DEF Tickets, Issued
      <4>. QED
        BY <4>1, <4>2, <4>3, <4>4
    <3>3. ASSUME NEW c \in Client, step'[c] = "enter"
          PROVE  /\ admitted'[req'[c].ticket] = 0 /\ redis'[req'[c].ticket] = None
                 /\ \A d \in Client : step'[d] = "enter" /\ req'[d].ticket = req'[c].ticket => d = c
      <4>1. step[c] = "enter" /\ req'[c].ticket = req[c].ticket /\ req[c].ticket \in Ticket
        BY <1>3, <3>3 DEF QuietTickets
      <4>2. /\ admitted[req[c].ticket] = 0 /\ redis[req[c].ticket] = None
            /\ \A d \in Client : step[d] = "enter" /\ req[d].ticket = req[c].ticket => d = c
        BY <3>1, <4>1 DEF Tickets, Spent
      <4>3. req[c].ticket \in given
        BY <4>1 DEF Tickets, Issued
      <4>4. ~ \E d \in Client : step[d] = "writeTicket" /\ req[d].ticket = req[c].ticket
        BY <4>3 DEF Tickets, Issued
      <4>5. redis'[req[c].ticket] = None
        BY <2>2, <4>1, <4>2, <4>4 DEF QuietTickets
      <4>6. \A d \in Client : step'[d] = "enter" /\ req'[d].ticket = req'[c].ticket => d = c
        BY <4>1, <4>2 DEF QuietTickets
      <4>. QED
        BY <4>1, <4>2, <4>5, <4>6 DEF QuietTickets
    <3>. QED
      BY <3>2, <3>3 DEF Spent
  <2>. QED
    BY <2>1, <2>2
<1>7. Aged'
  BY DEF Tickets, Aged, QuietTickets
<1>. QED
  BY <1>5, <1>6, <1>7 DEF Tickets

\* The tickets that a command of client c writes
LEMMA ExecuteOnTickets ==
    ASSUME Types, NEW c \in Client, step[c] \in Calling, Execute(Command(c)), NEW k \in Ticket
    PROVE  \/ redis'[k] = redis[k]
           \/ redis'[k] = None /\ step[c] = "consume" /\ req[c].ticket = k
           \/ step[c] = "writeTicket" /\ req[c].ticket = k
<1>0. redis \in [Key -> Room \cup Token \cup {None}] /\ k \in Key
  BY DEF Types, TypeOK, Key
<1>1. Local(step[c], req[c]) /\ req[c].previous \in Token \cup {None}
  BY RequestType
<1>2. CASE step[c] = "reservePin"
  <2>1. req[c].from \in Pin
    BY <1>1, <1>2 DEF Local
  <2>2. k # req[c].from
    BY <2>1, <1>0, KeyKinds
  <2>. QED
    BY <1>0, <1>2, <2>2, ExecuteEffect
<1>3. CASE step[c] \in {"readToken", "lookup"}
  BY <1>3, ExecuteEffect
<1>4. CASE step[c] = "writeInvite"
  <2>1. req[c].token \in Token
    BY <1>1, <1>4 DEF Local
  <2>2. k # req[c].token
    BY <2>1, <1>0, KeyKinds
  <2>. QED
    BY <1>0, <1>4, <2>2, ExecuteEffect
<1>5. CASE step[c] = "writeToken"
  <2>1. req[c].room \in Room
    BY <1>1, <1>5 DEF Local
  <2>2. k # req[c].room
    BY <2>1, <1>0, KeyKinds
  <2>. QED
    BY <1>0, <1>5, <2>2, ExecuteEffect
<1>6. CASE step[c] = "deleteOld"
  <2>1. req[c].previous \in Token
    BY <1>1, <1>6 DEF Local
  <2>2. k # req[c].previous
    BY <2>1, <1>0, KeyKinds
  <2>. QED
    BY <1>0, <1>6, <2>2, ExecuteEffect
<1>7. CASE step[c] \in {"writeTicket", "consume"}
  BY <1>0, <1>7, ExecuteEffect
<1>. QED
  BY <1>2, <1>3, <1>4, <1>5, <1>6, <1>7 DEF Calling

\* A request that goes on without a ticket
LEMMA QuietBecomes ==
    ASSUME Tickets, NEW c \in Client, NEW s, NEW q, Becomes(c, s, q),
           s \notin {"writeTicket", "consume", "enter"}, ~ q.aged
    PROVE  /\ \A d \in Client : step'[d] \in {"writeTicket", "consume", "enter"} =>
                 step'[d] = step[d] /\ req'[d].ticket = req[d].ticket
           /\ \A d \in Client : req'[d].aged =>
                 req[d].aged /\ step'[d] = step[d] /\ req'[d].ticket = req[d].ticket
<1>1. ~ req'[c].aged /\ step'[c] = s
  BY DEF Becomes, Like
<1>2. \A d \in Client : d # c => step'[d] = step[d] /\ req'[d] = req[d]
  BY DEF Becomes
<1>. QED
  BY <1>1, <1>2

\* The handlers that write invites hold no ticket.
LEMMA WritersAreQuiet ==
    ASSUME Types, Tickets, NEW c \in Client,
           \/ CreateRoom(c) \/ ReservePin(c) \/ WriteFirst(c) \/ WriteSecond(c) \/ Insert(c)
           \/ RegenerateInvite(c) \/ ReadToken(c) \/ DeleteOld(c) \/ IssueTicket(c)
    PROVE  QuietTickets
<1>1. \E s, q : Becomes(c, s, q) /\ s \notin {"writeTicket", "consume", "enter"} /\ ~ q.aged
  <2>0. step[c] # "consume" => ~ req[c].aged
    BY DEF Tickets, Aged
  <2>1. CASE CreateRoom(c)
    BY <2>1, CreateEffect
  <2>2. CASE RegenerateInvite(c)
    BY <2>2, RegenerateEffect
  <2>3. CASE IssueTicket(c)
    BY <2>3, IssueEffect
  <2>4. CASE ReservePin(c)
    <3>1. step[c] = "reservePin"
      BY <2>4, ReservePinEffect
    <3>2. ~ req[c].aged
      BY <2>0, <3>1
    <3>3. CASE Becomes(c, "writeInvite", req[c])
      BY <3>2, <3>3
    <3>4. ASSUME NEW q \in Request, Becomes(c, "reservePin", q), q.aged = req[c].aged
          PROVE  \E s, r : Becomes(c, s, r) /\ s \notin {"writeTicket", "consume", "enter"} /\ ~ r.aged
      <4>1. ~ q.aged
        BY <3>2, <3>4
      <4>. QED
        BY <3>4, <4>1
    <3>. QED
      BY <2>4, <3>3, <3>4, ReservePinEffect
  <2>5. CASE ReadToken(c)
    <3>1. step[c] = "readToken"
      BY <2>5, ReadTokenEffect
    <3>2. PICK q \in Request : Becomes(c, "writeInvite", q) /\ q.aged = req[c].aged
      BY <2>5, ReadTokenEffect
    <3>3. ~ q.aged
      BY <2>0, <3>1, <3>2
    <3>. QED
      BY <3>2, <3>3
  <2>6. CASE WriteFirst(c)
    BY <2>0, <2>6, WriteFirstEffect
  <2>7. CASE WriteSecond(c)
    <3>1. step[c] = "writeToken" /\ ~ NoRequest.aged
      BY <2>7, WriteSecondEffect, NoRequestType
    <3>2. ~ req[c].aged
      BY <2>0, <3>1
    <3>3. Becomes(c, "insert", req[c]) \/ Becomes(c, "deleteOld", req[c]) \/ Becomes(c, "idle", NoRequest)
      BY <2>7, WriteSecondEffect
    <3>. QED
      BY <3>1, <3>2, <3>3
  <2>8. CASE Insert(c) \/ DeleteOld(c)
    BY <2>8, InsertEffect, DeleteOldEffect, NoRequestType
  <2>. QED
    BY <2>1, <2>2, <2>3, <2>4, <2>5, <2>6, <2>7, <2>8
<1>2. /\ \A d \in Client : step'[d] \in {"writeTicket", "consume", "enter"} =>
            step'[d] = step[d] /\ req'[d].ticket = req[d].ticket
      /\ \A d \in Client : req'[d].aged =>
            req[d].aged /\ step'[d] = step[d] /\ req'[d].ticket = req[d].ticket
  BY <1>1, QuietBecomes
<1>3. \A k \in Ticket : k \in used' <=> k \in used
  <2>1. CASE CreateRoom(c)
    <3>1. PICK r \in Room, t \in Token : used' = used \cup {r, t}
      BY <2>1, CreateEffect
    <3>. QED
      BY <3>1, KindsAssumption
  <2>2. CASE ReadToken(c)
    <3>1. PICK t \in Token : used' = used \cup {t}
      BY <2>2, ReadTokenEffect
    <3>. QED
      BY <3>1, KindsAssumption
  <2>. QED
    BY <2>1, <2>2, RegenerateEffect, IssueEffect, ReservePinEffect, WriteFirstEffect, WriteSecondEffect,
       InsertEffect, DeleteOldEffect
<1>4. UNCHANGED <<given, old, admitted, faults>>
  BY CreateEffect, ReadTokenEffect, RegenerateEffect, IssueEffect, ReservePinEffect, WriteFirstEffect,
     WriteSecondEffect, InsertEffect, DeleteOldEffect DEF history
<1>5. redis' = redis \/ (step[c] \in Calling /\ step[c] \notin {"consume", "writeTicket"} /\ Execute(Command(c)))
  BY Steps DEF CreateRoom, ReservePin, WriteFirst, WriteSecond, Insert, RegenerateInvite,
     ReadToken, DeleteOld, IssueTicket, Begin, Answered
<1>6. \A k \in Ticket : redis'[k] = redis[k]
  BY <1>5, ExecuteOnTickets
<1>. QED
  BY <1>2, <1>3, <1>4, <1>6 DEF QuietTickets

\* Nothing but the handlers and the clock looks at the tickets.
LEMMA OthersAreQuiet ==
    ASSUME Types, Tickets,
           \/ \E c \in Client : TimesOut(c)
           \/ ExecuteLate \/ TicketAges \/ KeyExpires \/ RestartGame \/ RestartJoin
           \/ UNCHANGED vars
    PROVE  QuietTickets
<1>0. redis \in [Key -> Room \cup Token \cup {None}] /\ Ticket \subseteq Key
  BY DEF Types, TypeOK, Key
<1>1. ASSUME NEW c \in Client, TimesOut(c) PROVE QuietTickets
  <2>1. /\ step[c] \in Calling
        /\ redis' = redis \/ Execute(Command(c))
        /\ UNCHANGED <<used, given, old, admitted>> /\ faults \subseteq faults'
    BY <1>1, TimesOutEffect
  <2>2. \A k \in Ticket : \/ redis'[k] \in {redis[k], None}
                          \/ \E d \in Client : step[d] = "writeTicket" /\ req[d].ticket = k
    BY <2>1, ExecuteOnTickets
  <2>3. /\ \A d \in Client : step'[d] \in {"writeTicket", "consume", "enter"} =>
              step'[d] = step[d] /\ req'[d].ticket = req[d].ticket
        /\ \A d \in Client : req'[d].aged =>
              req[d].aged /\ step'[d] = step[d] /\ req'[d].ticket = req[d].ticket
    <3>1. CASE Becomes(c, step[c], req[c])
      <4>1. step'[c] = step[c] /\ req'[c].ticket = req[c].ticket /\ req'[c].aged = req[c].aged
        BY <3>1 DEF Becomes, Like
      <4>2. \A d \in Client : d # c => step'[d] = step[d] /\ req'[d] = req[d]
        BY <3>1 DEF Becomes
      <4>. QED
        BY <4>1, <4>2
    <3>2. CASE Becomes(c, "idle", NoRequest)
      BY <3>2, QuietBecomes, NoRequestType
    <3>. QED
      BY <1>1, <3>1, <3>2, TimesOutEffect
  <2>. QED
    BY <2>1, <2>2, <2>3 DEF QuietTickets
<1>2. CASE ExecuteLate
  BY <1>2 DEF ExecuteLate, QuietTickets, history
<1>3. CASE TicketAges
  BY <1>0, <1>3 DEF TicketAges, QuietTickets, history
<1>4. CASE KeyExpires
  BY <1>0, <1>4 DEF KeyExpires, QuietTickets, history
<1>5. ASSUME NEW ops, Abandon(ops) PROVE QuietTickets
  <2>1. UNCHANGED <<redis, used, given, old, admitted, faults>>
    BY <1>5, AbandonEffect
  <2>2. ASSUME NEW d \in Client
        PROVE  /\ step'[d] \in {"writeTicket", "consume", "enter"} =>
                     step'[d] = step[d] /\ req'[d].ticket = req[d].ticket
               /\ req'[d].aged =>
                     req[d].aged /\ step'[d] = step[d] /\ req'[d].ticket = req[d].ticket
    <3>1. CASE step'[d] = step[d] /\ req'[d] = req[d]
      BY <3>1
    <3>2. CASE step'[d] = "idle" /\ req'[d] = NoRequest
      BY <3>2, NoRequestType
    <3>. QED
      BY <1>5, <3>1, <3>2, AbandonEffect
  <2>. QED
    BY <2>1, <2>2 DEF QuietTickets
<1>6. CASE UNCHANGED vars
  BY <1>6 DEF vars, QuietTickets, history
<1>. QED
  BY <1>1, <1>2, <1>3, <1>4, <1>5, <1>6 DEF RestartGame, RestartJoin

\* A ticket is drawn: nobody else knows it.
LEMMA LookupTickets ==
    ASSUME Types, Types', Tickets, NEW c \in Client, Lookup(c)
    PROVE  Tickets'
<1>0. step[c] = "lookup" /\ redis' = redis /\ UNCHANGED <<late, given, old, admitted, faults>>
  BY LookupEffect DEF history
<1>1. CASE Becomes(c, "idle", NoRequest) /\ used' = used
  <2>1. QuietTickets
    BY <1>0, <1>1, QuietBecomes, NoRequestType DEF QuietTickets
  <2>. QED
    BY <2>1, TicketsStayQuiet
<1>2. ASSUME NEW q \in Request, Becomes(c, "writeTicket", q), q.ticket \in Ticket \ used,
             q.aged = req[c].aged, used' = used \cup {q.ticket}
      PROVE  Tickets'
  <2>1. step'[c] = "writeTicket" /\ req'[c].ticket = q.ticket /\ req'[c].aged = q.aged
    BY <1>2 DEF Becomes, Like
  <2>2. \A d \in Client : d # c => step'[d] = step[d] /\ req'[d] = req[d]
    BY <1>2 DEF Becomes
  <2>3. given \subseteq used /\ None \notin Ticket /\ given \subseteq Ticket
    BY KeyKinds DEF Tickets, Issued, Types, TypeOK
  <2>4. \A d \in Client : req[d].ticket # None => req[d].ticket \in used
    <3>1. \A d \in Client : req[d].ticket # None => step[d] \in {"writeTicket", "consume", "enter"}
      BY DEF Types, Local
    <3>. QED
      BY <2>3, <3>1 DEF Tickets, Issued
  <2>5. Issued'
    <3>1. given' \subseteq used'
      BY <1>0, <1>2, <2>3
    <3>2. ASSUME NEW d \in Client, step'[d] = "writeTicket"
          PROVE  /\ req'[d].ticket \in used' \ given'
                 /\ \A e \in Client : req'[e].ticket = req'[d].ticket => e = d
      <4>1. CASE d = c
        BY <1>0, <1>2, <2>1, <2>2, <2>3, <2>4, <4>1
      <4>2. CASE d # c
        <5>1. /\ req[d].ticket \in used \ given /\ req'[d].ticket = req[d].ticket
              /\ \A e \in Client : req[e].ticket = req[d].ticket => e = d
          BY <2>2, <3>2, <4>2 DEF Tickets, Issued
        <5>. QED
          BY <1>0, <1>2, <2>1, <2>2, <4>2, <5>1
      <4>. QED
        BY <4>1, <4>2
    <3>3. ASSUME NEW d \in Client, step'[d] \in {"consume", "enter"} PROVE req'[d].ticket \in given'
      BY <1>0, <2>1, <2>2, <3>3 DEF Tickets, Issued
    <3>. QED
      BY <3>1, <3>2, <3>3 DEF Issued
  <2>6. Spent'
    <3>1. CASE "overdue" \in faults
      BY <1>0, <3>1 DEF Spent
    <3>2. CASE "overdue" \notin faults
      <4>1. \A k \in Ticket : /\ admitted'[k] <= 1 /\ (k \notin given' => admitted'[k] = 0)
                              /\ k \notin used' => redis'[k] = None
                              /\ redis'[k] # None => admitted'[k] = 0
        BY <1>0, <1>2, <3>2 DEF Tickets, Spent
      <4>2. ASSUME NEW d \in Client, step'[d] = "enter"
            PROVE  /\ admitted'[req'[d].ticket] = 0 /\ redis'[req'[d].ticket] = None
                   /\ \A e \in Client : step'[e] = "enter" /\ req'[e].ticket = req'[d].ticket => e = d
        <5>1. d # c /\ step[d] = "enter" /\ req'[d].ticket = req[d].ticket
          BY <2>1, <2>2, <4>2
        <5>2. /\ admitted[req[d].ticket] = 0 /\ redis[req[d].ticket] = None
              /\ \A e \in Client : step[e] = "enter" /\ req[e].ticket = req[d].ticket => e = d
          BY <3>2, <5>1 DEF Tickets, Spent
        <5>. QED
          BY <1>0, <2>1, <2>2, <5>1, <5>2
      <4>. QED
        BY <4>1, <4>2 DEF Spent
    <3>. QED
      BY <3>1, <3>2
  <2>7. Aged'
    <3>1. ~ req[c].aged
      BY <1>0 DEF Tickets, Aged
    <3>2. ~ req'[c].aged
      BY <1>2, <2>1, <3>1
    <3>. QED
      BY <1>0, <2>2, <3>2 DEF Tickets, Aged
  <2>. QED
    BY <2>5, <2>6, <2>7 DEF Tickets
<1>. QED
  BY <1>1, <1>2, LookupEffect

\* The ticket is stored and answered: from now on anybody may present it.
LEMMA WriteTicketTickets ==
    ASSUME Types, Types', Tickets, NEW c \in Client, WriteTicket(c)
    PROVE  Tickets'
<1>. DEFINE k == req[c].ticket
<1>1. /\ step[c] = "writeTicket" /\ redis' = [redis EXCEPT ![k] = req[c].room]
      /\ given' = given \cup {k} /\ step'[c] = "idle" /\ req'[c] = NoRequest
      /\ UNCHANGED <<used, old, admitted, faults>>
  BY WriteTicketEffect DEF Becomes, history
<1>2. \A d \in Client : d # c => step'[d] = step[d] /\ req'[d] = req[d]
  BY WriteTicketEffect DEF Becomes
<1>3. /\ k \in Ticket /\ k \in used \ given /\ given \subseteq used
      /\ \A d \in Client : req[d].ticket = k => d = c
  BY <1>1 DEF Tickets, Issued, Types, Local
<1>4. redis \in [Key -> Room \cup Token \cup {None}] /\ Ticket \subseteq Key
  BY DEF Types, TypeOK, Key
<1>. HIDE DEF k
<1>5. Issued'
  <2>1. ASSUME NEW d \in Client, step'[d] = "writeTicket"
        PROVE  /\ req'[d].ticket \in used' \ given'
               /\ \A e \in Client : req'[e].ticket = req'[d].ticket => e = d
    <3>1. d # c /\ step[d] = "writeTicket" /\ req'[d].ticket = req[d].ticket
      BY <1>1, <1>2, <2>1
    <3>2. /\ req[d].ticket \in used \ given
          /\ \A e \in Client : req[e].ticket = req[d].ticket => e = d
      BY <3>1 DEF Tickets, Issued
    <3>3. req[d].ticket # k
      BY <1>3, <3>1
    <3>4. req[d].ticket \in Ticket /\ None \notin Ticket /\ req'[c].ticket = None
      BY <1>1, <3>1, KeyKinds, NoRequestType DEF Types, Local
    <3>. QED
      BY <1>1, <1>2, <3>1, <3>2, <3>3, <3>4
  <2>2. ASSUME NEW d \in Client, step'[d] \in {"consume", "enter"} PROVE req'[d].ticket \in given'
    BY <1>1, <1>2, <2>2 DEF Tickets, Issued
  <2>. QED
    BY <1>1, <1>3, <2>1, <2>2 DEF Issued
<1>6. Spent'
  <2>1. CASE "overdue" \in faults
    BY <1>1, <2>1 DEF Spent
  <2>2. CASE "overdue" \notin faults
    <3>1. ASSUME NEW j \in Ticket
          PROVE  /\ admitted'[j] <= 1 /\ (j \notin given' => admitted'[j] = 0)
                 /\ j \notin used' => redis'[j] = None
                 /\ redis'[j] # None => admitted'[j] = 0
      <4>1. /\ admitted[j] <= 1 /\ (j \notin given => admitted[j] = 0)
            /\ j \notin used => redis[j] = None
            /\ redis[j] # None => admitted[j] = 0
        BY <2>2 DEF Tickets, Spent
      <4>2. j # k => redis'[j] = redis[j]
        BY <1>1, <1>4
      <4>. QED
        BY <1>1, <1>3, <4>1, <4>2
    <3>2. ASSUME NEW d \in Client, step'[d] = "enter"
          PROVE  /\ admitted'[req'[d].ticket] = 0 /\ redis'[req'[d].ticket] = None
                 /\ \A e \in Client : step'[e] = "enter" /\ req'[e].ticket = req'[d].ticket => e = d
      <4>1. d # c /\ step[d] = "enter" /\ req'[d] = req[d]
        BY <1>1, <1>2, <3>2
      <4>2. /\ admitted[req[d].ticket] = 0 /\ redis[req[d].ticket] = None
            /\ \A e \in Client : step[e] = "enter" /\ req[e].ticket = req[d].ticket => e = d
        BY <2>2, <4>1 DEF Tickets, Spent
      <4>3. req[d].ticket # k /\ req[d].ticket \in Ticket
        BY <1>3, <4>1 DEF Types, Local
      <4>4. redis'[req[d].ticket] = None
        BY <1>1, <1>4, <4>2, <4>3
      <4>. QED
        BY <1>1, <1>2, <4>1, <4>2, <4>4
    <3>. QED
      BY <3>1, <3>2 DEF Spent
  <2>. QED
    BY <2>1, <2>2
<1>7. Aged'
  BY <1>1, <1>2, NoRequestType DEF Tickets, Aged
<1>. QED
  BY <1>5, <1>6, <1>7 DEF Tickets

\* A ticket that was answered is presented.
LEMMA JoinTickets ==
    ASSUME Types, Types', Tickets, NEW c \in Client, JoinRoom(c)
    PROVE  Tickets'
<1>1. PICK q \in Request : /\ Becomes(c, "consume", q)
                           /\ q.ticket \in given /\ q.aged = (q.ticket \in old)
  BY JoinEffect
<1>2. step[c] = "idle" /\ UNCHANGED <<redis, used, given, old, admitted, faults>>
  BY JoinEffect DEF history
<1>3. /\ step'[c] = "consume" /\ req'[c].ticket \in given
      /\ req'[c].aged = (req'[c].ticket \in old)
  BY <1>1 DEF Becomes, Like
<1>4. \A d \in Client : d # c => step'[d] = step[d] /\ req'[d] = req[d]
  BY <1>1 DEF Becomes
<1>5. Issued'
  <2>1. ASSUME NEW d \in Client, step'[d] = "writeTicket"
        PROVE  /\ req'[d].ticket \in used' \ given'
               /\ \A e \in Client : req'[e].ticket = req'[d].ticket => e = d
    <3>1. d # c /\ step[d] = "writeTicket" /\ req'[d].ticket = req[d].ticket
      BY <1>3, <1>4, <2>1
    <3>2. /\ req[d].ticket \in used \ given
          /\ \A e \in Client : req[e].ticket = req[d].ticket => e = d
      BY <3>1 DEF Tickets, Issued
    <3>. QED
      BY <1>2, <1>3, <1>4, <3>1, <3>2
  <2>2. ASSUME NEW d \in Client, step'[d] \in {"consume", "enter"} PROVE req'[d].ticket \in given'
    BY <1>2, <1>3, <1>4, <2>2 DEF Tickets, Issued
  <2>. QED
    BY <1>2, <2>1, <2>2 DEF Tickets, Issued
<1>6. Spent'
  <2>1. CASE "overdue" \in faults
    BY <1>2, <2>1 DEF Spent
  <2>2. CASE "overdue" \notin faults
    <3>1. ASSUME NEW d \in Client, step'[d] = "enter"
          PROVE  /\ admitted'[req'[d].ticket] = 0 /\ redis'[req'[d].ticket] = None
                 /\ \A e \in Client : step'[e] = "enter" /\ req'[e].ticket = req'[d].ticket => e = d
      <4>1. d # c /\ step[d] = "enter" /\ req'[d] = req[d]
        BY <1>3, <1>4, <3>1
      <4>2. /\ admitted[req[d].ticket] = 0 /\ redis[req[d].ticket] = None
            /\ \A e \in Client : step[e] = "enter" /\ req[e].ticket = req[d].ticket => e = d
        BY <2>2, <4>1 DEF Tickets, Spent
      <4>. QED
        BY <1>2, <1>3, <1>4, <4>1, <4>2
    <3>. QED
      BY <1>2, <2>2, <3>1 DEF Tickets, Spent
  <2>. QED
    BY <2>1, <2>2
<1>7. Aged'
  <2>1. ASSUME NEW d \in Client, req'[d].aged PROVE step'[d] = "consume" /\ req'[d].ticket \in old'
    <3>1. CASE d = c
      BY <1>2, <1>3, <2>1, <3>1
    <3>2. CASE d # c
      BY <1>2, <1>4, <2>1, <3>2 DEF Tickets, Aged
    <3>. QED
      BY <3>1, <3>2
  <2>. QED
    BY <2>1 DEF Aged
<1>. QED
  BY <1>5, <1>6, <1>7 DEF Tickets

\* The ticket leaves Redis for the hands of one request.
LEMMA ConsumeTickets ==
    ASSUME Types, Types', Tickets, NEW c \in Client, Consume(c)
    PROVE  Tickets'
<1>. DEFINE k == req[c].ticket
<1>1. /\ step[c] = "consume" /\ redis' = [redis EXCEPT ![k] = None]
      /\ UNCHANGED <<used, given, old, admitted, faults>>
  BY ConsumeEffect DEF history
<1>2. k \in Ticket /\ k \in given /\ redis \in [Key -> Room \cup Token \cup {None}] /\ Ticket \subseteq Key
  BY <1>1 DEF Tickets, Issued, Types, TypeOK, Local, Key
<1>3. CASE Becomes(c, "idle", NoRequest)
  <2>1. QuietTickets
    BY <1>1, <1>2, <1>3, QuietBecomes, NoRequestType DEF QuietTickets
  <2>. QED
    BY <2>1, TicketsStayQuiet
<1>4. ASSUME redis[k] # None, k \notin old, NEW q \in Request, Becomes(c, "enter", q),
             q.ticket = k, q.aged = req[c].aged
      PROVE  Tickets'
  <2>0. ~ req[c].aged
    BY <1>4 DEF Tickets, Aged
  <2>1. step'[c] = "enter" /\ req'[c].ticket = k /\ ~ req'[c].aged
    BY <1>4, <2>0 DEF Becomes, Like
  <2>2. \A d \in Client : d # c => step'[d] = step[d] /\ req'[d] = req[d]
    BY <1>4 DEF Becomes
  <2>3. \A j \in Ticket : redis'[j] = IF j = k THEN None ELSE redis[j]
    BY <1>1, <1>2
  <2>. HIDE DEF k
  <2>5. Issued'
    <3>1. ASSUME NEW d \in Client, step'[d] = "writeTicket"
          PROVE  /\ req'[d].ticket \in used' \ given'
                 /\ \A e \in Client : req'[e].ticket = req'[d].ticket => e = d
      <4>1. d # c /\ step[d] = "writeTicket" /\ req'[d].ticket = req[d].ticket
        BY <2>1, <2>2, <3>1
      <4>2. /\ req[d].ticket \in used \ given
            /\ \A e \in Client : req[e].ticket = req[d].ticket => e = d
        BY <4>1 DEF Tickets, Issued
      <4>. QED
        BY <1>1, <1>2, <2>1, <2>2, <4>1, <4>2
    <3>2. ASSUME NEW d \in Client, step'[d] \in {"consume", "enter"} PROVE req'[d].ticket \in given'
      BY <1>1, <1>2, <2>1, <2>2, <3>2 DEF Tickets, Issued
    <3>. QED
      BY <1>1, <3>1, <3>2 DEF Tickets, Issued
  <2>6. Spent'
    <3>1. CASE "overdue" \in faults
      BY <1>1, <3>1 DEF Spent
    <3>2. CASE "overdue" \notin faults
      <4>1. \A j \in Ticket : /\ admitted[j] <= 1 /\ (j \notin given => admitted[j] = 0)
                              /\ j \notin used => redis[j] = None
                              /\ redis[j] # None => admitted[j] = 0
        BY <3>2 DEF Tickets, Spent
      <4>2. ASSUME NEW d \in Client, step'[d] = "enter"
            PROVE  /\ admitted'[req'[d].ticket] = 0 /\ redis'[req'[d].ticket] = None
                   /\ \A e \in Client : step'[e] = "enter" /\ req'[e].ticket = req'[d].ticket => e = d
        <5>1. ASSUME NEW e \in Client, step[e] = "enter"
              PROVE  /\ req[e].ticket \in Ticket /\ req[e].ticket # k
                     /\ admitted[req[e].ticket] = 0 /\ redis[req[e].ticket] = None
                     /\ \A f \in Client : step[f] = "enter" /\ req[f].ticket = req[e].ticket => f = e
          <6>1. req[e].ticket \in Ticket
            BY <5>1 DEF Types, Local
          <6>. QED
            BY <1>4, <3>2, <5>1, <6>1 DEF Tickets, Spent
        <5>2. CASE d = c
          BY <1>1, <1>2, <1>4, <2>1, <2>2, <2>3, <4>1, <5>1, <5>2
        <5>3. CASE d # c
          BY <1>1, <2>1, <2>2, <2>3, <4>2, <5>1, <5>3
        <5>. QED
          BY <5>2, <5>3
      <4>. QED
        BY <1>1, <2>3, <4>1, <4>2 DEF Spent
    <3>. QED
      BY <3>1, <3>2
  <2>7. Aged'
    BY <1>1, <2>1, <2>2 DEF Tickets, Aged
  <2>. QED
    BY <2>5, <2>6, <2>7 DEF Tickets
<1>. QED
  BY <1>3, <1>4, ConsumeEffect

\* The holder is admitted, once.
LEMMA EnterTickets ==
    ASSUME Types, Types', Tickets, NEW c \in Client, Enter(c)
    PROVE  Tickets'
<1>. DEFINE k == req[c].ticket
<1>1. /\ step[c] = "enter" /\ admitted' \in {admitted, [admitted EXCEPT ![k] = @ + 1]}
      /\ Becomes(c, "idle", NoRequest) /\ UNCHANGED <<redis, used, given, old, faults>>
  BY EnterEffect
<1>2. k \in Ticket /\ k \in given /\ admitted \in [Ticket -> Nat]
  BY <1>1 DEF Tickets, Issued, Types, TypeOK, Local
<1>3. CASE admitted' = admitted
  <2>1. QuietTickets
    BY <1>1, <1>3, QuietBecomes, NoRequestType DEF QuietTickets
  <2>. QED
    BY <2>1, TicketsStayQuiet
<1>4. CASE admitted' = [admitted EXCEPT ![k] = @ + 1]
  <2>1. step'[c] = "idle" /\ req'[c].ticket = None /\ ~ req'[c].aged
    BY <1>1, NoRequestType DEF Becomes, Like
  <2>2. \A d \in Client : d # c => step'[d] = step[d] /\ req'[d] = req[d]
    BY <1>1 DEF Becomes
  <2>3. \A j \in Ticket : admitted'[j] = IF j = k THEN admitted[k] + 1 ELSE admitted[j]
    BY <1>2, <1>4
  <2>. HIDE DEF k
  <2>4. None \notin Ticket /\ used \subseteq Room \cup Token \cup Ticket
    BY KeyKinds DEF Types, TypeOK
  <2>5. Issued'
    <3>1. ASSUME NEW d \in Client, step'[d] = "writeTicket"
          PROVE  /\ req'[d].ticket \in used' \ given'
                 /\ \A e \in Client : req'[e].ticket = req'[d].ticket => e = d
      <4>1. d # c /\ step[d] = "writeTicket" /\ req'[d].ticket = req[d].ticket
        BY <2>1, <2>2, <3>1
      <4>2. /\ req[d].ticket \in used \ given /\ req[d].ticket \in Ticket
            /\ \A e \in Client : req[e].ticket = req[d].ticket => e = d
        BY <4>1 DEF Tickets, Issued, Types, Local
      <4>. QED
        BY <1>1, <2>1, <2>2, <2>4, <4>1, <4>2
    <3>2. ASSUME NEW d \in Client, step'[d] \in {"consume", "enter"} PROVE req'[d].ticket \in given'
      BY <1>1, <2>1, <2>2, <3>2 DEF Tickets, Issued
    <3>. QED
      BY <1>1, <3>1, <3>2 DEF Tickets, Issued
  <2>6. Spent'
    <3>1. CASE "overdue" \in faults
      BY <1>1, <3>1 DEF Spent
    <3>2. CASE "overdue" \notin faults
      <4>1. \A j \in Ticket : /\ admitted[j] <= 1 /\ (j \notin given => admitted[j] = 0)
                              /\ j \notin used => redis[j] = None
                              /\ redis[j] # None => admitted[j] = 0
        BY <3>2 DEF Tickets, Spent
      <4>2. admitted[k] = 0 /\ redis[k] = None
        BY <1>1, <3>2 DEF Tickets, Spent, k
      <4>3. ASSUME NEW j \in Ticket
            PROVE  /\ admitted'[j] <= 1 /\ (j \notin given' => admitted'[j] = 0)
                   /\ j \notin used' => redis'[j] = None
                   /\ redis'[j] # None => admitted'[j] = 0
        BY <1>1, <1>2, <2>3, <4>1, <4>2
      <4>4. ASSUME NEW d \in Client, step'[d] = "enter"
            PROVE  /\ admitted'[req'[d].ticket] = 0 /\ redis'[req'[d].ticket] = None
                   /\ \A e \in Client : step'[e] = "enter" /\ req'[e].ticket = req'[d].ticket => e = d
        <5>1. d # c /\ step[d] = "enter" /\ req'[d] = req[d]
          BY <2>1, <2>2, <4>4
        <5>2. /\ admitted[req[d].ticket] = 0 /\ redis[req[d].ticket] = None
              /\ \A e \in Client : step[e] = "enter" /\ req[e].ticket = req[d].ticket => e = d
          BY <3>2, <5>1 DEF Tickets, Spent
        <5>3. req[d].ticket # k /\ req[d].ticket \in Ticket
          BY <1>1, <5>1, <5>2 DEF Types, Local, k
        <5>. QED
          BY <1>1, <2>1, <2>2, <2>3, <5>1, <5>2, <5>3
      <4>. QED
        BY <4>3, <4>4 DEF Spent
    <3>. QED
      BY <3>1, <3>2
  <2>7. Aged'
    BY <1>1, <2>1, <2>2 DEF Tickets, Aged
  <2>. QED
    BY <2>5, <2>6, <2>7 DEF Tickets
<1>. QED
  BY <1>1, <1>3, <1>4

LEMMA TicketsStep == ASSUME Types, Tickets, [Next]_vars PROVE Tickets'
<1>0. Types'
  BY TypesStep
<1>1. ASSUME NEW c \in Client, Handler(c) PROVE Tickets'
  BY <1>0, <1>1, WritersAreQuiet, TicketsStayQuiet, LookupTickets, WriteTicketTickets, JoinTickets,
     ConsumeTickets, EnterTickets DEF Handler
<1>2. CASE \/ \E c \in Client : TimesOut(c)
           \/ ExecuteLate \/ TicketAges \/ KeyExpires \/ RestartGame \/ RestartJoin
           \/ UNCHANGED vars
  <2>1. QuietTickets
    BY <1>2, OthersAreQuiet
  <2>. QED
    BY <1>0, <2>1, TicketsStayQuiet
<1>. QED
  BY <1>1, <1>2 DEF Next

LEMMA TicketsInit == Init => Tickets
BY NoRequestType DEF Init, Tickets, Issued, Spent, Aged, Key

\* consume_join_ticket hands a ticket's payload to one join_room only,
\* whatever is repeated, as long as no command is executed late.
THEOREM TicketAdmitsOneOnly == Spec => []TicketAdmitsOnce
<1>1. Types /\ Tickets /\ [Next]_vars => (Types /\ Tickets)'
  BY TypesStep, TicketsStep
<1>2. Tickets => TicketAdmitsOnce
  BY DEF Tickets, Spent, TicketAdmitsOnce
<1>. QED
  BY <1>1, <1>2, TypesInit, TicketsInit, PTL DEF Spec

\* join_room looks at issued_at after the ticket was consumed, so who comes
\* after TICKET_TTL is turned away though a late command stored it again.
THEOREM OldTicketsStayOut == Spec => []OldTicketStaysOut
<1>1. Types /\ Tickets /\ [Next]_vars => (Types /\ Tickets)'
  BY TypesStep, TicketsStep
<1>2. Tickets => OldTicketStaysOut
  BY DEF Tickets, Aged, OldTicketStaysOut
<1>. QED
  BY <1>1, <1>2, TypesInit, TicketsInit, PTL DEF Spec

---------------------------------------------------------------------------
(* Pins, and what a command does to the keys of invites.                   *)

\* The pins, invites and rooms that a command of client c writes
LEMMA ExecuteOnInvites ==
    ASSUME Types, NEW c \in Client, step[c] \in Calling, Execute(Command(c))
    PROVE  /\ \A p \in Pin : \/ redis'[p] = redis[p]
                             \/ /\ redis[p] = None /\ redis'[p] = req[c].room
                                /\ step[c] = "reservePin" /\ req[c].from = p
           /\ \A t \in Token : \/ redis'[t] = redis[t]
                               \/ step[c] = "writeInvite" /\ req[c].token = t /\ redis'[t] = req[c].room
                               \/ step[c] = "deleteOld" /\ req[c].previous = t /\ redis'[t] = None
           /\ \A r \in Room : \/ redis'[r] = redis[r]
                              \/ step[c] = "writeToken" /\ req[c].room = r /\ redis'[r] = req[c].token
<1>0. redis \in [Key -> Room \cup Token \cup {None}] /\ Pin \cup Token \cup Room \subseteq Key
  BY DEF Types, TypeOK, Key
<1>1. Local(step[c], req[c]) /\ req[c].previous \in Token \cup {None}
  BY RequestType
<1>. DEFINE Written(k, v) == k \in Key /\ redis' = [redis EXCEPT ![k] = v]
<1>2. ASSUME NEW k, NEW v, Written(k, v), NEW j \in Key
      PROVE  redis'[j] = IF j = k THEN v ELSE redis[j]
  BY <1>0, <1>2
<1>3. ASSUME NEW k \in Key
      PROVE  /\ k \in Pin => k \notin Token \cup Room
             /\ k \in Token => k \notin Pin \cup Room
             /\ k \in Room => k \notin Pin \cup Token
             /\ k \in Ticket => k \notin Pin \cup Token \cup Room
  BY KeyKinds
<1>4. CASE step[c] = "reservePin"
  <2>1. req[c].from \in Pin
    BY <1>1, <1>4 DEF Local
  <2>2. redis' = redis \/ (redis[req[c].from] = None /\ Written(req[c].from, req[c].room))
    BY <1>0, <1>4, <2>1, ExecuteEffect
  <2>. QED
    BY <1>0, <1>2, <1>3, <1>4, <2>1, <2>2
<1>5. CASE step[c] \in {"readToken", "lookup"}
  BY <1>5, ExecuteEffect
<1>6. CASE step[c] = "writeInvite"
  <2>1. req[c].token \in Token
    BY <1>1, <1>6 DEF Local
  <2>2. Written(req[c].token, req[c].room)
    BY <1>0, <1>6, <2>1, ExecuteEffect
  <2>. QED
    BY <1>0, <1>2, <1>3, <1>6, <2>1, <2>2
<1>7. CASE step[c] = "writeToken"
  <2>1. req[c].room \in Room
    BY <1>1, <1>7 DEF Local
  <2>2. Written(req[c].room, req[c].token)
    BY <1>0, <1>7, <2>1, ExecuteEffect
  <2>. QED
    BY <1>0, <1>2, <1>3, <1>7, <2>1, <2>2
<1>8. CASE step[c] = "deleteOld"
  <2>1. req[c].previous \in Token
    BY <1>1, <1>8 DEF Local
  <2>2. Written(req[c].previous, None)
    BY <1>0, <1>8, <2>1, ExecuteEffect
  <2>. QED
    BY <1>0, <1>2, <1>3, <1>8, <2>1, <2>2
<1>9. CASE step[c] \in {"writeTicket", "consume"}
  <2>1. req[c].ticket \in Ticket /\ Ticket \subseteq Key
    BY <1>1, <1>9 DEF Local, Key
  <2>2. Written(req[c].ticket, req[c].room) \/ Written(req[c].ticket, None)
    BY <1>0, <1>9, <2>1, ExecuteEffect
  <2>. QED
    BY <1>0, <1>2, <1>3, <2>1, <2>2
<1>. QED
  BY <1>4, <1>5, <1>6, <1>7, <1>8, <1>9 DEF Calling

\* Steps either leave Redis alone, execute a command of a request, a late
\* one, or expire a key.
LEMMA RedisSteps ==
    ASSUME [Next]_vars
    PROVE  \/ redis' = redis
           \/ \E c \in Client : step[c] \in Calling /\ Execute(Command(c))
           \/ ExecuteLate \/ TicketAges \/ KeyExpires
<1>1. ASSUME NEW c \in Client, Handler(c)
      PROVE  redis' = redis \/ (step[c] \in Calling /\ Execute(Command(c)))
  BY <1>1, Steps DEF Handler, CreateRoom, ReservePin, WriteFirst, WriteSecond, Insert, RegenerateInvite,
       ReadToken, DeleteOld, IssueTicket, Lookup, WriteTicket, JoinRoom, Consume, Enter, Begin, Answered
<1>2. ASSUME NEW c \in Client, TimesOut(c)
      PROVE  redis' = redis \/ (step[c] \in Calling /\ Execute(Command(c)))
  BY <1>2 DEF TimesOut
<1>. QED
  BY <1>1, <1>2 DEF Next, vars, RestartGame, RestartJoin, Abandon

\* A pin that is taken stays with its room: SET NX, even a late one, does
\* not write a key that exists, and nothing deletes a pin.
LEMMA PinsAreKept ==
    ASSUME Types, ~ KeysExpire, [Next]_vars, NEW p \in Pin, redis[p] # None
    PROVE  redis'[p] = redis[p]
<1>0. redis \in [Key -> Room \cup Token \cup {None}] /\ p \in Key
  BY DEF Types, TypeOK, Key
<1>1. ASSUME NEW c \in Client, step[c] \in Calling, Execute(Command(c)) PROVE redis'[p] = redis[p]
  BY <1>1, ExecuteOnInvites
<1>2. CASE ExecuteLate
  <2>1. PICK cmd \in late : Execute(cmd)
    BY <1>2 DEF ExecuteLate
  <2>2. WriteCommand(cmd)
    BY DEF Types
  <2>3. CASE cmd.op = "SETNX"
    <3>1. redis' = redis \/ cmd.key # p
      BY <2>1, <2>3 DEF Execute, Writes
    <3>. QED
      BY <1>0, <2>1, <3>1 DEF Execute
  <2>4. CASE cmd.op # "SETNX"
    <3>1. cmd.key # p
      BY <1>0, <2>2, <2>4, KeyKinds DEF WriteCommand
    <3>. QED
      BY <1>0, <2>1, <3>1 DEF Execute
  <2>. QED
    BY <2>3, <2>4
<1>3. CASE TicketAges
  BY <1>0, <1>3, KeyKinds DEF TicketAges
<1>. QED
  BY <1>1, <1>2, <1>3, RedisSteps DEF KeyExpires

\* A room in the map has its pin, and so has a request that reserved it.
PinReserved ==
    /\ \A r \in rooms : roomPins[r] \in Pin /\ redis[roomPins[r]] = r
    /\ \A c \in Client : req[c].op = "create" /\ step[c] # "reservePin" => redis[req[c].from] = req[c].room

\* A request for a new room has reserved its pin, and keeps both.
Reserves(c) == req[c].op = "create" /\ step[c] # "reservePin"
LEMMA ReservedBefore ==
    ASSUME Types, [Next]_vars, NEW c \in Client, Reserves(c)'
    PROVE  \/ Reserves(c) /\ req'[c].room = req[c].room /\ req'[c].from = req[c].from
           \/ ReservePin(c) /\ redis'[req'[c].from] = req'[c].room
<1>0. NoRequest.op # "create" /\ Local(step[c], req[c])
  BY NoRequestType, RequestType
<1>1. CASE step'[c] = step[c] /\ Like(req'[c], req[c])
  BY <1>1 DEF Like, Reserves
<1>2. CASE req'[c] = NoRequest
  BY <1>0, <1>2 DEF Reserves
<1>3. CASE req'[c] = req[c] /\ step'[c] = step[c]
  BY <1>3 DEF Reserves
<1>4. ASSUME NEW d \in Client, Handler(d)
      PROVE  \/ Reserves(c) /\ req'[c].room = req[c].room /\ req'[c].from = req[c].from
             \/ ReservePin(c) /\ redis'[req'[c].from] = req'[c].room
  <2>1. CASE d # c
    <3>1. \E s, q : Becomes(d, s, q)
      BY <1>4, HandlerLocal
    <3>. QED
      BY <1>3, <2>1, <3>1 DEF Becomes
  <2>2. CASE d = c
    <3>1. CASE CreateRoom(c)
      BY <3>1, CreateEffect DEF Becomes, Reserves
    <3>2. CASE RegenerateInvite(c) \/ IssueTicket(c) \/ JoinRoom(c)
      <4>1. \E s, q : Becomes(c, s, q) /\ q.op # "create"
        BY <3>2, RegenerateEffect, IssueEffect, JoinEffect
      <4>. QED
        BY <4>1 DEF Becomes, Like, Reserves
    <3>3. CASE ReservePin(c)
      <4>1. CASE redis' = [redis EXCEPT ![req[c].from] = req[c].room] /\ Becomes(c, "writeInvite", req[c])
        <5>1. req[c].from \in Pin /\ req'[c].from = req[c].from /\ req'[c].room = req[c].room
          BY <1>0, <3>3, <4>1, ReservePinEffect DEF Becomes, Like, Local
        <5>2. redis \in [Key -> Room \cup Token \cup {None}] /\ req[c].from \in Key
          BY <5>1 DEF Types, TypeOK, Key
        <5>. QED
          BY <3>3, <4>1, <5>1, <5>2
      <4>2. CASE step'[c] = "reservePin"
        BY <4>2 DEF Reserves
      <4>. QED
        BY <3>3, <4>1, <4>2, ReservePinEffect DEF Becomes
    <3>4. CASE ReadToken(c) \/ Lookup(c) \/ Consume(c)
      <4>1. req'[c].op # "create"
        BY <1>0, <3>4, ReadTokenEffect, LookupEffect, ConsumeEffect DEF Becomes, Like, Local
      <4>. QED
        BY <4>1 DEF Reserves
    <3>5. CASE WriteFirst(c)
      BY <3>5, WriteFirstEffect DEF Becomes, Like, Reserves
    <3>6. CASE WriteSecond(c)
      <4>1. CASE Becomes(c, "insert", req[c]) \/ Becomes(c, "deleteOld", req[c])
        BY <3>6, <4>1, WriteSecondEffect DEF Becomes, Like, Reserves
      <4>. QED
        BY <1>2, <3>6, <4>1, WriteSecondEffect
    <3>7. CASE DeleteOld(c) \/ Insert(c) \/ WriteTicket(c) \/ Enter(c)
      BY <1>2, <3>7, DeleteOldEffect, InsertEffect, WriteTicketEffect, EnterEffect
    <3>. QED
      BY <1>4, <2>2, <3>1, <3>2, <3>3, <3>4, <3>5, <3>6, <3>7 DEF Handler
  <2>. QED
    BY <2>1, <2>2
<1>5. ASSUME NEW d \in Client, TimesOut(d)
      PROVE  \/ Reserves(c) /\ req'[c].room = req[c].room /\ req'[c].from = req[c].from
             \/ ReservePin(c) /\ redis'[req'[c].from] = req'[c].room
  <2>1. CASE d # c
    BY <1>3, <1>5, <2>1, TimesOutEffect DEF Becomes
  <2>2. CASE d = c
    <3>1. CASE Becomes(c, step[c], req[c])
      BY <1>1, <3>1 DEF Becomes
    <3>. QED
      BY <1>2, <1>5, <2>2, <3>1, TimesOutEffect
  <2>. QED
    BY <2>1, <2>2
<1>6. ASSUME NEW ops, Abandon(ops)
      PROVE  \/ Reserves(c) /\ req'[c].room = req[c].room /\ req'[c].from = req[c].from
             \/ ReservePin(c) /\ redis'[req'[c].from] = req'[c].room
  BY <1>2, <1>3, <1>6, AbandonEffect
<1>7. CASE UNCHANGED <<step, req>>
  BY <1>3, <1>7
<1>. QED
  BY <1>4, <1>5, <1>6, <1>7 DEF Next, vars, ExecuteLate, TicketAges, KeyExpires, RestartGame, RestartJoin

LEMMA PinsStep == ASSUME Types, PinReserved, ~ KeysExpire, [Next]_vars PROVE PinReserved'
<1>0. None \notin Room /\ rooms \subseteq Room /\ roomPins \in [Room -> Pin \cup {None}]
  BY KeyKinds DEF Types, TypeOK
<1>1. ASSUME NEW c \in Client, Reserves(c) PROVE redis'[req[c].from] = req[c].room
  <2>1. req[c].from \in Pin /\ req[c].room \in Room
    BY <1>1, RequestType DEF Reserves, Local
  <2>2. redis[req[c].from] = req[c].room
    BY <1>1 DEF PinReserved, Reserves
  <2>. QED
    BY <1>0, <2>1, <2>2, PinsAreKept
<1>2. ASSUME NEW c \in Client, Reserves(c)' PROVE redis'[req'[c].from] = req'[c].room
  BY <1>1, <1>2, ReservedBefore
<1>3. ASSUME NEW r \in rooms PROVE roomPins[r] \in Pin /\ redis'[roomPins[r]] = r
  BY <1>0, PinsAreKept DEF PinReserved
<1>4. UNCHANGED game \/ rooms' = {} \/ \E c \in Client : Insert(c)
  BY DEF Next, vars, ExecuteLate, TicketAges, KeyExpires, RestartGame, RestartJoin, TimesOut, Again,
         Handler, CreateRoom, ReservePin, WriteFirst, WriteSecond, RegenerateInvite, ReadToken,
         DeleteOld, IssueTicket, Lookup, WriteTicket, JoinRoom, Consume, Enter, Begin
<1>5. ASSUME NEW r \in rooms' PROVE roomPins'[r] \in Pin /\ redis'[roomPins'[r]] = r
  <2>1. CASE UNCHANGED game
    BY <1>3, <2>1 DEF game
  <2>2. ASSUME NEW c \in Client, Insert(c) PROVE roomPins'[r] \in Pin /\ redis'[roomPins'[r]] = r
    <3>1. /\ step[c] = "insert" /\ rooms' = rooms \cup {req[c].room}
          /\ roomPins' = [roomPins EXCEPT ![req[c].room] = req[c].from]
      BY <2>2, InsertEffect
    <3>2. req[c].op = "create" /\ req[c].from \in Pin /\ req[c].room \in Room /\ Reserves(c)
      BY <3>1, RequestType DEF Local, Reserves
    <3>3. redis'[req[c].from] = req[c].room
      BY <1>1, <3>2
    <3>. QED
      BY <1>0, <1>3, <3>1, <3>2, <3>3
  <2>. QED
    BY <1>4, <2>1, <2>2
<1>. QED
  BY <1>2, <1>5 DEF PinReserved, Reserves

\* As long as the pins do not expire, whatever fails, is repeated, comes
\* late or is restarted.
THEOREM PinsOpenTheirRooms == ASSUME ~ KeysExpire PROVE Spec => []PinOpensItsRoom
<1>1. Init => PinReserved
  BY NoRequestType DEF Init, PinReserved
<1>2. Types /\ PinReserved /\ [Next]_vars => (Types /\ PinReserved)'
  BY TypesStep, PinsStep
<1>3. PinReserved => PinOpensItsRoom
  BY DEF PinReserved, PinOpensItsRoom
<1>. QED
  BY <1>1, <1>2, <1>3, TypesInit, PTL DEF Spec

---------------------------------------------------------------------------
(* Tokens.                                                                 *)

\* Nothing names the token: it cannot be read from a room and deleted.
Unnamed(t) ==
    /\ \A r \in Room : redis[r] # t
    /\ \A c \in Client : req[c].previous # t
    /\ t \notin revoked

\* A token is drawn by one request and unknown before.
TokensFresh ==
    /\ \A c \in Client : req[c].token # None => req[c].token \in used
    /\ \A c \in Client : req[c].token # None => \A d \in Client : req[d].token = req[c].token => d = c
    /\ "overdue" \in faults \/ \A t \in Token \ used : Unnamed(t) /\ redis[t] = None

\* It opens the room before the room names it.
NotNamedYet ==
    "overdue" \in faults \/ \A c \in Client : step[c] \in {"reservePin", "writeInvite"} => Unnamed(req[c].token)

Revoked == "overdue" \in faults \/ \A t \in revoked : redis[t] = None

Tokens == TokensFresh /\ NotNamedYet /\ Revoked

\* No token is drawn and none read from a room.
QuietTokens ==
    /\ \A d \in Client : /\ req'[d].token \in {req[d].token, None}
                         /\ req'[d].previous \in {req[d].previous, None}
                         /\ req'[d].token # None \/ req'[d].previous # None => req'[d].room = req[d].room
                         /\ step'[d] \in {"reservePin", "writeInvite"} =>
                               /\ step[d] \in {"reservePin", "writeInvite"}
                               /\ req'[d].token = req[d].token
    /\ used \subseteq used' /\ faults \subseteq faults'
    /\ \/ "overdue" \in faults'
       \/ /\ \A t \in Token : \/ redis'[t] \in {redis[t], None}
                              \/ \E d \in Client : step[d] = "writeInvite" /\ req[d].token = t /\ redis'[t] = req[d].room
          /\ \A r \in Room : \/ redis'[r] \in {redis[r], None}
                             \/ \E d \in Client : step[d] = "writeToken" /\ req[d].room = r /\ redis'[r] = req[d].token
          /\ \A t \in revoked' : \/ t \in revoked
                                 \/ redis'[t] = None /\ \E d \in Client : req[d].previous = t

LEMMA TokensStayQuiet ==
    ASSUME Types, Types', Tokens, QuietTokens
    PROVE  Tokens'
<1>0. \A d \in Client : /\ step[d] \in {"writeInvite", "writeToken", "reservePin"} => req[d].token \in Token
                        /\ req[d].token \in Token \cup {None} /\ req'[d].token \in Token \cup {None}
  BY RequestType DEF Types, TypeOK, Local, Request
<1>1. None \notin Token /\ revoked \subseteq Token
  BY KeyKinds DEF Types, TypeOK
<1>2. /\ \A c \in Client : req'[c].token # None => req'[c].token \in used'
      /\ \A c \in Client : req'[c].token # None => \A d \in Client : req'[d].token = req'[c].token => d = c
  BY DEF Tokens, TokensFresh, QuietTokens
<1>3. CASE "overdue" \in faults'
  BY <1>2, <1>3 DEF Tokens, TokensFresh, NotNamedYet, Revoked
<1>4. CASE "overdue" \notin faults'
  <2>0. "overdue" \notin faults
    BY <1>4 DEF QuietTokens
  <2>1. \A t \in Token : \/ redis'[t] \in {redis[t], None}
                         \/ \E d \in Client : step[d] = "writeInvite" /\ req[d].token = t /\ redis'[t] = req[d].room
    BY <1>4 DEF QuietTokens
  <2>2. \A r \in Room : \/ redis'[r] \in {redis[r], None}
                        \/ \E d \in Client : step[d] = "writeToken" /\ req[d].room = r /\ redis'[r] = req[d].token
    BY <1>4 DEF QuietTokens
  <2>3. \A t \in revoked' : \/ t \in revoked
                            \/ redis'[t] = None /\ \E d \in Client : req[d].previous = t
    BY <1>4 DEF QuietTokens
  <2>4. \A d \in Client : step[d] \in {"writeInvite", "writeToken"} => req[d].token \in used
    BY <1>0, <1>1 DEF Tokens, TokensFresh
  \* A token stays unnamed unless it is written to its room.
  <2>5. ASSUME NEW t \in Token, Unnamed(t), ~ \E d \in Client : step[d] = "writeToken" /\ req[d].token = t
        PROVE  Unnamed(t)'
    <3>1. \A r \in Room : redis'[r] # t
      BY <1>1, <2>2, <2>5 DEF Unnamed
    <3>2. \A c \in Client : req'[c].previous # t
      BY <1>1, <2>5 DEF Unnamed, QuietTokens
    <3>3. t \notin revoked'
      BY <2>3, <2>5 DEF Unnamed
    <3>. QED
      BY <3>1, <3>2, <3>3 DEF Unnamed
  <2>6. ASSUME NEW t \in Token \ used' PROVE Unnamed(t)' /\ redis'[t] = None
    <3>1. t \in Token \ used
      BY <2>6 DEF QuietTokens
    <3>2. Unnamed(t) /\ redis[t] = None
      BY <2>0, <3>1 DEF Tokens, TokensFresh
    <3>. QED
      BY <2>1, <2>4, <2>5, <3>1, <3>2
  <2>7. ASSUME NEW c \in Client, step'[c] \in {"reservePin", "writeInvite"} PROVE Unnamed(req[c].token)'
    <3>1. step[c] \in {"reservePin", "writeInvite"} /\ req'[c].token = req[c].token
      BY <2>7 DEF QuietTokens
    <3>2. Unnamed(req[c].token) /\ req[c].token \in Token
      BY <1>0, <2>0, <3>1 DEF Tokens, NotNamedYet
    <3>3. ~ \E d \in Client : step[d] = "writeToken" /\ req[d].token = req[c].token
      BY <1>1, <3>1, <3>2 DEF Tokens, TokensFresh
    <3>. QED
      BY <2>5, <3>1, <3>2, <3>3
  <2>8. ASSUME NEW t \in revoked' PROVE redis'[t] = None
    <3>1. CASE t \in revoked
      <4>1. redis[t] = None /\ t \in Token
        BY <1>1, <2>0, <3>1 DEF Tokens, Revoked
      <4>2. ~ \E d \in Client : step[d] = "writeInvite" /\ req[d].token = t
        BY <2>0, <3>1 DEF Tokens, NotNamedYet, Unnamed
      <4>. QED
        BY <2>1, <4>1, <4>2
    <3>. QED
      BY <2>3, <3>1
  <2>. QED
    BY <1>2, <2>6, <2>7, <2>8 DEF Tokens, TokensFresh, NotNamedYet, Revoked
<1>. QED
  BY <1>3, <1>4

\* What a request that goes on keeps of its tokens
KeepsTokens(c, s, q) ==
    /\ q.token \in {req[c].token, None} /\ q.previous \in {req[c].previous, None}
    /\ q.token # None \/ q.previous # None => q.room = req[c].room
    /\ s \in {"reservePin", "writeInvite"} =>
          step[c] \in {"reservePin", "writeInvite"} /\ q.token = req[c].token

LEMMA QuietTokensBecome ==
    ASSUME NEW c \in Client, NEW s, NEW q, Becomes(c, s, q), KeepsTokens(c, s, q)
    PROVE  \A d \in Client : /\ req'[d].token \in {req[d].token, None}
                             /\ req'[d].previous \in {req[d].previous, None}
                             /\ req'[d].token # None \/ req'[d].previous # None => req'[d].room = req[d].room
                             /\ step'[d] \in {"reservePin", "writeInvite"} =>
                                   /\ step[d] \in {"reservePin", "writeInvite"}
                                   /\ req'[d].token = req[d].token
<1>1. \A d \in Client : d # c => step'[d] = step[d] /\ req'[d] = req[d]
  BY DEF Becomes
<1>2. /\ step'[c] = s /\ req'[c].token = q.token /\ req'[c].previous = q.previous
      /\ req'[c].room = q.room
  BY DEF Becomes, Like
<1>. QED
  BY <1>1, <1>2 DEF KeepsTokens

LEMMA HandlersKeepTokens ==
    ASSUME Types, NEW c \in Client, Handler(c), ~ CreateRoom(c), ~ ReadToken(c)
    PROVE  QuietTokens
<1>1. \E s \in Step, q \in Request : Becomes(c, s, q) /\ KeepsTokens(c, s, q)
  <2>. DEFINE Goal == \E s \in Step, q \in Request : Becomes(c, s, q) /\ KeepsTokens(c, s, q)
  <2>1. ASSUME NEW s \in Step, NEW q \in Request, Becomes(c, s, q), q.token \in {req[c].token, None},
               q.previous \in {req[c].previous, None}, s \notin {"reservePin", "writeInvite"},
               q.token # None \/ q.previous # None => q.room = req[c].room
        PROVE  Goal
    BY <2>1 DEF KeepsTokens
  <2>2. Becomes(c, "idle", NoRequest) => Goal
    BY <2>1, NoRequestType, Steps
  <2>. SUFFICES Goal
    OBVIOUS
  <2>3. CASE RegenerateInvite(c) \/ IssueTicket(c) \/ JoinRoom(c)
    <3>1. CASE RegenerateInvite(c)
      BY <2>1, <3>1, RegenerateEffect, Steps
    <3>2. CASE IssueTicket(c)
      BY <2>1, <3>2, IssueEffect, Steps
    <3>3. CASE JoinRoom(c)
      BY <2>1, <3>3, JoinEffect, Steps
    <3>. QED
      BY <2>3, <3>1, <3>2, <3>3
  <2>4. CASE ReservePin(c)
    <3>1. step[c] = "reservePin"
      BY <2>4, ReservePinEffect
    <3>2. CASE Becomes(c, "writeInvite", req[c])
      BY <3>1, <3>2, RequestType, Steps DEF KeepsTokens
    <3>3. ASSUME NEW q \in Request, Becomes(c, "reservePin", q), q.token = req[c].token,
                 q.previous = req[c].previous, q.room = req[c].room
          PROVE  Goal
      BY <3>1, <3>3, Steps DEF KeepsTokens
    <3>. HIDE DEF Goal
    <3>. QED
      BY <2>4, <3>2, <3>3, ReservePinEffect
  <2>. HIDE DEF Goal
  <2>5. CASE WriteFirst(c)
    BY <2>1, <2>5, WriteFirstEffect, RequestType, Steps
  <2>6. CASE WriteSecond(c)
    <3>1. Becomes(c, "insert", req[c]) \/ Becomes(c, "deleteOld", req[c]) \/ Becomes(c, "idle", NoRequest)
      BY <2>6, WriteSecondEffect
    <3>. QED
      BY <2>1, <2>2, <3>1, RequestType, Steps
  <2>7. CASE DeleteOld(c) \/ Insert(c) \/ WriteTicket(c) \/ Enter(c)
    BY <2>2, <2>7, DeleteOldEffect, InsertEffect, WriteTicketEffect, EnterEffect
  <2>8. CASE Lookup(c)
    <3>1. req[c].token = None /\ req[c].previous = None
      BY <2>8, LookupEffect, RequestType DEF Local
    <3>. QED
      BY <2>1, <2>2, <2>8, <3>1, LookupEffect, Steps
  <2>9. CASE Consume(c)
    <3>1. req[c].token = None /\ req[c].previous = None
      BY <2>9, ConsumeEffect, RequestType DEF Local
    <3>. QED
      BY <2>1, <2>2, <2>9, <3>1, ConsumeEffect, Steps
  <2>. QED
    BY <2>3, <2>4, <2>5, <2>6, <2>7, <2>8, <2>9 DEF Handler
<1>2. \A d \in Client : /\ req'[d].token \in {req[d].token, None}
                        /\ req'[d].previous \in {req[d].previous, None}
                        /\ req'[d].token # None \/ req'[d].previous # None => req'[d].room = req[d].room
                        /\ step'[d] \in {"reservePin", "writeInvite"} =>
                              /\ step[d] \in {"reservePin", "writeInvite"}
                              /\ req'[d].token = req[d].token
  <2>1. PICK s \in Step, q \in Request : Becomes(c, s, q) /\ KeepsTokens(c, s, q)
    BY <1>1, Zenon
  <2>. QED
    BY <2>1, QuietTokensBecome
<1>3. /\ used \subseteq used' /\ faults' = faults
      /\ revoked' = revoked \/ DeleteOld(c)
  BY DEF Handler, CreateRoom, ReservePin, WriteFirst, WriteSecond, Insert, RegenerateInvite, ReadToken,
         DeleteOld, IssueTicket, Lookup, WriteTicket, JoinRoom, Consume, Enter, Begin, Answered, history
<1>4. redis' = redis \/ (step[c] \in Calling /\ Execute(Command(c)))
  BY Steps DEF Handler, CreateRoom, ReservePin, WriteFirst, WriteSecond, Insert, RegenerateInvite,
       ReadToken, DeleteOld, IssueTicket, Lookup, WriteTicket, JoinRoom, Consume, Enter, Begin, Answered
<1>5. /\ \A t \in Token : \/ redis'[t] \in {redis[t], None}
                          \/ \E d \in Client : step[d] = "writeInvite" /\ req[d].token = t /\ redis'[t] = req[d].room
      /\ \A r \in Room : \/ redis'[r] \in {redis[r], None}
                         \/ \E d \in Client : step[d] = "writeToken" /\ req[d].room = r /\ redis'[r] = req[d].token
  BY <1>4, ExecuteOnInvites
<1>6. \A t \in revoked' : \/ t \in revoked
                          \/ redis'[t] = None /\ \E d \in Client : req[d].previous = t
  <2>1. CASE DeleteOld(c)
    <3>1. /\ redis' = [redis EXCEPT ![req[c].previous] = None] /\ step[c] = "deleteOld"
          /\ revoked' = revoked \cup {req[c].previous}
      BY <2>1, DeleteOldEffect
    <3>2. req[c].previous \in Key /\ redis \in [Key -> Room \cup Token \cup {None}]
      BY <3>1, RequestType DEF Types, TypeOK, Local, Key
    <3>. QED
      BY <3>1, <3>2
  <2>. QED
    BY <1>3, <2>1
<1>. QED
  BY <1>2, <1>3, <1>5, <1>6 DEF QuietTokens

LEMMA OthersKeepTokens ==
    ASSUME Types,
           \/ \E c \in Client : TimesOut(c)
           \/ ExecuteLate \/ TicketAges \/ KeyExpires \/ RestartGame \/ RestartJoin
           \/ UNCHANGED vars
    PROVE  QuietTokens
<1>0. redis \in [Key -> Room \cup Token \cup {None}] /\ Token \cup Room \cup Ticket \subseteq Key
  BY DEF Types, TypeOK, Key
<1>1. ASSUME NEW c \in Client, TimesOut(c) PROVE QuietTokens
  <2>1. /\ step[c] \in Calling
        /\ redis' = redis \/ Execute(Command(c))
        /\ UNCHANGED <<used, revoked>> /\ faults \subseteq faults'
    BY <1>1, TimesOutEffect
  <2>2. /\ \A t \in Token : \/ redis'[t] \in {redis[t], None}
                            \/ \E d \in Client : step[d] = "writeInvite" /\ req[d].token = t /\ redis'[t] = req[d].room
        /\ \A r \in Room : \/ redis'[r] \in {redis[r], None}
                           \/ \E d \in Client : step[d] = "writeToken" /\ req[d].room = r /\ redis'[r] = req[d].token
    BY <2>1, ExecuteOnInvites
  <2>3. \A d \in Client : /\ req'[d].token \in {req[d].token, None}
                          /\ req'[d].previous \in {req[d].previous, None}
                          /\ req'[d].token # None \/ req'[d].previous # None => req'[d].room = req[d].room
                          /\ step'[d] \in {"reservePin", "writeInvite"} =>
                                /\ step[d] \in {"reservePin", "writeInvite"}
                                /\ req'[d].token = req[d].token
    <3>1. CASE Becomes(c, step[c], req[c])
      <4>1. KeepsTokens(c, step[c], req[c])
        BY DEF KeepsTokens
      <4>. QED
        BY <3>1, <4>1, QuietTokensBecome
    <3>2. CASE Becomes(c, "idle", NoRequest)
      <4>1. KeepsTokens(c, "idle", NoRequest)
        BY NoRequestType DEF KeepsTokens
      <4>. QED
        BY <3>2, <4>1, QuietTokensBecome
    <3>. QED
      BY <1>1, <3>1, <3>2, TimesOutEffect
  <2>. QED
    BY <2>1, <2>2, <2>3 DEF QuietTokens
<1>2. CASE ExecuteLate
  BY <1>2 DEF ExecuteLate, QuietTokens, history
<1>3. CASE TicketAges
  BY <1>0, <1>3 DEF TicketAges, QuietTokens, history
<1>4. CASE KeyExpires
  BY <1>0, <1>4 DEF KeyExpires, QuietTokens, history
<1>5. ASSUME NEW ops, Abandon(ops) PROVE QuietTokens
  <2>1. UNCHANGED <<redis, used, revoked, faults>>
    BY <1>5, AbandonEffect
  <2>2. \A d \in Client : /\ req'[d].token \in {req[d].token, None}
                          /\ req'[d].previous \in {req[d].previous, None}
                          /\ req'[d].token # None \/ req'[d].previous # None => req'[d].room = req[d].room
                          /\ step'[d] \in {"reservePin", "writeInvite"} =>
                                /\ step[d] \in {"reservePin", "writeInvite"}
                                /\ req'[d].token = req[d].token
    BY <1>5, AbandonEffect, NoRequestType
  <2>. QED
    BY <2>1, <2>2 DEF QuietTokens
<1>6. CASE UNCHANGED vars
  BY <1>6 DEF vars, QuietTokens, history
<1>. QED
  BY <1>1, <1>2, <1>3, <1>4, <1>5, <1>6 DEF RestartGame, RestartJoin

\* A token is drawn: no request has it and nothing names it.
LEMMA DrawToken ==
    ASSUME Types, Tokens, NEW c \in Client, NEW s, NEW q, Becomes(c, s, q),
           q.token \in Token \ used, q.previous = None \/ \E r \in Room : q.previous = redis[r],
           used \cup {q.token} \subseteq used', UNCHANGED <<redis, revoked, faults>>
    PROVE  Tokens'
<1>1. \A d \in Client : d # c => step'[d] = step[d] /\ req'[d] = req[d]
  BY DEF Becomes
<1>2. req'[c].token = q.token /\ req'[c].previous = q.previous
  BY DEF Becomes, Like
<1>3. None \notin Token
  BY KeyKinds
<1>4. /\ \A d \in Client : req'[d].token # None => req'[d].token \in used'
      /\ \A d \in Client : req'[d].token # None => \A e \in Client : req'[e].token = req'[d].token => e = d
  <2>1. \A d \in Client : req[d].token # None =>
           req[d].token \in used /\ \A e \in Client : req[e].token = req[d].token => e = d
    BY DEF Tokens, TokensFresh
  <2>. QED
    BY <1>1, <1>2, <1>3, <2>1
<1>5. CASE "overdue" \in faults
  BY <1>4, <1>5 DEF Tokens, TokensFresh, NotNamedYet, Revoked
<1>6. CASE "overdue" \notin faults
  <2>1. ASSUME NEW t \in Token, Unnamed(t) PROVE Unnamed(t)'
    BY <1>1, <1>2, <1>3, <2>1 DEF Unnamed
  <2>2. \A t \in Token \ used' : Unnamed(t)' /\ redis'[t] = None
    BY <1>6, <2>1 DEF Tokens, TokensFresh
  <2>3. ASSUME NEW d \in Client, step'[d] \in {"reservePin", "writeInvite"} PROVE Unnamed(req[d].token)'
    <3>1. CASE d = c
      <4>1. Unnamed(q.token)
        BY <1>6 DEF Tokens, TokensFresh
      <4>2. Unnamed(q.token)'
        <5>1. \A r \in Room : redis'[r] # q.token
          BY <4>1 DEF Unnamed
        <5>2. \A e \in Client : req'[e].previous # q.token
          BY <1>1, <1>2, <1>3, <4>1 DEF Unnamed
        <5>. QED
          BY <4>1, <5>1, <5>2 DEF Unnamed
      <4>. QED
        BY <1>2, <3>1, <4>2 DEF Unnamed
    <3>2. CASE d # c
      <4>1. req'[d] = req[d] /\ step[d] \in {"reservePin", "writeInvite"}
        BY <1>1, <2>3, <3>2
      <4>2. Unnamed(req[d].token) /\ req[d].token \in Token
        BY <1>6, <4>1 DEF Tokens, NotNamedYet, Types, Local
      <4>3. req[d].token \in used
        BY <1>3, <4>2 DEF Tokens, TokensFresh
      <4>. QED
        BY <2>1, <4>1, <4>2 DEF Unnamed
    <3>. QED
      BY <3>1, <3>2
  <2>. QED
    BY <1>4, <1>6, <2>2, <2>3 DEF Tokens, TokensFresh, NotNamedYet, Revoked
<1>. QED
  BY <1>5, <1>6

LEMMA TokensStep == ASSUME Types, Tokens, [Next]_vars PROVE Tokens'
<1>0. Types'
  BY TypesStep
<1>1. ASSUME NEW c \in Client, CreateRoom(c) PROVE Tokens'
  <2>1. PICK q \in Request : /\ Becomes(c, "reservePin", q)
                             /\ q.token \in Token \ used /\ q.previous = None
                             /\ used' = used \cup {q.room, q.token}
    BY <1>1, CreateEffect
  <2>2. UNCHANGED <<redis, revoked, faults>>
    BY <1>1, CreateEffect DEF history
  <2>. QED
    BY <2>1, <2>2, DrawToken
<1>2. ASSUME NEW c \in Client, ReadToken(c) PROVE Tokens'
  <2>1. PICK q \in Request : /\ Becomes(c, "writeInvite", q)
                             /\ q.token \in Token \ used /\ q.previous = redis[req[c].room]
                             /\ used' = used \cup {q.token}
    BY <1>2, ReadTokenEffect
  <2>2. UNCHANGED <<redis, revoked, faults>>
    BY <1>2, ReadTokenEffect DEF history
  <2>3. req[c].room \in Room
    BY <1>2, ReadTokenEffect, RequestType DEF Local
  <2>. QED
    BY <2>1, <2>2, <2>3, DrawToken
<1>3. ASSUME NEW c \in Client, Handler(c), ~ CreateRoom(c), ~ ReadToken(c) PROVE Tokens'
  BY <1>0, <1>3, HandlersKeepTokens, TokensStayQuiet
<1>4. CASE \/ \E c \in Client : TimesOut(c)
           \/ ExecuteLate \/ TicketAges \/ KeyExpires \/ RestartGame \/ RestartJoin
           \/ UNCHANGED vars
  <2>1. QuietTokens
    BY <1>4, OthersKeepTokens
  <2>. QED
    BY <1>0, <2>1, TokensStayQuiet
<1>. QED
  BY <1>1, <1>2, <1>3, <1>4 DEF Next

LEMMA TokensInit == Init => Tokens
<1>. SUFFICES ASSUME Init PROVE Tokens
  OBVIOUS
<1>1. None \notin Token /\ Room \cup Token \subseteq Key
  BY KeyKinds
<1>2. \A t \in Token : Unnamed(t) /\ redis[t] = None
  BY <1>1, NoRequestType DEF Init, Unnamed
<1>. QED
  BY <1>2, NoRequestType DEF Init, Tokens, TokensFresh, NotNamedYet, Revoked

\* regenerate_invite writes a token only before anybody can have read it
\* from the room, so no repeated attempt brings back what DEL confirmed.
THEOREM RevokedInvitesStayRevoked == Spec => []RevokedStaysRevoked
<1>1. Types /\ Tokens /\ [Next]_vars => (Types /\ Tokens)'
  BY TypesStep, TokensStep
<1>2. Tokens => RevokedStaysRevoked
  BY DEF Tokens, Revoked, RevokedStaysRevoked
<1>. QED
  BY <1>1, <1>2, TypesInit, TokensInit, PTL DEF Spec

---------------------------------------------------------------------------
(* The invite a room names, while no call timed out.                       *)

\* What a room names opens it; a token about to be named does so already
\* and is named nowhere; what is about to be deleted is not what the room
\* names, nor any other room.
NamesOpen == "lost" \in faults \/
    /\ late = {} /\ "overdue" \notin faults
    /\ \A r \in Room : redis[r] # None => redis[redis[r]] = r
    /\ \A r \in rooms : redis[r] # None
    /\ \A c \in Client :
       /\ step[c] = "writeToken" => Unnamed(req[c].token) /\ redis[req[c].token] = req[c].room
       /\ step[c] = "insert" => redis[req[c].room] # None
       /\ step[c] = "deleteOld" => redis[req[c].room] # req[c].previous
       /\ req[c].previous # None => \A r \in Room : redis[r] = req[c].previous => r = req[c].room

\* The invites stay as they are, rooms are inserted or forgotten.
QuietNames ==
    /\ \A k \in Token \cup Room : redis'[k] = redis[k]
    /\ \A d \in Client :
          /\ step'[d] \in {"writeToken", "insert", "deleteOld"} =>
                /\ step'[d] = step[d] /\ req'[d].token = req[d].token
                /\ req'[d].room = req[d].room /\ req'[d].previous = req[d].previous
          /\ req'[d].previous # None =>
                req'[d].previous = req[d].previous /\ req'[d].room = req[d].room
    /\ \A r \in rooms' : r \in rooms \/ \E d \in Client : step[d] = "insert" /\ req[d].room = r
    /\ revoked' = revoked /\ late' = late /\ faults' = faults

LEMMA NamesStayQuiet ==
    ASSUME Types, NamesOpen, QuietNames
    PROVE  NamesOpen'
<1>0. /\ Kinds /\ rooms \subseteq Room
      /\ \A d \in Client : /\ req[d].room \in Room \cup {None}
                           /\ step[d] = "writeToken" => req[d].token \in Token
                           /\ step[d] \in {"insert", "deleteOld"} => req[d].room \in Room
  BY RequestType DEF Types, TypeOK, Local
<1>1. CASE "lost" \in faults
  BY <1>1 DEF NamesOpen, QuietNames
<1>2. CASE "lost" \notin faults
  <2>1. late' = {} /\ "overdue" \notin faults'
    BY <1>2 DEF NamesOpen, QuietNames
  <2>2. ASSUME NEW r \in Room, redis'[r] # None PROVE redis'[redis'[r]] = r
    <3>1. redis'[r] = redis[r] /\ redis[r] \in Token
      BY <1>0, <2>2 DEF QuietNames, Kinds
    <3>2. redis'[redis[r]] = redis[redis[r]]
      BY <3>1 DEF QuietNames
    <3>. QED
      BY <1>2, <2>2, <3>1, <3>2 DEF NamesOpen
  <2>3. ASSUME NEW r \in rooms' PROVE redis'[r] # None
    <3>1. redis[r] # None /\ r \in Room
      BY <1>0, <1>2 DEF NamesOpen, QuietNames
    <3>. QED
      BY <3>1 DEF QuietNames
  <2>4. ASSUME NEW c \in Client
        PROVE  /\ step'[c] = "writeToken" => Unnamed(req[c].token)' /\ redis'[req'[c].token] = req'[c].room
               /\ step'[c] = "insert" => redis'[req'[c].room] # None
               /\ step'[c] = "deleteOld" => redis'[req'[c].room] # req'[c].previous
               /\ req'[c].previous # None =>
                     \A r \in Room : redis'[r] = req'[c].previous => r = req'[c].room
    <3>0. /\ step'[c] \in {"writeToken", "insert", "deleteOld"} =>
                /\ step'[c] = step[c] /\ req'[c].token = req[c].token
                /\ req'[c].room = req[c].room /\ req'[c].previous = req[c].previous
          /\ req'[c].previous # None =>
                req'[c].previous = req[c].previous /\ req'[c].room = req[c].room
          /\ \A r \in Room : redis'[r] = redis[r]
      BY DEF QuietNames
    <3>1. /\ step[c] = "writeToken" => Unnamed(req[c].token) /\ redis[req[c].token] = req[c].room
          /\ step[c] = "insert" => redis[req[c].room] # None
          /\ step[c] = "deleteOld" => redis[req[c].room] # req[c].previous
          /\ req[c].previous # None => \A r \in Room : redis[r] = req[c].previous => r = req[c].room
      BY <1>2 DEF NamesOpen
    <3>2. ASSUME step'[c] = "writeToken"
          PROVE  Unnamed(req[c].token)' /\ redis'[req'[c].token] = req'[c].room
      <4>1. step[c] = "writeToken" /\ req'[c].token = req[c].token /\ req'[c].room = req[c].room
        BY <3>0, <3>2
      <4>2. Unnamed(req[c].token) /\ redis[req[c].token] = req[c].room /\ req[c].token \in Token
        BY <1>0, <3>1, <4>1
      <4>3. redis'[req[c].token] = redis[req[c].token]
        BY <4>2 DEF QuietNames
      <4>4. None # req[c].token
        BY <4>2, KeyKinds
      <4>5. \A e \in Client : req'[e].previous # req[c].token
        BY <4>2, <4>4 DEF Unnamed, QuietNames
      <4>6. \A r \in Room : redis'[r] # req[c].token
        BY <3>0, <4>2 DEF Unnamed
      <4>7. req[c].token \notin revoked'
        BY <4>2 DEF Unnamed, QuietNames
      <4>. QED
        BY <4>1, <4>2, <4>3, <4>5, <4>6, <4>7 DEF Unnamed
    <3>. QED
      BY <1>0, <3>0, <3>1, <3>2
  <2>. QED
    BY <2>1, <2>2, <2>3, <2>4 DEF NamesOpen
<1>. QED
  BY <1>1, <1>2

\* What a request that goes on keeps of its invites
LEMMA QuietNamesBecome ==
    ASSUME NEW c \in Client, NEW s, NEW q, Becomes(c, s, q),
           s \notin {"writeToken", "insert", "deleteOld"},
           q.previous # None => q.previous = req[c].previous /\ q.room = req[c].room
    PROVE  \A d \in Client :
              /\ step'[d] \in {"writeToken", "insert", "deleteOld"} =>
                    /\ step'[d] = step[d] /\ req'[d].token = req[d].token
                    /\ req'[d].room = req[d].room /\ req'[d].previous = req[d].previous
              /\ req'[d].previous # None =>
                    req'[d].previous = req[d].previous /\ req'[d].room = req[d].room
<1>1. \A d \in Client : d # c => step'[d] = step[d] /\ req'[d] = req[d]
  BY DEF Becomes
<1>2. step'[c] = s /\ req'[c].room = q.room /\ req'[c].previous = q.previous
  BY DEF Becomes, Like
<1>. QED
  BY <1>1, <1>2

\* The handlers that write no invite
LEMMA HandlersKeepNames ==
    ASSUME Types, NEW c \in Client,
           \/ CreateRoom(c) \/ RegenerateInvite(c) \/ IssueTicket(c) \/ JoinRoom(c) \/ ReservePin(c)
           \/ Insert(c) \/ Lookup(c) \/ WriteTicket(c) \/ Consume(c) \/ Enter(c)
    PROVE  QuietNames
<1>0. Local(step[c], req[c])
  BY RequestType
<1>1. \E s \in Step, q \in Request :
         /\ Becomes(c, s, q) /\ s \notin {"writeToken", "insert", "deleteOld"}
         /\ q.previous # None => q.previous = req[c].previous /\ q.room = req[c].room
  <2>. DEFINE Goal == \E s \in Step, q \in Request :
         /\ Becomes(c, s, q) /\ s \notin {"writeToken", "insert", "deleteOld"}
         /\ q.previous # None => q.previous = req[c].previous /\ q.room = req[c].room
  <2>1. ASSUME NEW s \in Step, NEW q \in Request, Becomes(c, s, q), q.previous = None,
               s \notin {"writeToken", "insert", "deleteOld"}
        PROVE  Goal
    BY <2>1
  <2>2. Becomes(c, "idle", NoRequest) => Goal
    BY <2>1, NoRequestType, Steps
  <2>. SUFFICES Goal
    OBVIOUS
  <2>. HIDE DEF Goal
  <2>3. CASE CreateRoom(c)
    BY <2>1, <2>3, CreateEffect, Steps
  <2>4. CASE RegenerateInvite(c)
    BY <2>1, <2>4, RegenerateEffect, Steps
  <2>5. CASE IssueTicket(c)
    BY <2>1, <2>5, IssueEffect, Steps
  <2>6. CASE JoinRoom(c)
    BY <2>1, <2>6, JoinEffect, Steps
  <2>7. CASE ReservePin(c)
    <3>1. req[c].previous = None /\ req[c] \in Request
      BY <1>0, <2>7, ReservePinEffect, RequestType DEF Local
    <3>. QED
      BY <2>1, <2>7, <3>1, ReservePinEffect, Steps
  <2>8. CASE Insert(c) \/ WriteTicket(c) \/ Enter(c)
    BY <2>2, <2>8, InsertEffect, WriteTicketEffect, EnterEffect
  <2>9. CASE Lookup(c)
    <3>1. req[c].previous = None
      BY <1>0, <2>9, LookupEffect DEF Local
    <3>. QED
      BY <2>1, <2>2, <2>9, <3>1, LookupEffect, Steps
  <2>10. CASE Consume(c)
    <3>1. req[c].previous = None
      BY <1>0, <2>10, ConsumeEffect DEF Local
    <3>. QED
      BY <2>1, <2>2, <2>10, <3>1, ConsumeEffect, Steps
  <2>. QED
    BY <2>3, <2>4, <2>5, <2>6, <2>7, <2>8, <2>9, <2>10
<1>2. \A d \in Client :
              /\ step'[d] \in {"writeToken", "insert", "deleteOld"} =>
                    /\ step'[d] = step[d] /\ req'[d].token = req[d].token
                    /\ req'[d].room = req[d].room /\ req'[d].previous = req[d].previous
              /\ req'[d].previous # None =>
                    req'[d].previous = req[d].previous /\ req'[d].room = req[d].room
  <2>1. PICK s \in Step, q \in Request :
         /\ Becomes(c, s, q) /\ s \notin {"writeToken", "insert", "deleteOld"}
         /\ q.previous # None => q.previous = req[c].previous /\ q.room = req[c].room
    BY <1>1
  <2>. QED
    BY <2>1, QuietNamesBecome
<1>3. redis' = redis \/ (step[c] \in {"reservePin", "writeTicket", "consume", "lookup"} /\ Execute(Command(c)))
  BY DEF CreateRoom, ReservePin, Insert, RegenerateInvite, IssueTicket, Lookup, WriteTicket, JoinRoom,
         Consume, Enter, Begin, Answered
<1>4. \A k \in Token \cup Room : redis'[k] = redis[k]
  BY <1>3, ExecuteOnInvites, Steps
<1>5. UNCHANGED <<revoked, late, faults>> /\ (rooms' = rooms \/ Insert(c))
  BY DEF CreateRoom, ReservePin, Insert, RegenerateInvite, IssueTicket, Lookup, WriteTicket, JoinRoom,
         Consume, Enter, Begin, Answered, game, history
<1>6. \A r \in rooms' : r \in rooms \/ \E d \in Client : step[d] = "insert" /\ req[d].room = r
  BY <1>5, InsertEffect
<1>. QED
  BY <1>2, <1>4, <1>5, <1>6 DEF QuietNames

LEMMA OthersKeepNames ==
    ASSUME Types, TicketAges \/ RestartGame \/ RestartJoin \/ UNCHANGED vars
    PROVE  QuietNames
<1>0. redis \in [Key -> Room \cup Token \cup {None}] /\ Token \cup Room \cup Ticket \subseteq Key
  BY DEF Types, TypeOK, Key
<1>1. CASE TicketAges
  <2>1. \A k \in Token \cup Room : redis'[k] = redis[k]
    BY <1>0, <1>1, KeyKinds DEF TicketAges
  <2>. QED
    BY <1>1, <2>1 DEF TicketAges, QuietNames, history, game
<1>2. ASSUME NEW ops, Abandon(ops), rooms' \subseteq rooms PROVE QuietNames
  <2>1. UNCHANGED <<redis, revoked, late, faults>>
    BY <1>2, AbandonEffect
  <2>2. \A d \in Client :
              /\ step'[d] \in {"writeToken", "insert", "deleteOld"} =>
                    /\ step'[d] = step[d] /\ req'[d].token = req[d].token
                    /\ req'[d].room = req[d].room /\ req'[d].previous = req[d].previous
              /\ req'[d].previous # None =>
                    req'[d].previous = req[d].previous /\ req'[d].room = req[d].room
    BY <1>2, AbandonEffect, NoRequestType
  <2>. QED
    BY <1>2, <2>1, <2>2 DEF QuietNames
<1>3. CASE UNCHANGED vars
  BY <1>3 DEF vars, QuietNames, history, game
<1>. QED
  BY <1>1, <1>2, <1>3 DEF RestartGame, RestartJoin, game

\* The facts of NamesOpen about one client
NamesOf(c) ==
    /\ step[c] = "writeToken" => Unnamed(req[c].token) /\ redis[req[c].token] = req[c].room
    /\ step[c] = "insert" => redis[req[c].room] # None
    /\ step[c] = "deleteOld" => redis[req[c].room] # req[c].previous
    /\ req[c].previous # None => \A r \in Room : redis[r] = req[c].previous => r = req[c].room

LEMMA ReadTokenNames ==
    ASSUME Types, Tokens, NamesOpen, NEW c \in Client, ReadToken(c)
    PROVE  NamesOpen'
<1>1. PICK q \in Request : /\ Becomes(c, "writeInvite", q)
                           /\ q.token \in Token \ used /\ q.previous = redis[req[c].room]
                           /\ q.room = req[c].room
  BY ReadTokenEffect
<1>2. step[c] = "readToken" /\ UNCHANGED <<redis, late, rooms, revoked, faults>>
  BY ReadTokenEffect DEF game, history
<1>3. \A d \in Client : d # c => step'[d] = step[d] /\ req'[d] = req[d]
  BY <1>1 DEF Becomes
<1>4. /\ step'[c] = "writeInvite" /\ req'[c].room = req[c].room
      /\ req'[c].previous = redis[req[c].room] /\ req[c].room \in Room
  BY <1>1, <1>2, RequestType DEF Becomes, Like, Local
<1>5. CASE "lost" \in faults
  BY <1>2, <1>5 DEF NamesOpen
<1>6. CASE "lost" \notin faults
  <2>1. /\ late = {} /\ "overdue" \notin faults
        /\ \A r \in Room : redis[r] # None => redis[redis[r]] = r
        /\ \A r \in rooms : redis[r] # None
        /\ \A d \in Client : NamesOf(d)
    BY <1>6 DEF NamesOpen, NamesOf
  <2>2. ASSUME NEW d \in Client PROVE NamesOf(d)'
    <3>1. CASE d = c
      BY <1>2, <1>4, <2>1, <3>1 DEF NamesOf
    <3>2. CASE d # c
      <4>1. step'[d] = step[d] /\ req'[d] = req[d] /\ NamesOf(d)
        BY <1>3, <2>1, <3>2
      <4>2. Unnamed(req[d].token) => Unnamed(req[d].token)'
        BY <1>2, <1>3, <1>4, <4>1 DEF Unnamed
      <4>. QED
        BY <1>2, <4>1, <4>2 DEF NamesOf
    <3>. QED
      BY <3>1, <3>2
  <2>. QED
    BY <1>2, <2>1, <2>2 DEF NamesOpen, NamesOf
<1>. QED
  BY <1>5, <1>6

LEMMA WriteFirstNames ==
    ASSUME Types, Tokens, NamesOpen, NEW c \in Client, WriteFirst(c)
    PROVE  NamesOpen'
<1>. DEFINE t == req[c].token
<1>1. /\ step[c] = "writeInvite" /\ redis' = [redis EXCEPT ![t] = req[c].room]
      /\ Becomes(c, "writeToken", req[c]) /\ UNCHANGED <<late, rooms, revoked, faults>>
  BY WriteFirstEffect DEF game, history
<1>2. t \in Token /\ req[c].room \in Room /\ t # None
  BY <1>1, RequestType, KeyKinds DEF Local
<1>3. redis \in [Key -> Room \cup Token \cup {None}] /\ Token \cup Room \subseteq Key /\ rooms \subseteq Room
  BY DEF Types, TypeOK, Key
<1>4. /\ redis'[t] = req[c].room
      /\ \A k \in Token \cup Room : k # t => redis'[k] = redis[k]
      /\ \A r \in Room : redis'[r] = redis[r]
  BY <1>1, <1>2, <1>3, KeyKinds
<1>5. /\ step'[c] = "writeToken" /\ req'[c].token = t /\ req'[c].room = req[c].room
      /\ req'[c].previous = req[c].previous
      /\ \A d \in Client : d # c => step'[d] = step[d] /\ req'[d] = req[d]
  BY <1>1 DEF Becomes, Like
<1>6. CASE "lost" \in faults
  BY <1>1, <1>6 DEF NamesOpen
<1>7. CASE "lost" \notin faults
  <2>1. /\ late = {} /\ "overdue" \notin faults
        /\ \A r \in Room : redis[r] # None => redis[redis[r]] = r
        /\ \A r \in rooms : redis[r] # None
        /\ \A d \in Client : NamesOf(d)
    BY <1>7 DEF NamesOpen, NamesOf
  <2>2. Unnamed(t)
    BY <1>1, <2>1 DEF Tokens, NotNamedYet
  <2>3. ASSUME NEW u \in Token, Unnamed(u) PROVE Unnamed(u)'
    BY <1>1, <1>4, <1>5, <2>3 DEF Unnamed
  <2>4. \A r \in Room : redis'[r] # None => redis'[redis'[r]] = r
    <3>1. \A r \in Room : redis[r] \in Token \cup {None} /\ redis[r] # t
      BY <2>2 DEF Types, Kinds, Unnamed
    <3>. QED
      BY <1>4, <2>1, <3>1
  <2>5. \A r \in rooms : redis'[r] # None
    BY <1>3, <1>4, <2>1
  <2>. HIDE DEF t
  <2>6. ASSUME NEW d \in Client PROVE NamesOf(d)'
    <3>1. CASE d = c
      <4>1. Unnamed(req[d].token)'
        BY <1>2, <1>5, <2>2, <2>3, <3>1 DEF Unnamed
      <4>. QED
        BY <1>4, <1>5, <2>1, <3>1, <4>1 DEF NamesOf
    <3>2. CASE d # c
      <4>1. step'[d] = step[d] /\ req'[d] = req[d] /\ NamesOf(d)
        BY <1>5, <2>1, <3>2
      <4>2. ASSUME step[d] = "writeToken"
            PROVE  Unnamed(req[d].token)' /\ redis'[req[d].token] = req[d].room
        <5>1. req[d].token \in Token /\ req[d].token # t
          BY <1>2, <3>2, <4>2, RequestType DEF Local, Tokens, TokensFresh, t
        <5>2. Unnamed(req[d].token) /\ redis[req[d].token] = req[d].room
          BY <4>1, <4>2 DEF NamesOf
        <5>3. Unnamed(req[d].token)'
          BY <2>3, <4>1, <5>1, <5>2 DEF Unnamed
        <5>. QED
          BY <1>4, <5>1, <5>2, <5>3
      <4>3. step[d] \in {"insert", "deleteOld"} => req[d].room \in Room
        BY RequestType DEF Local
      <4>. QED
        BY <1>4, <4>1, <4>2, <4>3 DEF NamesOf
    <3>. QED
      BY <3>1, <3>2
  <2>. QED
    BY <1>1, <2>1, <2>4, <2>5, <2>6 DEF NamesOpen, NamesOf
<1>. QED
  BY <1>6, <1>7

LEMMA WriteSecondNames ==
    ASSUME Types, Tokens, NamesOpen, NEW c \in Client, WriteSecond(c)
    PROVE  NamesOpen'
<1>. DEFINE t == req[c].token
            o == req[c].room
<1>1. /\ step[c] = "writeToken" /\ redis' = [redis EXCEPT ![o] = t]
      /\ UNCHANGED <<late, rooms, revoked, faults>>
  BY WriteSecondEffect DEF game, history
<1>2. t \in Token /\ o \in Room /\ t # None
  BY <1>1, RequestType, KeyKinds DEF Local
<1>3. redis \in [Key -> Room \cup Token \cup {None}] /\ Token \cup Room \subseteq Key /\ rooms \subseteq Room
  BY DEF Types, TypeOK, Key
<1>4. /\ redis'[o] = t
      /\ \A r \in Room : r # o => redis'[r] = redis[r]
      /\ \A k \in Token : redis'[k] = redis[k]
  BY <1>1, <1>2, <1>3, KeyKinds
<1>5. /\ step'[c] \in {"insert", "deleteOld", "idle"}
      /\ step'[c] # "idle" => req'[c].room = o /\ req'[c].previous = req[c].previous
      /\ step'[c] = "idle" => req'[c].previous = None
      /\ \A d \in Client : d # c => step'[d] = step[d] /\ req'[d] = req[d]
  BY WriteSecondEffect, NoRequestType DEF Becomes, Like
<1>6. CASE "lost" \in faults
  BY <1>1, <1>6 DEF NamesOpen
<1>7. CASE "lost" \notin faults
  <2>1. /\ late = {} /\ "overdue" \notin faults
        /\ \A r \in Room : redis[r] # None => redis[redis[r]] = r
        /\ \A r \in rooms : redis[r] # None
        /\ \A d \in Client : NamesOf(d)
    BY <1>7 DEF NamesOpen, NamesOf
  <2>2. Unnamed(t) /\ redis[t] = o
    BY <1>1, <2>1 DEF NamesOf
  <2>. HIDE DEF t, o
  <2>3. \A r \in Room : redis'[r] # None => redis'[redis'[r]] = r
    <3>1. \A r \in Room : redis[r] \in Token \cup {None}
      BY DEF Types, Kinds
    <3>. QED
      BY <1>2, <1>4, <2>1, <2>2, <3>1
  <2>4. \A r \in rooms : redis'[r] # None
    BY <1>2, <1>3, <1>4, <2>1
  <2>5. ASSUME NEW d \in Client PROVE NamesOf(d)'
    <3>1. CASE d = c
      <4>1. req[c].previous # t /\ (req[c].previous # None =>
               \A r \in Room : redis[r] = req[c].previous => r = req[c].room)
        BY <2>1, <2>2 DEF Unnamed, NamesOf
      <4>. QED
        BY <1>2, <1>4, <1>5, <3>1, <4>1 DEF NamesOf, o
    <3>2. CASE d # c
      <4>1. step'[d] = step[d] /\ req'[d] = req[d] /\ NamesOf(d)
        BY <1>5, <2>1, <3>2
      <4>2. ASSUME step[d] = "writeToken"
            PROVE  Unnamed(req[d].token)' /\ redis'[req[d].token] = req[d].room
        <5>1. req[d].token \in Token /\ req[d].token # t /\ req[d].token # None
          BY <1>2, <3>2, <4>2, RequestType, KeyKinds DEF Local, Tokens, TokensFresh, t
        <5>2. Unnamed(req[d].token) /\ redis[req[d].token] = req[d].room
          BY <4>1, <4>2 DEF NamesOf
        <5>3. \A r \in Room : redis'[r] # req[d].token
          BY <1>4, <5>1, <5>2 DEF Unnamed
        <5>4. \A e \in Client : req'[e].previous # req[d].token
          <6>1. req'[c].previous \in {req[c].previous, None}
            BY <1>5
          <6>. QED
            BY <1>5, <5>1, <5>2, <6>1 DEF Unnamed
        <5>5. Unnamed(req[d].token)'
          BY <1>1, <4>1, <5>2, <5>3, <5>4 DEF Unnamed
        <5>. QED
          BY <1>4, <5>1, <5>2, <5>5
      <4>3. step[d] \in {"insert", "deleteOld"} => req[d].room \in Room
        BY RequestType DEF Local
      <4>4. req[d].previous # t
        BY <2>2 DEF Unnamed
      <4>5. step[d] = "insert" => redis'[req[d].room] # None
        BY <1>2, <1>4, <4>1, <4>3 DEF NamesOf
      <4>6. step[d] = "deleteOld" => redis'[req[d].room] # req[d].previous
        BY <1>4, <4>1, <4>3, <4>4 DEF NamesOf
      <4>7. req[d].previous # None => \A r \in Room : redis'[r] = req[d].previous => r = req[d].room
        BY <1>4, <4>1, <4>4 DEF NamesOf
      <4>. QED
        BY <4>1, <4>2, <4>5, <4>6, <4>7 DEF NamesOf
    <3>. QED
      BY <3>1, <3>2
  <2>. QED
    BY <1>1, <2>1, <2>3, <2>4, <2>5 DEF NamesOpen, NamesOf
<1>. QED
  BY <1>6, <1>7

LEMMA DeleteOldNames ==
    ASSUME Types, Tokens, NamesOpen, NEW c \in Client, DeleteOld(c)
    PROVE  NamesOpen'
<1>. DEFINE p == req[c].previous
<1>1. /\ step[c] = "deleteOld" /\ redis' = [redis EXCEPT ![p] = None]
      /\ revoked' = revoked \cup {p} /\ UNCHANGED <<late, rooms, faults>>
  BY DeleteOldEffect DEF game
<1>2. p \in Token /\ req[c].room \in Room
  BY <1>1, RequestType DEF Local
<1>3. redis \in [Key -> Room \cup Token \cup {None}] /\ Token \cup Room \subseteq Key /\ rooms \subseteq Room
  BY DEF Types, TypeOK, Key
<1>4. /\ \A r \in Room : redis'[r] = redis[r]
      /\ \A k \in Token : k # p => redis'[k] = redis[k]
  BY <1>1, <1>2, <1>3, KeyKinds
<1>5. /\ step'[c] = "idle" /\ req'[c].previous = None
      /\ \A d \in Client : d # c => step'[d] = step[d] /\ req'[d] = req[d]
  BY DeleteOldEffect, NoRequestType DEF Becomes
<1>6. CASE "lost" \in faults
  BY <1>1, <1>6 DEF NamesOpen
<1>7. CASE "lost" \notin faults
  <2>1. /\ late = {} /\ "overdue" \notin faults
        /\ \A r \in Room : redis[r] # None => redis[redis[r]] = r
        /\ \A r \in rooms : redis[r] # None
        /\ \A d \in Client : NamesOf(d)
    BY <1>7 DEF NamesOpen, NamesOf
  <2>2. \A r \in Room : redis[r] # p
    <3>1. /\ redis[req[c].room] # p /\ p # None
          /\ p # None => \A r \in Room : redis[r] = p => r = req[c].room
      BY <1>1, <1>2, <2>1, KeyKinds DEF NamesOf
    <3>. QED
      BY <1>2, <3>1
  <2>3. \A r \in Room : redis'[r] # None => redis'[redis'[r]] = r
    <3>1. \A r \in Room : redis[r] \in Token \cup {None}
      BY DEF Types, Kinds
    <3>. QED
      BY <1>4, <2>1, <2>2, <3>1
  <2>4. \A r \in rooms : redis'[r] # None
    BY <1>3, <1>4, <2>1
  <2>5. ASSUME NEW d \in Client PROVE NamesOf(d)'
    <3>1. CASE d = c
      BY <1>5, <3>1 DEF NamesOf
    <3>2. CASE d # c
      <4>1. step'[d] = step[d] /\ req'[d] = req[d] /\ NamesOf(d)
        BY <1>5, <2>1, <3>2
      <4>2. ASSUME step[d] = "writeToken"
            PROVE  Unnamed(req[d].token)' /\ redis'[req[d].token] = req[d].room
        <5>1. req[d].token \in Token /\ req[d].token # None
          BY <4>2, RequestType, KeyKinds DEF Local
        <5>2. Unnamed(req[d].token) /\ redis[req[d].token] = req[d].room
          BY <4>1, <4>2 DEF NamesOf
        <5>3. req[d].token # p
          BY <5>2 DEF Unnamed
        <5>4. Unnamed(req[d].token)'
          BY <1>1, <1>4, <1>5, <4>1, <5>1, <5>2, <5>3 DEF Unnamed
        <5>. QED
          BY <1>4, <5>1, <5>2, <5>3, <5>4
      <4>3. step[d] \in {"insert", "deleteOld"} => req[d].room \in Room
        BY RequestType DEF Local
      <4>. QED
        BY <1>4, <4>1, <4>2, <4>3 DEF NamesOf
    <3>. QED
      BY <3>1, <3>2
  <2>. QED
    BY <1>1, <2>1, <2>3, <2>4, <2>5 DEF NamesOpen, NamesOf
<1>. QED
  BY <1>6, <1>7

LEMMA NamesStep == ASSUME Types, Tokens, NamesOpen, ~ KeysExpire, [Next]_vars PROVE NamesOpen'
<1>1. ASSUME NEW c \in Client, Handler(c) PROVE NamesOpen'
  BY <1>1, HandlersKeepNames, NamesStayQuiet, ReadTokenNames, WriteFirstNames, WriteSecondNames,
     DeleteOldNames DEF Handler
<1>2. ASSUME NEW c \in Client, TimesOut(c) PROVE NamesOpen'
  BY <1>2 DEF TimesOut, NamesOpen
<1>3. CASE ExecuteLate
  BY <1>3 DEF ExecuteLate, NamesOpen
<1>4. CASE TicketAges \/ RestartGame \/ RestartJoin \/ UNCHANGED vars
  BY <1>4, OthersKeepNames, NamesStayQuiet
<1>. QED
  BY <1>1, <1>2, <1>3, <1>4 DEF Next, KeyExpires

LEMMA NamesInit == Init => NamesOpen
<1>1. Room \subseteq Key
  BY DEF Key
<1>. QED
  BY <1>1, NoRequestType DEF Init, NamesOpen

\* For any number of requests that regenerate the invite of a room, and
\* restarts between their writes: the token is written before its name and
\* deleted only after another is named.
THEOREM RoomTokensOpen == ASSUME ~ KeysExpire PROVE Spec => []RoomTokenOpens
<1>1. Types /\ Tokens /\ NamesOpen /\ [Next]_vars => (Types /\ Tokens /\ NamesOpen)'
  BY TypesStep, TokensStep, NamesStep
<1>2. Types /\ NamesOpen => RoomTokenOpens
  BY DEF Types, TypeOK, NamesOpen, RoomTokenOpens
<1>. QED
  BY <1>1, <1>2, TypesInit, TokensInit, NamesInit, PTL DEF Spec

---------------------------------------------------------------------------
(* One invite.                                                             *)

\* An invite opens the room it was drawn for or nothing.
Bound == "overdue" \in faults \/
    /\ \A c \in Client :
       /\ req[c].token # None =>
             redis[req[c].token] \in {None, req[c].room} /\ req[c].token # req[c].previous
       /\ req[c].previous # None => redis[req[c].previous] \in {None, req[c].room}
    /\ \A r \in Room : redis[r] # None => redis[redis[r]] \in {None, r}

LEMMA BoundStaysQuiet ==
    ASSUME Types, Types', Tokens, Bound, QuietTokens
    PROVE  Bound'
<1>0. \A d \in Client : /\ req[d].token \in Token \cup {None} /\ req'[d].token \in Token \cup {None}
                        /\ req[d].previous \in Token \cup {None} /\ req'[d].previous \in Token \cup {None}
                        /\ step[d] \in {"writeInvite", "writeToken"} =>
                              req[d].token \in Token /\ req[d].room \in Room
  BY RequestType DEF Types, TypeOK, Local, Request
<1>1. None \notin Token /\ Kinds
  BY KeyKinds DEF Types
<1>2. CASE "overdue" \in faults'
  BY <1>2 DEF Bound
<1>3. CASE "overdue" \notin faults'
  <2>0. "overdue" \notin faults
    BY <1>3 DEF QuietTokens
  <2>1. \A t \in Token : \/ redis'[t] \in {redis[t], None}
                         \/ \E d \in Client : step[d] = "writeInvite" /\ req[d].token = t /\ redis'[t] = req[d].room
    BY <1>3 DEF QuietTokens
  <2>2. \A r \in Room : \/ redis'[r] \in {redis[r], None}
                        \/ \E d \in Client : step[d] = "writeToken" /\ req[d].room = r /\ redis'[r] = req[d].token
    BY <1>3 DEF QuietTokens
  <2>3. \A d \in Client : /\ req'[d].token \in {req[d].token, None}
                          /\ req'[d].previous \in {req[d].previous, None}
                          /\ req'[d].token # None \/ req'[d].previous # None => req'[d].room = req[d].room
    BY DEF QuietTokens
  <2>4. \A c \in Client :
           /\ req[c].token # None =>
                 redis[req[c].token] \in {None, req[c].room} /\ req[c].token # req[c].previous
           /\ req[c].previous # None => redis[req[c].previous] \in {None, req[c].room}
    BY <2>0 DEF Bound
  <2>5. \A c, d \in Client : req[c].token # None /\ req[d].token = req[c].token => d = c
    BY DEF Tokens, TokensFresh
  <2>6. \A d \in Client : step[d] = "writeInvite" => Unnamed(req[d].token)
    BY <2>0 DEF Tokens, NotNamedYet
  <2>7. ASSUME NEW c \in Client, req'[c].token # None
        PROVE  redis'[req'[c].token] \in {None, req'[c].room} /\ req'[c].token # req'[c].previous
    <3>1. req'[c].token = req[c].token /\ req'[c].room = req[c].room /\ req[c].token \in Token
      BY <1>0, <2>3, <2>7
    <3>2. redis'[req[c].token] \in {None, req[c].room}
      BY <1>1, <2>1, <2>4, <2>5, <3>1
    <3>. QED
      BY <2>3, <2>4, <2>7, <3>1, <3>2
  <2>8. ASSUME NEW c \in Client, req'[c].previous # None
        PROVE  redis'[req'[c].previous] \in {None, req'[c].room}
    <3>1. req'[c].previous = req[c].previous /\ req'[c].room = req[c].room /\ req[c].previous \in Token
      BY <1>0, <2>3, <2>8
    <3>2. ~ \E d \in Client : step[d] = "writeInvite" /\ req[d].token = req[c].previous
      BY <2>6 DEF Unnamed
    <3>. QED
      BY <1>1, <2>1, <2>4, <3>1, <3>2
  <2>9. ASSUME NEW r \in Room, redis'[r] # None PROVE redis'[redis'[r]] \in {None, r}
    <3>1. CASE redis'[r] = redis[r]
      <4>1. redis[r] \in Token /\ redis[redis[r]] \in {None, r}
        BY <1>1, <2>0, <2>9, <3>1 DEF Kinds, Bound
      <4>2. ~ \E d \in Client : step[d] = "writeInvite" /\ req[d].token = redis[r]
        BY <2>6 DEF Unnamed
      <4>. QED
        BY <2>1, <3>1, <4>1, <4>2
    <3>2. ASSUME NEW d \in Client, step[d] = "writeToken", req[d].room = r, redis'[r] = req[d].token
          PROVE  redis'[redis'[r]] \in {None, r}
      <4>1. req[d].token \in Token /\ redis[req[d].token] \in {None, r}
        BY <1>0, <1>1, <2>4, <3>2
      <4>2. ~ \E e \in Client : step[e] = "writeInvite" /\ req[e].token = req[d].token
        BY <1>1, <2>5, <3>2, <4>1
      <4>. QED
        BY <2>1, <3>2, <4>1, <4>2
    <3>. QED
      BY <2>2, <2>9, <3>1, <3>2
  <2>. QED
    BY <2>7, <2>8, <2>9 DEF Bound
<1>. QED
  BY <1>2, <1>3

LEMMA DrawBound ==
    ASSUME Types, Tokens, Bound, NEW c \in Client, NEW s, NEW q, Becomes(c, s, q),
           q.token \in Token \ used, q.room \in Room, q.previous \in {None, redis[q.room]},
           UNCHANGED <<redis, faults>>
    PROVE  Bound'
<1>1. \A d \in Client : d # c => step'[d] = step[d] /\ req'[d] = req[d]
  BY DEF Becomes
<1>2. req'[c].token = q.token /\ req'[c].previous = q.previous /\ req'[c].room = q.room
  BY DEF Becomes, Like
<1>3. CASE "overdue" \in faults
  BY <1>3 DEF Bound
<1>4. CASE "overdue" \notin faults
  <2>1. redis[q.token] = None /\ \A r \in Room : redis[r] # q.token
    BY <1>4 DEF Tokens, TokensFresh, Unnamed
  <2>2. q.token # None
    BY KeyKinds
  <2>3. /\ \A d \in Client :
           /\ req[d].token # None =>
                 redis[req[d].token] \in {None, req[d].room} /\ req[d].token # req[d].previous
           /\ req[d].previous # None => redis[req[d].previous] \in {None, req[d].room}
        /\ \A r \in Room : redis[r] # None => redis[redis[r]] \in {None, r}
    BY <1>4 DEF Bound
  <2>4. ASSUME NEW d \in Client
        PROVE  /\ req'[d].token # None =>
                     redis'[req'[d].token] \in {None, req'[d].room} /\ req'[d].token # req'[d].previous
               /\ req'[d].previous # None => redis'[req'[d].previous] \in {None, req'[d].room}
    <3>1. CASE d = c
      BY <1>2, <2>1, <2>2, <2>3, <3>1
    <3>2. CASE d # c
      BY <1>1, <2>3, <3>2
    <3>. QED
      BY <3>1, <3>2
  <2>. QED
    BY <2>3, <2>4 DEF Bound
<1>. QED
  BY <1>3, <1>4

LEMMA BoundStep == ASSUME Types, Tokens, Bound, [Next]_vars PROVE Bound'
<1>0. Types'
  BY TypesStep
<1>1. ASSUME NEW c \in Client, CreateRoom(c) PROVE Bound'
  <2>1. PICK q \in Request : /\ Becomes(c, "reservePin", q) /\ q.room \in Room \ used
                             /\ q.token \in Token \ used /\ q.previous = None
    BY <1>1, CreateEffect
  <2>2. UNCHANGED <<redis, faults>>
    BY <1>1, CreateEffect
  <2>. QED
    BY <2>1, <2>2, DrawBound
<1>2. ASSUME NEW c \in Client, ReadToken(c) PROVE Bound'
  <2>1. PICK q \in Request : /\ Becomes(c, "writeInvite", q)
                             /\ q.token \in Token \ used /\ q.previous = redis[req[c].room]
                             /\ q.room = req[c].room
    BY <1>2, ReadTokenEffect
  <2>2. UNCHANGED <<redis, faults>>
    BY <1>2, ReadTokenEffect
  <2>3. req[c].room \in Room
    BY <1>2, ReadTokenEffect, RequestType DEF Local
  <2>. QED
    BY <2>1, <2>2, <2>3, DrawBound
<1>3. ASSUME NEW c \in Client, Handler(c), ~ CreateRoom(c), ~ ReadToken(c) PROVE Bound'
  BY <1>0, <1>3, HandlersKeepTokens, BoundStaysQuiet
<1>4. CASE \/ \E c \in Client : TimesOut(c)
           \/ ExecuteLate \/ TicketAges \/ KeyExpires \/ RestartGame \/ RestartJoin
           \/ UNCHANGED vars
  <2>1. QuietTokens
    BY <1>4, OthersKeepTokens
  <2>. QED
    BY <1>0, <2>1, BoundStaysQuiet
<1>. QED
  BY <1>1, <1>2, <1>3, <1>4 DEF Next

\* Rooms that exist, or that somebody writes the invites of, were drawn.
Created ==
    /\ rooms \subseteq used
    /\ \A c \in Client : req[c].op \in {"create", "regenerate"} => req[c].room \in used

LEMMA CreatedStep == ASSUME Types, Created, [Next]_vars PROVE Created'
<1>0. used \subseteq used'
  BY DEF Next, vars, ExecuteLate, TicketAges, KeyExpires, RestartGame, RestartJoin, Abandon, TimesOut, Again,
         Handler, CreateRoom, ReservePin, WriteFirst, WriteSecond, Insert, RegenerateInvite, ReadToken,
         DeleteOld, IssueTicket, Lookup, WriteTicket, JoinRoom, Consume, Enter, Begin
<1>1. UNCHANGED game \/ rooms' = {} \/ \E c \in Client : Insert(c)
  BY DEF Next, vars, ExecuteLate, TicketAges, KeyExpires, RestartGame, RestartJoin, TimesOut, Again,
         Handler, CreateRoom, ReservePin, WriteFirst, WriteSecond, RegenerateInvite, ReadToken,
         DeleteOld, IssueTicket, Lookup, WriteTicket, JoinRoom, Consume, Enter, Begin
<1>2. ASSUME NEW c \in Client, Insert(c) PROVE rooms' \subseteq used'
  <2>1. step[c] = "insert" /\ rooms' = rooms \cup {req[c].room} /\ req[c].op = "create"
    BY <1>2, InsertEffect, RequestType DEF Local
  <2>. QED
    BY <1>0, <2>1 DEF Created
<1>3. rooms' \subseteq used'
  BY <1>0, <1>1, <1>2 DEF Created, game
<1>. DEFINE Drawn(c) == req'[c].op \in {"create", "regenerate"} => req'[c].room \in used'
<1>4. ASSUME NEW c \in Client, req'[c] = req[c] \/ req'[c] = NoRequest PROVE Drawn(c)
  BY <1>0, <1>4, NoRequestType DEF Created
<1>5. ASSUME NEW c \in Client, NEW q, Like(req'[c], q),
             q.op \notin {"create", "regenerate"} \/ q.room \in used' \/ (q.op = req[c].op /\ q.room = req[c].room)
      PROVE  Drawn(c)
  BY <1>0, <1>5 DEF Created, Like
<1>. SUFFICES \A d \in Client : Drawn(d)
  BY <1>3 DEF Created
<1>. HIDE DEF Drawn
<1>6. ASSUME NEW c \in Client, Handler(c) PROVE \A d \in Client : Drawn(d)
  <2>1. \A d \in Client : d # c => Drawn(d)
    BY <1>4, <1>6, HandlerLocal DEF Becomes
  <2>2. ASSUME Becomes(c, "idle", NoRequest) PROVE Drawn(c)
    BY <1>5, <2>2, NoRequestType DEF Becomes
  <2>3. Drawn(c)
    <3>1. CASE CreateRoom(c)
      BY <1>5, <3>1, CreateEffect DEF Becomes
    <3>2. CASE RegenerateInvite(c)
      <4>1. PICK q \in Request : Becomes(c, "readToken", q) /\ q.room \in rooms
        BY <3>2, RegenerateEffect
      <4>2. q.room \in used'
        BY <1>0, <4>1 DEF Created
      <4>. QED
        BY <1>5, <4>1, <4>2 DEF Becomes
    <3>3. CASE IssueTicket(c)
      BY <1>5, <3>3, IssueEffect DEF Becomes
    <3>4. CASE JoinRoom(c)
      BY <1>5, <3>4, JoinEffect DEF Becomes
    <3>5. CASE ReservePin(c)
      BY <1>5, <3>5, ReservePinEffect DEF Becomes
    <3>6. CASE ReadToken(c)
      BY <1>5, <3>6, ReadTokenEffect DEF Becomes
    <3>7. CASE WriteFirst(c)
      BY <1>5, <3>7, WriteFirstEffect DEF Becomes
    <3>8. CASE WriteSecond(c)
      BY <1>5, <2>2, <3>8, WriteSecondEffect DEF Becomes
    <3>9. CASE DeleteOld(c) \/ Insert(c) \/ WriteTicket(c) \/ Enter(c)
      BY <2>2, <3>9, DeleteOldEffect, InsertEffect, WriteTicketEffect, EnterEffect
    <3>10. CASE Lookup(c)
      <4>1. req[c].op = "issue"
        BY <3>10, LookupEffect, RequestType DEF Local
      <4>. QED
        BY <1>5, <2>2, <3>10, <4>1, LookupEffect DEF Becomes
    <3>11. CASE Consume(c)
      <4>1. req[c].op = "join"
        BY <3>11, ConsumeEffect, RequestType DEF Local
      <4>. QED
        BY <1>5, <2>2, <3>11, <4>1, ConsumeEffect DEF Becomes
    <3>. QED
      BY <1>6, <3>1, <3>2, <3>3, <3>4, <3>5, <3>6, <3>7, <3>8, <3>9, <3>10, <3>11 DEF Handler
  <2>. QED
    BY <2>1, <2>3
<1>7. ASSUME NEW c \in Client, TimesOut(c) PROVE \A d \in Client : Drawn(d)
  BY <1>4, <1>5, <1>7, TimesOutEffect DEF Becomes
<1>8. ASSUME NEW ops, Abandon(ops) PROVE \A d \in Client : Drawn(d)
  BY <1>4, <1>8, AbandonEffect
<1>9. CASE UNCHANGED req
  BY <1>4, <1>9
<1>. QED
  BY <1>6, <1>7, <1>8, <1>9 DEF Next, vars, ExecuteLate, TicketAges, KeyExpires, RestartGame, RestartJoin

Writing == {"reservePin", "readToken", "writeInvite", "writeToken", "deleteOld", "insert"}

\* The invites that open r, but for those of S, are the tokens of T.
OpenedBy(r, S, T) == \A t \in Token : t \notin S => (redis[t] = r <=> t \in T)

\* What the only writer of a room knows at its step
Phase(c) ==
    LET r == req[c].room
        new == req[c].token
        prev == req[c].previous
    IN  /\ step[c] = "reservePin"  => redis[r] = None /\ OpenedBy(r, {}, {})
        /\ step[c] = "readToken"   => redis[r] # None /\ OpenedBy(r, {}, {redis[r]})
        /\ step[c] = "writeInvite" => redis[r] = prev /\ OpenedBy(r, {new}, {prev})
        /\ step[c] = "writeToken"  => redis[r] \in {prev, new} /\ OpenedBy(r, {}, {prev, new})
        /\ step[c] = "insert"      => redis[r] = new /\ OpenedBy(r, {}, {new})
        /\ step[c] = "deleteOld"   => redis[r] = new /\ OpenedBy(r, {prev}, {new})
        /\ step[c] \in {"writeInvite", "writeToken"} /\ req[c].op = "regenerate" => prev # None

\* A tidy room has one writer at most, and one invite when it has none.
RoomTidy(r) ==
    /\ \A c, d \in Writers(r) : c = d
    /\ \A c \in Writers(r) : Phase(c)
    /\ r \notin used => redis[r] = None /\ OpenedBy(r, {}, {})
    /\ r \in used /\ Writers(r) = {} => redis[r] # None /\ OpenedBy(r, {}, {redis[r]})

Tidy == "overdue" \in faults \/ \A r \in tidy : RoomTidy(r)

LEMMA WritersAre == \A c, r : c \in Writers(r) <=> c \in Client /\ step[c] \in Writing /\ req[c].room = r
BY DEF Writers, Writing

\* Nothing happens to the room.
LEMMA RoomFrame ==
    ASSUME Types, NEW r \in Room, RoomTidy(r), redis'[r] = redis[r],
           \A t \in Token : redis'[t] = r <=> redis[t] = r,
           r \in used' <=> r \in used, Writers(r)' = Writers(r),
           \A d \in Writers(r) : step'[d] = step[d] /\ Like(req'[d], req[d])
    PROVE  RoomTidy(r)'
<1>1. \A S, T : OpenedBy(r, S, T)' <=> OpenedBy(r, S, T)
  BY DEF OpenedBy
<1>2. ASSUME NEW c \in Writers(r) PROVE Phase(c)'
  <2>1. Phase(c) /\ req[c].room = r
    BY WritersAre DEF RoomTidy
  <2>2. /\ req'[c].room = r /\ req'[c].token = req[c].token /\ req'[c].previous = req[c].previous
        /\ req'[c].op = req[c].op /\ step'[c] = step[c]
    BY <2>1 DEF Like
  <2>. QED
    BY <2>1, <2>2 DEF Phase, OpenedBy
<1>3. /\ r \notin used' => redis'[r] = None /\ OpenedBy(r, {}, {})'
      /\ r \in used' /\ Writers(r)' = {} => redis'[r] # None /\ OpenedBy(r, {}, {redis[r]})'
  BY DEF RoomTidy, OpenedBy
<1>. QED
  BY <1>2, <1>3 DEF RoomTidy

\* The command of a request about another room
LEMMA OtherRoomsCommand ==
    ASSUME Types, Bound, "overdue" \notin faults, NEW c \in Client, step[c] \in Calling,
           Execute(Command(c)), NEW r \in Room, c \notin Writers(r)
    PROVE  redis'[r] = redis[r] /\ \A t \in Token : redis'[t] = r <=> redis[t] = r
<1>1. step[c] \in Writing => req[c].room # r
  BY WritersAre
<1>2. r # None /\ None \notin Token
  BY KeyKinds
<1>3. redis'[r] = redis[r]
  BY <1>1, ExecuteOnInvites DEF Writing
<1>4. ASSUME NEW t \in Token PROVE redis'[t] = r <=> redis[t] = r
  <2>1. CASE redis'[t] = redis[t]
    BY <2>1
  <2>2. CASE step[c] = "writeInvite" /\ req[c].token = t /\ redis'[t] = req[c].room
    <3>1. redis[t] \in {None, req[c].room} /\ req[c].room # r
      BY <1>1, <1>2, <2>2 DEF Bound, Writing
    <3>. QED
      BY <1>2, <2>2, <3>1
  <2>3. CASE step[c] = "deleteOld" /\ req[c].previous = t /\ redis'[t] = None
    <3>1. redis[t] \in {None, req[c].room} /\ req[c].room # r
      BY <1>1, <1>2, <2>3 DEF Bound, Writing
    <3>. QED
      BY <1>2, <2>3, <3>1
  <2>. QED
    BY <2>1, <2>2, <2>3, ExecuteOnInvites
<1>. QED
  BY <1>3, <1>4

\* A request that was about another room, and still is
LEMMA OtherRooms ==
    ASSUME Types, Bound, "overdue" \notin faults, NEW c \in Client, NEW s, NEW q, Becomes(c, s, q),
           redis' = redis \/ (step[c] \in Calling /\ Execute(Command(c))),
           NEW r \in Room, RoomTidy(r), c \notin Writers(r), s \notin Writing \/ q.room # r,
           r \in used' <=> r \in used
    PROVE  RoomTidy(r)'
<1>1. step'[c] = s /\ req'[c].room = q.room
  BY DEF Becomes, Like
<1>2. \A d \in Client : d # c => step'[d] = step[d] /\ req'[d] = req[d] /\ Like(req'[d], req[d])
  BY RequestType DEF Becomes, Like
<1>3. Writers(r)' = Writers(r)
  BY <1>1, <1>2 DEF Writers, Writing
<1>4. \A d \in Writers(r) : step'[d] = step[d] /\ Like(req'[d], req[d])
  BY <1>2, WritersAre
<1>5. redis'[r] = redis[r] /\ \A t \in Token : redis'[t] = r <=> redis[t] = r
  BY OtherRoomsCommand
<1>. QED
  BY <1>3, <1>4, <1>5, RoomFrame

\* The only writer of the room goes on.
LEMMA WriterGoesOn ==
    ASSUME NEW c \in Client, NEW s, NEW q, Becomes(c, s, q), NEW r \in Room, s \in Writing, q.room = r,
           \A d \in Writers(r) : d = c, r \in used', Phase(c)'
    PROVE  RoomTidy(r)'
<1>1. step'[c] = s /\ req'[c].room = r
  BY DEF Becomes, Like
<1>2. \A d \in Client : d # c => step'[d] = step[d] /\ req'[d] = req[d]
  BY DEF Becomes
<1>3. Writers(r)' = {c}
  BY <1>1, <1>2 DEF Writers, Writing
<1>. QED
  BY <1>3 DEF RoomTidy

\* It is done: one invite is left.
LEMMA WriterIsDone ==
    ASSUME NEW c \in Client, Becomes(c, "idle", NoRequest), NEW r \in Room,
           \A d \in Writers(r) : d = c, r \in used', redis'[r] # None, OpenedBy(r, {}, {redis[r]})'
    PROVE  RoomTidy(r)'
<1>1. step'[c] = "idle"
  BY DEF Becomes
<1>2. \A d \in Client : d # c => step'[d] = step[d] /\ req'[d] = req[d]
  BY DEF Becomes
<1>3. Writers(r)' = {}
  BY <1>1, <1>2 DEF Writers
<1>. QED
  BY <1>3 DEF RoomTidy

\* The one writer of a tidy room makes its next step.
LEMMA OwnRoom ==
    ASSUME Types, Tokens, Bound, Created, "overdue" \notin faults, NEW c \in Client, Handler(c),
           NEW r \in Room, RoomTidy(r), c \in Writers(r)
    PROVE  RoomTidy(r)'
<1>. DEFINE new == req[c].token
            prev == req[c].previous
<1>0. /\ step[c] \in Writing /\ req[c].room = r /\ Local(step[c], req[c])
      /\ req[c].op \in {"create", "regenerate"} /\ r \in used
      /\ new \in Token \cup {None} /\ prev \in Token \cup {None}
      /\ \A d \in Writers(r) : d = c
  BY WritersAre, RequestType DEF Writing, Local, RoomTidy, Created
<1>1. Phase(c)
  BY DEF RoomTidy
<1>2. r # None /\ None \notin Token /\ r \notin Token /\ redis[r] \in Token \cup {None} /\ r \in Key
  BY KeyKinds DEF Types, Kinds, Key
<1>3. r \in used'
  BY <1>0 DEF Handler, CreateRoom, ReservePin, WriteFirst, WriteSecond, Insert, RegenerateInvite, ReadToken,
         DeleteOld, IssueTicket, Lookup, WriteTicket, JoinRoom, Consume, Enter, Begin
<1>4. new # None => new # prev
  BY DEF Bound
<1>5. CASE ReservePin(c)
  <2>1. step[c] = "reservePin" /\ step[c] \in Calling /\ Execute(Command(c))
    BY <1>5, Steps DEF ReservePin, Answered
  <2>2. redis'[r] = redis[r] /\ \A t \in Token : redis'[t] = redis[t]
    BY <2>1, ExecuteOnInvites
  <2>3. redis[r] = None /\ OpenedBy(r, {}, {}) /\ prev = None /\ req[c].op = "create"
    BY <1>0, <1>1, <2>1 DEF Phase, Local
  <2>4. ASSUME NEW s \in {"reservePin", "writeInvite"}, NEW q, Becomes(c, s, q), q.room = r,
               q.previous = None, q.op = "create"
        PROVE  RoomTidy(r)'
    <3>1. step'[c] = s /\ req'[c].room = r /\ req'[c].previous = None /\ req'[c].op = "create"
      BY <2>4 DEF Becomes, Like
    <3>2. Phase(c)'
      BY <1>2, <2>2, <2>3, <3>1 DEF Phase, OpenedBy
    <3>. QED
      BY <1>0, <1>3, <2>4, <3>2, WriterGoesOn DEF Writing
  <2>5. CASE Becomes(c, "writeInvite", req[c])
    BY <1>0, <2>3, <2>4, <2>5
  <2>6. CASE \E q \in Request :
                /\ Becomes(c, "reservePin", q) /\ q.op = req[c].op /\ q.room = req[c].room
                /\ q.previous = req[c].previous
    BY <1>0, <2>3, <2>4, <2>6
  <2>. QED
    BY <1>5, <2>5, <2>6, ReservePinEffect
<1>6. CASE ReadToken(c)
  <2>1. step[c] = "readToken" /\ redis' = redis
    BY <1>6, ReadTokenEffect
  <2>2. PICK q \in Request : /\ Becomes(c, "writeInvite", q)
                             /\ q.token \in Token \ used /\ q.previous = redis[r] /\ q.room = r
    BY <1>0, <1>6, ReadTokenEffect
  <2>3. redis[r] # None /\ OpenedBy(r, {}, {redis[r]})
    BY <1>0, <1>1, <2>1 DEF Phase
  <2>4. step'[c] = "writeInvite" /\ req'[c].room = r /\ req'[c].previous = redis[r]
    BY <2>2 DEF Becomes, Like
  <2>5. Phase(c)'
    BY <2>1, <2>3, <2>4 DEF Phase, OpenedBy
  <2>. QED
    BY <1>0, <1>3, <2>2, <2>5, WriterGoesOn DEF Writing
<1>7. CASE WriteFirst(c)
  <2>1. step[c] = "writeInvite" /\ redis' = [redis EXCEPT ![new] = r] /\ Becomes(c, "writeToken", req[c])
    BY <1>0, <1>7, WriteFirstEffect
  <2>2. new \in Token /\ redis \in [Key -> Room \cup Token \cup {None}] /\ Token \subseteq Key
    BY <1>0, <2>1 DEF Local, Types, TypeOK, Key
  <2>3. redis'[r] = redis[r] /\ \A t \in Token : redis'[t] = IF t = new THEN r ELSE redis[t]
    BY <1>2, <2>1, <2>2
  <2>4. /\ redis[r] = prev /\ OpenedBy(r, {new}, {prev})
        /\ req[c].op = "regenerate" => prev # None
    BY <1>0, <1>1, <2>1 DEF Phase
  <2>5. /\ step'[c] = "writeToken" /\ req'[c].room = r /\ req'[c].previous = prev
        /\ req'[c].token = new /\ req'[c].op = req[c].op
    BY <1>0, <2>1 DEF Becomes, Like
  <2>6. OpenedBy(r, {}, {prev, new})'
    BY <2>3, <2>4, <2>5 DEF OpenedBy
  <2>7. Phase(c)'
    BY <2>3, <2>4, <2>5, <2>6 DEF Phase, OpenedBy
  <2>. QED
    BY <1>0, <1>3, <2>1, <2>7, WriterGoesOn DEF Writing
<1>8. CASE WriteSecond(c)
  <2>1. step[c] = "writeToken" /\ redis' = [redis EXCEPT ![r] = new]
    BY <1>0, <1>8, WriteSecondEffect
  <2>2. /\ new \in Token /\ redis \in [Key -> Room \cup Token \cup {None}]
        /\ req[c].op = "create" => prev = None
    BY <1>0, <2>1 DEF Local, Types, TypeOK
  <2>3. redis'[r] = new /\ \A t \in Token : redis'[t] = redis[t]
    BY <1>2, <2>1, <2>2
  <2>4. OpenedBy(r, {}, {prev, new}) /\ (req[c].op = "regenerate" => prev # None)
    BY <1>0, <1>1, <2>1 DEF Phase
  <2>5. ASSUME NEW s \in {"insert", "deleteOld"}, Becomes(c, s, req[c]), s = "insert" => prev = None
        PROVE  RoomTidy(r)'
    <3>1. /\ step'[c] = s /\ req'[c].room = r /\ req'[c].previous = prev
          /\ req'[c].token = new /\ req'[c].op = req[c].op
      BY <1>0, <2>5 DEF Becomes, Like
    <3>2. s = "insert" => OpenedBy(r, {}, {new})'
      BY <1>2, <2>3, <2>4, <2>5, <3>1 DEF OpenedBy
    <3>3. OpenedBy(r, {prev}, {new})'
      BY <2>3, <2>4, <3>1 DEF OpenedBy
    <3>4. Phase(c)'
      BY <2>3, <3>1, <3>2, <3>3 DEF Phase, OpenedBy
    <3>. QED
      BY <1>0, <1>3, <2>5, <3>4, WriterGoesOn DEF Writing
  <2>. QED
    BY <1>8, <2>2, <2>4, <2>5, WriteSecondEffect
<1>9. CASE DeleteOld(c)
  <2>1. /\ step[c] = "deleteOld" /\ redis' = [redis EXCEPT ![prev] = None]
        /\ Becomes(c, "idle", NoRequest)
    BY <1>9, DeleteOldEffect
  <2>2. /\ prev \in Token /\ redis \in [Key -> Room \cup Token \cup {None}] /\ Token \subseteq Key
        /\ new \in Token
    BY <1>0, <2>1 DEF Local, Types, TypeOK, Key
  <2>3. redis'[r] = redis[r] /\ \A t \in Token : redis'[t] = IF t = prev THEN None ELSE redis[t]
    BY <1>2, <2>1, <2>2
  <2>4. redis[r] = new /\ OpenedBy(r, {prev}, {new})
    BY <1>0, <1>1, <2>1 DEF Phase
  <2>5. new # prev
    BY <1>2, <1>4, <2>2
  <2>6. redis'[r] # None /\ OpenedBy(r, {}, {redis[r]})'
    BY <1>2, <2>2, <2>3, <2>4, <2>5 DEF OpenedBy
  <2>. QED
    BY <1>0, <1>3, <2>1, <2>6, WriterIsDone
<1>10. CASE Insert(c)
  <2>1. step[c] = "insert" /\ redis' = redis /\ Becomes(c, "idle", NoRequest)
    BY <1>10, InsertEffect
  <2>2. redis[r] = new /\ OpenedBy(r, {}, {new}) /\ new \in Token
    BY <1>0, <1>1, <2>1 DEF Phase, Local
  <2>3. redis'[r] # None /\ OpenedBy(r, {}, {redis[r]})'
    BY <1>2, <2>1, <2>2 DEF OpenedBy
  <2>. QED
    BY <1>0, <1>3, <2>1, <2>3, WriterIsDone
<1>11. CASE CreateRoom(c) \/ RegenerateInvite(c) \/ IssueTicket(c) \/ JoinRoom(c)
  BY <1>0, <1>11 DEF CreateRoom, RegenerateInvite, IssueTicket, JoinRoom, Begin, Writing
<1>12. CASE Lookup(c) \/ WriteTicket(c) \/ Consume(c) \/ Enter(c)
  BY <1>0, <1>12 DEF Lookup, WriteTicket, Consume, Enter, Answered, Writing
<1>. QED
  BY <1>5, <1>6, <1>7, <1>8, <1>9, <1>10, <1>11, <1>12 DEF Handler

\* The one writer of a tidy room makes a call again.
LEMMA OwnRoomAgain ==
    ASSUME Types, Tokens, Bound, Created, "overdue" \notin faults, NEW c \in Client,
           step[c] \in Calling, redis' = redis \/ Execute(Command(c)), Becomes(c, step[c], req[c]),
           used' = used, NEW r \in Room, RoomTidy(r), c \in Writers(r)
    PROVE  RoomTidy(r)'
<1>. DEFINE new == req[c].token
            prev == req[c].previous
<1>0. /\ step[c] \in Writing /\ req[c].room = r /\ Local(step[c], req[c])
      /\ req[c].op \in {"create", "regenerate"} /\ r \in used'
      /\ \A d \in Writers(r) : d = c
  BY WritersAre, RequestType DEF Writing, Local, RoomTidy, Created
<1>1. Phase(c)
  BY DEF RoomTidy
<1>2. r # None /\ None \notin Token
  BY KeyKinds
<1>3. /\ step'[c] = step[c] /\ req'[c].room = r /\ req'[c].previous = prev
      /\ req'[c].token = new /\ req'[c].op = req[c].op
  BY <1>0 DEF Becomes, Like
<1>4. /\ \A t \in Token : \/ redis'[t] = redis[t]
                          \/ step[c] = "writeInvite" /\ new = t /\ redis'[t] = r
                          \/ step[c] = "deleteOld" /\ prev = t /\ redis'[t] = None
      /\ \/ redis'[r] = redis[r]
         \/ step[c] = "writeToken" /\ redis'[r] = new
  <2>1. CASE redis' = redis
    BY <2>1
  <2>2. CASE Execute(Command(c))
    BY <1>0, <2>2, ExecuteOnInvites
  <2>. QED
    BY <2>1, <2>2
<1>5. Phase(c)'
  <2>1. CASE step[c] \in {"reservePin", "readToken"}
    BY <1>0, <1>1, <1>3, <1>4, <2>1 DEF Phase, OpenedBy
  <2>2. CASE step[c] = "writeInvite"
    BY <1>0, <1>1, <1>3, <1>4, <2>2 DEF Phase, OpenedBy
  <2>3. CASE step[c] = "writeToken"
    BY <1>0, <1>1, <1>3, <1>4, <2>3 DEF Phase, OpenedBy
  <2>4. CASE step[c] = "deleteOld"
    BY <1>0, <1>1, <1>2, <1>3, <1>4, <2>4 DEF Phase, OpenedBy
  <2>. QED
    BY <1>0, <2>1, <2>2, <2>3, <2>4 DEF Writing, Calling
<1>. QED
  BY <1>0, <1>5, WriterGoesOn

\* A request begins to write the invites of a room.
LEMMA RoomBegins ==
    ASSUME Types, Created, "overdue" \notin faults, NEW c \in Client,
           CreateRoom(c) \/ RegenerateInvite(c), NEW r \in tidy', RoomTidy(r), (c \in Writers(r))'
    PROVE  RoomTidy(r)'
<1>0. r \in Room /\ tidy' \subseteq tidy
  <2>1. tidy' \subseteq tidy
    BY DEF CreateRoom, RegenerateInvite
  <2>. QED
    BY <2>1 DEF Types, TypeOK
<1>1. step'[c] \in Writing /\ req'[c].room = r
  BY DEF Writers, Writing
<1>2. CASE CreateRoom(c)
  <2>1. PICK q \in Request :
                 /\ Becomes(c, "reservePin", q)
                 /\ q.op = "create" /\ q.room \in Room \ used /\ q.from \in Pin
                 /\ q.token \in Token \ used /\ q.previous = None
                 /\ used' = used \cup {q.room, q.token}
    BY <1>2, CreateEffect
  <2>2. redis' = redis
    BY <1>2, CreateEffect
  <2>3. /\ step'[c] = "reservePin" /\ req'[c].room = q.room /\ q.room = r /\ req'[c].op = "create"
        /\ r \notin used
    BY <1>1, <2>1 DEF Becomes, Like
  <2>4. Writers(r) = {}
    <3>1. \A d \in Writers(r) : req[d].op \in {"create", "regenerate"} /\ req[d].room = r
      BY WritersAre, RequestType DEF Writing, Local
    <3>. QED
      BY <2>3, <3>1, WritersAre DEF Created
  <2>5. redis[r] = None /\ OpenedBy(r, {}, {})
    BY <2>3 DEF RoomTidy
  <2>6. Phase(c)'
    BY <2>2, <2>3, <2>5 DEF Phase, OpenedBy
  <2>. QED
    BY <1>0, <2>1, <2>3, <2>4, <2>6, WriterGoesOn DEF Writing
<1>3. CASE RegenerateInvite(c)
  <2>1. PICK q \in Request :
                 /\ Becomes(c, "readToken", q) /\ q.room \in rooms
                 /\ tidy' = IF Writers(q.room) = {} THEN tidy ELSE tidy \ {q.room}
    BY <1>3, RegenerateEffect
  <2>2. redis' = redis /\ used' = used
    BY <1>3, RegenerateEffect
  <2>3. /\ step'[c] = "readToken" /\ req'[c].room = r /\ q.room = r
        /\ r \in used
    BY <1>1, <2>1 DEF Becomes, Like, Created
  <2>4. Writers(r) = {}
    BY <2>1, <2>3
  <2>5. redis[r] # None /\ OpenedBy(r, {}, {redis[r]})
    BY <2>3, <2>4 DEF RoomTidy
  <2>6. Phase(c)'
    BY <2>2, <2>3, <2>5 DEF Phase, OpenedBy
  <2>. QED
    BY <1>0, <2>1, <2>2, <2>3, <2>4, <2>6, WriterGoesOn DEF Writing
<1>. QED
  BY <1>2, <1>3

\* A request comes to write the invites of a room only at its beginning,
\* and draws only ids of its own.
LEMMA NewWriters ==
    ASSUME Types, NEW c \in Client, Handler(c), NEW r \in Room, c \notin Writers(r)
    PROVE  /\ (c \in Writers(r))' => CreateRoom(c) \/ RegenerateInvite(c)
           /\ r \in used' => r \in used \/ (c \in Writers(r))'
           /\ r \in used => r \in used'
<1>1. step[c] \in Writing => req[c].room # r
  BY WritersAre
<1>2. r \notin Token /\ r \notin Ticket
  BY KeyKinds DEF Key
<1>3. used \subseteq used'
  BY DEF Handler, CreateRoom, ReservePin, WriteFirst, WriteSecond, Insert, RegenerateInvite, ReadToken,
         DeleteOld, IssueTicket, Lookup, WriteTicket, JoinRoom, Consume, Enter, Begin
<1>4. CASE CreateRoom(c)
  <2>1. PICK q \in Request : /\ Becomes(c, "reservePin", q) /\ q.token \in Token
                             /\ used' = used \cup {q.room, q.token}
    BY <1>4, CreateEffect
  <2>2. q.room = r => (c \in Writers(r))'
    BY <2>1 DEF Becomes, Like, Writers
  <2>. QED
    BY <1>2, <1>3, <1>4, <2>1, <2>2
<1>5. CASE RegenerateInvite(c)
  BY <1>3, <1>5, RegenerateEffect
<1>6. CASE ~ CreateRoom(c) /\ ~ RegenerateInvite(c)
  <2>1. r \in used' => r \in used
    <3>1. CASE ReadToken(c)
      BY <1>2, <3>1 DEF ReadToken, Fresh
    <3>2. CASE Lookup(c)
      BY <1>2, <3>2 DEF Lookup, Fresh
    <3>3. CASE ~ ReadToken(c) /\ ~ Lookup(c)
      BY <1>6, <3>3 DEF Handler, ReservePin, WriteFirst, WriteSecond, Insert,
         DeleteOld, IssueTicket, WriteTicket, JoinRoom, Consume, Enter, Begin
    <3>. QED
      BY <3>1, <3>2, <3>3
  <2>2. step'[c] \notin Writing \/ req'[c].room # r
    <3>1. CASE IssueTicket(c)
      BY <3>1, IssueEffect DEF Becomes, Writing
    <3>2. CASE JoinRoom(c)
      BY <3>2, JoinEffect DEF Becomes, Writing
    <3>3. CASE ReservePin(c)
      <4>1. req[c].room # r
        BY <1>1, <3>3, ReservePinEffect DEF Writing
      <4>2. req'[c].room = req[c].room
        BY <3>3, ReservePinEffect DEF Becomes, Like
      <4>. QED
        BY <4>1, <4>2
    <3>4. CASE ReadToken(c)
      <4>1. req[c].room # r
        BY <1>1, <3>4, ReadTokenEffect DEF Writing
      <4>2. req'[c].room = req[c].room
        BY <3>4, ReadTokenEffect DEF Becomes, Like
      <4>. QED
        BY <4>1, <4>2
    <3>5. CASE WriteFirst(c)
      BY <1>1, <3>5, WriteFirstEffect DEF Becomes, Like, Writing
    <3>6. CASE WriteSecond(c)
      <4>1. req[c].room # r
        BY <1>1, <3>6, WriteSecondEffect DEF Writing
      <4>2. req'[c].room = req[c].room \/ step'[c] = "idle"
        BY <3>6, WriteSecondEffect DEF Becomes, Like
      <4>. QED
        BY <4>1, <4>2 DEF Writing
    <3>7. CASE DeleteOld(c) \/ Insert(c) \/ WriteTicket(c) \/ Enter(c)
      BY <3>7, DeleteOldEffect, InsertEffect, WriteTicketEffect, EnterEffect DEF Becomes, Writing
    <3>8. CASE Lookup(c)
      BY <3>8, LookupEffect DEF Becomes, Writing
    <3>9. CASE Consume(c)
      BY <3>9, ConsumeEffect DEF Becomes, Writing
    <3>. QED
      BY <1>6, <3>1, <3>2, <3>3, <3>4, <3>5, <3>6, <3>7, <3>8, <3>9 DEF Handler
  <2>. QED
    BY <1>3, <2>1, <2>2 DEF Writers, Writing
<1>. QED
  BY <1>4, <1>5, <1>6

LEMMA TidyStep ==
    ASSUME Types, Tokens, Bound, Created, Tidy, ~ KeysExpire, [Next]_vars PROVE Tidy'
<1>0. /\ tidy \subseteq Room /\ redis \in [Key -> Room \cup Token \cup {None}]
      /\ Token \cup Room \cup Ticket \subseteq Key
  BY DEF Types, TypeOK, Key
<1>1. CASE "overdue" \in faults
  BY <1>1 DEF Tidy, Next, vars, history, ExecuteLate, TicketAges, KeyExpires, RestartGame, RestartJoin, Abandon,
         TimesOut, Handler, CreateRoom, ReservePin, WriteFirst, WriteSecond, Insert, RegenerateInvite,
         ReadToken, DeleteOld, IssueTicket, Lookup, WriteTicket, JoinRoom, Consume, Enter, Begin, Answered
<1>. SUFFICES ASSUME "overdue" \notin faults PROVE Tidy'
  BY <1>1
<1>2. \A r \in tidy : RoomTidy(r) /\ r \in Room
  BY <1>0 DEF Tidy
<1>3. ASSUME NEW c \in Client, Handler(c), NEW r \in tidy' PROVE RoomTidy(r)'
  <2>1. tidy' \subseteq tidy
    BY <1>3 DEF Handler, CreateRoom, ReservePin, WriteFirst, WriteSecond, Insert, RegenerateInvite, ReadToken,
       DeleteOld, IssueTicket, Lookup, WriteTicket, JoinRoom, Consume, Enter, history
  <2>2. RoomTidy(r) /\ r \in Room
    BY <1>2, <2>1
  <2>3. CASE c \in Writers(r)
    BY <1>3, <2>2, <2>3, OwnRoom
  <2>4. CASE c \notin Writers(r) /\ (c \in Writers(r))'
    <3>1. CreateRoom(c) \/ RegenerateInvite(c)
      BY <1>3, <2>2, <2>4, NewWriters
    <3>. QED
      BY <1>3, <2>2, <2>4, <3>1, RoomBegins
  <2>5. CASE c \notin Writers(r) /\ ~ (c \in Writers(r))'
    <3>1. r \in used' <=> r \in used
      BY <1>3, <2>2, <2>5, NewWriters
    <3>2. redis' = redis \/ (step[c] \in Calling /\ Execute(Command(c)))
      BY <1>3, Steps DEF Handler, CreateRoom, ReservePin, WriteFirst, WriteSecond, Insert, RegenerateInvite,
         ReadToken, DeleteOld, IssueTicket, Lookup, WriteTicket, JoinRoom, Consume, Enter, Begin, Answered
    <3>3. PICK s \in Step, q \in Request : Becomes(c, s, q)
      BY <1>3, HandlerLocal
    <3>4. s \notin Writing \/ q.room # r
      BY <2>5, <3>3 DEF Becomes, Like, Writers, Writing
    <3>. QED
      BY <2>2, <2>5, <3>1, <3>2, <3>3, <3>4, OtherRooms
  <2>. QED
    BY <2>3, <2>4, <2>5
<1>4. ASSUME NEW c \in Client, TimesOut(c), NEW r \in tidy' PROVE RoomTidy(r)'
  <2>0. /\ step[c] \in Calling /\ used' = used
        /\ redis' = redis \/ Execute(Command(c))
        /\ \/ Becomes(c, step[c], req[c]) /\ tidy' = tidy
           \/ /\ Becomes(c, "idle", NoRequest)
              /\ tidy' = IF c \in Writers(req[c].room) THEN tidy \ {req[c].room} ELSE tidy
    <3>1. /\ step[c] \in Calling /\ used' = used
          /\ redis' = redis \/ Execute(Command(c))
      BY <1>4, TimesOutEffect
    <3>2. \/ Becomes(c, step[c], req[c]) /\ tidy' = tidy
          \/ /\ Becomes(c, "idle", NoRequest)
             /\ tidy' = IF c \in Writers(req[c].room) THEN tidy \ {req[c].room} ELSE tidy
      BY <1>4, TimesOutEffect
    <3>. QED
      BY <3>1, <3>2
  <2>1. RoomTidy(r) /\ r \in Room
    BY <1>2, <2>0, <1>4
  <2>2. CASE c \in Writers(r)
    <3>1. req[c].room = r
      BY <2>2, WritersAre
    <3>2. Becomes(c, step[c], req[c])
      BY <1>4, <2>0, <2>2, <3>1
    <3>. QED
      BY <1>4, <2>0, <2>1, <2>2, <3>2, OwnRoomAgain
  <2>3. CASE c \notin Writers(r)
    <3>1. CASE Becomes(c, step[c], req[c])
      <4>1. step[c] \notin Writing \/ req[c].room # r
        BY <2>3, WritersAre
      <4>. QED
        BY <2>0, <2>1, <2>3, <3>1, <4>1, OtherRooms
    <3>2. CASE Becomes(c, "idle", NoRequest)
      <4>1. "idle" \notin Writing
        BY DEF Writing
      <4>. QED
        BY <2>0, <2>1, <2>3, <3>2, <4>1, OtherRooms
    <3>. QED
      BY <2>0, <3>1, <3>2
  <2>. QED
    BY <2>2, <2>3
<1>5. CASE ExecuteLate
  BY <1>5 DEF ExecuteLate, Tidy
\* Nothing happens to the requests of the room.
<1>6. ASSUME UNCHANGED <<used, faults>>, tidy' \subseteq tidy,
             \A k \in Token \cup Room : redis'[k] = redis[k],
             \A r \in tidy' : Writers(r)' = Writers(r),
             \A r \in tidy' : \A d \in Writers(r) : step'[d] = step[d] /\ req'[d] = req[d]
      PROVE  Tidy'
  <2>1. ASSUME NEW r \in tidy' PROVE RoomTidy(r)'
    <3>1. RoomTidy(r) /\ r \in Room
      BY <1>2, <1>6
    <3>2. \A d \in Writers(r) : step'[d] = step[d] /\ Like(req'[d], req[d])
      BY <1>6, RequestType, WritersAre DEF Like
    <3>. QED
      BY <1>6, <3>1, <3>2, RoomFrame
  <2>. QED
    BY <2>1 DEF Tidy
<1>7. CASE TicketAges
  <2>1. \A k \in Token \cup Room : redis'[k] = redis[k]
    BY <1>0, <1>7, KeyKinds DEF TicketAges
  <2>. QED
    BY <1>6, <1>7, <2>1 DEF TicketAges, history, Writers
<1>8. ASSUME NEW ops, Abandon(ops) PROVE Tidy'
  <2>1. /\ UNCHANGED <<redis, used, faults>>
        /\ tidy' = {r \in tidy : \A d \in Writers(r) : req[d].op \notin ops}
    BY <1>8, AbandonEffect
  <2>2. \A d \in Client :
           \/ step'[d] = step[d] /\ req'[d] = req[d] /\ (step[d] = "idle" \/ req[d].op \notin ops)
           \/ step'[d] = "idle" /\ req'[d] = NoRequest
    BY <1>8, AbandonEffect
  <2>3. \A d \in Client : req[d].op \notin ops => step'[d] = step[d] /\ req'[d] = req[d]
    BY <1>8 DEF Abandon
  <2>4. ASSUME NEW r \in tidy'
        PROVE  /\ Writers(r)' = Writers(r)
               /\ \A d \in Writers(r) : step'[d] = step[d] /\ req'[d] = req[d]
    <3>1. \A d \in Writers(r) : step'[d] = step[d] /\ req'[d] = req[d]
      BY <2>1, <2>3, <2>4, WritersAre
    <3>2. ASSUME NEW d \in Client, d \notin Writers(r) PROVE ~ (d \in Writers(r))'
      BY <2>2, <3>2 DEF Writers
    <3>3. ASSUME NEW d \in Writers(r) PROVE (d \in Writers(r))'
      BY <3>1, <3>3 DEF Writers
    <3>4. \A d \in Client : (d \in Writers(r))' <=> d \in Writers(r)
      BY <3>2, <3>3
    <3>5. Writers(r) \subseteq Client /\ Writers(r)' \subseteq Client
      BY DEF Writers
    <3>. QED
      BY <3>1, <3>4, <3>5
  <2>. QED
    BY <1>6, <2>1, <2>4
<1>9. CASE UNCHANGED vars
  BY <1>6, <1>9 DEF vars, history, Writers
<1>. QED
  BY <1>3, <1>4, <1>5, <1>7, <1>8, <1>9 DEF Next, KeyExpires, RestartGame, RestartJoin, Tidy

LEMMA OneInviteInit == Init => Bound /\ Created /\ Tidy
<1>. SUFFICES ASSUME Init PROVE Bound /\ Created /\ Tidy
  OBVIOUS
<1>1. Token \cup Room \subseteq Key /\ \A r \in Room : r # None
  BY KeyKinds
<1>2. Bound
  BY <1>1, NoRequestType DEF Init, Bound
<1>3. Created
  BY NoRequestType DEF Init, Created
<1>4. \A r \in Room : Writers(r) = {} /\ redis[r] = None /\ OpenedBy(r, {}, {})
  BY <1>1 DEF Init, Writers, OpenedBy
<1>5. Tidy
  BY <1>4 DEF Init, Tidy, RoomTidy
<1>. QED
  BY <1>2, <1>3, <1>5

\* create_room and regenerate_invite leave a room with the invite it names
\* and no other, through any repeated attempts, if one writes at a time.
THEOREM OneInviteOnly == ASSUME ~ KeysExpire PROVE Spec => []OneInvite
<1>. DEFINE All == Types /\ Tokens /\ Bound /\ Created /\ Tidy
<1>1. All /\ [Next]_vars => All'
  BY TypesStep, TokensStep, BoundStep, CreatedStep, TidyStep
<1>2. All => OneInvite
  <2>. SUFFICES ASSUME All, "overdue" \notin faults, NEW r \in rooms \cap tidy, Writers(r) = {}
                PROVE  {t \in Token : redis[t] = r} = {redis[r]}
    BY DEF OneInvite
  <2>1. r \in used /\ r \in Room /\ redis[r] \in Token \cup {None}
    BY DEF Created, Types, TypeOK, Kinds
  <2>2. redis[r] # None /\ OpenedBy(r, {}, {redis[r]})
    BY <2>1 DEF Tidy, RoomTidy
  <2>. QED
    BY <2>1, <2>2 DEF OpenedBy
<1>3. Init => All
  BY TypesInit, TokensInit, OneInviteInit
<1>. QED
  BY <1>1, <1>2, <1>3, PTL DEF Spec
===========================================================================
