------------------------- MODULE BotRegistryProofs -------------------------
(***************************************************************************)
(* What is proved of BotRegistry, for any number of bots, rows, users and  *)
(* requests, and any number of tries.                                      *)
(*                                                                         *)
(* A bot that was not disturbed has at most one request that works on it,  *)
(* and that request finds its row as it left or read it.  So the request   *)
(* decides alone what becomes of row and webhook, and what is left to show *)
(* is what it leaves behind when it ends.                                  *)
(***************************************************************************)
EXTENDS BotRegistry, TLAPS

---------------------------------------------------------------------------
(* The invariant.                                                          *)

Unique ==
    \A i, j \in Id : Exists(i) /\ Exists(j) /\ bots[i].bot = bots[j].bot => i = j

\* Ids are drawn once: nobody else knows the id of a row not inserted yet.
Fresh ==
    /\ \A i \in Id : Exists(i) => i \in drawn
    /\ \A r \in Request : requests[r] # None => requests[r].id \in drawn
    /\ \A r \in Request : At(r, "insert") =>
          /\ ~ Exists(requests[r].id)
          /\ \A s \in Request \ {r} : requests[s] # None => requests[s].id # requests[r].id

\* Which requests call Telegram
Bots ==
    \A r \in Request : requests[r] # None =>
        /\ requests[r].step \in {"insert", "set", "rollback", "unset"} => requests[r].bot # None
        /\ requests[r].step = "status" => requests[r].bot = None

\* What a request was allowed on the row it read holds when it writes.
Allowed ==
    \A r \in Request : requests[r] # None /\ Exists(requests[r].id) =>
        /\ requests[r].step = "status" =>
              bots[requests[r].id].owner = requests[r].user \/ requests[r].user \in Admin
        /\ requests[r].step = "delete" /\ requests[r].bot = None =>
              bots[requests[r].id].owner # requests[r].user

AccessInv == TypeOK /\ Unique /\ Fresh /\ Bots /\ Allowed

\* The row of a request that calls Telegram
WorkedOn ==
    \A r \in Request : requests[r] # None /\ requests[r].bot # None /\ requests[r].step # "insert" =>
        /\ Exists(requests[r].id) => bots[requests[r].id].bot = requests[r].bot
        /\ requests[r].bot \notin disturbed =>
              Exists(requests[r].id) /\ bots[requests[r].id].owner = requests[r].user

Alone ==
    \A t \in Telegram \ disturbed : \A r, s \in Request :
        Working(r, t) /\ Working(s, t) => r = s

Surprises ==
    /\ \A c \in late : c.bot \in disturbed
    /\ \A r \in Request : At(r, "rollback") => requests[r].bot \in unanswered

WorkInv == WorkedOn /\ Alone /\ Surprises

\* Without surprises a webhook names the row of its bot until the removal
\* takes it off, before the row.
Named ==
    \A t \in Telegram \ (disturbed \cup unanswered) :
        /\ webhook[t] # None => Exists(webhook[t]) /\ bots[webhook[t]].bot = t
        /\ \A r \in Request : At(r, "delete") /\ requests[r].bot = t => webhook[t] = None

IInv == AccessInv /\ WorkInv /\ RegisteredBotIsServed /\ Named

---------------------------------------------------------------------------
(* Type correctness.                                                       *)

\* A request that does not end goes on as one.
LEMMA PendingType ==
    ASSUME TypeOK, NEW r \in Request, requests[r] # None
    PROVE  /\ requests[r] \in Pending
           /\ requests[r].id \in Id /\ requests[r].user \in User
           /\ requests[r].bot \in Telegram \cup {None} /\ requests[r].tries \in Nat
           /\ \A s \in {"insert", "set", "rollback", "unset", "delete", "status"} :
                 [requests[r] EXCEPT !.step = s, !.tries = 0] \in Pending
           /\ [requests[r] EXCEPT !.tries = requests[r].tries + 1] \in Pending
<1>1. requests[r] \in Pending
  BY DEF TypeOK
<1>2. requests[r].tries + 1 \in Nat
  BY <1>1 DEF Pending
<1>. QED
  BY <1>1, <1>2 DEF Pending

\* What an action makes of the record of its request keeps its type.
LEMMA RequestTypes ==
    ASSUME TypeOK, NEW r \in Request,
           \/ \E s \in {"insert", "unset", "delete", "status"}, i \in Id,
                  t \in Telegram \cup {None}, u \in User, e \in BOOLEAN : Begins(r, s, i, t, u, e)
           \/ Ends(r)
           \/ requests[r] # None /\ Retries(r)
           \/ requests[r] # None /\ \E s \in {"set", "rollback", "delete"} : Goto(r, s)
    PROVE  requests' \in [Request -> Pending \cup {None}]
<1>1. CASE \E s \in {"insert", "unset", "delete", "status"}, i \in Id,
              t \in Telegram \cup {None}, u \in User, e \in BOOLEAN : Begins(r, s, i, t, u, e)
  BY <1>1 DEF TypeOK, Begins, Pending
<1>2. CASE Ends(r)
  BY <1>2 DEF TypeOK, Ends
<1>3. CASE requests[r] # None /\ Retries(r)
  BY <1>3, PendingType DEF TypeOK, Retries
<1>4. CASE requests[r] # None /\ \E s \in {"set", "rollback", "delete"} : Goto(r, s)
  BY <1>4, PendingType DEF TypeOK, Goto
<1>. QED
  BY <1>1, <1>2, <1>3, <1>4

\* Nor does a call to Telegram, whatever comes of it.
LEMMA CallTypes ==
    ASSUME TypeOK, NEW t \in Telegram, NEW i \in Id \cup {None},
           \/ Executed(t, i) /\ UNCHANGED <<late, unanswered, disturbed>>
           \/ Refused(t)
           \/ NoAnswer(t, i)
    PROVE  /\ webhook' \in [Telegram -> Id \cup {None}] /\ late' \subseteq Call
           /\ unanswered' \subseteq Telegram /\ disturbed' \subseteq Telegram
BY DEF TypeOK, Executed, Refused, NoAnswer, Call

LEMMA InitType == Init => TypeOK
BY DEF Init, TypeOK

LEMMA TypeStep == TypeOK /\ Bots /\ [Next]_vars => TypeOK'
<1>. SUFFICES ASSUME TypeOK, Bots, [Next]_vars PROVE TypeOK'
  OBVIOUS
<1>1. CASE Arrives
  BY <1>1 DEF TypeOK, Arrives, Executed, Call
<1>2. ASSUME NEW r \in Request, Handler(r) PROVE TypeOK'
  <2>1. CASE \E u \in User, t \in Telegram : Register(r, u, t)
    <3>1. PICK u \in User, t \in Telegram : Register(r, u, t)
      BY <2>1
    <3>2. PICK i \in Id \ drawn : Begins(r, "insert", i, t, u, TRUE) /\ drawn' = drawn \cup {i}
      BY <3>1 DEF Register
    <3>3. requests' \in [Request -> Pending \cup {None}]
      BY <3>2, RequestTypes
    <3>. QED
      BY <3>1, <3>2, <3>3 DEF TypeOK, Register, telegram
  <2>2. CASE \E u \in User, i \in Id : Remove(r, u, i)
    <3>1. PICK u \in User, i \in Id : Remove(r, u, i)
      BY <2>2
    <3>2. Owns(i, u) => bots[i].bot \in Telegram
      BY DEF Owns, Exists, TypeOK, Row
    <3>3. requests' \in [Request -> Pending \cup {None}]
      BY <3>1, <3>2, RequestTypes DEF Remove
    <3>4. disturbed' \subseteq Telegram
      BY <3>1, <3>2 DEF Remove, Overlaps, TypeOK
    <3>. QED
      BY <3>1, <3>3, <3>4 DEF TypeOK, Remove, telegram
  <2>3. CASE \E u \in User, i \in Id, e \in BOOLEAN : UpdateStatus(r, u, i, e)
    <3>1. requests' \in [Request -> Pending \cup {None}]
      BY <2>3, RequestTypes DEF UpdateStatus
    <3>. QED
      BY <2>3, <3>1 DEF TypeOK, UpdateStatus, telegram
  <2>4. CASE Insert(r)
    <3>1. requests' \in [Request -> Pending \cup {None}]
      BY <2>4, RequestTypes DEF Insert, At
    <3>2. requests[r].bot \in Telegram
      BY <2>4, PendingType DEF Insert, At, Bots
    <3>3. [bot |-> requests[r].bot, owner |-> requests[r].user, enabled |-> TRUE] \in Row
      BY <2>4, <3>2, PendingType DEF Insert, At, Row
    <3>4. bots' \in [Id -> Row \cup {None}]
      BY <2>4, <3>3 DEF TypeOK, Insert
    <3>5. disturbed' \subseteq Telegram
      BY <2>4, <3>2 DEF TypeOK, Insert, Overlaps
    <3>. QED
      BY <2>4, <3>1, <3>4, <3>5 DEF TypeOK, Insert, telegram
  <2>5. CASE SetWebhook(r)
    <3>1. requests[r].bot \in Telegram /\ requests[r].id \in Id
      BY <2>5, PendingType DEF SetWebhook, At, Bots
    <3>2. \/ Executed(requests[r].bot, requests[r].id) /\ UNCHANGED <<late, unanswered, disturbed>>
          \/ Refused(requests[r].bot)
          \/ NoAnswer(requests[r].bot, requests[r].id)
      BY <2>5 DEF SetWebhook
    <3>3. /\ webhook' \in [Telegram -> Id \cup {None}] /\ late' \subseteq Call
          /\ unanswered' \subseteq Telegram /\ disturbed' \subseteq Telegram
      BY <3>1, <3>2, CallTypes
    <3>4. requests' \in [Request -> Pending \cup {None}]
      BY <2>5, RequestTypes DEF SetWebhook, At
    <3>. QED
      BY <2>5, <3>3, <3>4 DEF TypeOK, SetWebhook
  <2>6. CASE DeleteWebhook(r)
    <3>1. requests[r].bot \in Telegram /\ requests[r].id \in Id
      BY <2>6, PendingType DEF DeleteWebhook, At, Bots
    <3>2. \/ Executed(requests[r].bot, None) /\ UNCHANGED <<late, unanswered, disturbed>>
          \/ Refused(requests[r].bot)
          \/ NoAnswer(requests[r].bot, None)
      BY <2>6 DEF DeleteWebhook
    <3>3. /\ webhook' \in [Telegram -> Id \cup {None}] /\ late' \subseteq Call
          /\ unanswered' \subseteq Telegram /\ disturbed' \subseteq Telegram
      BY <3>1, <3>2, CallTypes
    <3>4. requests' \in [Request -> Pending \cup {None}]
      BY <2>6, RequestTypes DEF DeleteWebhook, At
    <3>. QED
      BY <2>6, <3>3, <3>4 DEF TypeOK, DeleteWebhook
  <2>7. CASE Delete(r)
    <3>1. requests' \in [Request -> Pending \cup {None}]
      BY <2>7, RequestTypes DEF Delete
    <3>. QED
      BY <2>7, <3>1 DEF TypeOK, Delete, WithoutRow, telegram
  <2>8. CASE WriteStatus(r)
    <3>1. requests' \in [Request -> Pending \cup {None}]
      BY <2>8, RequestTypes DEF WriteStatus
    <3>2. requests[r].id \in Id /\ requests[r].enabled \in BOOLEAN
      BY <2>8 DEF WriteStatus, At, TypeOK, Pending
    <3>3. Exists(requests[r].id) => [bots[requests[r].id] EXCEPT !.enabled = requests[r].enabled] \in Row
      BY <3>2 DEF Exists, TypeOK, Row
    <3>. QED
      BY <2>8, <3>1, <3>2, <3>3 DEF TypeOK, WriteStatus, telegram
  <2>9. CASE Abandon(r)
    <3>1. requests' \in [Request -> Pending \cup {None}]
      BY <2>9, RequestTypes DEF Abandon
    <3>. QED
      BY <2>9, <3>1, PendingType DEF TypeOK, Abandon, telegram
  <2>. QED
    BY <1>2, <2>1, <2>2, <2>3, <2>4, <2>5, <2>6, <2>7, <2>8, <2>9 DEF Handler
<1>3. CASE UNCHANGED vars
  BY <1>3 DEF TypeOK, vars, telegram
<1>. QED
  BY <1>1, <1>2, <1>3 DEF Next

---------------------------------------------------------------------------
(* Ids, and what requests were allowed.                                    *)

\* A step of one request leaves the records of the others alone.
LEMMA OthersStay ==
    ASSUME TypeOK, NEW r \in Request, Handler(r), NEW s \in Request \ {r}
    PROVE  requests'[s] = requests[s]
BY DEF TypeOK, Handler, Register, Remove, UpdateStatus, Insert, SetWebhook, DeleteWebhook,
       Delete, WriteStatus, Abandon, Begins, Goto, Ends, Retries

\* What a request becomes when it goes on, and that it had begun.
LEMMA OwnRecord ==
    ASSUME TypeOK, NEW r \in Request, Handler(r), requests'[r] # None, requests[r] # None
    PROVE  /\ requests'[r].id = requests[r].id /\ requests'[r].user = requests[r].user
           /\ requests'[r].bot = requests[r].bot
           /\ \/ Insert(r) /\ requests[r].step = "insert" /\ requests'[r].step = "set"
              \/ SetWebhook(r) /\ requests[r].step = "set" /\ requests'[r].step \in {"set", "rollback"}
              \/ DeleteWebhook(r) /\ requests[r].step = "unset"
                    /\ requests'[r].step \in {"unset", "delete"}
<1>1. ASSUME NEW u \in User PROVE
        /\ \A t \in Telegram : ~ Register(r, u, t)
        /\ \A i \in Id : ~ Remove(r, u, i)
        /\ \A i \in Id, e \in BOOLEAN : ~ UpdateStatus(r, u, i, e)
  BY DEF Register, Remove, UpdateStatus
<1>2. ~ Delete(r) /\ ~ WriteStatus(r) /\ ~ Abandon(r)
  BY DEF Delete, WriteStatus, Abandon, Ends, TypeOK
<1>3. CASE Insert(r)
  <2>1. requests[r].step = "insert" /\ requests[r] \in Pending
    BY <1>3, PendingType DEF Insert, At
  <2>2. Goto(r, "set")
    BY <1>3 DEF Insert, Ends, TypeOK
  <2>. QED
    BY <1>3, <2>1, <2>2 DEF Goto, TypeOK, Pending
<1>4. CASE SetWebhook(r)
  <2>1. requests[r].step = "set" /\ requests[r] \in Pending
    BY <1>4, PendingType DEF SetWebhook, At
  <2>2. Goto(r, "rollback") \/ Retries(r)
    BY <1>4 DEF SetWebhook, Ends, TypeOK
  <2>. QED
    BY <1>4, <2>1, <2>2 DEF Goto, Retries, TypeOK, Pending
<1>5. CASE DeleteWebhook(r)
  <2>1. requests[r].step = "unset" /\ requests[r] \in Pending
    BY <1>5, PendingType DEF DeleteWebhook, At
  <2>2. Goto(r, "delete") \/ Retries(r)
    BY <1>5 DEF DeleteWebhook
  <2>. QED
    BY <1>5, <2>1, <2>2 DEF Goto, Retries, TypeOK, Pending
<1>. QED
  BY <1>1, <1>2, <1>3, <1>4, <1>5 DEF Handler

LEMMA BotsStep == TypeOK /\ Bots /\ [Next]_vars => Bots'
<1>. SUFFICES ASSUME TypeOK, Bots, [Next]_vars, NEW s \in Request, requests'[s] # None
              PROVE  /\ requests'[s].step \in {"insert", "set", "rollback", "unset"} => requests'[s].bot # None
                     /\ requests'[s].step = "status" => requests'[s].bot = None
  BY DEF Bots
<1>1. CASE UNCHANGED requests
  BY <1>1 DEF Bots
<1>2. ASSUME NEW r \in Request, Handler(r), r # s PROVE requests'[s] = requests[s]
  BY <1>2, OthersStay
<1>3. CASE Handler(s) /\ requests[s] # None
  BY <1>3, OwnRecord DEF Bots
<1>4. CASE Handler(s) /\ requests[s] = None
  <2>1. ASSUME NEW u \in User, NEW t \in Telegram, Register(s, u, t)
        PROVE  requests'[s].step = "insert" /\ requests'[s].bot # None
    BY <2>1, NoneAssumption DEF Register, Begins, TypeOK
  <2>2. ASSUME NEW u \in User, NEW i \in Id, Remove(s, u, i)
        PROVE  \/ requests'[s].step = "unset" /\ requests'[s].bot # None
               \/ requests'[s].step = "delete"
    <3>1. Owns(i, u) => bots[i].bot # None
      BY NoneAssumption DEF Owns, Exists, TypeOK, Row
    <3>. QED
      BY <2>2, <3>1 DEF Remove, Begins, TypeOK
  <2>3. ASSUME NEW u \in User, NEW i \in Id, NEW e \in BOOLEAN, UpdateStatus(s, u, i, e)
        PROVE  requests'[s].step = "status" /\ requests'[s].bot = None
    BY <2>3 DEF UpdateStatus, Begins, TypeOK
  <2>4. ~ Insert(s) /\ ~ SetWebhook(s) /\ ~ DeleteWebhook(s) /\ ~ Delete(s)
        /\ ~ WriteStatus(s) /\ ~ Abandon(s)
    BY <1>4 DEF Insert, SetWebhook, DeleteWebhook, Delete, WriteStatus, Abandon, At
  <2>. QED
    BY <1>4, <2>1, <2>2, <2>3, <2>4 DEF Handler
<1>. QED
  BY <1>1, <1>2, <1>3, <1>4 DEF Next, Arrives, vars, Bots

LEMMA NewRecord ==
    ASSUME TypeOK, NEW r \in Request, Handler(r), requests[r] = None
    PROVE  \/ \E u \in User, t \in Telegram : Register(r, u, t)
           \/ \E u \in User, i \in Id : Remove(r, u, i)
           \/ \E u \in User, i \in Id, e \in BOOLEAN : UpdateStatus(r, u, i, e)
BY DEF Handler, Insert, SetWebhook, DeleteWebhook, Delete, WriteStatus, Abandon, At

\* A request changes only the row it names, and of an existing row neither
\* bot nor owner.
LEMMA RowChanges ==
    ASSUME AccessInv, NEW r \in Request, Handler(r), NEW i \in Id, bots'[i] # bots[i]
    PROVE  /\ requests[r] # None /\ requests[r].id = i
           /\ \/ /\ Insert(r) /\ requests[r].step = "insert"
                 /\ ~ Exists(i) /\ Exists(i)'
                 /\ bots'[i].bot = requests[r].bot /\ bots'[i].owner = requests[r].user
                 /\ Free(requests[r].bot)
              \/ /\ Delete(r) /\ requests[r].step \in {"delete", "rollback"}
                 /\ Exists(i) /\ ~ Exists(i)' /\ bots[i].owner = requests[r].user
              \/ /\ WriteStatus(r) /\ requests[r].step = "status"
                 /\ Exists(i) /\ Exists(i)'
                 /\ bots'[i].bot = bots[i].bot /\ bots'[i].owner = bots[i].owner
<1>1. ASSUME UNCHANGED bots PROVE FALSE
  BY <1>1
<1>2. CASE Insert(r)
  <2>1. /\ requests[r] # None /\ requests[r].step = "insert"
        /\ Free(requests[r].bot)
        /\ bots' = [bots EXCEPT ![requests[r].id] = [bot |-> requests[r].bot,
                        owner |-> requests[r].user, enabled |-> TRUE]]
    BY <1>1, <1>2 DEF Insert, At
  <2>2. requests[r].id = i /\ ~ Exists(i)
    BY <2>1 DEF AccessInv, TypeOK, Fresh, At
  <2>3. requests[r].bot \in Telegram
    BY <2>1, PendingType DEF AccessInv, Bots
  <2>4. bots'[i] = [bot |-> requests[r].bot, owner |-> requests[r].user, enabled |-> TRUE]
    BY <2>1, <2>2 DEF AccessInv, TypeOK
  <2>5. requests[r].user \in User
    BY <2>1, PendingType DEF AccessInv
  <2>6. bots'[i] \in Row
    BY <2>3, <2>4, <2>5 DEF Row
  <2>7. Exists(i)'
    BY <2>6, NoneAssumption DEF Exists
  <2>8. bots'[i].bot = requests[r].bot /\ bots'[i].owner = requests[r].user
    BY <2>4
  <2>. QED
    BY <1>2, <2>1, <2>2, <2>7, <2>8
<1>3. CASE Delete(r)
  <2>1. requests[r] # None /\ requests[r].step \in {"delete", "rollback"}
    BY <1>3 DEF Delete, At
  <2>. QED
    BY <1>1, <1>3, <2>1 DEF Delete, WithoutRow, Exists, AccessInv, TypeOK
<1>4. CASE WriteStatus(r)
  <2>1. requests[r] # None /\ requests[r].step = "status" /\ requests[r].id = i /\ Exists(i)
    BY <1>1, <1>4 DEF WriteStatus, At, AccessInv, TypeOK
  <2>2. bots'[i] = [bots[i] EXCEPT !.enabled = requests[r].enabled] /\ bots[i] \in Row
    BY <1>4, <2>1 DEF WriteStatus, AccessInv, TypeOK, Exists
  <2>3. requests[r].enabled \in BOOLEAN
    BY <2>1, PendingType DEF AccessInv, Pending
  <2>4. bots'[i] \in Row /\ bots'[i].bot = bots[i].bot /\ bots'[i].owner = bots[i].owner
    BY <2>2, <2>3 DEF Row
  <2>. QED
    BY <1>4, <2>1, <2>4, NoneAssumption DEF Exists
<1>. QED
  BY <1>1, <1>2, <1>3, <1>4 DEF Handler, Register, Remove, UpdateStatus, SetWebhook,
     DeleteWebhook, Abandon

LEMMA UniqueStep == AccessInv /\ [Next]_vars => Unique'
<1>. SUFFICES ASSUME AccessInv, [Next]_vars, NEW i \in Id, NEW j \in Id,
                     Exists(i)', Exists(j)', bots'[i].bot = bots'[j].bot
              PROVE  i = j
  BY DEF Unique
<1>1. CASE UNCHANGED bots
  BY <1>1 DEF AccessInv, Unique, Exists
<1>2. ASSUME NEW r \in Request, Handler(r) PROVE i = j
  <2>1. CASE bots'[i] = bots[i] /\ bots'[j] = bots[j]
    BY <2>1 DEF AccessInv, Unique, Exists
  <2>2. CASE bots'[i] # bots[i] /\ bots'[j] # bots[j]
    BY <1>2, <2>2, RowChanges
  <2>3. CASE bots'[i] # bots[i] /\ bots'[j] = bots[j]
    BY <1>2, <2>3, RowChanges DEF AccessInv, Unique, Exists, Free
  <2>4. CASE bots'[i] = bots[i] /\ bots'[j] # bots[j]
    BY <1>2, <2>4, RowChanges DEF AccessInv, Unique, Exists, Free
  <2>. QED
    BY <2>1, <2>2, <2>3, <2>4
<1>. QED
  BY <1>1, <1>2 DEF Next, Arrives, vars

\* What a request begins with.
LEMMA Beginning ==
    ASSUME AccessInv, NEW r \in Request, Handler(r), requests[r] = None
    PROVE  LET q == requests'[r]
           IN  /\ q # None /\ UNCHANGED <<bots, telegram>>
               /\ q.id \in Id /\ q.user \in User
               /\ \/ /\ q.step = "insert" /\ q.id \notin drawn /\ drawn' = drawn \cup {q.id}
                     /\ q.bot \in Telegram /\ UNCHANGED disturbed
                  \/ /\ q.step = "unset" /\ Known(q.id) /\ Owns(q.id, q.user)
                     /\ q.bot = bots[q.id].bot /\ q.bot \in Telegram
                     /\ disturbed' = Overlaps(r, q.bot) /\ UNCHANGED drawn
                  \/ /\ q.step = "delete" /\ Known(q.id) /\ ~ Owns(q.id, q.user)
                     /\ q.bot = None /\ UNCHANGED <<drawn, disturbed>>
                  \/ /\ q.step = "status" /\ Exists(q.id) /\ q.bot = None
                     /\ bots[q.id].owner = q.user \/ q.user \in Admin
                     /\ UNCHANGED <<drawn, disturbed>>
<1>. DEFINE q == requests'[r]
<1>0. ASSUME NEW st \in {"insert", "unset", "delete", "status"}, NEW i \in Id,
             NEW t \in Telegram \cup {None}, NEW u \in User, NEW e \in BOOLEAN,
             Begins(r, st, i, t, u, e)
      PROVE  q # None /\ q.step = st /\ q.id = i /\ q.bot = t /\ q.user = u
  <2>1. q = [step |-> st, id |-> i, bot |-> t, user |-> u, tries |-> 0, enabled |-> e]
    BY <1>0 DEF Begins, AccessInv, TypeOK
  <2>2. q \in Pending
    BY <2>1 DEF Pending
  <2>. QED
    BY <2>1, <2>2, NoneAssumption
<1>1. ASSUME NEW u \in User, NEW t \in Telegram, Register(r, u, t)
      PROVE  /\ q # None /\ UNCHANGED <<bots, telegram>> /\ q.id \in Id /\ q.user \in User
             /\ q.step = "insert" /\ q.id \notin drawn /\ drawn' = drawn \cup {q.id}
             /\ q.bot \in Telegram /\ UNCHANGED disturbed
  <2>1. PICK i \in Id \ drawn : Begins(r, "insert", i, t, u, TRUE) /\ drawn' = drawn \cup {i}
    BY <1>1 DEF Register
  <2>2. q # None /\ q.step = "insert" /\ q.id = i /\ q.bot = t /\ q.user = u
    BY <2>1, <1>0
  <2>. QED
    BY <1>1, <2>1, <2>2 DEF Register
<1>2. ASSUME NEW u \in User, NEW i \in Id, Remove(r, u, i)
      PROVE  /\ q # None /\ UNCHANGED <<bots, telegram, drawn>> /\ q.id \in Id /\ q.user \in User
             /\ Known(q.id)
             /\ \/ /\ q.step = "unset" /\ Owns(q.id, q.user) /\ q.bot \in Telegram
                   /\ q.bot = bots[q.id].bot /\ disturbed' = Overlaps(r, q.bot)
                \/ /\ q.step = "delete" /\ ~ Owns(q.id, q.user)
                   /\ q.bot = None /\ UNCHANGED disturbed
  <2>1. CASE Owns(i, u)
    <3>1. bots[i].bot \in Telegram
      BY <2>1 DEF Owns, Exists, AccessInv, TypeOK, Row
    <3>2. Begins(r, "unset", i, bots[i].bot, u, TRUE) /\ disturbed' = Overlaps(r, bots[i].bot)
      BY <1>2, <2>1 DEF Remove
    <3>3. q # None /\ q.step = "unset" /\ q.id = i /\ q.bot = bots[i].bot /\ q.user = u
      BY <3>1, <3>2, <1>0
    <3>. QED
      BY <1>2, <2>1, <3>1, <3>2, <3>3 DEF Remove
  <2>2. CASE ~ Owns(i, u)
    <3>1. Begins(r, "delete", i, None, u, TRUE)
      BY <1>2, <2>2 DEF Remove
    <3>2. q # None /\ q.step = "delete" /\ q.id = i /\ q.bot = None /\ q.user = u
      BY <3>1, <1>0
    <3>. QED
      BY <1>2, <2>2, <3>2 DEF Remove
  <2>. QED
    BY <2>1, <2>2
<1>3. ASSUME NEW u \in User, NEW i \in Id, NEW e \in BOOLEAN, UpdateStatus(r, u, i, e)
      PROVE  /\ q # None /\ UNCHANGED <<bots, telegram, drawn, disturbed>>
             /\ q.id \in Id /\ q.user \in User
             /\ q.step = "status" /\ Exists(q.id) /\ q.bot = None
             /\ bots[q.id].owner = q.user \/ q.user \in Admin
  <2>1. q # None /\ q.step = "status" /\ q.id = i /\ q.bot = None /\ q.user = u
    BY <1>3, <1>0 DEF UpdateStatus
  <2>. QED
    BY <1>3, <2>1 DEF UpdateStatus
<1>4. TypeOK
  BY DEF AccessInv
<1>. QED
  BY <1>1, <1>2, <1>3, <1>4, NewRecord

LEMMA FreshStep == AccessInv /\ [Next]_vars => Fresh'
<1>. SUFFICES ASSUME AccessInv, [Next]_vars PROVE Fresh'
  OBVIOUS
<1>0. TypeOK
  BY DEF AccessInv
<1>1. CASE UNCHANGED <<bots, requests, drawn>>
  BY <1>1 DEF AccessInv, Fresh, Exists, At
<1>2. ASSUME NEW r \in Request, Handler(r) PROVE Fresh'
  <2>1. drawn \subseteq drawn'
    BY <1>2 DEF Handler, Register, Remove, UpdateStatus, Insert, SetWebhook, DeleteWebhook,
       Delete, WriteStatus, Abandon
  <2>2. ASSUME NEW i \in Id, Exists(i)' PROVE i \in drawn'
    <3>1. CASE bots'[i] = bots[i]
      BY <2>1, <2>2, <3>1 DEF AccessInv, Fresh, Exists
    <3>2. CASE bots'[i] # bots[i]
      BY <1>2, <2>1, <3>2, RowChanges DEF AccessInv, Fresh
    <3>. QED
      BY <3>1, <3>2
  <2>3. ASSUME NEW s \in Request, requests'[s] # None PROVE requests'[s].id \in drawn'
    <3>1. CASE s # r
      BY <1>0, <1>2, <2>1, <2>3, <3>1, OthersStay DEF AccessInv, Fresh
    <3>2. CASE s = r /\ requests[r] # None
      BY <1>0, <1>2, <2>1, <2>3, <3>2, OwnRecord DEF AccessInv, Fresh
    <3>3. CASE s = r /\ requests[r] = None
      BY <1>2, <2>1, <3>3, Beginning DEF AccessInv, Fresh, Known
    <3>. QED
      BY <3>1, <3>2, <3>3
  <2>4. ASSUME NEW s \in Request, At(s, "insert")'
        PROVE  /\ ~ Exists(requests[s].id)'
               /\ \A q \in Request \ {s} : requests'[q] # None => requests'[q].id # requests'[s].id
    <3>1. CASE s = r
      <4>1. requests[r] = None
        BY <1>0, <1>2, <2>4, <3>1, OwnRecord DEF At
      <4>2. requests'[r].id \notin drawn /\ UNCHANGED bots /\ requests'[r].id \in Id
        BY <1>2, <2>4, <3>1, <4>1, Beginning DEF At
      <4>3. ASSUME NEW q \in Request \ {s}, requests'[q] # None PROVE requests'[q].id \in drawn
        BY <1>0, <1>2, <3>1, <4>3, OthersStay DEF AccessInv, Fresh
      <4>. QED
        BY <3>1, <4>2, <4>3 DEF AccessInv, Fresh, Exists
    <3>2. CASE s # r
      <4>1. requests'[s] = requests[s] /\ At(s, "insert")
        BY <1>0, <1>2, <2>4, <3>2, OthersStay DEF At
      <4>2. /\ ~ Exists(requests[s].id) /\ requests[s].id \in Id
            /\ \A q \in Request \ {s} : requests[q] # None => requests[q].id # requests[s].id
        BY <1>0, <4>1, PendingType DEF AccessInv, Fresh, At
      <4>3. bots'[requests[s].id] = bots[requests[s].id]
        BY <1>2, <3>2, <4>2, RowChanges
      <4>4. ASSUME NEW q \in Request \ {s}, requests'[q] # None
            PROVE  requests'[q].id # requests[s].id
        <5>1. CASE q # r
          BY <1>0, <1>2, <4>2, <4>4, <5>1, OthersStay
        <5>2. CASE q = r /\ requests[r] # None
          BY <1>0, <1>2, <4>2, <4>4, <5>2, OwnRecord
        <5>3. CASE q = r /\ requests[r] = None
          <6>1. requests[s].id \in drawn
            BY <4>1 DEF AccessInv, Fresh, At
          <6>. QED
            BY <1>2, <4>1, <4>2, <5>3, <6>1, Beginning DEF Known
        <5>. QED
          BY <5>1, <5>2, <5>3
      <4>. QED
        BY <4>1, <4>2, <4>3, <4>4 DEF Exists
    <3>. QED
      BY <3>1, <3>2
  <2>. QED
    BY <2>2, <2>3, <2>4 DEF Fresh
<1>. QED
  BY <1>1, <1>2 DEF Next, Arrives, vars

LEMMA AllowedStep == AccessInv /\ [Next]_vars => Allowed'
<1>. SUFFICES ASSUME AccessInv, [Next]_vars, NEW s \in Request, requests'[s] # None,
                     Exists(requests[s].id)'
              PROVE  /\ requests'[s].step = "status" =>
                           \/ bots'[requests'[s].id].owner = requests'[s].user
                           \/ requests'[s].user \in Admin
                     /\ requests'[s].step = "delete" /\ requests'[s].bot = None =>
                           bots'[requests'[s].id].owner # requests'[s].user
  BY DEF Allowed
<1>0. TypeOK
  BY DEF AccessInv
<1>1. CASE UNCHANGED <<bots, requests>>
  BY <1>1 DEF AccessInv, Allowed, Exists
<1>2. ASSUME NEW r \in Request, Handler(r), s # r
      PROVE  /\ requests'[s].step = "status" =>
                   \/ bots'[requests'[s].id].owner = requests'[s].user
                   \/ requests'[s].user \in Admin
             /\ requests'[s].step = "delete" /\ requests'[s].bot = None =>
                   bots'[requests'[s].id].owner # requests'[s].user
  <2>1. requests'[s] = requests[s] /\ requests[s] # None /\ requests[s].id \in Id
    BY <1>0, <1>2, OthersStay, PendingType
  <2>2. Exists(requests[s].id) /\ bots'[requests[s].id].owner = bots[requests[s].id].owner
    <3>1. CASE bots'[requests[s].id] = bots[requests[s].id]
      BY <2>1, <3>1 DEF Exists
    <3>2. CASE bots'[requests[s].id] # bots[requests[s].id]
      <4>1. requests[r].id = requests[s].id /\ requests[r] # None
        BY <1>2, <2>1, <3>2, RowChanges
      <4>2. requests[r].step # "insert"
        BY <1>2, <2>1, <4>1 DEF AccessInv, Fresh, At
      <4>. QED
        BY <1>2, <2>1, <3>2, <4>2, RowChanges DEF Exists
    <3>. QED
      BY <3>1, <3>2
  <2>. QED
    BY <2>1, <2>2 DEF AccessInv, Allowed
<1>3. CASE Handler(s) /\ requests[s] # None
  <2>1. requests'[s].bot = requests[s].bot /\ requests'[s].step # "status"
        /\ (requests'[s].step = "delete" => requests[s].step = "unset" \/ requests[s].step = "delete")
    BY <1>0, <1>3, OwnRecord
  <2>2. requests'[s].step = "delete" => requests[s].bot # None
    BY <1>0, <1>3, OwnRecord DEF AccessInv, Bots
  <2>. QED
    BY <2>1, <2>2
<1>4. CASE Handler(s) /\ requests[s] = None
  BY <1>4, Beginning DEF Exists, Owns
<1>. QED
  BY <1>1, <1>2, <1>3, <1>4 DEF Next, Arrives, vars

LEMMA AccessStep == AccessInv /\ [Next]_vars => AccessInv'
BY TypeStep, BotsStep, UniqueStep, FreshStep, AllowedStep DEF AccessInv

---------------------------------------------------------------------------
(* Bots that are worked on.                                                *)

LEMMA HistoryGrows ==
    ASSUME TypeOK, NEW r \in Request, Handler(r)
    PROVE  disturbed \subseteq disturbed' /\ unanswered \subseteq unanswered'
BY DEF Handler, Register, Remove, UpdateStatus, Insert, SetWebhook, DeleteWebhook,
   Delete, WriteStatus, Abandon, telegram, Overlaps, Executed, Refused, NoAnswer

\* The row an insertion that goes on has written
LEMMA Inserted ==
    ASSUME AccessInv, NEW r \in Request, Insert(r), requests'[r] # None
    PROVE  /\ Exists(requests[r].id)' /\ bots'[requests[r].id].bot = requests[r].bot
           /\ bots'[requests[r].id].owner = requests[r].user
           /\ disturbed' = Overlaps(r, requests[r].bot)
<1>1. /\ At(r, "insert")
      /\ bots' = [bots EXCEPT ![requests[r].id] = [bot |-> requests[r].bot,
                      owner |-> requests[r].user, enabled |-> TRUE]]
      /\ disturbed' = Overlaps(r, requests[r].bot)
  BY DEF Insert, Ends, AccessInv, TypeOK
<1>2. requests[r].id \in Id /\ ~ Exists(requests[r].id)
  BY <1>1, PendingType DEF AccessInv, Fresh, At
<1>3. bots'[requests[r].id] # bots[requests[r].id]
  <2>1. requests[r].bot \in Telegram /\ requests[r].user \in User
    BY <1>1, PendingType DEF AccessInv, Bots, At
  <2>2. bots'[requests[r].id] = [bot |-> requests[r].bot, owner |-> requests[r].user, enabled |-> TRUE]
    BY <1>1, <1>2 DEF AccessInv, TypeOK
  <2>3. bots'[requests[r].id] \in Row
    BY <2>1, <2>2 DEF Row
  <2>. QED
    BY <1>2, <2>3, NoneAssumption DEF Exists
<1>4. Handler(r)
  BY DEF Handler
<1>5. requests'[r].id = requests[r].id
  BY <1>1, <1>4, OwnRecord DEF AccessInv, At
<1>. QED
  BY <1>1, <1>2, <1>3, <1>4, <1>5, RowChanges DEF At, Exists

LEMMA WorkedOnStep == AccessInv /\ WorkInv /\ [Next]_vars => WorkedOn'
<1>. SUFFICES ASSUME AccessInv, WorkInv, [Next]_vars, NEW s \in Request,
                     requests'[s] # None, requests'[s].bot # None, requests'[s].step # "insert"
              PROVE  /\ Exists(requests[s].id)' => bots'[requests'[s].id].bot = requests'[s].bot
                     /\ requests'[s].bot \notin disturbed' =>
                           /\ Exists(requests[s].id)'
                           /\ bots'[requests'[s].id].owner = requests'[s].user
  BY DEF WorkedOn
<1>0. TypeOK
  BY DEF AccessInv
<1>1. CASE UNCHANGED <<bots, requests, disturbed>>
  BY <1>1 DEF WorkInv, WorkedOn, Exists
<1>2. ASSUME NEW r \in Request, Handler(r), s # r
      PROVE  /\ Exists(requests[s].id)' => bots'[requests'[s].id].bot = requests'[s].bot
             /\ requests'[s].bot \notin disturbed' =>
                   /\ Exists(requests[s].id)'
                   /\ bots'[requests'[s].id].owner = requests'[s].user
  <2>. DEFINE i == requests[s].id
  <2>1. requests'[s] = requests[s] /\ requests[s] # None /\ i \in Id
    BY <1>0, <1>2, OthersStay, PendingType
  <2>2. /\ Exists(i) => bots[i].bot = requests[s].bot
        /\ requests[s].bot \notin disturbed => Exists(i) /\ bots[i].owner = requests[s].user
    BY <2>1 DEF WorkInv, WorkedOn
  <2>3. disturbed \subseteq disturbed'
    BY <1>0, <1>2, HistoryGrows
  <2>4. CASE bots'[i] = bots[i]
    BY <2>1, <2>2, <2>3, <2>4 DEF Exists
  <2>5. CASE bots'[i] # bots[i]
    <3>1. requests[r] # None /\ requests[r].id = i
      BY <1>2, <2>1, <2>5, RowChanges
    <3>2. requests[r].step # "insert"
      BY <1>2, <2>1, <3>1 DEF AccessInv, Fresh, At
    <3>3. CASE WriteStatus(r) /\ Exists(i) /\ Exists(i)' /\ bots'[i].bot = bots[i].bot
               /\ bots'[i].owner = bots[i].owner
      BY <2>1, <2>2, <2>3, <3>3
    <3>4. CASE /\ requests[r].step \in {"delete", "rollback"} /\ Exists(i) /\ ~ Exists(i)'
               /\ bots[i].owner = requests[r].user
      <4>1. requests[r].bot # None
        BY <3>1, <3>4 DEF AccessInv, Allowed, Bots
      <4>2. requests[r].bot = requests[s].bot
        BY <2>2, <3>1, <3>2, <3>4, <4>1 DEF WorkInv, WorkedOn
      <4>3. requests[s].bot \in Telegram
        BY <1>0, <2>1, PendingType
      <4>4. Working(r, requests[s].bot) /\ Working(s, requests[s].bot)
        BY <2>1, <3>1, <3>2, <4>2 DEF Working, At
      <4>5. requests[s].bot \in disturbed
        BY <1>2, <4>3, <4>4 DEF WorkInv, Alone
      <4>. QED
        BY <2>1, <2>3, <3>4, <4>5
    <3>. QED
      BY <1>2, <2>1, <2>5, <3>2, <3>3, <3>4, RowChanges
  <2>. QED
    BY <2>4, <2>5
<1>3. CASE Handler(s) /\ requests[s] # None
  <2>1. requests'[s].id = requests[s].id /\ requests'[s].bot = requests[s].bot
        /\ requests'[s].user = requests[s].user
    BY <1>0, <1>3, OwnRecord
  <2>2. disturbed \subseteq disturbed'
    BY <1>0, <1>3, HistoryGrows
  <2>3. CASE Insert(s)
    BY <2>1, <2>3, Inserted
  <2>4. CASE (SetWebhook(s) \/ DeleteWebhook(s)) /\ requests[s].step # "insert"
    BY <1>3, <2>1, <2>2, <2>4 DEF WorkInv, WorkedOn, Exists, SetWebhook, DeleteWebhook
  <2>. QED
    BY <1>0, <1>3, <2>3, <2>4, OwnRecord
<1>4. CASE Handler(s) /\ requests[s] = None
  BY <1>4, Beginning DEF Exists, Owns
<1>5. CASE Arrives
  BY <1>5 DEF Arrives, WorkInv, WorkedOn, Exists
<1>. QED
  BY <1>1, <1>2, <1>3, <1>4, <1>5 DEF Next, vars

LEMMA AloneStep == AccessInv /\ WorkInv /\ [Next]_vars => Alone'
<1>. SUFFICES ASSUME AccessInv, WorkInv, [Next]_vars, NEW t \in Telegram, t \notin disturbed',
                     NEW q \in Request, NEW s \in Request, Working(q, t)', Working(s, t)', q # s
              PROVE  FALSE
  BY DEF Alone
<1>0. TypeOK
  BY DEF AccessInv
<1>1. CASE UNCHANGED <<requests, disturbed>>
  BY <1>1 DEF WorkInv, Alone, Working, At
<1>2. ASSUME NEW r \in Request, Handler(r) PROVE FALSE
  <2>1. t \notin disturbed
    BY <1>0, <1>2, HistoryGrows
  <2>2. ASSUME NEW p \in Request, p # r, Working(p, t)' PROVE Working(p, t)
    BY <1>0, <1>2, <2>2, OthersStay DEF Working, At
  <2>3. ASSUME Working(r, t)', NEW p \in Request, p # r, Working(p, t) PROVE FALSE
    <3>1. CASE requests[r] # None /\ requests[r].step # "insert"
      <4>1. Working(r, t)
        BY <1>0, <1>2, <2>3, <3>1, OwnRecord DEF Working, At
      <4>. QED
        BY <2>1, <2>3, <4>1 DEF WorkInv, Alone
    <3>2. CASE requests[r] # None /\ requests[r].step = "insert"
      <4>1. Insert(r) /\ requests[r].bot = t /\ requests'[r] # None
        BY <1>0, <1>2, <2>3, <3>2, OwnRecord DEF Working
      <4>. QED
        BY <2>3, <4>1, Inserted DEF Overlaps
    <3>3. CASE requests[r] = None
      <4>1. disturbed' = Overlaps(r, t)
        BY <1>2, <2>3, <3>3, Beginning, NoneAssumption DEF Working, At
      <4>. QED
        BY <2>3, <4>1 DEF Overlaps
    <3>. QED
      BY <3>1, <3>2, <3>3
  <2>. QED
    BY <2>1, <2>2, <2>3 DEF WorkInv, Alone
<1>. QED
  BY <1>1, <1>2 DEF Next, Arrives, vars

LEMMA SurprisesStep == AccessInv /\ WorkInv /\ [Next]_vars => Surprises'
<1>. SUFFICES ASSUME AccessInv, WorkInv, [Next]_vars PROVE Surprises'
  OBVIOUS
<1>0. TypeOK
  BY DEF AccessInv
<1>1. CASE UNCHANGED vars
  BY <1>1 DEF WorkInv, Surprises, At, vars, telegram
<1>2. CASE Arrives
  BY <1>2 DEF WorkInv, Surprises, At, Arrives
<1>3. ASSUME NEW r \in Request, Handler(r) PROVE Surprises'
  <2>1. disturbed \subseteq disturbed' /\ unanswered \subseteq unanswered'
    BY <1>0, <1>3, HistoryGrows
  <2>2. ASSUME NEW c \in late' PROVE c.bot \in disturbed'
    <3>1. CASE c \in late
      BY <2>1, <3>1 DEF WorkInv, Surprises
    <3>2. CASE c \notin late
      <4>1. \E t \in Telegram \cup {None}, i \in Id \cup {None} : NoAnswer(t, i)
        BY <1>0, <1>3, <2>2, <3>2, PendingType DEF Handler, Register, Remove, UpdateStatus, Insert,
           SetWebhook, DeleteWebhook, Delete, WriteStatus, Abandon, telegram, Refused, At
      <4>. QED
        BY <2>2, <3>2, <4>1 DEF NoAnswer, Executed
    <3>. QED
      BY <3>1, <3>2
  <2>3. ASSUME NEW s \in Request, At(s, "rollback")' PROVE requests'[s].bot \in unanswered'
    <3>1. CASE s # r
      BY <1>0, <1>3, <2>1, <2>3, <3>1, OthersStay DEF WorkInv, Surprises, At
    <3>2. CASE s = r /\ requests[r] = None
      BY <1>3, <2>3, <3>2, Beginning DEF At
    <3>3. CASE s = r /\ requests[r] # None
      <4>1. SetWebhook(r) /\ requests'[r].bot = requests[r].bot /\ requests'[r] # None
        BY <1>0, <1>3, <2>3, <3>3, OwnRecord DEF At
      <4>2. Refused(requests[r].bot) \/ NoAnswer(requests[r].bot, requests[r].id)
        BY <4>1, <1>0 DEF SetWebhook, Ends, TypeOK
      <4>. QED
        BY <3>3, <4>1, <4>2 DEF Refused, NoAnswer
    <3>. QED
      BY <3>1, <3>2, <3>3
  <2>. QED
    BY <2>2, <2>3 DEF Surprises
<1>. QED
  BY <1>1, <1>2, <1>3 DEF Next

LEMMA WorkStep == AccessInv /\ WorkInv /\ [Next]_vars => WorkInv'
BY WorkedOnStep, AloneStep, SurprisesStep DEF WorkInv

---------------------------------------------------------------------------
(* Rows and webhooks.                                                      *)

\* Who changes a webhook, and to what when Telegram answered.
LEMMA WebhookChanges ==
    ASSUME AccessInv, NEW r \in Request, Handler(r), NEW t \in Telegram, webhook'[t] # webhook[t]
    PROVE  /\ Working(r, t) /\ requests[r].bot = t
           /\ t \notin unanswered' =>
                 \/ SetWebhook(r) /\ requests[r].step = "set" /\ webhook'[t] = requests[r].id
                 \/ DeleteWebhook(r) /\ webhook'[t] = None
<1>1. CASE SetWebhook(r)
  <2>1. At(r, "set")
    BY <1>1 DEF SetWebhook
  <2>2. requests[r].bot = t
    BY <1>1 DEF SetWebhook, Executed, Refused, NoAnswer, AccessInv, TypeOK
  <2>3. t \notin unanswered' => Executed(t, requests[r].id)
    BY <1>1, <2>2 DEF SetWebhook, Refused, NoAnswer
  <2>. QED
    BY <1>1, <2>1, <2>2, <2>3 DEF Working, At, Executed, AccessInv, TypeOK
<1>2. CASE DeleteWebhook(r)
  <2>1. At(r, "unset")
    BY <1>2 DEF DeleteWebhook
  <2>2. requests[r].bot = t
    BY <1>2 DEF DeleteWebhook, Executed, Refused, NoAnswer, AccessInv, TypeOK
  <2>3. t \notin unanswered' => Executed(t, None)
    BY <1>2, <2>2 DEF DeleteWebhook, Refused, NoAnswer
  <2>. QED
    BY <1>2, <2>1, <2>2, <2>3 DEF Working, At, Executed, AccessInv, TypeOK
<1>. QED
  BY <1>1, <1>2 DEF Handler, Register, Remove, UpdateStatus, Insert, Delete, WriteStatus,
     Abandon, telegram

LEMMA ServedStep == AccessInv /\ WorkInv /\ RegisteredBotIsServed /\ [Next]_vars => RegisteredBotIsServed'
<1>. SUFFICES ASSUME AccessInv, WorkInv, RegisteredBotIsServed, [Next]_vars,
                     NEW i \in Id, Exists(i)', NEW t, t = bots'[i].bot,
                     t \notin disturbed', \A r \in Request : ~ Working(r, t)'
              PROVE  webhook'[t] = i
  BY DEF RegisteredBotIsServed, Quiet
<1>0. TypeOK /\ TypeOK'
  BY AccessStep DEF AccessInv
<1>t. t \in Telegram
  BY <1>0 DEF TypeOK, Exists, Row
<1>1. CASE UNCHANGED vars
  BY <1>1 DEF RegisteredBotIsServed, Quiet, Working, At, Exists, vars, telegram
<1>2. CASE Arrives
  <2>1. webhook'[t] = webhook[t]
    BY <1>0, <1>2 DEF Arrives, Executed, WorkInv, Surprises, TypeOK
  <2>. QED
    BY <1>2, <2>1 DEF Arrives, RegisteredBotIsServed, Quiet, Working, At, Exists
<1>3. ASSUME NEW r \in Request, Handler(r) PROVE webhook'[t] = i
  <2>1. t \notin disturbed
    BY <1>0, <1>3, HistoryGrows
  <2>2. ASSUME NEW s \in Request, s # r PROVE ~ Working(s, t)
    BY <1>0, <1>3, <2>2, OthersStay DEF Working, At
  <2>3. CASE ~ Working(r, t)
    <3>1. Exists(i) /\ bots[i].bot = t
      <4>1. CASE bots'[i] = bots[i]
        BY <4>1 DEF Exists
      <4>2. CASE bots'[i] # bots[i]
        <5>1. CASE Insert(r) /\ requests[r].step = "insert" /\ requests[r] # None
                   /\ bots'[i].bot = requests[r].bot /\ ~ Exists(i)
          <6>1. requests'[r] # None
            <7>1. Goto(r, "set")
              BY <4>2, <5>1 DEF Insert
            <7>. QED
              BY <1>0, <5>1, <7>1, PendingType, NoneAssumption DEF Goto, TypeOK
          <6>2. Working(r, t)'
            BY <1>0, <1>3, <5>1, <6>1, OwnRecord DEF Working, At
          <6>. QED
            BY <6>2
        <5>. QED
          BY <1>3, <4>2, <5>1, RowChanges
      <4>. QED
        BY <4>1, <4>2
    <3>2. webhook[t] = i
      BY <2>1, <2>2, <2>3, <3>1 DEF RegisteredBotIsServed, Quiet
    <3>. QED
      BY <1>3, <1>t, <2>3, <3>2, WebhookChanges
  <2>4. CASE Working(r, t)
    <3>1. /\ requests[r] # None /\ requests[r].bot = t /\ t # None /\ requests[r].step # "insert"
          /\ requests[r].id \in Id
      BY <1>0, <1>t, <2>4, PendingType, NoneAssumption DEF Working, At
    <3>2. /\ Exists(requests[r].id) /\ bots[requests[r].id].bot = t
          /\ bots[requests[r].id].owner = requests[r].user
      BY <2>1, <3>1 DEF WorkInv, WorkedOn
    <3>3. requests'[r] = None
      BY <1>0, <1>3, <3>1, OwnRecord DEF Working, At
    <3>4. CASE SetWebhook(r)
      <4>1. Executed(t, requests[r].id) /\ UNCHANGED bots
        <5>1. requests[r] \in Pending
          BY <1>0, <3>1, PendingType
        <5>2. ~ Goto(r, "rollback") /\ ~ Retries(r)
          BY <1>0, <3>1, <3>3, PendingType, NoneAssumption DEF Goto, Retries, TypeOK
        <5>. QED
          BY <3>1, <3>4, <5>2 DEF SetWebhook
      <4>2. i = requests[r].id
        BY <3>1, <3>2, <4>1 DEF AccessInv, Unique, Exists
      <4>. QED
        BY <1>0, <1>t, <4>1, <4>2 DEF Executed, TypeOK
    <3>5. CASE Delete(r)
      <4>1. bots' = [bots EXCEPT ![requests[r].id] = None]
        BY <3>2, <3>5 DEF Delete, WithoutRow
      <4>2. i # requests[r].id
        BY <1>0, <3>1, <4>1 DEF Exists, TypeOK
      <4>. QED
        BY <1>0, <3>1, <3>2, <4>1, <4>2 DEF AccessInv, Unique, Exists, TypeOK
    <3>6. CASE Abandon(r)
      BY <3>1, <3>6 DEF Abandon, At
    <3>7. CASE DeleteWebhook(r)
      BY <1>0, <3>1, <3>3, <3>7, PendingType, NoneAssumption DEF DeleteWebhook, Goto, Retries, TypeOK
    <3>8. CASE WriteStatus(r)
      BY <3>1, <3>8 DEF WriteStatus, At, AccessInv, Bots
    <3>. QED
      BY <1>3, <3>1, <3>4, <3>5, <3>6, <3>7, <3>8 DEF Handler, Register, Remove, UpdateStatus, Insert, At
  <2>. QED
    BY <2>3, <2>4
<1>. QED
  BY <1>1, <1>2, <1>3 DEF Next

LEMMA NamedStep == AccessInv /\ WorkInv /\ Named /\ [Next]_vars => Named'
<1>. SUFFICES ASSUME AccessInv, WorkInv, Named, [Next]_vars,
                     NEW t \in Telegram, t \notin disturbed', t \notin unanswered'
              PROVE  /\ webhook'[t] # None =>
                           /\ Exists(webhook[t])'
                           /\ bots'[webhook'[t]].bot = t
                     /\ \A s \in Request : At(s, "delete")' /\ requests'[s].bot = t => webhook'[t] = None
  BY DEF Named
<1>0. TypeOK /\ t # None
  BY NoneAssumption DEF AccessInv
<1>1. CASE UNCHANGED vars
  BY <1>1 DEF Named, At, Exists, vars, telegram
<1>2. CASE Arrives
  <2>1. webhook'[t] = webhook[t]
    BY <1>0, <1>2 DEF Arrives, Executed, WorkInv, Surprises, TypeOK
  <2>. QED
    BY <1>2, <2>1 DEF Arrives, Named, At, Exists
<1>3. ASSUME NEW r \in Request, Handler(r)
      PROVE  /\ webhook'[t] # None => Exists(webhook[t])' /\ bots'[webhook'[t]].bot = t
             /\ \A s \in Request : At(s, "delete")' /\ requests'[s].bot = t => webhook'[t] = None
  <2>1. t \notin disturbed /\ t \notin unanswered
    BY <1>0, <1>3, HistoryGrows
  <2>2. webhook[t] # None => webhook[t] \in Id /\ Exists(webhook[t]) /\ bots[webhook[t]].bot = t
    BY <1>0, <2>1 DEF Named, TypeOK
  <2>3. ASSUME webhook'[t] # None PROVE Exists(webhook[t])' /\ bots'[webhook'[t]].bot = t
    <3>1. CASE webhook'[t] # webhook[t]
      <4>1. /\ SetWebhook(r) /\ requests[r].step = "set" /\ webhook'[t] = requests[r].id
            /\ Working(r, t) /\ requests[r].bot = t
        BY <1>3, <2>3, <3>1, WebhookChanges
      <4>2. Exists(requests[r].id) /\ bots[requests[r].id].bot = t
        BY <1>0, <2>1, <4>1 DEF WorkInv, WorkedOn, Working
      <4>. QED
        BY <4>1, <4>2 DEF SetWebhook, Exists
    <3>2. CASE webhook'[t] = webhook[t] /\ bots'[webhook[t]] = bots[webhook[t]]
      BY <2>2, <2>3, <3>2 DEF Exists
    <3>3. CASE webhook'[t] = webhook[t] /\ bots'[webhook[t]] # bots[webhook[t]]
      <4>. DEFINE i == webhook[t]
      <4>1. i \in Id /\ Exists(i) /\ bots[i].bot = t /\ requests[r] # None /\ requests[r].id = i
        BY <1>3, <2>2, <2>3, <3>3, RowChanges
      <4>2. CASE Exists(i)' /\ bots'[i].bot = bots[i].bot
        BY <3>3, <4>1, <4>2 DEF Exists
      <4>3. CASE requests[r].step \in {"delete", "rollback"} /\ bots[i].owner = requests[r].user
        <5>1. requests[r].bot # None
          BY <4>1, <4>3 DEF AccessInv, Allowed, Bots
        <5>2. requests[r].bot = t
          BY <4>1, <4>3, <5>1 DEF WorkInv, WorkedOn
        <5>. QED
          BY <2>1, <2>3, <3>3, <4>1, <4>3, <5>2 DEF WorkInv, Surprises, Named, At
      <4>. QED
        BY <1>3, <3>3, <4>1, <4>2, <4>3, RowChanges
    <3>. QED
      BY <3>1, <3>2, <3>3
  <2>4. ASSUME NEW s \in Request, At(s, "delete")', requests'[s].bot = t PROVE webhook'[t] = None
    <3>1. CASE s # r
      <4>1. At(s, "delete") /\ requests[s].bot = t
        BY <1>0, <1>3, <2>4, <3>1, OthersStay DEF At
      <4>2. webhook[t] = None /\ Working(s, t)
        BY <2>1, <4>1 DEF Named, Working, At
      <4>3. ~ Working(r, t)
        BY <2>1, <3>1, <4>2 DEF WorkInv, Alone
      <4>. QED
        BY <1>3, <4>2, <4>3, WebhookChanges
    <3>2. CASE s = r /\ requests[r] = None
      BY <1>0, <1>3, <2>4, <3>2, Beginning DEF At
    <3>3. CASE s = r /\ requests[r] # None
      <4>1. DeleteWebhook(r) /\ requests[r].bot = t
        BY <1>0, <1>3, <2>4, <3>3, OwnRecord DEF At
      <4>2. Executed(t, None)
        BY <4>1 DEF DeleteWebhook, Refused, NoAnswer
      <4>. QED
        BY <1>0, <4>2 DEF Executed, TypeOK
    <3>. QED
      BY <3>1, <3>2, <3>3
  <2>. QED
    BY <2>3, <2>4
<1>. QED
  BY <1>1, <1>2, <1>3 DEF Next

LEMMA InvInit == Init => IInv
BY NoneAssumption DEF Init, IInv, AccessInv, TypeOK, Unique, Fresh, Bots, Allowed, WorkInv, WorkedOn,
   Alone, Surprises, RegisteredBotIsServed, Named, Exists, At, Working, Quiet

LEMMA InvStep == IInv /\ [Next]_vars => IInv'
BY AccessStep, WorkStep, ServedStep, NamedStep DEF IInv

LEMMA Invariance == Spec => []IInv
BY InvInit, InvStep, PTL DEF Spec

---------------------------------------------------------------------------
(* The theorems.                                                           *)

\* Rows, webhooks and requests keep their types.
THEOREM TypeCorrect == Spec => []TypeOK
BY Invariance, PTL DEF IInv, AccessInv

\* For any number of requests, users and tries: a registered bot that no
\* request works on and that was not disturbed is the one its webhook names.
THEOREM RegisteredBotsAreServed == Spec => []RegisteredBotIsServed
BY Invariance, PTL DEF IInv

\* And no webhook outlives its row while Telegram answers.
THEOREM WebhooksNameRows == Spec => []NoStrayWebhook
<1>1. IInv => NoStrayWebhook
  BY DEF IInv, Named, NoStrayWebhook, Quiet
<1>. QED
  BY <1>1, Invariance, PTL

\* One step of OwnerDecides
DecidedByOwner(i) ==
    Exists(i) /\ bots'[i] # bots[i] =>
      \E r \in Request :
         /\ requests[r] # None /\ requests'[r] = None /\ requests[r].id = i
         /\ \/ requests[r].user = bots[i].owner
            \/ requests[r].user \in Admin /\ bots'[i] # None

\* Only its owner's own request deletes a row, and only the owner's or an
\* admin's changes it, however stale what the request read.
THEOREM OwnersDecide == Spec => OwnerDecides
<1>1. ASSUME IInv, Next, NEW i \in Id PROVE DecidedByOwner(i)
  <2>0. AccessInv /\ TypeOK
    BY <1>1 DEF IInv, AccessInv
  <2>1. ASSUME NEW r \in Request, Handler(r), Exists(i), bots'[i] # bots[i]
        PROVE  /\ requests[r] # None /\ requests'[r] = None /\ requests[r].id = i
               /\ \/ requests[r].user = bots[i].owner
                  \/ requests[r].user \in Admin /\ bots'[i] # None
    <3>1. requests[r] # None /\ requests[r].id = i
      BY <2>0, <2>1, RowChanges
    <3>2. CASE Delete(r) /\ bots[i].owner = requests[r].user
      BY <2>0, <3>1, <3>2 DEF Delete, Ends, TypeOK
    <3>3. CASE WriteStatus(r) /\ requests[r].step = "status" /\ Exists(i)'
      BY <2>0, <2>1, <3>1, <3>3 DEF WriteStatus, Ends, TypeOK, AccessInv, Allowed, Exists
    <3>. QED
      BY <2>0, <2>1, <3>1, <3>2, <3>3, RowChanges
  <2>2. CASE Arrives
    BY <2>2 DEF Arrives, DecidedByOwner
  <2>. QED
    BY <1>1, <2>1, <2>2 DEF Next, DecidedByOwner
<1>2. IInv /\ [Next]_vars =>
        [\A i \in Id : Exists(i) /\ bots'[i] # bots[i] =>
            \E r \in Request :
               /\ requests[r] # None /\ requests'[r] = None /\ requests[r].id = i
               /\ \/ requests[r].user = bots[i].owner
                  \/ requests[r].user \in Admin /\ bots'[i] # None]_vars
  BY <1>1 DEF DecidedByOwner
<1>. QED
  BY <1>2, Invariance, PTL DEF Spec, OwnerDecides
============================================================================
