---------------------------- MODULE RoomAccess ----------------------------
(***************************************************************************)
(* How people get into a room: pins, invite links and join tickets, which  *)
(* the game service (create_room, regenerate_invite, join_room) and the    *)
(* join service (issue_join_ticket_by_pin, ..._by_invite) keep in Redis.   *)
(*                                                                         *)
(* Each Redis call is a step of its own.  RedisClient gives a call up      *)
(* after command_timeout and repeats it: the reply may have been lost      *)
(* though Redis executed the command, or the command may still be on its   *)
(* way on a connection nobody listens to and be executed later.  The keys  *)
(* pin:, invite:, room_invite_token: and ticket: are the pin, the invite   *)
(* token, the room and the ticket themselves.                              *)
(***************************************************************************)
EXTENDS Naturals, FiniteSets

CONSTANTS
    Client,       \* requests that may be in flight at a time
    Room,         \* room ids
    Pin,          \* six-character pins
    Token,        \* invite tokens
    Ticket,       \* join tickets
    MaxRetries,   \* max_retries of RedisClient
    RepliesLost,  \* whether a call to Redis may time out
    CommandsLate, \* whether a timed-out command may be executed later
    KeysExpire,   \* whether the TTL of pins and invites may run out
    Operations,   \* the handlers a run looks at
    MaxRequests,  \* bound: requests of one behaviour
    None          \* nil, Option::None

Key == Pin \cup Token \cup Room \cup Ticket

ASSUME KindsAssumption ==
    /\ None \notin Key
    /\ Pin \cap Token = {} /\ Pin \cap Room = {} /\ Pin \cap Ticket = {}
    /\ Token \cap Room = {} /\ Token \cap Ticket = {} /\ Room \cap Ticket = {}
ASSUME BoundsAssumption ==
    /\ MaxRetries \in Nat /\ MaxRequests \in Nat
    /\ {RepliesLost, CommandsLate, KeysExpire} \subseteq BOOLEAN
    /\ Operations \subseteq {"create", "regenerate", "issue", "join"}

VARIABLES
    redis,    \* the keys, None for one that does not exist
    late,     \* commands given up that Redis will still execute
    rooms,    \* GameServiceImpl.rooms
    roomPins, \* GameServiceImpl.room_pins
    step,     \* where each client's request is
    req,      \* the locals of that request
    requests, \* requests so far
    used,     \* ids drawn so far: they are random and never drawn twice
    given,    \* history: tickets answered to clients
    old,      \* tickets issued more than TICKET_TTL ago
    admitted, \* history: players admitted with each ticket
    revoked,  \* history: tokens whose deletion was confirmed
    tidy,     \* history: rooms whose invites were written one request at a
              \* time and without a failure
    faults    \* history: "lost" once a call timed out, "overdue" once a
              \* command given up was executed

game == <<rooms, roomPins>>
history == <<admitted, revoked, tidy>>
vars == <<redis, late, game, step, req, requests, used, given, old, history, faults>>

\* from: the pin or invite a room is sought with, for a new room the pin
\* tried; previous: the token a new one replaces; aged: the ticket was old
\* when the request began.
Request == [op       : {"create", "regenerate", "issue", "join"},
            room     : Room \cup {None},
            from     : Pin \cup Token \cup {None},
            token    : Token \cup {None},
            previous : Token \cup {None},
            ticket   : Ticket \cup {None},
            aged     : BOOLEAN,
            attempt  : 0 .. MaxRetries]
NoRequest == [op |-> "join", room |-> None, from |-> None, token |-> None,
              previous |-> None, ticket |-> None, aged |-> FALSE, attempt |-> 0]
\* Steps that wait for Redis, and the others.
Calling == {"reservePin", "readToken", "writeInvite", "writeToken", "deleteOld",
            "lookup", "writeTicket", "consume"}
Step == Calling \cup {"idle", "insert", "enter"}

Init ==
    /\ redis = [k \in Key |-> None]
    /\ late = {}
    /\ rooms = {} /\ roomPins = [r \in Room |-> None]
    /\ step = [c \in Client |-> "idle"]
    /\ req = [c \in Client |-> NoRequest]
    /\ requests = 0
    /\ used = {} /\ given = {} /\ old = {}
    /\ admitted = [k \in Ticket |-> 0]
    /\ revoked = {} /\ tidy = Room /\ faults = {}

\* Mutant: ids may repeat.
AnyId(S) == S
\* Ids are drawn at random.
Fresh(S) == S \ used

\* Requests that are writing the invites of r.
Writers(r) == {c \in Client : /\ step[c] \in {"reservePin", "readToken", "writeInvite",
                                              "writeToken", "deleteOld", "insert"}
                              /\ req[c].room = r}

Goto(c, s, r) == step' = [step EXCEPT ![c] = s] /\ req' = [req EXCEPT ![c] = r]
Finish(c) == Goto(c, "idle", NoRequest)
\* The next Redis call of the handler, with all its attempts before it.
Proceed(c, s, r) == Goto(c, s, [r EXCEPT !.attempt = 0])
Begin(c, op, s, r) ==
    /\ op \in Operations
    /\ step[c] = "idle"
    /\ requests < MaxRequests
    /\ requests' = requests + 1
    /\ Goto(c, s, [r EXCEPT !.op = op])
    /\ UNCHANGED <<redis, late, game, given, old, admitted, revoked, faults>>

---------------------------------------------------------------------------
(* The requests begin.                                                     *)

CreateRoom(c) ==
    \E r \in Fresh(Room), p \in Pin, t \in Fresh(Token) :
        /\ Begin(c, "create", "reservePin",
                 [NoRequest EXCEPT !.room = r, !.from = p, !.token = t])
        /\ used' = used \cup {r, t}
        /\ UNCHANGED tidy

\* Only the owner of a room the service knows gets as far.
RegenerateInvite(c) ==
    \E r \in rooms :
        /\ Begin(c, "regenerate", "readToken", [NoRequest EXCEPT !.room = r])
        /\ tidy' = IF Writers(r) = {} THEN tidy ELSE tidy \ {r}
        /\ UNCHANGED used

\* issue_join_ticket_by_pin, issue_join_ticket_by_invite
IssueTicket(c) ==
    \E from \in Pin \cup (Token \cap used) :
        /\ Begin(c, "issue", "lookup", [NoRequest EXCEPT !.from = from])
        /\ UNCHANGED <<used, tidy>>

JoinRoom(c) ==
    \E k \in given :
        /\ Begin(c, "join", "consume", [NoRequest EXCEPT !.ticket = k, !.aged = k \in old])
        /\ UNCHANGED <<used, tidy>>

---------------------------------------------------------------------------
(* RedisClient.                                                            *)

Command(c) ==
    LET r == req[c]
    IN  CASE step[c] = "reservePin"  -> [op |-> "SETNX", key |-> r.from, value |-> r.room]
          [] step[c] = "readToken"   -> [op |-> "GET", key |-> r.room, value |-> None]
          [] step[c] = "writeInvite" -> [op |-> "SET", key |-> r.token, value |-> r.room]
          [] step[c] = "writeToken"  -> [op |-> "SET", key |-> r.room, value |-> r.token]
          [] step[c] = "deleteOld"   -> [op |-> "DEL", key |-> r.previous, value |-> None]
          [] step[c] = "lookup"      -> [op |-> "GET", key |-> r.from, value |-> None]
          [] step[c] = "writeTicket" -> [op |-> "SET", key |-> r.ticket, value |-> r.room]
          [] step[c] = "consume"     -> [op |-> "CONSUME", key |-> r.ticket, value |-> None]

\* Mutant: SET without NX.
OverwritesKey(cmd) == cmd.op \in {"SET", "SETNX", "DEL", "CONSUME"}
\* Mutant: the ticket is read and left.
KeepsTicket(cmd) == \/ cmd.op \in {"SET", "DEL"}
                    \/ cmd.op = "SETNX" /\ redis[cmd.key] = None
\* The command changes its key.
Writes(cmd) == \/ cmd.op \in {"SET", "DEL", "CONSUME"}
               \/ cmd.op = "SETNX" /\ redis[cmd.key] = None
Execute(cmd) == redis' = IF Writes(cmd) THEN [redis EXCEPT ![cmd.key] = cmd.value] ELSE redis

Fail(c) ==
    /\ Finish(c)
    /\ tidy' = IF c \in Writers(req[c].room) THEN tidy \ {req[c].room} ELSE tidy

\* Mutant: one attempt too many.
OneMoreTry(c) == req[c].attempt <= MaxRetries
MayRetry(c) == req[c].attempt < MaxRetries

\* One attempt timed out.
Again(c) ==
    /\ \/ /\ MayRetry(c)
          /\ req' = [req EXCEPT ![c].attempt = @ + 1]
          /\ UNCHANGED <<step, tidy>>
       \/ ~ MayRetry(c) /\ Fail(c)
    /\ UNCHANGED <<game, requests, used, given, old, admitted, revoked>>

TimesOut(c) ==
    /\ RepliesLost
    /\ faults' = faults \cup {"lost"}
    /\ step[c] \in Calling
    /\ \/ Execute(Command(c)) /\ UNCHANGED late
       \/ UNCHANGED <<redis, late>>
       \/ /\ CommandsLate /\ Command(c).op # "GET"
          /\ late' = late \cup {Command(c)} /\ UNCHANGED redis
    /\ Again(c)

ExecuteLate ==
    \E cmd \in late :
        /\ Execute(cmd)
        /\ late' = late \ {cmd}
        /\ faults' = faults \cup {"overdue"}
        /\ UNCHANGED <<game, step, req, requests, used, given, old, history>>

\* Redis answers with the value of the key before the command.
Answered(c, s) ==
    /\ step[c] = s
    /\ Execute(Command(c))
    /\ UNCHANGED <<late, requests, old, admitted, faults>>
Reply(c) == redis[Command(c).key]

---------------------------------------------------------------------------
(* What the handlers do with the answers.                                  *)

\* Mutant: the room gets its new token before the token opens it.
TokenFirst == <<"writeToken", "writeInvite">>
\* The order of the two writes.
Order == <<"writeInvite", "writeToken">>

ReservePin(c) ==
    /\ Answered(c, "reservePin")
    /\ \/ Reply(c) = None /\ Proceed(c, Order[1], req[c])
       \/ /\ Reply(c) # None
          /\ \E p \in Pin : Proceed(c, "reservePin", [req[c] EXCEPT !.from = p])
    /\ UNCHANGED <<game, used, given, revoked, tidy>>

ReadToken(c) ==
    /\ Answered(c, "readToken")
    /\ \E t \in Fresh(Token) :
          /\ Proceed(c, Order[1], [req[c] EXCEPT !.token = t, !.previous = Reply(c)])
          /\ used' = used \cup {t}
    /\ UNCHANGED <<game, given, revoked, tidy>>

WriteFirst(c) ==
    /\ Answered(c, Order[1])
    /\ Proceed(c, Order[2], req[c])
    /\ UNCHANGED <<game, used, given, revoked, tidy>>

\* Mutant: the old invite is left to expire.
KeepsOld(c) == FALSE
HasOld(c) == req[c].previous # None

WriteSecond(c) ==
    /\ Answered(c, Order[2])
    /\ \/ req[c].op = "create" /\ Proceed(c, "insert", req[c])
       \/ req[c].op = "regenerate" /\ HasOld(c) /\ Proceed(c, "deleteOld", req[c])
       \/ req[c].op = "regenerate" /\ ~ HasOld(c) /\ Finish(c)
    /\ UNCHANGED <<game, used, given, revoked, tidy>>

DeleteOld(c) ==
    /\ Answered(c, "deleteOld")
    /\ revoked' = revoked \cup {req[c].previous}
    /\ Finish(c)
    /\ UNCHANGED <<game, used, given, tidy>>

\* The room exists from here on, whether or not report("CREATE_ROOM")
\* succeeds and the owner is told.
Insert(c) ==
    /\ step[c] = "insert"
    /\ rooms' = rooms \cup {req[c].room}
    /\ roomPins' = [roomPins EXCEPT ![req[c].room] = req[c].from]
    /\ Finish(c)
    /\ UNCHANGED <<redis, late, requests, used, given, old, history, faults>>

Lookup(c) ==
    /\ Answered(c, "lookup")
    /\ \/ Reply(c) = None /\ Finish(c) /\ UNCHANGED used
       \/ /\ Reply(c) # None
          /\ \E k \in Fresh(Ticket) :
                /\ Proceed(c, "writeTicket", [req[c] EXCEPT !.room = Reply(c), !.ticket = k])
                /\ used' = used \cup {k}
    /\ UNCHANGED <<game, given, revoked, tidy>>

WriteTicket(c) ==
    /\ Answered(c, "writeTicket")
    /\ given' = given \cup {req[c].ticket}
    /\ Finish(c)
    /\ UNCHANGED <<game, used, revoked, tidy>>

\* Mutant: issued_at is not looked at.
AnyAge(k) == TRUE
Young(k) == k \notin old

\* The ticket is gone, whatever becomes of the request.
Consume(c) ==
    /\ Answered(c, "consume")
    /\ IF Reply(c) # None /\ Young(req[c].ticket) /\ Reply(c) \in rooms
       THEN Proceed(c, "enter", [req[c] EXCEPT !.room = Reply(c)])
       ELSE Finish(c)
    /\ UNCHANGED <<game, used, given, revoked, tidy>>

\* The quota is checked and the room asked, which may refuse.
Enter(c) ==
    /\ step[c] = "enter"
    /\ \/ admitted' = [admitted EXCEPT ![req[c].ticket] = @ + 1]
       \/ UNCHANGED admitted
    /\ Finish(c)
    /\ UNCHANGED <<redis, late, game, requests, used, given, old, revoked, tidy, faults>>

---------------------------------------------------------------------------
(* Time and restarts.                                                      *)

\* TICKET_TTL is over: the payload's issued_at says so from now on, and the
\* key of a ticket that was stored goes.
TicketAges ==
    \E k \in (used \cap Ticket) \ old :
        /\ old' = old \cup {k}
        /\ redis' = [redis EXCEPT ![k] = None]
        /\ UNCHANGED <<late, game, step, req, requests, used, given, history, faults>>

KeyExpires ==
    /\ KeysExpire
    /\ \E k \in Key \ Ticket :
          /\ redis[k] # None
          /\ redis' = [redis EXCEPT ![k] = None]
    /\ UNCHANGED <<late, game, step, req, requests, used, given, old, history, faults>>

\* A process ends with what it had in memory; Redis and the commands on
\* their way to it stay.
Abandon(ops) ==
    LET gone == {c \in Client : step[c] # "idle" /\ req[c].op \in ops}
    IN  /\ step' = [c \in Client |-> IF c \in gone THEN "idle" ELSE step[c]]
        /\ req' = [c \in Client |-> IF c \in gone THEN NoRequest ELSE req[c]]
        /\ tidy' = {r \in tidy : Writers(r) \cap gone = {}}
        /\ UNCHANGED <<redis, late, requests, used, given, old, admitted, revoked, faults>>

RestartGame ==
    /\ rooms' = {} /\ roomPins' = [r \in Room |-> None]
    /\ Abandon({"create", "regenerate", "join"})

RestartJoin == Abandon({"issue"}) /\ UNCHANGED game

---------------------------------------------------------------------------
Handler(c) ==
    \/ CreateRoom(c) \/ ReservePin(c) \/ WriteFirst(c) \/ WriteSecond(c) \/ Insert(c)
    \/ RegenerateInvite(c) \/ ReadToken(c) \/ DeleteOld(c)
    \/ IssueTicket(c) \/ Lookup(c) \/ WriteTicket(c)
    \/ JoinRoom(c) \/ Consume(c) \/ Enter(c)

Next ==
    \/ \E c \in Client : Handler(c) \/ TimesOut(c)
    \/ ExecuteLate \/ TicketAges \/ KeyExpires
    \/ RestartGame \/ RestartJoin

Spec == Init /\ [][Next]_vars

---------------------------------------------------------------------------
(* Properties.                                                             *)

TypeOK ==
    /\ redis \in [Key -> Room \cup Token \cup {None}]
    /\ late \subseteq [op : {"SET", "SETNX", "DEL", "CONSUME"}, key : Key,
                       value : Room \cup Token \cup {None}]
    /\ rooms \subseteq Room
    /\ roomPins \in [Room -> Pin \cup {None}]
    /\ step \in [Client -> Step]
    /\ req \in [Client -> Request]
    /\ requests \in Nat
    /\ used \subseteq Room \cup Token \cup Ticket
    /\ given \subseteq Ticket /\ old \subseteq Ticket
    /\ admitted \in [Ticket -> Nat]
    /\ revoked \subseteq Token /\ tidy \subseteq Room
    /\ faults \subseteq {"lost", "overdue"}

\* A ticket lets at most one player in, however often and from wherever it
\* is presented, and however often an attempt to store or to consume it had
\* to be repeated, unless a command given up is executed later.
TicketAdmitsOnce == "overdue" \in faults \/ \A k \in Ticket : admitted[k] <= 1

\* A request that begins after the ticket's three minutes never gets in,
\* even when a late command stores the ticket again.
OldTicketStaysOut == \A c \in Client : step[c] = "enter" => ~ req[c].aged

\* The pin the service names for a room opens that room and no other, as
\* PIN_TTL_SCOPE = "room_lifetime" in shared/src/redis_keys.rs has it.
PinOpensItsRoom == \A r \in rooms : redis[roomPins[r]] = r

\* While no call timed out, the invite that room snapshots show opens the
\* room, even though several requests regenerate it and the service is
\* restarted between their steps.
RoomTokenOpens ==
    "lost" \in faults \/ \A r \in rooms : redis[r] # None /\ redis[redis[r]] = r

\* Once its deletion was confirmed an invite never opens a room again,
\* whatever other requests about the same room repeat, unless a command
\* given up is executed later.
RevokedStaysRevoked == "overdue" \in faults \/ \A t \in revoked : redis[t] = None

\* When the invites of a room were written by one request at a time, none of
\* which failed, exactly one invite opens it, the one the room names.
OneInvite ==
    "overdue" \in faults \/ \A r \in rooms \cap tidy :
        Writers(r) = {} => {t \in Token : redis[t] = r} = {redis[r]}

===========================================================================
