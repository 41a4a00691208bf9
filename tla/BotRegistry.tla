---------------------------- MODULE BotRegistry ----------------------------
(***************************************************************************)
(* The bot service: rows of registered bots, and the webhooks Telegram     *)
(* keeps for them.                                                         *)
(*                                                                         *)
(* Registering inserts a row and then tells Telegram where to send the     *)
(* bot's updates; removing takes the webhook off and then the row.  The    *)
(* two stores agree only as far as the handlers see to it.  A call to      *)
(* Telegram that is not answered may have been executed, may be executed   *)
(* later or never; it is tried again, and a registration that gives up     *)
(* deletes its row.  A handler is dropped at any call when its client      *)
(* disconnects, the database fails or the process ends.                    *)
(*                                                                         *)
(* The webhook's address and secret are drawn with the row's id, so the id *)
(* stands for all three.                                                   *)
(***************************************************************************)
EXTENDS Naturals

CONSTANTS
    Telegram,    \* Telegram bots, a token each
    Id,          \* ids of rows that may be drawn
    User,
    Admin,       \* users whose x-user-role is admin
    Request,     \* requests served at a time
    MaxAttempts, \* TELEGRAM_MAX_RETRIES
    None

ASSUME AdminAssumption == Admin \subseteq User
ASSUME AttemptsAssumption == MaxAttempts \in Nat \ {0}

VARIABLES
    bots,       \* table bots: a row of each id, or None
    webhook,    \* the row Telegram's webhook of each bot names, or None
    late,       \* calls to Telegram given up that will still be executed
    requests,   \* what each request is about to do, or None
    drawn,      \* history: ids that were drawn
    unanswered, \* history: bots one of whose calls to Telegram failed
    disturbed   \* history: bots two requests worked on at a time, one was
                \* dropped halfway, or a call given up was left behind

telegram == <<webhook, late, unanswered>>
vars == <<bots, telegram, requests, drawn, disturbed>>

Row == [bot : Telegram, owner : User, enabled : BOOLEAN]
\* bot is None for requests that never call Telegram; enabled is what
\* update_bot_status is to write.
Pending == [step : {"insert", "set", "rollback", "unset", "delete", "status"},
            id : Id, bot : Telegram \cup {None}, user : User,
            tries : Nat, enabled : BOOLEAN]
Call == [bot : Telegram, to : Id \cup {None}]
ASSUME NoneAssumption == None \notin Row \cup Pending \cup Telegram \cup Id

Init ==
    /\ bots = [i \in Id |-> None]
    /\ webhook = [t \in Telegram |-> None] /\ late = {}
    /\ requests = [r \in Request |-> None]
    /\ drawn = {} /\ unanswered = {} /\ disturbed = {}

Exists(i) == bots[i] # None
At(r, s) == requests[r] # None /\ requests[r].step = s
Begins(r, s, i, t, u, e) ==
    requests' = [requests EXCEPT ![r] = [step |-> s, id |-> i, bot |-> t, user |-> u,
                                         tries |-> 0, enabled |-> e]]
Goto(r, s) == requests' = [requests EXCEPT ![r].step = s, ![r].tries = 0]
Ends(r) == requests' = [requests EXCEPT ![r] = None]

\* A request that has written a row of t, or read one to remove it
Working(r, t) == requests[r] # None /\ requests[r].bot = t /\ ~ At(r, "insert")
Overlaps(r, t) ==
    IF \E s \in Request \ {r} : Working(s, t) THEN disturbed \cup {t} ELSE disturbed

---------------------------------------------------------------------------
(* register_bot.                                                           *)

\* Up to the INSERT: charged, the token known to Telegram.
Register(r, u, t) ==
    /\ requests[r] = None
    /\ \E i \in Id \ drawn :
        /\ Begins(r, "insert", i, t, u, TRUE)
        /\ drawn' = drawn \cup {i}
    /\ UNCHANGED <<bots, telegram, disturbed>>

\* UNIQUE (telegram_bot_id)
Free(t) == \A i \in Id : Exists(i) => bots[i].bot # t

Insert(r) ==
    LET p == requests[r]
    IN  /\ At(r, "insert")
        /\ \/ /\ Free(p.bot)
              /\ bots' = [bots EXCEPT ![p.id] =
                             [bot |-> p.bot, owner |-> p.user, enabled |-> TRUE]]
              /\ Goto(r, "set")
              /\ disturbed' = Overlaps(r, p.bot)
           \/ /\ ~ Free(p.bot)
              /\ Ends(r)
              /\ UNCHANGED <<bots, disturbed>>
        /\ UNCHANGED <<telegram, drawn>>

---------------------------------------------------------------------------
(* send_with_retry, and Telegram's side of it.                             *)

Executed(t, i) == webhook' = [webhook EXCEPT ![t] = i]

\* No answer, an answer of 500 and above, or one that cannot be parsed
NoAnswer(t, i) ==
    /\ unanswered' = unanswered \cup {t}
    /\ \/ UNCHANGED webhook /\ UNCHANGED <<late, disturbed>>
       \/ Executed(t, i) /\ UNCHANGED <<late, disturbed>>
       \/ /\ late' = late \cup {[bot |-> t, to |-> i]}
          /\ disturbed' = disturbed \cup {t}
          /\ UNCHANGED webhook

\* Telegram says no, or it is not asked: there is no base URL, no key.
Refused(t) ==
    /\ unanswered' = unanswered \cup {t}
    /\ UNCHANGED <<webhook, late, disturbed>>

Retries(r) ==
    /\ requests[r].tries + 1 < MaxAttempts
    /\ requests' = [requests EXCEPT ![r].tries = @ + 1]

\* A call given up arrives after all.
Arrives ==
    /\ \E c \in late : Executed(c.bot, c.to) /\ late' = late \ {c}
    /\ UNCHANGED <<bots, unanswered, requests, drawn, disturbed>>

SetWebhook(r) ==
    LET p == requests[r]
    IN  /\ At(r, "set")
        /\ \/ Executed(p.bot, p.id) /\ Ends(r) /\ UNCHANGED <<late, unanswered, disturbed>>
           \/ Refused(p.bot) /\ Goto(r, "rollback")
           \/ NoAnswer(p.bot, p.id) /\ (Retries(r) \/ Goto(r, "rollback"))
        /\ UNCHANGED <<bots, drawn>>

\* The outcome of deleteWebhook is not looked at.
DeleteWebhook(r) ==
    LET p == requests[r]
    IN  /\ At(r, "unset")
        /\ \/ Executed(p.bot, None) /\ Goto(r, "delete")
              /\ UNCHANGED <<late, unanswered, disturbed>>
           \/ Refused(p.bot) /\ Goto(r, "delete")
           \/ NoAnswer(p.bot, None) /\ (Retries(r) \/ Goto(r, "delete"))
        /\ UNCHANGED <<bots, drawn>>

---------------------------------------------------------------------------
(* remove_bot.                                                             *)

\* Mutant: the webhook of a disabled bot is left alone.
OfEnabled(i, u) == Exists(i) /\ bots[i].owner = u /\ bots[i].enabled
Owns(i, u) == Exists(i) /\ bots[i].owner = u

\* A row that was inserted, perhaps gone again
Known(i) == i \in drawn /\ \A r \in Request : ~ (At(r, "insert") /\ requests[r].id = i)

\* Whoever does not own the bot goes on to a DELETE that finds no row.
Remove(r, u, i) ==
    /\ requests[r] = None /\ Known(i)
    /\ \/ /\ Owns(i, u)
          /\ Begins(r, "unset", i, bots[i].bot, u, TRUE)
          /\ disturbed' = Overlaps(r, bots[i].bot)
       \/ /\ ~ Owns(i, u)
          /\ Begins(r, "delete", i, None, u, TRUE)
          /\ UNCHANGED disturbed
    /\ UNCHANGED <<bots, telegram, drawn>>

\* Mutant: WHERE id = $1
WithoutId(i, u) == [bots EXCEPT ![i] = None]
\* Mutant: a registration that failed keeps its row.
OnlyDisabled(i, u) ==
    IF Exists(i) /\ bots[i].owner = u
    THEN [bots EXCEPT ![i].enabled = FALSE] ELSE bots
\* DELETE FROM bots WHERE id = $1 AND user_id = $2
WithoutRow(i, u) ==
    IF Exists(i) /\ bots[i].owner = u THEN [bots EXCEPT ![i] = None] ELSE bots

\* The last statement of a removal, and of a registration Telegram refused
Delete(r) ==
    /\ At(r, "delete") \/ At(r, "rollback")
    /\ bots' = WithoutRow(requests[r].id, requests[r].user)
    /\ Ends(r)
    /\ UNCHANGED <<telegram, drawn, disturbed>>

---------------------------------------------------------------------------
(* update_bot_status.                                                      *)

UpdateStatus(r, u, i, e) ==
    /\ requests[r] = None
    /\ Exists(i) /\ (bots[i].owner = u \/ u \in Admin)
    /\ Begins(r, "status", i, None, u, e)
    /\ UNCHANGED <<bots, telegram, drawn, disturbed>>

\* The row and its audit in one transaction; nothing when the row is gone.
WriteStatus(r) ==
    LET p == requests[r]
    IN  /\ At(r, "status")
        /\ bots' = IF Exists(p.id) THEN [bots EXCEPT ![p.id].enabled = p.enabled] ELSE bots
        /\ Ends(r)
        /\ UNCHANGED <<telegram, drawn, disturbed>>

---------------------------------------------------------------------------
\* A handler is dropped before its next step.  An INSERT that was executed
\* though the database reported an error is one dropped after it.
Abandon(r) ==
    /\ requests[r] # None
    /\ disturbed' = IF requests[r].bot # None /\ ~ At(r, "insert")
                    THEN disturbed \cup {requests[r].bot} ELSE disturbed
    /\ Ends(r)
    /\ UNCHANGED <<bots, telegram, drawn>>

Handler(r) ==
    \/ \E u \in User, t \in Telegram : Register(r, u, t)
    \/ \E u \in User, i \in Id : Remove(r, u, i)
    \/ \E u \in User, i \in Id, e \in BOOLEAN : UpdateStatus(r, u, i, e)
    \/ Insert(r) \/ SetWebhook(r) \/ DeleteWebhook(r) \/ Delete(r)
    \/ WriteStatus(r) \/ Abandon(r)

Next == Arrives \/ \E r \in Request : Handler(r)
Spec == Init /\ [][Next]_vars

---------------------------------------------------------------------------
(* Properties.                                                             *)

TypeOK ==
    /\ bots \in [Id -> Row \cup {None}]
    /\ webhook \in [Telegram -> Id \cup {None}]
    /\ late \subseteq Call
    /\ requests \in [Request -> Pending \cup {None}]
    /\ drawn \subseteq Id
    /\ unanswered \subseteq Telegram /\ disturbed \subseteq Telegram

Quiet(t) == t \notin disturbed /\ \A r \in Request : ~ Working(r, t)

\* Whatever Telegram refused, answered with errors or executed without
\* saying so: once no request works on it, a registered bot is the one its
\* webhook names, and so bot_ingress finds the row of its updates; unless
\* two requests worked on it at a time, one was cut short or a call given up
\* came late.  Failed registrations of a bot that exists, changes of status
\* and removals by others do it no harm.
RegisteredBotIsServed ==
    \A i \in Id :
        Exists(i) /\ Quiet(bots[i].bot) => webhook[bots[i].bot] = i

\* And, if Telegram answered all calls for it, no webhook is left that names
\* a row that is gone: bot_ingress answers no update of the bot with 404.
NoStrayWebhook ==
    \A t \in Telegram :
        webhook[t] # None /\ Quiet(t) /\ t \notin unanswered => Exists(webhook[t])

\* A row is deleted only by its owner's request, and changed only by its
\* owner or an admin, though the statements that write trust a row read
\* before and name the user not at all (status) or only in the end (delete).
OwnerDecides ==
    [][\A i \in Id : Exists(i) /\ bots'[i] # bots[i] =>
          \E r \in Request :
             /\ requests[r] # None /\ requests'[r] = None /\ requests[r].id = i
             /\ \/ requests[r].user = bots[i].owner
                \/ requests[r].user \in Admin /\ bots'[i] # None]_vars
============================================================================
