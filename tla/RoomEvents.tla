---------------------------- MODULE RoomEvents ----------------------------
(***************************************************************************)
(* The events of rooms on their way from the game service to the browsers, *)
(* through the websocket of gateway_py.                                    *)
(*                                                                         *)
(* The room and the chat handlers send events to a broadcast channel that  *)
(* keeps the newest ones.  subscribe_room_events gives each subscriber a   *)
(* cursor and a task, which forwards what it receives to a bounded queue   *)
(* and sends an error event when the channel has overtaken the cursor.     *)
(* The gateway reads the stream of each websocket with a blocking next()   *)
(* in a thread of asyncio's pool, one at a time, and sends the websocket   *)
(* what it returns.  The thread of a websocket that was closed comes back  *)
(* with the next event only.                                               *)
(*                                                                         *)
(* Calls break: the stream ends with an error at any time, and the gateway *)
(* sends the websocket an error instead of events and leaves it open.      *)
(***************************************************************************)
EXTENDS Naturals, Sequences, FiniteSets

CONSTANTS
    Viewer,    \* websockets, of one session each
    Room,
    RoomOf,    \* the room of each session
    Buffer,    \* event_buffer of spawn_room_actor
    QueueSize, \* mpsc::channel(32) and what the transport takes in
    Threads,   \* max_workers of the pool of asyncio.to_thread
    MaxEvents  \* bound: events published in a room

ASSUME RoomAssumption == RoomOf \in [Viewer -> Room] /\ IsFiniteSet(Viewer)
ASSUME SizeAssumption ==
    /\ Buffer \in Nat \ {0} /\ QueueSize \in Nat \ {0} /\ Threads \in Nat \ {0}
    /\ MaxEvents \in Nat

VARIABLES
    log,     \* events published in each room
    from,    \* the first event after the viewer subscribed, or 0
    cursor,  \* what the receiver of its task takes next
    task,    \* the task of subscribe_room_events
    held,    \* the item it waits to send
    queue,   \* items on their way to the gateway
    stream,  \* the call, as the gateway sees it
    socket,  \* the websocket
    reader,  \* events_loop of the websocket
    pool,    \* readers waiting for a thread
    frame,   \* the item events_loop is sending
    seen,    \* history: events the browser was shown or told it missed
    last     \* history: the event it was shown last, or 0

service == <<cursor, task, held>>
gateway == <<socket, reader, pool, frame>>
browser == <<seen, last>>
vars == <<log, from, service, queue, stream, gateway, browser>>

\* An event, by its number, or an error event that announces skipped ones
Item == [event : Nat, skipped : Nat]
NoItem == [event |-> 0, skipped |-> 0]
Weight(item) == IF item.event # 0 THEN 1 ELSE item.skipped

Init ==
    /\ log = [r \in Room |-> 0]
    /\ from = [v \in Viewer |-> 0] /\ cursor = [v \in Viewer |-> 0]
    /\ task = [v \in Viewer |-> "none"] /\ held = [v \in Viewer |-> NoItem]
    /\ queue = [v \in Viewer |-> <<>>] /\ stream = [v \in Viewer |-> "none"]
    /\ socket = [v \in Viewer |-> "new"] /\ reader = [v \in Viewer |-> "none"]
    /\ pool = <<>> /\ frame = [v \in Viewer |-> NoItem]
    /\ seen = [v \in Viewer |-> 0] /\ last = [v \in Viewer |-> 0]

Set(f, v, x) == [f EXCEPT ![v] = x]

---------------------------------------------------------------------------
(* The game service.                                                       *)

\* events.send of the room and of post_chat_message
Publish(r) ==
    /\ log[r] < MaxEvents
    /\ log' = [log EXCEPT ![r] = @ + 1]
    /\ UNCHANGED <<from, service, queue, stream, gateway, browser>>

\* The call arrives: the receiver starts behind the newest event.
Subscribe(v) ==
    /\ stream[v] = "called"
    /\ from' = Set(from, v, log[RoomOf[v]] + 1)
    /\ cursor' = Set(cursor, v, log[RoomOf[v]] + 1)
    /\ task' = Set(task, v, "recv")
    /\ stream' = Set(stream, v, "open")
    /\ UNCHANGED <<log, held, queue, gateway, browser>>

\* The oldest event the channel still has
Oldest(r) == IF log[r] > Buffer THEN log[r] - Buffer + 1 ELSE 1

\* Mutant: a receiver that lagged goes on with the newest event.
SkipToNewest(v) == [event |-> 0, skipped |-> log[RoomOf[v]] - cursor[v]]
\* RecvError::Lagged moves the cursor to the oldest event there is.
Lagged(v) == [event |-> 0, skipped |-> Oldest(RoomOf[v]) - cursor[v]]

Receive(v) ==
    /\ task[v] = "recv" /\ cursor[v] <= log[RoomOf[v]]
    /\ LET item == IF cursor[v] < Oldest(RoomOf[v]) THEN Lagged(v)
                   ELSE [event |-> cursor[v], skipped |-> 0]
       IN  /\ held' = Set(held, v, item)
           /\ cursor' = Set(cursor, v, cursor[v] + Weight(item))
    /\ task' = Set(task, v, "send")
    /\ UNCHANGED <<log, from, queue, stream, gateway, browser>>

\* tx.send waits for room, or fails when the call is gone: that ends the
\* task, unless it was announcing skipped events.
Send(v) ==
    /\ task[v] = "send"
    /\ \/ /\ stream[v] = "open" /\ Len(queue[v]) < QueueSize
          /\ queue' = Set(queue, v, Append(queue[v], held[v]))
          /\ task' = Set(task, v, "recv")
       \/ /\ stream[v] # "open"
          /\ task' = Set(task, v, IF held[v].event = 0 THEN "recv" ELSE "ended")
          /\ UNCHANGED queue
    /\ held' = Set(held, v, NoItem)
    /\ UNCHANGED <<log, from, cursor, stream, gateway, browser>>

\* The call ends with an error, what is on its way perhaps with it.
Break(v) ==
    /\ stream[v] \in {"called", "open"}
    /\ stream' = Set(stream, v, "broken")
    /\ queue' \in {queue, Set(queue, v, <<>>)}
    /\ UNCHANGED <<log, from, service, gateway, browser>>

---------------------------------------------------------------------------
(* The gateway: ws and its events_loop.                                    *)

\* events_loop calls next in a thread.
AsksForThread(v) == reader' = Set(reader, v, "queued") /\ pool' = Append(pool, v)

Connect(v) ==
    /\ socket[v] = "new"
    /\ socket' = Set(socket, v, "open")
    /\ stream' = Set(stream, v, "called")
    /\ AsksForThread(v)
    /\ UNCHANGED <<log, from, service, queue, frame, browser>>

Reading == {v \in Viewer : reader[v] = "reading"}

TakeThread ==
    /\ pool # <<>> /\ Cardinality(Reading) < Threads
    /\ reader' = Set(reader, Head(pool), "reading")
    /\ pool' = Tail(pool)
    /\ UNCHANGED <<log, from, service, queue, stream, socket, frame, browser>>

\* Nothing reads the stream any more: the call is cancelled.
Cancel(v) == stream' = Set(stream, v, IF stream[v] = "broken" THEN "broken" ELSE "gone")

\* next returns an item: to events_loop, or to nobody.
NextReturns(v) ==
    /\ reader[v] = "reading" /\ queue[v] # <<>>
    /\ \/ /\ socket[v] = "open"
          /\ queue' = Set(queue, v, Tail(queue[v]))
          /\ frame' = Set(frame, v, Head(queue[v]))
          /\ reader' = Set(reader, v, "sending")
          /\ UNCHANGED stream
       \/ /\ socket[v] = "closed"
          /\ queue' = Set(queue, v, <<>>)
          /\ reader' = Set(reader, v, "ended")
          /\ Cancel(v)
          /\ UNCHANGED frame
    /\ UNCHANGED <<log, from, service, socket, pool, browser>>

\* next raises: the websocket is sent the error and stays open.
NextRaises(v) ==
    /\ reader[v] = "reading" /\ queue[v] = <<>> /\ stream[v] = "broken"
    /\ reader' = Set(reader, v, "ended")
    /\ UNCHANGED <<log, from, service, queue, stream, socket, pool, frame, browser>>

SendFrame(v) ==
    /\ reader[v] = "sending"
    /\ seen' = Set(seen, v, seen[v] + Weight(frame[v]))
    /\ last' = Set(last, v, IF frame[v].event # 0 THEN frame[v].event ELSE last[v])
    /\ frame' = Set(frame, v, NoItem)
    /\ AsksForThread(v)
    /\ UNCHANGED <<log, from, service, queue, stream, socket>>

\* Mutant: the waiting work of a closed websocket is not withdrawn.
StillWaiting(k) == pool
Without(k) == SubSeq(pool, 1, k - 1) \o SubSeq(pool, k + 1, Len(pool))

\* events_task.cancel: a thread that is inside next stays there, work that
\* waits for one is withdrawn.
Close(v) ==
    /\ socket[v] = "open"
    /\ socket' = Set(socket, v, "closed")
    /\ frame' = Set(frame, v, NoItem)
    /\ \/ /\ reader[v] = "reading"
          /\ UNCHANGED <<reader, pool, queue, stream>>
       \/ /\ reader[v] # "reading"
          /\ reader' = Set(reader, v, "ended")
          /\ \/ reader[v] # "queued" /\ UNCHANGED pool
             \/ \E k \in 1 .. Len(pool) : pool[k] = v /\ pool' = Without(k)
          /\ queue' = Set(queue, v, <<>>)
          /\ Cancel(v)
    /\ UNCHANGED <<log, from, service, browser>>

---------------------------------------------------------------------------
Task(v) == Subscribe(v) \/ Receive(v) \/ Send(v)
Reader(v) == NextReturns(v) \/ NextRaises(v) \/ SendFrame(v)

Next ==
    \/ \E r \in Room : Publish(r)
    \/ TakeThread
    \/ \E v \in Viewer : Task(v) \/ Reader(v) \/ Connect(v) \/ Break(v) \/ Close(v)
Spec == Init /\ [][Next]_vars

\* Tasks and threads are scheduled, and a browser takes what it is sent.
Fairness ==
    /\ WF_vars(TakeThread)
    /\ \A v \in Viewer : WF_vars(Task(v)) /\ WF_vars(Reader(v))
FairSpec == Spec /\ Fairness

---------------------------------------------------------------------------
(* Properties.                                                             *)

TypeOK ==
    /\ log \in [Room -> Nat]
    /\ from \in [Viewer -> Nat] /\ cursor \in [Viewer -> Nat]
    /\ task \in [Viewer -> {"none", "recv", "send", "ended"}]
    /\ held \in [Viewer -> Item] /\ queue \in [Viewer -> Seq(Item)]
    /\ stream \in [Viewer -> {"none", "called", "open", "broken", "gone"}]
    /\ socket \in [Viewer -> {"new", "open", "closed"}]
    /\ reader \in [Viewer -> {"none", "queued", "reading", "sending", "ended"}]
    /\ pool \in Seq(Viewer) /\ frame \in [Viewer -> Item]
    /\ seen \in [Viewer -> Nat] /\ last \in [Viewer -> Nat]

Feed == INSTANCE EventFeed

\* Through channel, task, queue, stream, thread and websocket a browser sees
\* the events in order and at most once, and knows how many it missed.
ImplementsFeed == Feed!Spec

\* A thread is blocked until something is published, closed or broken.
Idle(v) ==
    /\ reader[v] = "reading" /\ queue[v] = <<>> /\ stream[v] # "broken"
    /\ task[v] = "recv" /\ cursor[v] > log[RoomOf[v]]
Exhausted == Cardinality({v \in Viewer : Idle(v)}) = Threads

\* What may keep a browser from its events: it left, its call broke, which it
\* is told, or the threads are all held by others whose rooms are silent.
Hindered(v) == socket[v] = "closed" \/ stream[v] = "broken" \/ Exhausted
UpToDate(v) == from[v] = 0 \/ from[v] + seen[v] > log[RoomOf[v]]

\* A browser never waits for ever for an event of its room: unless hindered,
\* by others' open or closed websockets too, it is again and again up to date
\* or again and again shown something.
BrowserCatchesUp ==
    \A v \in Viewer :
        []<>(UpToDate(v) \/ Hindered(v)) \/ []<><<seen'[v] # seen[v]>>_vars
===========================================================================
