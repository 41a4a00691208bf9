------------------------- MODULE RoomEventsProofs -------------------------
(***************************************************************************)
(* What is proved of RoomEvents: any number of browsers sees the events of *)
(* its rooms as EventFeed promises, with buffers, queues and pools of any  *)
(* size.                                                                   *)
(*                                                                         *)
(* What is on its way to a browser is a line: each item starts where the   *)
(* one before it ends, the first where the browser stands, and while the   *)
(* call is open the last one ends at the cursor of its task.               *)
(***************************************************************************)
EXTENDS RoomEvents, SequenceTheorems, TLAPS

---------------------------------------------------------------------------
(* The invariant.                                                          *)

\* The item says what became of the events from n on.
FitsIn(item, n, published) ==
    /\ item.event # 0 => item.event = n /\ n <= published
    /\ item.event = 0 => item.skipped >= 1 /\ n + item.skipped - 1 + Buffer <= published
Fits(v, item, n) == FitsIn(item, n, log[RoomOf[v]])

\* Where the first item of the queue starts
Front(v) == from[v] + seen[v] + Weight(frame[v])

\* p[i - 1] is where the i-th item of the queue starts.
IsLine(v, p) ==
    /\ p[0] = Front(v)
    /\ \A i \in 1 .. Len(queue[v]) :
          /\ Fits(v, queue[v][i], p[i - 1])
          /\ p[i] = p[i - 1] + Weight(queue[v][i])
    /\ stream[v] = "open" => p[Len(queue[v])] + Weight(held[v]) = cursor[v]
Line(v) == \E p \in [0 .. Len(queue[v]) -> Nat] : IsLine(v, p)

\* Nothing is on its way before the subscription.
Begun(v) ==
    /\ socket[v] = "new" => stream[v] = "none" /\ reader[v] = "none"
    /\ stream[v] \in {"none", "called"} => from[v] = 0
    /\ from[v] = 0 => task[v] = "none" /\ seen[v] = 0 /\ queue[v] = <<>> /\ frame[v] = NoItem
    /\ from[v] # 0 => cursor[v] # 0

\* Who has an item in hand, and which
InHand(v) ==
    /\ task[v] # "send" => held[v] = NoItem
    /\ task[v] = "send" /\ stream[v] = "open" =>
          cursor[v] >= Weight(held[v]) /\ Fits(v, held[v], cursor[v] - Weight(held[v]))
    /\ reader[v] # "sending" => frame[v] = NoItem
    /\ reader[v] = "sending" => from[v] # 0 /\ Fits(v, frame[v], from[v] + seen[v])

\* The pool holds the readers that wait, once each.
Waiting ==
    \A i \in 1 .. Len(pool) :
        /\ reader[pool[i]] = "queued"
        /\ \A k \in 1 .. Len(pool) : pool[i] = pool[k] => i = k

ViewerInv(v) == Begun(v) /\ InHand(v) /\ Line(v)
Inv == TypeOK /\ Waiting /\ \A v \in Viewer : ViewerInv(v)

---------------------------------------------------------------------------
(* Types.                                                                  *)

LEMMA Items ==
    /\ NoItem \in Item /\ Weight(NoItem) = 0
    /\ \A item \in Item : item.event \in Nat /\ item.skipped \in Nat /\ Weight(item) \in Nat
    /\ \A n \in Nat : [event |-> n, skipped |-> 0] \in Item /\ [event |-> 0, skipped |-> n] \in Item
BY DEF Item, NoItem, Weight

\* Withdrawing the k-th reader moves those behind it up.
LEMMA WithoutElements ==
    ASSUME pool \in Seq(Viewer), NEW k \in 1 .. Len(pool)
    PROVE  /\ Without(k) \in Seq(Viewer) /\ Len(Without(k)) = Len(pool) - 1
           /\ \A i \in 1 .. Len(pool) - 1 :
                 Without(k)[i] = IF i < k THEN pool[i] ELSE pool[i + 1]
<1>. DEFINE a == SubSeq(pool, 1, k - 1)
            b == SubSeq(pool, k + 1, Len(pool))
<1>1. a \in Seq(Viewer) /\ Len(a) = k - 1 /\ \A i \in 1 .. k - 1 : a[i] = pool[i]
  OBVIOUS
<1>2. b \in Seq(Viewer) /\ Len(b) = Len(pool) - k /\ \A i \in 1 .. Len(pool) - k : b[i] = pool[k + i]
  OBVIOUS
<1>. HIDE DEF a, b
<1>3. a \o b \in Seq(Viewer) /\ Len(a \o b) = Len(a) + Len(b)
  BY <1>1, <1>2, ConcatProperties
<1>4. \A i \in 1 .. Len(a) + Len(b) : (a \o b)[i] = IF i <= Len(a) THEN a[i] ELSE b[i - Len(a)]
  BY <1>1, <1>2, ConcatProperties
<1>5. ASSUME NEW i \in 1 .. Len(pool) - 1 PROVE (a \o b)[i] = IF i < k THEN pool[i] ELSE pool[i + 1]
  <2>1. CASE i < k
    BY <1>1, <1>2, <1>4, <2>1
  <2>2. CASE ~ (i < k)
    <3>1. i - Len(a) \in 1 .. Len(pool) - k /\ k + (i - Len(a)) = i + 1
      BY <1>1, <2>2
    <3>. QED
      BY <1>1, <1>2, <1>4, <2>2, <3>1
  <2>. QED
    BY <2>1, <2>2
<1>6. Without(k) = a \o b
  BY DEF Without, a, b
<1>. QED
  BY <1>1, <1>2, <1>3, <1>5, <1>6

LEMMA Queues ==
    /\ <<>> \in Seq(Item) /\ Len(<<>>) = 0
    /\ \A q \in Seq(Item), item \in Item : Append(q, item) \in Seq(Item)
    /\ \A q \in Seq(Item) : q # <<>> => Head(q) \in Item /\ Tail(q) \in Seq(Item)
OBVIOUS

LEMMA InitType == Init => TypeOK
BY Items, RoomAssumption DEF Init, TypeOK

\* The error event of a receiver that lagged
LEMMA LaggedItem ==
    ASSUME TypeOK, NEW v \in Viewer, cursor[v] \in 1 .. Oldest(RoomOf[v]) - 1
    PROVE  /\ Lagged(v) \in Item /\ Lagged(v).event = 0
           /\ Lagged(v).skipped >= 1 /\ Weight(Lagged(v)) = Lagged(v).skipped
           /\ Lagged(v).skipped = log[RoomOf[v]] - Buffer + 1 - cursor[v]
<1>1. RoomOf[v] \in Room /\ Buffer \in Nat /\ cursor[v] \in Nat
  BY RoomAssumption, SizeAssumption DEF TypeOK
<1>2. log[RoomOf[v]] \in Nat
  BY <1>1 DEF TypeOK
<1>3. Oldest(RoomOf[v]) = log[RoomOf[v]] - Buffer + 1 /\ Oldest(RoomOf[v]) - cursor[v] \in Nat \ {0}
  BY <1>1, <1>2 DEF Oldest
<1>4. Lagged(v) = [event |-> 0, skipped |-> Oldest(RoomOf[v]) - cursor[v]]
  BY DEF Lagged
<1>5. Lagged(v).event = 0 /\ Lagged(v).skipped = Oldest(RoomOf[v]) - cursor[v]
  BY <1>4
<1>6. Lagged(v) \in Item
  BY <1>3, <1>4, Items
<1>7. Weight(Lagged(v)) = Lagged(v).skipped
  BY <1>5 DEF Weight
<1>. QED
  BY <1>1, <1>2, <1>3, <1>5, <1>6, <1>7

\* What the task of v takes next, and where the cursor goes
Taken(v) == IF cursor[v] < Oldest(RoomOf[v]) THEN Lagged(v) ELSE [event |-> cursor[v], skipped |-> 0]

LEMMA Receives ==
    ASSUME TypeOK, NEW v \in Viewer, cursor[v] # 0, Receive(v)
    PROVE  /\ Taken(v) \in Item /\ Fits(v, Taken(v), cursor[v])
           /\ held' = Set(held, v, Taken(v))
           /\ cursor' = Set(cursor, v, cursor[v] + Weight(Taken(v)))
<1>0. held' = Set(held, v, Taken(v)) /\ cursor' = Set(cursor, v, cursor[v] + Weight(Taken(v)))
  BY DEF Receive, Taken
<1>1. RoomOf[v] \in Room /\ Buffer \in Nat \ {0} /\ cursor[v] \in Nat \ {0}
  BY RoomAssumption, SizeAssumption DEF TypeOK
<1>2. log[RoomOf[v]] \in Nat /\ cursor[v] <= log[RoomOf[v]]
  BY <1>1 DEF TypeOK, Receive
<1>3. CASE cursor[v] < Oldest(RoomOf[v])
  <2>1. cursor[v] \in 1 .. Oldest(RoomOf[v]) - 1
    BY <1>1, <1>2, <1>3 DEF Oldest
  <2>2. Taken(v) = Lagged(v)
    BY <1>3 DEF Taken
  <2>. QED
    BY <1>0, <1>1, <1>2, <2>1, <2>2, LaggedItem DEF Fits, FitsIn
<1>4. CASE ~ (cursor[v] < Oldest(RoomOf[v]))
  BY <1>0, <1>1, <1>2, <1>4, Items DEF Taken, Fits, FitsIn
<1>. QED
  BY <1>3, <1>4

LEMMA TypeStep == TypeOK /\ (\A v \in Viewer : Begun(v)) /\ [Next]_vars => TypeOK'
<1>. SUFFICES ASSUME TypeOK, \A v \in Viewer : Begun(v), [Next]_vars PROVE TypeOK'
  OBVIOUS
<1>0. queue \in [Viewer -> Seq(Item)]
  BY DEF TypeOK
<1>1. CASE UNCHANGED vars
  BY <1>1 DEF TypeOK, vars, service, gateway, browser
<1>2. ASSUME NEW r \in Room, Publish(r) PROVE TypeOK'
  BY <1>2 DEF TypeOK, Publish, service, gateway, browser
<1>3. CASE TakeThread
  <2>1. Tail(pool) \in Seq(Viewer) /\ reader' \in [Viewer -> {"none", "queued", "reading", "sending", "ended"}]
    BY <1>3 DEF TypeOK, TakeThread, Set
  <2>. QED
    BY <1>3, <2>1 DEF TypeOK, TakeThread, service, browser
<1>4. ASSUME NEW v \in Viewer,
             Task(v) \/ Reader(v) \/ Connect(v) \/ Break(v) \/ Close(v)
      PROVE  TypeOK'
  <2>1. CASE Subscribe(v)
    <3>1. log[RoomOf[v]] + 1 \in Nat
      BY RoomAssumption DEF TypeOK
    <3>. QED
      BY <2>1, <3>1, Items DEF TypeOK, Subscribe, Set, gateway, browser
  <2>2. CASE Receive(v)
    <3>1. cursor[v] # 0
      BY <1>4, <2>2 DEF Begun, Receive
    <3>2. Taken(v) \in Item /\ held' = Set(held, v, Taken(v))
          /\ cursor' = Set(cursor, v, cursor[v] + Weight(Taken(v)))
      BY <2>2, <3>1, Receives
    <3>3. cursor[v] + Weight(Taken(v)) \in Nat
      BY <3>2, Items DEF TypeOK
    <3>. QED
      BY <2>2, <3>2, <3>3 DEF TypeOK, Receive, Set, gateway, browser
  <2>3. CASE Send(v)
    <3>1. queue' \in [Viewer -> Seq(Item)]
      <4>1. Append(queue[v], held[v]) \in Seq(Item)
        BY Queues DEF TypeOK
      <4>2. queue' = Set(queue, v, Append(queue[v], held[v])) \/ queue' = queue
        BY <2>3 DEF Send
      <4>. QED
        BY <1>0, <4>1, <4>2 DEF Set
    <3>. QED
      BY <2>3, <3>1, Items DEF TypeOK, Send, Set, gateway, browser
  <2>4. CASE NextReturns(v)
    <3>1. queue' \in [Viewer -> Seq(Item)] /\ Head(queue[v]) \in Item
      <4>1. queue[v] \in Seq(Item) /\ queue[v] # <<>>
        BY <2>4 DEF TypeOK, NextReturns
      <4>2. queue' = Set(queue, v, Tail(queue[v])) \/ queue' = Set(queue, v, <<>>)
        BY <2>4 DEF NextReturns
      <4>. QED
        BY <1>0, <4>1, <4>2, Queues DEF Set
    <3>. QED
      BY <2>4, <3>1 DEF TypeOK, NextReturns, Set, Cancel, service, browser
  <2>5. CASE NextRaises(v)
    BY <2>5 DEF TypeOK, NextRaises, Set, service, browser
  <2>6. CASE SendFrame(v)
    <3>1. frame[v].event \in Nat /\ seen[v] + Weight(frame[v]) \in Nat
      BY Items DEF TypeOK
    <3>2. Append(pool, v) \in Seq(Viewer)
      BY DEF TypeOK
    <3>. QED
      BY <2>6, <3>1, <3>2, Items DEF TypeOK, SendFrame, Set, AsksForThread, service
  <2>7. CASE Connect(v)
    <3>1. Append(pool, v) \in Seq(Viewer)
      BY DEF TypeOK
    <3>. QED
      BY <2>7, <3>1 DEF TypeOK, Connect, Set, AsksForThread, service, browser
  <2>8. CASE Break(v)
    BY <2>8, Queues DEF TypeOK, Break, Set, service, gateway, browser
  <2>9. CASE Close(v)
    <3>1. pool' \in Seq(Viewer)
      BY <2>9, WithoutElements DEF TypeOK, Close
    <3>2. queue' \in [Viewer -> Seq(Item)]
      <4>1. queue' = Set(queue, v, <<>>) \/ queue' = queue
        BY <2>9 DEF Close
      <4>. QED
        BY <1>0, <4>1, Queues DEF Set
    <3>3. stream' \in [Viewer -> {"none", "called", "open", "broken", "gone"}]
      <4>1. \/ stream' = stream
            \/ stream' = Set(stream, v, "broken") \/ stream' = Set(stream, v, "gone")
        BY <2>9 DEF Close, Cancel
      <4>. QED
        BY <4>1 DEF TypeOK, Set
    <3>. QED
      BY <2>9, <3>1, <3>2, <3>3, Items DEF TypeOK, Close, Set, service, browser
  <2>. QED
    BY <1>4, <2>1, <2>2, <2>3, <2>4, <2>5, <2>6, <2>7, <2>8, <2>9 DEF Task, Reader
<1>. QED
  BY <1>1, <1>2, <1>3, <1>4 DEF Next

---------------------------------------------------------------------------
(* The pool.                                                               *)

LEMMA PoolUntouched ==
    ASSUME TypeOK, Waiting, NEW v \in Viewer, reader[v] # "queued", NEW x,
           reader' = Set(reader, v, x), pool' = pool
    PROVE  Waiting'
<1>0. \A i \in 1 .. Len(pool) : pool[i] \in Viewer
  BY DEF TypeOK
<1>1. \A i \in 1 .. Len(pool) : pool[i] \in Viewer /\ pool[i] # v
  BY <1>0 DEF Waiting
<1>2. \A w \in Viewer : w # v => reader'[w] = reader[w]
  BY DEF TypeOK, Set
<1>. QED
  BY <1>1, <1>2 DEF Waiting

LEMMA PoolJoined ==
    ASSUME TypeOK, Waiting, NEW v \in Viewer, reader[v] # "queued", AsksForThread(v)
    PROVE  Waiting'
<1>1. /\ pool' \in Seq(Viewer) /\ Len(pool') = Len(pool) + 1 /\ Len(pool) \in Nat
      /\ \A i \in 1 .. Len(pool) : pool'[i] = pool[i] /\ pool[i] \in Viewer
      /\ pool'[Len(pool) + 1] = v
  BY DEF AsksForThread, TypeOK
<1>2. \A i \in 1 .. Len(pool) : pool[i] # v
  BY DEF Waiting
<1>3. reader'[v] = "queued" /\ \A w \in Viewer : w # v => reader'[w] = reader[w]
  BY DEF AsksForThread, Set, TypeOK
<1>4. ASSUME NEW i \in 1 .. Len(pool) + 1
      PROVE  reader'[pool'[i]] = "queued" /\ \A k \in 1 .. Len(pool) + 1 : pool'[i] = pool'[k] => i = k
  <2>1. CASE i = Len(pool) + 1
    BY <1>1, <1>2, <1>3, <2>1
  <2>2. CASE i \in 1 .. Len(pool)
    BY <1>1, <1>2, <1>3, <2>2 DEF Waiting
  <2>. QED
    BY <1>1, <2>1, <2>2
<1>. QED
  BY <1>1, <1>4 DEF Waiting

LEMMA WaitingStep == Inv /\ [Next]_vars => Waiting'
<1>. SUFFICES ASSUME TypeOK, Waiting, \A v \in Viewer : Begun(v), [Next]_vars PROVE Waiting'
  BY DEF Inv, ViewerInv
<1>1. CASE UNCHANGED <<reader, pool>>
  BY <1>1 DEF Waiting
<1>2. CASE TakeThread
  <2>1. /\ Len(pool) \in Nat /\ Len(pool) >= 1 /\ Head(pool) = pool[1] /\ pool[1] \in Viewer
        /\ Len(pool') = Len(pool) - 1
        /\ \A i \in 1 .. Len(pool) - 1 : pool'[i] = pool[i + 1] /\ pool[i + 1] \in Viewer
    BY <1>2 DEF TakeThread, TypeOK
  <2>2. \A w \in Viewer : w # pool[1] => reader'[w] = reader[w]
    BY <1>2, <2>1 DEF TakeThread, Set, TypeOK
  <2>3. ASSUME NEW i \in 1 .. Len(pool) - 1
        PROVE  /\ reader'[pool'[i]] = "queued"
               /\ \A k \in 1 .. Len(pool) - 1 : pool'[i] = pool'[k] => i = k
    <3>1. i + 1 \in 1 .. Len(pool) /\ 1 \in 1 .. Len(pool) /\ i + 1 # 1
      BY <2>1
    <3>2. pool[i + 1] # pool[1] /\ reader[pool[i + 1]] = "queued"
      BY <3>1 DEF Waiting
    <3>3. ASSUME NEW k \in 1 .. Len(pool) - 1, pool'[i] = pool'[k] PROVE i = k
      <4>1. k + 1 \in 1 .. Len(pool) /\ pool[i + 1] = pool[k + 1]
        BY <2>1, <3>3
      <4>2. i + 1 = k + 1
        BY <3>1, <4>1 DEF Waiting
      <4>. QED
        BY <4>2
    <3>. QED
      BY <2>1, <2>2, <3>2, <3>3
  <2>. QED
    BY <2>1, <2>3 DEF Waiting
<1>3. ASSUME NEW v \in Viewer, NextReturns(v) \/ NextRaises(v) PROVE Waiting'
  BY <1>3, PoolUntouched DEF NextReturns, NextRaises
<1>4. ASSUME NEW v \in Viewer, SendFrame(v) \/ Connect(v) PROVE Waiting'
  <2>1. reader[v] # "queued" /\ AsksForThread(v)
    BY <1>4 DEF SendFrame, Connect, Begun
  <2>. QED
    BY <2>1, PoolJoined
<1>5. ASSUME NEW v \in Viewer, Close(v) PROVE Waiting'
  <2>1. CASE UNCHANGED <<reader, pool>>
    BY <1>1, <2>1
  <2>2. CASE reader[v] # "queued" /\ reader' = Set(reader, v, "ended") /\ UNCHANGED pool
    BY <2>2, PoolUntouched
  <2>3. ASSUME NEW k \in 1 .. Len(pool), pool[k] = v, pool' = Without(k),
               reader' = Set(reader, v, "ended")
        PROVE  Waiting'
    <3>. DEFINE at(i) == IF i < k THEN i ELSE i + 1
    <3>1. /\ Len(pool) \in Nat /\ Len(pool') = Len(pool) - 1
          /\ \A i \in 1 .. Len(pool) - 1 : pool'[i] = pool[at(i)]
      <4>1. pool \in Seq(Viewer) /\ Len(pool) \in Nat
        BY DEF TypeOK
      <4>2. \A i \in 1 .. Len(pool) - 1 : pool'[i] = IF i < k THEN pool[i] ELSE pool[i + 1]
        BY <2>3, <4>1, WithoutElements
      <4>3. Len(pool') = Len(pool) - 1
        BY <2>3, <4>1, WithoutElements
      <4>. QED
        BY <4>1, <4>2, <4>3
    <3>2. \A i \in 1 .. Len(pool) - 1 : at(i) \in 1 .. Len(pool) /\ at(i) # k /\ pool[at(i)] \in Viewer
      <4>1. \A i \in 1 .. Len(pool) : pool[i] \in Viewer
        BY DEF TypeOK
      <4>2. \A i \in 1 .. Len(pool) - 1 : at(i) \in 1 .. Len(pool) /\ at(i) # k
        BY <3>1
      <4>. QED
        BY <4>1, <4>2
    <3>3. \A i, j \in 1 .. Len(pool) - 1 : at(i) = at(j) => i = j
      BY <3>1
    <3>. HIDE DEF at
    <3>4. \A i \in 1 .. Len(pool) - 1 : pool[at(i)] # v /\ reader[pool[at(i)]] = "queued"
      BY <2>3, <3>2 DEF Waiting
    <3>5. \A w \in Viewer : w # v => reader'[w] = reader[w]
      BY <2>3 DEF Set, TypeOK
    <3>6. ASSUME NEW i \in 1 .. Len(pool) - 1
          PROVE  /\ reader'[pool'[i]] = "queued"
                 /\ \A j \in 1 .. Len(pool) - 1 : pool'[i] = pool'[j] => i = j
      <4>1. reader'[pool'[i]] = "queued"
        BY <3>1, <3>2, <3>4, <3>5
      <4>2. ASSUME NEW j \in 1 .. Len(pool) - 1, pool'[i] = pool'[j] PROVE i = j
        BY <3>1, <3>2, <3>3, <4>2 DEF Waiting
      <4>. QED
        BY <4>1, <4>2
    <3>. QED
      BY <3>1, <3>6 DEF Waiting
  <2>. QED
    BY <1>5, <2>1, <2>2, <2>3 DEF Close
<1>. QED
  BY <1>1, <1>2, <1>3, <1>4, <1>5 DEF Next, Task, Reader, Publish, Subscribe, Receive, Send, Break,
     vars, gateway

---------------------------------------------------------------------------
(* The items on their way.                                                 *)

\* A longer log fits as well.
LEMMA FitsGrows ==
    ASSUME TypeOK, TypeOK', NEW v \in Viewer, NEW item \in Item, NEW n \in Nat, Fits(v, item, n),
           log'[RoomOf[v]] >= log[RoomOf[v]]
    PROVE  Fits(v, item, n)'
<1>1. log[RoomOf[v]] \in Nat /\ log'[RoomOf[v]] \in Nat /\ Buffer \in Nat
  BY RoomAssumption, SizeAssumption DEF TypeOK
<1>2. item.event \in Nat /\ item.skipped \in Nat
  BY Items
<1>. QED
  BY <1>1, <1>2 DEF Fits, FitsIn

\* All of v but perhaps the log of its room is as it was.
Untouched(v) ==
    /\ from'[v] = from[v] /\ cursor'[v] = cursor[v] /\ task'[v] = task[v] /\ held'[v] = held[v]
    /\ queue'[v] = queue[v] /\ stream'[v] = stream[v] /\ socket'[v] = socket[v]
    /\ reader'[v] = reader[v] /\ frame'[v] = frame[v] /\ seen'[v] = seen[v]
    /\ log'[RoomOf[v]] >= log[RoomOf[v]]

LEMMA Elsewhere ==
    ASSUME TypeOK, TypeOK', NEW v \in Viewer, ViewerInv(v), Untouched(v)
    PROVE  ViewerInv(v)'
<1>0. /\ held[v] \in Item /\ frame[v] \in Item /\ queue[v] \in Seq(Item)
      /\ cursor[v] \in Nat /\ from[v] \in Nat /\ seen[v] \in Nat
  BY DEF TypeOK
<1>1. Begun(v)'
  BY DEF Begun, ViewerInv, Untouched
<1>2. InHand(v)'
  <2>1. cursor[v] >= Weight(held[v]) => cursor[v] - Weight(held[v]) \in Nat
    BY <1>0, Items
  <2>2. from[v] + seen[v] \in Nat
    BY <1>0
  <2>3. Fits(v, frame[v], from[v] + seen[v]) => Fits(v, frame[v], from[v] + seen[v])'
    BY <1>0, <2>2, FitsGrows DEF Untouched, Fits, FitsIn
  <2>4. cursor[v] >= Weight(held[v]) /\ Fits(v, held[v], cursor[v] - Weight(held[v]))
          => Fits(v, held[v], cursor[v] - Weight(held[v]))'
    BY <1>0, <2>1, FitsGrows DEF Untouched, Fits, FitsIn, Weight
  <2>. QED
    BY <2>3, <2>4 DEF InHand, ViewerInv, Untouched, Weight
<1>3. Line(v)'
  <2>1. PICK p \in [0 .. Len(queue[v]) -> Nat] : IsLine(v, p)
    BY DEF ViewerInv, Line
  <2>2. ASSUME NEW i \in 1 .. Len(queue[v]) PROVE Fits(v, queue[v][i], p[i - 1])'
    <3>1. queue[v][i] \in Item /\ p[i - 1] \in Nat /\ Fits(v, queue[v][i], p[i - 1])
      BY <1>0, <2>1 DEF IsLine
    <3>. QED
      BY <3>1, FitsGrows DEF Untouched, Fits, FitsIn
  <2>3. Front(v)' = Front(v)
    BY DEF Front, Untouched, Weight
  <2>4. IsLine(v, p)'
    BY <2>1, <2>2, <2>3 DEF IsLine, Untouched, Weight
  <2>. QED
    BY <2>1, <2>4 DEF Line, Untouched
<1>. QED
  BY <1>1, <1>2, <1>3 DEF ViewerInv

LEMMA OthersUntouched ==
    ASSUME TypeOK, NEW v \in Viewer, NEW w \in Viewer, w # v,
           Task(v) \/ Reader(v) \/ Connect(v) \/ Break(v) \/ Close(v)
    PROVE  Untouched(w)
<1>1. log[RoomOf[w]] \in Nat
  BY RoomAssumption DEF TypeOK
<1>2. CASE Task(v)
  BY <1>1, <1>2 DEF Untouched, Task, Subscribe, Receive, Send, TypeOK, Set, service, gateway, browser
<1>3. CASE Reader(v)
  BY <1>1, <1>3 DEF Untouched, Reader, NextReturns, NextRaises, SendFrame, AsksForThread, Cancel,
     TypeOK, Set, service, browser
<1>4. CASE Connect(v) \/ Break(v)
  BY <1>1, <1>4 DEF Untouched, Connect, Break, AsksForThread, TypeOK, Set, service, gateway, browser
<1>5. CASE Close(v)
  BY <1>1, <1>5 DEF Untouched, Close, Cancel, TypeOK, Set, service, browser
<1>. QED
  BY <1>2, <1>3, <1>4, <1>5

\* The line stays as long as queue and front do.
LEMMA LineStays ==
    ASSUME TypeOK, TypeOK', NEW v \in Viewer, Line(v),
           queue'[v] = queue[v], Front(v)' = Front(v), log' = log,
           stream'[v] = "open" =>
               /\ stream[v] = "open"
               /\ cursor'[v] + Weight(held[v]) = cursor[v] + Weight(held'[v])
    PROVE  Line(v)'
<1>1. PICK p \in [0 .. Len(queue[v]) -> Nat] : IsLine(v, p)
  BY DEF Line
<1>2. /\ p[Len(queue[v])] \in Nat /\ cursor[v] \in Nat /\ cursor'[v] \in Nat
      /\ Weight(held[v]) \in Nat /\ Weight(held'[v]) \in Nat
  BY Items DEF TypeOK
<1>3. stream[v] = "open" => p[Len(queue[v])] + Weight(held[v]) = cursor[v]
  BY <1>1 DEF IsLine
<1>4. stream'[v] = "open" => p[Len(queue[v])] + Weight(held'[v]) = cursor'[v]
  BY <1>2, <1>3
<1>5. IsLine(v, p)'
  BY <1>1, <1>4 DEF IsLine, Fits, FitsIn, Weight
<1>. QED
  BY <1>1, <1>5 DEF Line

\* What front and line are after a step
LEMMA FrontAfter ==
    ASSUME TypeOK', NEW v \in Viewer
    PROVE  Front(v)' = from'[v] + seen'[v] + Weight(frame'[v]) /\ Front(v)' \in Nat
<1>1. Front(v)' = from'[v] + seen'[v] + Weight(frame'[v])
  BY DEF Front, Weight
<1>2. from'[v] \in Nat /\ seen'[v] \in Nat /\ Weight(frame'[v]) \in Nat
  BY Items DEF TypeOK
<1>. QED
  BY <1>1, <1>2

LEMMA LineAfter ==
    ASSUME NEW v \in Viewer, NEW p \in [0 .. Len(queue'[v]) -> Nat],
           p[0] = Front(v)',
           \A i \in 1 .. Len(queue'[v]) :
              FitsIn(queue'[v][i], p[i - 1], log'[RoomOf[v]]) /\ p[i] = p[i - 1] + Weight(queue'[v][i]),
           stream'[v] = "open" => p[Len(queue'[v])] + Weight(held'[v]) = cursor'[v]
    PROVE  Line(v)'
<1>1. IsLine(v, p)'
  BY DEF IsLine, Fits, FitsIn, Weight
<1>. QED
  BY <1>1 DEF Line

\* An empty queue starts at the front.
LEMMA LineEmptied ==
    ASSUME TypeOK', NEW v \in Viewer, queue'[v] = <<>>,
           stream'[v] = "open" => Front(v)' + Weight(held'[v]) = cursor'[v]
    PROVE  Line(v)'
<1>1. Front(v)' \in Nat
  BY FrontAfter
<1>2. PICK n \in Nat : n = Front(v)'
  BY <1>1
<1>. DEFINE p == [i \in 0 .. 0 |-> n]
<1>3. p \in [0 .. 0 -> Nat] /\ Len(queue'[v]) = 0 /\ p[0] = n
  OBVIOUS
<1>. HIDE DEF p
<1>4. p \in [0 .. Len(queue'[v]) -> Nat] /\ p[0] = Front(v)' /\ 1 .. Len(queue'[v]) = {}
  BY <1>2, <1>3
<1>5. stream'[v] = "open" => p[Len(queue'[v])] + Weight(held'[v]) = cursor'[v]
  BY <1>2, <1>3
<1>. QED
  BY <1>4, <1>5, LineAfter

---------------------------------------------------------------------------
(* What each step does to the viewer it is about.                          *)

LEMMA SubscribeStep ==
    ASSUME TypeOK, TypeOK', NEW v \in Viewer, ViewerInv(v), Subscribe(v)
    PROVE  ViewerInv(v)'
<1>1. log[RoomOf[v]] \in Nat
  BY RoomAssumption DEF TypeOK
<1>2. /\ from[v] = 0 /\ queue'[v] = <<>> /\ frame'[v] = NoItem /\ seen'[v] = 0 /\ held'[v] = NoItem
      /\ reader'[v] # "sending" /\ socket'[v] # "new"
  BY DEF Subscribe, ViewerInv, Begun, InHand, TypeOK, gateway, browser
<1>3. /\ from'[v] = log[RoomOf[v]] + 1 /\ cursor'[v] = log[RoomOf[v]] + 1
      /\ task'[v] = "recv" /\ stream'[v] = "open"
  BY DEF Subscribe, TypeOK, Set
<1>4. Begun(v)'
  BY <1>1, <1>2, <1>3 DEF Begun
<1>5. InHand(v)'
  BY <1>2, <1>3 DEF InHand
<1>6. Front(v)' + Weight(held'[v]) = cursor'[v]
  BY <1>1, <1>2, <1>3, Items DEF Front, Weight
<1>7. Line(v)'
  BY <1>2, <1>6, LineEmptied
<1>. QED
  BY <1>4, <1>5, <1>7 DEF ViewerInv

LEMMA ReceiveStep ==
    ASSUME TypeOK, TypeOK', NEW v \in Viewer, ViewerInv(v), Receive(v)
    PROVE  ViewerInv(v)'
<1>1. from[v] # 0 /\ cursor[v] # 0 /\ held[v] = NoItem
  BY DEF Receive, ViewerInv, Begun, InHand
<1>2. Taken(v) \in Item /\ Fits(v, Taken(v), cursor[v])
      /\ held'[v] = Taken(v) /\ cursor'[v] = cursor[v] + Weight(Taken(v))
  <2>1. Taken(v) \in Item /\ Fits(v, Taken(v), cursor[v])
        /\ held' = Set(held, v, Taken(v)) /\ cursor' = Set(cursor, v, cursor[v] + Weight(Taken(v)))
    BY <1>1, Receives
  <2>. QED
    BY <2>1 DEF Set, TypeOK
<1>3. /\ task'[v] = "send" /\ from'[v] = from[v] /\ queue'[v] = queue[v] /\ stream'[v] = stream[v]
      /\ socket'[v] = socket[v] /\ reader'[v] = reader[v] /\ frame'[v] = frame[v]
      /\ seen'[v] = seen[v] /\ log' = log
  BY DEF Receive, Set, TypeOK, gateway, browser
<1>4. Weight(Taken(v)) \in Nat /\ cursor[v] \in Nat
  BY <1>2, Items DEF TypeOK
<1>5. Begun(v)'
  BY <1>1, <1>2, <1>3, <1>4 DEF ViewerInv, Begun
<1>6. InHand(v)'
  <2>1. cursor'[v] >= Weight(held'[v]) /\ cursor'[v] - Weight(held'[v]) = cursor[v]
    BY <1>2, <1>4
  <2>2. Fits(v, held[v], cursor[v] - Weight(held[v]))'
    BY <1>2, <1>3, <2>1 DEF Fits, FitsIn, Weight
  <2>. QED
    BY <1>3, <2>1, <2>2 DEF ViewerInv, InHand, Fits, FitsIn, Weight
<1>7. Front(v)' = Front(v)
  BY <1>3 DEF Front, Weight
<1>8. cursor'[v] + Weight(held[v]) = cursor[v] + Weight(held'[v])
  BY <1>1, <1>2, <1>4, Items
<1>9. Line(v)'
  BY <1>3, <1>7, <1>8, LineStays DEF ViewerInv
<1>. QED
  BY <1>5, <1>6, <1>9 DEF ViewerInv

LEMMA SendStep ==
    ASSUME TypeOK, TypeOK', NEW v \in Viewer, ViewerInv(v), Send(v)
    PROVE  ViewerInv(v)'
<1>1. /\ held'[v] = NoItem /\ from'[v] = from[v] /\ cursor'[v] = cursor[v]
      /\ stream'[v] = stream[v] /\ socket'[v] = socket[v] /\ reader'[v] = reader[v]
      /\ frame'[v] = frame[v] /\ seen'[v] = seen[v] /\ log' = log
  BY DEF Send, Set, TypeOK, gateway, browser
<1>2. task[v] = "send" /\ task'[v] # "send" /\ from[v] # 0
  BY DEF Send, Set, TypeOK, ViewerInv, Begun
<1>3. Begun(v)'
  BY <1>1, <1>2 DEF ViewerInv, Begun
<1>4. InHand(v)'
  BY <1>1, <1>2 DEF ViewerInv, InHand, Fits, FitsIn, Weight
<1>5. Front(v)' = Front(v)
  BY <1>1 DEF Front, Weight
<1>6. CASE stream[v] # "open"
  <2>1. queue'[v] = queue[v]
    BY <1>6 DEF Send
  <2>. QED
    BY <1>1, <1>3, <1>4, <1>5, <1>6, <2>1, LineStays DEF ViewerInv
<1>7. CASE stream[v] = "open"
  <2>. DEFINE n == Len(queue[v])
  <2>1. PICK p \in [0 .. n -> Nat] : IsLine(v, p)
    BY DEF ViewerInv, Line
  <2>2. /\ queue[v] \in Seq(Item) /\ n \in Nat /\ held[v] \in Item /\ Weight(held[v]) \in Nat
        /\ cursor[v] \in Nat /\ p[n] \in Nat
    BY <2>1, Items DEF TypeOK
  <2>3. queue'[v] = Append(queue[v], held[v])
    BY <1>7 DEF Send, Set, TypeOK
  <2>4. /\ Len(queue'[v]) = n + 1 /\ queue'[v][n + 1] = held[v]
        /\ \A i \in 1 .. n : queue'[v][i] = queue[v][i]
    BY <2>2, <2>3
  <2>5. p[n] + Weight(held[v]) = cursor[v] /\ cursor[v] - Weight(held[v]) = p[n]
    BY <1>7, <2>1, <2>2 DEF IsLine
  <2>6. Fits(v, held[v], p[n])
    BY <1>2, <1>7, <2>5 DEF ViewerInv, InHand
  <2>7. PICK q \in [0 .. n + 1 -> Nat] : q[n + 1] = cursor[v] /\ \A i \in 0 .. n : q[i] = p[i]
    <3>. DEFINE q == [i \in 0 .. n + 1 |-> IF i = n + 1 THEN cursor[v] ELSE p[i]]
    <3>1. q \in [0 .. n + 1 -> Nat] /\ q[n + 1] = cursor[v] /\ \A i \in 0 .. n : q[i] = p[i]
      BY <2>1, <2>2
    <3>. QED
      BY <3>1
  <2>. HIDE DEF n
  <2>8. ASSUME NEW i \in 1 .. n + 1
        PROVE  FitsIn(queue'[v][i], q[i - 1], log'[RoomOf[v]]) /\ q[i] = q[i - 1] + Weight(queue'[v][i])
    <3>1. CASE i = n + 1
      <4>1. q[i - 1] = p[n] /\ q[i] = cursor[v] /\ queue'[v][i] = held[v]
        BY <2>2, <2>4, <2>7, <3>1
      <4>2. Fits(v, queue'[v][i], q[i - 1])
        BY <2>6, <4>1
      <4>. QED
        BY <1>1, <2>5, <4>1, <4>2 DEF Fits, FitsIn
    <3>2. CASE i \in 1 .. n
      <4>0. n \in Nat
        BY <2>2
      <4>1. i - 1 \in 0 .. n /\ i \in 0 .. n /\ queue'[v][i] = queue[v][i]
        BY <4>0, <2>4, <3>2
      <4>2. Fits(v, queue[v][i], p[i - 1]) /\ p[i] = p[i - 1] + Weight(queue[v][i])
        BY <2>1, <3>2 DEF IsLine, n
      <4>3. Fits(v, queue'[v][i], q[i - 1]) /\ q[i] = q[i - 1] + Weight(queue'[v][i])
        BY <2>7, <4>1, <4>2
      <4>. QED
        BY <1>1, <4>3 DEF Fits, FitsIn
    <3>. QED
      BY <2>2, <3>1, <3>2
  <2>9. q[0] = Front(v)' /\ q[Len(queue'[v])] + Weight(held'[v]) = cursor'[v]
    <3>1. p[0] = Front(v) /\ 0 \in 0 .. n
      BY <2>1, <2>2 DEF IsLine
    <3>2. Weight(held'[v]) = 0
      BY <1>1, Items
    <3>. QED
      BY <1>1, <1>5, <2>2, <2>4, <2>7, <3>1, <3>2
  <2>10. Line(v)'
    BY <2>4, <2>7, <2>8, <2>9, LineAfter
  <2>. QED
    BY <1>3, <1>4, <2>10 DEF ViewerInv
<1>. QED
  BY <1>6, <1>7

LEMMA NextReturnsStep ==
    ASSUME TypeOK, TypeOK', NEW v \in Viewer, ViewerInv(v), NextReturns(v)
    PROVE  ViewerInv(v)'
<1>1. /\ from[v] # 0 /\ frame[v] = NoItem /\ queue[v] # <<>> /\ socket[v] # "new"
      /\ stream[v] \notin {"none", "called"}
  BY DEF NextReturns, ViewerInv, Begun, InHand
<1>2. /\ from' = from /\ seen' = seen /\ cursor' = cursor /\ task' = task /\ held' = held
      /\ socket' = socket /\ log' = log
  BY DEF NextReturns, service, browser
<1>3. CASE socket[v] = "closed"
  <2>1. /\ queue'[v] = <<>> /\ reader'[v] = "ended" /\ frame' = frame
        /\ stream'[v] \in {"broken", "gone"}
    BY <1>3 DEF NextReturns, Set, Cancel, TypeOK
  <2>2. Begun(v)' /\ InHand(v)'
    BY <1>1, <1>2, <2>1 DEF ViewerInv, Begun, InHand
  <2>3. Line(v)'
    BY <2>1, LineEmptied
  <2>. QED
    BY <2>2, <2>3 DEF ViewerInv
<1>4. CASE socket[v] = "open"
  <2>. DEFINE n == Len(queue[v])
              item == Head(queue[v])
  <2>1. PICK p \in [0 .. n -> Nat] : IsLine(v, p)
    BY DEF ViewerInv, Line
  <2>2. /\ queue'[v] = Tail(queue[v]) /\ frame'[v] = item /\ reader'[v] = "sending"
        /\ stream' = stream
    BY <1>4 DEF NextReturns, Set, TypeOK
  <2>3. /\ queue[v] \in Seq(Item) /\ n \in Nat /\ n >= 1 /\ item = queue[v][1]
        /\ Len(queue'[v]) = n - 1 /\ \A i \in 1 .. n - 1 : queue'[v][i] = queue[v][i + 1]
    BY <1>1, <2>2 DEF TypeOK
  <2>4. p[0] = from[v] + seen[v]
    <3>1. from[v] \in Nat /\ seen[v] \in Nat /\ Weight(frame[v]) = 0
      BY <1>1, Items DEF TypeOK
    <3>. QED
      BY <2>1, <3>1 DEF IsLine, Front
  <2>5. Fits(v, item, p[0]) /\ p[1] = p[0] + Weight(item)
    <3>1. 1 \in 1 .. n /\ 1 - 1 = 0
      BY <2>3
    <3>2. Fits(v, queue[v][1], p[1 - 1]) /\ p[1] = p[1 - 1] + Weight(queue[v][1])
      BY <2>1, <3>1 DEF IsLine
    <3>. QED
      BY <2>3, <3>1, <3>2
  <2>6. PICK q \in [0 .. n - 1 -> Nat] : \A i \in 0 .. n - 1 : q[i] = p[i + 1]
    <3>. DEFINE q == [i \in 0 .. n - 1 |-> p[i + 1]]
    <3>1. q \in [0 .. n - 1 -> Nat] /\ \A i \in 0 .. n - 1 : q[i] = p[i + 1]
      BY <2>1, <2>3
    <3>. QED
      BY <3>1
  <2>. HIDE DEF n, item
  <2>7. Begun(v)'
    BY <1>1, <1>2, <2>2 DEF ViewerInv, Begun
  <2>8. InHand(v)'
    BY <1>1, <1>2, <2>2, <2>4, <2>5 DEF ViewerInv, InHand, Fits, FitsIn, Weight
  <2>9. q[0] = Front(v)'
    <3>1. q[0] = p[1]
      BY <2>3, <2>6
    <3>2. Front(v)' = from[v] + seen[v] + Weight(item)
      BY <1>2, <2>2, FrontAfter
    <3>. QED
      BY <2>4, <2>5, <3>1, <3>2
  <2>10. ASSUME NEW i \in 1 .. n - 1
         PROVE  FitsIn(queue'[v][i], q[i - 1], log'[RoomOf[v]]) /\ q[i] = q[i - 1] + Weight(queue'[v][i])
    <3>1. n \in Nat
      BY <2>3
    <3>2. i - 1 \in 0 .. n - 1 /\ i \in 0 .. n - 1 /\ i + 1 \in 1 .. n /\ (i - 1) + 1 = i /\ (i + 1) - 1 = i
      BY <3>1
    <3>3. q[i - 1] = p[i] /\ q[i] = p[i + 1] /\ queue'[v][i] = queue[v][i + 1]
      <4>1. q[i - 1] = p[(i - 1) + 1]
        BY <2>6, <3>2
      <4>. QED
        BY <2>3, <2>6, <3>2, <4>1
    <3>4. Fits(v, queue[v][i + 1], p[(i + 1) - 1]) /\ p[i + 1] = p[(i + 1) - 1] + Weight(queue[v][i + 1])
      BY <2>1, <3>2 DEF IsLine, n
    <3>. QED
      BY <1>2, <3>2, <3>3, <3>4 DEF Fits
  <2>11. stream'[v] = "open" => q[Len(queue'[v])] + Weight(held'[v]) = cursor'[v]
    <3>1. q[n - 1] = p[n]
      <4>1. n \in Nat /\ n >= 1
        BY <2>3
      <4>2. n - 1 \in 0 .. n - 1 /\ (n - 1) + 1 = n
        BY <4>1
      <4>3. q[n - 1] = p[(n - 1) + 1]
        BY <2>6, <4>2
      <4>. QED
        BY <4>2, <4>3
    <3>2. stream[v] = "open" => p[n] + Weight(held[v]) = cursor[v]
      BY <2>1 DEF IsLine, n
    <3>. QED
      BY <1>2, <2>2, <2>3, <3>1, <3>2
  <2>12. Line(v)'
    <3>1. q \in [0 .. Len(queue'[v]) -> Nat]
      BY <2>3, <2>6
    <3>2. \A i \in 1 .. Len(queue'[v]) :
            FitsIn(queue'[v][i], q[i - 1], log'[RoomOf[v]]) /\ q[i] = q[i - 1] + Weight(queue'[v][i])
      BY <2>3, <2>10
    <3>. QED
      BY <2>9, <2>11, <3>1, <3>2, LineAfter
  <2>. QED
    BY <2>7, <2>8, <2>12 DEF ViewerInv
<1>. QED
  BY <1>3, <1>4 DEF NextReturns

LEMMA SendFrameStep ==
    ASSUME TypeOK, TypeOK', NEW v \in Viewer, ViewerInv(v), SendFrame(v)
    PROVE  ViewerInv(v)'
<1>1. /\ from' = from /\ cursor' = cursor /\ task' = task /\ held' = held /\ queue' = queue
      /\ stream' = stream /\ socket' = socket /\ log' = log
      /\ frame'[v] = NoItem /\ reader'[v] = "queued" /\ seen'[v] = seen[v] + Weight(frame[v])
  BY DEF SendFrame, AsksForThread, service, Set, TypeOK
<1>2. from[v] # 0 /\ reader[v] = "sending" /\ socket[v] # "new"
  BY DEF SendFrame, ViewerInv, InHand, Begun
<1>3. Begun(v)' /\ InHand(v)'
  BY <1>1, <1>2 DEF ViewerInv, Begun, InHand, Fits, FitsIn, Weight
<1>4. Front(v)' = Front(v)
  <2>1. from[v] \in Nat /\ seen[v] \in Nat /\ Weight(frame[v]) \in Nat /\ Weight(NoItem) = 0
    BY Items DEF TypeOK
  <2>2. Front(v)' = from[v] + (seen[v] + Weight(frame[v])) + 0
    BY <1>1, <2>1, FrontAfter
  <2>. QED
    BY <2>1, <2>2 DEF Front
<1>5. Line(v)'
  BY <1>1, <1>4, LineStays DEF ViewerInv
<1>. QED
  BY <1>3, <1>5 DEF ViewerInv

\* Steps that leave the items of v where they are, or drop the queue
LEMMA CallStep ==
    ASSUME TypeOK, TypeOK', NEW v \in Viewer, ViewerInv(v),
           from'[v] = from[v], cursor'[v] = cursor[v], task'[v] = task[v], held'[v] = held[v],
           seen'[v] = seen[v], log' = log, frame'[v] = NoItem, reader'[v] # "sending",
           \/ frame[v] = NoItem /\ queue'[v] = queue[v]
           \/ stream'[v] # "open" /\ queue'[v] = <<>>,
           stream'[v] = stream[v] \/ stream'[v] \in {"broken", "gone"} \/ stream'[v] = "called",
           stream'[v] = "called" => from[v] = 0,
           socket'[v] # "new"
    PROVE  ViewerInv(v)'
<1>1. Begun(v)'
  BY DEF ViewerInv, Begun
<1>2. InHand(v)'
  BY DEF ViewerInv, InHand, Fits, FitsIn, Weight
<1>3. CASE stream'[v] # "open" /\ queue'[v] = <<>>
  BY <1>1, <1>2, <1>3, LineEmptied DEF ViewerInv
<1>4. CASE queue'[v] = queue[v] /\ frame[v] = NoItem
  <2>1. Front(v)' = Front(v)
    BY <1>4, FrontAfter DEF Front
  <2>2. Line(v)'
    BY <1>4, <2>1, LineStays DEF ViewerInv
  <2>. QED
    BY <1>1, <1>2, <2>2 DEF ViewerInv
<1>. QED
  BY <1>3, <1>4

LEMMA BreakStep ==
    ASSUME TypeOK, TypeOK', NEW v \in Viewer, ViewerInv(v), Break(v)
    PROVE  ViewerInv(v)'
<1>1. /\ from' = from /\ cursor' = cursor /\ task' = task /\ held' = held /\ frame' = frame
      /\ seen' = seen /\ reader' = reader /\ socket' = socket /\ log' = log
      /\ stream'[v] = "broken" /\ queue'[v] \in {queue[v], <<>>} /\ socket[v] # "new"
  BY DEF Break, service, gateway, browser, Set, TypeOK, ViewerInv, Begun
<1>2. Begun(v)' /\ InHand(v)'
  BY <1>1 DEF ViewerInv, Begun, InHand, Fits, FitsIn, Weight
<1>3. Front(v)' = Front(v)
  BY <1>1, FrontAfter DEF Front
<1>4. Line(v)'
  BY <1>1, <1>3, LineStays, LineEmptied DEF ViewerInv
<1>. QED
  BY <1>2, <1>4 DEF ViewerInv

LEMMA ConnectStep ==
    ASSUME TypeOK, TypeOK', NEW v \in Viewer, ViewerInv(v), Connect(v)
    PROVE  ViewerInv(v)'
<1>1. stream[v] = "none" /\ from[v] = 0 /\ frame[v] = NoItem
  BY DEF Connect, ViewerInv, Begun
<1>2. /\ from' = from /\ cursor' = cursor /\ task' = task /\ held' = held /\ queue' = queue
      /\ frame' = frame /\ seen' = seen /\ log' = log
      /\ stream'[v] = "called" /\ reader'[v] = "queued" /\ socket'[v] = "open"
  BY DEF Connect, AsksForThread, service, browser, Set, TypeOK
<1>. QED
  BY <1>1, <1>2, CallStep

LEMMA NextRaisesStep ==
    ASSUME TypeOK, TypeOK', NEW v \in Viewer, ViewerInv(v), NextRaises(v)
    PROVE  ViewerInv(v)'
<1>1. frame[v] = NoItem /\ socket[v] # "new" /\ stream[v] = "broken"
  BY DEF NextRaises, ViewerInv, InHand, Begun
<1>2. /\ from' = from /\ cursor' = cursor /\ task' = task /\ held' = held /\ queue' = queue
      /\ frame' = frame /\ seen' = seen /\ log' = log
      /\ stream' = stream /\ reader'[v] = "ended" /\ socket' = socket
  BY DEF NextRaises, service, browser, Set, TypeOK
<1>. QED
  BY <1>1, <1>2, CallStep

LEMMA CloseStep ==
    ASSUME TypeOK, TypeOK', NEW v \in Viewer, ViewerInv(v), Close(v)
    PROVE  ViewerInv(v)'
<1>1. /\ from' = from /\ cursor' = cursor /\ task' = task /\ held' = held
      /\ frame'[v] = NoItem /\ seen' = seen /\ log' = log /\ socket'[v] = "closed"
  BY DEF Close, service, browser, Set, TypeOK
<1>2. CASE reader[v] = "reading" /\ UNCHANGED <<reader, pool, queue, stream>>
  <2>1. frame[v] = NoItem
    BY <1>2 DEF ViewerInv, InHand
  <2>2. stream[v] # "called" \/ from[v] = 0
    BY DEF ViewerInv, Begun
  <2>. QED
    BY <1>1, <1>2, <2>1, <2>2, CallStep
<1>3. CASE reader' = Set(reader, v, "ended") /\ queue' = Set(queue, v, <<>>) /\ Cancel(v)
  <2>1. reader'[v] = "ended" /\ queue'[v] = <<>> /\ stream'[v] \in {"broken", "gone"}
    BY <1>3 DEF Cancel, Set, TypeOK
  <2>. QED
    BY <1>1, <2>1, CallStep
<1>. QED
  BY <1>2, <1>3 DEF Close

LEMMA TakeThreadStep ==
    ASSUME TypeOK, TypeOK', Waiting, TakeThread, NEW v \in Viewer, ViewerInv(v)
    PROVE  ViewerInv(v)'
<1>1. Len(pool) \in Nat /\ Len(pool) >= 1 /\ Head(pool) = pool[1] /\ pool[1] \in Viewer
  <2>1. pool \in Seq(Viewer) /\ pool # <<>>
    BY DEF TakeThread, TypeOK
  <2>. QED
    BY <2>1
<1>2. reader[Head(pool)] = "queued"
  BY <1>1 DEF Waiting
<1>3. /\ log' = log /\ from' = from /\ cursor' = cursor /\ task' = task /\ held' = held
      /\ queue' = queue /\ stream' = stream /\ socket' = socket /\ frame' = frame /\ seen' = seen
      /\ reader' = Set(reader, Head(pool), "reading")
  BY DEF TakeThread, service, browser
<1>4. CASE v = Head(pool)
  <2>1. reader'[v] = "reading"
    BY <1>3, <1>4 DEF Set, TypeOK
  <2>2. frame[v] = NoItem /\ socket[v] # "new" /\ (stream[v] # "called" \/ from[v] = 0)
    BY <1>2, <1>4 DEF ViewerInv, InHand, Begun
  <2>. QED
    BY <1>3, <2>1, <2>2, CallStep
<1>5. CASE v # Head(pool)
  <2>1. reader'[v] = reader[v]
    BY <1>1, <1>3, <1>5 DEF Set, TypeOK
  <2>2. log[RoomOf[v]] \in Nat
    BY RoomAssumption DEF TypeOK
  <2>3. Untouched(v)
    BY <1>3, <2>1, <2>2 DEF Untouched
  <2>. QED
    BY <2>3, Elsewhere
<1>. QED
  BY <1>4, <1>5

---------------------------------------------------------------------------
(* The invariant holds.                                                    *)

LEMMA InvInit == Init => Inv
<1>. SUFFICES ASSUME Init PROVE Inv
  OBVIOUS
<1>1. TypeOK
  BY InitType
<1>2. Waiting
  BY DEF Init, Waiting
<1>3. ASSUME NEW v \in Viewer PROVE ViewerInv(v)
  <2>1. /\ from[v] = 0 /\ cursor[v] = 0 /\ task[v] = "none" /\ held[v] = NoItem /\ queue[v] = <<>>
        /\ stream[v] = "none" /\ socket[v] = "new" /\ reader[v] = "none" /\ frame[v] = NoItem
        /\ seen[v] = 0
    BY DEF Init
  <2>2. Begun(v) /\ InHand(v)
    BY <2>1 DEF Begun, InHand
  <2>3. Line(v)
    <3>. DEFINE p == [i \in 0 .. 0 |-> 0]
    <3>1. p \in [0 .. 0 -> Nat] /\ p[0] = 0 /\ Len(queue[v]) = 0
      BY <2>1
    <3>2. Front(v) = 0
      BY <2>1, Items DEF Front
    <3>3. IsLine(v, p)
      BY <2>1, <3>1, <3>2 DEF IsLine
    <3>. QED
      BY <3>1, <3>3 DEF Line
  <2>. QED
    BY <2>2, <2>3 DEF ViewerInv
<1>. QED
  BY <1>1, <1>2, <1>3 DEF Inv

LEMMA InvStep == Inv /\ [Next]_vars => Inv'
<1>. SUFFICES ASSUME Inv, [Next]_vars PROVE Inv'
  OBVIOUS
<1>1. TypeOK /\ Waiting /\ \A v \in Viewer : Begun(v) /\ ViewerInv(v)
  BY DEF Inv, ViewerInv
<1>2. TypeOK'
  BY <1>1, TypeStep
<1>3. Waiting'
  BY WaitingStep
<1>4. ASSUME NEW w \in Viewer PROVE ViewerInv(w)'
  <2>1. log[RoomOf[w]] \in Nat
    BY <1>1, RoomAssumption DEF TypeOK
  <2>2. CASE UNCHANGED vars
    <3>1. Untouched(w)
      BY <2>1, <2>2 DEF Untouched, vars, service, gateway, browser
    <3>. QED
      BY <1>1, <1>2, <3>1, Elsewhere
  <2>3. ASSUME NEW r \in Room, Publish(r) PROVE ViewerInv(w)'
    <3>1. Untouched(w)
      BY <1>1, <2>1, <2>3 DEF Untouched, Publish, service, gateway, browser, TypeOK
    <3>. QED
      BY <1>1, <1>2, <3>1, Elsewhere
  <2>4. CASE TakeThread
    BY <1>1, <1>2, <2>4, TakeThreadStep
  <2>5. ASSUME NEW v \in Viewer, Task(v) \/ Reader(v) \/ Connect(v) \/ Break(v) \/ Close(v)
        PROVE  ViewerInv(w)'
    <3>1. CASE w # v
      <4>1. Untouched(w)
        BY <1>1, <2>5, <3>1, OthersUntouched
      <4>. QED
        BY <1>1, <1>2, <4>1, Elsewhere
    <3>2. CASE w = v /\ Task(v)
      BY <1>1, <1>2, <3>2, SubscribeStep, ReceiveStep, SendStep DEF Task
    <3>3. CASE w = v /\ Reader(v)
      BY <1>1, <1>2, <3>3, NextReturnsStep, NextRaisesStep, SendFrameStep DEF Reader
    <3>4. CASE w = v /\ (Connect(v) \/ Break(v) \/ Close(v))
      BY <1>1, <1>2, <3>4, ConnectStep, BreakStep, CloseStep
    <3>. QED
      BY <2>5, <3>1, <3>2, <3>3, <3>4
  <2>. QED
    BY <2>2, <2>3, <2>4, <2>5 DEF Next
<1>. QED
  BY <1>2, <1>3, <1>4 DEF Inv

\* Every variable keeps its type, with channels, queues and pools of any size
\* (spawn_room_actor, subscribe_room_events, ws).
THEOREM TypeCorrect == Spec => []TypeOK
<1>1. Inv => TypeOK
  BY DEF Inv
<1>. QED
  BY InvInit, InvStep, <1>1, PTL DEF Spec

---------------------------------------------------------------------------
(* The simulation.  The line says what events_loop has in hand: the event  *)
(* that is due, or how many the channel has pushed out.                    *)

LEMMA FeedInit == Init => Feed!Init
BY DEF Init, Feed!Init

\* What a browser is sent is the event due or announces events pushed out.
LEMMA FrameShown ==
    ASSUME Inv, NEW v \in Viewer, SendFrame(v)
    PROVE  Feed!Show(v) \/ Feed!Announce(v)
<1>. DEFINE item == frame[v]
<1>1. /\ log[RoomOf[v]] \in Nat /\ from[v] \in Nat /\ seen[v] \in Nat /\ Buffer \in Nat \ {0}
      /\ item.event \in Nat /\ item.skipped \in Nat /\ last \in [Viewer -> Nat]
  BY RoomAssumption, SizeAssumption, Items DEF Inv, TypeOK
<1>2. from[v] # 0 /\ Fits(v, item, from[v] + seen[v])
  BY DEF SendFrame, Inv, ViewerInv, InHand
<1>3. /\ log' = log /\ from' = from
      /\ seen' = [seen EXCEPT ![v] = seen[v] + Weight(item)]
      /\ last' = [last EXCEPT ![v] = IF item.event # 0 THEN item.event ELSE last[v]]
  BY DEF SendFrame, Set
<1>. HIDE DEF item
<1>4. CASE item.event # 0
  <2>1. item.event = from[v] + seen[v] /\ item.event <= log[RoomOf[v]] /\ Weight(item) = 1
    BY <1>2, <1>4 DEF Fits, FitsIn, Weight
  <2>2. Feed!Show(v)
    BY <1>2, <1>3, <1>4, <2>1 DEF Feed!Show, Feed!Due
  <2>. QED
    BY <2>2
<1>5. CASE item.event = 0
  <2>. DEFINE n == item.skipped
  <2>1. n >= 1 /\ from[v] + seen[v] + n - 1 + Buffer <= log[RoomOf[v]] /\ Weight(item) = n
    BY <1>2, <1>5 DEF Fits, FitsIn, Weight
  <2>2. n \in 1 .. log[RoomOf[v]]
    BY <1>1, <1>2, <2>1
  <2>3. last' = last
    BY <1>1, <1>3, <1>5
  <2>4. Feed!Announce(v)
    BY <1>2, <1>3, <2>1, <2>2, <2>3 DEF Feed!Announce, Feed!Due
  <2>. QED
    BY <2>4
<1>. QED
  BY <1>4, <1>5

LEMMA FeedStep == Inv /\ [Next]_vars => [Feed!Next]_(Feed!vars)
<1>. SUFFICES ASSUME Inv, [Next]_vars PROVE Feed!Next \/ UNCHANGED <<log, from, seen, last>>
  BY DEF Feed!vars
<1>1. CASE UNCHANGED vars
  BY <1>1 DEF vars, browser
<1>2. ASSUME NEW r \in Room, Publish(r) PROVE Feed!Next
  <2>1. Feed!Publish(r)
    BY <1>2 DEF Publish, Feed!Publish, browser
  <2>. QED
    BY <2>1 DEF Feed!Next
<1>3. ASSUME NEW v \in Viewer, Subscribe(v) PROVE Feed!Next
  <2>1. from[v] = 0
    BY <1>3 DEF Subscribe, Inv, ViewerInv, Begun
  <2>2. Feed!Subscribe(v)
    BY <1>3, <2>1 DEF Subscribe, Feed!Subscribe, Set, browser
  <2>. QED
    BY <2>2 DEF Feed!Next
<1>4. ASSUME NEW v \in Viewer, SendFrame(v) PROVE Feed!Next
  BY <1>4, FrameShown DEF Feed!Next
<1>5. CASE TakeThread
  BY <1>5 DEF TakeThread, browser
<1>6. ASSUME NEW v \in Viewer,
             Receive(v) \/ Send(v) \/ NextReturns(v) \/ NextRaises(v)
             \/ Connect(v) \/ Break(v) \/ Close(v)
      PROVE  UNCHANGED <<log, from, seen, last>>
  BY <1>6 DEF Receive, Send, NextReturns, NextRaises, Connect, Break, Close, browser
<1>. QED
  BY <1>1, <1>2, <1>3, <1>4, <1>5, <1>6 DEF Next, Task, Reader

\* Through the broadcast channel, the task and queue of subscribe_room_events,
\* the stream, the threads and the websockets, with calls that break and
\* sockets that close at any time, each browser is shown the events of its room
\* in order and at most once, and told how many the channel pushed out before
\* it is shown the next.
THEOREM RoomEventsImplementFeed == Spec => ImplementsFeed
<1>. QED
  BY InvInit, InvStep, FeedInit, FeedStep, PTL DEF Spec, ImplementsFeed, Feed!Spec
===========================================================================
