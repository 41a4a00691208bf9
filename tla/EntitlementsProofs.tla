------------------------ MODULE EntitlementsProofs ------------------------
(***************************************************************************)
(* Proofs about Entitlements for every set of concurrent requests, every   *)
(* set of features and plans, and every number of months and requests.     *)
(***************************************************************************)
EXTENDS Entitlements, FiniteSetTheorems, TLAPS

LEMMA ColumnType == ASSUME NEW f PROVE ColumnOf(f) \in Column
  BY DEF ColumnOf, Column

LEMMA CountType == 0 \in Count /\ Count \subseteq Nat /\ 0 \in Month /\ Month \subseteq Nat
  BY CountAssumption DEF Count, Month

LEMMA NoRequestType == NoRequest \in Request
<1>1. (CHOOSE f \in Feature : TRUE) \in Feature
  BY FeatureAssumption
<1>. QED
  BY <1>1, CountType DEF NoRequest, Request

LEMMA PlansType == ASSUME NEW code PROVE PlansFor(code) \subseteq Plan
  BY DEF PlansFor

LEMMA InitTyped == Init => TypeOK
<1>. SUFFICES ASSUME Init PROVE TypeOK
  OBVIOUS
<1>1. counter \in [Month -> [Column -> Count]]
  BY CountType DEF Init
<1>2. req \in [Caller -> Request]
  BY NoRequestType DEF Init
<1>3. usageCache \in [Feature -> [Month -> Count \cup {None}]]
  BY DEF Init
<1>. QED
  BY <1>1, <1>2, <1>3, CountType DEF Init, TypeOK, Step

\* The parts of the type invariant a step of caller c may disturb through the
\* locals of its request.
LEMMA RequestType ==
    ASSUME TypeOK, NEW c \in Caller
    PROVE  /\ req[c] \in Request
           /\ req[c].feature \in Feature
           /\ req[c].began \in Month /\ req[c].month \in Month
           /\ req[c].plan \in Plan \cup {None}
           /\ req[c].used \in Count
           /\ Used(c) \in Count
  BY ColumnType DEF TypeOK, Request, Used

\* One entry of the usage cache is written or dropped.
LEMMA CacheEntryType ==
    ASSUME TypeOK, NEW f \in Feature, NEW m \in Month, NEW v \in Count \cup {None},
           usageCache' = [usageCache EXCEPT ![f][m] = v]
    PROVE  /\ usageCache' \in [Feature -> [Month -> Count \cup {None}]]
           /\ \A g \in Feature, n \in Month :
                usageCache'[g][n] = IF g = f /\ n = m THEN v ELSE usageCache[g][n]
<1>1. /\ usageCache \in [Feature -> [Month -> Count \cup {None}]]
      /\ usageCache[f] \in [Month -> Count \cup {None}]
  BY DEF TypeOK
<1>2. [usageCache[f] EXCEPT ![m] = v] \in [Month -> Count \cup {None}]
  BY <1>1
<1>3. usageCache' = [usageCache EXCEPT ![f] = [usageCache[f] EXCEPT ![m] = v]]
  OBVIOUS
<1>4. /\ usageCache' \in [Feature -> [Month -> Count \cup {None}]]
      /\ usageCache'[f] = [usageCache[f] EXCEPT ![m] = v]
      /\ \A g \in Feature : g # f => usageCache'[g] = usageCache[g]
  BY <1>1, <1>2, <1>3
<1>. QED
  BY <1>1, <1>4

LEMMA FinishType ==
    ASSUME TypeOK, NEW c \in Caller, Finish(c)
    PROVE  step' \in [Caller -> Step] /\ req' \in [Caller -> Request]
  BY NoRequestType DEF TypeOK, Finish, Goto, Step

LEMMA BeginReportType ==
    ASSUME TypeOK, NEW c \in Caller, BeginReport(c)
    PROVE  step' \in [Caller -> Step] /\ req' \in [Caller -> Request]
<1>1. req[c] \in Request /\ month \in Month
  BY RequestType DEF TypeOK
<1>2. [req[c] EXCEPT !.began = month] \in Request
  BY <1>1 DEF Request
<1>. QED
  BY <1>2 DEF TypeOK, BeginReport, Goto, Step

LEMMA CheckTyped == ASSUME TypeOK, NEW c \in Caller, NEW f \in Feature, Check(c, f) PROVE TypeOK'
<1>. DEFINE e == /\ \A d \in Caller : step[d] \notin Reporting
                 /\ \A p \in Plan : counter[month][ColumnOf(f)] >= Quota[p]
            r == [NoRequest EXCEPT !.feature = f, !.began = month, !.month = month,
                                   !.exhausted = e]
<1>1. e \in BOOLEAN
  OBVIOUS
<1>. HIDE DEF e
<1>2. r \in Request
  BY <1>1, NoRequestType DEF Request, TypeOK
<1>3. req' = [req EXCEPT ![c] = r]
  BY DEF Check, e
<1>. HIDE DEF r
<1>. QED
  BY <1>2, <1>3 DEF Check, TypeOK, Goto, Step, outside, caches

\* resolve_usage and what it leaves in the caches.
LEMMA ReadCacheTyped ==
    ASSUME TypeOK, NEW c \in Caller, NEW hit \in Step, NEW miss \in Step,
           ReadCache(c, hit, miss)
    PROVE  TypeOK'
<1>. DEFINE cached == usageCache[req[c].feature][req[c].month]
            u == IF cached = None THEN 0 ELSE cached
<1>1. u \in Count
  BY RequestType, CountType DEF TypeOK
<1>2. /\ req' = [req EXCEPT ![c].used = u]
      /\ step' = [step EXCEPT ![c] = IF cached = None THEN miss ELSE hit]
  BY DEF ReadCache, Goto
<1>. HIDE DEF u
<1>3. [req[c] EXCEPT !.used = u] \in Request
  BY <1>1, RequestType DEF Request
<1>. QED
  BY <1>2, <1>3 DEF ReadCache, TypeOK, outside, caches

LEMMA ReadCounterTyped ==
    ASSUME TypeOK, NEW c \in Caller, NEW next \in Step, ReadCounter(c, next)
    PROVE  TypeOK'
<1>1. [req[c] EXCEPT !.used = Used(c)] \in Request
  BY RequestType DEF Request
<1>. QED
  BY <1>1 DEF ReadCounter, Goto, TypeOK, outside, caches

LEMMA SaveUsageTyped ==
    ASSUME TypeOK, NEW c \in Caller, NEW m \in Month, NEW next \in Step, SaveUsage(c, m, next)
    PROVE  TypeOK'
<1>1. usageCache' \in [Feature -> [Month -> Count \cup {None}]]
  <2>1. \/ usageCache' = [usageCache EXCEPT ![req[c].feature][m] = req[c].used]
        \/ UNCHANGED usageCache
    BY DEF SaveUsage
  <2>. QED
    BY <2>1, RequestType, CacheEntryType DEF TypeOK
<1>. QED
  BY <1>1 DEF SaveUsage, Goto, TypeOK, outside

LEMMA NextTyped == TypeOK /\ [Next]_vars => TypeOK'
<1>. SUFFICES ASSUME TypeOK, [Next]_vars PROVE TypeOK'
  OBVIOUS
<1>1. ASSUME NEW c \in Caller, NEW f \in Feature, Check(c, f) PROVE TypeOK'
  BY <1>1, CheckTyped
<1>2. ASSUME NEW c \in Caller, ReadPlanCache(c) PROVE TypeOK'
  <2>1. planCache # None => [req[c] EXCEPT !.plan = planCache, !.month = month] \in Request
    BY RequestType DEF Request, TypeOK
  <2>. QED
    BY <1>2, <2>1 DEF ReadPlanCache, Goto, Step, TypeOK, outside, caches
<1>3. ASSUME NEW c \in Caller, ReadPlan(c) PROVE TypeOK'
  <2>1. PICK p \in PlansFor(userPlan) : req' = [req EXCEPT ![c].plan = p]
    BY <1>3 DEF ReadPlan
  <2>2. p \in Plan
    BY PlansType
  <2>3. [req[c] EXCEPT !.plan = p] \in Request
    BY <2>2, RequestType DEF Request
  <2>. QED
    BY <1>3, <2>1, <2>3 DEF ReadPlan, Goto, Step, TypeOK, outside, caches
<1>4. ASSUME NEW c \in Caller, SavePlan(c) PROVE TypeOK'
  <2>1. [req[c] EXCEPT !.month = month] \in Request
    BY RequestType DEF Request, TypeOK
  <2>2. planCache' \in Plan \cup {None}
    BY <1>4, RequestType DEF SavePlan, TypeOK
  <2>. QED
    BY <1>4, <2>1, <2>2 DEF SavePlan, Goto, Step, TypeOK, outside
<1>5. ASSUME NEW c \in Caller, CheckUsage(c) PROVE TypeOK'
  <2>1. {"answer", "readUsage", "saveUsage"} \subseteq Step /\ req[c].month \in Month
    BY RequestType DEF Step
  <2>. QED
    BY <1>5, <2>1, ReadCacheTyped, ReadCounterTyped, SaveUsageTyped DEF CheckUsage
<1>6. ASSUME NEW c \in Caller, Answer(c) PROVE TypeOK'
  <2>1. step' \in [Caller -> Step] /\ req' \in [Caller -> Request]
    BY <1>6, FinishType, BeginReportType DEF Answer, Goto, Step, TypeOK
  <2>. QED
    BY <1>6, <2>1 DEF Answer, TypeOK, outside, caches
<1>7. ASSUME NEW c \in Caller, Perform(c) PROVE TypeOK'
  <2>1. step' \in [Caller -> Step] /\ req' \in [Caller -> Request]
    BY <1>7, FinishType, BeginReportType DEF Perform
  <2>2. performed' \in [Feature -> Nat]
    BY <1>7, RequestType DEF Perform, TypeOK
  <2>. QED
    BY <1>7, <2>1, <2>2 DEF Perform, TypeOK, outside, caches
<1>8. ASSUME NEW c \in Caller, Increment(c) PROVE TypeOK'
  <2>. DEFINE k == ColumnOf(req[c].feature)
              m == req[c].began
  <2>1. k \in Column /\ m \in Month
    BY ColumnType, RequestType
  <2>2. counter[m][k] \in Nat /\ counter[m][k] + 1 <= MaxCount
    BY <1>8, <2>1, CountType DEF Increment, Fits, TypeOK
  <2>3. counter[m][k] + 1 \in Count
    BY <2>2, CountAssumption DEF Count
  <2>4. counter' = [counter EXCEPT ![m][k] = counter[m][k] + 1]
    BY <1>8 DEF Increment
  <2>. HIDE DEF k, m
  <2>5. counter' \in [Month -> [Column -> Count]]
    BY <2>1, <2>3, <2>4 DEF TypeOK
  <2>6. [req[c] EXCEPT !.month = month] \in Request
    BY RequestType DEF Request, TypeOK
  <2>7. reported' \in [Feature -> Nat]
    BY <1>8, RequestType DEF Increment, TypeOK
  <2>. QED
    BY <1>8, <2>5, <2>6, <2>7 DEF Increment, Goto, Step, TypeOK, outside, caches
<1>9. ASSUME NEW c \in Caller, ReportUsage(c) PROVE TypeOK'
  <2>1. {"saveReported", "rereadUsage", "saveReread"} \subseteq Step /\ req[c].month \in Month
    BY RequestType DEF Step
  <2>. QED
    BY <1>9, <2>1, ReadCacheTyped, ReadCounterTyped, SaveUsageTyped DEF ReportUsage
<1>10. ASSUME NEW c \in Caller, Reported(c) PROVE TypeOK'
  <2>1. usageCache' \in [Feature -> [Month -> Count \cup {None}]]
    <3>1. \/ usageCache' = [usageCache EXCEPT ![req[c].feature][req[c].began] = req[c].used]
          \/ UNCHANGED usageCache
      BY <1>10 DEF Reported, ReportKey
    <3>. QED
      BY <3>1, RequestType, CacheEntryType DEF TypeOK
  <2>2. step' \in [Caller -> Step] /\ req' \in [Caller -> Request]
    BY <1>10, FinishType DEF Reported, Goto, Step, TypeOK
  <2>. QED
    BY <1>10, <2>1, <2>2 DEF Reported, TypeOK, outside
<1>11. ASSUME NEW c \in Caller, Fail(c) PROVE TypeOK'
  <2>1. step' \in [Caller -> Step] /\ req' \in [Caller -> Request]
    BY <1>11, FinishType DEF Fail
  <2>. QED
    BY <1>11, <2>1 DEF Fail, TypeOK, outside, caches
<1>12. CASE Expire
  <2>1. usageCache' \in [Feature -> [Month -> Count \cup {None}]]
    BY <1>12, CacheEntryType DEF Expire, TypeOK
  <2>. QED
    BY <1>12, <2>1 DEF Expire, TypeOK, outside
<1>13. CASE NextMonth
  <2>1. month' \in Month
    BY <1>13, CountAssumption DEF NextMonth, Month, TypeOK
  <2>. QED
    BY <1>13, <2>1 DEF NextMonth, TypeOK, caches
<1>14. CASE UNCHANGED vars
  BY <1>14 DEF vars, TypeOK, outside, caches
<1>. QED
  BY <1>1, <1>2, <1>3, <1>4, <1>5, <1>6, <1>7, <1>8, <1>9, <1>10, <1>11, <1>12, <1>13, <1>14
  DEF Next, CallerStep

\* Type correctness, the width of the counters' columns included.
THEOREM TypeCorrect == Spec => []TypeOK
  BY InitTyped, NextTyped, PTL DEF Spec

---------------------------------------------------------------------------
(* A cached usage and the usage a request holds never exceed the counter.   *)
(* The cache holds no month to come; a request's months are ordered, so a   *)
(* report that ends in a later month than it began writes an old key.       *)

Rereading == {"rereadCache", "rereadUsage", "saveReread", "saveReported"}
Holding == {"saveUsage", "answer", "saveReread", "saveReported"}

CacheBelowCounter ==
    \A f \in Feature, m \in Month :
        m >= month /\ usageCache[f][m] # None => usageCache[f][m] <= counter[m][ColumnOf(f)]
MonthsOrdered(c) ==
    /\ req[c].began <= month /\ req[c].month <= month
    /\ step[c] \in Rereading => req[c].began <= req[c].month
HeldBelowCounter(c) ==
    step[c] \in Holding /\ req[c].month = month
    => req[c].used <= counter[month][ColumnOf(req[c].feature)]
UsageInv ==
    /\ TypeOK
    /\ CacheBelowCounter
    /\ \A c \in Caller : MonthsOrdered(c) /\ HeldBelowCounter(c)

LEMMA CounterNat ==
    ASSUME NEW ctr \in [Month -> [Column -> Count]], NEW m \in Month, NEW k \in Column
    PROVE  ctr[m][k] \in Nat
<1>1. ctr[m] \in [Column -> Count]
  OBVIOUS
<1>. QED
  BY <1>1, CountType

LEMMA CounterGrows ==
    ASSUME TypeOK, NEW c \in Caller, Increment(c), NEW m \in Month, NEW k \in Column
    PROVE  counter'[m][k] >= counter[m][k]
<1>. DEFINE l == ColumnOf(req[c].feature)
            n == req[c].began
<1>1. n \in Month /\ l \in Column
  BY RequestType, ColumnType
<1>2. counter' = [counter EXCEPT ![n][l] = counter[n][l] + 1]
  BY DEF Increment
<1>. HIDE DEF n, l
<1>3. counter[m][k] \in Nat /\ counter[n][l] \in Nat
  BY <1>1, CounterNat DEF TypeOK
<1>4. counter'[m] = IF m = n THEN [counter[n] EXCEPT ![l] = counter[n][l] + 1] ELSE counter[m]
  BY <1>1, <1>2 DEF TypeOK
<1>5. counter[m] \in [Column -> Count]
  BY DEF TypeOK
<1>6. counter'[m][k] = IF m = n /\ k = l THEN counter[n][l] + 1 ELSE counter[m][k]
  BY <1>1, <1>4, <1>5
<1>. QED
  BY <1>3, <1>6

\* A step that leaves month and caches alone, lowers no counter and writes
\* the locals of one request keeps what holds of the other requests.
LEMMA OneCallerMoves ==
    ASSUME UsageInv, TypeOK', NEW c \in Caller, UNCHANGED month,
           \A m \in Month, k \in Column : counter'[m][k] >= counter[m][k],
           \A d \in Caller \ {c} : req'[d] = req[d] /\ step'[d] = step[d],
           MonthsOrdered(c)', HeldBelowCounter(c)'
    PROVE  \A d \in Caller : MonthsOrdered(d)' /\ HeldBelowCounter(d)'
<1>. SUFFICES ASSUME NEW d \in Caller \ {c} PROVE MonthsOrdered(d)' /\ HeldBelowCounter(d)'
  OBVIOUS
<1>1. MonthsOrdered(d)'
  BY DEF UsageInv, MonthsOrdered
<1>2. HeldBelowCounter(d)'
  <2>. DEFINE k == ColumnOf(req[d].feature)
  <2>1. k \in Column /\ month \in Month
    BY ColumnType DEF UsageInv, TypeOK
  <2>2. counter'[month][k] >= counter[month][k]
    BY <2>1
  <2>3. counter[month][k] \in Nat /\ counter'[month][k] \in Nat /\ req[d].used \in Nat
    <3>1. req[d].used \in Nat
      BY CountType, RequestType DEF UsageInv
    <3>2. counter \in [Month -> [Column -> Count]] /\ counter' \in [Month -> [Column -> Count]]
      BY DEF UsageInv, TypeOK
    <3>. QED
      BY <2>1, <3>1, <3>2, CounterNat
  <2>4. HeldBelowCounter(d) /\ req'[d] = req[d] /\ step'[d] = step[d]
    BY DEF UsageInv
  <2>. QED
    BY <2>2, <2>3, <2>4 DEF HeldBelowCounter
<1>. QED
  BY <1>1, <1>2

LEMMA CacheKept ==
    ASSUME UsageInv, TypeOK', UNCHANGED <<month, usageCache>>,
           \A m \in Month, k \in Column : counter'[m][k] >= counter[m][k]
    PROVE  CacheBelowCounter'
<1>. SUFFICES ASSUME NEW f \in Feature, NEW m \in Month, m >= month, usageCache[f][m] # None
              PROVE  usageCache[f][m] <= counter'[m][ColumnOf(f)]
  BY DEF CacheBelowCounter
<1>1. usageCache[f][m] <= counter[m][ColumnOf(f)] /\ ColumnOf(f) \in Column
  BY ColumnType DEF UsageInv, CacheBelowCounter
<1>2. counter'[m][ColumnOf(f)] >= counter[m][ColumnOf(f)]
  BY <1>1
<1>3. /\ usageCache[f][m] \in Nat
      /\ counter[m][ColumnOf(f)] \in Nat /\ counter'[m][ColumnOf(f)] \in Nat
  <2>1. counter \in [Month -> [Column -> Count]] /\ counter' \in [Month -> [Column -> Count]]
    BY DEF UsageInv, TypeOK
  <2>2. usageCache[f] \in [Month -> Count \cup {None}]
    BY DEF UsageInv, TypeOK
  <2>. QED
    BY <1>1, <2>1, <2>2, CounterNat, CountType
<1>. QED
  BY <1>1, <1>2, <1>3

\* A request may write what it holds under the key of a month it had.
LEMMA CacheWritten ==
    ASSUME UsageInv, NEW c \in Caller, step[c] \in Holding, NEW m \in Month,
           m <= req[c].month, UNCHANGED <<month, counter>>,
           \/ usageCache' = [usageCache EXCEPT ![req[c].feature][m] = req[c].used]
           \/ UNCHANGED usageCache
    PROVE  CacheBelowCounter'
<1>. DEFINE f == req[c].feature
<1>1. CASE UNCHANGED usageCache
  BY <1>1 DEF UsageInv, CacheBelowCounter
<1>2. CASE usageCache' = [usageCache EXCEPT ![f][m] = req[c].used]
  <2>1. TypeOK /\ f \in Feature /\ req[c].used \in Count /\ req[c].month \in Nat
    BY RequestType, CountType DEF UsageInv
  <2>2. \A g \in Feature, n \in Month :
          usageCache'[g][n] = IF g = f /\ n = m THEN req[c].used ELSE usageCache[g][n]
    BY <1>2, <2>1, CacheEntryType
  <2>3. m >= month => req[c].used <= counter[m][ColumnOf(f)]
    <3>1. m >= month => req[c].month = month /\ m = month
      <4>1. m \in Nat /\ month \in Nat /\ req[c].month <= month
        BY CountType DEF UsageInv, MonthsOrdered, TypeOK
      <4>. QED
        BY <2>1, <4>1
    <3>. QED
      BY <3>1 DEF UsageInv, HeldBelowCounter
  <2>. HIDE DEF f
  <2>. QED
    BY <2>2, <2>3 DEF UsageInv, CacheBelowCounter
<1>. QED
  BY <1>1, <1>2

\* A step of request c that leaves month, counters and caches alone.
LEMMA LocalsMove ==
    ASSUME UsageInv, TypeOK', NEW c \in Caller, UNCHANGED <<month, counter, usageCache>>,
           \A d \in Caller \ {c} : req'[d] = req[d] /\ step'[d] = step[d],
           MonthsOrdered(c)', HeldBelowCounter(c)'
    PROVE  UsageInv'
<1>1. \A m \in Month, k \in Column : counter'[m][k] >= counter[m][k]
  <2>1. \A m \in Month, k \in Column : counter[m][k] \in Nat
    BY CounterNat DEF UsageInv, TypeOK
  <2>. QED
    BY <2>1
<1>. QED
  BY <1>1, OneCallerMoves, CacheKept DEF UsageInv

LEMMA ReadCacheKeeps ==
    ASSUME UsageInv, TypeOK', NEW c \in Caller, NEW hit \in Step, NEW miss \in Step,
           ReadCache(c, hit, miss), miss \notin Holding,
           {hit, miss} \cap Rereading # {} => step[c] \in Rereading
    PROVE  UsageInv'
<1>. DEFINE cached == usageCache[req[c].feature][req[c].month]
            u == IF cached = None THEN 0 ELSE cached
<1>1. /\ req' = [req EXCEPT ![c].used = u]
      /\ step' = [step EXCEPT ![c] = IF cached = None THEN miss ELSE hit]
      /\ UNCHANGED <<month, counter, usageCache>>
  BY DEF ReadCache, Goto, outside, caches
<1>. HIDE DEF u
<1>2. /\ req'[c] = [req[c] EXCEPT !.used = u]
      /\ step'[c] = IF cached = None THEN miss ELSE hit
      /\ \A d \in Caller \ {c} : req'[d] = req[d] /\ step'[d] = step[d]
  BY <1>1 DEF UsageInv, TypeOK
<1>3. /\ req'[c].began = req[c].began /\ req'[c].month = req[c].month
      /\ req'[c].feature = req[c].feature /\ req'[c].used = u
  BY <1>2, RequestType DEF UsageInv, Request
<1>4. MonthsOrdered(c)'
  BY <1>1, <1>2, <1>3 DEF UsageInv, MonthsOrdered
<1>5. HeldBelowCounter(c)'
  <2>. SUFFICES ASSUME step'[c] \in Holding, req[c].month = month
                PROVE  u <= counter[month][ColumnOf(req[c].feature)]
    BY <1>1, <1>3 DEF HeldBelowCounter
  <2>1. cached # None
    BY <1>2
  <2>2. u = cached /\ cached \in Nat
    <3>1. cached \in Count \cup {None}
      BY RequestType DEF UsageInv, TypeOK
    <3>. QED
      BY <2>1, <3>1, CountType DEF u
  <2>3. cached <= counter[month][ColumnOf(req[c].feature)]
    <3>1. req[c].feature \in Feature /\ month \in Month /\ month >= month
      BY RequestType, CountType DEF UsageInv, TypeOK
    <3>. QED
      BY <2>1, <3>1 DEF UsageInv, CacheBelowCounter
  <2>. QED
    BY <2>2, <2>3
<1>. QED
  BY <1>1, <1>2, <1>4, <1>5, LocalsMove

LEMMA ReadCounterKeeps ==
    ASSUME UsageInv, TypeOK', NEW c \in Caller, NEW next \in Step, ReadCounter(c, next),
           next \in Rereading => step[c] \in Rereading
    PROVE  UsageInv'
<1>1. /\ req'[c] = [req[c] EXCEPT !.used = Used(c)]
      /\ step'[c] = next
      /\ UNCHANGED <<month, counter, usageCache>>
      /\ \A d \in Caller \ {c} : req'[d] = req[d] /\ step'[d] = step[d]
  BY DEF ReadCounter, Goto, outside, caches, UsageInv, TypeOK
<1>2. /\ req'[c].began = req[c].began /\ req'[c].month = req[c].month
      /\ req'[c].feature = req[c].feature /\ req'[c].used = Used(c)
  BY <1>1, RequestType DEF UsageInv, Request
<1>3. MonthsOrdered(c)'
  BY <1>1, <1>2 DEF UsageInv, MonthsOrdered
<1>4. HeldBelowCounter(c)'
  <2>1. Used(c) \in Nat
    BY RequestType, CountType DEF UsageInv
  <2>. QED
    BY <1>1, <1>2, <2>1 DEF HeldBelowCounter, Used
<1>. QED
  BY <1>1, <1>3, <1>4, LocalsMove

\* A write of the usage a request holds, by a check or by a report.
LEMMA SaveKeeps ==
    ASSUME UsageInv, TypeOK', NEW c \in Caller, NEW m \in Month, NEW next \in Step,
           step[c] \in Holding, m <= req[c].month,
           SaveUsage(c, m, next), next \in Rereading => step[c] \in Rereading
    PROVE  UsageInv'
<1>1. /\ UNCHANGED <<month, counter, req>>
      /\ step'[c] = next
      /\ \A d \in Caller \ {c} : step'[d] = step[d]
      /\ \/ usageCache' = [usageCache EXCEPT ![req[c].feature][m] = req[c].used]
         \/ UNCHANGED usageCache
  BY DEF SaveUsage, Goto, outside, UsageInv, TypeOK
<1>2. CacheBelowCounter'
  BY <1>1, CacheWritten
<1>3. MonthsOrdered(c)'
  BY <1>1 DEF UsageInv, MonthsOrdered
<1>4. HeldBelowCounter(c)'
  BY <1>1 DEF UsageInv, HeldBelowCounter
<1>5. \A n \in Month, k \in Column : counter'[n][k] >= counter[n][k]
  BY <1>1, CounterNat DEF UsageInv, TypeOK
<1>6. \A d \in Caller : MonthsOrdered(d)' /\ HeldBelowCounter(d)'
  BY <1>1, <1>3, <1>4, <1>5, OneCallerMoves
<1>. QED
  BY <1>2, <1>6 DEF UsageInv

\* The end of a request.
LEMMA FinishKeeps ==
    ASSUME UsageInv, NEW c \in Caller, Finish(c)
    PROVE  /\ step'[c] = "idle" /\ req'[c] = NoRequest
           /\ \A d \in Caller \ {c} : req'[d] = req[d] /\ step'[d] = step[d]
           /\ month' = month => MonthsOrdered(c)' /\ HeldBelowCounter(c)'
<1>1. /\ step'[c] = "idle" /\ req'[c] = NoRequest
      /\ \A d \in Caller \ {c} : req'[d] = req[d] /\ step'[d] = step[d]
  BY DEF Finish, Goto, UsageInv, TypeOK
<1>2. NoRequest.began = 0 /\ NoRequest.month = 0 /\ month \in Nat
  BY CountType DEF NoRequest, UsageInv, TypeOK
<1>. QED
  BY <1>1, <1>2 DEF MonthsOrdered, HeldBelowCounter, Rereading, Holding

LEMMA BeginReportKeeps ==
    ASSUME UsageInv, NEW c \in Caller, BeginReport(c)
    PROVE  /\ step'[c] = "increment"
           /\ \A d \in Caller \ {c} : req'[d] = req[d] /\ step'[d] = step[d]
           /\ month' = month => MonthsOrdered(c)' /\ HeldBelowCounter(c)'
<1>1. /\ step'[c] = "increment" /\ req'[c] = [req[c] EXCEPT !.began = month]
      /\ \A d \in Caller \ {c} : req'[d] = req[d] /\ step'[d] = step[d]
  BY DEF BeginReport, Goto, UsageInv, TypeOK
<1>2. req'[c].began = month /\ req'[c].month = req[c].month /\ month \in Nat
  BY <1>1, RequestType, CountType DEF UsageInv, TypeOK, Request
<1>3. req[c].month <= month
  BY DEF UsageInv, MonthsOrdered
<1>. QED
  BY <1>1, <1>2, <1>3 DEF MonthsOrdered, HeldBelowCounter, Rereading, Holding

LEMMA InitUsage == Init => UsageInv
<1>. SUFFICES ASSUME Init PROVE UsageInv
  OBVIOUS
<1>1. NoRequest.began = 0 /\ NoRequest.month = 0
  BY DEF NoRequest
<1>2. \A c \in Caller : MonthsOrdered(c) /\ HeldBelowCounter(c)
  <2>1. month = 0 /\ \A c \in Caller : req[c] = NoRequest /\ step[c] = "idle"
    BY DEF Init
  <2>2. \A c \in Caller : step[c] = "idle" /\ req[c].began = 0 /\ req[c].month = 0
    BY <1>1, <2>1
  <2>3. \A c \in Caller : MonthsOrdered(c)
    <3>1. month = 0 /\ 0 <= 0
      BY <2>1
    <3>. QED
      BY <2>2, <3>1 DEF MonthsOrdered, Rereading
  <2>4. \A c \in Caller : HeldBelowCounter(c)
    BY <2>2 DEF HeldBelowCounter, Holding
  <2>. QED
    BY <2>3, <2>4
<1>3. CacheBelowCounter
  BY DEF Init, CacheBelowCounter
<1>. QED
  BY <1>2, <1>3, InitTyped DEF UsageInv

LEMMA NextUsage == UsageInv /\ [Next]_vars => UsageInv'
<1>. SUFFICES ASSUME UsageInv, [Next]_vars PROVE UsageInv'
  OBVIOUS
<1>. USE DEF Rereading, Holding
<1>0. TypeOK /\ TypeOK' /\ month \in Nat
  BY NextTyped, CountType DEF UsageInv, TypeOK
<1>1. ASSUME NEW c \in Caller, NEW f \in Feature, Check(c, f) PROVE UsageInv'
  <2>1. /\ step'[c] = "readPlanCache" /\ UNCHANGED <<month, counter, usageCache>>
        /\ \A d \in Caller \ {c} : req'[d] = req[d] /\ step'[d] = step[d]
        /\ req'[c].began = month /\ req'[c].month = month
    BY <1>0, <1>1, NoRequestType DEF Check, Goto, TypeOK, Request, outside, caches
  <2>2. MonthsOrdered(c)' /\ HeldBelowCounter(c)'
    BY <1>0, <2>1 DEF MonthsOrdered, HeldBelowCounter
  <2>. QED
    BY <1>0, <2>1, <2>2, LocalsMove
<1>2. ASSUME NEW c \in Caller, ReadPlanCache(c) PROVE UsageInv'
  <2>1. /\ step'[c] \in {"readPlan", "readUsageCache"} /\ UNCHANGED <<month, counter, usageCache>>
        /\ \A d \in Caller \ {c} : req'[d] = req[d] /\ step'[d] = step[d]
        /\ req'[c].began = req[c].began /\ req'[c].month \in {req[c].month, month}
    BY <1>0, <1>2 DEF ReadPlanCache, Goto, TypeOK, Request, outside, caches
  <2>2. MonthsOrdered(c)' /\ HeldBelowCounter(c)'
    BY <1>0, <2>1 DEF MonthsOrdered, HeldBelowCounter, UsageInv
  <2>. QED
    BY <1>0, <2>1, <2>2, LocalsMove
<1>3. ASSUME NEW c \in Caller, ReadPlan(c) PROVE UsageInv'
  <2>1. /\ step'[c] = "savePlan" /\ UNCHANGED <<month, counter, usageCache>>
        /\ \A d \in Caller \ {c} : req'[d] = req[d] /\ step'[d] = step[d]
        /\ req'[c].began = req[c].began /\ req'[c].month = req[c].month
    BY <1>0, <1>3 DEF ReadPlan, Goto, TypeOK, Request, outside, caches
  <2>2. MonthsOrdered(c)' /\ HeldBelowCounter(c)'
    BY <1>0, <2>1 DEF MonthsOrdered, HeldBelowCounter, UsageInv
  <2>. QED
    BY <1>0, <2>1, <2>2, LocalsMove
<1>4. ASSUME NEW c \in Caller, SavePlan(c) PROVE UsageInv'
  <2>1. /\ step'[c] = "readUsageCache" /\ UNCHANGED <<month, counter, usageCache>>
        /\ \A d \in Caller \ {c} : req'[d] = req[d] /\ step'[d] = step[d]
        /\ req'[c].began = req[c].began /\ req'[c].month = month
    BY <1>0, <1>4 DEF SavePlan, Goto, TypeOK, Request, outside
  <2>2. MonthsOrdered(c)' /\ HeldBelowCounter(c)'
    BY <1>0, <2>1 DEF MonthsOrdered, HeldBelowCounter, UsageInv
  <2>. QED
    BY <1>0, <2>1, <2>2, LocalsMove
<1>5. ASSUME NEW c \in Caller, CheckUsage(c) PROVE UsageInv'
  <2>1. CASE step[c] = "readUsageCache" /\ ReadCache(c, "answer", "readUsage")
    BY <1>0, <2>1, ReadCacheKeeps DEF Step
  <2>2. CASE step[c] = "readUsage" /\ ReadCounter(c, "saveUsage")
    BY <1>0, <2>2, ReadCounterKeeps DEF Step
  <2>3. CASE step[c] = "saveUsage" /\ SaveUsage(c, req[c].month, "answer")
    <3>1. req[c].month \in Month /\ req[c].month \in Nat
      BY <1>0, RequestType, CountType
    <3>. QED
      BY <1>0, <2>3, <3>1, SaveKeeps DEF Step
  <2>. QED
    BY <1>5, <2>1, <2>2, <2>3 DEF CheckUsage
<1>6. ASSUME NEW c \in Caller, Answer(c) PROVE UsageInv'
  <2>1. UNCHANGED <<month, counter, usageCache>>
    BY <1>6 DEF Answer, outside, caches
  <2>2. CASE Finish(c)
    BY <1>0, <2>1, <2>2, FinishKeeps, LocalsMove
  <2>3. CASE BeginReport(c)
    BY <1>0, <2>1, <2>3, BeginReportKeeps, LocalsMove
  <2>4. CASE Goto(c, "perform") /\ UNCHANGED req
    <3>1. /\ step'[c] = "perform"
          /\ \A d \in Caller \ {c} : req'[d] = req[d] /\ step'[d] = step[d]
      BY <1>0, <2>4 DEF Goto, TypeOK
    <3>2. MonthsOrdered(c)' /\ HeldBelowCounter(c)'
      BY <2>1, <2>4, <3>1 DEF MonthsOrdered, HeldBelowCounter, UsageInv
    <3>. QED
      BY <1>0, <2>1, <3>1, <3>2, LocalsMove
  <2>. QED
    BY <1>6, <2>2, <2>3, <2>4 DEF Answer
<1>7. ASSUME NEW c \in Caller, Perform(c) PROVE UsageInv'
  <2>1. UNCHANGED <<month, counter, usageCache>>
    BY <1>7 DEF Perform, outside, caches
  <2>2. CASE Finish(c)
    BY <1>0, <2>1, <2>2, FinishKeeps, LocalsMove
  <2>3. CASE BeginReport(c)
    BY <1>0, <2>1, <2>3, BeginReportKeeps, LocalsMove
  <2>. QED
    BY <1>7, <2>2, <2>3 DEF Perform
<1>8. ASSUME NEW c \in Caller, Increment(c) PROVE UsageInv'
  <2>1. \A m \in Month, k \in Column : counter'[m][k] >= counter[m][k]
    BY <1>0, <1>8, CounterGrows
  <2>2. /\ step'[c] = "rereadCache" /\ UNCHANGED <<month, usageCache>>
        /\ \A d \in Caller \ {c} : req'[d] = req[d] /\ step'[d] = step[d]
        /\ req'[c].began = req[c].began /\ req'[c].month = month
    BY <1>0, <1>8 DEF Increment, Goto, TypeOK, Request, outside, caches
  <2>3. MonthsOrdered(c)' /\ HeldBelowCounter(c)'
    BY <1>0, <2>2 DEF MonthsOrdered, HeldBelowCounter, UsageInv
  <2>. QED
    BY <1>0, <2>1, <2>2, <2>3, OneCallerMoves, CacheKept DEF UsageInv
<1>9. ASSUME NEW c \in Caller, ReportUsage(c) PROVE UsageInv'
  <2>1. CASE step[c] = "rereadCache" /\ ReadCache(c, "saveReported", "rereadUsage")
    BY <1>0, <2>1, ReadCacheKeeps DEF Step
  <2>2. CASE step[c] = "rereadUsage" /\ ReadCounter(c, "saveReread")
    BY <1>0, <2>2, ReadCounterKeeps DEF Step
  <2>3. CASE step[c] = "saveReread" /\ SaveUsage(c, req[c].month, "saveReported")
    <3>1. req[c].month \in Month /\ req[c].month \in Nat
      BY <1>0, RequestType, CountType
    <3>. QED
      BY <1>0, <2>3, <3>1, SaveKeeps DEF Step
  <2>. QED
    BY <1>9, <2>1, <2>2, <2>3 DEF ReportUsage
<1>10. ASSUME NEW c \in Caller, Reported(c) PROVE UsageInv'
  <2>. DEFINE m == req[c].began
  <2>1. /\ m \in Month /\ m <= req[c].month
        /\ step[c] = "saveReported" /\ UNCHANGED <<month, counter>>
    BY <1>0, <1>10, RequestType DEF UsageInv, MonthsOrdered, Reported, outside
  <2>2. \/ usageCache' = [usageCache EXCEPT ![req[c].feature][m] = req[c].used]
        \/ UNCHANGED usageCache
    BY <1>10 DEF Reported, ReportKey
  <2>3. CacheBelowCounter'
    BY <2>1, <2>2, CacheWritten
  <2>4. /\ \A d \in Caller \ {c} : req'[d] = req[d] /\ step'[d] = step[d]
        /\ MonthsOrdered(c)' /\ HeldBelowCounter(c)'
    <3>1. CASE Finish(c)
      BY <2>1, <3>1, FinishKeeps
    <3>2. CASE Goto(c, "perform") /\ UNCHANGED req
      <4>1. /\ step'[c] = "perform"
            /\ \A d \in Caller \ {c} : req'[d] = req[d] /\ step'[d] = step[d]
        BY <1>0, <3>2 DEF Goto, TypeOK
      <4>. QED
        BY <2>1, <3>2, <4>1 DEF MonthsOrdered, HeldBelowCounter, UsageInv
    <3>. QED
      BY <1>10, <3>1, <3>2 DEF Reported
  <2>5. \A n \in Month, k \in Column : counter'[n][k] >= counter[n][k]
    BY <1>0, <2>1, CounterNat DEF TypeOK
  <2>. QED
    BY <1>0, <2>1, <2>3, <2>4, <2>5, OneCallerMoves DEF UsageInv
<1>11. ASSUME NEW c \in Caller, Fail(c) PROVE UsageInv'
  <2>1. Finish(c) /\ UNCHANGED <<month, counter, usageCache>>
    BY <1>11 DEF Fail, outside, caches
  <2>. QED
    BY <1>0, <2>1, FinishKeeps, LocalsMove
<1>12. CASE Expire
  <2>1. UNCHANGED <<month, counter, req, step>>
    BY <1>12 DEF Expire, outside
  <2>2. CacheBelowCounter'
    <3>1. CASE UNCHANGED usageCache
      BY <2>1, <3>1 DEF UsageInv, CacheBelowCounter
    <3>2. ASSUME NEW f \in Feature, NEW m \in Month,
                 usageCache' = [usageCache EXCEPT ![f][m] = None]
          PROVE  CacheBelowCounter'
      <4>1. \A g \in Feature, n \in Month :
              usageCache'[g][n] = IF g = f /\ n = m THEN None ELSE usageCache[g][n]
        BY <1>0, <3>2, CacheEntryType
      <4>. QED
        BY <2>1, <4>1 DEF UsageInv, CacheBelowCounter
    <3>. QED
      BY <1>12, <3>1, <3>2 DEF Expire
  <2>. QED
    BY <1>0, <2>1, <2>2 DEF UsageInv, MonthsOrdered, HeldBelowCounter
<1>13. CASE NextMonth
  <2>1. month' = month + 1 /\ UNCHANGED <<counter, req, step, usageCache>>
    BY <1>13 DEF NextMonth, caches
  <2>2. \A m \in Month : m >= month + 1 => m >= month
    BY <1>0, CountType
  <2>3. CacheBelowCounter'
    BY <2>1, <2>2 DEF UsageInv, CacheBelowCounter
  <2>4. \A c \in Caller : req[c].month \in Nat /\ req[c].began \in Nat
    BY <1>0, RequestType, CountType
  <2>5. \A c \in Caller : MonthsOrdered(c)' /\ HeldBelowCounter(c)'
    BY <1>0, <2>1, <2>4 DEF UsageInv, MonthsOrdered, HeldBelowCounter
  <2>. QED
    BY <1>0, <2>3, <2>5 DEF UsageInv
<1>14. CASE UNCHANGED vars
  BY <1>14 DEF vars, UsageInv, TypeOK, CacheBelowCounter, MonthsOrdered, HeldBelowCounter,
               outside, caches
<1>. QED
  BY <1>1, <1>2, <1>3, <1>4, <1>5, <1>6, <1>7, <1>8, <1>9, <1>10, <1>11, <1>12, <1>13, <1>14
  DEF Next, CallerStep

\* The cached usage of the current month stays within the counter, however
\* checks, reports, failures and the change of the month interleave.
THEOREM NotOverstated == Spec => []UsageNotOverstated
<1>1. UsageInv => UsageNotOverstated
  <2>1. TypeOK => month \in Month /\ month >= month
    BY CountType DEF TypeOK
  <2>. QED
    BY <2>1 DEF UsageInv, CacheBelowCounter, UsageNotOverstated
<1>. QED
  BY <1>1, InitUsage, NextUsage, PTL DEF Spec

\* A request that has come as far as its usage has the plan of the user.
Planned == {"savePlan", "readUsageCache", "readUsage", "saveUsage", "answer"}
PlanKnown == \A c \in Caller : step[c] \in Planned => req[c].plan # None

LEMMA InitPlan == Init => PlanKnown
  BY DEF Init, PlanKnown, Planned

LEMMA NextPlan == TypeOK /\ PlanKnown /\ [Next]_vars => PlanKnown'
<1>. SUFFICES ASSUME TypeOK, PlanKnown, [Next]_vars PROVE PlanKnown'
  OBVIOUS
<1>. USE DEF Planned
<1>1. ASSUME NEW c \in Caller,
             \A d \in Caller \ {c} : req'[d].plan = req[d].plan /\ step'[d] = step[d],
             \/ step'[c] \notin Planned \/ req'[c].plan # None
             \/ req'[c].plan = req[c].plan /\ step[c] \in Planned
      PROVE  PlanKnown'
  BY <1>1 DEF PlanKnown
<1>2. ASSUME NEW c \in Caller, Finish(c) \/ BeginReport(c) PROVE PlanKnown'
  <2>1. /\ \A d \in Caller \ {c} : req'[d] = req[d] /\ step'[d] = step[d]
        /\ step'[c] \in {"idle", "increment"}
    BY <1>2 DEF Finish, BeginReport, Goto, TypeOK
  <2>. QED
    BY <1>1, <2>1
<1>3. ASSUME NEW c \in Caller, NEW f \in Feature, Check(c, f) PROVE PlanKnown'
  BY <1>1, <1>3 DEF Check, Goto, TypeOK
<1>4. ASSUME NEW c \in Caller, ReadPlanCache(c) PROVE PlanKnown'
  <2>1. CASE planCache = None
    BY <1>1, <1>4, <2>1 DEF ReadPlanCache, Goto, TypeOK
  <2>2. CASE planCache # None
    <3>1. \A d \in Caller \ {c} : req'[d].plan = req[d].plan /\ step'[d] = step[d]
      BY <1>4, <2>2 DEF ReadPlanCache, Goto, TypeOK
    <3>2. req'[c].plan = planCache
      BY <1>4, <2>2 DEF ReadPlanCache, TypeOK, Request
    <3>. QED
      BY <1>1, <2>2, <3>1, <3>2
  <2>. QED
    BY <2>1, <2>2
<1>5. ASSUME NEW c \in Caller, ReadPlan(c) PROVE PlanKnown'
  <2>1. PICK p \in PlansFor(userPlan) : req' = [req EXCEPT ![c].plan = p]
    BY <1>5 DEF ReadPlan
  <2>2. p # None
    BY PlansType, PlanAssumption
  <2>. QED
    BY <1>1, <1>5, <2>1, <2>2 DEF ReadPlan, Goto, TypeOK, Request
<1>6. ASSUME NEW c \in Caller, SavePlan(c) PROVE PlanKnown'
  BY <1>1, <1>6 DEF SavePlan, Goto, TypeOK, Request
<1>7. ASSUME NEW c \in Caller, CheckUsage(c) \/ ReportUsage(c) PROVE PlanKnown'
  <2>1. /\ \A d \in Caller : req'[d].plan = req[d].plan
        /\ \A d \in Caller \ {c} : step'[d] = step[d]
    BY <1>7 DEF CheckUsage, ReportUsage, ReadCache, ReadCounter, SaveUsage, Goto, TypeOK, Request
  <2>2. step'[c] \in Planned => step[c] \in Planned
    BY <1>7 DEF CheckUsage, ReportUsage, ReadCache, ReadCounter, SaveUsage, Goto, TypeOK
  <2>. QED
    BY <1>1, <2>1, <2>2
<1>8. ASSUME NEW c \in Caller, Goto(c, "perform"), UNCHANGED req PROVE PlanKnown'
  BY <1>1, <1>8 DEF Goto, TypeOK
<1>9. ASSUME NEW c \in Caller, Answer(c) \/ Perform(c) \/ Reported(c) \/ Fail(c) PROVE PlanKnown'
  BY <1>2, <1>8, <1>9 DEF Answer, Perform, Reported, Fail
<1>10. ASSUME NEW c \in Caller, Increment(c) PROVE PlanKnown'
  BY <1>1, <1>10 DEF Increment, Goto, TypeOK
<1>11. CASE Expire \/ NextMonth \/ UNCHANGED vars
  <2>1. UNCHANGED <<step, req>>
    BY <1>11 DEF Expire, NextMonth, vars
  <2>. QED
    BY <2>1 DEF PlanKnown
<1>. QED
  BY <1>3, <1>4, <1>5, <1>6, <1>7, <1>9, <1>10, <1>11 DEF Next, CallerStep

\* A denial in the current month is backed by the counter.
THEOREM DenialsJust == Spec => []DenialIsJust
<1>1. UsageInv /\ PlanKnown => DenialIsJust
  <2>. SUFFICES ASSUME UsageInv, PlanKnown, NEW c \in Caller, step[c] = "answer",
                       req[c].month = month, ~ Allowed(c)
                PROVE  counter[month][ColumnOf(req[c].feature)] >= Quota[req[c].plan]
    BY DEF DenialIsJust
  <2>. DEFINE k == ColumnOf(req[c].feature)
  <2>1. req[c].used <= counter[month][k]
    BY DEF UsageInv, HeldBelowCounter, Holding
  <2>2. req[c].used \in Nat /\ req[c].plan \in Plan /\ month \in Month /\ k \in Column
    BY RequestType, CountType, ColumnType DEF UsageInv, TypeOK, PlanKnown, Planned
  <2>3. Quota[req[c].plan] \in Nat /\ counter[month][k] \in Nat
    BY <2>2, PlanAssumption, CounterNat DEF UsageInv, TypeOK
  <2>4. req[c].used >= Quota[req[c].plan]
    BY <2>2, <2>3 DEF Allowed
  <2>. QED
    BY <2>1, <2>2, <2>3, <2>4
<1>2. UsageInv => TypeOK
  BY DEF UsageInv
<1>. QED
  BY <1>1, <1>2, InitUsage, NextUsage, InitPlan, NextPlan, PTL DEF Spec

---------------------------------------------------------------------------
(* Charges and operations.  The first of the two counts leads the second by *)
(* at least the number of requests that stand between the two steps; a      *)
(* request that fails there leaves the lead as it is.                       *)

Between(f) ==
    IF ReportedFirst(f) THEN Rereading \cup {"perform"} ELSE {"increment"}
Owing(f) == {c \in Caller : req[c].feature = f /\ step[c] \in Between(f)}
Lead(f) == IF ReportedFirst(f) THEN reported[f] ELSE performed[f]
Trail(f) == IF ReportedFirst(f) THEN performed[f] ELSE reported[f]
ChargeInv == \A f \in Feature : Trail(f) + Cardinality(Owing(f)) <= Lead(f)

LEMMA OwingFinite ==
    ASSUME NEW f PROVE IsFiniteSet(Owing(f)) /\ Cardinality(Owing(f)) \in Nat
  BY CallerAssumption, FS_Subset, FS_CardinalityType DEF Owing

\* What one request's step does to the requests that owe.
LEMMA OwingMoves ==
    ASSUME NEW c \in Caller, NEW f \in Feature,
           \A d \in Caller \ {c} : req'[d].feature = req[d].feature /\ step'[d] = step[d]
    PROVE  /\ IsFiniteSet(Owing(f)') /\ Cardinality(Owing(f)') \in Nat
           /\ Cardinality(Owing(f)') <= Cardinality(Owing(f)) + 1
           /\ (c \in Owing(f)' => c \in Owing(f))
              => Cardinality(Owing(f)') <= Cardinality(Owing(f))
           /\ c \in Owing(f) /\ c \notin Owing(f)'
              => Cardinality(Owing(f)') + 1 <= Cardinality(Owing(f))
<1>1. IsFiniteSet(Owing(f)) /\ Cardinality(Owing(f)) \in Nat
  BY OwingFinite
<1>2. IsFiniteSet(Owing(f)') /\ Cardinality(Owing(f)') \in Nat
  <2>1. Owing(f)' \subseteq Caller
    BY DEF Owing
  <2>. QED
    BY <2>1, CallerAssumption, FS_Subset, FS_CardinalityType
<1>3. Owing(f)' \subseteq Owing(f) \cup {c}
  BY DEF Owing, Between
<1>4. Cardinality(Owing(f)') <= Cardinality(Owing(f)) + 1
  <2>1. /\ IsFiniteSet(Owing(f) \cup {c})
        /\ Cardinality(Owing(f) \cup {c}) <= Cardinality(Owing(f)) + 1
    <3>. DEFINE n == Cardinality(Owing(f))
    <3>1. /\ IsFiniteSet(Owing(f) \cup {c})
          /\ Cardinality(Owing(f) \cup {c}) = IF c \in Owing(f) THEN n ELSE n + 1
      BY <1>1, FS_AddElement
    <3>2. n \in Nat
      BY <1>1
    <3>. HIDE DEF n
    <3>3. Cardinality(Owing(f) \cup {c}) <= n + 1
      BY <3>1, <3>2
    <3>. QED
      BY <3>1, <3>3 DEF n
  <2>2. /\ Cardinality(Owing(f)') <= Cardinality(Owing(f) \cup {c})
        /\ Cardinality(Owing(f) \cup {c}) \in Nat
    BY <1>3, <2>1, FS_Subset, FS_CardinalityType
  <2>. QED
    BY <1>1, <1>2, <2>1, <2>2
<1>5. ASSUME c \in Owing(f)' => c \in Owing(f)
      PROVE  Cardinality(Owing(f)') <= Cardinality(Owing(f))
  <2>1. Owing(f)' \subseteq Owing(f)
    BY <1>3, <1>5
  <2>. QED
    BY <1>1, <2>1, FS_Subset
<1>6. ASSUME c \in Owing(f), c \notin Owing(f)'
      PROVE  Cardinality(Owing(f)') + 1 <= Cardinality(Owing(f))
  <2>1. Owing(f)' \subseteq Owing(f) \ {c}
    BY <1>3, <1>6
  <2>2. /\ IsFiniteSet(Owing(f) \ {c})
        /\ Cardinality(Owing(f) \ {c}) = Cardinality(Owing(f)) - 1
    BY <1>1, <1>6, FS_RemoveElement
  <2>3. Cardinality(Owing(f)') <= Cardinality(Owing(f) \ {c})
    BY <2>1, <2>2, FS_Subset
  <2>. QED
    BY <1>1, <1>2, <2>2, <2>3
<1>. QED
  BY <1>2, <1>4, <1>5, <1>6

LEMMA CountsType ==
    ASSUME TypeOK, NEW f \in Feature PROVE Lead(f) \in Nat /\ Trail(f) \in Nat
  BY DEF TypeOK, Lead, Trail

\* A step that counts nothing and lets no request begin to owe.
LEMMA NothingCounted ==
    ASSUME TypeOK, ChargeInv, NEW c \in Caller, UNCHANGED <<performed, reported>>,
           \A d \in Caller \ {c} : req'[d].feature = req[d].feature /\ step'[d] = step[d],
           \A f \in Feature : c \in Owing(f)' => c \in Owing(f)
    PROVE  ChargeInv'
<1>. SUFFICES ASSUME NEW f \in Feature
              PROVE  (Trail(f) + Cardinality(Owing(f)) <= Lead(f))'
  BY DEF ChargeInv
<1>1. Lead(f)' = Lead(f) /\ Trail(f)' = Trail(f)
  BY DEF Lead, Trail
<1>2. Cardinality(Owing(f)') <= Cardinality(Owing(f)) /\ Cardinality(Owing(f)') \in Nat
  BY OwingMoves
<1>. QED
  BY <1>1, <1>2, CountsType, OwingFinite DEF ChargeInv

\* A step that counts one unit on either side.
LEMMA OneCounted ==
    ASSUME TypeOK, ChargeInv, NEW c \in Caller, NEW f \in Feature, f = req[c].feature,
           \A d \in Caller \ {c} : req'[d].feature = req[d].feature /\ step'[d] = step[d],
           \A g \in Feature \ {f} :
               /\ Lead(g)' = Lead(g) /\ Trail(g)' = Trail(g)
               /\ c \notin Owing(g)',
           \/ Lead(f)' = Lead(f) + 1 /\ Trail(f)' = Trail(f)
           \/ /\ Lead(f)' = Lead(f) /\ Trail(f)' = Trail(f) + 1
              /\ c \in Owing(f) /\ c \notin Owing(f)'
    PROVE  ChargeInv'
<1>. SUFFICES ASSUME NEW g \in Feature
              PROVE  (Trail(g) + Cardinality(Owing(g)) <= Lead(g))'
  BY DEF ChargeInv
<1>1. /\ Lead(g) \in Nat /\ Trail(g) \in Nat
      /\ Cardinality(Owing(g)) \in Nat /\ Cardinality(Owing(g)') \in Nat
      /\ Trail(g) + Cardinality(Owing(g)) <= Lead(g)
  BY CountsType, OwingFinite, OwingMoves DEF ChargeInv
<1>2. CASE g # f
  <2>1. Cardinality(Owing(g)') <= Cardinality(Owing(g))
    BY <1>2, OwingMoves
  <2>. QED
    BY <1>1, <1>2, <2>1
<1>3. CASE g = f /\ Lead(f)' = Lead(f) + 1 /\ Trail(f)' = Trail(f)
  <2>1. Cardinality(Owing(g)') <= Cardinality(Owing(g)) + 1
    BY OwingMoves
  <2>. QED
    BY <1>1, <1>3, <2>1
<1>4. CASE /\ g = f /\ Lead(f)' = Lead(f) /\ Trail(f)' = Trail(f) + 1
           /\ c \in Owing(f) /\ c \notin Owing(f)'
  <2>1. Cardinality(Owing(g)') + 1 <= Cardinality(Owing(g))
    BY <1>4, OwingMoves
  <2>. QED
    BY <1>1, <1>4, <2>1
<1>. QED
  BY <1>2, <1>3, <1>4

LEMMA InitCharge == Init => ChargeInv
<1>. SUFFICES ASSUME Init, NEW f \in Feature PROVE Trail(f) + Cardinality(Owing(f)) <= Lead(f)
  BY DEF ChargeInv
<1>1. Owing(f) = {}
  BY DEF Init, Owing, Between, Rereading
<1>2. Cardinality(Owing(f)) = 0
  BY <1>1, FS_EmptySet
<1>3. Trail(f) = 0 /\ Lead(f) = 0
  BY DEF Init, Trail, Lead
<1>. QED
  BY <1>2, <1>3

LEMMA NextCharge == TypeOK /\ ChargeInv /\ [Next]_vars => ChargeInv'
<1>. SUFFICES ASSUME TypeOK, ChargeInv, [Next]_vars PROVE ChargeInv'
  OBVIOUS
<1>1. ASSUME NEW c \in Caller, UNCHANGED <<performed, reported>>,
             \A d \in Caller \ {c} : req'[d].feature = req[d].feature /\ step'[d] = step[d],
             \/ step'[c] \notin Rereading \cup {"perform", "increment"}
             \/ /\ req'[c].feature = req[c].feature
                /\ \A f \in Feature : f = req[c].feature /\ step'[c] \in Between(f)
                                      => step[c] \in Between(f)
      PROVE  ChargeInv'
  <2>1. \A f \in Feature : c \in Owing(f)' => c \in Owing(f)
    BY <1>1 DEF Owing, Between
  <2>. QED
    BY <1>1, <2>1, NothingCounted
<1>2. ASSUME NEW c \in Caller, Finish(c)
      PROVE  /\ step'[c] = "idle"
             /\ \A d \in Caller \ {c} : req'[d].feature = req[d].feature /\ step'[d] = step[d]
  BY <1>2 DEF Finish, Goto, TypeOK
<1>3. ASSUME NEW c \in Caller, BeginReport(c)
      PROVE  /\ step'[c] = "increment"
             /\ \A d \in Caller \ {c} : step'[d] = step[d]
             /\ \A d \in Caller : req'[d].feature = req[d].feature
  BY <1>3 DEF BeginReport, Goto, TypeOK, Request
<1>4. ASSUME NEW c \in Caller, NEW f \in Feature, Check(c, f) PROVE ChargeInv'
  BY <1>1, <1>4 DEF Check, Goto, TypeOK, Rereading
<1>5. ASSUME NEW c \in Caller, ReadPlanCache(c) \/ ReadPlan(c) \/ SavePlan(c) PROVE ChargeInv'
  <2>1. /\ \A d \in Caller \ {c} : req'[d] = req[d] /\ step'[d] = step[d]
        /\ step'[c] \in {"readPlan", "readUsageCache", "savePlan"}
        /\ UNCHANGED <<performed, reported>>
    BY <1>5 DEF ReadPlanCache, ReadPlan, SavePlan, Goto, TypeOK
  <2>. QED
    BY <1>1, <2>1 DEF Rereading
<1>6. ASSUME NEW c \in Caller, CheckUsage(c) \/ ReportUsage(c) PROVE ChargeInv'
  <2>. DEFINE Frame == /\ \A d \in Caller : req'[d].feature = req[d].feature
                       /\ \A d \in Caller \ {c} : step'[d] = step[d]
                       /\ UNCHANGED <<performed, reported>>
  <2>1. Frame
    <3>1. ASSUME NEW hit, NEW miss, ReadCache(c, hit, miss) PROVE Frame
      BY <3>1 DEF ReadCache, Goto, TypeOK, Request
    <3>2. ASSUME NEW next, ReadCounter(c, next) PROVE Frame
      BY <3>2 DEF ReadCounter, Goto, TypeOK, Request
    <3>3. ASSUME NEW m, NEW next, SaveUsage(c, m, next) PROVE Frame
      BY <3>3 DEF SaveUsage, Goto, TypeOK
    <3>. QED
      BY <1>6, <3>1, <3>2, <3>3 DEF CheckUsage, ReportUsage
  <2>2. \/ step'[c] \in {"answer", "readUsage", "saveUsage"}
        \/ step[c] \in Rereading /\ step'[c] \in Rereading
    BY <1>6 DEF CheckUsage, ReportUsage, ReadCache, ReadCounter, SaveUsage, Goto, TypeOK,
                Rereading
  <2>3. \A f \in Feature : step[c] \in Rereading /\ step'[c] \in Rereading
          /\ step'[c] \in Between(f) => step[c] \in Between(f)
    BY DEF Between, Rereading
  <2>4. CASE step'[c] \in {"answer", "readUsage", "saveUsage"}
    BY <1>1, <2>1, <2>4 DEF Rereading
  <2>5. CASE step[c] \in Rereading /\ step'[c] \in Rereading
    BY <1>1, <2>1, <2>3, <2>5
  <2>. QED
    BY <2>2, <2>4, <2>5
<1>7. ASSUME NEW c \in Caller, Answer(c) PROVE ChargeInv'
  <2>. DEFINE f == req[c].feature
  <2>1. UNCHANGED <<performed, reported>>
    BY <1>7 DEF Answer
  <2>2. CASE Finish(c)
    BY <1>1, <1>2, <2>1, <2>2 DEF Rereading
  <2>3. CASE ReportedFirst(f) /\ BeginReport(c)
    <3>1. "increment" \notin Between(f)
      BY <2>3 DEF Between, Rereading
    <3>. QED
      BY <1>1, <1>3, <2>1, <2>3, <3>1
  <2>4. CASE ~ ReportedFirst(f) /\ Goto(c, "perform") /\ UNCHANGED req
    <3>1. "perform" \notin Between(f)
      BY <2>4 DEF Between
    <3>2. step'[c] = "perform" /\ \A d \in Caller \ {c} : step'[d] = step[d]
      BY <2>4 DEF Goto, TypeOK
    <3>. QED
      BY <1>1, <2>1, <2>4, <3>1, <3>2
  <2>. QED
    BY <1>7, <2>2, <2>3, <2>4 DEF Answer
<1>8. ASSUME NEW c \in Caller, Perform(c) PROVE ChargeInv'
  <2>. SUFFICES ASSUME NEW f \in Feature, f = req[c].feature PROVE ChargeInv'
    BY RequestType
  <2>1. /\ f \in Feature /\ step[c] = "perform"
        /\ performed' = [performed EXCEPT ![f] = @ + 1] /\ UNCHANGED reported
    BY <1>8, RequestType DEF Perform
  <2>2. /\ performed'[f] = performed[f] + 1
        /\ \A g \in Feature \ {f} : performed'[g] = performed[g]
    BY <2>1 DEF TypeOK
  <2>3. \A g \in Feature \ {f} : Lead(g)' = Lead(g) /\ Trail(g)' = Trail(g)
    BY <2>1, <2>2 DEF Lead, Trail
  <2>4. CASE ReportedFirst(f)
    <3>1. Finish(c)
      BY <1>8, <2>4 DEF Perform
    <3>2. c \in Owing(f) /\ \A g \in Feature : c \notin Owing(g)'
      BY <1>2, <2>1, <2>4, <3>1 DEF Owing, Between, Rereading
    <3>3. Lead(f)' = Lead(f) /\ Trail(f)' = Trail(f) + 1
      BY <2>1, <2>2, <2>4 DEF Lead, Trail
    <3>. QED
      BY <1>2, <2>1, <2>3, <3>1, <3>2, <3>3, OneCounted
  <2>5. CASE ~ ReportedFirst(f)
    <3>1. BeginReport(c)
      BY <1>8, <2>5 DEF Perform
    <3>2. \A g \in Feature \ {f} : c \notin Owing(g)'
      BY <1>3, <3>1 DEF Owing
    <3>3. Lead(f)' = Lead(f) + 1 /\ Trail(f)' = Trail(f)
      BY <2>1, <2>2, <2>5 DEF Lead, Trail
    <3>. QED
      BY <1>3, <2>1, <2>3, <3>1, <3>2, <3>3, OneCounted
  <2>. QED
    BY <2>4, <2>5
<1>9. ASSUME NEW c \in Caller, Increment(c) PROVE ChargeInv'
  <2>. SUFFICES ASSUME NEW f \in Feature, f = req[c].feature PROVE ChargeInv'
    BY RequestType
  <2>1. /\ f \in Feature /\ step[c] = "increment"
        /\ reported' = [reported EXCEPT ![f] = @ + 1] /\ UNCHANGED performed
    BY <1>9, RequestType DEF Increment
  <2>2. /\ step'[c] = "rereadCache" /\ \A d \in Caller \ {c} : step'[d] = step[d]
        /\ \A d \in Caller : req'[d].feature = req[d].feature
    BY <1>9 DEF Increment, Goto, TypeOK, Request
  <2>3. /\ reported'[f] = reported[f] + 1
        /\ \A g \in Feature \ {f} : reported'[g] = reported[g]
    BY <2>1 DEF TypeOK
  <2>4. \A g \in Feature \ {f} :
          /\ Lead(g)' = Lead(g) /\ Trail(g)' = Trail(g)
          /\ c \notin Owing(g)'
    BY <2>1, <2>2, <2>3 DEF Lead, Trail, Owing
  <2>5. CASE ReportedFirst(f)
    <3>1. Lead(f)' = Lead(f) + 1 /\ Trail(f)' = Trail(f)
      BY <2>1, <2>3, <2>5 DEF Lead, Trail
    <3>. QED
      BY <2>1, <2>2, <2>4, <3>1, OneCounted
  <2>6. CASE ~ ReportedFirst(f)
    <3>1. Lead(f)' = Lead(f) /\ Trail(f)' = Trail(f) + 1
      BY <2>1, <2>3, <2>6 DEF Lead, Trail
    <3>2. c \in Owing(f) /\ c \notin Owing(f)'
      BY <2>1, <2>2, <2>6 DEF Owing, Between, Rereading
    <3>. QED
      BY <2>1, <2>2, <2>4, <3>1, <3>2, OneCounted
  <2>. QED
    BY <2>5, <2>6
<1>10. ASSUME NEW c \in Caller, Reported(c) PROVE ChargeInv'
  <2>. DEFINE f == req[c].feature
  <2>1. UNCHANGED <<performed, reported>> /\ step[c] = "saveReported"
    BY <1>10 DEF Reported
  <2>2. CASE Finish(c)
    BY <1>1, <1>2, <2>1, <2>2 DEF Rereading
  <2>3. CASE ReportedFirst(f) /\ Goto(c, "perform") /\ UNCHANGED req
    <3>1. "saveReported" \in Between(f)
      BY <2>3 DEF Between, Rereading
    <3>2. step'[c] = "perform" /\ \A d \in Caller \ {c} : step'[d] = step[d]
      BY <2>3 DEF Goto, TypeOK
    <3>. QED
      BY <1>1, <2>1, <2>3, <3>1, <3>2
  <2>. QED
    BY <1>10, <2>2, <2>3 DEF Reported
<1>11. ASSUME NEW c \in Caller, Fail(c) PROVE ChargeInv'
  BY <1>1, <1>2, <1>11 DEF Fail, Rereading
<1>12. CASE Expire \/ NextMonth \/ UNCHANGED vars
  <2>1. UNCHANGED <<step, req, performed, reported>>
    BY <1>12 DEF Expire, NextMonth, vars
  <2>2. \A f \in Feature :
          Owing(f)' = Owing(f) /\ Lead(f)' = Lead(f) /\ Trail(f)' = Trail(f)
    BY <2>1 DEF Owing, Lead, Trail
  <2>. QED
    BY <2>2 DEF ChargeInv
<1>. QED
  BY <1>4, <1>5, <1>6, <1>7, <1>8, <1>9, <1>10, <1>11, <1>12 DEF Next, CallerStep

\* What is charged first is not performed without its charge, what is
\* performed first is not charged without having happened.
THEOREM ChargesMatch == Spec => []ChargeMatchesOperation
<1>1. TypeOK /\ ChargeInv => ChargeMatchesOperation
  <2>. SUFFICES ASSUME TypeOK, ChargeInv, NEW f \in Feature PROVE Trail(f) <= Lead(f)
    BY DEF ChargeMatchesOperation, Lead, Trail
  <2>1. Trail(f) + Cardinality(Owing(f)) <= Lead(f)
    BY DEF ChargeInv
  <2>. QED
    BY <2>1, OwingFinite, CountsType
<1>. QED
  BY <1>1, InitTyped, NextTyped, InitCharge, NextCharge, PTL DEF Spec
===========================================================================
