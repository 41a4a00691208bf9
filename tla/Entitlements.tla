--------------------------- MODULE Entitlements ---------------------------
(***************************************************************************)
(* Quotas of one user (richcrab/services/entitlements) and the services    *)
(* that ask for them.  A caller checks a feature, performs the operation   *)
(* and reports it; bot and AI operations are reported first and performed  *)
(* afterwards.  Usage is counted in Postgres per month; the plan and the   *)
(* usage of each feature are cached in Redis for 15 minutes.               *)
(*                                                                         *)
(* Every call to Redis or Postgres is a step of its own, so requests       *)
(* interleave between them.  A call whose error is not swallowed may fail  *)
(* and end the request; a cache write may fail and do nothing; a cache     *)
(* entry may expire at any moment.                                         *)
(***************************************************************************)
EXTENDS Naturals, FiniteSets

CONSTANTS
    Caller,      \* requests that may be in flight at a time
    Feature,     \* feature names the callers use
    Plan,        \* codes of the plans table
    Quota,       \* monthly_quota of each plan
    UserPlan,    \* what users.plan_code may hold, None for NULL
    CallsFail,   \* whether calls to Redis and Postgres may fail
    MaxCount,    \* i32::MAX, where the column of a counter overflows
    MaxMonth,    \* bound: months that pass
    MaxRequests, \* bound: requests of one behaviour
    None         \* Option::None

Month == 0 .. MaxMonth
Count == 0 .. MaxCount
Column == {"rooms_created", "rooms_started", "bots_registered",
           "ai_jobs_started", "quizzes_created_count", "messages_sent_count"}

ASSUME PlanAssumption ==
    /\ Plan # {} /\ Quota \in [Plan -> Nat] /\ None \notin Plan
    /\ UserPlan \subseteq Plan \cup {None} /\ UserPlan # {}
ASSUME FeatureAssumption == Feature # {}
ASSUME CallerAssumption == IsFiniteSet(Caller)
ASSUME CountAssumption ==
    /\ CallsFail \in BOOLEAN
    /\ MaxCount \in Nat /\ MaxMonth \in Nat /\ MaxRequests \in Nat
    /\ None \notin Nat

\* usage_units, usage_for_feature: the column a feature is counted in.
ColumnOf(f) ==
    CASE f = "CREATE_ROOM"  -> "rooms_created"
      [] f = "START_GAME"   -> "rooms_started"
      [] f = "REGISTER_BOT" -> "bots_registered"
      [] f = "AI_GENERATE"  -> "ai_jobs_started"
      [] f = "CREATE_QUIZ"  -> "quizzes_created_count"
      [] OTHER              -> "messages_sent_count"

\* The bot service and AI jobs report before the operation, all others
\* after it.
ReportedFirst(f) == f \in {"REGISTER_BOT", "BOT_COMMAND", "AI_GENERATE"}

\* resolve_user_plan: the plan of the user, else "free", else the cheapest.
PlansFor(code) ==
    IF code \in Plan THEN {code}
    ELSE IF "free" \in Plan THEN {"free"}
    ELSE {p \in Plan : \A q \in Plan : Quota[p] <= Quota[q]}

VARIABLES
    month,      \* the current month
    userPlan,   \* users.plan_code, which no code of the repository changes
    counter,    \* usage_counters
    planCache,  \* Redis: the cached plan code
    usageCache, \* Redis: the cached usage of a feature in a month
    step,       \* where each caller's request is
    req,        \* the locals of that request
    requests,   \* requests so far
    performed,  \* history: operations performed, by feature
    reported    \* history: units counted, by feature

caches == <<planCache, usageCache>>
outside == <<month, userPlan>>
vars == <<outside, counter, caches, step, req, requests, performed, reported>>

Step == {"idle", "readPlanCache", "readPlan", "savePlan", "readUsageCache",
         "readUsage", "saveUsage", "answer", "perform", "increment", "rereadCache",
         "rereadUsage", "saveReread", "saveReported"}
Reporting == {"increment", "rereadCache", "rereadUsage", "saveReread", "saveReported"}

\* began: the month when the RPC began, which report_usage uses; month: the
\* one resolve_usage computed when it was called; exhausted: the quota was
\* used up when the check began and nobody was reporting.
Request == [feature   : Feature,
            began     : Month,
            month     : Month,
            plan      : Plan \cup {None},
            used      : Count,
            exhausted : BOOLEAN]
NoRequest == [feature |-> CHOOSE f \in Feature : TRUE, began |-> 0, month |-> 0,
              plan |-> None, used |-> 0, exhausted |-> FALSE]

Goto(c, s) == step' = [step EXCEPT ![c] = s]
Finish(c) == Goto(c, "idle") /\ req' = [req EXCEPT ![c] = NoRequest]
BeginReport(c) == Goto(c, "increment") /\ req' = [req EXCEPT ![c].began = month]
Used(c) == counter[req[c].month][ColumnOf(req[c].feature)]

Init ==
    /\ month = 0
    /\ userPlan \in UserPlan
    /\ counter = [m \in Month |-> [k \in Column |-> 0]]
    /\ planCache = None
    /\ usageCache = [f \in Feature |-> [m \in Month |-> None]]
    /\ step = [c \in Caller |-> "idle"]
    /\ req = [c \in Caller |-> NoRequest]
    /\ requests = 0
    /\ performed = [f \in Feature |-> 0]
    /\ reported = [f \in Feature |-> 0]

---------------------------------------------------------------------------
(* check_entitlement                                                       *)

Check(c, f) ==
    /\ step[c] = "idle"
    /\ requests < MaxRequests
    /\ requests' = requests + 1
    /\ req' = [req EXCEPT ![c] =
          [NoRequest EXCEPT
             !.feature = f,
             !.began = month,
             !.month = month,
             !.exhausted = /\ \A d \in Caller : step[d] \notin Reporting
                           /\ \A p \in Plan : counter[month][ColumnOf(f)] >= Quota[p]]]
    /\ Goto(c, "readPlanCache")
    /\ UNCHANGED <<outside, counter, caches, performed, reported>>

ReadPlanCache(c) ==
    /\ step[c] = "readPlanCache"
    /\ IF planCache = None
       THEN Goto(c, "readPlan") /\ UNCHANGED req
       ELSE /\ Goto(c, "readUsageCache")
            /\ req' = [req EXCEPT ![c].plan = planCache, ![c].month = month]
    /\ UNCHANGED <<outside, counter, caches, requests, performed, reported>>

ReadPlan(c) ==
    /\ step[c] = "readPlan"
    /\ \E p \in PlansFor(userPlan) : req' = [req EXCEPT ![c].plan = p]
    /\ Goto(c, "savePlan")
    /\ UNCHANGED <<outside, counter, caches, requests, performed, reported>>

SavePlan(c) ==
    /\ step[c] = "savePlan"
    /\ \/ planCache' = req[c].plan
       \/ CallsFail /\ UNCHANGED planCache
    /\ Goto(c, "readUsageCache")
    /\ req' = [req EXCEPT ![c].month = month]
    /\ UNCHANGED <<outside, counter, usageCache, requests, performed, reported>>

\* resolve_usage, once for a check and once for a report: it asks the cache,
\* and after a miss the counter.
ReadCache(c, hit, miss) ==
    LET cached == usageCache[req[c].feature][req[c].month]
    IN  /\ Goto(c, IF cached = None THEN miss ELSE hit)
        /\ req' = [req EXCEPT ![c].used = IF cached = None THEN 0 ELSE cached]
        /\ UNCHANGED <<outside, counter, caches, requests, performed, reported>>

ReadCounter(c, next) ==
    /\ Goto(c, next)
    /\ req' = [req EXCEPT ![c].used = Used(c)]
    /\ UNCHANGED <<outside, counter, caches, requests, performed, reported>>

SaveUsage(c, m, next) ==
    /\ \/ usageCache' = [usageCache EXCEPT ![req[c].feature][m] = req[c].used]
       \/ CallsFail /\ UNCHANGED usageCache
    /\ Goto(c, next)
    /\ UNCHANGED <<outside, counter, planCache, req, requests, performed, reported>>

CheckUsage(c) ==
    \/ step[c] = "readUsageCache" /\ ReadCache(c, "answer", "readUsage")
    \/ step[c] = "readUsage" /\ ReadCounter(c, "saveUsage")
    \/ step[c] = "saveUsage" /\ SaveUsage(c, req[c].month, "answer")

Allowed(c) == req[c].used < Quota[req[c].plan]

Answer(c) ==
    /\ step[c] = "answer"
    /\ \/ ~ Allowed(c) /\ Finish(c)
       \/ Allowed(c) /\ IF ReportedFirst(req[c].feature) THEN BeginReport(c)
                        ELSE Goto(c, "perform") /\ UNCHANGED req
    /\ UNCHANGED <<outside, counter, caches, requests, performed, reported>>

---------------------------------------------------------------------------
(* The operation, and report_usage                                         *)

Perform(c) ==
    /\ step[c] = "perform"
    /\ performed' = [performed EXCEPT ![req[c].feature] = @ + 1]
    /\ IF ReportedFirst(req[c].feature) THEN Finish(c) ELSE BeginReport(c)
    /\ UNCHANGED <<outside, counter, caches, requests, reported>>

\* Mutant: any sum fits.
AlwaysFits(n) == TRUE
\* The addition fails in the database when the column would overflow.
Fits(n) == n <= MaxCount

Increment(c) ==
    LET f == req[c].feature
        m == req[c].began
        k == ColumnOf(f)
    IN  /\ step[c] = "increment"
        /\ Fits(counter[m][k] + 1)
        /\ counter' = [counter EXCEPT ![m][k] = @ + 1]
        /\ req' = [req EXCEPT ![c].month = month]
        /\ reported' = [reported EXCEPT ![f] = @ + 1]
        /\ Goto(c, "rereadCache")
        /\ UNCHANGED <<outside, caches, requests, performed>>

\* The value saved is what resolve_usage finds, in the cache first.
ReportUsage(c) ==
    \/ step[c] = "rereadCache" /\ ReadCache(c, "saveReported", "rereadUsage")
    \/ step[c] = "rereadUsage" /\ ReadCounter(c, "saveReread")
    \/ step[c] = "saveReread" /\ SaveUsage(c, req[c].month, "saveReported")

\* Mutant: the key is made for the month of the write.
ReportKeyNow(c) == month
\* The key is made for the month of the report.
ReportKey(c) == req[c].began

Reported(c) ==
    LET first == ReportedFirst(req[c].feature)
        m == ReportKey(c)
    IN  /\ step[c] = "saveReported"
        /\ \/ usageCache' = [usageCache EXCEPT ![req[c].feature][m] = req[c].used]
           \/ CallsFail /\ UNCHANGED usageCache
        /\ IF first THEN Goto(c, "perform") /\ UNCHANGED req ELSE Finish(c)
        /\ UNCHANGED <<outside, counter, planCache, requests, performed, reported>>

\* Where a call that fails ends the request, or the operation is refused.
Fallible == {"readPlanCache", "readPlan", "readUsageCache", "readUsage", "perform",
             "increment", "rereadCache", "rereadUsage"}

\* Mutant: the caller does not look whether its report went through.
FailUnnoticed(c) ==
    /\ CallsFail
    /\ step[c] \in Fallible
    /\ IF step[c] = "increment" THEN Goto(c, "saveReported") /\ UNCHANGED req
       ELSE Finish(c)
    /\ UNCHANGED <<outside, counter, caches, requests, performed, reported>>

Fail(c) ==
    /\ CallsFail
    /\ step[c] \in Fallible
    /\ Finish(c)
    /\ UNCHANGED <<outside, counter, caches, requests, performed, reported>>

---------------------------------------------------------------------------
(* What happens around the requests.                                       *)

Expire ==
    /\ \/ planCache' = None /\ UNCHANGED usageCache
       \/ /\ \E f \in Feature, m \in Month :
                usageCache' = [usageCache EXCEPT ![f][m] = None]
          /\ UNCHANGED planCache
    /\ UNCHANGED <<outside, counter, step, req, requests, performed, reported>>

NextMonth ==
    /\ month < MaxMonth
    /\ month' = month + 1
    /\ UNCHANGED <<userPlan, counter, caches, step, req, requests, performed, reported>>

CallerStep(c) ==
    \/ \E f \in Feature : Check(c, f)
    \/ ReadPlanCache(c) \/ ReadPlan(c) \/ SavePlan(c) \/ CheckUsage(c) \/ Answer(c)
    \/ Perform(c) \/ Increment(c) \/ ReportUsage(c) \/ Reported(c)
    \/ Fail(c)

Next == (\E c \in Caller : CallerStep(c)) \/ Expire \/ NextMonth

Spec == Init /\ [][Next]_vars

---------------------------------------------------------------------------
(* Properties.                                                             *)

TypeOK ==
    /\ month \in Month
    /\ userPlan \in UserPlan
    /\ counter \in [Month -> [Column -> Count]]
    /\ planCache \in Plan \cup {None}
    /\ usageCache \in [Feature -> [Month -> Count \cup {None}]]
    /\ step \in [Caller -> Step]
    /\ req \in [Caller -> Request]
    /\ requests \in Nat
    /\ performed \in [Feature -> Nat]
    /\ reported \in [Feature -> Nat]

\* A cached usage of the current month never exceeds the counter, although
\* it is written by concurrent checks and reports from values they read
\* before, and although a report around midnight of a month's last day
\* writes the new month's usage.
UsageNotOverstated ==
    \A f \in Feature :
        usageCache[f][month] # None => usageCache[f][month] <= counter[month][ColumnOf(f)]

\* Nobody is denied without having used up the quota of a plan the user
\* had: stale caches err on the side of the user.
DenialIsJust ==
    \A c \in Caller :
        step[c] = "answer" /\ req[c].month = month /\ ~ Allowed(c)
        => counter[month][ColumnOf(req[c].feature)] >= Quota[req[c].plan]

\* Rooms, games, quizzes and joins are charged only when they happened, bot
\* commands and AI jobs happen only when they were charged, whatever call
\* fails in between.
ChargeMatchesOperation ==
    \A f \in Feature :
        IF ReportedFirst(f) THEN performed[f] <= reported[f]
        ELSE reported[f] <= performed[f]

\* What docs/richcrab/services/entitlements/domain-and-application.md says
\* of the service, "check_entitlement + report_usage on the basis of plan
\* and counters": a check that begins when every report is done and the
\* counter has reached the quota of every plan is not allowed.
CheckFollowsCounters ==
    \A c \in Caller :
        step[c] = "answer" /\ req[c].exhausted /\ req[c].month = req[c].began
        => ~ Allowed(c)

===========================================================================
