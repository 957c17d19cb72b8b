------------------------- MODULE PublicModelBudget -------------------------
(***************************************************************************)
(* The daily budget in front of every paid model call of the public web    *)
(* application (apps/web/src/lib/public-model-budget.ts).                  *)
(*                                                                         *)
(* A request names its visitor and the KST day it read from its own clock, *)
(* asks a shared Redis to charge one visitor request and one or two calls  *)
(* in a single EVAL, and only then runs an operation that may use the      *)
(* calls it reserved.  Application functions run concurrently, the message *)
(* to the store may be lost, arrive late or be executed after its caller   *)
(* gave up, and the two clocks cross midnight KST independently.           *)
(*                                                                         *)
(* Time is kept as day numbers: every comparison in the code is against    *)
(* startsAt or expiresAt, the two ends of one day.                         *)
(***************************************************************************)
EXTENDS Naturals, FiniteSets

CONSTANTS
    Requests,      \* the POST requests that reach the budget
    Visitors,      \* the visitors behind them (an HMAC of the address)
    VisitorOf,     \* the visitor of a request
    CallsOf,       \* the provider attempts a request reserves, 1 or 2
    VisitorLimit,  \* AI_LIMIT_VISITOR_REQUESTS
    GlobalLimit,   \* AI_LIMIT_GLOBAL_CALLS
    MaxDay         \* bound: the last day the model runs to

ASSUME BudgetAssumption ==
    /\ IsFiniteSet(Requests)
    /\ VisitorOf \in [Requests -> Visitors]
    /\ CallsOf \in [Requests -> {1, 2}]
    /\ VisitorLimit \in Nat \ {0}
    /\ GlobalLimit \in Nat \ {0}
    /\ MaxDay \in Nat

Days == 0 .. MaxDay

Decisions == {"allowed", "visitor-limit", "global-limit", "unavailable"}

\* MappingBudgetDenialReason: how PublicModelBudgetRequired ends a request.
DenialReasons ==
    {"VISITOR_DAILY_LIMIT", "GLOBAL_DAILY_LIMIT", "BUDGET_UNAVAILABLE"}

VARIABLES
    appDay,        \* the day of Date.now() in the application functions
    storeDay,      \* the day of redis.call('TIME')
    visitorCount,  \* the visitor keys, 0 where the key does not exist
    globalCount,   \* the global keys, 0 where the key does not exist
    pc,            \* where runPublicModelRequest stands, or how it ended
    day,           \* the day the request's reservation is for
    wire,          \* the EVAL message of the request
    reply,         \* what the script answered to it
    remaining,     \* the closure's count of unused attempts
    charged,       \* history: the requests the store has charged
    calls          \* history: the provider attempts made, with their day

vars == <<appDay, storeDay, visitorCount, globalCount, pc, day, wire, reply,
          remaining, charged, calls>>

Attempts == [req : Requests, slot : {1, 2}, on : Days]

TypeOK ==
    /\ appDay \in Days
    /\ storeDay \in Days
    /\ visitorCount \in [Days -> [Visitors -> Nat]]
    /\ globalCount \in [Days -> Nat]
    /\ pc \in [Requests -> {"arrived", "reserving", "operating", "finished",
                            "blocked"} \cup DenialReasons]
    /\ day \in [Requests -> Days]
    /\ wire \in [Requests -> {"none", "sent", "answered", "lost"}]
    /\ reply \in [Requests -> Decisions]
    /\ remaining \in [Requests -> 0 .. 2]
    /\ charged \subseteq Requests
    /\ calls \subseteq Attempts

Init ==
    /\ appDay = 0
    /\ storeDay = 0
    /\ visitorCount = [d \in Days |-> [v \in Visitors |-> 0]]
    /\ globalCount = [d \in Days |-> 0]
    /\ pc = [r \in Requests |-> "arrived"]
    /\ day = [r \in Requests |-> 0]
    /\ wire = [r \in Requests |-> "none"]
    /\ reply = [r \in Requests |-> "unavailable"]
    /\ remaining = [r \in Requests |-> 0]
    /\ charged = {}
    /\ calls = {}

-----------------------------------------------------------------------------
(* The store: one atomic script, and counters that expire with their day. *)

\* Mutant of ScriptInDay: the script trusts the day its caller names.
NoDayCheck(r) == TRUE

\* The script refuses a reservation whose day is not the store's own day.
ScriptInDay(r) == storeDay = day[r]

VisitorExhausted(r) == visitorCount[day[r]][VisitorOf[r]] >= VisitorLimit

\* Mutants of GlobalExhausted: the calls asked for are not added, and a
\* reservation that exactly fills the day is refused.
GlobalIgnoresCalls(r) == globalCount[day[r]] >= GlobalLimit
GlobalTooEarly(r) == globalCount[day[r]] + CallsOf[r] >= GlobalLimit

GlobalExhausted(r) == globalCount[day[r]] + CallsOf[r] > GlobalLimit

ScriptDecision(r) ==
    IF ~ScriptInDay(r) THEN "unavailable"
    ELSE IF VisitorExhausted(r) THEN "visitor-limit"
    ELSE IF GlobalExhausted(r) THEN "global-limit"
    ELSE "allowed"

\* The EVAL runs on the Redis primary, whether or not its caller still waits.
StoreEval(r) ==
    /\ wire[r] = "sent"
    /\ wire' = [wire EXCEPT ![r] = "answered"]
    /\ reply' = [reply EXCEPT ![r] = ScriptDecision(r)]
    /\ IF ScriptDecision(r) = "allowed"
       THEN /\ visitorCount' =
                 [visitorCount EXCEPT ![day[r]][VisitorOf[r]] = @ + 1]
            /\ globalCount' = [globalCount EXCEPT ![day[r]] = @ + CallsOf[r]]
            /\ charged' = charged \cup {r}
       ELSE UNCHANGED <<visitorCount, globalCount, charged>>
    /\ UNCHANGED <<appDay, storeDay, pc, day, remaining, calls>>

\* Midnight KST on the store: EXAT removes the counters of the day that ended.
\* The two clocks are never more than one day apart.
StoreDayPasses ==
    /\ storeDay < MaxDay
    /\ storeDay <= appDay
    /\ storeDay' = storeDay + 1
    /\ visitorCount' =
         [visitorCount EXCEPT ![storeDay] = [v \in Visitors |-> 0]]
    /\ globalCount' = [globalCount EXCEPT ![storeDay] = 0]
    /\ UNCHANGED <<appDay, pc, day, wire, reply, remaining, charged, calls>>

\* The network drops the message before the script runs.
LoseReservation(r) ==
    /\ wire[r] = "sent"
    /\ wire' = [wire EXCEPT ![r] = "lost"]
    /\ UNCHANGED <<appDay, storeDay, visitorCount, globalCount, pc, day,
                   reply, remaining, charged, calls>>

-----------------------------------------------------------------------------
(* The application function. *)

\* Midnight KST on the application's clock.
AppDayPasses ==
    /\ appDay < MaxDay
    /\ appDay <= storeDay
    /\ appDay' = appDay + 1
    /\ UNCHANGED <<storeDay, visitorCount, globalCount, pc, day, wire, reply,
                   remaining, charged, calls>>

\* The expiry checks compare the function's clock with the reservation's end.
Expired(r) == appDay > day[r]

\* The platform, the address header, the secret or a limit is missing or bad.
Refuse(r) ==
    /\ pc[r] = "arrived"
    /\ pc' = [pc EXCEPT ![r] = "BUDGET_UNAVAILABLE"]
    /\ UNCHANGED <<appDay, storeDay, visitorCount, globalCount, day, wire,
                   reply, remaining, charged, calls>>

\* The visitor is known: the day is read once and the reservation is sent.
Reserve(r) ==
    /\ pc[r] = "arrived"
    /\ pc' = [pc EXCEPT ![r] = "reserving"]
    /\ day' = [day EXCEPT ![r] = appDay]
    /\ wire' = [wire EXCEPT ![r] = "sent"]
    /\ UNCHANGED <<appDay, storeDay, visitorCount, globalCount, reply,
                   remaining, charged, calls>>

\* Mutant of StoreUnavailable: no timeout, the caller waits for an answer.
UnavailableOnlyOnAnswer(r) ==
    /\ wire[r] = "answered"
    /\ pc[r] = "reserving"
    /\ pc' = [pc EXCEPT ![r] = "BUDGET_UNAVAILABLE"]
    /\ UNCHANGED <<appDay, storeDay, visitorCount, globalCount, day, wire,
                   reply, remaining, charged, calls>>

\* The three-second timeout, an HTTP error, or an answer that does not parse.
StoreUnavailable(r) ==
    /\ pc[r] = "reserving"
    /\ pc' = [pc EXCEPT ![r] = "BUDGET_UNAVAILABLE"]
    /\ UNCHANGED <<appDay, storeDay, visitorCount, globalCount, day, wire,
                   reply, remaining, charged, calls>>

\* Where a decision leads: an allowance that has expired is no allowance.
OutcomeOf(r) ==
    IF reply[r] = "visitor-limit" THEN "VISITOR_DAILY_LIMIT"
    ELSE IF reply[r] = "global-limit" THEN "GLOBAL_DAILY_LIMIT"
    ELSE IF reply[r] = "allowed" /\ ~Expired(r) THEN "operating"
    ELSE "BUDGET_UNAVAILABLE"

DecisionArrives(r) ==
    /\ pc[r] = "reserving"
    /\ wire[r] = "answered"
    /\ pc' = [pc EXCEPT ![r] = OutcomeOf(r)]
    /\ remaining' = [remaining EXCEPT ![r] =
                       IF OutcomeOf(r) = "operating" THEN CallsOf[r] ELSE @]
    /\ UNCHANGED <<appDay, storeDay, visitorCount, globalCount, day, wire,
                   reply, charged, calls>>

\* Mutants of MayCall: a reservation outlives its day, or is not counted down.
MayCallAfterExpiry(r) == remaining[r] > 0
MayCallUncounted(r) == ~Expired(r)

\* The wrapper the operation must call the provider through.
MayCall(r) == remaining[r] > 0 /\ ~Expired(r)

CallModel(r) ==
    /\ pc[r] = "operating"
    /\ MayCall(r)
    /\ remaining' = [remaining EXCEPT ![r] = @ - 1]
    /\ calls' = calls \cup {[req |-> r, slot |-> remaining[r], on |-> appDay]}
    /\ UNCHANGED <<appDay, storeDay, visitorCount, globalCount, pc, day, wire,
                   reply, charged>>

\* A further attempt is refused with an error that does not deny earlier ones.
BlockCall(r) ==
    /\ pc[r] = "operating"
    /\ ~MayCall(r)
    /\ pc' = [pc EXCEPT ![r] = "blocked"]
    /\ UNCHANGED <<appDay, storeDay, visitorCount, globalCount, day, wire,
                   reply, remaining, charged, calls>>

\* The operation returns or throws; attempts it did not use are not refunded.
Finish(r) ==
    /\ pc[r] = "operating"
    /\ pc' = [pc EXCEPT ![r] = "finished"]
    /\ UNCHANGED <<appDay, storeDay, visitorCount, globalCount, day, wire,
                   reply, remaining, charged, calls>>

-----------------------------------------------------------------------------
RequestStep(r) ==
    \/ Refuse(r) \/ Reserve(r) \/ StoreUnavailable(r) \/ DecisionArrives(r)
    \/ CallModel(r) \/ BlockCall(r) \/ Finish(r)

Next ==
    \/ \E r \in Requests : RequestStep(r) \/ StoreEval(r) \/ LoseReservation(r)
    \/ AppDayPasses
    \/ StoreDayPasses

Spec == Init /\ [][Next]_vars

\* The timeout fires and an operation ends; nothing else is promised to happen.
FairSpec ==
    /\ Spec
    /\ \A r \in Requests :
         /\ WF_vars(StoreUnavailable(r) \/ DecisionArrives(r))
         /\ WF_vars(Finish(r) \/ BlockCall(r))

-----------------------------------------------------------------------------
CallsOn(d) == {c \in calls : c.on = d}

ChargedBy(d, v) == {r \in charged : day[r] = d /\ VisitorOf[r] = v}

ChargedSlots(d) ==
    {s \in [req : charged, slot : {1, 2}, on : {d}] :
        day[s.req] = d /\ s.slot <= CallsOf[s.req]}

\* On no day of the application's clock are more provider calls made than
\* AI_LIMIT_GLOBAL_CALLS, however reservations and midnights interleave.
GlobalCap ==
    \A d \in Days : Cardinality(CallsOn(d)) <= GlobalLimit

\* On no day do more than AI_LIMIT_VISITOR_REQUESTS requests of one visitor
\* reach the provider.
VisitorCap ==
    \A d \in Days, v \in Visitors :
        Cardinality({r \in Requests : VisitorOf[r] = v
                        /\ \E c \in CallsOn(d) : c.req = r}) <= VisitorLimit

\* Both caps of a day.
CallCaps == GlobalCap /\ VisitorCap

\* "No model was called", which every denial tells the visitor, is true.
DenialIsTruthful ==
    \A r \in Requests : pc[r] \in DenialReasons => \A c \in calls : c.req # r

\* A visitor is told a limit is reached only when the day's charged requests
\* do reach it: the reservation refused would have gone over.
LimitDenialIsTrue ==
    \A r \in Requests :
        /\ pc[r] = "VISITOR_DAILY_LIMIT" =>
             Cardinality(ChargedBy(day[r], VisitorOf[r])) >= VisitorLimit
        /\ pc[r] = "GLOBAL_DAILY_LIMIT" =>
             Cardinality(ChargedSlots(day[r])) + CallsOf[r] > GlobalLimit

\* What a refusal tells the visitor is so: nothing was called, and where it
\* names a limit, that limit is reached.
DenialsAreTrue == DenialIsTruthful /\ LimitDenialIsTrue

\* A delayed request cannot recreate an expired day's counters.
ExpiredCountersStayGone ==
    \A d \in Days : d < storeDay =>
        /\ globalCount[d] = 0
        /\ \A v \in Visitors : visitorCount[d][v] = 0

\* A request that asked the store settles even when its message is lost.
ReservationSettles ==
    \A r \in Requests :
        pc[r] = "reserving" ~> pc[r] \notin {"reserving", "operating"}

\* The budget implements the cap it is there for.
Cap == INSTANCE DailyCallCap
         WITH Cap <- GlobalLimit, CapDays <- Days, today <- appDay,
              spent <- [d \in Days |-> Cardinality(CallsOn(d))]

ImplementsDailyCallCap == Cap!CapSpec
=============================================================================
