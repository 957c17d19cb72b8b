---------------------- MODULE PublicModelBudgetProofs ----------------------
(***************************************************************************)
(* What holds of the daily model budget for every set of requests, every   *)
(* limit and every number of days.  The argument rests on one inductive    *)
(* invariant: an attempt is made only in a slot its request was charged    *)
(* for, on the day it was charged for, and the store never charges more    *)
(* slots of a day than the limit.                                          *)
(***************************************************************************)
EXTENDS PublicModelBudget, FiniteSetTheorems, TLAPS

Admitted == {"operating", "finished", "blocked"}

\* The store has charged exactly the requests it answered "allowed".
ChargedIffAllowed ==
    \A r \in Requests :
        r \in charged <=> wire[r] = "answered" /\ reply[r] = "allowed"

\* A request that has not asked yet has sent nothing; one that was let in was
\* charged; and no reservation names a day the application has not reached.
RequestsInOrder ==
    \A r \in Requests :
        /\ pc[r] = "arrived" => wire[r] = "none"
        /\ pc[r] \in Admitted => r \in charged
        /\ day[r] <= appDay
        /\ remaining[r] <= CallsOf[r]

\* Every attempt uses a slot its request was charged for, on that day.
CallsAreCharged ==
    \A c \in calls :
        /\ pc[c.req] \in Admitted
        /\ c.on = day[c.req]
        /\ c.slot <= CallsOf[c.req]

\* The global key of the store's day counts the slots charged to it, the other
\* keys do not exist, and no day is charged over its limit.
GlobalAccounts ==
    \A d \in Days :
        /\ IsFiniteSet(ChargedSlots(d))
        /\ Cardinality(ChargedSlots(d)) <= GlobalLimit
        /\ d = storeDay => globalCount[d] = Cardinality(ChargedSlots(d))
        /\ d # storeDay => globalCount[d] = 0
        /\ d > storeDay => ChargedSlots(d) = {}

\* The same of the visitor keys, which count requests.
VisitorAccounts ==
    \A d \in Days, v \in Visitors :
        /\ Cardinality(ChargedBy(d, v)) <= VisitorLimit
        /\ d = storeDay => visitorCount[d][v] = Cardinality(ChargedBy(d, v))
        /\ d # storeDay => visitorCount[d][v] = 0
        /\ d > storeDay => ChargedBy(d, v) = {}

IInv ==
    /\ TypeOK
    /\ ChargedIffAllowed
    /\ RequestsInOrder
    /\ CallsAreCharged
    /\ GlobalAccounts
    /\ VisitorAccounts

-----------------------------------------------------------------------------
\* A reservation adds its one or two slots to its day, and no other day's.
LEMMA ChargedSlotsGrow ==
    ASSUME NEW r \in Requests, BudgetAssumption, charged \subseteq Requests,
           r \notin charged, charged' = charged \cup {r}, day' = day,
           day \in [Requests -> Days], NEW d \in Days,
           IsFiniteSet(ChargedSlots(d))
    PROVE  /\ IsFiniteSet(ChargedSlots(d)')
           /\ d = day[r] => Cardinality(ChargedSlots(d)') =
                              Cardinality(ChargedSlots(d)) + CallsOf[r]
           /\ d # day[r] => ChargedSlots(d)' = ChargedSlots(d)
  <1> DEFINE S == ChargedSlots(d)
             one == [req |-> r, slot |-> 1, on |-> d]
             two == [req |-> r, slot |-> 2, on |-> d]
  <1>1. CASE d # day[r]
    BY <1>1 DEF ChargedSlots
  <1>2. CASE d = day[r] /\ CallsOf[r] = 1
    <2>1. ChargedSlots(d)' = S \cup {one}
      BY <1>2 DEF ChargedSlots
    <2>2. one \notin S
      BY DEF ChargedSlots
    <2>3. /\ IsFiniteSet(S \cup {one})
          /\ Cardinality(S \cup {one}) = Cardinality(S) + 1
      BY <2>2, FS_AddElement
    <2> QED
      BY <1>2, <2>1, <2>3
  <1>3. CASE d = day[r] /\ CallsOf[r] = 2
    <2>1. ChargedSlots(d)' = (S \cup {one}) \cup {two}
      BY <1>3 DEF ChargedSlots
    <2>2. one \notin S /\ two \notin S \cup {one}
      BY DEF ChargedSlots
    <2>3. /\ IsFiniteSet(S \cup {one})
          /\ Cardinality(S \cup {one}) = Cardinality(S) + 1
      BY <2>2, FS_AddElement
    <2>4. /\ IsFiniteSet((S \cup {one}) \cup {two})
          /\ Cardinality((S \cup {one}) \cup {two}) =
               Cardinality(S \cup {one}) + 1
      BY <2>2, <2>3, FS_AddElement
    <2>5. Cardinality(S) \in Nat
      BY FS_CardinalityType
    <2> QED
      BY <1>3, <2>1, <2>3, <2>4, <2>5
  <1> QED
    BY <1>1, <1>2, <1>3 DEF BudgetAssumption

\* It adds its request to the charged requests of its visitor and its day.
LEMMA ChargedByGrows ==
    ASSUME NEW r \in Requests, BudgetAssumption, charged \subseteq Requests,
           r \notin charged, charged' = charged \cup {r}, day' = day,
           NEW d \in Days, NEW v \in Visitors
    PROVE  /\ d = day[r] /\ v = VisitorOf[r] =>
                Cardinality(ChargedBy(d, v)') =
                  Cardinality(ChargedBy(d, v)) + 1
           /\ d # day[r] \/ v # VisitorOf[r] =>
                ChargedBy(d, v)' = ChargedBy(d, v)
  <1>1. CASE d # day[r] \/ v # VisitorOf[r]
    BY <1>1 DEF ChargedBy
  <1>2. CASE d = day[r] /\ v = VisitorOf[r]
    <2>1. ChargedBy(d, v)' = ChargedBy(d, v) \cup {r}
      BY <1>2 DEF ChargedBy
    <2>2. r \notin ChargedBy(d, v) /\ ChargedBy(d, v) \in SUBSET Requests
      BY DEF ChargedBy
    <2>3. IsFiniteSet(ChargedBy(d, v))
      BY <2>2, FS_Subset DEF BudgetAssumption
    <2>4. Cardinality(ChargedBy(d, v) \cup {r}) =
            Cardinality(ChargedBy(d, v)) + 1
      BY <2>2, <2>3, FS_AddElement
    <2> QED
      BY <1>2, <2>1, <2>4
  <1> QED
    BY <1>1, <1>2

-----------------------------------------------------------------------------
\* A request has a visitor and reserves one or two calls.
LEMMA ConstantsTyped ==
    ASSUME NEW r \in Requests
    PROVE  VisitorOf[r] \in Visitors /\ CallsOf[r] \in {1, 2}
  BY BudgetAssumption DEF BudgetAssumption

\* The inductive invariant holds before anything was asked.
LEMMA InitIInv == Init => IInv
  <1> SUFFICES ASSUME Init PROVE IInv
    OBVIOUS
  <1> USE BudgetAssumption DEF BudgetAssumption, Init
  <1>1. TypeOK
    BY DEF TypeOK, Days, Decisions
  <1>2. ChargedIffAllowed /\ RequestsInOrder /\ CallsAreCharged
    BY DEF ChargedIffAllowed, RequestsInOrder, CallsAreCharged, Admitted
  <1>3. \A d \in Days : ChargedSlots(d) = {}
    BY DEF ChargedSlots
  <1>4. \A d \in Days, v \in Visitors : ChargedBy(d, v) = {}
    BY DEF ChargedBy
  <1>5. GlobalAccounts
    <2> SUFFICES ASSUME NEW d \in Days
                 PROVE  /\ IsFiniteSet({})
                        /\ Cardinality({}) <= GlobalLimit
                        /\ Cardinality({}) = 0
                        /\ globalCount[d] = 0
      BY <1>3 DEF GlobalAccounts
    <2> QED
      BY FS_EmptySet
  <1>6. VisitorAccounts
    <2> SUFFICES ASSUME NEW d \in Days, NEW v \in Visitors
                 PROVE  /\ Cardinality({}) <= VisitorLimit
                        /\ Cardinality({}) = 0
                        /\ visitorCount[d][v] = 0
      BY <1>4 DEF VisitorAccounts
    <2> QED
      BY FS_EmptySet
  <1> QED
    BY <1>1, <1>2, <1>5, <1>6 DEF IInv

\* No step leaves the types.
LEMMA NextTypeOK == TypeOK /\ [Next]_vars => TypeOK'
  <1> SUFFICES ASSUME TypeOK, [Next]_vars PROVE TypeOK'
    OBVIOUS
  <1> USE BudgetAssumption DEF BudgetAssumption, TypeOK
  <1>1. ASSUME NEW r \in Requests, StoreEval(r) PROVE TypeOK'
    <2>1. ScriptDecision(r) \in Decisions
      BY DEF ScriptDecision, Decisions
    <2>2. CASE ScriptDecision(r) = "allowed"
      <3>1. /\ visitorCount' =
                 [visitorCount EXCEPT ![day[r]] =
                    [visitorCount[day[r]] EXCEPT ![VisitorOf[r]] = @ + 1]]
            /\ globalCount' = [globalCount EXCEPT ![day[r]] = @ + CallsOf[r]]
        BY <1>1, <2>2 DEF StoreEval
      <3>2. day[r] \in Days
        OBVIOUS
      <3>3. visitorCount' \in [Days -> [Visitors -> Nat]]
        BY <3>1, <3>2, ConstantsTyped
      <3>4. globalCount' \in [Days -> Nat]
        <4>1. CallsOf[r] \in Nat
          BY ConstantsTyped
        <4>2. globalCount[day[r]] + CallsOf[r] \in Nat
          BY <3>2, <4>1
        <4> QED
          BY <3>1, <3>2, <4>2
      <3> QED
        BY <1>1, <2>1, <2>2, <3>3, <3>4 DEF StoreEval
    <2>3. CASE ScriptDecision(r) # "allowed"
      BY <1>1, <2>1, <2>3 DEF StoreEval
    <2> QED
      BY <2>2, <2>3
  <1>2. ASSUME NEW r \in Requests, LoseReservation(r) PROVE TypeOK'
    BY <1>2 DEF LoseReservation
  <1>3. ASSUME NEW r \in Requests, Refuse(r) PROVE TypeOK'
    BY <1>3 DEF Refuse, DenialReasons
  <1>4. ASSUME NEW r \in Requests, Reserve(r) PROVE TypeOK'
    BY <1>4 DEF Reserve
  <1>5. ASSUME NEW r \in Requests, StoreUnavailable(r) PROVE TypeOK'
    BY <1>5 DEF StoreUnavailable, DenialReasons
  <1>6. ASSUME NEW r \in Requests, DecisionArrives(r) PROVE TypeOK'
    <2>1. OutcomeOf(r) \in {"operating"} \cup DenialReasons
      BY DEF OutcomeOf, DenialReasons
    <2> QED
      BY <1>6, <2>1 DEF DecisionArrives
  <1>7. ASSUME NEW r \in Requests, CallModel(r) PROVE TypeOK'
    <2>1. remaining[r] \in {1, 2}
      BY <1>7 DEF CallModel, MayCall
    <2>2. remaining' \in [Requests -> 0 .. 2]
      BY <1>7, <2>1 DEF CallModel
    <2>3. [req |-> r, slot |-> remaining[r], on |-> appDay] \in Attempts
      BY <2>1 DEF Attempts
    <2>4. calls' \subseteq Attempts'
      BY <1>7, <2>3 DEF CallModel, Attempts
    <2> QED
      BY <1>7, <2>2, <2>4 DEF CallModel
  <1>8. ASSUME NEW r \in Requests, BlockCall(r) PROVE TypeOK'
    BY <1>8 DEF BlockCall
  <1>9. ASSUME NEW r \in Requests, Finish(r) PROVE TypeOK'
    BY <1>9 DEF Finish
  <1>10. CASE AppDayPasses
    BY <1>10 DEF AppDayPasses, Days
  <1>11. CASE StoreDayPasses
    <2>1. visitorCount' \in [Days -> [Visitors -> Nat]]
      BY <1>11 DEF StoreDayPasses
    <2> QED
      BY <1>11, <2>1 DEF StoreDayPasses, Days
  <1>12. CASE UNCHANGED vars
    BY <1>12 DEF vars
  <1> QED
    BY <1>1, <1>2, <1>3, <1>4, <1>5, <1>6, <1>7, <1>8, <1>9, <1>10, <1>11,
       <1>12 DEF Next, RequestStep

\* Every reachable state has the types the module declares.
THEOREM TypeCorrect == Spec => []TypeOK
  <1>1. Init => TypeOK
    BY InitIInv DEF IInv
  <1> QED
    BY <1>1, NextTypeOK, PTL DEF Spec

-----------------------------------------------------------------------------
\* The requests stay in order, and every attempt in a slot charged for.
LEMMA NextRequests ==
    IInv /\ [Next]_vars =>
      ChargedIffAllowed' /\ RequestsInOrder' /\ CallsAreCharged'
  <1> DEFINE Goal == ChargedIffAllowed /\ RequestsInOrder /\ CallsAreCharged
  <1> SUFFICES ASSUME IInv, [Next]_vars PROVE Goal'
    OBVIOUS
  <1> USE DEF ChargedIffAllowed, RequestsInOrder, CallsAreCharged, Admitted
  <1>0. /\ TypeOK /\ Goal
        /\ \A r \in Requests : CallsOf[r] \in {1, 2}
        /\ \A d \in Days : d \in Int
        /\ \A c \in calls : c.req \in Requests /\ c.on \in Days /\ c.slot \in {1, 2}
    BY ConstantsTyped DEF IInv, TypeOK, Days, Attempts
  <1> HIDE DEF Goal
  <1>1. ASSUME NEW r \in Requests, StoreEval(r) PROVE Goal'
    BY <1>0, <1>1 DEF StoreEval, TypeOK, Goal
  <1>2. ASSUME NEW r \in Requests, LoseReservation(r) PROVE Goal'
    BY <1>0, <1>2 DEF LoseReservation, TypeOK, Goal
  <1>3. ASSUME NEW r \in Requests, Refuse(r) PROVE Goal'
    BY <1>0, <1>3 DEF Refuse, TypeOK, Goal
  <1>4. ASSUME NEW r \in Requests, Reserve(r) PROVE Goal'
    BY <1>0, <1>4 DEF Reserve, TypeOK, Goal
  <1>5. ASSUME NEW r \in Requests, StoreUnavailable(r) PROVE Goal'
    BY <1>0, <1>5 DEF StoreUnavailable, TypeOK, Goal
  <1>6. ASSUME NEW r \in Requests, DecisionArrives(r) PROVE Goal'
    BY <1>0, <1>6 DEF DecisionArrives, OutcomeOf, TypeOK, Goal
  <1>7. ASSUME NEW r \in Requests, CallModel(r) PROVE Goal'
    <2>0. appDay \in Int /\ day[r] \in Int /\ remaining[r] \in 0 .. 2
      BY <1>0 DEF TypeOK
    <2>1. appDay = day[r] /\ pc[r] = "operating" /\ remaining[r] \in 1 .. 2
      BY <1>0, <1>7, <2>0 DEF CallModel, MayCall, Expired, Goal
    <2>2. ChargedIffAllowed' /\ RequestsInOrder'
      BY <1>0, <1>7, <2>1 DEF CallModel, TypeOK, Goal
    <2>3. CallsAreCharged'
      BY <1>0, <1>7, <2>1 DEF CallModel, Goal
    <2> QED
      BY <2>2, <2>3 DEF Goal
  <1>8. ASSUME NEW r \in Requests, BlockCall(r) PROVE Goal'
    BY <1>0, <1>8 DEF BlockCall, TypeOK, Goal
  <1>9. ASSUME NEW r \in Requests, Finish(r) PROVE Goal'
    BY <1>0, <1>9 DEF Finish, TypeOK, Goal
  <1>10. CASE AppDayPasses
    BY <1>0, <1>10 DEF AppDayPasses, TypeOK, Goal
  <1>11. CASE StoreDayPasses
    BY <1>0, <1>11 DEF StoreDayPasses, TypeOK, Goal
  <1>12. CASE UNCHANGED vars
    BY <1>0, <1>12 DEF vars, Goal
  <1> QED
    BY <1>1, <1>2, <1>3, <1>4, <1>5, <1>6, <1>7, <1>8, <1>9, <1>10, <1>11,
       <1>12 DEF Next, RequestStep

\* The accounts stay true: only a reservation charges, and midnight on the
\* store starts a day on which nothing has been charged.
LEMMA NextAccounts ==
    IInv /\ [Next]_vars => GlobalAccounts' /\ VisitorAccounts'
  <1> SUFFICES ASSUME IInv, [Next]_vars
               PROVE  GlobalAccounts' /\ VisitorAccounts'
    OBVIOUS
  <1>0. /\ TypeOK /\ ChargedIffAllowed /\ RequestsInOrder
        /\ GlobalAccounts /\ VisitorAccounts
    BY DEF IInv
  <1>1. ASSUME NEW r \in Requests, StoreEval(r),
               ScriptDecision(r) = "allowed"
        PROVE  GlobalAccounts' /\ VisitorAccounts'
    <2>1. /\ r \notin charged /\ charged \subseteq Requests
          /\ day \in [Requests -> Days] /\ day[r] = storeDay
          /\ visitorCount[storeDay][VisitorOf[r]] < VisitorLimit
          /\ globalCount[storeDay] + CallsOf[r] <= GlobalLimit
      <3>1. ScriptInDay(r) /\ ~VisitorExhausted(r) /\ ~GlobalExhausted(r)
        BY <1>1 DEF ScriptDecision
      <3>2. day[r] = storeDay /\ CallsOf[r] \in Nat /\ GlobalLimit \in Nat
        BY <3>1, ConstantsTyped, BudgetAssumption
           DEF ScriptInDay, BudgetAssumption
      <3>3. /\ visitorCount[storeDay][VisitorOf[r]] \in Nat
            /\ globalCount[storeDay] \in Nat /\ VisitorLimit \in Nat
        BY <1>0, <3>2, ConstantsTyped, BudgetAssumption
           DEF TypeOK, BudgetAssumption
      <3>4. r \notin charged
        BY <1>0, <1>1 DEF StoreEval, ChargedIffAllowed
      <3> QED
        BY <1>0, <3>1, <3>2, <3>3, <3>4
           DEF VisitorExhausted, GlobalExhausted, TypeOK
    <2>2. /\ charged' = charged \cup {r} /\ day' = day /\ storeDay' = storeDay
          /\ visitorCount' =
               [visitorCount EXCEPT ![storeDay] =
                  [visitorCount[storeDay] EXCEPT ![VisitorOf[r]] = @ + 1]]
          /\ globalCount' = [globalCount EXCEPT ![storeDay] = @ + CallsOf[r]]
      BY <1>1, <2>1 DEF StoreEval
    <2>3. GlobalAccounts'
      <3> SUFFICES ASSUME NEW d \in Days
                   PROVE  /\ IsFiniteSet(ChargedSlots(d)')
                          /\ Cardinality(ChargedSlots(d)') <= GlobalLimit
                          /\ d = storeDay => globalCount'[d] =
                                               Cardinality(ChargedSlots(d)')
                          /\ d # storeDay => globalCount'[d] = 0
                          /\ d > storeDay => ChargedSlots(d)' = {}
        BY <2>2 DEF GlobalAccounts
      <3>1. /\ IsFiniteSet(ChargedSlots(d)')
            /\ d = storeDay => Cardinality(ChargedSlots(d)') =
                                 Cardinality(ChargedSlots(d)) + CallsOf[r]
            /\ d # storeDay => ChargedSlots(d)' = ChargedSlots(d)
        BY <1>0, <2>1, <2>2, ChargedSlotsGrow, BudgetAssumption
           DEF GlobalAccounts
      <3>2. CASE d = storeDay
        <4>1. /\ globalCount[d] = Cardinality(ChargedSlots(d))
              /\ globalCount'[d] = globalCount[d] + CallsOf[r]
              /\ ~(d > storeDay)
          BY <1>0, <2>2, <3>2 DEF GlobalAccounts, TypeOK, Days
        <4> QED
          BY <2>1, <3>1, <3>2, <4>1
      <3>3. CASE d # storeDay
        BY <1>0, <2>2, <3>1, <3>3 DEF GlobalAccounts, TypeOK
      <3> QED
        BY <3>2, <3>3
    <2>4. VisitorAccounts'
      <3> SUFFICES ASSUME NEW d \in Days, NEW v \in Visitors
                   PROVE  /\ Cardinality(ChargedBy(d, v)') <= VisitorLimit
                          /\ d = storeDay => visitorCount'[d][v] =
                                               Cardinality(ChargedBy(d, v)')
                          /\ d # storeDay => visitorCount'[d][v] = 0
                          /\ d > storeDay => ChargedBy(d, v)' = {}
        BY <2>2 DEF VisitorAccounts
      <3>1. /\ d = storeDay /\ v = VisitorOf[r] =>
                 Cardinality(ChargedBy(d, v)') =
                   Cardinality(ChargedBy(d, v)) + 1
            /\ d # storeDay \/ v # VisitorOf[r] =>
                 ChargedBy(d, v)' = ChargedBy(d, v)
        BY <2>1, <2>2, ChargedByGrows, BudgetAssumption
      <3>2. CASE d = storeDay /\ v = VisitorOf[r]
        <4>1. /\ visitorCount[d][v] = Cardinality(ChargedBy(d, v))
              /\ visitorCount'[d][v] = visitorCount[d][v] + 1
              /\ visitorCount[d][v] \in Nat
              /\ VisitorLimit \in Nat
              /\ ~(d > storeDay)
          BY <1>0, <2>2, <3>2, BudgetAssumption
             DEF VisitorAccounts, TypeOK, Days, BudgetAssumption
        <4> QED
          BY <2>1, <3>1, <3>2, <4>1
      <3>3. CASE d = storeDay /\ v # VisitorOf[r]
        BY <1>0, <2>2, <3>1, <3>3 DEF VisitorAccounts, TypeOK
      <3>4. CASE d # storeDay
        BY <1>0, <2>2, <3>1, <3>4 DEF VisitorAccounts, TypeOK
      <3> QED
        BY <3>2, <3>3, <3>4
    <2> QED
      BY <2>3, <2>4
  <1>2. ASSUME NEW r \in Requests, Reserve(r)
        PROVE  GlobalAccounts' /\ VisitorAccounts'
    <2>1. r \notin charged
      BY <1>0, <1>2 DEF Reserve, RequestsInOrder, ChargedIffAllowed
    <2>2. /\ \A d \in Days : ChargedSlots(d)' = ChargedSlots(d)
          /\ \A d \in Days, v \in Visitors : ChargedBy(d, v)' = ChargedBy(d, v)
      BY <1>0, <1>2, <2>1 DEF Reserve, TypeOK, ChargedSlots, ChargedBy
    <2> QED
      BY <1>0, <1>2, <2>2 DEF Reserve, GlobalAccounts, VisitorAccounts
  <1>3. CASE StoreDayPasses
    <2>1. /\ \A d \in Days : ChargedSlots(d)' = ChargedSlots(d)
          /\ \A d \in Days, v \in Visitors : ChargedBy(d, v)' = ChargedBy(d, v)
          /\ storeDay' = storeDay + 1
          /\ storeDay \in Nat /\ \A d \in Days : d \in Nat
      BY <1>0, <1>3 DEF StoreDayPasses, TypeOK, Days, ChargedSlots, ChargedBy
    <2>2. /\ \A d \in Days : globalCount'[d] = 0
          /\ \A d \in Days, v \in Visitors : visitorCount'[d][v] = 0
      BY <1>0, <1>3
         DEF StoreDayPasses, TypeOK, GlobalAccounts, VisitorAccounts
    <2>3. GlobalAccounts'
      BY <1>0, <2>1, <2>2, FS_EmptySet DEF GlobalAccounts
    <2>4. VisitorAccounts'
      <3> SUFFICES ASSUME NEW d \in Days, NEW v \in Visitors
                   PROVE  /\ Cardinality(ChargedBy(d, v)) <= VisitorLimit
                          /\ d = storeDay + 1 => 0 = Cardinality(ChargedBy(d, v))
                          /\ d > storeDay + 1 => ChargedBy(d, v) = {}
        BY <2>1, <2>2 DEF VisitorAccounts
      <3>1. /\ Cardinality(ChargedBy(d, v)) <= VisitorLimit
            /\ d > storeDay => ChargedBy(d, v) = {}
        BY <1>0 DEF VisitorAccounts
      <3>2. d = storeDay + 1 => Cardinality(ChargedBy(d, v)) = 0
        BY <2>1, <3>1, FS_EmptySet
      <3> QED
        BY <2>1, <3>1, <3>2
    <2> QED
      BY <2>3, <2>4
  <1>4. CASE UNCHANGED <<charged, day, storeDay, visitorCount, globalCount>>
    BY <1>0, <1>4
       DEF GlobalAccounts, VisitorAccounts, ChargedSlots, ChargedBy
  <1>5. ASSUME NEW r \in Requests, StoreEval(r),
               ScriptDecision(r) # "allowed"
        PROVE  UNCHANGED <<charged, day, storeDay, visitorCount, globalCount>>
    BY <1>5 DEF StoreEval
  <1> QED
    BY <1>1, <1>2, <1>3, <1>4, <1>5
       DEF Next, RequestStep, vars, LoseReservation, Refuse, StoreUnavailable,
           DecisionArrives, CallModel, BlockCall, Finish, AppDayPasses

\* Every step keeps the inductive invariant.
LEMMA NextIInv == IInv /\ [Next]_vars => IInv'
  BY NextTypeOK, NextRequests, NextAccounts DEF IInv

\* The inductive invariant holds of every reachable state.
LEMMA InvariantHolds == Spec => []IInv
  BY InitIInv, NextIInv, PTL DEF Spec

-----------------------------------------------------------------------------
\* On no day are more provider calls made than the global limit.
THEOREM GlobalCapHolds == Spec => []GlobalCap
  <1>1. IInv => GlobalCap
    <2> SUFFICES ASSUME IInv, NEW d \in Days
                 PROVE  Cardinality(CallsOn(d)) <= GlobalLimit
      BY DEF GlobalCap
    <2>1. \A c \in CallsOn(d) : c \in ChargedSlots(d)
      BY DEF IInv, TypeOK, Attempts, RequestsInOrder, CallsAreCharged,
             CallsOn, ChargedSlots
    <2>2. CallsOn(d) \in SUBSET ChargedSlots(d)
      BY <2>1
    <2>3. /\ IsFiniteSet(ChargedSlots(d))
          /\ Cardinality(ChargedSlots(d)) <= GlobalLimit
      BY DEF IInv, GlobalAccounts
    <2>4. /\ Cardinality(CallsOn(d)) <= Cardinality(ChargedSlots(d))
          /\ Cardinality(CallsOn(d)) \in Nat
          /\ Cardinality(ChargedSlots(d)) \in Nat
      BY <2>2, <2>3, FS_Subset, FS_CardinalityType
    <2> QED
      BY <2>3, <2>4, BudgetAssumption DEF BudgetAssumption
  <1> QED
    BY <1>1, InvariantHolds, PTL

\* On no day do more requests of one visitor reach the provider than allowed.
THEOREM VisitorCapHolds == Spec => []VisitorCap
  <1>1. IInv => VisitorCap
    <2> SUFFICES ASSUME IInv, NEW d \in Days, NEW v \in Visitors
                 PROVE  Cardinality({r \in Requests : VisitorOf[r] = v
                          /\ \E c \in CallsOn(d) : c.req = r}) <= VisitorLimit
      BY DEF VisitorCap
    <2> DEFINE R == {r \in Requests : VisitorOf[r] = v
                       /\ \E c \in CallsOn(d) : c.req = r}
    <2>1. R \in SUBSET ChargedBy(d, v) /\ ChargedBy(d, v) \in SUBSET Requests
      BY DEF IInv, TypeOK, RequestsInOrder, CallsAreCharged, CallsOn,
             ChargedBy
    <2>2. /\ IsFiniteSet(ChargedBy(d, v))
          /\ Cardinality(ChargedBy(d, v)) <= VisitorLimit
      BY <2>1, FS_Subset, BudgetAssumption
         DEF IInv, VisitorAccounts, BudgetAssumption
    <2>3. /\ Cardinality(R) <= Cardinality(ChargedBy(d, v))
          /\ Cardinality(R) \in Nat /\ Cardinality(ChargedBy(d, v)) \in Nat
      BY <2>1, <2>2, FS_Subset, FS_CardinalityType
    <2> QED
      BY <2>2, <2>3, BudgetAssumption DEF BudgetAssumption
  <1> QED
    BY <1>1, InvariantHolds, PTL

\* A request denied with "no model was called" has called none.
THEOREM DenialIsTruthfulHolds == Spec => []DenialIsTruthful
  <1>1. IInv => DenialIsTruthful
    BY DEF IInv, CallsAreCharged, Admitted, DenialIsTruthful, DenialReasons
  <1> QED
    BY <1>1, InvariantHolds, PTL

\* Counters of a day the store has left do not exist.
THEOREM ExpiredCountersStayGoneHolds == Spec => []ExpiredCountersStayGone
  <1>1. IInv => ExpiredCountersStayGone
    BY DEF IInv, TypeOK, Days, GlobalAccounts, VisitorAccounts,
           ExpiredCountersStayGone
  <1> QED
    BY <1>1, InvariantHolds, PTL

\* The budget implements the abstract cap: a provider call spends one call of
\* the application's day, its midnight is the next day, and nothing else shows.
THEOREM ImplementsCap == Spec => ImplementsDailyCallCap
  <1> DEFINE Spent == [d \in Days |-> Cardinality(CallsOn(d))]
  <1>1. Init => Cap!CapInit
    BY FS_EmptySet DEF Init, Cap!CapInit, CallsOn
  <1>2. IInv /\ IInv' /\ [Next]_vars => [Cap!CapNext]_(Cap!capVars)
    <2> SUFFICES ASSUME IInv, IInv', [Next]_vars
                 PROVE  Cap!CapNext \/ (appDay' = appDay /\ Spent' = Spent)
      BY DEF Cap!capVars
    <2>0. appDay \in Days /\ calls \subseteq Attempts
      BY DEF IInv, TypeOK
    <2>1. ASSUME NEW r \in Requests, CallModel(r)
          PROVE  Cap!CapNext \/ (appDay' = appDay /\ Spent' = Spent)
      <3> DEFINE c == [req |-> r, slot |-> remaining[r], on |-> appDay]
                 On == CallsOn(appDay)
      <3>1. calls' = calls \cup {c} /\ appDay' = appDay
        BY <2>1 DEF CallModel
      <3>2. IsFiniteSet(On)
        <4>1. \A x \in On : x \in ChargedSlots(appDay)
          BY DEF IInv, TypeOK, Attempts, RequestsInOrder, CallsAreCharged,
                 CallsOn, ChargedSlots
        <4> QED
          BY <2>0, <4>1, FS_Subset DEF IInv, GlobalAccounts
      <3>3. CASE c \in calls
        BY <3>1, <3>3 DEF CallsOn
      <3>4. CASE c \notin calls
        <4>1. /\ CallsOn(appDay)' = On \cup {c}
              /\ \A d \in Days : d # appDay => CallsOn(d)' = CallsOn(d)
          BY <3>1 DEF CallsOn
        <4>2. Cardinality(On \cup {c}) = Cardinality(On) + 1
              /\ Cardinality(On) \in Nat
          BY <3>2, <3>4, FS_AddElement, FS_CardinalityType DEF CallsOn
        <4>3. Spent' = [Spent EXCEPT ![appDay] = @ + 1]
          BY <2>0, <3>1, <4>1, <4>2
        <4>4. Spent[appDay] < GlobalLimit
          <5>1. Cardinality(CallsOn(appDay)') <= GlobalLimit
            <6>1. \A x \in CallsOn(appDay)' : x \in ChargedSlots(appDay)'
              BY <3>1 DEF IInv, TypeOK, Attempts, RequestsInOrder,
                          CallsAreCharged, CallsOn, ChargedSlots
            <6>2. /\ IsFiniteSet(ChargedSlots(appDay)')
                  /\ Cardinality(ChargedSlots(appDay)') <= GlobalLimit
              BY <2>0, <3>1 DEF IInv, GlobalAccounts
            <6>3. /\ Cardinality(CallsOn(appDay)') <=
                       Cardinality(ChargedSlots(appDay)')
                  /\ Cardinality(CallsOn(appDay)') \in Nat
                  /\ Cardinality(ChargedSlots(appDay)') \in Nat
              BY <6>1, <6>2, FS_Subset, FS_CardinalityType
            <6> QED
              BY <6>2, <6>3, BudgetAssumption DEF BudgetAssumption
          <5> QED
            BY <2>0, <4>1, <4>2, <5>1, BudgetAssumption
               DEF BudgetAssumption
        <4> QED
          BY <3>1, <4>3, <4>4 DEF Cap!CapNext, Cap!SpendOne
      <3> QED
        BY <3>3, <3>4
    <2>2. CASE AppDayPasses
      <3>1. appDay' = appDay + 1 /\ Spent' = Spent
        BY <2>2 DEF AppDayPasses, CallsOn
      <3>2. appDay + 1 \in Days
        BY <2>0, <2>2, BudgetAssumption DEF AppDayPasses, Days, BudgetAssumption
      <3> QED
        BY <3>1, <3>2 DEF Cap!CapNext, Cap!NextDay
    <2>3. CASE UNCHANGED <<appDay, calls>>
      BY <2>3 DEF CallsOn
    <2> QED
      BY <2>1, <2>2, <2>3
         DEF Next, RequestStep, vars, StoreEval, LoseReservation, Refuse,
             Reserve, StoreUnavailable, DecisionArrives, BlockCall, Finish,
             StoreDayPasses
  <1> QED
    BY <1>1, <1>2, InvariantHolds, PTL
       DEF Spec, ImplementsDailyCallCap, Cap!CapSpec

-----------------------------------------------------------------------------
\* Both caps hold on every day.
THEOREM CallCapsHold == Spec => []CallCaps
  <1>1. GlobalCap /\ VisitorCap => CallCaps
    BY DEF CallCaps
  <1> QED
    BY <1>1, GlobalCapHolds, VisitorCapHolds, PTL

-----------------------------------------------------------------------------
\* A denial that names a limit repeats what the script answered, and what the
\* script answered stays true, because a day's charges are never taken back.
LimitReplies ==
    \A r \in Requests :
        /\ pc[r] = "VISITOR_DAILY_LIMIT" =>
             wire[r] = "answered" /\ reply[r] = "visitor-limit"
        /\ pc[r] = "GLOBAL_DAILY_LIMIT" =>
             wire[r] = "answered" /\ reply[r] = "global-limit"
        /\ wire[r] = "answered" /\ reply[r] = "visitor-limit" =>
             Cardinality(ChargedBy(day[r], VisitorOf[r])) >= VisitorLimit
        /\ wire[r] = "answered" /\ reply[r] = "global-limit" =>
             Cardinality(ChargedSlots(day[r])) + CallsOf[r] > GlobalLimit

\* The charges of a day and of a visitor are numbers.
LEMMA ChargesCounted ==
    ASSUME IInv, NEW d \in Days, NEW v \in Visitors
    PROVE  /\ Cardinality(ChargedSlots(d)) \in Nat
           /\ Cardinality(ChargedBy(d, v)) \in Nat
  <1>1. IsFiniteSet(ChargedSlots(d))
    BY DEF IInv, GlobalAccounts
  <1>2. ChargedBy(d, v) \in SUBSET Requests
    BY DEF IInv, TypeOK, ChargedBy
  <1>3. IsFiniteSet(ChargedBy(d, v))
    BY <1>2, FS_Subset, BudgetAssumption DEF BudgetAssumption
  <1> QED
    BY <1>1, <1>3, FS_CardinalityType

\* No step takes a charge back, not even the one that names a request's day.
LEMMA ChargesOnlyGrow ==
    ASSUME IInv, [Next]_vars, NEW d \in Days, NEW v \in Visitors
    PROVE  /\ Cardinality(ChargedSlots(d)') >= Cardinality(ChargedSlots(d))
           /\ Cardinality(ChargedBy(d, v)') >= Cardinality(ChargedBy(d, v))
  <1>0. TypeOK /\ ChargedIffAllowed /\ RequestsInOrder
    BY DEF IInv
  <1>1. /\ Cardinality(ChargedSlots(d)) \in Nat
        /\ Cardinality(ChargedBy(d, v)) \in Nat
    BY ChargesCounted
  <1>2. ASSUME NEW r \in Requests, StoreEval(r),
               ScriptDecision(r) = "allowed"
        PROVE  /\ Cardinality(ChargedSlots(d)') >= Cardinality(ChargedSlots(d))
               /\ Cardinality(ChargedBy(d, v)') >= Cardinality(ChargedBy(d, v))
    <2>1. /\ r \notin charged /\ charged \subseteq Requests
          /\ charged' = charged \cup {r} /\ day' = day
          /\ day \in [Requests -> Days]
      BY <1>0, <1>2 DEF StoreEval, ChargedIffAllowed, TypeOK
    <2>2. IsFiniteSet(ChargedSlots(d))
      BY DEF IInv, GlobalAccounts
    <2>3. /\ d = day[r] => Cardinality(ChargedSlots(d)') =
                             Cardinality(ChargedSlots(d)) + CallsOf[r]
          /\ d # day[r] => ChargedSlots(d)' = ChargedSlots(d)
      BY <2>1, <2>2, ChargedSlotsGrow, BudgetAssumption
    <2>4. /\ d = day[r] /\ v = VisitorOf[r] =>
               Cardinality(ChargedBy(d, v)') =
                 Cardinality(ChargedBy(d, v)) + 1
          /\ d # day[r] \/ v # VisitorOf[r] =>
               ChargedBy(d, v)' = ChargedBy(d, v)
      BY <2>1, ChargedByGrows, BudgetAssumption
    <2>5. CallsOf[r] \in Nat
      BY ConstantsTyped
    <2>6. Cardinality(ChargedSlots(d)') >= Cardinality(ChargedSlots(d))
      BY <1>1, <2>3, <2>5
    <2>7. Cardinality(ChargedBy(d, v)') >= Cardinality(ChargedBy(d, v))
      BY <1>1, <2>4
    <2> QED
      BY <2>6, <2>7
  <1>3. CASE ChargedSlots(d)' = ChargedSlots(d)
             /\ ChargedBy(d, v)' = ChargedBy(d, v)
    BY <1>1, <1>3
  <1>4. ASSUME NEW r \in Requests, Reserve(r)
        PROVE  ChargedSlots(d)' = ChargedSlots(d)
               /\ ChargedBy(d, v)' = ChargedBy(d, v)
    <2>1. r \notin charged
      BY <1>0, <1>4 DEF Reserve, RequestsInOrder, ChargedIffAllowed
    <2> QED
      BY <1>0, <1>4, <2>1 DEF Reserve, TypeOK, ChargedSlots, ChargedBy
  <1>5. CASE UNCHANGED <<charged, day>>
    BY <1>5, <1>3 DEF ChargedSlots, ChargedBy
  <1>6. ASSUME NEW r \in Requests, StoreEval(r),
               ScriptDecision(r) # "allowed"
        PROVE  UNCHANGED <<charged, day>>
    BY <1>6 DEF StoreEval
  <1> QED
    BY <1>2, <1>3, <1>4, <1>5, <1>6
       DEF Next, RequestStep, vars, LoseReservation, Refuse, StoreUnavailable,
           DecisionArrives, CallModel, BlockCall, Finish, AppDayPasses,
           StoreDayPasses

\* What the script answers of a limit is so at the moment it answers.
LEMMA AnswersAreSoAtFirst ==
    ASSUME IInv, NEW r \in Requests
    PROVE  /\ ScriptDecision(r) = "visitor-limit" =>
                Cardinality(ChargedBy(day[r], VisitorOf[r])) >= VisitorLimit
           /\ ScriptDecision(r) = "global-limit" =>
                Cardinality(ChargedSlots(day[r])) + CallsOf[r] > GlobalLimit
  <1>1. day[r] \in Days /\ VisitorOf[r] \in Visitors
    BY ConstantsTyped DEF IInv, TypeOK
  <1>2. ScriptDecision(r) \in {"visitor-limit", "global-limit"} =>
          day[r] = storeDay
    BY DEF ScriptDecision, ScriptInDay
  <1>3. day[r] = storeDay =>
          /\ visitorCount[day[r]][VisitorOf[r]] =
               Cardinality(ChargedBy(day[r], VisitorOf[r]))
          /\ globalCount[day[r]] = Cardinality(ChargedSlots(day[r]))
    BY <1>1 DEF IInv, GlobalAccounts, VisitorAccounts
  <1>4. /\ ScriptDecision(r) = "visitor-limit" => VisitorExhausted(r)
        /\ ScriptDecision(r) = "global-limit" => GlobalExhausted(r)
    BY DEF ScriptDecision
  <1> QED
    BY <1>2, <1>3, <1>4 DEF VisitorExhausted, GlobalExhausted

\* An answer stands once it is given, with the day it was given for, and is
\* given by the script alone.
LEMMA AnswerOrigin ==
    ASSUME IInv, [Next]_vars, NEW q \in Requests, wire'[q] = "answered"
    PROVE  /\ day'[q] = day[q]
           /\ \/ wire[q] = "answered" /\ reply'[q] = reply[q]
              \/ reply'[q] = ScriptDecision(q)
  <1>0. TypeOK /\ RequestsInOrder
    BY DEF IInv
  <1>1. ASSUME NEW r \in Requests, StoreEval(r)
        PROVE  /\ day'[q] = day[q]
               /\ \/ wire[q] = "answered" /\ reply'[q] = reply[q]
                  \/ reply'[q] = ScriptDecision(q)
    BY <1>0, <1>1 DEF StoreEval, TypeOK
  <1>2. ASSUME NEW r \in Requests, LoseReservation(r)
        PROVE  day'[q] = day[q] /\ wire[q] = "answered" /\ reply'[q] = reply[q]
    BY <1>0, <1>2 DEF LoseReservation, TypeOK
  <1>3. ASSUME NEW r \in Requests, Reserve(r)
        PROVE  day'[q] = day[q] /\ wire[q] = "answered" /\ reply'[q] = reply[q]
    BY <1>0, <1>3 DEF Reserve, TypeOK
  <1>4. CASE UNCHANGED <<day, wire, reply>>
    BY <1>4
  <1> QED
    BY <1>1, <1>2, <1>3, <1>4
       DEF Next, RequestStep, vars, Refuse, StoreUnavailable,
           DecisionArrives, CallModel, BlockCall, Finish, AppDayPasses,
           StoreDayPasses

\* A denial that names a limit passes on an answer of the script, which stands.
LEMMA DenialOrigin ==
    ASSUME IInv, LimitReplies, [Next]_vars, NEW q \in Requests
    PROVE  /\ pc'[q] = "VISITOR_DAILY_LIMIT" =>
                wire'[q] = "answered" /\ reply'[q] = "visitor-limit"
           /\ pc'[q] = "GLOBAL_DAILY_LIMIT" =>
                wire'[q] = "answered" /\ reply'[q] = "global-limit"
  <1> DEFINE Passed == /\ pc'[q] = "VISITOR_DAILY_LIMIT" =>
                            wire'[q] = "answered" /\ reply'[q] = "visitor-limit"
                       /\ pc'[q] = "GLOBAL_DAILY_LIMIT" =>
                            wire'[q] = "answered" /\ reply'[q] = "global-limit"
  <1>0. TypeOK
    BY DEF IInv
  <1>1. ASSUME NEW r \in Requests, DecisionArrives(r) PROVE Passed
    <2>1. /\ OutcomeOf(r) = "VISITOR_DAILY_LIMIT" => reply[r] = "visitor-limit"
          /\ OutcomeOf(r) = "GLOBAL_DAILY_LIMIT" => reply[r] = "global-limit"
      BY DEF OutcomeOf
    <2> QED
      BY <1>0, <1>1, <2>1 DEF DecisionArrives, TypeOK, LimitReplies
  <1>2. ASSUME NEW r \in Requests, StoreEval(r) PROVE Passed
    BY <1>0, <1>2 DEF StoreEval, TypeOK, LimitReplies
  <1>3. ASSUME NEW r \in Requests, LoseReservation(r) PROVE Passed
    BY <1>0, <1>3 DEF LoseReservation, TypeOK, LimitReplies
  <1>4. ASSUME NEW r \in Requests, Reserve(r) PROVE Passed
    BY <1>0, <1>4 DEF Reserve, TypeOK, LimitReplies
  <1>5. ASSUME NEW r \in Requests,
               Refuse(r) \/ StoreUnavailable(r) \/ BlockCall(r) \/ Finish(r)
        PROVE  Passed
    BY <1>0, <1>5
       DEF Refuse, StoreUnavailable, BlockCall, Finish, TypeOK, LimitReplies
  <1>6. CASE UNCHANGED <<pc, wire, reply>>
    BY <1>6 DEF LimitReplies
  <1> QED
    BY <1>1, <1>2, <1>3, <1>4, <1>5, <1>6
       DEF Next, RequestStep, vars, CallModel, AppDayPasses, StoreDayPasses

\* Every step keeps the answers of the script true.
LEMMA NextLimitReplies ==
    IInv /\ LimitReplies /\ [Next]_vars => LimitReplies'
  <1> SUFFICES ASSUME IInv, LimitReplies, [Next]_vars PROVE LimitReplies'
    OBVIOUS
  <1>1. ASSUME NEW q \in Requests, NEW d \in Days, d = day[q], d = day'[q],
               wire'[q] = "answered"
        PROVE  /\ reply'[q] = "visitor-limit" =>
                    Cardinality(ChargedBy(d, VisitorOf[q])') >= VisitorLimit
               /\ reply'[q] = "global-limit" =>
                    Cardinality(ChargedSlots(d)') + CallsOf[q] > GlobalLimit
    <2>1. VisitorOf[q] \in Visitors /\ CallsOf[q] \in Nat
          /\ VisitorLimit \in Nat /\ GlobalLimit \in Nat
      BY ConstantsTyped, BudgetAssumption DEF BudgetAssumption
    <2>2. /\ Cardinality(ChargedSlots(d)') >= Cardinality(ChargedSlots(d))
          /\ Cardinality(ChargedBy(d, VisitorOf[q])') >=
               Cardinality(ChargedBy(d, VisitorOf[q]))
      BY <2>1, ChargesOnlyGrow
    <2>3. /\ Cardinality(ChargedSlots(d)) \in Nat
          /\ Cardinality(ChargedBy(d, VisitorOf[q])) \in Nat
      BY <2>1, ChargesCounted
    <2>4. IInv'
      BY NextIInv
    <2>5. /\ Cardinality(ChargedSlots(d)') \in Nat
          /\ Cardinality(ChargedBy(d, VisitorOf[q])') \in Nat
      <3>1. IsFiniteSet(ChargedSlots(d)')
        BY <2>4 DEF IInv, GlobalAccounts, Days
      <3>2. ChargedBy(d, VisitorOf[q])' \in SUBSET Requests
        BY <2>4 DEF IInv, TypeOK, ChargedBy
      <3>3. IsFiniteSet(ChargedBy(d, VisitorOf[q])')
        BY <3>2, FS_Subset, BudgetAssumption DEF BudgetAssumption
      <3> QED
        BY <3>1, <3>3, FS_CardinalityType
    <2>6. /\ reply'[q] = "visitor-limit" =>
               Cardinality(ChargedBy(d, VisitorOf[q])) >= VisitorLimit
          /\ reply'[q] = "global-limit" =>
               Cardinality(ChargedSlots(d)) + CallsOf[q] > GlobalLimit
      BY <1>1, AnswerOrigin, AnswersAreSoAtFirst DEF LimitReplies
    <2>7. reply'[q] = "visitor-limit" =>
            Cardinality(ChargedBy(d, VisitorOf[q])') >= VisitorLimit
      BY <2>1, <2>2, <2>3, <2>5, <2>6
    <2>8. reply'[q] = "global-limit" =>
            Cardinality(ChargedSlots(d)') + CallsOf[q] > GlobalLimit
      BY <2>1, <2>2, <2>3, <2>5, <2>6
    <2> QED
      BY <2>7, <2>8
  <1>2. ASSUME NEW q \in Requests, wire'[q] = "answered"
        PROVE  /\ reply'[q] = "visitor-limit" =>
                    Cardinality(ChargedBy(day[q], VisitorOf[q]))' >= VisitorLimit
               /\ reply'[q] = "global-limit" =>
                    Cardinality(ChargedSlots(day[q]))' + CallsOf[q] > GlobalLimit
    <2>1. PICK d \in Days : d = day[q]
      BY DEF IInv, TypeOK
    <2>2. day'[q] = d
      BY <1>2, <2>1, AnswerOrigin
    <2>3. /\ reply'[q] = "visitor-limit" =>
               Cardinality(ChargedBy(d, VisitorOf[q])') >= VisitorLimit
          /\ reply'[q] = "global-limit" =>
               Cardinality(ChargedSlots(d)') + CallsOf[q] > GlobalLimit
      BY <1>1, <1>2, <2>1, <2>2
    <2> QED
      BY <2>2, <2>3 DEF ChargedBy, ChargedSlots
  <1>3. \A q \in Requests :
          /\ pc'[q] = "VISITOR_DAILY_LIMIT" =>
               wire'[q] = "answered" /\ reply'[q] = "visitor-limit"
          /\ pc'[q] = "GLOBAL_DAILY_LIMIT" =>
               wire'[q] = "answered" /\ reply'[q] = "global-limit"
    BY DenialOrigin
  <1> QED
    BY <1>2, <1>3 DEF LimitReplies

\* A visitor is told a limit is reached only when the day's charges reach it.
THEOREM LimitDenialIsTrueHolds == Spec => []LimitDenialIsTrue
  <1>1. Init => LimitReplies
    BY DEF Init, LimitReplies
  <1>2. LimitReplies => LimitDenialIsTrue
    BY DEF LimitReplies, LimitDenialIsTrue
  <1> QED
    BY <1>1, <1>2, NextLimitReplies, InvariantHolds, PTL DEF Spec

\* What a refusal tells the visitor is so: nothing was called for the request,
\* and a limit it names is reached.
THEOREM DenialsAreTrueHold == Spec => []DenialsAreTrue
  <1>1. DenialIsTruthful /\ LimitDenialIsTrue => DenialsAreTrue
    BY DEF DenialsAreTrue
  <1> QED
    BY <1>1, DenialIsTruthfulHolds, LimitDenialIsTrueHolds, PTL
=============================================================================
