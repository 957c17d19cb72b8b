---------------------------- MODULE Canonicalize ----------------------------
(***************************************************************************)
(* From collected records to canonical events and the hash of a replay     *)
(* (packages/replay-engine/src/canonicalize.ts,                            *)
(* packages/replay-engine/src/replay-foundation.ts).                       *)
(*                                                                         *)
(* A record is what the code compares of it.  Texts that are only ordered  *)
(* are numbers in their order; a sequence keeps its leading zeros, since   *)
(* they count in a hash and not in the order.  A hash is what it hashes.   *)
(***************************************************************************)
EXTENDS Checks

CONSTANTS
    Records,    \* what may be collected: [source: dataset, venue and source
                \* event; eventId; eventTime: local, offset; sequence: zeros,
                \* value, or Null; content: the other canonical fields;
                \* rawRowHash; receivedAt: 0 where there is none]
    MaxRecords  \* bound: how much is collected

ASSUME RecordsAssumption ==
    Records \subseteq
        [source : Int, eventId : Int, eventTime : [local : Int, offset : Int],
         sequence : [zeros : Int, value : Int] \cup {Null}, content : Int,
         rawRowHash : Int, receivedAt : Int]

VARIABLE batch      \* the records in the order in which they are submitted

-----------------------------------------------------------------------------
normalized(e) ==
    [e EXCEPT !.eventTime = [local |-> @.local - @.offset, offset |-> 0]]

\* projectCanonicalEvent: all but when and from which bytes it was collected.
projectCanonicalEvent(e) ==
    [f \in DOMAIN e \ {"rawRowHash", "receivedAt"} |-> e[f]]

requireConsistentSequencePresence(events) ==
    \/ \A i \in DOMAIN events : events[i].sequence = Null
    \/ \A i \in DOMAIN events : events[i].sequence # Null

Group(events, k) == {i \in DOMAIN events : events[i].source = k}

\* Mutant of representative: the first record that came stands for its group.
FirstCome(events, k) == events[Min(Group(events, k))]

\* compareDuplicateRepresentatives < 0
Sooner(l, r) ==
    \/ l.rawRowHash < r.rawRowHash
    \/ l.rawRowHash = r.rawRowHash /\ l.receivedAt < r.receivedAt

\* A group is sorted by the hash of the raw row, then by the time of receipt,
\* equals in the order in which they came; its first record stands for it.
representative(events, k) ==
    LET group == Group(events, k)
    IN  events[Min({i \in group : \A j \in group : ~Sooner(events[j], events[i])})]

Identities(events) == {events[i].source : i \in DOMAIN events}

conflictingSourceGroups(events) ==
    {k \in Identities(events) :
        Cardinality({projectCanonicalEvent(events[i]) : i \in Group(events, k)}) # 1}

\* The sources of the representatives that share an event identifier.
Sharing(events, id) ==
    {k \in Identities(events) : representative(events, k).eventId = id}

conflictingEventIdentifiers(events) ==
    {id \in {events[i].eventId : i \in DOMAIN events} :
        Cardinality(Sharing(events, id)) > 1}

\* compareCanonicalEvents < 0, on records that all have a sequence or none.
compareCanonicalEvents(l, r) ==
    LET number(e) == IF e.sequence = Null THEN 0 ELSE e.sequence.value
    IN  \/ l.eventTime.local < r.eventTime.local
        \/ /\ l.eventTime.local = r.eventTime.local
           /\ \/ number(l) < number(r)
              \/ number(l) = number(r) /\ l.eventId < r.eventId

failure(code, about) ==
    [code |-> code, about |-> about, events |-> <<>>, duplicateCount |-> 0]

\* The representatives are sorted, equals in the order of the map: that in which
\* their groups began.
Before(events, j, k) ==
    LET l == representative(events, j)
        r == representative(events, k)
    IN  \/ compareCanonicalEvents(l, r)
        \/ /\ ~compareCanonicalEvents(r, l)
           /\ Min(Group(events, j)) < Min(Group(events, k))

\* How many groups are sorted before that of a source.
Place(events, k) == Cardinality({j \in Identities(events) : Before(events, j, k)})

sorted(events) ==
    [n \in 1 .. Cardinality(Identities(events)) |->
        representative(events, CHOOSE k \in Identities(events) : Place(events, k) = n - 1)]

\* The result, or the code of the error with what its message names.
canonicalizeEvents(input) ==
    LET validated == [i \in DOMAIN input |-> normalized(input[i])]
        badGroups == conflictingSourceGroups(validated)
        badIds == conflictingEventIdentifiers(validated)
    IN  IF ~requireConsistentSequencePresence(validated)
        THEN failure("MIXED_SEQUENCE_PRESENCE", {})
        ELSE IF badGroups # {}
        THEN failure("CONFLICTING_SOURCE_IDENTITY", {Min(badGroups)})
        ELSE IF badIds # {}
        THEN LET sharing == Sharing(validated, Min(badIds))
                 first == Min(sharing)
             IN  failure("CONFLICTING_EVENT_IDENTIFIER",
                         {first, Min(sharing \ {first})})
        ELSE [code |-> "none", about |-> {},
              events |-> sorted(validated),
              duplicateCount |-> Len(input) - Cardinality(Identities(validated))]

\* canonicalReplayResultHash, for one engine version and no evaluation.
canonicalReplayResultHash(events) ==
    [i \in DOMAIN events |-> projectCanonicalEvent(events[i])]

-----------------------------------------------------------------------------
BatchInit == batch = <<>>

Collect(e) ==
    /\ Len(batch) < MaxRecords
    /\ batch' = Append(batch, e)

BatchNext == \E e \in Records : Collect(e)

BatchSpec == BatchInit /\ [][BatchNext]_batch

-----------------------------------------------------------------------------
Permuted(s) ==
    {[i \in DOMAIN s |-> s[p[i]]] :
        p \in {q \in [DOMAIN s -> DOMAIN s] : {q[i] : i \in DOMAIN s} = DOMAIN s}}

\* What canonicalization answers, events or error, is the same for every order
\* of submission; its hash is the same when a record is collected once more,
\* from other bytes, at another time or written in another time zone; and its
\* events are in one strict order.
ReplayIsDeterministic ==
    LET result == canonicalizeEvents(batch)
    IN  /\ \A other \in Permuted(batch) : canonicalizeEvents(other) = result
        /\ result.code = "none" =>
             /\ \A e \in Records :
                  (\E i \in DOMAIN batch :
                      projectCanonicalEvent(normalized(batch[i]))
                        = projectCanonicalEvent(normalized(e)))
                  => LET again == canonicalizeEvents(Append(batch, e))
                     IN  /\ again.code = "none"
                         /\ canonicalReplayResultHash(again.events)
                              = canonicalReplayResultHash(result.events)
                         /\ again.duplicateCount = result.duplicateCount + 1
             /\ \A i, j \in DOMAIN result.events : i < j =>
                  /\ compareCanonicalEvents(result.events[i], result.events[j])
                  /\ ~compareCanonicalEvents(result.events[j], result.events[i])
                  /\ result.events[i].source # result.events[j].source
=============================================================================
