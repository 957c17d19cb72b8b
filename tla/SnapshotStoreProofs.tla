------------------------ MODULE SnapshotStoreProofs ------------------------
(***************************************************************************)
(* What holds of the evidence store for any processes, origins, bytes and  *)
(* results, however their calls, crashes, failed statements and damaged    *)
(* bytes interleave.  The argument rests on one inductive invariant: what  *)
(* an open transaction has written so far is known from where it stands,   *)
(* in terms of what was committed before it began, which nobody else can   *)
(* change.                                                                 *)
(***************************************************************************)
EXTENDS SnapshotStore, FiniteSetTheorems, SequenceTheorems,
        WellFoundedInduction, TLAPS

SnapshotCalls == [op : {"snapshot"}, origin : Origins, sha : Bytes, at : Times,
                  previous : {0} \cup RowIds]

ResultCalls == [op : {"result", "resolve"}, result : Results,
                left : SUBSET References]

\* The type invariant, with the domains of the per-process functions.
StoreTypes ==
    /\ TypeOK
    /\ work \in [Procs -> Databases]
    /\ call \in [Procs -> Calls]
    /\ read \in [Procs -> SUBSET References]

\* What a process is doing is what its call asks for, and it holds the lock
\* exactly while it is within its transaction.
StepsOf(op) ==
    CASE op = "none" -> {"closed", "idle"}
      [] op = "open" -> {"waiting", "version", "guard", "commit"}
      [] op = "snapshot" -> {"fetching", "arriving", "waiting", "head", "blob",
                             "row", "commit"}
      [] op = "result" -> {"waiting", "inputs", "result", "bind", "commit"}
      [] op = "resolve" -> {"resolving"}

CallsInStep ==
    \A p \in Procs :
        /\ pc[p] \in StepsOf(call[p].op)
        /\ lock = p <=> pc[p] \in InTransaction

\* Every collection under way finds room for the one row it may add.
Collecting == {p \in Procs : call[p].op = "snapshot"}

RoomForAll ==
    Len(db.rows) + Cardinality(Collecting) <= MaxRows + Cardinality(Procs)

\* Once a document has arrived, its retrieval was permitted.
RetrievalsPermitted ==
    \A p \in Collecting :
        pc[p] \notin {"fetching", "arriving"} =>
            ReviewedAt[call[p].origin] <= call[p].at

-----------------------------------------------------------------------------
(* The transaction that holds the lock, compared with what is committed.   *)

SameSchema(d) ==
    d.version = db.version /\ d.tables = db.tables /\ d.guarded = db.guarded

SameRows(d) == d.rows = db.rows /\ d.blobs = db.blobs

SameResults(d) == d.results = db.results /\ d.bindings = db.bindings

SchemaIsWhole(d) == d.version = 1 <=> d.tables /\ d.guarded

\* An opening transaction has changed the schema at most, all of it or, before
\* the triggers are there, all but them.
OpeningWork(d, step) ==
    /\ SameRows(d) /\ SameResults(d)
    /\ IF step = "guard" THEN d.version = 1 /\ d.tables ELSE SchemaIsWhole(d)

\* The row that a call is about to add continues its origin's chain with bytes
\* other than the latest.
Continues(c) ==
    /\ c.previous = Latest(db, c.origin)
    /\ c.previous # 0 => db.rows[c.previous].sha # c.sha

\* A collecting transaction has added nothing, its bytes, or its bytes and row.
SnapshotWork(d, step, c) ==
    /\ SameSchema(d) /\ SameResults(d)
    /\ step \in {"head", "blob"} => SameRows(d)
    /\ step \in {"blob", "row"} => Continues(c)
    /\ step = "row" => d.rows = db.rows /\ d.blobs = db.blobs \cup {c.sha}
    /\ step = "commit" =>
         \/ SameRows(d)
         \/ /\ Continues(c)
            /\ d.rows = Append(db.rows, RecordOf(c))
            /\ d.blobs = db.blobs \cup {c.sha}

\* A reference names a stored row and the bytes that row recorded.
Resolvable(i) == i.row \in DOMAIN db.rows /\ db.rows[i.row].sha = i.sha

\* A concluding transaction has added nothing, or its result with a binding for
\* every input it has been through.
ResultWork(d, step, c) ==
    /\ SameSchema(d) /\ SameRows(d)
    /\ step # "inputs" => \A i \in c.result : Resolvable(i)
    /\ step \in {"inputs", "result"} => SameResults(d) /\ c.left = c.result
    /\ step = "bind" =>
         /\ c.left \subseteq c.result
         /\ d.results = db.results \cup {c.result}
         /\ d.bindings = db.bindings \cup
                           {<<c.result, i.row>> : i \in c.result \ c.left}
    /\ step = "commit" =>
         \/ SameResults(d)
         \/ /\ d.results = db.results \cup {c.result}
            /\ d.bindings = db.bindings \cup {<<c.result, i.row>> : i \in c.result}

WorkIsKnown ==
    \A p \in Procs : lock = p =>
        /\ call[p].op = "open" => OpeningWork(work[p], pc[p])
        /\ call[p].op = "snapshot" => SnapshotWork(work[p], pc[p], call[p])
        /\ call[p].op = "result" => ResultWork(work[p], pc[p], call[p])

-----------------------------------------------------------------------------
\* A result that waits for its transaction has all its inputs before it.
OffersAreWhole ==
    \A p \in Procs :
        pc[p] = "waiting" /\ call[p].op = "result" => call[p].left = call[p].result

\* Every stored result has its inputs.
ResultsStand == \A r \in db.results : \A i \in r : Resolvable(i)

\* What is being resolved is stored, with all its inputs.
ResolvingStored ==
    \A p \in Procs :
        call[p].op = "resolve" =>
            call[p].result \in db.results /\ call[p].left \subseteq call[p].result

\* What a resolution has returned is what was recorded.
ReadsResolvable == \A p \in Procs : \A i \in read[p] : Resolvable(i)

CommittedIsSound ==
    /\ LineageIsLinear
    /\ PermissionPrecedesRetrieval
    /\ CommittedWhole
    /\ ResultsStand

SInv ==
    /\ StoreTypes
    /\ CallsInStep
    /\ RoomForAll
    /\ RetrievalsPermitted
    /\ WorkIsKnown
    /\ OffersAreWhole
    /\ CommittedIsSound
    /\ ResolvingStored
    /\ ReadsResolvable
    /\ broken = {}

-----------------------------------------------------------------------------
(* About the operators.                                                    *)

\* A nonempty set of row numbers has a greatest.
LEMMA GreatestExists ==
    ASSUME NEW n \in Nat, NEW S \in SUBSET (1 .. n), S # {}
    PROVE  \E i \in S : \A j \in S : j <= i
  <1> DEFINE R == {ss \in Nat \X Nat : ss[1] < ss[2]}
             T == {n - i : i \in S}
  <1>1. IsWellFoundedOn(R, Nat)
    BY NatLessThanWellFounded, Zenon DEF OpToRel
  <1>2. \A i \in S : i \in Nat /\ i <= n /\ n - i \in Nat
    OBVIOUS
  <1>3. T \subseteq Nat
    BY <1>2
  <1>4. T # {}
    <2>1. PICK i \in S : TRUE
      OBVIOUS
    <2> QED
      BY <2>1
  <1>5. PICK x \in T : \A y \in T : ~(<<y, x>> \in R)
    <2> HIDE DEF R, T
    <2> QED
      BY <1>1, <1>3, <1>4, WFMin
  <1>6. PICK i \in S : x = n - i
    OBVIOUS
  <1>7. ASSUME NEW j \in S, j > i
        PROVE  FALSE
    <2>1. n - j \in T
      OBVIOUS
    <2>2. n - j \in Nat /\ n - i \in Nat /\ n - j < n - i
      <3>1. i \in Nat /\ j \in Nat /\ n - j \in Nat /\ n - i \in Nat
        BY <1>2
      <3> QED
        BY <3>1, <1>7
    <2>3. <<n - j, x>> \notin R
      BY <2>1, <1>5
    <2> QED
      BY <2>2, <2>3, <1>6
  <1> QED
    BY <1>2, <1>7

\* The latest row of an origin is the last of its rows, if there is one.
LEMMA LatestIsLast ==
    ASSUME NEW d, NEW o, d.rows \in Seq(Rows)
    PROVE  \/ /\ Latest(d, o) = 0
              /\ \A i \in DOMAIN d.rows : d.rows[i].origin # o
           \/ /\ Latest(d, o) \in DOMAIN d.rows
              /\ d.rows[Latest(d, o)].origin = o
              /\ \A i \in DOMAIN d.rows :
                   d.rows[i].origin = o => i <= Latest(d, o)
  <1> DEFINE mine == {i \in DOMAIN d.rows : d.rows[i].origin = o}
  <1>1. CASE mine = {}
    BY <1>1 DEF Latest
  <1>2. CASE mine # {}
    <2>1. Len(d.rows) \in Nat /\ mine \in SUBSET (1 .. Len(d.rows))
      OBVIOUS
    <2>2. \E i \in mine : \A j \in mine : j <= i
      BY <1>2, <2>1, GreatestExists
    <2>3. Latest(d, o) = CHOOSE i \in mine : \A j \in mine : j <= i
      BY <1>2 DEF Latest
    <2>4. Latest(d, o) \in mine /\ \A j \in mine : j <= Latest(d, o)
      <3> HIDE DEF mine
      <3> QED
        BY <2>2, <2>3
    <2> QED
      BY <2>4
  <1> QED
    BY <1>1, <1>2

\* A call is of the shape its operation says.
LEMMA CallShapes ==
    /\ NoCall \in Calls /\ NoCall.op = "none"
    /\ [op |-> "open"] \in Calls
    /\ SnapshotCalls \subseteq Calls /\ ResultCalls \subseteq Calls
    /\ \A c \in Calls :
         /\ c.op \in {"none", "open", "snapshot", "result", "resolve"}
         /\ c.op = "snapshot" => c \in SnapshotCalls
         /\ c.op \in {"result", "resolve"} => c \in ResultCalls
  BY DEF Calls, NoCall, SnapshotCalls, ResultCalls

\* The processes, the room for rows and the row numbers are finite.
LEMMA Bounds ==
    /\ MaxRows \in Nat /\ Cardinality(Procs) \in Nat /\ IsFiniteSet(Procs)
    /\ RowIds = 1 .. (MaxRows + Cardinality(Procs))
  BY StoreAssumption, FS_CardinalityType DEF StoreAssumption, RowIds

\* Two collections as many as the processes at most: dropping one makes room
\* for its row, and starting one takes the room it found.
LEMMA CollectingCounts ==
    ASSUME NEW p \in Procs
    PROVE  /\ IsFiniteSet(Collecting)
           /\ Cardinality(Collecting) \in Nat
           /\ Cardinality(Collecting) <= Cardinality(Procs)
           /\ Cardinality(Collecting \ {p}) \in Nat
           /\ p \in Collecting =>
                Cardinality(Collecting \ {p}) = Cardinality(Collecting) - 1
           /\ p \notin Collecting => Collecting \ {p} = Collecting
           /\ Cardinality(Collecting \cup {p}) <= Cardinality(Procs)
           /\ Cardinality(Collecting \cup {p}) \in Nat
  <1>1. Collecting \in SUBSET Procs /\ Collecting \cup {p} \in SUBSET Procs
    BY DEF Collecting
  <1>2. /\ IsFiniteSet(Collecting) /\ IsFiniteSet(Collecting \cup {p})
        /\ Cardinality(Collecting) <= Cardinality(Procs)
        /\ Cardinality(Collecting \cup {p}) <= Cardinality(Procs)
    BY <1>1, Bounds, FS_Subset
  <1>3. /\ IsFiniteSet(Collecting \ {p})
        /\ p \in Collecting =>
             Cardinality(Collecting \ {p}) = Cardinality(Collecting) - 1
    BY <1>2, FS_RemoveElement
  <1> QED
    BY <1>2, <1>3, FS_CardinalityType

\* The types of what is committed.
LEMMA CommittedTypes ==
    ASSUME StoreTypes
    PROVE  /\ db.rows \in Seq(Rows) /\ Len(db.rows) \in Nat
           /\ DOMAIN db.rows = 1 .. Len(db.rows)
           /\ db.blobs \in SUBSET Bytes
           /\ db.results \in SUBSET Results
           /\ db.bindings \in SUBSET (Results \X RowIds)
  BY DEF StoreTypes, TypeOK, Databases

\* A collection that ends leaves the room it had, and a row more of it.
LEMMA DroppingKeepsRoom ==
    ASSUME StoreTypes, RoomForAll, NEW p \in Procs
    PROVE  /\ Len(db.rows) + Cardinality(Collecting \ {p})
                <= MaxRows + Cardinality(Procs)
           /\ p \in Collecting =>
                Len(db.rows) + 1 + Cardinality(Collecting \ {p})
                  <= MaxRows + Cardinality(Procs)
  <1>1. Len(db.rows) \in Nat
    BY CommittedTypes
  <1>2. Len(db.rows) + Cardinality(Collecting) <= MaxRows + Cardinality(Procs)
    BY DEF RoomForAll
  <1>3. CASE p \in Collecting
    <2>1. /\ Cardinality(Collecting) \in Nat
          /\ Cardinality(Collecting \ {p}) = Cardinality(Collecting) - 1
      BY <1>3, CollectingCounts
    <2> QED
      BY <1>1, <1>2, <2>1, Bounds
  <1>4. CASE p \notin Collecting
    <2>1. Collecting \ {p} = Collecting
      BY <1>4, CollectingCounts
    <2> QED
      BY <1>2, <1>4, <2>1
  <1> QED
    BY <1>3, <1>4

-----------------------------------------------------------------------------
(* Groups of steps.                                                        *)

\* What is committed stays sound while it stays as it is.
LEMMA CommittedStays ==
    ASSUME CommittedIsSound, db' = db
    PROVE  CommittedIsSound'
  BY DEF CommittedIsSound, LineageIsLinear, PermissionPrecedesRetrieval,
         CommittedWhole, ResultsStand, Resolvable

\* A call that starts, waits or ends outside its transaction.
LEMMA OutsideKeeps ==
    ASSUME SInv, NEW p \in Procs, NEW s, NEW c \in Calls,
           pc[p] \notin InTransaction,
           s \in StepsOf(c.op), s \notin InTransaction,
           pc' = [pc EXCEPT ![p] = s], call' = [call EXCEPT ![p] = c],
           UNCHANGED <<db, lock, work, rotten, now, site, broken>>,
           read' \in [Procs -> SUBSET References],
           \A q \in Procs : \A i \in read'[q] : Resolvable(i),
           c.op = "snapshot" =>
             call[p].op = "snapshot" \/ Len(db.rows) < MaxRows,
           c.op = "snapshot" /\ s = "waiting" => ReviewedAt[c.origin] <= c.at,
           c.op = "result" /\ s = "waiting" => c.left = c.result,
           c.op = "resolve" => c.result \in db.results /\ c.left \subseteq c.result
    PROVE  SInv'
  <1> USE DEF SInv
  <1>1. StoreTypes'
    <2>1. c.op \in {"none", "open", "snapshot", "result", "resolve"}
      BY CallShapes
    <2>2. s \in {"closed", "idle", "fetching", "arriving", "waiting",
                 "resolving"} \cup InTransaction
      BY <2>1 DEF StepsOf, InTransaction
    <2> QED
      BY <2>2 DEF StoreTypes, TypeOK
  <1>2. CallsInStep'
    BY DEF CallsInStep, StoreTypes, TypeOK
  <1>3. RoomForAll'
    <2>1. Collecting' = IF c.op = "snapshot" THEN Collecting \cup {p}
                        ELSE Collecting \ {p}
      BY DEF Collecting, StoreTypes
    <2>2. Len(db.rows) \in Nat
      BY CommittedTypes
    <2>3. CASE c.op = "snapshot" /\ call[p].op = "snapshot"
      BY <2>1, <2>3 DEF RoomForAll, Collecting
    <2>4. CASE c.op = "snapshot" /\ Len(db.rows) < MaxRows
      <3>1. /\ Cardinality(Collecting \cup {p}) \in Nat
            /\ Cardinality(Collecting \cup {p}) <= Cardinality(Procs)
        BY CollectingCounts
      <3>2. Len(db.rows) + Cardinality(Collecting \cup {p})
              <= MaxRows + Cardinality(Procs)
        BY <2>2, <2>4, <3>1, Bounds
      <3> QED
        BY <2>1, <2>4, <3>2 DEF RoomForAll
    <2>5. CASE c.op # "snapshot"
      BY <2>1, <2>5, DroppingKeepsRoom DEF RoomForAll
    <2> QED
      BY <2>3, <2>4, <2>5
  <1>4. RetrievalsPermitted'
    <2>1. c.op = "snapshot" => s \in {"fetching", "arriving", "waiting"}
      BY DEF StepsOf, InTransaction
    <2> QED
      BY <2>1 DEF RetrievalsPermitted, Collecting, StoreTypes, TypeOK
  <1>5. WorkIsKnown'
    <2>1. \A q \in Procs : lock' = q => q # p /\ pc'[q] = pc[q] /\ call'[q] = call[q]
      BY DEF CallsInStep, StoreTypes, TypeOK
    <2> QED
      BY <2>1 DEF WorkIsKnown, OpeningWork, SnapshotWork, ResultWork, SameRows,
                  SameResults, SameSchema, Continues, Resolvable
  <1>6. OffersAreWhole'
    BY DEF OffersAreWhole, StoreTypes, TypeOK
  <1>7. CommittedIsSound'
    BY CommittedStays
  <1>8. ResolvingStored'
    BY DEF ResolvingStored, StoreTypes
  <1>9. ReadsResolvable'
    BY DEF ReadsResolvable, Resolvable
  <1> QED
    BY <1>1, <1>2, <1>3, <1>4, <1>5, <1>6, <1>7, <1>8, <1>9

\* A statement that succeeds within the transaction of the process.
LEMMA WithinKeeps ==
    ASSUME SInv, NEW p \in Procs, NEW s \in InTransaction, NEW c \in Calls,
           NEW d \in Databases, lock = p,
           s \in StepsOf(c.op),
           c.op = call[p].op, c.op = "snapshot" => c.origin = call[p].origin
                                                   /\ c.at = call[p].at,
           pc' = [pc EXCEPT ![p] = s], call' = [call EXCEPT ![p] = c],
           work' = [work EXCEPT ![p] = d],
           UNCHANGED <<db, lock, rotten, read, now, site, broken>>,
           c.op = "open" => OpeningWork(d, s),
           c.op = "snapshot" => SnapshotWork(d, s, c),
           c.op = "result" => ResultWork(d, s, c)
    PROVE  SInv'
  <1> USE DEF SInv
  <1>1. StoreTypes'
    BY DEF StoreTypes, TypeOK
  <1>2. CallsInStep'
    <2>1. pc[p] \in InTransaction
      BY DEF CallsInStep
    <2> QED
      BY <2>1 DEF CallsInStep, StoreTypes, TypeOK
  <1>3. Collecting' = Collecting
    BY DEF Collecting, StoreTypes
  <1>4. RoomForAll'
    BY <1>3 DEF RoomForAll
  <1>5. RetrievalsPermitted'
    <2>1. pc[p] \notin {"fetching", "arriving"}
      BY DEF CallsInStep, InTransaction
    <2> QED
      BY <1>3, <2>1 DEF RetrievalsPermitted, Collecting, StoreTypes, TypeOK
  <1>6. WorkIsKnown'
    BY DEF WorkIsKnown, OpeningWork, SnapshotWork, ResultWork, SameRows,
           SameResults, SameSchema, Continues, Resolvable, StoreTypes, TypeOK
  <1>7. OffersAreWhole'
    BY DEF OffersAreWhole, StoreTypes, TypeOK, InTransaction
  <1>8. CommittedIsSound'
    BY CommittedStays
  <1>9. ResolvingStored'
    BY DEF ResolvingStored, StoreTypes, StepsOf, InTransaction
  <1>10. ReadsResolvable'
    BY DEF ReadsResolvable, Resolvable
  <1> QED
    BY <1>1, <1>2, <1>4, <1>5, <1>6, <1>7, <1>8, <1>9, <1>10

\* A call that is over without a commit: rolled back, or its process dead.
LEMMA AbortKeeps ==
    ASSUME SInv, NEW p \in Procs, NEW s \in {"idle", "closed"}, Rest(p, s),
           work' = [work EXCEPT ![p] = EmptyDatabase],
           lock' = IF lock = p THEN Nobody ELSE lock,
           read' \in [Procs -> SUBSET References],
           \A q \in Procs : read'[q] \subseteq read[q],
           UNCHANGED <<db, rotten, now, site, broken>>
    PROVE  SInv'
  <1> USE DEF SInv, Rest
  <1>0. EmptyDatabase \in Databases /\ Nobody \notin Procs
    BY EmptySeq, StoreAssumption DEF EmptyDatabase, Databases, StoreAssumption
  <1>1. StoreTypes'
    BY <1>0, CallShapes DEF StoreTypes, TypeOK
  <1>2. CallsInStep'
    BY <1>0, CallShapes DEF CallsInStep, StoreTypes, TypeOK, StepsOf, InTransaction
  <1>3. RoomForAll'
    <2>1. Collecting' = Collecting \ {p}
      BY CallShapes DEF Collecting, StoreTypes
    <2> QED
      BY <2>1, DroppingKeepsRoom DEF RoomForAll
  <1>4. RetrievalsPermitted'
    BY CallShapes DEF RetrievalsPermitted, Collecting, StoreTypes, TypeOK
  <1>5. WorkIsKnown'
    <2>1. \A q \in Procs : lock' = q =>
              /\ q # p /\ lock = q /\ work'[q] = work[q]
              /\ pc'[q] = pc[q] /\ call'[q] = call[q]
      BY <1>0 DEF StoreTypes, TypeOK
    <2> QED
      BY <2>1 DEF WorkIsKnown, OpeningWork, SnapshotWork, ResultWork, SameRows,
                  SameResults, SameSchema, Continues, Resolvable
  <1>6. OffersAreWhole'
    BY CallShapes DEF OffersAreWhole, StoreTypes, TypeOK
  <1>7. CommittedIsSound'
    BY CommittedStays
  <1>8. ResolvingStored'
    BY CallShapes DEF ResolvingStored, StoreTypes
  <1>9. ReadsResolvable'
    BY DEF ReadsResolvable, Resolvable
  <1> QED
    BY <1>1, <1>2, <1>3, <1>4, <1>5, <1>6, <1>7, <1>8, <1>9

-----------------------------------------------------------------------------
(* A commit.                                                               *)

\* What a commit does to what is committed, by the call that commits.
CommitOpens ==
    SameRows(db') /\ SameResults(db') /\ SchemaIsWhole(db')

CommitSame == SameSchema(db') /\ SameRows(db') /\ SameResults(db')

CommitSnapshot(c) ==
    /\ SameSchema(db') /\ SameResults(db')
    /\ Continues(c)
    /\ db'.rows = Append(db.rows, RecordOf(c))
    /\ db'.blobs = db.blobs \cup {c.sha}

CommitResult(c) ==
    /\ SameSchema(db') /\ SameRows(db')
    /\ \A i \in c.result : Resolvable(i)
    /\ db'.results = db.results \cup {c.result}
    /\ db'.bindings = db.bindings \cup {<<c.result, i.row>> : i \in c.result}

CommitWrites(c) ==
    \/ c.op = "open" /\ CommitOpens
    \/ c.op \in {"snapshot", "result"} /\ CommitSame
    \/ c.op = "snapshot" /\ CommitSnapshot(c)
    \/ c.op = "result" /\ CommitResult(c)

\* A committing transaction writes one of these.
LEMMA CommitIsKnown ==
    ASSUME SInv, NEW p \in Procs, lock = p, pc[p] = "commit", db' = work[p]
    PROVE  CommitWrites(call[p])
  <1>1. call[p].op \in {"open", "snapshot", "result"}
    BY CallShapes DEF SInv, CallsInStep, StoreTypes, StepsOf
  <1>2. /\ call[p].op = "open" => OpeningWork(work[p], "commit")
        /\ call[p].op = "snapshot" => SnapshotWork(work[p], "commit", call[p])
        /\ call[p].op = "result" => ResultWork(work[p], "commit", call[p])
    BY DEF SInv, WorkIsKnown
  <1> QED
    BY <1>1, <1>2 DEF CommitWrites, CommitOpens, CommitSame, CommitSnapshot,
       CommitResult, OpeningWork, SnapshotWork, ResultWork, SameRows,
       SameResults, SameSchema, SchemaIsWhole

\* A row that continues its origin's chain keeps the committed state sound.
LEMMA SnapshotIsSound ==
    ASSUME StoreTypes, CommittedIsSound, NEW c \in SnapshotCalls,
           ReviewedAt[c.origin] <= c.at, CommitSnapshot(c)
    PROVE  CommittedIsSound'
  <1> DEFINE n == Len(db.rows)
  <1> USE DEF CommittedIsSound
  <1>0. RecordOf(c) \in Rows
    BY DEF RecordOf, Rows, SnapshotCalls
  <1>1. /\ n \in Nat /\ DOMAIN db.rows = 1 .. n /\ db.rows \in Seq(Rows)
        /\ DOMAIN db'.rows = 1 .. (n + 1)
        /\ \A i \in 1 .. n : db'.rows[i] = db.rows[i]
        /\ db'.rows[n + 1] = RecordOf(c)
    BY <1>0, CommittedTypes DEF CommitSnapshot
  <1>2. LineageIsLinear'
    <2> SUFFICES ASSUME NEW i \in 1 .. (n + 1)
                 PROVE  LET earlier == {j \in 1 .. (i - 1) :
                                          db'.rows[j].origin = db'.rows[i].origin}
                            previous == db'.rows[i].previous
                        IN  IF earlier = {} THEN previous = 0
                            ELSE previous \in earlier /\ \A j \in earlier : j <= previous
      BY <1>1 DEF LineageIsLinear
    <2>1. CASE i \in 1 .. n
      <3>1. {j \in 1 .. (i - 1) : db'.rows[j].origin = db'.rows[i].origin}
              = {j \in 1 .. (i - 1) : db.rows[j].origin = db.rows[i].origin}
        <4>1. \A j \in 1 .. (i - 1) : j \in 1 .. n
          BY <1>1, <2>1
        <4> QED
          BY <1>1, <2>1, <4>1
      <3> QED
        BY <1>1, <2>1, <3>1 DEF LineageIsLinear
    <2>2. CASE i = n + 1
      <3> DEFINE mine == {j \in DOMAIN db.rows : db.rows[j].origin = c.origin}
      <3>1. {j \in 1 .. (i - 1) : db'.rows[j].origin = db'.rows[i].origin} = mine
        BY <1>1, <2>2 DEF RecordOf
      <3>2. db'.rows[i].previous = Latest(db, c.origin)
        BY <1>1, <2>2 DEF RecordOf, CommitSnapshot, Continues
      <3>3. \/ Latest(db, c.origin) = 0 /\ mine = {}
            \/ /\ Latest(db, c.origin) \in mine
               /\ \A j \in mine : j <= Latest(db, c.origin)
        BY <1>1, LatestIsLast
      <3> HIDE DEF mine
      <3>4. IF mine = {} THEN db'.rows[i].previous = 0
            ELSE /\ db'.rows[i].previous \in mine
                 /\ \A j \in mine : j <= db'.rows[i].previous
        BY <3>2, <3>3, Zenon
      <3> QED
        BY <3>1, <3>4, Zenon
    <2> QED
      BY <1>1, <2>1, <2>2
  <1>3. PermissionPrecedesRetrieval'
    BY <1>1 DEF PermissionPrecedesRetrieval, RecordOf
  <1>4. CommittedWhole'
    <2>1. {db'.rows[i].sha : i \in DOMAIN db'.rows}
            = {db.rows[i].sha : i \in DOMAIN db.rows} \cup {c.sha}
      BY <1>1 DEF RecordOf
    <2> QED
      BY <2>1 DEF CommittedWhole, CommitSnapshot, SameSchema, SameResults
  <1>5. ResultsStand'
    BY <1>1 DEF ResultsStand, Resolvable, CommitSnapshot, SameResults
  <1> QED
    BY <1>2, <1>3, <1>4, <1>5

\* So does a result whose inputs are stored and all bound.
LEMMA ResultIsSound ==
    ASSUME StoreTypes, CommittedIsSound, NEW c, CommitResult(c)
    PROVE  CommittedIsSound'
  <1> USE DEF CommittedIsSound, CommitResult, SameRows, SameSchema
  <1>1. LineageIsLinear' /\ PermissionPrecedesRetrieval'
    BY DEF LineageIsLinear, PermissionPrecedesRetrieval
  <1>2. CommittedWhole'
    <2> DEFINE BoundOf(r) == {<<r, i.row>> : i \in r}
    <2>1. UNION {BoundOf(r) : r \in db'.results}
            = (UNION {BoundOf(r) : r \in db.results}) \cup BoundOf(c.result)
      <3> HIDE DEF BoundOf
      <3> QED
        OBVIOUS
    <2> QED
      BY <2>1 DEF CommittedWhole
  <1>3. ResultsStand'
    BY DEF ResultsStand, Resolvable
  <1> QED
    BY <1>1, <1>2, <1>3

\* A commit leaves every stored row and result where it is.
LEMMA CommitOnlyAdds ==
    ASSUME StoreTypes, NEW c \in Calls, CommitWrites(c)
    PROVE  /\ \A i \in DOMAIN db.rows :
                i \in DOMAIN db'.rows /\ db'.rows[i] = db.rows[i]
           /\ db.results \subseteq db'.results
  <1>1. CASE CommitSnapshot(c) /\ c.op = "snapshot"
    <2>1. RecordOf(c) \in Rows
      BY <1>1, CallShapes DEF RecordOf, Rows, SnapshotCalls
    <2> QED
      BY <1>1, <2>1, CommittedTypes DEF CommitSnapshot, SameResults
  <1>2. CASE CommitResult(c)
    BY <1>2 DEF CommitResult, SameRows
  <1>3. CASE CommitOpens \/ CommitSame
    BY <1>3 DEF CommitOpens, CommitSame, SameRows, SameResults
  <1> QED
    BY <1>1, <1>2, <1>3 DEF CommitWrites

LEMMA CommitKeeps ==
    ASSUME SInv, NEW p \in Procs, NEW s \in {"idle", "closed"}, lock = p,
           pc[p] = "commit", db' = work[p], lock' = Nobody,
           work' = [work EXCEPT ![p] = EmptyDatabase], Rest(p, s),
           UNCHANGED <<rotten, read, now, site, broken>>
    PROVE  SInv'
  <1> USE DEF SInv, Rest
  <1>0. /\ EmptyDatabase \in Databases /\ Nobody \notin Procs
        /\ call[p] \in Calls
    BY EmptySeq, StoreAssumption DEF EmptyDatabase, Databases, StoreAssumption,
                                     StoreTypes
  <1>1. CommitWrites(call[p])
    BY CommitIsKnown
  <1>2. /\ \A i \in DOMAIN db.rows :
             i \in DOMAIN db'.rows /\ db'.rows[i] = db.rows[i]
        /\ db.results \subseteq db'.results
    BY <1>0, <1>1, CommitOnlyAdds
  <1>3. StoreTypes'
    BY <1>0, CallShapes DEF StoreTypes, TypeOK
  <1>4. CallsInStep'
    BY <1>0, CallShapes DEF CallsInStep, StoreTypes, TypeOK, StepsOf, InTransaction
  <1>5. RoomForAll'
    <2>1. Collecting' = Collecting \ {p}
      BY CallShapes DEF Collecting, StoreTypes
    <2>2. CASE db'.rows = db.rows
      BY <2>1, <2>2, DroppingKeepsRoom DEF RoomForAll
    <2>3. CASE CommitSnapshot(call[p]) /\ call[p].op = "snapshot"
      <3>1. RecordOf(call[p]) \in Rows
        BY <1>0, <2>3, CallShapes DEF RecordOf, Rows, SnapshotCalls
      <3>2. Len(db'.rows) = Len(db.rows) + 1
        BY <2>3, <3>1, CommittedTypes DEF CommitSnapshot
      <3>3. p \in Collecting
        BY <2>3 DEF Collecting
      <3> QED
        BY <2>1, <3>2, <3>3, DroppingKeepsRoom DEF RoomForAll
    <2> QED
      BY <1>1, <2>2, <2>3
      DEF CommitWrites, CommitOpens, CommitSame, CommitResult, SameRows
  <1>6. RetrievalsPermitted'
    BY CallShapes DEF RetrievalsPermitted, Collecting, StoreTypes, TypeOK
  <1>7. WorkIsKnown'
    BY <1>0 DEF WorkIsKnown
  <1>8. OffersAreWhole'
    BY CallShapes DEF OffersAreWhole, StoreTypes, TypeOK
  <1>9. CommittedIsSound'
    <2>1. CASE CommitSnapshot(call[p]) /\ call[p].op = "snapshot"
      <3>1. call[p] \in SnapshotCalls
        BY <1>0, <2>1, CallShapes
      <3>2. ReviewedAt[call[p].origin] <= call[p].at
        BY <2>1 DEF RetrievalsPermitted, Collecting
      <3> QED
        BY <2>1, <3>1, <3>2, SnapshotIsSound
    <2>2. CASE CommitResult(call[p])
      BY <2>2, ResultIsSound
    <2>3. CASE CommitOpens \/ CommitSame
      BY <2>3 DEF CommitOpens, CommitSame, SameRows, SameResults, SameSchema,
         SchemaIsWhole, CommittedIsSound, LineageIsLinear,
         PermissionPrecedesRetrieval, CommittedWhole, ResultsStand, Resolvable
    <2> QED
      BY <1>1, <2>1, <2>2, <2>3 DEF CommitWrites
  <1>10. ResolvingStored'
    BY <1>2, CallShapes DEF ResolvingStored, StoreTypes
  <1>11. ReadsResolvable'
    BY <1>2 DEF ReadsResolvable, Resolvable
  <1> QED
    BY <1>3, <1>4, <1>5, <1>6, <1>7, <1>8, <1>9, <1>10, <1>11

-----------------------------------------------------------------------------
(* The steps.                                                              *)

\* A rolled-back transaction: the refusal of a second record of one identity
\* is the one error that is held against the store.
LEMMA RollbackKeeps ==
    ASSUME SInv, NEW p \in Procs, NEW kind, kind # "immutable", Rollback(p, kind)
    PROVE  SInv'
  <1> DEFINE s == IF call[p].op = "open" THEN "closed" ELSE "idle"
  <1>1. /\ s \in {"idle", "closed"} /\ Rest(p, s)
        /\ lock' = IF lock = p THEN Nobody ELSE lock
        /\ work' = [work EXCEPT ![p] = EmptyDatabase]
    BY DEF Rollback
  <1>2. read' \in [Procs -> SUBSET References] /\ \A q \in Procs : read'[q] \subseteq read[q]
    BY DEF Rollback, SInv, StoreTypes
  <1>3. UNCHANGED <<db, rotten, now, site, broken>>
    BY DEF Rollback, SInv
  <1> HIDE DEF s
  <1> QED
    BY <1>1, <1>2, <1>3, AbortKeeps

\* Where a process stands tells which call it is in.
LEMMA StandsIn ==
    ASSUME SInv, NEW p \in Procs
    PROVE  /\ call[p] \in Calls
           /\ pc[p] \in {"closed", "idle"} => call[p] = NoCall
           /\ pc[p] \in {"fetching", "arriving", "head", "blob", "row"} =>
                call[p] \in SnapshotCalls /\ call[p].op = "snapshot"
           /\ pc[p] \in {"version", "guard"} => call[p].op = "open"
           /\ pc[p] \in {"inputs", "result", "bind"} =>
                call[p] \in ResultCalls /\ call[p].op = "result"
           /\ pc[p] = "resolving" =>
                call[p] \in ResultCalls /\ call[p].op = "resolve"
           /\ pc[p] = "waiting" => call[p].op \in {"open", "snapshot", "result"}
  <1>1. call[p] \in Calls /\ pc[p] \in StepsOf(call[p].op)
    BY DEF SInv, StoreTypes, CallsInStep
  <1>2. call[p].op = "none" => call[p] = NoCall
    BY <1>1 DEF Calls, NoCall
  <1> QED
    BY <1>1, <1>2, CallShapes DEF StepsOf

\* Starting a call, and what a call does before its transaction.
LEMMA CallStartsKeeps ==
    ASSUME SInv, NEW p \in Procs, CallStarts(p)
    PROVE  SInv'
  <1> USE StandsIn
  <1>0. read \in [Procs -> SUBSET References] /\ \A q \in Procs : \A i \in read[q] : Resolvable(i)
    BY DEF SInv, StoreTypes, ReadsResolvable
  <1>1. CASE Open(p)
    <2> DEFINE c == [op |-> "open"]
    <2>1. /\ c \in Calls /\ c.op = "open"
          /\ "waiting" \in StepsOf(c.op) /\ "waiting" \notin InTransaction
          /\ pc[p] \notin InTransaction
      BY <1>1, CallShapes DEF Open, StepsOf, InTransaction
    <2>2. pc' = [pc EXCEPT ![p] = "waiting"] /\ call' = [call EXCEPT ![p] = c]
          /\ UNCHANGED <<db, lock, work, rotten, read, now, site, broken>>
      BY <1>1 DEF Open
    <2> HIDE DEF c
    <2> QED
      BY <1>0, <2>1, <2>2, OutsideKeeps
  <1>2. ASSUME NEW o \in Origins, Collect(p, o)
        PROVE  SInv'
    <2> DEFINE b == CHOOSE b \in Bytes : TRUE
               c == SnapshotCall(o, b, 0)
    <2>1. b \in Bytes
      BY FS_EmptySet, StoreAssumption DEF StoreAssumption
    <2>2. c \in Calls /\ c.op = "snapshot"
      BY <2>1, StoreAssumption, CallShapes
      DEF SnapshotCall, SnapshotCalls, StoreAssumption, Times
    <2>3. /\ "fetching" \in StepsOf("snapshot") /\ "fetching" \notin InTransaction
          /\ pc[p] \notin InTransaction /\ Len(db.rows) < MaxRows
      BY <1>2 DEF Collect, StepsOf, InTransaction
    <2>4. pc' = [pc EXCEPT ![p] = "fetching"] /\ call' = [call EXCEPT ![p] = c]
          /\ UNCHANGED <<db, lock, work, rotten, read, now, site, broken>>
      BY <1>2 DEF Collect
    <2> HIDE DEF c
    <2> QED
      BY <1>0, <2>2, <2>3, <2>4, OutsideKeeps
  <1>3. ASSUME NEW r \in Offered, Offer(p, r)
        PROVE  SInv'
    <2> DEFINE c == [op |-> "result", result |-> r, left |-> r]
    <2>1. c \in Calls /\ c.op = "result" /\ c.left = c.result
      BY OfferedAssumption, CallShapes DEF ResultCalls, OfferedAssumption, Results
    <2>2. /\ "waiting" \in StepsOf("result") /\ "waiting" \notin InTransaction
          /\ pc[p] \notin InTransaction
      BY <1>3 DEF Offer, StepsOf, InTransaction
    <2>3. pc' = [pc EXCEPT ![p] = "waiting"] /\ call' = [call EXCEPT ![p] = c]
          /\ UNCHANGED <<db, lock, work, rotten, read, now, site, broken>>
      BY <1>3 DEF Offer
    <2> HIDE DEF c
    <2> QED
      BY <1>0, <2>1, <2>2, <2>3, OutsideKeeps
  <1>4. ASSUME NEW r \in Offered, Resolve(p, r)
        PROVE  SInv'
    <2> DEFINE c == [op |-> "resolve", result |-> r, left |-> r]
    <2>1. /\ c \in Calls /\ c.op = "resolve"
          /\ c.result \in db.results /\ c.left \subseteq c.result
      BY <1>4, OfferedAssumption, CallShapes
      DEF ResultCalls, OfferedAssumption, Results, Resolve
    <2>2. /\ "resolving" \in StepsOf("resolve") /\ "resolving" \notin InTransaction
          /\ pc[p] \notin InTransaction
      BY <1>4 DEF Resolve, StepsOf, InTransaction
    <2>3. pc' = [pc EXCEPT ![p] = "resolving"] /\ call' = [call EXCEPT ![p] = c]
          /\ UNCHANGED <<db, lock, work, rotten, read, now, site, broken>>
      BY <1>4 DEF Resolve
    <2> HIDE DEF c
    <2> QED
      BY <1>0, <2>1, <2>2, <2>3, OutsideKeeps
  <1>5. CASE Close(p)
    <2>1. /\ NoCall \in Calls /\ NoCall.op = "none"
          /\ "closed" \in StepsOf("none") /\ "closed" \notin InTransaction
          /\ pc[p] \notin InTransaction
      BY <1>5, CallShapes DEF Close, StepsOf, InTransaction
    <2>2. pc' = [pc EXCEPT ![p] = "closed"] /\ call' = [call EXCEPT ![p] = NoCall]
          /\ UNCHANGED <<db, lock, work, rotten, read, now, site, broken>>
      BY <1>5 DEF Close, SInv, StoreTypes
    <2> QED
      BY <1>0, <2>1, <2>2, OutsideKeeps
  <1> QED
    BY <1>1, <1>2, <1>3, <1>4, <1>5 DEF CallStarts

\* A call outside its transaction that is over.
LEMMA RestKeeps ==
    ASSUME SInv, NEW p \in Procs, pc[p] \notin InTransaction,
           NEW s \in {"idle", "closed"}, Rest(p, s),
           read' \in [Procs -> SUBSET References],
           \A q \in Procs : read'[q] \subseteq read[q],
           UNCHANGED <<db, lock, work, rotten, now, site, broken>>
    PROVE  SInv'
  <1>1. /\ NoCall \in Calls /\ NoCall.op = "none"
        /\ s \in StepsOf("none") /\ s \notin InTransaction
    BY CallShapes DEF StepsOf, InTransaction
  <1>2. \A q \in Procs : \A i \in read'[q] : Resolvable(i)
    BY DEF SInv, ReadsResolvable
  <1> QED
    BY <1>1, <1>2, OutsideKeeps DEF Rest

LEMMA FetchKeeps ==
    ASSUME SInv, NEW p \in Procs, Serve(p) \/ Arrive(p) \/ FetchFails(p)
    PROVE  SInv'
  <1> DEFINE c == call[p]
  <1>0. /\ read \in [Procs -> SUBSET References]
        /\ \A q \in Procs : \A i \in read[q] : Resolvable(i)
        /\ call \in [Procs -> Calls]
    BY DEF SInv, StoreTypes, ReadsResolvable
  <1>1. /\ c \in SnapshotCalls /\ c.op = "snapshot" /\ pc[p] \notin InTransaction
        /\ UNCHANGED <<db, lock, work, rotten, read, now, site, broken>>
    BY StandsIn DEF Serve, Arrive, FetchFails, InTransaction
  <1>2. CASE Rest(p, "idle")
    BY <1>0, <1>1, <1>2, RestKeeps
  <1>3. CASE Serve(p)
    <2> DEFINE e == [c EXCEPT !.sha = site[c.origin]]
    <2>1. e \in Calls /\ e.op = "snapshot"
      BY <1>1, CallShapes DEF SnapshotCalls, SInv, StoreTypes, TypeOK
    <2>2. pc' = [pc EXCEPT ![p] = "arriving"] /\ call' = [call EXCEPT ![p] = e]
      BY <1>3 DEF Serve
    <2>3. "arriving" \in StepsOf("snapshot") /\ "arriving" \notin InTransaction
      BY DEF StepsOf, InTransaction
    <2> HIDE DEF e
    <2> QED
      BY <1>0, <1>1, <2>1, <2>2, <2>3, OutsideKeeps
  <1>4. CASE Arrive(p) /\ ~Rest(p, "idle")
    <2> DEFINE e == [c EXCEPT !.at = now]
    <2>1. e \in Calls /\ e.op = "snapshot" /\ ReviewedAt[e.origin] <= e.at
      BY <1>1, <1>4, CallShapes DEF SnapshotCalls, SInv, StoreTypes, TypeOK,
         Arrive, permissionWasReviewedBy
    <2>2. pc' = [pc EXCEPT ![p] = "waiting"] /\ call' = [call EXCEPT ![p] = e]
      BY <1>4 DEF Arrive
    <2>3. "waiting" \in StepsOf("snapshot") /\ "waiting" \notin InTransaction
      BY DEF StepsOf, InTransaction
    <2> HIDE DEF e
    <2> QED
      BY <1>0, <1>1, <2>1, <2>2, <2>3, OutsideKeeps
  <1> QED
    BY <1>2, <1>3, <1>4 DEF FetchFails

LEMMA BeginKeeps ==
    ASSUME SInv, NEW p \in Procs, Begin(p)
    PROVE  SInv'
  <1> USE DEF SInv
  <1> DEFINE s == FirstStep(call[p].op)
  <1>0. call[p].op \in {"open", "snapshot", "result"} /\ call[p] \in Calls
    BY StandsIn DEF Begin
  <1>1. s \in StepsOf(call[p].op) /\ s \in InTransaction
    BY <1>0 DEF FirstStep, StepsOf, InTransaction
  <1>2. /\ pc' = [pc EXCEPT ![p] = s] /\ lock' = p
        /\ work' = [work EXCEPT ![p] = db] /\ lock = Nobody
        /\ UNCHANGED <<db, call, rotten, read, now, site, broken>>
        /\ pc[p] = "waiting"
    BY DEF Begin
  <1>3. StoreTypes'
    BY <1>1, <1>2 DEF StoreTypes, TypeOK
  <1>4. CallsInStep'
    BY <1>1, <1>2, StoreAssumption
    DEF CallsInStep, StoreTypes, TypeOK, StoreAssumption
  <1>5. Collecting' = Collecting
    BY <1>2 DEF Collecting
  <1>6. RoomForAll'
    BY <1>2, <1>5 DEF RoomForAll
  <1>7. RetrievalsPermitted'
    BY <1>2, <1>5 DEF RetrievalsPermitted, Collecting, StoreTypes, TypeOK
  <1>8. WorkIsKnown'
    <2>1. pc'[p] = s /\ work'[p] = db /\ call'[p] = call[p] /\ db' = db
      BY <1>2 DEF StoreTypes, TypeOK
    <2>2. call[p].op = "open" => OpeningWork(db, "version")
      BY DEF OpeningWork, SameRows, SameResults, SchemaIsWhole,
             CommittedIsSound, CommittedWhole
    <2>3. call[p].op = "snapshot" => SnapshotWork(db, "head", call[p])
      BY DEF SnapshotWork, SameSchema, SameRows, SameResults
    <2>4. call[p].op = "result" => ResultWork(db, "inputs", call[p])
      BY <1>2 DEF ResultWork, SameSchema, SameRows, SameResults, OffersAreWhole
    <2> QED
      BY <1>2, <2>1, <2>2, <2>3, <2>4
      DEF WorkIsKnown, FirstStep, OpeningWork, SnapshotWork, ResultWork,
          SameRows, SameResults, SameSchema, Continues, Resolvable
  <1>9. OffersAreWhole'
    BY <1>2 DEF OffersAreWhole, StoreTypes, TypeOK
  <1>10. CommittedIsSound'
    BY <1>2, CommittedStays
  <1>11. ResolvingStored' /\ ReadsResolvable'
    BY <1>2 DEF ResolvingStored, ReadsResolvable, Resolvable
  <1> QED
    BY <1>2, <1>3, <1>4, <1>6, <1>7, <1>8, <1>9, <1>10, <1>11

\* What the transaction that holds the lock has written is known.
LEMMA WorkOfHolder ==
    ASSUME SInv, NEW p \in Procs, lock = p
    PROVE  /\ work[p] \in Databases
           /\ work[p].rows \in Seq(Rows)
           /\ call[p].op = "open" => OpeningWork(work[p], pc[p])
           /\ call[p].op = "snapshot" => SnapshotWork(work[p], pc[p], call[p])
           /\ call[p].op = "result" => ResultWork(work[p], pc[p], call[p])
  BY DEF SInv, StoreTypes, WorkIsKnown, Databases

\* The constructor's transaction.
LEMMA OpeningKeeps ==
    ASSUME SInv, NEW p \in Procs, ReadVersion(p) \/ CreateTriggers(p)
    PROVE  SInv'
  <1>0. /\ lock = p /\ call[p].op = "open" /\ call[p] \in Calls
        /\ call' = [call EXCEPT ![p] = call[p]]
    BY StandsIn DEF ReadVersion, CreateTriggers, Proceed, SInv, StoreTypes
  <1>1. work[p] \in Databases /\ OpeningWork(work[p], pc[p])
    BY <1>0, WorkOfHolder
  <1>2. CASE ReadVersion(p) /\ work[p].version = 1
    <2>1. Proceed(p, work[p], "commit")
      BY <1>2 DEF ReadVersion
    <2>2. OpeningWork(work[p], "commit")
      BY <1>1, <1>2 DEF ReadVersion, OpeningWork
    <2>3. "commit" \in StepsOf("open") /\ "commit" \in InTransaction
      BY DEF StepsOf, InTransaction
    <2> QED
      BY <1>0, <1>1, <2>1, <2>2, <2>3, WithinKeeps DEF Proceed
  <1>3. CASE ReadVersion(p) /\ work[p].version # 1
    <2> DEFINE d == [work[p] EXCEPT !.tables = TRUE, !.version = 1]
    <2>1. Proceed(p, d, "guard")
      BY <1>3 DEF ReadVersion
    <2>2. d \in Databases /\ OpeningWork(d, "guard")
      BY <1>1 DEF OpeningWork, Databases, SameRows, SameResults
    <2>3. "guard" \in StepsOf("open") /\ "guard" \in InTransaction
      BY DEF StepsOf, InTransaction
    <2> HIDE DEF d
    <2> QED
      BY <1>0, <2>1, <2>2, <2>3, WithinKeeps DEF Proceed
  <1>4. CASE CreateTriggers(p)
    <2> DEFINE d == [work[p] EXCEPT !.guarded = TRUE]
    <2>1. Proceed(p, d, "commit")
      BY <1>4 DEF CreateTriggers
    <2>2. d \in Databases /\ OpeningWork(d, "commit")
      BY <1>1, <1>4 DEF OpeningWork, Databases, SameRows, SameResults,
                        SchemaIsWhole, CreateTriggers
    <2>3. "commit" \in StepsOf("open") /\ "commit" \in InTransaction
      BY DEF StepsOf, InTransaction
    <2> HIDE DEF d
    <2> QED
      BY <1>0, <2>1, <2>2, <2>3, WithinKeeps DEF Proceed
  <1> QED
    BY <1>2, <1>3, <1>4

\* The first statement of a collection: what its origin has so far.
LEMMA ReadHeadKeeps ==
    ASSUME SInv, NEW p \in Procs, ReadHead(p)
    PROVE  SInv'
  <1> DEFINE c == call[p]
             head == Latest(work[p], c.origin)
  <1>0. /\ c \in SnapshotCalls /\ c \in Calls /\ c.op = "snapshot"
        /\ pc[p] = "head"
    BY StandsIn DEF ReadHead
  <1>1. CASE Rollback(p, "verification")
    BY <1>1, RollbackKeeps
  <1>2. CASE ~Rollback(p, "verification")
    <2>1. lock = p /\ call \in [Procs -> Calls]
      BY <1>2 DEF ReadHead, Proceed, SInv, StoreTypes
    <2>2. /\ work[p] \in Databases /\ SnapshotWork(work[p], "head", c)
          /\ db.rows \in Seq(Rows) /\ DOMAIN db.rows = 1 .. Len(db.rows)
      BY <1>0, <2>1, WorkOfHolder, CommittedTypes DEF SInv
    <2>3. SameSchema(work[p]) /\ SameRows(work[p]) /\ SameResults(work[p])
      BY <2>2 DEF SnapshotWork
    <2>4. head = Latest(db, c.origin)
      BY <2>3 DEF Latest, SameRows
    <2>5. CASE Proceed(p, Recollected(work[p], head, c), "commit") /\ UNCHANGED call
      <3>1. SnapshotWork(work[p], "commit", c)
        BY <2>3 DEF SnapshotWork
      <3>2. "commit" \in StepsOf("snapshot") /\ "commit" \in InTransaction
        BY DEF StepsOf, InTransaction
      <3>3. /\ call' = [call EXCEPT ![p] = c]
            /\ pc' = [pc EXCEPT ![p] = "commit"]
            /\ work' = [work EXCEPT ![p] = work[p]]
            /\ UNCHANGED <<db, lock, rotten, read, now, site, broken>>
        BY <2>1, <2>5 DEF Proceed, Recollected
      <3> QED
        BY <1>0, <2>1, <2>2, <3>1, <3>2, <3>3, WithinKeeps
    <2>6. CASE /\ head # 0 => ~SameBytes(work[p], head, c)
               /\ Proceed(p, work[p], "blob")
               /\ call' = [call EXCEPT ![p].previous = head]
      <3> DEFINE e == [c EXCEPT !.previous = head]
      <3>1. head \in {0} \cup RowIds
        <4>1. p \in Collecting
          BY <1>0 DEF Collecting
        <4>2. Len(db.rows) <= MaxRows + Cardinality(Procs)
          <5>1. /\ Cardinality(Collecting \ {p}) \in Nat
                /\ Len(db.rows) \in Nat
                /\ Len(db.rows) + Cardinality(Collecting \ {p})
                     <= MaxRows + Cardinality(Procs)
            BY CollectingCounts, CommittedTypes, DroppingKeepsRoom DEF SInv
          <5> QED
            BY <5>1, Bounds
        <4>3. head = 0 \/ head \in 1 .. Len(db.rows)
          BY <2>2, <2>4, LatestIsLast
        <4> QED
          BY <4>2, <4>3, CommittedTypes, Bounds DEF SInv
      <3>2. /\ e \in Calls /\ e.op = "snapshot" /\ e.previous = head
            /\ e.origin = c.origin /\ e.at = c.at /\ e.sha = c.sha
        BY <1>0, <3>1, CallShapes DEF SnapshotCalls
      <3>3. Continues(e)
        BY <2>3, <2>4, <2>6, <3>2 DEF Continues, SameBytes, SameRows
      <3>4. SnapshotWork(work[p], "blob", e)
        BY <2>3, <3>3 DEF SnapshotWork
      <3>5. "blob" \in StepsOf("snapshot") /\ "blob" \in InTransaction
        BY DEF StepsOf, InTransaction
      <3>6. /\ call' = [call EXCEPT ![p] = e]
            /\ pc' = [pc EXCEPT ![p] = "blob"]
            /\ work' = [work EXCEPT ![p] = work[p]]
            /\ UNCHANGED <<db, lock, rotten, read, now, site, broken>>
        BY <2>6 DEF Proceed
      <3> HIDE DEF e
      <3> QED
        BY <1>0, <2>1, <2>2, <3>2, <3>4, <3>5, <3>6, WithinKeeps
    <2> QED
      BY <1>2, <2>5, <2>6 DEF ReadHead
  <1> QED
    BY <1>1, <1>2

\* A record that continues its chain is no row yet: it would have to come
\* after the row it continues and at or before the latest.
LEMMA RecordIsNew ==
    ASSUME StoreTypes, LineageIsLinear, NEW c \in SnapshotCalls, Continues(c),
           NEW i \in DOMAIN db.rows
    PROVE  db.rows[i] # RecordOf(c)
  <1> SUFFICES ASSUME db.rows[i] = RecordOf(c)
               PROVE  FALSE
    OBVIOUS
  <1>1. db.rows[i].origin = c.origin /\ db.rows[i].previous = Latest(db, c.origin)
    BY DEF RecordOf, Continues
  <1>2. i \in Nat /\ db.rows \in Seq(Rows)
    BY CommittedTypes
  <1>3. /\ Latest(db, c.origin) \in 1 .. Len(db.rows)
        /\ i <= Latest(db, c.origin)
    BY <1>1, <1>2, LatestIsLast
  <1>4. db.rows[i].previous = 0 \/ db.rows[i].previous \in 1 .. (i - 1)
    BY DEF LineageIsLinear
  <1> QED
    BY <1>1, <1>2, <1>3, <1>4, CommittedTypes

\* The bytes and the row of a collection.
LEMMA StoreKeeps ==
    ASSUME SInv, NEW p \in Procs, InsertBlob(p) \/ InsertRow(p)
    PROVE  SInv'
  <1> DEFINE c == call[p]
  <1>0. /\ c \in SnapshotCalls /\ c \in Calls /\ c.op = "snapshot"
        /\ lock = p /\ call \in [Procs -> Calls]
    BY StandsIn DEF InsertBlob, InsertRow, Proceed, Rollback, SInv, StoreTypes
  <1>1. work[p] \in Databases /\ SnapshotWork(work[p], pc[p], c)
    BY <1>0, WorkOfHolder
  <1>2. CASE Rollback(p, "verification")
    BY <1>2, RollbackKeeps
  <1>3. CASE InsertBlob(p) /\ ~Rollback(p, "verification")
    <2> DEFINE d == [work[p] EXCEPT !.blobs = @ \cup {c.sha}]
    <2>1. /\ Proceed(p, d, "row") /\ UNCHANGED call /\ pc[p] = "blob"
      BY <1>3 DEF InsertBlob
    <2>2. d \in Databases /\ SnapshotWork(d, "row", c)
      BY <1>0, <1>1, <2>1 DEF SnapshotWork, Databases, SameRows, SameResults,
                              SameSchema, SnapshotCalls
    <2>3. "row" \in StepsOf("snapshot") /\ "row" \in InTransaction
      BY DEF StepsOf, InTransaction
    <2>4. call' = [call EXCEPT ![p] = c]
      BY <1>0, <2>1
    <2> HIDE DEF d
    <2> QED
      BY <1>0, <2>1, <2>2, <2>3, <2>4, WithinKeeps DEF Proceed
  <1>4. CASE InsertRow(p)
    <2> DEFINE d == [work[p] EXCEPT !.rows = Append(@, RecordOf(c))]
    <2>1. pc[p] = "row" /\ work[p].rows = db.rows /\ Continues(c)
      BY <1>1, <1>4 DEF InsertRow, SnapshotWork
    <2>2. Proceed(p, d, "commit") /\ UNCHANGED call
      <3>1. \A i \in DOMAIN work[p].rows : work[p].rows[i] # RecordOf(c)
        BY <1>0, <2>1, RecordIsNew DEF SInv, CommittedIsSound
      <3> QED
        BY <1>4, <3>1 DEF InsertRow
    <2>3. d \in Databases
      <3>1. RecordOf(c) \in Rows
        BY <1>0 DEF RecordOf, Rows, SnapshotCalls
      <3>2. work[p].rows \in Seq(Rows)
        BY <1>1 DEF Databases
      <3>3. Append(work[p].rows, RecordOf(c)) \in Seq(Rows)
        BY <3>1, <3>2
      <3> QED
        BY <1>1, <3>3 DEF Databases
    <2>4. SnapshotWork(d, "commit", c)
      BY <1>1, <2>1 DEF SnapshotWork, Databases, SameResults, SameSchema
    <2>5. "commit" \in StepsOf("snapshot") /\ "commit" \in InTransaction
      BY DEF StepsOf, InTransaction
    <2>6. call' = [call EXCEPT ![p] = c]
      BY <1>0, <2>2
    <2> HIDE DEF d
    <2> QED
      BY <1>0, <2>2, <2>3, <2>4, <2>5, <2>6, WithinKeeps DEF Proceed
  <1> QED
    BY <1>2, <1>3, <1>4

\* What resolving a reference throws tells whether it is resolvable.
LEMMA ReferenceErrors ==
    ASSUME NEW d, NEW i, SameRows(d)
    PROVE  /\ ReferenceError(d, i) \in {"not-found", "verification", "mismatch", "none"}
           /\ ReferenceError(d, i) = "none" =>
                Resolvable(i) /\ db.rows[i.row].sha \notin rotten
           /\ Resolvable(i) => ReferenceError(d, i) # "not-found"
  BY DEF ReferenceError, Stored, Verified, SameRows, Resolvable

\* The transaction of a result.
LEMMA ConcludeKeeps ==
    ASSUME SInv, NEW p \in Procs,
           CheckInputs(p) \/ InsertResult(p) \/ InsertBinding(p)
    PROVE  SInv'
  <1> DEFINE c == call[p]
  <1>0. /\ c \in ResultCalls /\ c \in Calls /\ c.op = "result"
        /\ lock = p /\ call \in [Procs -> Calls]
    BY StandsIn DEF CheckInputs, InsertResult, InsertBinding, Proceed, Rollback,
                    SInv, StoreTypes
  <1>1. /\ work[p] \in Databases /\ ResultWork(work[p], pc[p], c)
        /\ c.result \in Results /\ c.left \in SUBSET References
        /\ c.result \in SUBSET References
    BY <1>0, WorkOfHolder DEF ResultCalls, Results
  <1>2. ASSUME NEW kind \in InputErrors(p) \ {"none"}, Rollback(p, kind)
        PROVE  SInv'
    <2>1. SameRows(work[p])
      BY <1>1 DEF ResultWork
    <2>2. kind # "immutable"
      BY <1>2, <2>1, ReferenceErrors DEF InputErrors
    <2> QED
      BY <1>2, <2>2, RollbackKeeps
  <1>3. CASE CheckInputs(p) /\ InputErrors(p) = {"none"}
    <2>1. Proceed(p, work[p], "result") /\ UNCHANGED call /\ pc[p] = "inputs"
      BY <1>3 DEF CheckInputs
    <2>2. \A i \in c.result : Resolvable(i)
      <3>1. SameRows(work[p])
        BY <1>1 DEF ResultWork
      <3>2. \A i \in c.result : ReferenceError(work[p], i) = "none"
        BY <1>3 DEF InputErrors
      <3> QED
        BY <3>1, <3>2, ReferenceErrors
    <2>3. ResultWork(work[p], "result", c)
      BY <1>1, <2>1, <2>2 DEF ResultWork
    <2>4. "result" \in StepsOf("result") /\ "result" \in InTransaction
      BY DEF StepsOf, InTransaction
    <2>5. call' = [call EXCEPT ![p] = c]
      BY <1>0, <2>1
    <2> QED
      BY <1>0, <1>1, <2>1, <2>3, <2>4, <2>5, WithinKeeps DEF Proceed
  <1>4. CASE InsertResult(p) /\ c.result \in work[p].results
    <2>1. Proceed(p, work[p], "commit") /\ UNCHANGED call /\ pc[p] = "result"
      BY <1>4 DEF InsertResult
    <2>2. ResultWork(work[p], "commit", c)
      BY <1>1, <2>1 DEF ResultWork
    <2>3. "commit" \in StepsOf("result") /\ "commit" \in InTransaction
      BY DEF StepsOf, InTransaction
    <2>4. call' = [call EXCEPT ![p] = c]
      BY <1>0, <2>1
    <2> QED
      BY <1>0, <1>1, <2>1, <2>2, <2>3, <2>4, WithinKeeps DEF Proceed
  <1>5. CASE InsertResult(p) /\ c.result \notin work[p].results
    <2> DEFINE d == [work[p] EXCEPT !.results = @ \cup {c.result}]
    <2>1. Proceed(p, d, "bind") /\ UNCHANGED call /\ pc[p] = "result"
      BY <1>5 DEF InsertResult
    <2>2. d \in Databases
      BY <1>1 DEF Databases
    <2>3. ResultWork(d, "bind", c)
      <3>1. {<<c.result, i.row>> : i \in c.result \ c.left} = {}
        BY <1>1, <2>1 DEF ResultWork
      <3> QED
        BY <1>1, <2>1, <3>1
        DEF ResultWork, Databases, SameRows, SameResults, SameSchema
    <2>4. "bind" \in StepsOf("result") /\ "bind" \in InTransaction
      BY DEF StepsOf, InTransaction
    <2>5. call' = [call EXCEPT ![p] = c]
      BY <1>0, <2>1
    <2> HIDE DEF d
    <2> QED
      BY <1>0, <2>1, <2>2, <2>3, <2>4, <2>5, WithinKeeps DEF Proceed
  <1>6. CASE InsertBinding(p)
    <2>1. PICK i \in c.left :
            /\ call' = [call EXCEPT ![p].left = @ \ {i}]
            /\ Proceed(p, [work[p] EXCEPT !.bindings = @ \cup {<<c.result, i.row>>}],
                       IF c.left = {i} THEN "commit" ELSE "bind")
      BY <1>6 DEF InsertBinding
    <2> DEFINE d == [work[p] EXCEPT !.bindings = @ \cup {<<c.result, i.row>>}]
               e == [c EXCEPT !.left = @ \ {i}]
               s == IF c.left = {i} THEN "commit" ELSE "bind"
    <2>2. /\ e \in Calls /\ e.op = "result" /\ e.result = c.result
          /\ e.left = c.left \ {i}
      BY <1>0, <1>1, CallShapes DEF ResultCalls
    <2>3. d \in Databases
      <3>1. i.row \in RowIds
        BY <1>1 DEF References
      <3> QED
        BY <1>1, <3>1 DEF Databases
    <2>4. ResultWork(d, s, e)
      <3>1. /\ pc[p] = "bind" /\ i \in c.result /\ c.left \subseteq c.result
            /\ work[p].bindings = db.bindings \cup
                 {<<c.result, j.row>> : j \in c.result \ c.left}
            /\ work[p].results = db.results \cup {c.result}
            /\ \A j \in c.result : Resolvable(j)
            /\ SameSchema(work[p]) /\ SameRows(work[p])
        BY <1>1, <1>6 DEF InsertBinding, ResultWork
      <3>2. c.result \ e.left = (c.result \ c.left) \cup {i}
        BY <2>2, <3>1
      <3>3. d.bindings = db.bindings \cup
                           {<<c.result, j.row>> : j \in c.result \ e.left}
        <4>1. d.bindings = work[p].bindings \cup {<<c.result, i.row>>}
          BY <1>1 DEF Databases
        <4> HIDE DEF d, e
        <4> QED
          BY <3>1, <3>2, <4>1
      <3>4. s = "commit" => c.result \ e.left = c.result
        BY <2>2
      <3>5. d.results = work[p].results /\ SameSchema(d) /\ SameRows(d)
        BY <1>1, <3>1 DEF Databases, SameSchema, SameRows
      <3>6. s \in {"bind", "commit"}
        OBVIOUS
      <3> HIDE DEF d, e, s
      <3> QED
        BY <2>2, <3>1, <3>3, <3>4, <3>5, <3>6 DEF ResultWork
    <2>5. s \in StepsOf("result") /\ s \in InTransaction
      BY DEF StepsOf, InTransaction
    <2>6. /\ call' = [call EXCEPT ![p] = e]
          /\ pc' = [pc EXCEPT ![p] = s]
          /\ work' = [work EXCEPT ![p] = d]
          /\ UNCHANGED <<db, lock, rotten, read, now, site, broken>>
      BY <2>1 DEF Proceed
    <2> HIDE DEF d, e, s
    <2> QED
      BY <1>0, <2>2, <2>3, <2>4, <2>5, <2>6, WithinKeeps
  <1> QED
    BY <1>2, <1>3, <1>4, <1>5, <1>6 DEF CheckInputs, InsertResult

\* A resolution never finds an input missing, and reads the recorded bytes.
LEMMA ResolveKeeps ==
    ASSUME SInv, NEW p \in Procs, ResolveInput(p) \/ ResolveReturns(p)
    PROVE  SInv'
  <1> DEFINE c == call[p]
  <1>0. /\ c \in ResultCalls /\ c \in Calls /\ c.op = "resolve"
        /\ pc[p] = "resolving" /\ pc[p] \notin InTransaction
        /\ call \in [Procs -> Calls] /\ pc \in [Procs -> {"closed", "idle",
             "fetching", "arriving", "waiting", "resolving"} \cup InTransaction]
        /\ read \in [Procs -> SUBSET References]
        /\ c.result \in db.results /\ c.left \subseteq c.result
        /\ c.left \in SUBSET References
    BY StandsIn DEF ResolveInput, ResolveReturns, InTransaction, SInv,
                    StoreTypes, TypeOK, ResolvingStored, ResultCalls
  <1>1. \A i \in c.left : Resolvable(i)
    BY <1>0 DEF SInv, CommittedIsSound, ResultsStand
  <1>2. \A i \in c.left : ReferenceError(db, i) # "not-found"
    BY <1>1, ReferenceErrors DEF SameRows
  <1>3. CASE ResolveReturns(p)
    BY <1>0, <1>3, RestKeeps DEF ResolveReturns
  <1>4. CASE ResolveInput(p)
    <2>1. PICK i \in c.left :
            \/ /\ ReferenceError(db, i) # "none" /\ UNCHANGED broken
               /\ read' = [read EXCEPT ![p] = {}] /\ Rest(p, "idle")
            \/ /\ ReferenceError(db, i) = "none"
               /\ read' = [read EXCEPT ![p] =
                             @ \cup {[row |-> i.row, sha |-> BytesRead(i.row)]}]
               /\ call' = [call EXCEPT ![p].left = @ \ {i}]
               /\ UNCHANGED <<pc, broken>>
      BY <1>0, <1>2, <1>4 DEF ResolveInput
    <2>2. UNCHANGED <<db, lock, work, rotten, now, site>>
      BY <1>4 DEF ResolveInput
    <2>3. CASE Rest(p, "idle") /\ UNCHANGED broken /\ read' = [read EXCEPT ![p] = {}]
      BY <1>0, <2>2, <2>3, RestKeeps
    <2>4. CASE /\ ReferenceError(db, i) = "none"
               /\ read' = [read EXCEPT ![p] =
                             @ \cup {[row |-> i.row, sha |-> BytesRead(i.row)]}]
               /\ call' = [call EXCEPT ![p].left = @ \ {i}]
               /\ UNCHANGED <<pc, broken>>
      <3> DEFINE e == [c EXCEPT !.left = @ \ {i}]
                 found == [row |-> i.row, sha |-> BytesRead(i.row)]
      <3>1. /\ e \in Calls /\ e.op = "resolve" /\ e.result = c.result
            /\ e.left = c.left \ {i}
        BY <1>0, CallShapes DEF ResultCalls
      <3>2. found = i
        <4>1. BytesRead(i.row) = i.sha
          BY <2>4, ReferenceErrors DEF SameRows, BytesRead, Resolvable
        <4> QED
          BY <1>0, <4>1 DEF References
      <3>3. /\ read' \in [Procs -> SUBSET References]
            /\ \A q \in Procs : \A j \in read'[q] : Resolvable(j)
        BY <1>0, <1>1, <2>4, <3>2 DEF SInv, ReadsResolvable
      <3>4. call' = [call EXCEPT ![p] = e] /\ pc' = [pc EXCEPT ![p] = "resolving"]
        BY <1>0, <2>4
      <3>5. "resolving" \in StepsOf("resolve") /\ "resolving" \notin InTransaction
        BY DEF StepsOf, InTransaction
      <3> HIDE DEF e
      <3> QED
        BY <1>0, <2>2, <2>4, <3>1, <3>3, <3>4, <3>5, OutsideKeeps
    <2> QED
      BY <2>1, <2>3, <2>4
  <1> QED
    BY <1>3, <1>4

\* A process that dies, and a statement that fails.
LEMMA FaultKeeps ==
    ASSUME SInv, NEW p \in Procs, Fault(p)
    PROVE  SInv'
  <1>1. CASE StatementFails(p)
    BY <1>1, RollbackKeeps DEF StatementFails
  <1>2. CASE Crash(p)
    <2>1. /\ read' \in [Procs -> SUBSET References]
          /\ \A q \in Procs : read'[q] \subseteq read[q]
      BY <1>2 DEF Crash, SInv, StoreTypes
    <2> QED
      BY <1>2, <2>1, AbortKeeps DEF Crash
  <1>3. CASE CrashAfterCommit(p)
    BY <1>3, CommitKeeps DEF CrashAfterCommit
  <1> QED
    BY <1>1, <1>2, <1>3 DEF Fault

\* What happens around the store: publishers, the clock and the disk.
LEMMA AroundKeeps ==
    ASSUME SInv,
           \/ \E o \in Origins, b \in Bytes : Publish(o, b)
           \/ \E b \in Bytes : Rot(b)
           \/ ClockMoves
           \/ UNCHANGED vars
    PROVE  SInv'
  <1> USE DEF SInv
  <1>1. /\ UNCHANGED <<db, lock, work, pc, call, read, broken>>
        /\ now' \in Times /\ rotten' \subseteq Bytes /\ site' \in [Origins -> Bytes]
    BY DEF Publish, Rot, ClockMoves, vars, StoreTypes, TypeOK
  <1>2. StoreTypes'
    BY <1>1 DEF StoreTypes, TypeOK
  <1>3. CallsInStep' /\ RetrievalsPermitted' /\ RoomForAll' /\ OffersAreWhole'
    BY <1>1 DEF CallsInStep, RetrievalsPermitted, RoomForAll, Collecting,
                OffersAreWhole
  <1>4. WorkIsKnown'
    BY <1>1 DEF WorkIsKnown, OpeningWork, SnapshotWork, ResultWork, SameRows,
                SameResults, SameSchema, Continues, Resolvable
  <1>5. CommittedIsSound' /\ ResolvingStored' /\ ReadsResolvable'
    BY <1>1, CommittedStays DEF ResolvingStored, ReadsResolvable, Resolvable
  <1> QED
    BY <1>1, <1>2, <1>3, <1>4, <1>5

-----------------------------------------------------------------------------
(* The theorems.                                                           *)

LEMMA InitSInv == Init => SInv
  <1> SUFFICES ASSUME Init
               PROVE  SInv
    OBVIOUS
  <1> USE DEF Init
  <1>1. EmptyDatabase \in Databases /\ NoCall \in Calls /\ NoCall.op = "none"
    BY EmptySeq, CallShapes DEF EmptyDatabase, Databases
  <1>2. StoreTypes
    BY <1>1, StoreAssumption DEF StoreTypes, TypeOK, Times, StoreAssumption
  <1>3. CallsInStep
    BY <1>1, StoreAssumption DEF CallsInStep, StepsOf, InTransaction, StoreAssumption
  <1>4. Collecting = {} /\ RoomForAll
    <2>1. Collecting = {}
      BY <1>1 DEF Collecting
    <2>2. Cardinality(Collecting) = 0 /\ Len(db.rows) = 0
      BY <2>1, FS_EmptySet DEF EmptyDatabase
    <2> QED
      BY <2>1, <2>2, Bounds DEF RoomForAll
  <1>5. RetrievalsPermitted /\ OffersAreWhole /\ ResolvingStored /\ ReadsResolvable
    BY <1>1, <1>4 DEF RetrievalsPermitted, OffersAreWhole, ResolvingStored,
                      ReadsResolvable
  <1>6. WorkIsKnown
    BY StoreAssumption DEF WorkIsKnown, StoreAssumption
  <1>7. CommittedIsSound
    BY DEF CommittedIsSound, LineageIsLinear, PermissionPrecedesRetrieval,
           CommittedWhole, ResultsStand, EmptyDatabase
  <1> QED
    BY <1>2, <1>3, <1>4, <1>5, <1>6, <1>7 DEF SInv

\* Every step keeps the inductive invariant.
LEMMA NextSInv == SInv /\ [Next]_vars => SInv'
  <1> SUFFICES ASSUME SInv, [Next]_vars
               PROVE  SInv'
    OBVIOUS
  <1>1. ASSUME NEW p \in Procs, CallStep(p)
        PROVE  SInv'
    <2>1. CASE Serve(p) \/ Arrive(p) \/ FetchFails(p)
      BY <2>1, FetchKeeps
    <2>2. CASE Begin(p)
      BY <2>2, BeginKeeps
    <2>3. CASE BusyTimeout(p)
      <3>1. pc[p] \notin InTransaction
        BY <2>3 DEF BusyTimeout, InTransaction
      <3>2. read' \in [Procs -> SUBSET References]
            /\ \A q \in Procs : read'[q] \subseteq read[q]
        BY <2>3 DEF BusyTimeout, SInv, StoreTypes
      <3> QED
        BY <2>3, <3>1, <3>2, RestKeeps DEF BusyTimeout
    <2>4. CASE ReadVersion(p) \/ CreateTriggers(p)
      BY <2>4, OpeningKeeps
    <2>5. CASE ReadHead(p)
      BY <2>5, ReadHeadKeeps
    <2>6. CASE InsertBlob(p) \/ InsertRow(p)
      BY <2>6, StoreKeeps
    <2>7. CASE CheckInputs(p) \/ InsertResult(p) \/ InsertBinding(p)
      BY <2>7, ConcludeKeeps
    <2>8. CASE Commit(p)
      BY <2>8, CommitKeeps DEF Commit
    <2>9. CASE ResolveInput(p) \/ ResolveReturns(p)
      BY <2>9, ResolveKeeps
    <2> QED
      BY <1>1, <2>1, <2>2, <2>3, <2>4, <2>5, <2>6, <2>7, <2>8, <2>9
      DEF CallStep, TransactionStep
  <1> QED
    BY <1>1, CallStartsKeeps, FaultKeeps, AroundKeeps DEF Next

\* The inductive invariant holds of every reachable state.
THEOREM SInvHolds == Spec => []SInv
  BY InitSInv, NextSInv, PTL DEF Spec

\* The state of the store keeps its types, the chain of every origin is linear,
\* no record's identity is ever met twice, and every retrieval was permitted.
THEOREM ChainIsSoundHolds == Spec => []ChainIsSound
  <1>1. SInv => ChainIsSound
    BY DEF SInv, StoreTypes, CommittedIsSound, ChainIsSound, IdentitiesNeverCollide
  <1> QED
    BY <1>1, SInvHolds, PTL

\* What is concluded from snapshots is committed as a whole, never dangles and
\* is read in the bytes it was concluded from.
THEOREM ResultsAreSoundHolds == Spec => []ResultsAreSound
  <1>1. SInv => ResultsAreSound
    BY DEF SInv, CommittedIsSound, ReadsResolvable, Resolvable, ResultsAreSound,
           ResultsStayResolvable, ReadsAreOriginal
  <1> QED
    BY <1>1, SInvHolds, PTL

\* What a step does to the database: nothing, or one commit.
LEMMA OnlyCommitsChange ==
    ASSUME SInv, [Next]_vars, db' # db
    PROVE  \E p \in Procs : call[p] \in Calls /\ CommitWrites(call[p])
  <1>1. \E p \in Procs : lock = p /\ pc[p] = "commit" /\ db' = work[p]
    <2>1. ASSUME NEW p \in Procs, CallStarts(p)
          PROVE  FALSE
      BY <2>1 DEF CallStarts, Open, Collect, Offer, Resolve, Close
    <2>2. ASSUME NEW p \in Procs, Fault(p)
          PROVE  lock = p /\ pc[p] = "commit" /\ db' = work[p]
      BY <2>2 DEF Fault, StatementFails, Rollback, Crash, CrashAfterCommit
    <2>3. ASSUME NEW p \in Procs, TransactionStep(p)
          PROVE  lock = p /\ pc[p] = "commit" /\ db' = work[p]
      <3>1. CASE ReadVersion(p) \/ CreateTriggers(p)
        BY <3>1 DEF ReadVersion, CreateTriggers, Proceed
      <3>2. CASE ReadHead(p)
        BY <3>2 DEF ReadHead, Proceed, Rollback
      <3>3. CASE InsertBlob(p) \/ InsertRow(p)
        BY <3>3 DEF InsertBlob, InsertRow, Proceed, Rollback
      <3>4. CASE CheckInputs(p) \/ InsertResult(p) \/ InsertBinding(p)
        BY <3>4 DEF CheckInputs, InsertResult, InsertBinding, Proceed, Rollback
      <3>5. CASE Commit(p)
        BY <3>5 DEF Commit
      <3> QED
        BY <2>3, <3>1, <3>2, <3>3, <3>4, <3>5 DEF TransactionStep
    <2>4. ASSUME NEW p \in Procs, CallStep(p)
          PROVE  lock = p /\ pc[p] = "commit" /\ db' = work[p]
      BY <2>3, <2>4 DEF CallStep, Serve, Arrive, FetchFails, Begin, BusyTimeout,
         ResolveInput, ResolveReturns
    <2>5. CASE \/ \E o \in Origins, b \in Bytes : Publish(o, b)
               \/ \E b \in Bytes : Rot(b)
               \/ ClockMoves
               \/ UNCHANGED vars
      BY <2>5 DEF Publish, Rot, ClockMoves, vars
    <2> QED
      BY <2>1, <2>2, <2>4, <2>5 DEF Next
  <1> QED
    BY <1>1, CommitIsKnown DEF SInv, StoreTypes

\* A stored record never changes.
THEOREM RecordsNeverChangeHolds == Spec => RecordsNeverChange
  <1>1. SInv /\ [Next]_vars =>
          [\A i \in DOMAIN db.rows :
             i \in DOMAIN db'.rows /\ db'.rows[i] = db.rows[i]]_vars
    BY OnlyCommitsChange, CommitOnlyAdds DEF SInv
  <1> QED
    BY <1>1, SInvHolds, PTL DEF Spec, RecordsNeverChange

-----------------------------------------------------------------------------
(* The history that the store implements.                                  *)

\* RowsOf and HistoryOf, of any sequence of rows.
RowsIn(rows, o, n) == {i \in 1 .. n : rows[i].origin = o}

PlaceIn(rows, o, i) == Cardinality(RowsIn(rows, o, i))

HistoryIn(rows, o) ==
    LET mine == RowsIn(rows, o, Len(rows))
        nth(n) == CHOOSE i \in mine : PlaceIn(rows, o, i) = n
    IN  [n \in 1 .. Cardinality(mine) |-> rows[nth(n)].sha]

LEMMA HistoryIsIn ==
    ASSUME NEW o
    PROVE  /\ HistoryOf(o) = HistoryIn(db.rows, o)
           /\ HistoryOf(o)' = HistoryIn(db'.rows, o)
           /\ \A n : RowsOf(o, n) = RowsIn(db.rows, o, n)
           /\ \A n : RowsOf(o, n)' = RowsIn(db'.rows, o, n)
  BY DEF HistoryOf, HistoryIn, RowsOf, RowsIn, PlaceIn

\* The rows of an origin are counted one by one: each has a place of its own,
\* and every place up to their number is some row's.
LEMMA PlacesAreCounted ==
    ASSUME NEW rows \in Seq(Rows), NEW o
    PROVE  LET mine == RowsIn(rows, o, Len(rows))
           IN  /\ IsFiniteSet(mine) /\ Cardinality(mine) \in Nat
               /\ \A i \in mine : PlaceIn(rows, o, i) \in 1 .. Cardinality(mine)
               /\ \A i, j \in mine : PlaceIn(rows, o, i) = PlaceIn(rows, o, j) => i = j
               /\ \A n \in 1 .. Cardinality(mine) :
                    \E i \in mine : PlaceIn(rows, o, i) = n
  <1> DEFINE mine == RowsIn(rows, o, Len(rows))
             k == Cardinality(mine)
             place == [i \in mine |-> PlaceIn(rows, o, i)]
  <1>1. Len(rows) \in Nat
    OBVIOUS
  <1>2. \A m \in Nat : IsFiniteSet(RowsIn(rows, o, m))
    <2> SUFFICES ASSUME NEW m \in Nat
                 PROVE  IsFiniteSet(RowsIn(rows, o, m))
      OBVIOUS
    <2>1. IsFiniteSet(1 .. m)
      BY FS_Interval
    <2>2. RowsIn(rows, o, m) \in SUBSET (1 .. m)
      BY DEF RowsIn
    <2> QED
      BY <2>1, <2>2, FS_Subset
  <1>3. IsFiniteSet(mine) /\ k \in Nat
    BY <1>1, <1>2, FS_CardinalityType
  <1>4. \A i \in mine : i \in Nat /\ i <= Len(rows) /\ i \in RowsIn(rows, o, i)
    BY <1>1 DEF RowsIn
  <1>5. \A i \in mine : PlaceIn(rows, o, i) \in 1 .. k
    <2> SUFFICES ASSUME NEW i \in mine
                 PROVE  PlaceIn(rows, o, i) \in 1 .. k
      OBVIOUS
    <2>1. RowsIn(rows, o, i) \in SUBSET mine
      BY <1>1, <1>4 DEF RowsIn
    <2>2. PlaceIn(rows, o, i) <= k
      BY <1>3, <2>1, FS_Subset DEF PlaceIn
    <2>3. PlaceIn(rows, o, i) \in Nat
      BY <1>2, <1>4, FS_CardinalityType DEF PlaceIn
    <2>4. PlaceIn(rows, o, i) # 0
      <3>1. RowsIn(rows, o, i) # {}
        BY <1>4
      <3> QED
        BY <1>2, <1>4, <3>1, FS_EmptySet DEF PlaceIn
    <2> HIDE DEF k, mine
    <2> QED
      BY <1>3, <2>2, <2>3, <2>4
  <1>6. ASSUME NEW i \in mine, NEW j \in mine, i < j
        PROVE  PlaceIn(rows, o, i) # PlaceIn(rows, o, j)
    <2>1. RowsIn(rows, o, i) \in SUBSET RowsIn(rows, o, j)
      BY <1>4, <1>6 DEF RowsIn
    <2>2. j \notin RowsIn(rows, o, i) /\ j \in RowsIn(rows, o, j)
      BY <1>4, <1>6 DEF RowsIn
    <2>3. IsFiniteSet(RowsIn(rows, o, j))
      BY <1>2, <1>4
    <2> QED
      BY <2>1, <2>2, <2>3, FS_Subset DEF PlaceIn
  <1>7. \A i, j \in mine : PlaceIn(rows, o, i) = PlaceIn(rows, o, j) => i = j
    <2>1. \A i, j \in mine : i < j \/ j < i \/ i = j
      BY <1>4
    <2> QED
      BY <1>6, <2>1
  <1>8. place \in Injection(mine, 1 .. k)
    BY <1>5, <1>7 DEF Injection, IsInjective
  <1>9. place \in Surjection(mine, 1 .. k)
    <2> HIDE DEF mine, place
    <2>1. IsFiniteSet(1 .. k) /\ Cardinality(1 .. k) = k
      <3>1. 0 \in Int /\ 1 \in Int /\ k \in Int
        BY <1>3
      <3>2. /\ IsFiniteSet(1 .. k)
            /\ Cardinality(1 .. k) = IF 1 > k THEN 0 ELSE k - 1 + 1
        BY <3>1, FS_Interval
      <3> HIDE DEF k
      <3> QED
        BY <1>3, <3>2
    <2> QED
      BY <1>8, <2>1, FS_Injection
  <1>10. \A n \in 1 .. k : \E i \in mine : PlaceIn(rows, o, i) = n
    BY <1>9 DEF Surjection
  <1> QED
    BY <1>3, <1>5, <1>7, <1>10

\* The history of an origin holds, at the place of each of its rows, the bytes
\* of that row.
LEMMA HistoryMeans ==
    ASSUME NEW rows \in Seq(Rows), NEW o
    PROVE  LET mine == RowsIn(rows, o, Len(rows))
           IN  /\ HistoryIn(rows, o) \in Seq(Bytes)
               /\ Len(HistoryIn(rows, o)) = Cardinality(mine)
               /\ \A i \in mine :
                    HistoryIn(rows, o)[PlaceIn(rows, o, i)] = rows[i].sha
  <1> DEFINE mine == RowsIn(rows, o, Len(rows))
             k == Cardinality(mine)
             nth(n) == CHOOSE i \in mine : PlaceIn(rows, o, i) = n
  <1>1. /\ k \in Nat
        /\ \A i \in mine : PlaceIn(rows, o, i) \in 1 .. k
        /\ \A i, j \in mine : PlaceIn(rows, o, i) = PlaceIn(rows, o, j) => i = j
        /\ \A n \in 1 .. k : \E i \in mine : PlaceIn(rows, o, i) = n
    BY PlacesAreCounted
  <1>2. HistoryIn(rows, o) = [n \in 1 .. k |-> rows[nth(n)].sha]
    BY DEF HistoryIn
  <1>3. \A n \in 1 .. k : nth(n) \in mine /\ PlaceIn(rows, o, nth(n)) = n
    <2> HIDE DEF mine, k
    <2> QED
      BY <1>1
  <1>4. \A i \in mine : rows[i].sha \in Bytes
    <2>1. \A i \in 1 .. Len(rows) : rows[i] \in Rows
      OBVIOUS
    <2> QED
      BY <2>1 DEF RowsIn, Rows
  <1>5. \A i \in mine : nth(PlaceIn(rows, o, i)) = i
    <2> HIDE DEF mine, k, nth
    <2> QED
      BY <1>1, <1>3
  <1> HIDE DEF mine, k, nth
  <1>6. HistoryIn(rows, o) \in Seq(Bytes) /\ Len(HistoryIn(rows, o)) = k
    <2>1. \A n \in 1 .. k : rows[nth(n)].sha \in Bytes
      BY <1>3, <1>4
    <2>2. HistoryIn(rows, o) \in [1 .. k -> Bytes]
      BY <1>2, <2>1
    <2> QED
      BY <1>1, <2>2
  <1>7. \A i \in mine : HistoryIn(rows, o)[PlaceIn(rows, o, i)] = rows[i].sha
    BY <1>1, <1>2, <1>5
  <1> QED
    BY <1>6, <1>7 DEF mine, k

\* A stored row adds its bytes to the history of its origin, and nothing to any
\* other; no earlier row changes its place.
LEMMA HistoryGrows ==
    ASSUME NEW rows \in Seq(Rows), NEW r \in Rows, NEW o
    PROVE  LET more == Append(rows, r)
           IN  /\ HistoryIn(more, o) =
                    IF r.origin = o THEN Append(HistoryIn(rows, o), r.sha)
                    ELSE HistoryIn(rows, o)
               /\ \A i \in 1 .. Len(rows) : PlaceIn(more, o, i) = PlaceIn(rows, o, i)
  <1> DEFINE n == Len(rows)
             more == Append(rows, r)
             mine == RowsIn(rows, o, n)
             ours == RowsIn(more, o, n + 1)
             old == HistoryIn(rows, o)
             new == HistoryIn(more, o)
  <1>1. /\ n \in Nat /\ more \in Seq(Rows) /\ Len(more) = n + 1
        /\ \A i \in 1 .. n : more[i] = rows[i]
        /\ more[n + 1] = r
    OBVIOUS
  <1> HIDE DEF n, more
  <1>2. \A i \in 1 .. n : RowsIn(more, o, i) = RowsIn(rows, o, i)
    <2> SUFFICES ASSUME NEW i \in 1 .. n
                 PROVE  RowsIn(more, o, i) = RowsIn(rows, o, i)
      OBVIOUS
    <2>1. \A j \in 1 .. i : more[j] = rows[j]
      BY <1>1
    <2> QED
      BY <2>1 DEF RowsIn
  <1>3. \A i \in 1 .. n : PlaceIn(more, o, i) = PlaceIn(rows, o, i)
    BY <1>2 DEF PlaceIn
  <1>4. ours = IF r.origin = o THEN mine \cup {n + 1} ELSE mine
    BY <1>1 DEF RowsIn
  <1>5. mine \subseteq 1 .. n /\ n + 1 \notin mine
    BY <1>1 DEF RowsIn
  <1>6. /\ IsFiniteSet(mine) /\ Cardinality(mine) \in Nat
        /\ \A k \in 1 .. Cardinality(mine) : \E i \in mine : PlaceIn(rows, o, i) = k
    BY PlacesAreCounted DEF n
  <1>7. /\ old \in Seq(Bytes) /\ Len(old) = Cardinality(mine)
        /\ \A i \in mine : old[PlaceIn(rows, o, i)] = rows[i].sha
    BY HistoryMeans DEF n
  <1>8. /\ new \in Seq(Bytes) /\ Len(new) = Cardinality(ours)
        /\ \A i \in ours : new[PlaceIn(more, o, i)] = more[i].sha
    BY <1>1, HistoryMeans
  <1>9. \A k \in 1 .. Cardinality(mine) : new[k] = old[k]
    <2> SUFFICES ASSUME NEW k \in 1 .. Cardinality(mine)
                 PROVE  new[k] = old[k]
      OBVIOUS
    <2>1. PICK i \in mine : PlaceIn(rows, o, i) = k
      BY <1>6
    <2>2. i \in ours /\ i \in 1 .. n
      BY <1>4, <1>5
    <2>3. more[i].sha = rows[i].sha /\ PlaceIn(more, o, i) = k
      BY <1>1, <1>3, <2>1, <2>2
    <2> HIDE DEF mine, ours, new, old
    <2> QED
      BY <1>7, <1>8, <2>1, <2>2, <2>3
  <1>10. CASE r.origin = o
    <2>1. Cardinality(ours) = Cardinality(mine) + 1
      <3> HIDE DEF mine, ours
      <3> QED
        BY <1>4, <1>5, <1>6, <1>10, FS_AddElement
    <2>2. new[Cardinality(mine) + 1] = r.sha
      <3>1. PlaceIn(more, o, n + 1) = Cardinality(ours)
        BY DEF PlaceIn
      <3>2. n + 1 \in ours
        BY <1>4, <1>10
      <3> HIDE DEF mine, ours, new
      <3> QED
        BY <1>1, <1>8, <2>1, <3>1, <3>2
    <2>3. r.sha \in Bytes
      BY DEF Rows
    <2> HIDE DEF mine, ours, new, old
    <2>4. new = Append(old, r.sha)
      <3>1. Append(old, r.sha) \in Seq(Bytes)
            /\ Len(Append(old, r.sha)) = Cardinality(mine) + 1
        BY <1>7, <2>3
      <3>2. \A k \in 1 .. (Cardinality(mine) + 1) : new[k] = Append(old, r.sha)[k]
        <4> SUFFICES ASSUME NEW k \in 1 .. (Cardinality(mine) + 1)
                     PROVE  new[k] = Append(old, r.sha)[k]
          OBVIOUS
        <4>1. CASE k \in 1 .. Cardinality(mine)
          BY <1>7, <1>9, <4>1
        <4>2. CASE k = Cardinality(mine) + 1
          BY <1>7, <2>2, <4>2
        <4>3. Cardinality(mine) \in Nat
          BY <1>6
        <4>4. k \in 1 .. Cardinality(mine) \/ k = Cardinality(mine) + 1
          BY <4>3
        <4> QED
          BY <4>1, <4>2, <4>4
      <3>3. Len(new) = Len(Append(old, r.sha))
        BY <1>8, <2>1, <3>1
      <3> QED
        BY <1>8, <2>1, <3>1, <3>2, <3>3, SeqEqual
    <2> QED
      BY <1>3, <1>10, <2>4 DEF n, more, new, old
  <1>11. CASE r.origin # o
    <2>1. ours = mine
      BY <1>4, <1>11
    <2> HIDE DEF mine, ours, new, old
    <2>2. new = old
      BY <1>7, <1>8, <1>9, <2>1, SeqEqual
    <2> QED
      BY <1>3, <1>11, <2>2 DEF n, more, new, old
  <1> QED
    BY <1>10, <1>11

\* The reading of the database that History is given.
HistoryNow == [o \in Origins |-> HistoryOf(o)]
ConclusionsNow == {{PlaceOf(i) : i \in r} : r \in db.results}

\* A stored snapshot is retained by the history, and moves no conclusion.
LEMMA SnapshotIsRetained ==
    ASSUME SInv, NEW c \in SnapshotCalls, CommitSnapshot(c)
    PROVE  History!Retain(c.origin, c.sha)
  <1> DEFINE rows == db.rows
             r == RecordOf(c)
             b == c.sha
             oo == c.origin
  <1>1. /\ rows \in Seq(Rows) /\ Len(rows) \in Nat /\ DOMAIN rows = 1 .. Len(rows)
        /\ r \in Rows /\ r.origin = oo /\ r.sha = b
        /\ oo \in Origins
    BY CommittedTypes DEF SInv, RecordOf, Rows, SnapshotCalls
  <1>2. db'.rows = Append(rows, r) /\ db'.results = db.results
    BY DEF CommitSnapshot, SameResults
  <1> HIDE DEF rows, r
  <1>3. \A o : /\ HistoryOf(o) = HistoryIn(rows, o)
               /\ HistoryOf(o)' = HistoryIn(Append(rows, r), o)
    BY <1>2, HistoryIsIn DEF rows
  <1>4. HistoryNow' = [HistoryNow EXCEPT ![oo] = Append(@, b)]
    <2>1. \A o \in Origins :
            HistoryOf(o)' = IF o = oo THEN Append(HistoryOf(o), b) ELSE HistoryOf(o)
      BY <1>1, <1>3, HistoryGrows
    <2> QED
      BY <1>1, <2>1 DEF HistoryNow
  <1>5. Len(HistoryOf(oo)) > 0 => HistoryOf(oo)[Len(HistoryOf(oo))] # b
    <2> SUFFICES ASSUME Len(HistoryOf(oo)) > 0
                 PROVE  HistoryOf(oo)[Len(HistoryOf(oo))] # b
      OBVIOUS
    <2> DEFINE mine == RowsIn(rows, oo, Len(rows))
               last == Latest(db, oo)
    <2>1. /\ HistoryOf(oo) = HistoryIn(rows, oo)
          /\ Len(HistoryOf(oo)) = Cardinality(mine)
          /\ \A i \in mine : HistoryOf(oo)[PlaceIn(rows, oo, i)] = rows[i].sha
      BY <1>1, <1>3, HistoryMeans
    <2>2. mine # {}
      <3> HIDE DEF mine
      <3>1. Cardinality({}) = 0
        BY FS_EmptySet
      <3>2. mine = {} => Len(HistoryOf(oo)) = 0
        BY <2>1, <3>1
      <3>3. Len(HistoryOf(oo)) # 0
        OBVIOUS
      <3> QED
        BY <3>2, <3>3
    <2>3. \/ last = 0 /\ \A i \in 1 .. Len(rows) : rows[i].origin # oo
          \/ /\ last \in 1 .. Len(rows) /\ rows[last].origin = oo
             /\ \A i \in 1 .. Len(rows) : rows[i].origin = oo => i <= last
      BY <1>1, LatestIsLast DEF rows
    <2> HIDE DEF last
    <2>4. last # 0 /\ last \in mine /\ RowsIn(rows, oo, last) = mine
      BY <1>1, <2>2, <2>3 DEF RowsIn
    <2>5. PlaceIn(rows, oo, last) = Len(HistoryOf(oo))
      BY <2>1, <2>4 DEF PlaceIn
    <2>6. rows[last].sha # b
      BY <2>4 DEF CommitSnapshot, Continues, last, rows
    <2> HIDE DEF mine
    <2> QED
      BY <2>1, <2>4, <2>5, <2>6
  <1>6. ConclusionsNow' = ConclusionsNow
    <2>1. ASSUME NEW q \in db.results, NEW i \in q
          PROVE  PlaceOf(i)' = PlaceOf(i)
      <3>1. i.row \in 1 .. Len(rows)
        BY <1>1, <2>1 DEF SInv, CommittedIsSound, ResultsStand, Resolvable, rows
      <3>2. db'.rows[i.row] = db.rows[i.row]
        BY <1>1, <1>2, <3>1 DEF rows
      <3> DEFINE o == db.rows[i.row].origin
      <3>3. Cardinality(RowsOf(o, i.row)) = PlaceIn(rows, o, i.row)
        BY HistoryIsIn DEF PlaceIn, rows
      <3>4. PlaceIn(Append(rows, r), o, i.row) = PlaceIn(rows, o, i.row)
        BY <1>1, <3>1, HistoryGrows
      <3>5. PlaceOf(i) = [origin |-> o, nth |-> PlaceIn(rows, o, i.row),
                          bytes |-> i.sha]
        BY <3>3 DEF PlaceOf
      <3>6. PlaceOf(i)' = [origin |-> o,
                           nth |-> PlaceIn(Append(rows, r), o, i.row),
                           bytes |-> i.sha]
        BY <1>2, <3>2, HistoryIsIn DEF PlaceOf, RowsOf, RowsIn, PlaceIn
      <3> QED
        BY <3>4, <3>5, <3>6
    <2> DEFINE Before(q) == {PlaceOf(i) : i \in q}
               After(q) == {PlaceOf(i)' : i \in q}
    <2>2. \A q \in db.results : After(q) = Before(q)
      BY <2>1
    <2>3. ConclusionsNow = {Before(q) : q \in db.results}
      BY DEF ConclusionsNow
    <2>4. ConclusionsNow' = {After(q) : q \in db.results}
      BY <1>2 DEF ConclusionsNow
    <2> HIDE DEF Before, After
    <2> QED
      BY <2>2, <2>3, <2>4
  <1>7. HistoryNow[oo] = HistoryOf(oo)
    BY <1>1 DEF HistoryNow
  <1> QED
    BY <1>4, <1>5, <1>6, <1>7 DEF History!Retain, HistoryNow, ConclusionsNow

\* A stored result is a conclusion from places of the history.
LEMMA ResultIsConcluded ==
    ASSUME SInv, NEW c, c.result \in Results, CommitResult(c)
    PROVE  \E places \in SUBSET History!Places : History!Conclude(places)
  <1> DEFINE places == {PlaceOf(i) : i \in c.result}
  <1>1. /\ db.rows \in Seq(Rows) /\ Len(db.rows) \in Nat
        /\ DOMAIN db.rows = 1 .. Len(db.rows)
    BY CommittedTypes DEF SInv
  <1>2. db'.rows = db.rows /\ db'.results = db.results \cup {c.result}
    BY DEF CommitResult, SameRows
  <1>3. HistoryNow' = HistoryNow
    BY <1>2 DEF HistoryNow, HistoryOf, RowsOf
  <1>4. ConclusionsNow' = ConclusionsNow \cup {places}
    <2> DEFINE Before(q) == {PlaceOf(i) : i \in q}
               After(q) == {PlaceOf(i)' : i \in q}
    <2>1. \A i : PlaceOf(i)' = PlaceOf(i)
      BY <1>2 DEF PlaceOf, RowsOf
    <2>2. \A q : After(q) = Before(q)
      BY <2>1
    <2>3. ConclusionsNow = {Before(q) : q \in db.results}
      BY DEF ConclusionsNow
    <2>4. ConclusionsNow' = {After(q) : q \in db.results \cup {c.result}}
      BY <1>2 DEF ConclusionsNow
    <2>5. places = Before(c.result)
      OBVIOUS
    <2> HIDE DEF Before, After, places
    <2> QED
      BY <2>2, <2>3, <2>4, <2>5
  <1>5. places # {}
    BY DEF Results
  <1>6. places \subseteq History!Places
    <2> SUFFICES ASSUME NEW i \in c.result
                 PROVE  PlaceOf(i) \in History!Places
      OBVIOUS
    <2> DEFINE o == db.rows[i.row].origin
               n == PlaceIn(db.rows, o, i.row)
    <2>1. i.row \in 1 .. Len(db.rows) /\ db.rows[i.row].sha = i.sha
      BY <1>1 DEF CommitResult, Resolvable
    <2>2. db.rows[i.row] \in Rows
      BY <1>1, <2>1
    <2>3. o \in Origins
      BY <2>2 DEF Rows
    <2>4. i.row \in RowsIn(db.rows, o, Len(db.rows))
      BY <2>1 DEF RowsIn
    <2>5. /\ HistoryOf(o) \in Seq(Bytes)
          /\ n \in 1 .. Len(HistoryOf(o))
          /\ HistoryOf(o)[n] = i.sha
      <3>1. HistoryOf(o) = HistoryIn(db.rows, o)
        BY HistoryIsIn
      <3>2. /\ HistoryIn(db.rows, o) \in Seq(Bytes)
            /\ Len(HistoryIn(db.rows, o))
                 = Cardinality(RowsIn(db.rows, o, Len(db.rows)))
            /\ HistoryIn(db.rows, o)[n] = db.rows[i.row].sha
        BY <1>1, <2>4, HistoryMeans
      <3>3. n \in 1 .. Cardinality(RowsIn(db.rows, o, Len(db.rows)))
        BY <1>1, <2>4, PlacesAreCounted
      <3> QED
        BY <2>1, <3>1, <3>2, <3>3
    <2>6. PlaceOf(i) = [origin |-> o, nth |-> n, bytes |-> HistoryOf(o)[n]]
      BY <2>5, HistoryIsIn DEF PlaceOf, PlaceIn
    <2>7. HistoryNow[o] = HistoryOf(o) /\ n \in DOMAIN HistoryNow[o]
      BY <2>3, <2>5 DEF HistoryNow
    <2>8. PlaceOf(i) \in {History!Place(o, k) : k \in DOMAIN HistoryNow[o]}
      BY <2>6, <2>7 DEF History!Place, HistoryNow
    <2> QED
      BY <2>3, <2>8 DEF History!Places, HistoryNow
  <1> HIDE DEF places
  <1>7. PICK concluded : concluded = places
    OBVIOUS
  <1>8. History!Conclude(concluded)
    BY <1>3, <1>4, <1>5, <1>7 DEF History!Conclude, HistoryNow, ConclusionsNow
  <1> QED
    BY <1>6, <1>7, <1>8

\* The store implements the history it promises: a commit retains one origin's
\* bytes or concludes one result, and every other step is invisible.
THEOREM ImplementsEvidenceHistoryHolds == Spec => ImplementsEvidenceHistory
  <1>1. Init => History!HistoryInit
    <2> SUFFICES ASSUME Init
                 PROVE  History!HistoryInit
      OBVIOUS
    <2>1. db.rows = << >> /\ db.results = {}
      BY DEF Init, EmptyDatabase
    <2>2. \A o : HistoryOf(o) = << >>
      <3> SUFFICES ASSUME NEW o
                   PROVE  HistoryOf(o) = << >>
        OBVIOUS
      <3>1. << >> \in Seq(Rows) /\ RowsIn(<< >>, o, Len(<< >>)) = {}
        BY DEF RowsIn
      <3>2. Cardinality({}) = 0
        BY FS_EmptySet
      <3>3. /\ HistoryIn(<< >>, o) \in Seq(Bytes)
            /\ Len(HistoryIn(<< >>, o)) = 0
        BY <3>1, <3>2, HistoryMeans
      <3>4. HistoryIn(<< >>, o) = << >>
        BY <3>3, EmptySeq
      <3> QED
        BY <2>1, <3>4, HistoryIsIn
    <2> QED
      BY <2>1, <2>2 DEF History!HistoryInit
  <1>2. SInv /\ [Next]_vars => [History!HistoryNext]_<<HistoryNow, ConclusionsNow>>
    <2> SUFFICES ASSUME SInv, [Next]_vars
                 PROVE  \/ History!HistoryNext
                        \/ UNCHANGED <<HistoryNow, ConclusionsNow>>
      OBVIOUS
    <2>1. CASE db'.rows = db.rows /\ db'.results = db.results
      BY <2>1 DEF HistoryNow, ConclusionsNow, HistoryOf, PlaceOf, RowsOf
    <2>2. CASE db' # db
      <3>1. PICK p \in Procs : call[p] \in Calls /\ CommitWrites(call[p])
        BY <2>2, OnlyCommitsChange
      <3>2. CASE CommitOpens \/ CommitSame
        BY <2>1, <3>2 DEF CommitOpens, CommitSame, SameRows, SameResults
      <3>3. CASE call[p].op = "snapshot" /\ CommitSnapshot(call[p])
        <4>1. PICK c : c = call[p]
          OBVIOUS
        <4>2. c \in SnapshotCalls /\ c.origin \in Origins /\ c.sha \in Bytes
          BY <3>1, <3>3, <4>1, CallShapes DEF SnapshotCalls
        <4>3. CommitSnapshot(c)
          BY <3>3, <4>1
        <4>4. History!Retain(c.origin, c.sha)
          BY <4>2, <4>3, SnapshotIsRetained
        <4> QED
          BY <4>2, <4>4 DEF History!HistoryNext
      <3>4. CASE call[p].op = "result" /\ CommitResult(call[p])
        <4>1. PICK c : c = call[p]
          OBVIOUS
        <4>2. c.result \in Results
          BY <3>1, <3>4, <4>1, CallShapes DEF ResultCalls
        <4>3. CommitResult(c)
          BY <3>4, <4>1
        <4> QED
          BY <4>2, <4>3, ResultIsConcluded DEF History!HistoryNext
      <3> QED
        BY <3>1, <3>2, <3>3, <3>4 DEF CommitWrites
    <2>3. CASE db' = db
      BY <2>1, <2>3
    <2> QED
      BY <2>2, <2>3
  <1> QED
    BY <1>1, <1>2, SInvHolds, PTL
    DEF Spec, ImplementsEvidenceHistory, History!HistorySpec, History!historyVars,
        HistoryNow, ConclusionsNow

=============================================================================
