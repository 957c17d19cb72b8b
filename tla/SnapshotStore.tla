--------------------------- MODULE SnapshotStore ---------------------------
(***************************************************************************)
(* The evidence store of packages/service-store: collected source bytes,   *)
(* their provenance records and the results computed from them, kept in    *)
(* one SQLite database that several processes may open, each through one   *)
(* connection (snapshot-store.ts, collect-public-source.ts).               *)
(*                                                                         *)
(* A process may die at any step, a statement may fail, a fetched document *)
(* may be late, and bytes on the disk may rot.  A SHA-256 is the value it  *)
(* is the hash of; the identity of a record is the number of its row.      *)
(***************************************************************************)
EXTENDS Naturals, Sequences, FiniteSets

CONSTANTS
    Procs,       \* processes, each with one connection to the database
    Origins,     \* public documents, by canonical URL
    Bytes,       \* the contents a document can have
    ReviewedAt,  \* licence.checkedAt of each origin's source record
    MaxTime,     \* bound: the last instant of the clock
    MaxRows,     \* bound: no collection starts with this many snapshots stored
    MaxResults,  \* bound: no result is offered with this many stored
    Offered,     \* the results that trusted code computes, right or wrong
    Nobody       \* no process

Times == 0 .. MaxTime

\* Every process may have one collection under way when the bound is reached.
RowIds == 1 .. (MaxRows + Cardinality(Procs))

ASSUME StoreAssumption ==
    /\ IsFiniteSet(Procs)
    /\ Nobody \notin Procs
    /\ ReviewedAt \in [Origins -> Times]
    /\ MaxTime \in Nat
    /\ MaxRows \in Nat
    /\ MaxResults \in Nat
    /\ IsFiniteSet(Bytes) /\ Cardinality(Bytes) > 1

VARIABLES
    db,        \* what is committed
    lock,      \* the connection whose BEGIN IMMEDIATE holds the write lock
    work,      \* the database as each open transaction sees it
    pc,        \* where each process stands
    call,      \* the arguments and locals of its call
    rotten,    \* the hashes whose stored bytes have been damaged
    read,      \* what the last resolution of a process has returned so far
    now,       \* the clock
    site,      \* what each origin serves
    broken     \* history: the errors that legal use should never meet

vars == <<db, lock, work, pc, call, rotten, read, now, site, broken>>

Rows == [origin : Origins, sha : Bytes, previous : {0} \cup RowIds, at : Times]

References == [row : RowIds, sha : Bytes]

\* ServiceDerivedResultSchema: nonempty inputs, unique by their snapshot.
Results == {inputs \in SUBSET References :
              /\ inputs # {}
              /\ \A i, j \in inputs : i.row = j.row => i = j}

ASSUME OfferedAssumption == Offered \subseteq Results

Databases == [version : {0, 1}, tables : BOOLEAN, guarded : BOOLEAN,
              blobs : SUBSET Bytes, rows : Seq(Rows), results : SUBSET Results,
              bindings : SUBSET (Results \X RowIds)]

EmptyDatabase == [version |-> 0, tables |-> FALSE, guarded |-> FALSE,
                  blobs |-> {}, rows |-> << >>, results |-> {},
                  bindings |-> {}]

NoCall == [op |-> "none"]

Calls ==
    {NoCall} \cup [op : {"open"}]
      \cup [op : {"snapshot"}, origin : Origins, sha : Bytes, at : Times,
            previous : {0} \cup RowIds]
      \cup [op : {"result", "resolve"}, result : Results,
            left : SUBSET References]

InTransaction == {"version", "guard", "head", "blob", "row", "inputs",
                  "result", "bind", "commit"}

TypeOK ==
    /\ db \in Databases
    /\ lock \in Procs \cup {Nobody}
    /\ \A p \in Procs : work[p] \in Databases
    /\ pc \in [Procs -> {"closed", "idle", "fetching", "arriving", "waiting",
                         "resolving"} \cup InTransaction]
    /\ \A p \in Procs : call[p] \in Calls
    /\ rotten \subseteq Bytes
    /\ \A p \in Procs : read[p] \subseteq References
    /\ now \in Times
    /\ site \in [Origins -> Bytes]
    /\ broken \subseteq {"immutable", "dangling"}

Init ==
    /\ db = EmptyDatabase
    /\ lock = Nobody
    /\ work = [p \in Procs |-> EmptyDatabase]
    /\ pc = [p \in Procs |-> "closed"]
    /\ call = [p \in Procs |-> NoCall]
    /\ rotten = {}
    /\ read = [p \in Procs |-> {}]
    /\ now = 0
    /\ site \in [Origins -> Bytes]
    /\ broken = {}

-----------------------------------------------------------------------------
(* Reading records back. *)

\* The latest row of an origin, 0 when it has none: ORDER BY rowid DESC LIMIT 1.
Latest(d, o) ==
    LET mine == {i \in DOMAIN d.rows : d.rows[i].origin = o}
    IN  IF mine = {} THEN 0 ELSE CHOOSE i \in mine : \A j \in mine : j <= i

\* getSnapshot returns only a row whose bytes still have the recorded hash.
Stored(d, i) == i \in DOMAIN d.rows
Verified(d, i) == d.rows[i].sha \notin rotten

permissionWasReviewedBy(o, t) == ReviewedAt[o] <= t

-----------------------------------------------------------------------------
(* The transaction every write runs in. *)

\* A call outside a transaction, or its end: the process waits for the next.
Rest(p, state) ==
    /\ pc' = [pc EXCEPT ![p] = state]
    /\ call' = [call EXCEPT ![p] = NoCall]

\* Mutant of Rollback: what was written before the error is kept.
KeepPartialWork(p, kind) ==
    /\ lock = p
    /\ lock' = Nobody
    /\ db' = work[p]
    /\ work' = [work EXCEPT ![p] = EmptyDatabase]
    /\ broken' = broken \cup ({kind} \cap {"immutable"})
    /\ Rest(p, IF call[p].op = "open" THEN "closed" ELSE "idle")
    /\ UNCHANGED <<rotten, read, now, site>>

\* ROLLBACK, whatever the statement that threw: nothing of the work remains.
Rollback(p, kind) ==
    /\ lock = p
    /\ lock' = Nobody
    /\ work' = [work EXCEPT ![p] = EmptyDatabase]
    /\ broken' = broken \cup ({kind} \cap {"immutable"})
    /\ Rest(p, IF call[p].op = "open" THEN "closed" ELSE "idle")
    /\ UNCHANGED <<db, rotten, read, now, site>>

FirstStep(op) ==
    CASE op = "open" -> "version"
      [] op = "snapshot" -> "head"
      [] op = "result" -> "inputs"

Begin(p) ==
    /\ pc[p] = "waiting"
    /\ lock = Nobody
    /\ lock' = p
    /\ work' = [work EXCEPT ![p] = db]
    /\ pc' = [pc EXCEPT ![p] = FirstStep(call[p].op)]
    /\ UNCHANGED <<db, call, rotten, read, now, site, broken>>

\* Mutant of BusyTimeout: a writer waits for the lock as long as it takes.
WaitForever(p) == FALSE /\ UNCHANGED vars

\* busy_timeout: five seconds without the lock, and BEGIN itself throws.
BusyTimeout(p) ==
    /\ pc[p] = "waiting"
    /\ lock # Nobody
    /\ Rest(p, IF call[p].op = "open" THEN "closed" ELSE "idle")
    /\ UNCHANGED <<db, lock, work, rotten, read, now, site, broken>>

\* The statement succeeds: the transaction sees d and goes on at the next step.
Proceed(p, d, next) ==
    /\ lock = p
    /\ work' = [work EXCEPT ![p] = d]
    /\ pc' = [pc EXCEPT ![p] = next]
    /\ UNCHANGED <<db, lock, rotten, read, now, site, broken>>

Commit(p) ==
    /\ lock = p
    /\ pc[p] = "commit"
    /\ db' = work[p]
    /\ lock' = Nobody
    /\ work' = [work EXCEPT ![p] = EmptyDatabase]
    /\ Rest(p, "idle")
    /\ UNCHANGED <<rotten, read, now, site, broken>>

\* A full disk, a failed statement or a COMMIT that stays busy.
StatementFails(p) == pc[p] \in InTransaction /\ Rollback(p, "io")

\* The process dies after COMMIT is durable and before its caller is told.
CrashAfterCommit(p) ==
    /\ lock = p
    /\ pc[p] = "commit"
    /\ db' = work[p]
    /\ lock' = Nobody
    /\ work' = [work EXCEPT ![p] = EmptyDatabase]
    /\ Rest(p, "closed")
    /\ UNCHANGED <<rotten, read, now, site, broken>>

\* The process dies; SQLite discards its journal and the lock with it.
Crash(p) ==
    /\ pc[p] # "closed"
    /\ Rest(p, "closed")
    /\ work' = [work EXCEPT ![p] = EmptyDatabase]
    /\ lock' = IF lock = p THEN Nobody ELSE lock
    /\ read' = [read EXCEPT ![p] = {}]
    /\ UNCHANGED <<db, rotten, now, site, broken>>

-----------------------------------------------------------------------------
(* The constructor: the schema is created once. *)

Open(p) ==
    /\ pc[p] = "closed"
    /\ pc' = [pc EXCEPT ![p] = "waiting"]
    /\ call' = [call EXCEPT ![p] = [op |-> "open"]]
    /\ UNCHANGED <<db, lock, work, rotten, read, now, site, broken>>

ReadVersion(p) ==
    /\ pc[p] = "version"
    /\ \/ /\ work[p].version = 1
          /\ Proceed(p, work[p], "commit")
       \/ /\ work[p].version = 0
          /\ Proceed(p, [work[p] EXCEPT !.tables = TRUE, !.version = 1],
                     "guard")
    /\ UNCHANGED call

CreateTriggers(p) ==
    /\ pc[p] = "guard"
    /\ Proceed(p, [work[p] EXCEPT !.guarded = TRUE], "commit")
    /\ UNCHANGED call

-----------------------------------------------------------------------------
(* collectPublicSource and storeSnapshot. *)

SnapshotCall(o, b, t) ==
    [op |-> "snapshot", origin |-> o, sha |-> b, at |-> t, previous |-> 0]

\* The recorded permission review is checked before anything is requested.
Collect(p, o) ==
    /\ pc[p] = "idle"
    /\ Len(db.rows) < MaxRows
    /\ permissionWasReviewedBy(o, now)
    /\ pc' = [pc EXCEPT ![p] = "fetching"]
    /\ call' = [call EXCEPT ![p] = SnapshotCall(o, CHOOSE b \in Bytes : TRUE, 0)]
    /\ UNCHANGED <<db, lock, work, rotten, read, now, site, broken>>

\* The publisher answers; the answer then takes its time.
Serve(p) ==
    /\ pc[p] = "fetching"
    /\ pc' = [pc EXCEPT ![p] = "arriving"]
    /\ call' = [call EXCEPT ![p].sha = site[call[p].origin]]
    /\ UNCHANGED <<db, lock, work, rotten, read, now, site, broken>>

\* The body is complete: retrievedAt is read and the store is called, whose
\* schema compares it with the review again, for a clock may be set back.
Arrive(p) ==
    /\ pc[p] = "arriving"
    /\ \/ /\ permissionWasReviewedBy(call[p].origin, now)
          /\ pc' = [pc EXCEPT ![p] = "waiting"]
          /\ call' = [call EXCEPT ![p].at = now]
       \/ /\ ~permissionWasReviewedBy(call[p].origin, now)
          /\ Rest(p, "idle")
    /\ UNCHANGED <<db, lock, work, rotten, read, now, site, broken>>

\* The thirty-second timeout, a redirect, or a partial or failed response.
FetchFails(p) ==
    /\ pc[p] \in {"fetching", "arriving"}
    /\ Rest(p, "idle")
    /\ UNCHANGED <<db, lock, work, rotten, read, now, site, broken>>

\* Mutant of SameBytes: recollection is not recognised.
NeverTheSame(d, head, c) == FALSE

SameBytes(d, head, c) == d.rows[head].sha = c.sha

\* Mutant of Recollected: the row is brought up to date.
RetrievalRefreshed(d, head, c) == [d EXCEPT !.rows[head].at = c.at]

\* Recollection preserves the first retrieval and its metadata.
Recollected(d, head, c) == d

\* An unchanged document returns the reference of the row that has it.
ReadHead(p) ==
    LET c == call[p]
        head == Latest(work[p], c.origin)
    IN  /\ pc[p] = "head"
        /\ \/ /\ head # 0
              /\ ~Verified(work[p], head)
              /\ Rollback(p, "verification")
           \/ /\ head # 0
              /\ Verified(work[p], head)
              /\ SameBytes(work[p], head, c)
              /\ Proceed(p, Recollected(work[p], head, c), "commit")
              /\ UNCHANGED call
           \/ /\ head # 0 => /\ Verified(work[p], head)
                             /\ ~SameBytes(work[p], head, c)
              /\ Proceed(p, work[p], "blob")
              /\ call' = [call EXCEPT ![p].previous = head]

InsertBlob(p) ==
    LET sha == call[p].sha
    IN  /\ pc[p] = "blob"
        /\ \/ /\ sha \in work[p].blobs /\ sha \in rotten
              /\ Rollback(p, "verification")
           \/ /\ ~(sha \in work[p].blobs /\ sha \in rotten)
              /\ Proceed(p, [work[p] EXCEPT !.blobs = @ \cup {sha}], "row")
              /\ UNCHANGED call

\* Mutant of RecordOf: the record does not name its predecessor.
RecordWithoutPrevious(c) ==
    [origin |-> c.origin, sha |-> c.sha, previous |-> 0, at |-> c.at]

\* The record that the snapshot's identity is the hash of.
RecordOf(c) ==
    [origin |-> c.origin, sha |-> c.sha, previous |-> c.previous, at |-> c.at]

\* A record that is there already has this identity: the trigger refuses it.
InsertRow(p) ==
    LET record == RecordOf(call[p])
        rows == work[p].rows
    IN  /\ pc[p] = "row"
        /\ \/ /\ \E i \in DOMAIN rows : rows[i] = record
              /\ Rollback(p, "immutable")
           \/ /\ \A i \in DOMAIN rows : rows[i] # record
              /\ Proceed(p, [work[p] EXCEPT !.rows = Append(@, record)],
                         "commit")
              /\ UNCHANGED call

-----------------------------------------------------------------------------
(* storeDerivedResult. *)

\* Trusted code offers a result; its references may be wrong or unknown.
Offer(p, r) ==
    /\ pc[p] = "idle"
    /\ Cardinality(db.results) < MaxResults \/ r \in db.results
    /\ pc' = [pc EXCEPT ![p] = "waiting"]
    /\ call' = [call EXCEPT ![p] = [op |-> "result", result |-> r,
                                    left |-> r]]
    /\ UNCHANGED <<db, lock, work, rotten, read, now, site, broken>>

\* What resolving a reference in d throws, or "none".
ReferenceError(d, i) ==
    IF ~Stored(d, i.row) THEN "not-found"
    ELSE IF ~Verified(d, i.row) THEN "verification"
    ELSE IF d.rows[i.row].sha # i.sha THEN "mismatch"
    ELSE "none"

InputErrors(p) == {ReferenceError(work[p], i) : i \in call[p].result}

CheckInputs(p) ==
    /\ pc[p] = "inputs"
    /\ \/ \E kind \in InputErrors(p) \ {"none"} : Rollback(p, kind)
       \/ /\ InputErrors(p) = {"none"}
          /\ Proceed(p, work[p], "result")
          /\ UNCHANGED call

InsertResult(p) ==
    LET r == call[p].result
    IN  /\ pc[p] = "result"
        /\ \/ /\ r \in work[p].results
              /\ Proceed(p, work[p], "commit")
           \/ /\ r \notin work[p].results
              /\ Proceed(p, [work[p] EXCEPT !.results = @ \cup {r}], "bind")
        /\ UNCHANGED call

\* One row of result_inputs per reference, in a loop.
InsertBinding(p) ==
    /\ pc[p] = "bind"
    /\ \E i \in call[p].left :
         /\ call' = [call EXCEPT ![p].left = @ \ {i}]
         /\ Proceed(p, [work[p] EXCEPT !.bindings =
                          @ \cup {<<call[p].result, i.row>>}],
                    IF call[p].left = {i} THEN "commit" ELSE "bind")

-----------------------------------------------------------------------------
(* resolveDerivedResult: reads that no transaction holds together. *)

Resolve(p, r) ==
    /\ pc[p] = "idle"
    /\ r \in db.results
    /\ pc' = [pc EXCEPT ![p] = "resolving"]
    /\ call' = [call EXCEPT ![p] = [op |-> "resolve", result |-> r,
                                    left |-> r]]
    /\ UNCHANGED <<db, lock, work, rotten, read, now, site, broken>>

\* The bytes a row's blob holds now; damaged bytes are some other bytes.
BytesRead(i) ==
    LET sha == db.rows[i].sha
    IN  IF sha \in rotten THEN CHOOSE b \in Bytes : b # sha ELSE sha

ResolveInput(p) ==
    /\ pc[p] = "resolving"
    /\ call[p].left # {}
    /\ \E i \in call[p].left :
         LET kind == IF call[p].result \in db.results
                     THEN ReferenceError(db, i) ELSE "not-found"
         IN  \/ /\ kind # "none"
                /\ broken' = IF kind = "not-found" THEN broken \cup {"dangling"}
                             ELSE broken
                /\ read' = [read EXCEPT ![p] = {}]
                /\ Rest(p, "idle")
             \/ /\ kind = "none"
                /\ read' = [read EXCEPT ![p] =
                              @ \cup {[row |-> i.row,
                                       sha |-> BytesRead(i.row)]}]
                /\ call' = [call EXCEPT ![p].left = @ \ {i}]
                /\ UNCHANGED <<pc, broken>>
    /\ UNCHANGED <<db, lock, work, rotten, now, site>>

ResolveReturns(p) ==
    /\ pc[p] = "resolving"
    /\ call[p].left = {}
    /\ Rest(p, "idle")
    /\ read' = [read EXCEPT ![p] = {}]
    /\ UNCHANGED <<db, lock, work, rotten, now, site, broken>>

-----------------------------------------------------------------------------
(* Around the store. *)

Close(p) ==
    /\ pc[p] = "idle"
    /\ pc' = [pc EXCEPT ![p] = "closed"]
    /\ UNCHANGED <<db, lock, work, call, rotten, read, now, site, broken>>

Publish(o, b) ==
    /\ site[o] # b
    /\ site' = [site EXCEPT ![o] = b]
    /\ UNCHANGED <<db, lock, work, pc, call, rotten, read, now, broken>>

\* A wall clock goes on, and may be set back.
ClockMoves ==
    /\ \E t \in Times \ {now} : now' = t
    /\ UNCHANGED <<db, lock, work, pc, call, rotten, read, site, broken>>

\* The disk damages the stored bytes of a hash.
Rot(b) ==
    /\ b \in db.blobs \ rotten
    /\ rotten' = rotten \cup {b}
    /\ UNCHANGED <<db, lock, work, pc, call, read, now, site, broken>>

-----------------------------------------------------------------------------
TransactionStep(p) ==
    \/ ReadVersion(p) \/ CreateTriggers(p)
    \/ ReadHead(p) \/ InsertBlob(p) \/ InsertRow(p)
    \/ CheckInputs(p) \/ InsertResult(p) \/ InsertBinding(p)
    \/ Commit(p)

\* The steps of a call that is under way.
CallStep(p) ==
    \/ Serve(p) \/ Arrive(p) \/ FetchFails(p)
    \/ Begin(p) \/ BusyTimeout(p) \/ TransactionStep(p)
    \/ ResolveInput(p) \/ ResolveReturns(p)

CallStarts(p) ==
    \/ Open(p)
    \/ \E o \in Origins : Collect(p, o)
    \/ \E r \in Offered : Offer(p, r) \/ Resolve(p, r)
    \/ Close(p)

Fault(p) == StatementFails(p) \/ Crash(p) \/ CrashAfterCommit(p)

Next ==
    \/ \E p \in Procs : CallStep(p) \/ CallStarts(p) \/ Fault(p)
    \/ \E o \in Origins, b \in Bytes : Publish(o, b)
    \/ \E b \in Bytes : Rot(b)
    \/ ClockMoves

Spec == Init /\ [][Next]_vars

\* A call that has begun goes on; nothing else is promised to happen.
FairSpec == Spec /\ \A p \in Procs : WF_vars(CallStep(p))

-----------------------------------------------------------------------------
\* The snapshots of an origin form one chain in the order they were stored,
\* however collections, crashes and failed writes interleave: none is skipped
\* and no two continue the same one.
LineageIsLinear ==
    \A i \in DOMAIN db.rows :
        LET earlier == {j \in 1 .. (i - 1) : db.rows[j].origin = db.rows[i].origin}
            previous == db.rows[i].previous
        IN  IF earlier = {} THEN previous = 0
            ELSE previous \in earlier /\ \A j \in earlier : j <= previous

\* What belongs together is committed together: bytes with a snapshot of them,
\* a result with all its bindings, the tables with their triggers.
CommittedWhole ==
    /\ db.blobs = {db.rows[i].sha : i \in DOMAIN db.rows}
    /\ db.bindings = UNION {{<<r, i.row>> : i \in r} : r \in db.results}
    /\ db.version = 1 <=> db.tables /\ db.guarded

\* Legal use never meets the trigger that refuses a second record of one
\* identity, not even when an origin returns to its old bytes.
IdentitiesNeverCollide == "immutable" \notin broken

\* A result that was stored can be resolved, whoever wrote or died since: no
\* reader of it ever finds the result or an input missing.
ResultsStayResolvable == "dangling" \notin broken

\* A resolution never returns bytes other than those its snapshot recorded.
ReadsAreOriginal ==
    \A p \in Procs : \A i \in read[p] : db.rows[i.row].sha = i.sha

\* No snapshot was retrieved before its permission review.
PermissionPrecedesRetrieval ==
    \A i \in DOMAIN db.rows :
        ReviewedAt[db.rows[i].origin] <= db.rows[i].at

\* The chain of snapshots is sound: linear for every origin, each with an
\* identity of its own and permitted before it was retrieved.
ChainIsSound ==
    TypeOK /\ LineageIsLinear /\ IdentitiesNeverCollide /\ PermissionPrecedesRetrieval

\* What is concluded from snapshots is sound: written as a whole, resolvable
\* for good, and read in the bytes it was concluded from.
ResultsAreSound == CommittedWhole /\ ResultsStayResolvable /\ ReadsAreOriginal

\* A stored record never changes: recollection keeps the first retrieval.
RecordsNeverChange ==
    [][\A i \in DOMAIN db.rows :
         i \in DOMAIN db'.rows /\ db'.rows[i] = db.rows[i]]_vars

\* Every call ends, even while another process keeps the lock busy.
CallsEnd ==
    \A p \in Procs : pc[p] \notin {"idle", "closed"} ~> pc[p] \in {"idle", "closed"}

\* The store implements the history it promises.
RowsOf(o, n) == {i \in 1 .. n : db.rows[i].origin = o}

HistoryOf(o) ==
    LET mine == RowsOf(o, Len(db.rows))
        nth(n) == CHOOSE i \in mine : Cardinality(RowsOf(o, i)) = n
    IN  [n \in 1 .. Cardinality(mine) |-> db.rows[nth(n)].sha]

PlaceOf(i) ==
    LET o == db.rows[i.row].origin
    IN  [origin |-> o, nth |-> Cardinality(RowsOf(o, i.row)), bytes |-> i.sha]

History == INSTANCE EvidenceHistory
             WITH HistoryOrigins <- Origins, HistoryBytes <- Bytes,
                  history <- [o \in Origins |-> HistoryOf(o)],
                  conclusions <- {{PlaceOf(i) : i \in r} : r \in db.results}

ImplementsEvidenceHistory == History!HistorySpec
=============================================================================
