--------------------------- MODULE HeldOutSession ---------------------------
(*****************************************************************************)
(* The receipted evaluation sessions: a held-out run, and the two halves of  *)
(* a DEV gate run, persist every attempt before the next one; what is read   *)
(* back is refused unless the files are one session's, all of it             *)
(* (packages/evals/src/held-out-protocol.ts, dev-gate.ts,                    *)
(* mapping-model-runner.ts; the grid check of mapping-selection.ts).         *)
(*                                                                           *)
(* A session is numbered by its UUID and has a directory of its own.  A hash *)
(* stands for what it hashes.  Between a run and its reading a person may    *)
(* copy, rename, remove or edit files; nobody forges a receipt.              *)
(*****************************************************************************)
EXTENDS Integers, Sequences, FiniteSets, TLC, Functions

CONSTANTS
    Null,
    Candidates,     \* kind of run -> its declared models, in order
    Dialects,       \* kind of run -> the dialects of its sealed split, in order
    Repeats,        \* 1 .. 3 in the code
    Answers,        \* kind of run -> what a call can come to: outcome and output
    MaxRuns,        \* bound: commands started
    MaxTampers,     \* bound: files changed by hand
    MaxCommits      \* bound: commits of the checkout

Kinds == {"HELD_OUT", "DEV"}
Before == "adr-0069"
After == "adr-0075-r2"      \* DEV_GATE_AFTER, and the stack of protocol 3

\* Every declared grid asks something: no protocol declares an empty one.
ASSUME GridAssumption ==
    /\ Repeats \in Nat \ {0}
    /\ \A kind \in Kinds : /\ Len(Candidates[kind]) \in Nat \ {0}
                          /\ Len(Dialects[kind]) \in Nat \ {0}

VARIABLES
    checkout,       \* commit; clean: committed, sealed, ADR accepted, run date
                    \* attested, and only the declared models configured
    disk,           \* session -> its files: name -> content
    run,            \* the running command, or Null
    answered,       \* session -> what its calls returned, in order
    started,
    tampers

vars == <<checkout, disk, run, answered, started, tampers>>

Grid(kind) ==
    LET D == Dialects[kind]
        M == Candidates[kind]
    IN  [n \in 1 .. (Len(M) * Len(D) * Repeats) |->
            [model |-> M[((n - 1) \div (Len(D) * Repeats)) + 1],
             dialect |-> D[(((n - 1) \div Repeats) % Len(D)) + 1],
             repeat |-> ((n - 1) % Repeats) + 1]]

Sid == Cardinality(DOMAIN disk) + 1
SessionFile == <<"session">>
RecordsFile == <<"records">>
RecordFile(runId) == <<"record", runId>>
ReceiptFile(runId) == <<"receipt", runId>>
RunId == <<run.sid, run.at>>

-----------------------------------------------------------------------------
(* The commands.                                                           *)

\* Each session begins by making its directory.
Open(kind, stack, gateRun, commit) ==
    /\ disk' = [s \in DOMAIN disk \cup {Sid} |-> IF s = Sid THEN <<>> ELSE disk[s]]
    /\ answered' = [s \in DOMAIN answered \cup {Sid} |-> IF s = Sid THEN <<>> ELSE answered[s]]
    /\ run' = [kind |-> kind, sid |-> Sid, stack |-> stack, gateRun |-> gateRun,
               commit |-> commit, step |-> "session", at |-> 1, record |-> Null,
               records |-> <<>>]

StartHeldOut ==
    /\ run = Null /\ checkout.clean /\ started < MaxRuns
    /\ started' = started + 1
    /\ Open("HELD_OUT", After, Null, checkout.commit)
    /\ UNCHANGED <<checkout, tampers>>

\* A gate run is named before its first half; both halves carry the name.
StartGate ==
    /\ run = Null /\ checkout.clean /\ started < MaxRuns
    /\ started' = started + 1
    /\ Open("DEV", Before, Sid, checkout.commit)
    /\ UNCHANGED <<checkout, tampers>>

\* A directory with a file more, or another in its place.
Put(dir, name, value) ==
    [n \in DOMAIN dir \cup {name} |-> IF n = name THEN value ELSE dir[n]]

\* Flag wx: a name that exists stops the command.
Write(name, value, next) ==
    /\ IF name \in DOMAIN disk[run.sid]
       THEN disk' = disk /\ run' = Null
       ELSE disk' = [disk EXCEPT ![run.sid] = Put(@, name, value)] /\ run' = next
    /\ UNCHANGED <<checkout, answered, started, tampers>>

WriteSession ==
    /\ run # Null /\ run.step = "session"
    /\ Write(SessionFile,
             [sid |-> run.sid, kind |-> run.kind, stack |-> run.stack,
              gateRun |-> run.gateRun, commit |-> run.commit,
              models |-> Candidates[run.kind]],
             [run EXCEPT !.step = "call"])

\* runConfiguredMapping: the record is what the call came to.
Call ==
    /\ run # Null /\ run.step = "call"
    /\ \E a \in Answers[run.kind] :
          LET record == [answer |-> a, split |-> run.kind, stack |-> run.stack] @@
                        Grid(run.kind)[run.at]
          IN  /\ run' = [run EXCEPT !.step = "record", !.record = record]
              /\ answered' = [answered EXCEPT ![run.sid] = Append(@, record)]
    /\ UNCHANGED <<checkout, disk, started, tampers>>

WriteRecord ==
    /\ run # Null /\ run.step = "record"
    /\ Write(RecordFile(RunId), run.record, [run EXCEPT !.step = "receipt"])

WriteReceipt ==
    /\ run # Null /\ run.step = "receipt"
    /\ Write(ReceiptFile(RunId),
             [sid |-> run.sid, runId |-> RunId, record |-> run.record],
             [run EXCEPT !.step = IF run.at = Len(Grid(run.kind)) THEN "records" ELSE "call",
                         !.at = @ + 1, !.records = Append(@, run.record)])

\* The last file; a gate run goes on with its second half.
WriteRecords ==
    /\ run # Null /\ run.step = "records"
    /\ Write(RecordsFile, run.records,
             IF run.kind = "DEV" /\ run.stack = Before THEN [run EXCEPT !.step = "after"]
             ELSE Null)

OpenAfter ==
    /\ run # Null /\ run.step = "after"
    /\ Open("DEV", After, run.gateRun, run.commit)
    /\ UNCHANGED <<checkout, started, tampers>>

\* The process dies, or the adapter throws.
Crash ==
    /\ run # Null
    /\ run' = Null
    /\ UNCHANGED <<checkout, disk, answered, started, tampers>>

-----------------------------------------------------------------------------
(* Reading a session back.                                                 *)

Count(seq, x) == Cardinality({n \in DOMAIN seq : seq[n] = x})

\* The receipted runs of a directory, or Null where the reading throws.
readReceiptedRecords(dir, sid) ==
    LET receipts == {n \in DOMAIN dir : n[1] = "receipt"}
        runs == {n[2] : n \in receipts}
        expected == {SessionFile, RecordsFile} \cup receipts \cup {RecordFile(r) : r \in runs}
        N(record) == Cardinality({r \in runs : dir[RecordFile(r)] = record})
    IN  IF /\ DOMAIN dir \subseteq expected
           /\ \A r \in runs :
                 /\ dir[ReceiptFile(r)].runId = r
                 /\ dir[ReceiptFile(r)].sid = sid
                 /\ RecordFile(r) \in DOMAIN dir
                 /\ dir[RecordFile(r)] = dir[ReceiptFile(r)].record
           /\ RecordsFile \in DOMAIN dir
           /\ \A record \in {dir[RecordFile(r)] : r \in runs} \cup Range(dir[RecordsFile]) :
                 Count(dir[RecordsFile], record) = N(record)
        THEN dir[RecordsFile]
        ELSE Null

Session(dir) == IF SessionFile \in DOMAIN dir THEN dir[SessionFile] ELSE Null

\* Every record is of the declared stack and split, every cell there once.
FullGrid(records, session) ==
    /\ Len(records) = Len(Grid(session.kind))
    /\ \A r \in Range(records) : r.stack = session.stack /\ r.split = session.kind
    /\ \A cell \in Range(Grid(session.kind)) :
          \E r \in Range(records) :
             r.model = cell.model /\ r.dialect = cell.dialect /\ r.repeat = cell.repeat

LoadedWhole(dir) ==
    LET session == Session(dir)
    IN  /\ session # Null
        /\ LET records == readReceiptedRecords(dir, session.sid)
           IN  records # Null /\ FullGrid(records, session)

\* select-mapping-models: loadHeldOutSession, then selectMappingModels.
Selectable(dir) ==
    /\ LoadedWhole(dir)
    /\ Session(dir).kind = "HELD_OUT" /\ Session(dir).models = Candidates["HELD_OUT"]

\* Mutant of OneRun: the halves share their checkout and nothing else.
OneCheckout(before, after) == before.commit = after.commit

OneRun(before, after) == before.commit = after.commit /\ before.gateRun = after.gateRun

\* evaluateDevGate, of two sessions loaded whole.
Comparable(before, after) ==
    /\ Session(before).kind = "DEV" /\ Session(after).kind = "DEV"
    /\ Session(before).stack = Before /\ Session(after).stack # Before
    /\ OneRun(Session(before), Session(after))

-----------------------------------------------------------------------------
(* The world around the commands.                                          *)

Edited ==
    /\ checkout.clean
    /\ checkout' = [checkout EXCEPT !.clean = FALSE]
    /\ UNCHANGED <<disk, run, answered, started, tampers>>

Commit ==
    /\ ~checkout.clean /\ checkout.commit < MaxCommits
    /\ checkout' = [checkout EXCEPT !.commit = @ + 1, !.clean = TRUE]
    /\ UNCHANGED <<disk, run, answered, started, tampers>>

Tamper(dir, files) ==
    /\ run = Null /\ tampers < MaxTampers
    /\ files # disk[dir]
    /\ disk' = [disk EXCEPT ![dir] = files]
    /\ tampers' = tampers + 1
    /\ UNCHANGED <<checkout, run, answered, started>>

\* A file is copied from one session to another, over one of its kind perhaps.
Copy ==
    \E a, b \in DOMAIN disk :
        \E n \in DOMAIN disk[a] :
            \E m \in {n} \cup {k \in DOMAIN disk[b] : k[1] = n[1]} :
                Tamper(b, Put(disk[b], m, disk[a][n]))

Delete ==
    \E a \in DOMAIN disk :
        \E n \in DOMAIN disk[a] : Tamper(a, [k \in DOMAIN disk[a] \ {n} |-> disk[a][k]])

EditRecord ==
    \E a \in DOMAIN disk :
        \E n \in {k \in DOMAIN disk[a] : k[1] = "record"}, answer \in UNION Range(Answers) :
            Tamper(a, [disk[a] EXCEPT ![n].answer = answer])

Init ==
    /\ checkout = [commit |-> 1, clean |-> TRUE]
    /\ disk = <<>> /\ answered = <<>> /\ run = Null
    /\ started = 0 /\ tampers = 0

Next ==
    \/ StartHeldOut \/ StartGate \/ OpenAfter \/ WriteSession \/ Call \/ WriteRecord
    \/ WriteReceipt \/ WriteRecords \/ Crash
    \/ Edited \/ Commit \/ Copy \/ Delete \/ EditRecord

Spec == Init /\ [][Next]_vars

-----------------------------------------------------------------------------
(* Properties.                                                             *)

\* What is read are the answers of the session it names, each of them once, so
\* an interrupted run is never read: not as it is, not completed from another.
AllItsAnswers(dir) ==
    LET sid == Session(dir).sid
    IN  /\ Len(dir[RecordsFile]) = Len(answered[sid])
        /\ \A record \in Range(answered[sid]) :
              Count(dir[RecordsFile], record) = Count(answered[sid], record)

SelectionIsOfOneSession == \A s \in DOMAIN disk : Selectable(disk[s]) => AllItsAnswers(disk[s])

\* The gate compares the two halves of one command, run on one commit.
GateIsOfOneRun ==
    LET whole == {s \in DOMAIN disk : LoadedWhole(disk[s])}
    IN  \A b, a \in whole : Comparable(disk[b], disk[a]) =>
        /\ AllItsAnswers(disk[b]) /\ AllItsAnswers(disk[a])
        /\ Session(disk[a]).sid = Session(disk[b]).sid + 1

\* Files that are accepted as evidence are all the answers of one session, or
\* of the two halves of one gate run, whatever crashed or was moved between.
EvidenceIsOfOneRun == SelectionIsOfOneSession /\ GateIsOfOneRun
=============================================================================
