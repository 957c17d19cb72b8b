------------------------ MODULE HeldOutSessionProofs ------------------------
(***************************************************************************)
(* That files accepted as evidence are of one run, for any number of       *)
(* models, dialects and repeats, of commands, crashes and files changed by *)
(* hand.                                                                   *)
(*                                                                         *)
(* The argument: people may move and edit files, but a receipt found       *)
(* anywhere is still the one its session wrote for a call it made, and a   *)
(* session file still says what its session was.  A directory that is      *)
(* accepted has as many receipts of its session as the grid has cells,     *)
(* each of another call, and a session makes no more calls than that.      *)
(***************************************************************************)
EXTENDS HeldOutSession, TLAPS, FiniteSetTheorems, FunctionTheorems, SequenceTheorems

-----------------------------------------------------------------------------
(* The inductive invariant.                                                *)

IsList(s) == s \in Seq(Range(s))

\* Sessions are numbered from one, each with its directory and its answers.
SessionsAreNumbered ==
    /\ Sid \in Nat \ {0}
    /\ DOMAIN disk = 1 .. (Sid - 1)
    /\ DOMAIN answered = 1 .. (Sid - 1)

AnswersAreLists == \A s \in DOMAIN answered : IsList(answered[s])

\* The half of its gate run that a session is follows from its number.
HalfOf(session) ==
    session.kind = "DEV" =>
        session.gateRun = IF session.stack = Before THEN session.sid ELSE session.sid - 1

RunFields ==
    {"kind", "sid", "stack", "gateRun", "commit", "step", "at", "record", "records"}

\* The command that runs is of the last session, and its step tells how many
\* of its calls were answered.
InStep(r) ==
    /\ DOMAIN r = RunFields
    /\ r.kind \in Kinds
    /\ r.sid \in DOMAIN disk /\ r.sid = Sid - 1
    /\ r.at \in Nat \ {0}
    /\ IsList(r.records)
    /\ HalfOf(r)
    /\ r.step \in {"session", "call"} =>
          /\ Len(answered[r.sid]) = r.at - 1
          /\ r.at <= Len(Grid(r.kind))
    /\ r.step \in {"record", "receipt"} =>
          /\ Len(answered[r.sid]) = r.at
          /\ r.at <= Len(Grid(r.kind))
          /\ r.record = answered[r.sid][r.at]
    /\ r.step = "after" => r.kind = "DEV" /\ r.stack = Before

RunInStep == run # Null => InStep(run)

\* A session file, wherever it lies, is of a session that was begun, and of no
\* more answers than its grid has cells.
GenuineSession(c) ==
    /\ c.sid \in DOMAIN answered
    /\ c.kind \in Kinds
    /\ Len(answered[c.sid]) <= Len(Grid(c.kind))
    /\ HalfOf(c)
    /\ run # Null /\ c.sid = run.sid => c.kind = run.kind

\* A receipt, wherever it lies, is of an answer its session had.
GenuineReceipt(c) ==
    /\ c.sid \in DOMAIN answered
    /\ \E at \in 1 .. Len(answered[c.sid]) :
          c.runId = <<c.sid, at>> /\ c.record = answered[c.sid][at]

FileIsGenuine(n, c) ==
    /\ n[1] = "session" => GenuineSession(c)
    /\ n[1] = "receipt" => n = ReceiptFile(n[2]) /\ GenuineReceipt(c)
    /\ n[1] = "records" => IsList(c)

FilesAreGenuine ==
    \A s \in DOMAIN disk : \A n \in DOMAIN disk[s] : FileIsGenuine(n, disk[s][n])

HInv ==
    SessionsAreNumbered /\ AnswersAreLists /\ RunInStep /\ FilesAreGenuine

-----------------------------------------------------------------------------
(* Lists, grids and counting.                                              *)

\* What Append does to a list.
LEMMA ListAppend ==
    ASSUME NEW s, IsList(s), NEW x
    PROVE  /\ Len(s) \in Nat
           /\ IsList(Append(s, x))
           /\ Len(Append(s, x)) = Len(s) + 1
           /\ \A n \in 1 .. Len(s) : Append(s, x)[n] = s[n]
           /\ Append(s, x)[Len(s) + 1] = x
<1> DEFINE S == Range(s) \cup {x}
<1>1. s \in Seq(S)
  BY SeqMonotonic DEF IsList
<1>2. Append(s, x) \in Seq(S)
  BY <1>1, AppendProperties
<1>3. IsList(Append(s, x))
  BY <1>2, SeqOfRange DEF IsList
<1>4. Len(s) \in Nat
  BY <1>1, LenProperties
<1> HIDE DEF S
<1>5. x \in S
  BY DEF S
<1> QED BY <1>1, <1>3, <1>4, <1>5, AppendProperties

\* A list is a function from its positions.
LEMMA ListIsFunction ==
    ASSUME NEW s, IsList(s)
    PROVE  Len(s) \in Nat /\ DOMAIN s = 1 .. Len(s) /\ s \in [1 .. Len(s) -> Range(s)]
BY LenProperties DEF IsList

LEMMA EmptyList == IsList(<<>>) /\ Len(<<>>) = 0
BY EmptySeq DEF IsList

\* A grid has at least one cell.
LEMMA GridHasCells ==
    ASSUME NEW kind \in Kinds
    PROVE  Len(Grid(kind)) \in Nat \ {0}
<1> DEFINE m == Len(Candidates[kind])
           d == Len(Dialects[kind])
           size == m * d * Repeats
<1>1. m \in Nat \ {0} /\ d \in Nat \ {0} /\ Repeats \in Nat \ {0}
  BY GridAssumption
<1>2. \A i, j \in Nat \ {0} : i * j \in Nat \ {0}
  OBVIOUS
<1>3. size \in Nat \ {0}
  BY <1>1, <1>2
<1>4. Grid(kind) \in [1 .. size -> Range(Grid(kind))]
  BY DEF Grid, Range
<1> HIDE DEF size
<1>5. Grid(kind) \in Seq(Range(Grid(kind)))
  BY <1>3, <1>4, SeqDef
<1>6. DOMAIN Grid(kind) = 1 .. Len(Grid(kind)) /\ Len(Grid(kind)) \in Nat
  BY <1>5, LenProperties
<1>7. 1 .. size = 1 .. Len(Grid(kind))
  BY <1>4, <1>6
<1>8. \A i \in Nat : 1 .. size = 1 .. i => i \in Nat \ {0}
  <2> TAKE i \in Nat
  <2>1. 1 \in 1 .. size
    BY <1>3
  <2> HAVE 1 .. size = 1 .. i
  <2>2. 1 \in 1 .. i
    BY <2>1
  <2> QED BY <2>2
<1> QED BY <1>6, <1>7, <1>8

PlacesOf(f, v) == {x \in DOMAIN f : f[x] = v}

\* Two families that hold each value equally often are of one size.
LEMMA EqualTallies ==
    ASSUME NEW f, NEW g, IsFiniteSet(DOMAIN f), IsFiniteSet(DOMAIN g),
           \A v \in Range(f) \cup Range(g) :
              Cardinality(PlacesOf(f, v)) = Cardinality(PlacesOf(g, v))
    PROVE  Cardinality(DOMAIN f) = Cardinality(DOMAIN g)
<1> DEFINE S == DOMAIN f
           T == DOMAIN g
           V == Range(f) \cup Range(g)
           Left(v) == PlacesOf(f, v)
           Right(v) == PlacesOf(g, v)
           pairing == [v \in V |-> CHOOSE h : h \in Bijection(Left(v), Right(v))]
           F == [x \in S |-> pairing[f[x]][x]]
<1>1. ASSUME NEW v \in V
      PROVE  pairing[v] \in Bijection(Left(v), Right(v))
  <2>1. Cardinality(Left(v)) = Cardinality(Right(v))
    OBVIOUS
  <2>2. IsFiniteSet(Left(v)) /\ IsFiniteSet(Right(v))
    BY FS_Subset DEF PlacesOf
  <2> HIDE DEF Left, Right, V
  <2>3. Bijection(Left(v), Right(v)) # {}
    BY <2>1, <2>2, FS_SameCardinalityBij, Fun_ExistsBij
  <2> QED BY <2>3
<1>2. ASSUME NEW v \in V
      PROVE  /\ pairing[v] \in [Left(v) -> Right(v)]
             /\ \A a, b \in Left(v) : pairing[v][a] = pairing[v][b] => a = b
             /\ \A t \in Right(v) : \E s \in Left(v) : pairing[v][s] = t
  <2>1. pairing[v] \in Bijection(Left(v), Right(v))
    BY <1>1
  <2> HIDE DEF pairing, Left, Right, V
  <2> QED BY <2>1, Fun_BijectionProperties
<1> HIDE DEF pairing
<1>3. ASSUME NEW x \in S
      PROVE  /\ f[x] \in V /\ x \in Left(f[x])
             /\ F[x] = pairing[f[x]][x]
             /\ F[x] \in T /\ g[F[x]] = f[x]
  <2>1. f[x] \in V /\ x \in Left(f[x])
    BY DEF Range, PlacesOf
  <2>2. F[x] = pairing[f[x]][x]
    OBVIOUS
  <2>3. pairing[f[x]][x] \in Right(f[x])
    <3> HIDE DEF Left, Right, V
    <3> QED BY <1>2, <2>1
  <2> QED BY <2>1, <2>2, <2>3 DEF PlacesOf
<1>4. F \in [S -> T]
  BY <1>3
<1>5. \A a, b \in S : F[a] = F[b] => a = b
  <2> TAKE a, b \in S
  <2> HAVE F[a] = F[b]
  <2>1. f[a] = f[b] /\ f[a] \in V
    BY <1>3
  <2>2. pairing[f[a]][a] = pairing[f[a]][b] /\ a \in Left(f[a]) /\ b \in Left(f[a])
    BY <1>3, <2>1
  <2> HIDE DEF Left, V
  <2> QED BY <1>2, <2>1, <2>2
<1>6. \A t \in T : \E s \in S : F[s] = t
  <2> TAKE t \in T
  <2>1. g[t] \in V /\ t \in Right(g[t])
    BY DEF Range, PlacesOf
  <2>2. PICK s \in Left(g[t]) : pairing[g[t]][s] = t
    <3> HIDE DEF Left, Right, V
    <3> QED BY <1>2, <2>1
  <2> QED BY <2>2 DEF PlacesOf
<1> HIDE DEF F
<1>7. F \in Bijection(S, T)
  BY <1>4, <1>5, <1>6, Fun_IsBij
<1> QED BY <1>7, FS_Bijection, Fun_ExistsBij

-----------------------------------------------------------------------------
(* What is loaded whole.                                                   *)

\* A directory that is read back whole holds all the answers of the session it
\* names, each of them once.
LEMMA WholeIsAll ==
    ASSUME HInv, NEW s \in DOMAIN disk, LoadedWhole(disk[s])
    PROVE  AllItsAnswers(disk[s]) /\ GenuineSession(Session(disk[s]))
<1> DEFINE dir == disk[s]
           session == Session(dir)
           sid == session.sid
           own == answered[sid]
           list == dir[RecordsFile]
           receipts == {n \in DOMAIN dir : n[1] = "receipt"}
           runs == {n[2] : n \in receipts}
           recordOf == [r \in runs |-> dir[RecordFile(r)]]
           calls == {<<sid, n>> : n \in 1 .. Len(own)}
<1>1. SessionFile \in DOMAIN dir /\ session = dir[SessionFile]
  BY DEF LoadedWhole, Session
<1>2. GenuineSession(session)
  BY <1>1 DEF HInv, FilesAreGenuine, FileIsGenuine, SessionFile
<1>3. sid \in DOMAIN answered /\ session.kind \in Kinds /\ IsList(own)
  BY <1>2 DEF GenuineSession, HInv, AnswersAreLists
<1>4. readReceiptedRecords(dir, sid) # Null /\ FullGrid(readReceiptedRecords(dir, sid), session)
  BY DEF LoadedWhole
<1>5. /\ readReceiptedRecords(dir, sid) = list
      /\ \A r \in runs : /\ dir[ReceiptFile(r)].runId = r
                         /\ dir[ReceiptFile(r)].sid = sid
                         /\ dir[RecordFile(r)] = dir[ReceiptFile(r)].record
      /\ RecordsFile \in DOMAIN dir
      /\ \A v \in {dir[RecordFile(r)] : r \in runs} \cup Range(list) :
            Count(list, v) = Cardinality({r \in runs : dir[RecordFile(r)] = v})
  BY <1>4 DEF readReceiptedRecords
<1>6. IsList(list) /\ Len(list) = Len(Grid(session.kind))
  BY <1>4, <1>5 DEF HInv, FilesAreGenuine, FileIsGenuine, RecordsFile, FullGrid
<1>7. ASSUME NEW r \in runs
      PROVE  \E n \in 1 .. Len(own) : r = <<sid, n>> /\ dir[RecordFile(r)] = own[n]
  <2>1. PICK n \in receipts : r = n[2]
    OBVIOUS
  <2>2. n = ReceiptFile(r) /\ GenuineReceipt(dir[ReceiptFile(r)])
    BY <2>1 DEF HInv, FilesAreGenuine, FileIsGenuine
  <2> QED BY <1>5, <2>2 DEF GenuineReceipt
<1>8. IsFiniteSet(calls) /\ Cardinality(calls) = Len(own)
  <2>1. Len(own) \in Nat
    BY <1>3, ListIsFunction
  <2>2. IsFiniteSet(1 .. Len(own)) /\ Cardinality(1 .. Len(own)) = Len(own)
    BY <2>1, FS_Interval
  <2>3. [n \in 1 .. Len(own) |-> <<sid, n>>] \in Bijection(1 .. Len(own), calls)
    BY Fun_IsBij
  <2> HIDE DEF calls
  <2> QED BY <2>2, <2>3, FS_Bijection, Fun_ExistsBij
<1>9. runs \subseteq calls
  BY <1>7
<1>10. IsFiniteSet(runs) /\ Cardinality(runs) <= Len(own)
  BY <1>8, <1>9, FS_Subset
<1>11. Cardinality(runs) = Len(list)
  <2>1. DOMAIN list = 1 .. Len(list) /\ Len(list) \in Nat
    BY <1>6, ListIsFunction
  <2>2. IsFiniteSet(DOMAIN list) /\ Cardinality(DOMAIN list) = Len(list)
    BY <2>1, FS_Interval
  <2>3. Range(recordOf) = {dir[RecordFile(r)] : r \in runs} /\ DOMAIN recordOf = runs
    BY DEF Range
  <2>4. \A v : PlacesOf(recordOf, v) = {r \in runs : dir[RecordFile(r)] = v}
    BY DEF PlacesOf
  <2>5. \A v : Count(list, v) = Cardinality(PlacesOf(list, v))
    BY DEF Count, PlacesOf
  <2>6. \A v \in Range(list) \cup Range(recordOf) :
          Cardinality(PlacesOf(list, v)) = Cardinality(PlacesOf(recordOf, v))
    BY <1>5, <2>3, <2>4, <2>5
  <2> HIDE DEF runs, recordOf, list
  <2> QED BY <1>10, <2>2, <2>3, <2>6, EqualTallies
<1>12. Len(own) <= Len(list)
  BY <1>2, <1>6 DEF GenuineSession
<1>13. runs = calls /\ Len(list) = Len(own)
  <2>1. Len(own) \in Nat /\ Len(list) \in Nat
    BY <1>3, <1>6, ListIsFunction
  <2>2. Len(list) = Len(own)
    BY <1>10, <1>11, <1>12, <2>1
  <2> HIDE DEF runs, calls, list, own
  <2> QED BY <1>8, <1>9, <1>11, <2>2, FS_Subset
<1>14. \A n \in 1 .. Len(own) : dir[RecordFile(<<sid, n>>)] = own[n]
  <2> TAKE n \in 1 .. Len(own)
  <2>1. <<sid, n>> \in runs
    BY <1>13
  <2>2. PICK m \in 1 .. Len(own) :
          <<sid, n>> = <<sid, m>> /\ dir[RecordFile(<<sid, n>>)] = own[m]
    BY <1>7, <2>1
  <2> QED BY <2>2
<1>15. ASSUME NEW v \in Range(own)
       PROVE  Count(list, v) = Count(own, v)
  <2> DEFINE mine == {r \in runs : dir[RecordFile(r)] = v}
             places == {n \in DOMAIN own : own[n] = v}
  <2>1. DOMAIN own = 1 .. Len(own) /\ Len(own) \in Nat
    BY <1>3, ListIsFunction
  <2>2. PICK n \in 1 .. Len(own) : v = own[n]
    BY <2>1 DEF Range
  <2>3. <<sid, n>> \in runs /\ dir[RecordFile(<<sid, n>>)] = v
    BY <1>13, <1>14, <2>2
  <2>4. Count(list, v) = Cardinality(mine)
    BY <1>5, <2>3
  <2>5. [m \in places |-> <<sid, m>>] \in Bijection(places, mine)
    <3>1. \A m \in places : <<sid, m>> \in mine
      BY <1>13, <1>14, <2>1
    <3>2. \A r \in mine : \E m \in places : <<sid, m>> = r
      BY <1>13, <1>14, <2>1
    <3> HIDE DEF mine, places
    <3> QED BY <3>1, <3>2, Fun_IsBij
  <2>6. IsFiniteSet(places)
    <3>1. places \in SUBSET (1 .. Len(own)) /\ IsFiniteSet(1 .. Len(own))
      BY <2>1, FS_Interval
    <3> HIDE DEF places
    <3> QED BY <3>1, FS_Subset
  <2> HIDE DEF mine, places
  <2>7. Cardinality(mine) = Cardinality(places)
    BY <2>5, <2>6, FS_Bijection, Fun_ExistsBij
  <2> QED BY <2>4, <2>7 DEF Count, places
<1> QED BY <1>2, <1>13, <1>15 DEF AllItsAnswers

\* The two halves of one gate run name it, and their numbers follow each other.
LEMMA GenuineIsOfOneRun == HInv => EvidenceIsOfOneRun
<1> SUFFICES ASSUME HInv PROVE EvidenceIsOfOneRun
  OBVIOUS
<1>1. SelectionIsOfOneSession
  BY WholeIsAll DEF SelectionIsOfOneSession, Selectable
<1>2. ASSUME NEW b \in DOMAIN disk, NEW a \in DOMAIN disk,
             LoadedWhole(disk[b]), LoadedWhole(disk[a]), Comparable(disk[b], disk[a])
      PROVE  Session(disk[a]).sid = Session(disk[b]).sid + 1
  <2> DEFINE before == Session(disk[b])
             after == Session(disk[a])
  <2>1. GenuineSession(before) /\ GenuineSession(after)
    BY <1>2, WholeIsAll
  <2>2. before.sid \in Int /\ after.sid \in Int
    BY <2>1 DEF GenuineSession, HInv, SessionsAreNumbered
  <2>3. before.gateRun = before.sid /\ after.gateRun = after.sid - 1
    BY <1>2, <2>1 DEF GenuineSession, HalfOf, Comparable
  <2>4. before.gateRun = after.gateRun
    BY <1>2 DEF Comparable, OneRun
  <2> QED BY <2>2, <2>3, <2>4
<1>3. GateIsOfOneRun
  BY <1>2, WholeIsAll DEF GateIsOfOneRun
<1> QED BY <1>1, <1>3 DEF EvidenceIsOfOneRun

-----------------------------------------------------------------------------
(* Every step keeps the invariant.                                         *)

\* A file is known to be genuine by what was answered and by what runs.
LEMMA GenuineStays ==
    ASSUME NEW n, NEW c, FileIsGenuine(n, c), UNCHANGED answered,
           run' # Null => /\ run # Null
                          /\ run'.sid = run.sid /\ run'.kind = run.kind
    PROVE  FileIsGenuine(n, c)'
BY DEF FileIsGenuine, GenuineSession, GenuineReceipt, HalfOf

LEMMA HInvStarts == Init => HInv
<1> SUFFICES ASSUME Init PROVE HInv
  OBVIOUS
<1>1. DOMAIN disk = {} /\ DOMAIN answered = {}
  BY DEF Init
<1>2. Cardinality({}) = 0
  BY FS_EmptySet
<1>3. Sid = 1
  BY <1>1, <1>2 DEF Sid
<1>4. 1 .. (Sid - 1) = {}
  BY <1>3
<1> QED
  BY <1>1, <1>3, <1>4
  DEF Init, HInv, SessionsAreNumbered, AnswersAreLists, RunInStep, FilesAreGenuine

\* A new session takes the next number; no file can speak of it yet.
LEMMA OpenKeeps ==
    ASSUME HInv, NEW kind \in Kinds, NEW stack, NEW gateRun, NEW commit,
           Open(kind, stack, gateRun, commit),
           kind = "DEV" => gateRun = IF stack = Before THEN Sid ELSE Sid - 1
    PROVE  HInv'
<1>1. Sid \in Nat \ {0} /\ DOMAIN disk = 1 .. (Sid - 1) /\ DOMAIN answered = 1 .. (Sid - 1)
  BY DEF HInv, SessionsAreNumbered
<1>2. 1 .. Sid = (1 .. (Sid - 1)) \cup {Sid}
  BY <1>1
<1>3. DOMAIN disk' = 1 .. Sid /\ DOMAIN answered' = 1 .. Sid
  BY <1>1, <1>2 DEF Open
<1>4. Sid' = Sid + 1
  <2>1. Cardinality(1 .. Sid) = Sid
    BY <1>1, FS_Interval
  <2> QED BY <1>3, <2>1 DEF Sid
<1>5. SessionsAreNumbered'
  BY <1>1, <1>3, <1>4 DEF SessionsAreNumbered
<1>6. \A s \in DOMAIN answered : answered'[s] = answered[s] /\ s # Sid
  BY <1>1 DEF Open
<1>7. answered'[Sid] = <<>> /\ disk'[Sid] = <<>>
  BY DEF Open
<1>8. AnswersAreLists'
  BY <1>1, <1>2, <1>3, <1>6, <1>7, EmptyList DEF AnswersAreLists, HInv, IsList
<1>9. RunInStep'
  <2>1. /\ run'.kind = kind /\ run'.sid = Sid /\ run'.stack = stack
        /\ run'.gateRun = gateRun /\ run'.step = "session" /\ run'.at = 1
        /\ run'.records = <<>> /\ DOMAIN run' = RunFields
    BY DEF Open, RunFields
  <2>2. HalfOf(run)'
    BY <2>1 DEF HalfOf
  <2>3. Len(answered'[run'.sid]) = run'.at - 1 /\ run'.at <= Len(Grid(kind))
    BY <1>7, <2>1, EmptyList, GridHasCells
  <2>4. run'.sid \in DOMAIN disk' /\ run'.sid = Sid' - 1
    BY <1>1, <1>3, <1>4, <2>1
  <2>5. IsList(run'.records)
    BY <2>1, EmptyList
  <2> QED BY <2>1, <2>2, <2>3, <2>4, <2>5 DEF RunInStep, InStep, IsList
<1>10. FilesAreGenuine'
  <2> SUFFICES ASSUME NEW s \in DOMAIN disk', NEW n \in DOMAIN disk'[s]
               PROVE  FileIsGenuine(n, disk[s][n])'
    BY DEF FilesAreGenuine
  <2>1. s \in DOMAIN disk /\ disk'[s] = disk[s]
    BY <1>7 DEF Open
  <2> DEFINE c == disk[s][n]
  <2>2. FileIsGenuine(n, c)
    BY <2>1 DEF HInv, FilesAreGenuine
  <2>3. PICK d : d = c
    OBVIOUS
  <2>4. run'.sid = Sid
    BY DEF Open
  <2>5. n[1] = "session" => GenuineSession(d)'
    <3> HAVE n[1] = "session"
    <3>1. GenuineSession(d)
      BY <2>2, <2>3 DEF FileIsGenuine
    <3>2. d.sid \in DOMAIN answered' /\ d.sid # Sid /\ answered'[d.sid] = answered[d.sid]
      BY <1>1, <1>2, <1>3, <1>6, <3>1 DEF GenuineSession
    <3> QED BY <2>4, <3>1, <3>2 DEF GenuineSession, HalfOf
  <2>6. n[1] = "receipt" => n = ReceiptFile(n[2]) /\ GenuineReceipt(d)'
    BY <1>1, <1>2, <1>3, <1>6, <2>2, <2>3 DEF FileIsGenuine, GenuineReceipt
  <2>7. n[1] = "records" => IsList(d)
    BY <2>2, <2>3 DEF FileIsGenuine
  <2>8. FileIsGenuine(n, d)'
    BY <2>5, <2>6, <2>7 DEF FileIsGenuine, IsList
  <2> QED BY <2>1, <2>3, <2>8 DEF FileIsGenuine, GenuineSession, GenuineReceipt, HalfOf, IsList
<1> QED BY <1>5, <1>8, <1>9, <1>10 DEF HInv

\* A write adds a genuine file to the running session's directory, or stops.
LEMMA WriteKeeps ==
    ASSUME HInv, run # Null, NEW name, NEW value, NEW next, Write(name, value, next),
           FileIsGenuine(name, value),
           next # Null => InStep(next) /\ next.kind = run.kind
    PROVE  HInv'
<1>0. next # Null => next.sid = run.sid
  BY DEF HInv, RunInStep, InStep
<1>1. UNCHANGED answered /\ (run' = Null \/ run' = next)
  BY DEF Write
<1>2. DOMAIN disk' = DOMAIN disk
  BY DEF Write
<1>3. SessionsAreNumbered' /\ AnswersAreLists'
  BY <1>1, <1>2 DEF HInv, SessionsAreNumbered, AnswersAreLists, Sid, IsList
<1>4. ASSUME NEW s \in DOMAIN disk', NEW n \in DOMAIN disk'[s]
      PROVE  FileIsGenuine(n, disk'[s][n])
  <2>1. CASE disk'[s] = disk[s]
    BY <1>2, <2>1 DEF HInv, FilesAreGenuine
  <2>2. CASE disk'[s] # disk[s]
    <3>1. s = run.sid /\ disk'[s] = Put(disk[s], name, value)
      BY <1>2, <2>2 DEF Write
    <3>2. /\ n = name => disk'[s][n] = value
          /\ n # name => n \in DOMAIN disk[s] /\ disk'[s][n] = disk[s][n]
      BY <3>1 DEF Put
    <3> QED BY <1>2, <3>2 DEF HInv, FilesAreGenuine
  <2> QED BY <2>1, <2>2
<1>5. FilesAreGenuine'
  <2> SUFFICES ASSUME NEW s \in DOMAIN disk', NEW n \in DOMAIN disk'[s]
               PROVE  FileIsGenuine(n, disk[s][n])'
    BY DEF FilesAreGenuine
  <2>1. PICK d : d = disk'[s][n]
    OBVIOUS
  <2>2. FileIsGenuine(n, d)
    BY <1>4, <2>1
  <2>3. FileIsGenuine(n, d)'
    BY <1>0, <1>1, <2>2, GenuineStays
  <2> QED BY <2>1, <2>3 DEF FileIsGenuine, GenuineSession, GenuineReceipt, HalfOf, IsList
<1>6. RunInStep'
  <2> SUFFICES ASSUME run' # Null PROVE InStep(run)'
    BY DEF RunInStep
  <2>1. run' = next /\ InStep(next)
    BY <1>1
  <2>2. Sid' = Sid
    BY <1>2 DEF Sid
  <2> QED BY <1>1, <1>2, <2>1, <2>2 DEF InStep, HalfOf, IsList
<1> QED BY <1>3, <1>5, <1>6 DEF HInv

LEMMA StartKeeps == HInv /\ (StartHeldOut \/ StartGate) => HInv'
<1> SUFFICES ASSUME HInv PROVE StartHeldOut \/ StartGate => HInv'
  OBVIOUS
<1>1. CASE StartHeldOut
  <2>1. Open("HELD_OUT", After, Null, checkout.commit)
    BY <1>1 DEF StartHeldOut
  <2> QED BY <2>1, OpenKeeps DEF Kinds
<1>2. CASE StartGate
  <2>1. Open("DEV", Before, Sid, checkout.commit)
    BY <1>2 DEF StartGate
  <2> QED BY <2>1, OpenKeeps DEF Kinds
<1> QED BY <1>1, <1>2

\* The second half of a gate run is numbered after the first.
LEMMA OpenAfterKeeps == HInv /\ OpenAfter => HInv'
<1> SUFFICES ASSUME HInv, OpenAfter PROVE HInv'
  OBVIOUS
<1>1. Open("DEV", After, run.gateRun, run.commit) /\ run # Null /\ run.step = "after"
  BY DEF OpenAfter
<1>2. run.kind = "DEV" /\ run.stack = Before /\ HalfOf(run) /\ run.sid = Sid - 1
  BY <1>1 DEF HInv, RunInStep, InStep
<1>3. run.gateRun = Sid - 1
  BY <1>2 DEF HalfOf
<1>4. After # Before
  BY DEF After, Before
<1> QED BY <1>1, <1>3, <1>4, OpenKeeps DEF Kinds

LEMMA WriteSessionKeeps == HInv /\ WriteSession => HInv'
<1> SUFFICES ASSUME HInv, WriteSession PROVE HInv'
  OBVIOUS
<1> DEFINE value == [sid |-> run.sid, kind |-> run.kind, stack |-> run.stack,
                     gateRun |-> run.gateRun, commit |-> run.commit,
                     models |-> Candidates[run.kind]]
           next == [run EXCEPT !.step = "call"]
<1>1. run # Null /\ run.step = "session" /\ Write(SessionFile, value, next)
  BY DEF WriteSession
<1>2. InStep(run)
  BY <1>1 DEF HInv, RunInStep
<1>3. FileIsGenuine(SessionFile, value)
  <2>1. value.sid \in DOMAIN answered /\ value.kind \in Kinds /\ value.kind = run.kind
    BY <1>2 DEF InStep, HInv, SessionsAreNumbered
  <2>2. Len(answered[value.sid]) <= Len(Grid(value.kind))
    BY <1>1, <1>2, GridHasCells DEF InStep
  <2>3. HalfOf(value)
    BY <1>2 DEF InStep, HalfOf
  <2>4. SessionFile[1] = "session"
    BY DEF SessionFile
  <2> HIDE DEF value
  <2> QED BY <2>1, <2>2, <2>3, <2>4 DEF FileIsGenuine, GenuineSession
<1>4. InStep(next) /\ next.kind = run.kind
  BY <1>1, <1>2 DEF InStep, RunFields, HalfOf
<1> HIDE DEF value, next
<1> QED BY <1>1, <1>3, <1>4, WriteKeeps

\* Nothing is asked of a record: to be read it has to equal its receipt's.
LEMMA WriteRecordKeeps == HInv /\ WriteRecord => HInv'
<1> SUFFICES ASSUME HInv, WriteRecord PROVE HInv'
  OBVIOUS
<1> DEFINE next == [run EXCEPT !.step = "receipt"]
<1>1. /\ run # Null /\ run.step = "record"
      /\ Write(RecordFile(RunId), run.record, next)
  BY DEF WriteRecord
<1>2. InStep(run)
  BY <1>1 DEF HInv, RunInStep
<1>3. FileIsGenuine(RecordFile(RunId), run.record)
  BY DEF FileIsGenuine, RecordFile
<1>4. InStep(next) /\ next.kind = run.kind
  BY <1>1, <1>2 DEF InStep, RunFields, HalfOf
<1> HIDE DEF next
<1> QED BY <1>1, <1>3, <1>4, WriteKeeps

LEMMA WriteReceiptKeeps == HInv /\ WriteReceipt => HInv'
<1> SUFFICES ASSUME HInv, WriteReceipt PROVE HInv'
  OBVIOUS
<1> DEFINE value == [sid |-> run.sid, runId |-> RunId, record |-> run.record]
           step == IF run.at = Len(Grid(run.kind)) THEN "records" ELSE "call"
           next == [run EXCEPT !.step = step, !.at = run.at + 1,
                               !.records = Append(run.records, run.record)]
<1>1. /\ run # Null /\ run.step = "receipt"
      /\ Write(ReceiptFile(RunId), value, next)
  BY DEF WriteReceipt
<1>2. InStep(run)
  BY <1>1 DEF HInv, RunInStep
<1>3. FileIsGenuine(ReceiptFile(RunId), value)
  <2>1. value.sid \in DOMAIN answered
    BY <1>2 DEF InStep, HInv, SessionsAreNumbered
  <2>2. /\ run.at \in 1 .. Len(answered[value.sid])
        /\ value.runId = <<value.sid, run.at>>
        /\ value.record = answered[value.sid][run.at]
    BY <1>1, <1>2 DEF InStep, RunId
  <2>3. GenuineReceipt(value)
    BY <2>1, <2>2 DEF GenuineReceipt
  <2> HIDE DEF value
  <2> QED BY <2>3 DEF FileIsGenuine, ReceiptFile
<1>4. InStep(next) /\ next.kind = run.kind
  <2>1. IsList(Append(run.records, run.record))
    BY <1>2, ListAppend DEF InStep
  <2>2. Len(Grid(run.kind)) \in Nat \ {0} /\ run.at \in Nat \ {0}
        /\ run.at <= Len(Grid(run.kind)) /\ Len(answered[run.sid]) = run.at
    BY <1>1, <1>2, GridHasCells DEF InStep
  <2>3. /\ DOMAIN next = RunFields /\ next.kind = run.kind /\ next.sid = run.sid
        /\ next.stack = run.stack /\ next.gateRun = run.gateRun
        /\ next.step = step /\ next.at = run.at + 1
        /\ next.records = Append(run.records, run.record)
    BY <1>2 DEF InStep, RunFields
  <2>4. step = "call" => run.at + 1 <= Len(Grid(run.kind))
    BY <2>2
  <2>5. step \in {"call", "records"}
    OBVIOUS
  <2> HIDE DEF next, step
  <2> QED BY <1>2, <2>1, <2>2, <2>3, <2>4, <2>5 DEF InStep, HalfOf
<1> HIDE DEF value, next, step
<1> QED BY <1>1, <1>3, <1>4, WriteKeeps

LEMMA WriteRecordsKeeps == HInv /\ WriteRecords => HInv'
<1> SUFFICES ASSUME HInv, WriteRecords PROVE HInv'
  OBVIOUS
<1> DEFINE half == run.kind = "DEV" /\ run.stack = Before
           after == [run EXCEPT !.step = "after"]
           next == IF half THEN after ELSE Null
<1>1. /\ run # Null /\ run.step = "records"
      /\ Write(RecordsFile, run.records, next)
  BY DEF WriteRecords
<1>2. InStep(run)
  BY <1>1 DEF HInv, RunInStep
<1>3. FileIsGenuine(RecordsFile, run.records)
  BY <1>2 DEF InStep, FileIsGenuine, RecordsFile
<1>4. next # Null => InStep(next) /\ next.kind = run.kind
  <2>1. half => InStep(after) /\ after.kind = run.kind
    BY <1>2 DEF InStep, RunFields, HalfOf
  <2> QED BY <2>1
<1> HIDE DEF next
<1> QED BY <1>1, <1>3, <1>4, WriteKeeps

\* A call adds an answer to the running session's, and changes none.
LEMMA CallKeeps == HInv /\ Call => HInv'
<1> SUFFICES ASSUME HInv, Call PROVE HInv'
  OBVIOUS
<1>1. run # Null /\ run.step = "call" /\ UNCHANGED disk
  BY DEF Call
<1>2. InStep(run)
  BY <1>1 DEF HInv, RunInStep
<1>3. PICK record :
        /\ run' = [run EXCEPT !.step = "record", !.record = record]
        /\ answered' = [answered EXCEPT ![run.sid] = Append(@, record)]
  BY DEF Call
<1>4. run.sid \in DOMAIN answered
  BY <1>2 DEF InStep, HInv, SessionsAreNumbered
<1> DEFINE own == answered[run.sid]
<1>5. IsList(own)
  BY <1>4 DEF HInv, AnswersAreLists
<1>6. /\ DOMAIN answered' = DOMAIN answered
      /\ answered'[run.sid] = Append(own, record)
      /\ \A s \in DOMAIN answered : s # run.sid => answered'[s] = answered[s]
  BY <1>3, <1>4
<1>7. /\ Len(own) \in Nat /\ IsList(Append(own, record))
      /\ Len(Append(own, record)) = Len(own) + 1
      /\ \A n \in 1 .. Len(own) : Append(own, record)[n] = own[n]
      /\ Append(own, record)[Len(own) + 1] = record
  BY <1>5, ListAppend
<1>8. SessionsAreNumbered'
  BY <1>1, <1>6 DEF HInv, SessionsAreNumbered, Sid
<1>9. AnswersAreLists'
  BY <1>6, <1>7 DEF HInv, AnswersAreLists, IsList
<1>10. Len(own) = run.at - 1 /\ run.at \in Nat \ {0} /\ run.at <= Len(Grid(run.kind))
  BY <1>1, <1>2 DEF InStep
<1>11. RunInStep'
  <2>1. /\ DOMAIN run' = RunFields /\ run'.kind = run.kind /\ run'.sid = run.sid
        /\ run'.stack = run.stack /\ run'.gateRun = run.gateRun
        /\ run'.step = "record" /\ run'.at = run.at /\ run'.records = run.records
        /\ run'.record = record
    BY <1>2, <1>3 DEF InStep, RunFields
  <2>2. Len(answered'[run'.sid]) = run'.at /\ answered'[run'.sid][run'.at] = record
    BY <1>6, <1>7, <1>10, <2>1
  <2>3. Sid' = Sid
    BY <1>1 DEF Sid
  <2>4. HalfOf(run)'
    BY <1>2, <2>1 DEF InStep, HalfOf
  <2>5. InStep(run)'
    BY <1>1, <1>2, <1>10, <2>1, <2>2, <2>3, <2>4 DEF InStep, IsList
  <2> QED BY <2>5 DEF RunInStep
<1>12. FilesAreGenuine'
  <2> SUFFICES ASSUME NEW s \in DOMAIN disk', NEW n \in DOMAIN disk'[s]
               PROVE  FileIsGenuine(n, disk[s][n])'
    BY DEF FilesAreGenuine
  <2>1. PICK d : d = disk[s][n]
    OBVIOUS
  <2>2. FileIsGenuine(n, d)
    BY <1>1, <2>1 DEF HInv, FilesAreGenuine
  <2>3. ASSUME n[1] = "session" PROVE GenuineSession(d)'
    <3>1. GenuineSession(d)
      BY <2>2, <2>3 DEF FileIsGenuine
    <3>2. run'.sid = run.sid /\ run'.kind = run.kind
      BY <1>2, <1>3 DEF InStep, RunFields
    <3>3. Len(answered'[d.sid]) <= Len(Grid(d.kind))
      <4>1. CASE d.sid = run.sid
        <5>1. d.kind = run.kind
          BY <1>1, <3>1, <4>1 DEF GenuineSession
        <5>2. Len(answered'[d.sid]) = run.at
          BY <1>6, <1>7, <1>10, <4>1
        <5> QED BY <1>10, <5>1, <5>2
      <4>2. CASE d.sid # run.sid
        BY <1>6, <3>1, <4>2 DEF GenuineSession
      <4> QED BY <4>1, <4>2
    <3> QED BY <1>1, <1>6, <3>1, <3>2, <3>3 DEF GenuineSession, HalfOf
  <2>4. ASSUME n[1] = "receipt" PROVE n = ReceiptFile(n[2]) /\ GenuineReceipt(d)'
    <3>1. n = ReceiptFile(n[2]) /\ GenuineReceipt(d)
      BY <2>2, <2>4 DEF FileIsGenuine
    <3>2. PICK at \in 1 .. Len(answered[d.sid]) :
            d.runId = <<d.sid, at>> /\ d.record = answered[d.sid][at]
      BY <3>1 DEF GenuineReceipt
    <3>3. at \in 1 .. Len(answered'[d.sid]) /\ answered'[d.sid][at] = answered[d.sid][at]
      <4>1. CASE d.sid = run.sid
        BY <1>6, <1>7, <3>2, <4>1
      <4>2. CASE d.sid # run.sid
        BY <1>6, <3>1, <3>2, <4>2 DEF GenuineReceipt
      <4> QED BY <4>1, <4>2
    <3> QED BY <1>6, <3>1, <3>2, <3>3 DEF GenuineReceipt
  <2>5. n[1] = "records" => IsList(d)
    BY <2>2 DEF FileIsGenuine
  <2>6. FileIsGenuine(n, d)'
    BY <2>3, <2>4, <2>5 DEF FileIsGenuine, IsList
  <2> QED
    BY <1>1, <2>1, <2>6
    DEF FileIsGenuine, GenuineSession, GenuineReceipt, HalfOf, IsList
<1> QED BY <1>8, <1>9, <1>11, <1>12 DEF HInv

\* Where files stay as they are, and the command goes on or ends, all stays.
LEMMA StillKeeps == HInv /\ UNCHANGED <<disk, answered>> /\ run' \in {run, Null} => HInv'
<1> SUFFICES ASSUME HInv, UNCHANGED <<disk, answered>>, run' \in {run, Null} PROVE HInv'
  OBVIOUS
<1>1. SessionsAreNumbered' /\ AnswersAreLists'
  BY DEF HInv, SessionsAreNumbered, AnswersAreLists, Sid, IsList
<1>2. RunInStep'
  <2>1. Sid' = Sid
    BY DEF Sid
  <2> QED BY <2>1 DEF HInv, RunInStep, InStep, HalfOf, IsList
<1>3. FilesAreGenuine'
  <2> SUFFICES ASSUME NEW s \in DOMAIN disk', NEW n \in DOMAIN disk'[s]
               PROVE  FileIsGenuine(n, disk[s][n])'
    BY DEF FilesAreGenuine
  <2>1. FileIsGenuine(n, disk[s][n])
    BY DEF HInv, FilesAreGenuine
  <2> QED BY <2>1 DEF FileIsGenuine, GenuineSession, GenuineReceipt, HalfOf, IsList
<1> QED BY <1>1, <1>2, <1>3 DEF HInv

\* A directory may be given any files that are genuine wherever they are from.
LEMMA TamperKeeps ==
    ASSUME HInv, NEW dir \in DOMAIN disk, NEW files, Tamper(dir, files),
           \A n \in DOMAIN files : FileIsGenuine(n, files[n])
    PROVE  HInv'
<1>1. run = Null /\ run' = Null /\ UNCHANGED answered
  BY DEF Tamper
<1>2. DOMAIN disk' = DOMAIN disk
  BY DEF Tamper
<1>3. SessionsAreNumbered' /\ AnswersAreLists' /\ RunInStep'
  BY <1>1, <1>2
  DEF HInv, SessionsAreNumbered, AnswersAreLists, RunInStep, Sid, IsList
<1>4. FilesAreGenuine'
  <2> SUFFICES ASSUME NEW s \in DOMAIN disk', NEW n \in DOMAIN disk'[s]
               PROVE  FileIsGenuine(n, disk[s][n])'
    BY DEF FilesAreGenuine
  <2>1. PICK d : d = disk'[s][n]
    OBVIOUS
  <2>2. FileIsGenuine(n, d)
    BY <1>2, <2>1 DEF Tamper, HInv, FilesAreGenuine
  <2>3. FileIsGenuine(n, d)'
    BY <1>1, <2>2, GenuineStays
  <2> QED BY <2>1, <2>3 DEF FileIsGenuine, GenuineSession, GenuineReceipt, HalfOf, IsList
<1> QED BY <1>3, <1>4 DEF HInv

\* A copy keeps its kind of name, so that it is as genuine as the original,
\* unless it is a receipt under another's name, which is refused; an edited
\* record claims nothing.
LEMMA TamperingKeeps == HInv /\ (Copy \/ Delete \/ EditRecord) => HInv'
<1> SUFFICES ASSUME HInv PROVE Copy \/ Delete \/ EditRecord => HInv'
  OBVIOUS
<1>1. CASE Copy
  <2>0. PICK a \in DOMAIN disk, b \in DOMAIN disk : \E n \in DOMAIN disk[a] :
          \E m \in {n} \cup {k \in DOMAIN disk[b] : k[1] = n[1]} :
             Tamper(b, Put(disk[b], m, disk[a][n]))
    BY <1>1 DEF Copy
  <2> PICK n \in DOMAIN disk[a] : \E m \in {n} \cup {k \in DOMAIN disk[b] : k[1] = n[1]} :
             Tamper(b, Put(disk[b], m, disk[a][n]))
    BY <2>0
  <2>1. PICK m \in {n} \cup {k \in DOMAIN disk[b] : k[1] = n[1]} :
             Tamper(b, Put(disk[b], m, disk[a][n]))
    OBVIOUS
  <2>2. FileIsGenuine(n, disk[a][n])
    BY DEF HInv, FilesAreGenuine
  <2>3. m[1] = n[1] /\ (m = n \/ FileIsGenuine(m, disk[b][m]))
    BY DEF HInv, FilesAreGenuine
  <2>4. FileIsGenuine(m, disk[a][n])
    BY <2>2, <2>3 DEF FileIsGenuine
  <2>5. \A k \in DOMAIN Put(disk[b], m, disk[a][n]) :
          FileIsGenuine(k, Put(disk[b], m, disk[a][n])[k])
    BY <2>4 DEF Put, HInv, FilesAreGenuine
  <2> QED BY <2>1, <2>5, TamperKeeps
<1>2. CASE Delete
  <2>0. PICK a \in DOMAIN disk : \E n \in DOMAIN disk[a] :
          Tamper(a, [k \in DOMAIN disk[a] \ {n} |-> disk[a][k]])
    BY <1>2 DEF Delete
  <2>1. PICK n \in DOMAIN disk[a] :
          Tamper(a, [k \in DOMAIN disk[a] \ {n} |-> disk[a][k]])
    BY <2>0
  <2> DEFINE files == [k \in DOMAIN disk[a] \ {n} |-> disk[a][k]]
  <2>2. \A k \in DOMAIN files : FileIsGenuine(k, files[k])
    BY DEF HInv, FilesAreGenuine
  <2> HIDE DEF files
  <2> QED BY <2>1, <2>2, TamperKeeps DEF files
<1>3. CASE EditRecord
  <2>0. PICK a \in DOMAIN disk :
          \E n \in {k \in DOMAIN disk[a] : k[1] = "record"}, answer \in UNION Range(Answers) :
             Tamper(a, [disk[a] EXCEPT ![n].answer = answer])
    BY <1>3 DEF EditRecord
  <2>1. PICK n \in {k \in DOMAIN disk[a] : k[1] = "record"}, answer \in UNION Range(Answers) :
             Tamper(a, [disk[a] EXCEPT ![n].answer = answer])
    BY <2>0
  <2> DEFINE files == [disk[a] EXCEPT ![n].answer = answer]
  <2>2. \A k \in DOMAIN files :
          /\ k \in DOMAIN disk[a]
          /\ k # n => files[k] = disk[a][k]
    OBVIOUS
  <2>3. \A c : FileIsGenuine(n, c)
    BY DEF FileIsGenuine
  <2> HIDE DEF files
  <2>4. \A k \in DOMAIN files : FileIsGenuine(k, files[k])
    BY <2>2, <2>3 DEF HInv, FilesAreGenuine
  <2> QED BY <2>1, <2>4, TamperKeeps DEF files
<1> QED BY <1>1, <1>2, <1>3

LEMMA HInvStays == HInv /\ [Next]_vars => HInv'
<1> SUFFICES ASSUME HInv, [Next]_vars PROVE HInv'
  OBVIOUS
<1>1. CASE StartHeldOut \/ StartGate
  BY <1>1, StartKeeps
<1>2. CASE OpenAfter
  BY <1>2, OpenAfterKeeps
<1>3. CASE WriteSession
  BY <1>3, WriteSessionKeeps
<1>4. CASE Call
  BY <1>4, CallKeeps
<1>5. CASE WriteRecord
  BY <1>5, WriteRecordKeeps
<1>6. CASE WriteReceipt
  BY <1>6, WriteReceiptKeeps
<1>7. CASE WriteRecords
  BY <1>7, WriteRecordsKeeps
<1>8. CASE Crash \/ Edited \/ Commit \/ UNCHANGED vars
  BY <1>8, StillKeeps DEF Crash, Edited, Commit, vars
<1>9. CASE Copy \/ Delete \/ EditRecord
  BY <1>9, TamperingKeeps
<1> QED
  BY <1>1, <1>2, <1>3, <1>4, <1>5, <1>6, <1>7, <1>8, <1>9 DEF Next

-----------------------------------------------------------------------------
(* The theorems.                                                           *)

\* Wherever files were moved, edited or lost, every receipt is still of a call
\* its session made, and every session file of a session that was begun.
THEOREM HInvHolds == Spec => []HInv
BY HInvStarts, HInvStays, PTL DEF Spec

\* Files that held-out selection or the DEV gate accept are all the answers of
\* one session, or of the two halves of one gate run, whatever crashed before
\* and however often files were copied, deleted or edited between
\* (readReceiptedRecords, loadHeldOutSession, evaluateDevGate).
THEOREM EvidenceIsOfOneRunHolds == Spec => []EvidenceIsOfOneRun
BY HInvHolds, GenuineIsOfOneRun, PTL
=============================================================================
