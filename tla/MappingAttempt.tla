--------------------------- MODULE MappingAttempt ---------------------------
(***************************************************************************)
(* One call of a configured mapping provider, and what its caller makes of *)
(* the answer (packages/ai-harness/src/configured-provider.ts, class       *)
(* StructuredOutputClient and attempt; packages/evals/src/                 *)
(* mapping-model-runner.ts; packages/contracts/src/mapping-run-record.ts). *)
(*                                                                         *)
(* generate() races receive(), which requests, reads and judges, against a *)
(* deadline.  The loser runs on: a transport may ignore the signal and     *)
(* still answer.  Whatever happens between two awaits is one step.  A body *)
(* is its number of bytes and what the code can tell of its text.          *)
(***************************************************************************)
EXTENDS Integers

CONSTANTS
    Stack,      \* how columns are named: "header" or "columnId"
    MaxBytes,   \* MAPPING_RUN_OUTPUT_MAX_BYTES
    Sizes,      \* the bytes of the fields a model may answer with
    Envelope,   \* the bytes an envelope and its escapes add to them
    Headers,    \* the bytes that naming each column by its header adds
    Ids,        \* the bytes of the column IDs
    Binding,    \* the bytes of the rest of a proposal
    Stops,      \* bound: where a chunk may end, beside the end of a body
    Null

ASSUME AttemptAssumption ==
    /\ Stack \in {"header", "columnId"}
    /\ Sizes \cup Stops \subseteq Nat
    /\ {MaxBytes, Envelope, Headers, Ids, Binding} \subseteq Nat
    /\ \A n \in Sizes : n >= Ids

\* What an assistant's message holds: text that is not JSON, an object that is
\* not closed, columns or targets that are wrong, a mapping, or one to review.
Shapes == {"unparseable", "open", "wrongColumns", "wrongTargets", "right",
           "toReview"}

\* tainted: the text holds a credential, the endpoint or the model's name.
Outputs == [shape : Shapes, bytes : Sizes, tainted : BOOLEAN]

\* A reply: no JSON object, an error that names the strict format, an envelope
\* that is no single finished message, or one that is.
Replies ==
    [form : {"noObject", "strictError", "badEnvelope"}, bytes : Sizes]
    \cup [form : {"message"},
          model : {"absent", "named", "secret"}, usage : BOOLEAN,
          output : Outputs]

Statuses == {"ok", "unauthorized", "tooMany", "badRequest", "serverError"}

VARIABLES
    caller,         \* who called: the web, or an evaluation that records
    stage,          \* how far receive() has come
    aborted,        \* signal.aborted
    status, reply,  \* what the endpoint answers
    received,       \* bytes read so far
    reader,         \* the reader of the body
    httpStatus, reportedModel, tokens,
    answer,         \* the MappingAttempt returned, or Null
    used            \* what the caller made of it, or Null

observed == <<httpStatus, reportedModel, tokens>>
sent == <<status, reply>>
vars == <<caller, stage, aborted, sent, received, reader, observed, answer,
          used>>

FailureClasses == {"TIMEOUT", "RATE_LIMITED", "AUTHENTICATION", "TRANSPORT",
                   "HTTP_ERROR", "STRICT_MODE_UNSUPPORTED",
                   "INVALID_RESPONSE"}
RejectionClasses == {"OUTPUT_CONTRACT", "UNPARSEABLE_OUTPUT",
                     "OUTPUT_NOT_RETAINABLE"}

\* parsedOutput: what a record keeps of the fields, with its size.
Kept == [shape : Shapes, bytes : Int, tainted : BOOLEAN]

Results ==
    [outcome : {"VALID", "CONTRACT_REJECTED", "PROVIDER_FAILED"},
     failureClass : FailureClasses \cup RejectionClasses \cup {Null},
     reasons : BOOLEAN,
     parsedOutput : Kept \cup {Null}]

\* A MappingAttempt adds what was observed by the time it was returned.
Attempts ==
    [result : Results, httpStatus : Statuses \cup {Null},
     reportedModel : {"named", "secret", Null}, tokens : BOOLEAN]

ASSUME NullIsNoValue ==
    Null \notin Attempts \cup Kept \cup Replies \cup Statuses
                \cup FailureClasses \cup RejectionClasses
                \cup {"named", "secret", "thrown"}

TypeOK ==
    /\ caller \in {"web", "runner"}
    /\ stage \in {"idle", "refused", "requesting", "reading", "done"}
    /\ aborted \in BOOLEAN
    /\ status \in Statuses \cup {Null}
    /\ reply \in Replies \cup {Null}
    /\ received \in Nat
    /\ reader \in {"none", "open", "cancelled"}
    /\ httpStatus \in Statuses \cup {Null}
    /\ reportedModel \in {"named", "secret", Null}
    /\ tokens \in BOOLEAN
    /\ answer \in Attempts \cup {Null}
    /\ used \in {"proposal", "review", "recorded", "thrown", Null}
    /\ stage \in {"idle", "refused"} => answer = Null

Init ==
    /\ caller \in {"web", "runner"}
    /\ stage = "idle"
    /\ aborted = FALSE
    /\ status = Null
    /\ reply = Null
    /\ received = 0
    /\ reader = "none"
    /\ httpStatus = Null
    /\ reportedModel = Null
    /\ tokens = FALSE
    /\ answer = Null
    /\ used = Null

-----------------------------------------------------------------------------
(* What the code makes of a reply. *)

failed(class) ==
    [outcome |-> "PROVIDER_FAILED", failureClass |-> class, reasons |-> FALSE,
     parsedOutput |-> Null]

rejected(class, kept) ==
    [outcome |-> "CONTRACT_REJECTED", failureClass |-> class, reasons |-> TRUE,
     parsedOutput |-> kept]

\* envelope is Null where the body was not read or is not JSON.
httpFailure(s, envelope) ==
    CASE s = "unauthorized" -> "AUTHENTICATION"
      [] s = "tooMany" -> "RATE_LIMITED"
      [] s = "badRequest" /\ envelope # Null /\ envelope.form = "strictError" ->
           "STRICT_MODE_UNSUPPORTED"
      [] OTHER -> "HTTP_ERROR"

\* The fields under the names of their columns, as the validator weighs them.
Projected(o) ==
    IF Stack = "header" THEN o.bytes ELSE o.bytes - Ids + Headers

\* The fields as a record keeps them: under column IDs, with headers added.
Retained(o) ==
    [shape |-> o.shape, tainted |-> o.tainted,
     bytes |-> IF Stack = "header" THEN o.bytes ELSE o.bytes + Headers]

\* validateMappingStructure and validateColumnIdStructure: the first failure.
Verdict(o) ==
    CASE o.shape = "unparseable" -> "OUTPUT_INVALID_JSON"
      [] o.shape = "open" -> "OUTPUT_CONTRACT"
      [] o.shape = "wrongColumns" /\ Stack = "columnId" -> "INVENTED_COLUMN"
      [] OTHER -> IF Projected(o) + Binding > MaxBytes THEN "BODY_TOO_LARGE"
                  ELSE IF o.shape \in {"right", "toReview"} THEN "VALID"
                  ELSE "MISSING_REQUIRED_TARGET"

\* contract.retain, and the search of what it would keep for secrets.
Retainable(o) ==
    /\ o.shape # "open"
    /\ Retained(o).bytes <= MaxBytes
    /\ ~o.tainted

\* Mutant of Judge: an output that is not retainable is retained all the same.
JudgeRetains(o) ==
    LET code == Verdict(o)
    IN  CASE code = "VALID" /\ o.tainted -> failed("INVALID_RESPONSE")
          [] code = "VALID" /\ ~o.tainted ->
               [outcome |-> "VALID", failureClass |-> Null, reasons |-> FALSE,
                parsedOutput |-> Retained(o)]
          [] code = "BODY_TOO_LARGE" -> failed("INVALID_RESPONSE")
          [] code = "OUTPUT_INVALID_JSON" -> rejected("UNPARSEABLE_OUTPUT", Null)
          [] OTHER -> rejected("OUTPUT_NOT_RETAINABLE", Retained(o))

Judge(o) ==
    LET code == Verdict(o)
    IN  CASE code = "VALID" /\ o.tainted -> failed("INVALID_RESPONSE")
          [] code = "VALID" /\ ~o.tainted ->
               [outcome |-> "VALID", failureClass |-> Null, reasons |-> FALSE,
                parsedOutput |-> Retained(o)]
          [] code = "BODY_TOO_LARGE" -> failed("INVALID_RESPONSE")
          [] code = "OUTPUT_INVALID_JSON" -> rejected("UNPARSEABLE_OUTPUT", Null)
          [] OTHER -> IF Retainable(o)
                      THEN rejected("OUTPUT_CONTRACT", Retained(o))
                      ELSE rejected("OUTPUT_NOT_RETAINABLE", Null)

\* The result of a body read to its end.
Interpreted(s, r) ==
    IF s # "ok"
    THEN failed(httpFailure(s, IF r.form = "noObject" THEN Null ELSE r))
    ELSE IF r.form # "message" \/ r.model = "secret"
    THEN failed("INVALID_RESPONSE")
    ELSE Judge(r.output)

-----------------------------------------------------------------------------
(* The call. *)

\* Too many columns or bytes, or an operator's context no record admits.
RefuseInput ==
    /\ stage = "idle"
    /\ stage' = "refused"
    /\ used' = IF caller = "web" THEN "review" ELSE "thrown"
    /\ UNCHANGED <<caller, aborted, sent, received, reader, observed, answer>>

Send ==
    /\ stage = "idle"
    /\ stage' = "requesting"
    /\ UNCHANGED <<caller, aborted, sent, received, reader, observed, answer,
                   used>>

\* What generate returns: a result and the observations of that moment.
Return(result) ==
    answer' = [result |-> result, httpStatus |-> httpStatus',
               reportedModel |-> reportedModel', tokens |-> tokens']

\* Mutant of Settle: the half that ends last has the last word.
LastSettles(result) == stage' = "done" /\ Return(result)

\* receive() ends: first of the two it is the answer, second it is dropped.
Settle(result) ==
    /\ stage' = "done"
    /\ IF answer = Null THEN Return(result) ELSE UNCHANGED answer

\* The catch of generate: what receive throws is classed.
Throw(class) == Settle(failed(IF aborted THEN "TIMEOUT" ELSE class))

TransportFails ==
    /\ stage = "requesting"
    /\ UNCHANGED <<caller, aborted, sent, received, reader, observed, used>>
    /\ Throw("TRANSPORT")

\* Mutant of ReadFails: an error while reading is thrown whatever the status.
ReadFailsAlike(class) == Throw(class)

\* Even the bodies of errors are bounded, and what they say is not needed.
ReadFails(class) ==
    IF status' = "ok" THEN Throw(class)
    ELSE Settle(failed(httpFailure(status', Null)))

\* readBody listens to the signal, and looks at it once.
OpenReader == IF aborted THEN "cancelled" ELSE "open"

Respond(s, r) ==
    /\ stage = "requesting"
    /\ status' = s
    /\ reply' = r
    /\ httpStatus' = s
    /\ stage' = "reading"
    /\ reader' = OpenReader
    /\ UNCHANGED <<caller, aborted, received, reportedModel, tokens, answer,
                   used>>

RespondWithoutBody(s) ==
    /\ stage = "requesting"
    /\ status' = s
    /\ httpStatus' = s
    /\ UNCHANGED <<caller, aborted, reply, received, reader, reportedModel,
                   tokens, used>>
    /\ ReadFails("INVALID_RESPONSE")

ReplyBytes ==
    Envelope + IF reply.form = "message" THEN reply.output.bytes ELSE reply.bytes

\* The finally of readBody cancels the reader, whatever ended the reading.
ChunkArrives(n) ==
    /\ stage = "reading" /\ reader = "open"
    /\ received < n /\ n <= ReplyBytes
    /\ received' = n
    /\ UNCHANGED <<caller, aborted, sent, observed, used>>
    /\ IF received' > MaxBytes
       THEN reader' = "cancelled" /\ ReadFails("INVALID_RESPONSE")
       ELSE UNCHANGED <<stage, reader, answer>>

StreamFails ==
    /\ stage = "reading"
    /\ reader' = "cancelled"
    /\ UNCHANGED <<caller, aborted, sent, received, observed, used>>
    /\ ReadFails("TRANSPORT")

\* What an envelope reports is noted before its output is judged.
Noted ==
    IF status = "ok" /\ reply.form = "message" /\ reply.model # "secret"
    THEN /\ reportedModel' = IF reply.model = "named" THEN "named" ELSE Null
         /\ tokens' = reply.usage
    ELSE UNCHANGED <<reportedModel, tokens>>

BodyEnds ==
    /\ stage = "reading" /\ reader = "open"
    /\ received = ReplyBytes
    /\ reader' = "cancelled"
    /\ Noted
    /\ UNCHANGED <<caller, aborted, sent, received, httpStatus, used>>
    /\ Settle(Interpreted(status, reply))

\* A cancelled reader reports the end of what it has: a body cut short, or the
\* whole of one whose last chunk was read before the deadline.
CutShort ==
    /\ stage = "reading" /\ reader = "cancelled"
    /\ UNCHANGED <<caller, aborted, sent, received, reader, httpStatus, used>>
    /\ IF received = ReplyBytes THEN Noted ELSE UNCHANGED <<reportedModel, tokens>>
    /\ \/ Settle(failed("INVALID_RESPONSE"))
       \/ Settle(failed(httpFailure(status, Null)))

\* Mutant of Deadline: the signal is raised and nothing races it.
DeadlineOnlySignals ==
    /\ stage \in {"requesting", "reading"}
    /\ ~aborted
    /\ aborted' = TRUE
    /\ reader' = IF reader = "open" THEN "cancelled" ELSE reader
    /\ UNCHANGED <<caller, stage, sent, received, observed, answer, used>>

\* Thirty seconds: the deadline's listener runs first, then the reader's.  When
\* receive() has settled, no listener is left and the signal changes nothing.
Deadline ==
    /\ stage \in {"requesting", "reading"}
    /\ ~aborted
    /\ aborted' = TRUE
    /\ reader' = IF reader = "open" THEN "cancelled" ELSE reader
    /\ UNCHANGED observed
    /\ Return(failed("TIMEOUT"))
    /\ UNCHANGED <<caller, stage, sent, received, used>>

-----------------------------------------------------------------------------
(* What becomes of the answer. *)

\* AnyMappingRunRecordSchema: the union over outcomes.
FitsRecord(a) ==
    LET r == a.result
    IN  /\ \/ /\ r.outcome = "VALID"
              /\ ~r.reasons /\ r.failureClass = Null /\ r.parsedOutput # Null
           \/ /\ r.outcome = "CONTRACT_REJECTED"
              /\ r.reasons /\ r.failureClass \in RejectionClasses
              /\ r.parsedOutput # Null => r.failureClass = "OUTPUT_CONTRACT"
           \/ /\ r.outcome = "PROVIDER_FAILED"
              /\ ~r.reasons /\ r.failureClass \in FailureClasses
              /\ r.parsedOutput = Null
        /\ r.parsedOutput # Null => r.parsedOutput.bytes <= MaxBytes

\* runConfiguredMapping parses what it returns.
Record ==
    /\ caller = "runner" /\ answer # Null /\ used = Null
    /\ used' = IF FitsRecord(answer) THEN "recorded" ELSE "thrown"
    /\ UNCHANGED <<caller, stage, aborted, sent, received, reader, observed,
                   answer>>

\* propose: a valid mapping that no reviewer needs to look at, or a review.
Propose ==
    /\ caller = "web" /\ answer # Null /\ used = Null
    /\ used' = IF answer.result.outcome = "VALID"
                  /\ answer.result.parsedOutput.shape = "right"
               THEN "proposal" ELSE "review"
    /\ UNCHANGED <<caller, stage, aborted, sent, received, reader, observed,
                   answer>>

Terminated == used # Null /\ stage \in {"refused", "done"} /\ UNCHANGED vars

Next ==
    \/ RefuseInput \/ Send
    \/ TransportFails
    \/ \E s \in Statuses : RespondWithoutBody(s) \/ \E r \in Replies : Respond(s, r)
    \/ stage = "reading" /\ \E n \in Stops \cup {ReplyBytes} : ChunkArrives(n)
    \/ StreamFails \/ BodyEnds \/ CutShort
    \/ Deadline
    \/ Record \/ Propose
    \/ Terminated

Spec == Init /\ [][Next]_vars

\* Only the clock and the caller are relied on; the endpoint may never answer.
FairSpec ==
    Spec /\ WF_vars(Deadline) /\ WF_vars(Record) /\ WF_vars(Propose)

-----------------------------------------------------------------------------
\* Once a request has been spent, its outcome is recorded: nothing the endpoint
\* says yields an attempt that the record's contract refuses.
EveryAttemptIsRecorded == stage # "refused" => used # "thrown"

\* What was returned stands, whatever the abandoned half still receives.
AnswerStands == [][answer # Null => answer' = answer]_vars

\* TIMEOUT is said exactly where the deadline came first, and then nothing is
\* claimed that only a whole body could tell.
TimeoutIsTheDeadline ==
    answer # Null =>
        /\ answer.result.failureClass = "TIMEOUT" <=> aborted
        /\ aborted => answer.reportedModel = Null /\ ~answer.tokens

\* A failed status is told as such, however long or broken its body.
HttpFailuresAreNamed ==
    answer # Null /\ answer.httpStatus \notin {"ok", Null} /\ ~aborted =>
        answer.result.failureClass \in
            {"AUTHENTICATION", "RATE_LIMITED", "HTTP_ERROR",
             "STRICT_MODE_UNSUPPORTED"}

\* The class of a failure is what happened first.
ClassSaysWhatHappened == TimeoutIsTheDeadline /\ HttpFailuresAreNamed

\* Nothing returned holds a credential, the endpoint or the model's name.
NothingSecretIsKept ==
    answer # Null =>
        /\ answer.result.parsedOutput # Null =>
             ~answer.result.parsedOutput.tainted
        /\ answer.reportedModel # "secret"

\* An answer tells what happened and keeps no secret.
AnswersAreHonest == ClassSaysWhatHappened /\ NothingSecretIsKept

\* A body is let go as soon as its reading ends or the deadline has passed.
BodyIsReleased == reader = "open" => stage = "reading" /\ ~aborted

\* A request that was sent is answered and dealt with, even if the endpoint is
\* silent and the transport deaf to the signal.
AttemptEnds == stage = "requesting" ~> used # Null
=============================================================================
