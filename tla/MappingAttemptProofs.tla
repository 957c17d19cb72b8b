------------------------ MODULE MappingAttemptProofs ------------------------
(***************************************************************************)
(* Theorems about MappingAttempt, for every stack, limit and size.         *)
(***************************************************************************)
EXTENDS MappingAttempt, TLAPS

\* A result receive() may settle with: of its type, clean, no timeout, and,
\* where columns are named by headers, one a record admits.
Sound(r) ==
    /\ r \in Results
    /\ r.failureClass # "TIMEOUT"
    /\ r.parsedOutput # Null => ~r.parsedOutput.tainted
    /\ Stack = "header" => FitsRecord([result |-> r])

\* What was returned is sound but for the deadline, and clean.
AnswerIsSound ==
    answer # Null =>
        /\ answer \in Attempts
        /\ Sound(answer.result) \/ answer.result = failed("TIMEOUT")
        /\ answer.reportedModel # "secret"

\* A call is answered by the end of receive() or by the deadline.
AnsweredOnce ==
    /\ answer # Null <=> aborted \/ stage = "done"
    /\ aborted => stage \in {"requesting", "reading", "done"}

\* Nothing of an envelope is noted before receive() ends or is abandoned.
NotedAtEnd ==
    /\ reportedModel # "secret"
    /\ answer = Null => reportedModel = Null /\ tokens = FALSE

\* No status is known before a response; a body is read only of a response
\* whose status was noted, by a reader that only the deadline takes away.
ReadingHasResponse ==
    /\ stage \in {"idle", "refused", "requesting"} => httpStatus = Null
    /\ stage = "reading" =>
         /\ status \in Statuses /\ httpStatus = status
         /\ reply \in Replies
         /\ reader = "open" \/ aborted

\* The classes that name a failed status.
HttpClasses ==
    {"AUTHENTICATION", "RATE_LIMITED", "HTTP_ERROR", "STRICT_MODE_UNSUPPORTED"}

AInv ==
    /\ TypeOK
    /\ AnswerIsSound
    /\ AnsweredOnce
    /\ NotedAtEnd
    /\ ReadingHasResponse
    /\ BodyIsReleased
    /\ TimeoutIsTheDeadline
    /\ HttpFailuresAreNamed

-----------------------------------------------------------------------------
\* A failure of any class but TIMEOUT is sound.
LEMMA FailedIsSound ==
    ASSUME NEW class \in FailureClasses, class # "TIMEOUT"
    PROVE  Sound(failed(class))
BY NullIsNoValue DEF Sound, failed, Results, FitsRecord

\* What the server's status is called.
LEMMA HttpFailureIsNamed ==
    ASSUME NEW s \in Statuses, NEW e
    PROVE  httpFailure(s, e) \in {"AUTHENTICATION", "RATE_LIMITED",
                                  "HTTP_ERROR", "STRICT_MODE_UNSUPPORTED"}
BY DEF httpFailure

\* What a record keeps of an output is of its type, and under headers no longer
\* than the output.
LEMMA RetainedIsKept ==
    ASSUME NEW o \in Outputs
    PROVE  /\ Retained(o) \in Kept
           /\ Retained(o).tainted = o.tainted
           /\ Stack = "header" => Retained(o).bytes = o.bytes
BY AttemptAssumption DEF Retained, Kept, Outputs

\* Only an output that fits under its headers passes the validator.
LEMMA ValidFits ==
    ASSUME NEW o \in Outputs, Verdict(o) = "VALID", Stack = "header"
    PROVE  o.bytes <= MaxBytes
<1>1. o.bytes + Binding <= MaxBytes
  BY AttemptAssumption DEF Verdict, Projected, Outputs
<1> QED
  BY <1>1, AttemptAssumption DEF Outputs

\* The judgement of an output is sound: what is kept is clean, and fits.
LEMMA JudgeIsSound ==
    ASSUME NEW o \in Outputs
    PROVE  Sound(Judge(o))
<1> DEFINE code == Verdict(o)
<1>0. "INVALID_RESPONSE" \in FailureClasses /\ "INVALID_RESPONSE" # "TIMEOUT"
  BY DEF FailureClasses
<1>1. CASE code = "VALID" /\ o.tainted
  <2>1. Judge(o) = failed("INVALID_RESPONSE")
    BY <1>1 DEF Judge
  <2> QED
    BY <2>1, <1>0, FailedIsSound
<1>2. CASE code = "VALID" /\ ~o.tainted
  <2>1. Judge(o) = [outcome |-> "VALID", failureClass |-> Null,
                    reasons |-> FALSE, parsedOutput |-> Retained(o)]
    BY <1>2 DEF Judge
  <2>2. Stack = "header" => Retained(o).bytes <= MaxBytes
    BY <1>2, ValidFits, RetainedIsKept
  <2> HIDE DEF code
  <2> QED
    BY <2>1, <2>2, <1>2, RetainedIsKept, NullIsNoValue
    DEF Sound, Results, FitsRecord, FailureClasses
<1>3. CASE code = "BODY_TOO_LARGE"
  <2>1. Judge(o) = failed("INVALID_RESPONSE")
    BY <1>3 DEF Judge
  <2> QED
    BY <2>1, <1>0, FailedIsSound
<1>4. CASE code = "OUTPUT_INVALID_JSON"
  <2>1. Judge(o) = rejected("UNPARSEABLE_OUTPUT", Null)
    BY <1>4 DEF Judge
  <2> QED
    BY <2>1, NullIsNoValue DEF Sound, rejected, Results, FitsRecord,
       RejectionClasses
<1>5. CASE code \notin {"VALID", "BODY_TOO_LARGE", "OUTPUT_INVALID_JSON"}
  <2>1. CASE Retainable(o)
    <3>1. Judge(o) = rejected("OUTPUT_CONTRACT", Retained(o))
      BY <1>5, <2>1 DEF Judge
    <3>2. Retained(o).bytes <= MaxBytes /\ ~o.tainted
      BY <2>1 DEF Retainable
    <3> HIDE DEF code
    <3> QED
      BY <3>1, <3>2, RetainedIsKept, NullIsNoValue
      DEF Sound, rejected, Results, FitsRecord, RejectionClasses
  <2>2. CASE ~Retainable(o)
    <3>1. Judge(o) = rejected("OUTPUT_NOT_RETAINABLE", Null)
      BY <1>5, <2>2 DEF Judge
    <3> QED
      BY <3>1, NullIsNoValue DEF Sound, rejected, Results, FitsRecord,
         RejectionClasses
  <2> QED
    BY <2>1, <2>2
<1> QED
  BY <1>1, <1>2, <1>3, <1>4, <1>5 DEF Outputs

\* So is what becomes of a whole body; a status that failed is named.
LEMMA InterpretedIsSound ==
    ASSUME NEW s \in Statuses, NEW r \in Replies
    PROVE  /\ Sound(Interpreted(s, r))
           /\ s # "ok" => Interpreted(s, r).failureClass \in
                {"AUTHENTICATION", "RATE_LIMITED", "HTTP_ERROR",
                 "STRICT_MODE_UNSUPPORTED"}
<1>1. CASE s # "ok"
  <2> DEFINE class == httpFailure(s, IF r.form = "noObject" THEN Null ELSE r)
  <2>1. Interpreted(s, r) = failed(class)
    BY <1>1 DEF Interpreted
  <2>2. class \in {"AUTHENTICATION", "RATE_LIMITED", "HTTP_ERROR",
                   "STRICT_MODE_UNSUPPORTED"}
    BY HttpFailureIsNamed
  <2> HIDE DEF class
  <2>3. Sound(failed(class))
    BY <2>2, FailedIsSound DEF FailureClasses
  <2> QED
    BY <2>1, <2>2, <2>3 DEF failed
<1>2. CASE s = "ok" /\ (r.form # "message" \/ r.model = "secret")
  BY <1>2, FailedIsSound DEF Interpreted, FailureClasses
<1>3. CASE s = "ok" /\ r.form = "message" /\ r.model # "secret"
  <2>1. r.output \in Outputs
    BY <1>3 DEF Replies
  <2> QED
    BY <1>3, <2>1, JudgeIsSound DEF Interpreted
<1> QED
  BY <1>1, <1>2, <1>3

-----------------------------------------------------------------------------
\* receive() may end with any sound result: it is the answer, or it is dropped.
LEMMA SettleKeeps ==
    ASSUME AInv, NEW result, stage \in {"requesting", "reading"},
           answer = Null =>
              /\ Sound(result)
              /\ httpStatus' \notin {"ok", Null} =>
                   result.failureClass \in HttpClasses,
           Settle(result), UNCHANGED <<caller, aborted, used>>,
           status' \in Statuses \cup {Null}, reply' \in Replies \cup {Null},
           received' \in Nat, reader' \in {"none", "cancelled"},
           httpStatus' \in Statuses \cup {Null},
           reportedModel' \in {"named", Null}, tokens' \in BOOLEAN
    PROVE  AInv' /\ (answer # Null => answer' = answer)
<1>1. stage' = "done"
  BY DEF Settle
<1>2. CASE answer # Null
  <2>1. answer' = answer
    BY <1>2 DEF Settle
  <2>2. TypeOK'
    BY <1>1, <2>1 DEF AInv, TypeOK
  <2>3. AnswerIsSound' /\ AnsweredOnce' /\ NotedAtEnd'
    BY <1>1, <1>2, <2>1, NullIsNoValue
    DEF AInv, AnswerIsSound, AnsweredOnce, NotedAtEnd, Sound, FitsRecord
  <2>4. ReadingHasResponse' /\ BodyIsReleased'
    BY <1>1 DEF ReadingHasResponse, BodyIsReleased
  <2>5. TimeoutIsTheDeadline' /\ HttpFailuresAreNamed'
    BY <1>2, <2>1 DEF AInv, TimeoutIsTheDeadline, HttpFailuresAreNamed
  <2> QED
    BY <2>1, <2>2, <2>3, <2>4, <2>5 DEF AInv
<1>3. CASE answer = Null
  <2>1. answer' = [result |-> result, httpStatus |-> httpStatus',
                   reportedModel |-> reportedModel', tokens |-> tokens']
    BY <1>3 DEF Settle, Return
  <2>2. answer' \in Attempts
    BY <1>3, <2>1 DEF Attempts, Sound
  <2>3. answer' # Null
    BY <2>2, NullIsNoValue
  <2>4. ~aborted'
    BY <1>3 DEF AInv, AnsweredOnce
  <2>5. TypeOK'
    BY <1>1, <2>2 DEF AInv, TypeOK
  <2>6. AnswerIsSound'
    BY <1>3, <2>1, <2>2, NullIsNoValue DEF AnswerIsSound, Sound, FitsRecord
  <2>7. AnsweredOnce' /\ NotedAtEnd'
    BY <1>1, <2>3, <2>4, NullIsNoValue DEF AnsweredOnce, NotedAtEnd
  <2>8. ReadingHasResponse' /\ BodyIsReleased'
    BY <1>1 DEF ReadingHasResponse, BodyIsReleased
  <2>9. TimeoutIsTheDeadline' /\ HttpFailuresAreNamed'
    BY <1>3, <2>1, <2>4
    DEF TimeoutIsTheDeadline, HttpFailuresAreNamed, Sound, HttpClasses
  <2> QED
    BY <1>3, <2>5, <2>6, <2>7, <2>8, <2>9 DEF AInv
<1> QED
  BY <1>2, <1>3

\* An error while reading is as sound, whatever the status.
LEMMA ReadFailsKeeps ==
    ASSUME AInv, NEW class \in {"TRANSPORT", "INVALID_RESPONSE"},
           stage \in {"requesting", "reading"},
           ReadFails(class), UNCHANGED <<caller, aborted, used>>,
           status' \in Statuses, httpStatus' = status',
           reply' \in Replies \cup {Null},
           received' \in Nat, reader' \in {"none", "cancelled"},
           UNCHANGED <<reportedModel, tokens>>
    PROVE  AInv' /\ (answer # Null => answer' = answer)
<1>1. reportedModel' \in {"named", Null} /\ tokens' \in BOOLEAN
  BY DEF AInv, TypeOK, NotedAtEnd
<1>2. CASE status' = "ok"
  <2> DEFINE result == failed(IF aborted THEN "TIMEOUT" ELSE class)
  <2>1. Settle(result)
    BY <1>2 DEF ReadFails, Throw
  <2>2. answer = Null => Sound(result)
    BY FailedIsSound DEF AInv, AnsweredOnce, FailureClasses
  <2> HIDE DEF result
  <2> QED
    BY <1>1, <1>2, <2>1, <2>2, SettleKeeps
<1>3. CASE status' # "ok"
  <2> DEFINE class2 == httpFailure(status', Null)
  <2>1. Settle(failed(class2))
    BY <1>3 DEF ReadFails
  <2>2. class2 \in HttpClasses
    BY HttpFailureIsNamed DEF HttpClasses
  <2> HIDE DEF class2
  <2>3. Sound(failed(class2)) /\ failed(class2).failureClass = class2
    BY <2>2, FailedIsSound DEF HttpClasses, FailureClasses, failed
  <2> QED
    BY <1>1, <2>1, <2>2, <2>3, SettleKeeps
<1> QED
  BY <1>2, <1>3

-----------------------------------------------------------------------------
LEMMA InitIsInv == Init => AInv
<1> SUFFICES ASSUME Init PROVE AInv
  OBVIOUS
<1>1. TypeOK
  BY DEF Init, TypeOK
<1>2. Null # "secret"
  BY NullIsNoValue
<1>3. /\ AnswerIsSound /\ AnsweredOnce /\ NotedAtEnd /\ ReadingHasResponse
      /\ BodyIsReleased /\ TimeoutIsTheDeadline /\ HttpFailuresAreNamed
  BY <1>2 DEF Init, AnswerIsSound, AnsweredOnce, NotedAtEnd,
     ReadingHasResponse, BodyIsReleased, TimeoutIsTheDeadline,
     HttpFailuresAreNamed
<1> QED
  BY <1>1, <1>3 DEF AInv

\* The deadline answers a call that had no answer, and only that.
LEMMA DeadlineKeeps ==
    ASSUME AInv, Deadline
    PROVE  AInv' /\ (answer # Null => answer' = answer)
<1> DEFINE late == failed("TIMEOUT")
<1>1. answer = Null /\ aborted' /\ stage' = stage
      /\ stage \in {"requesting", "reading"}
  BY DEF AInv, AnsweredOnce, Deadline
<1>2. /\ late \in Results /\ late.failureClass = "TIMEOUT"
      /\ late.parsedOutput = Null
  BY DEF failed, Results, FailureClasses
<1> HIDE DEF late
<1>3. answer' = [result |-> late, httpStatus |-> httpStatus,
                 reportedModel |-> Null, tokens |-> FALSE]
  BY <1>1 DEF AInv, NotedAtEnd, Deadline, Return, late, observed
<1>4. answer' \in Attempts /\ answer' # Null
  <2>1. answer' \in Attempts
    BY <1>2, <1>3 DEF AInv, TypeOK, Attempts
  <2> QED
    BY <2>1, NullIsNoValue
<1>5. TypeOK'
  BY <1>1, <1>4 DEF AInv, TypeOK, Deadline, observed, sent
<1>6. AnswerIsSound' /\ AnsweredOnce' /\ NotedAtEnd'
  BY <1>1, <1>3, <1>4, NullIsNoValue
  DEF AInv, AnswerIsSound, AnsweredOnce, NotedAtEnd, Deadline, observed, late
<1>7. ReadingHasResponse' /\ BodyIsReleased'
  BY <1>1 DEF AInv, ReadingHasResponse, BodyIsReleased, Deadline, observed, sent
<1>8. TimeoutIsTheDeadline' /\ HttpFailuresAreNamed'
  BY <1>1, <1>2, <1>3 DEF TimeoutIsTheDeadline, HttpFailuresAreNamed
<1> QED
  BY <1>1, <1>5, <1>6, <1>7, <1>8 DEF AInv

\* Every step keeps the invariant, and the answer once there is one.
LEMMA StepKeeps ==
    ASSUME AInv, [Next]_vars
    PROVE  AInv' /\ (answer # Null => answer' = answer)
<1> USE DEF sent, observed
<1>0. CASE UNCHANGED vars
  BY <1>0 DEF vars, AInv, TypeOK, AnswerIsSound, AnsweredOnce, NotedAtEnd,
     ReadingHasResponse, BodyIsReleased, TimeoutIsTheDeadline,
     HttpFailuresAreNamed, Sound, FitsRecord
<1>1. CASE RefuseInput \/ Send
  <2>1. /\ answer = Null /\ answer' = Null /\ ~aborted' /\ reader # "open"
        /\ stage' \in {"refused", "requesting"}
    BY <1>1 DEF AInv, TypeOK, AnsweredOnce, BodyIsReleased, RefuseInput, Send
  <2>2. TypeOK'
    BY <1>1, <2>1 DEF AInv, TypeOK, RefuseInput, Send
  <2>3. AnswerIsSound' /\ AnsweredOnce' /\ NotedAtEnd'
    BY <1>1, <2>1
    DEF AInv, AnswerIsSound, AnsweredOnce, NotedAtEnd, RefuseInput, Send
  <2>4. ReadingHasResponse' /\ BodyIsReleased'
    BY <1>1, <2>1
    DEF AInv, ReadingHasResponse, BodyIsReleased, RefuseInput, Send
  <2>5. TimeoutIsTheDeadline' /\ HttpFailuresAreNamed'
    BY <2>1 DEF TimeoutIsTheDeadline, HttpFailuresAreNamed
  <2> QED
    BY <2>1, <2>2, <2>3, <2>4, <2>5 DEF AInv
<1>2. CASE TransportFails
  <2> DEFINE result == failed(IF aborted THEN "TIMEOUT" ELSE "TRANSPORT")
  <2>1. Settle(result) /\ stage = "requesting"
    BY <1>2 DEF TransportFails, Throw
  <2>2. answer = Null => Sound(result)
    BY FailedIsSound DEF AInv, AnsweredOnce, FailureClasses
  <2>3. httpStatus' = Null /\ reader' \in {"none", "cancelled"}
        /\ reportedModel' \in {"named", Null} /\ tokens' \in BOOLEAN
    BY <1>2, <2>1 DEF AInv, TypeOK, NotedAtEnd, ReadingHasResponse,
       BodyIsReleased, TransportFails
  <2>4. /\ status' \in Statuses \cup {Null} /\ reply' \in Replies \cup {Null}
        /\ received' \in Nat /\ UNCHANGED <<caller, aborted, used>>
    BY <1>2 DEF AInv, TypeOK, TransportFails
  <2> HIDE DEF result
  <2> QED
    BY <2>1, <2>2, <2>3, <2>4, SettleKeeps
<1>3. ASSUME NEW s \in Statuses, RespondWithoutBody(s)
      PROVE  AInv' /\ (answer # Null => answer' = answer)
  <2>1. reader' \in {"none", "cancelled"}
    BY <1>3 DEF AInv, TypeOK, BodyIsReleased, RespondWithoutBody
  <2>2. /\ stage = "requesting" /\ ReadFails("INVALID_RESPONSE")
        /\ status' \in Statuses /\ httpStatus' = status'
        /\ reply' \in Replies \cup {Null} /\ received' \in Nat
        /\ UNCHANGED <<caller, aborted, used>>
        /\ UNCHANGED <<reportedModel, tokens>>
    BY <1>3 DEF AInv, TypeOK, RespondWithoutBody
  <2> QED
    BY <2>1, <2>2, ReadFailsKeeps
<1>4. ASSUME NEW s \in Statuses, NEW r \in Replies, Respond(s, r)
      PROVE  AInv' /\ (answer # Null => answer' = answer)
  <2>1. /\ stage = "requesting" /\ stage' = "reading" /\ status' = s
        /\ httpStatus' = s /\ reply' = r /\ reader' = OpenReader
        /\ UNCHANGED <<caller, aborted, received, reportedModel, tokens,
                       answer, used>>
    BY <1>4 DEF Respond
  <2>2. TypeOK'
    BY <2>1 DEF AInv, TypeOK, OpenReader
  <2>3. AnswerIsSound' /\ AnsweredOnce' /\ NotedAtEnd'
    BY <2>1, NullIsNoValue
    DEF AInv, AnswerIsSound, AnsweredOnce, NotedAtEnd, Sound, FitsRecord
  <2>4. ReadingHasResponse' /\ BodyIsReleased'
    BY <2>1 DEF AInv, ReadingHasResponse, BodyIsReleased, OpenReader
  <2>5. TimeoutIsTheDeadline' /\ HttpFailuresAreNamed'
    BY <2>1 DEF AInv, TimeoutIsTheDeadline, HttpFailuresAreNamed
  <2> QED
    BY <2>1, <2>2, <2>3, <2>4, <2>5 DEF AInv
<1>5. ASSUME NEW n \in Stops \cup {ReplyBytes}, ChunkArrives(n)
      PROVE  AInv' /\ (answer # Null => answer' = answer)
  <2>1. /\ stage = "reading" /\ received' = n /\ n \in Nat
        /\ status \in Statuses /\ httpStatus = status
        /\ UNCHANGED <<caller, aborted, status, reply, httpStatus,
                       reportedModel, tokens, used>>
    <3>1. stage = "reading" /\ reply \in Replies
      BY <1>5 DEF AInv, ReadingHasResponse, ChunkArrives
    <3>2. ReplyBytes \in Nat
      BY <3>1, AttemptAssumption DEF ReplyBytes, Replies, Outputs
    <3> QED
      BY <1>5, <3>1, <3>2, AttemptAssumption
      DEF AInv, ReadingHasResponse, ChunkArrives
  <2>2. CASE received' > MaxBytes
    <3>1. reader' = "cancelled" /\ ReadFails("INVALID_RESPONSE")
      BY <1>5, <2>2 DEF ChunkArrives
    <3>2. reply' \in Replies \cup {Null}
      BY <2>1 DEF AInv, TypeOK
    <3> QED
      BY <2>1, <3>1, <3>2, ReadFailsKeeps
  <2>3. CASE ~(received' > MaxBytes)
    <3>1. UNCHANGED <<stage, reader, answer>>
      BY <1>5, <2>3 DEF ChunkArrives
    <3> QED
      BY <2>1, <3>1
      DEF AInv, TypeOK, AnswerIsSound, AnsweredOnce, NotedAtEnd,
          ReadingHasResponse, BodyIsReleased, TimeoutIsTheDeadline,
          HttpFailuresAreNamed, Sound, FitsRecord
  <2> QED
    BY <2>2, <2>3
<1>6. CASE StreamFails
  <2>1. /\ stage = "reading" /\ ReadFails("TRANSPORT")
        /\ status' \in Statuses /\ httpStatus' = status'
        /\ reply' \in Replies \cup {Null} /\ received' \in Nat
        /\ reader' = "cancelled"
        /\ UNCHANGED <<caller, aborted, used>>
        /\ UNCHANGED <<reportedModel, tokens>>
    BY <1>6 DEF AInv, TypeOK, ReadingHasResponse, StreamFails
  <2> QED
    BY <2>1, ReadFailsKeeps
<1>7. CASE BodyEnds
  <2>1. /\ stage = "reading" /\ Settle(Interpreted(status, reply))
        /\ status \in Statuses /\ httpStatus' = status /\ reply \in Replies
        /\ UNCHANGED <<caller, aborted, status, reply, received, used>>
        /\ reader' = "cancelled" /\ received \in Nat
    BY <1>7 DEF AInv, TypeOK, ReadingHasResponse, BodyEnds
  <2>2. reportedModel' \in {"named", Null} /\ tokens' \in BOOLEAN
    <3>1. Noted
      BY <1>7 DEF BodyEnds
    <3>2. reply.form = "message" => reply.usage \in BOOLEAN
      BY <2>1 DEF Replies
    <3> QED
      BY <3>1, <3>2 DEF Noted, AInv, TypeOK, NotedAtEnd
  <2>3. /\ Sound(Interpreted(status, reply))
        /\ status # "ok" =>
             Interpreted(status, reply).failureClass \in HttpClasses
    BY <2>1, InterpretedIsSound DEF HttpClasses
  <2> QED
    BY <2>1, <2>2, <2>3, SettleKeeps
<1>8. CASE CutShort
  <2>1. /\ stage = "reading" /\ aborted /\ answer # Null
        /\ status \in Statuses /\ httpStatus' = status /\ reply \in Replies
        /\ UNCHANGED <<caller, aborted, status, reply, received, used>>
        /\ reader' = "cancelled" /\ received \in Nat
    BY <1>8
    DEF AInv, TypeOK, AnsweredOnce, ReadingHasResponse, CutShort
  <2>2. reportedModel' \in {"named", Null} /\ tokens' \in BOOLEAN
    <3>1. Noted \/ UNCHANGED <<reportedModel, tokens>>
      BY <1>8 DEF CutShort
    <3>2. reply.form = "message" => reply.usage \in BOOLEAN
      BY <2>1 DEF Replies
    <3> QED
      BY <3>1, <3>2 DEF Noted, AInv, TypeOK, NotedAtEnd
  <2>3. PICK result \in {failed("INVALID_RESPONSE"),
                         failed(httpFailure(status, Null))} : Settle(result)
    BY <1>8 DEF CutShort
  <2> QED
    BY <2>1, <2>2, <2>3, SettleKeeps
<1>9. CASE Deadline
  BY <1>9, DeadlineKeeps
<1>10. CASE Record \/ Propose
  <2>1. UNCHANGED <<caller, stage, aborted, status, reply, received, reader,
                    httpStatus, reportedModel, tokens, answer>>
    BY <1>10 DEF Record, Propose
  <2>2. used' \in {"proposal", "review", "recorded", "thrown", Null}
    BY <1>10 DEF Record, Propose
  <2> QED
    BY <2>1, <2>2
    DEF AInv, TypeOK, AnswerIsSound, AnsweredOnce, NotedAtEnd,
        ReadingHasResponse, BodyIsReleased, TimeoutIsTheDeadline,
        HttpFailuresAreNamed, Sound, FitsRecord
<1> QED
  BY <1>0, <1>1, <1>2, <1>3, <1>4, <1>5, <1>6, <1>7, <1>8, <1>9, <1>10
  DEF Next, Terminated

-----------------------------------------------------------------------------
THEOREM AInvHolds == Spec => []AInv
  BY InitIsInv, StepKeeps, PTL DEF Spec

\* The state of a call has its type, and a call that was never sent no answer.
THEOREM TypeOKHolds == Spec => []TypeOK
  <1>1. AInv => TypeOK
    BY DEF AInv
  <1> QED
    BY <1>1, AInvHolds, PTL

\* TIMEOUT is said exactly where the deadline answered, and then no model name
\* and no usage is claimed; a failed status is named whatever becomes of its body.
THEOREM ClassSaysWhatHappenedHolds == Spec => []ClassSaysWhatHappened
  <1>1. AInv => ClassSaysWhatHappened
    BY DEF AInv, ClassSaysWhatHappened
  <1> QED
    BY <1>1, AInvHolds, PTL

\* No answer holds a credential, the endpoint or the model's name.
THEOREM NothingSecretIsKeptHolds == Spec => []NothingSecretIsKept
  <1>1. AInv => NothingSecretIsKept
    BY DEF AInv, AnswerIsSound, NothingSecretIsKept, Sound, failed
  <1> QED
    BY <1>1, AInvHolds, PTL

\* The reader of a body is open only while the body is read in time.
THEOREM BodyIsReleasedHolds == Spec => []BodyIsReleased
  <1>1. AInv => BodyIsReleased
    BY DEF AInv
  <1> QED
    BY <1>1, AInvHolds, PTL

\* No step after the answer changes it: the half of a call that was abandoned
\* can still receive, fail or finish, and is not heard.
THEOREM AnswerStandsHolds == Spec => AnswerStands
  <1>1. AInv /\ [Next]_vars => [answer # Null => answer' = answer]_vars
    BY StepKeeps
  <1> QED
    BY <1>1, AInvHolds, PTL DEF Spec, AnswerStands

-----------------------------------------------------------------------------
\* Where columns are named by headers, every answer fits a record's contract.
LEMMA AnswersFit ==
    ASSUME AInv, Stack = "header", answer # Null
    PROVE  FitsRecord(answer)
<1>1. CASE Sound(answer.result)
  BY <1>1 DEF Sound, FitsRecord
<1>2. CASE answer.result = failed("TIMEOUT")
  BY <1>2 DEF failed, FitsRecord, FailureClasses
<1> QED
  BY <1>1, <1>2 DEF AInv, AnswerIsSound

\* Where columns are named by headers, a request that was spent is recorded,
\* whatever the endpoint answers and whatever the sizes are.  (With column IDs
\* this is false: see the run mapping_attempt_column_ids.)
THEOREM EveryAttemptIsRecordedHolds ==
    ASSUME Stack = "header"
    PROVE  Spec => []EveryAttemptIsRecorded
  <1> DEFINE Unsent == stage \in {"idle", "requesting", "reading", "done"} =>
                         used # "thrown"
  <1>1. Init => Unsent
    <2>1. Null # "thrown"
      BY NullIsNoValue
    <2> QED
      BY <2>1 DEF Init
  <1>2. AInv /\ Unsent /\ [Next]_vars => Unsent'
    <2> SUFFICES ASSUME AInv, Unsent, [Next]_vars PROVE Unsent'
      OBVIOUS
    <2>1. CASE RefuseInput
      BY <2>1 DEF RefuseInput
    <2>2. CASE Record
      <3>1. used' = "recorded"
        BY <2>2, AnswersFit DEF Record
      <3> QED
        BY <3>1
    <2>3. CASE Propose
      BY <2>3 DEF Propose
    <2>4. CASE ~RefuseInput /\ ~Record /\ ~Propose
      <3>1. used' = used
        BY <2>4 DEF Next, vars, Send, TransportFails, RespondWithoutBody,
           Respond, ChunkArrives, StreamFails, BodyEnds, CutShort, Deadline,
           Terminated
      <3>2. stage = "refused" => stage' = "refused"
        BY <2>4 DEF Next, vars, Send, TransportFails, RespondWithoutBody,
           Respond, ChunkArrives, StreamFails, BodyEnds, CutShort, Deadline,
           Terminated
      <3>3. stage \in {"idle", "refused", "requesting", "reading", "done"}
        BY DEF AInv, TypeOK
      <3> QED
        BY <3>1, <3>2, <3>3
    <2> QED
      BY <2>1, <2>2, <2>3, <2>4
  <1>3. AInv /\ Unsent => EveryAttemptIsRecorded
    BY DEF AInv, TypeOK, EveryAttemptIsRecorded
  <1> QED
    BY <1>1, <1>2, <1>3, AInvHolds, PTL DEF Spec

-----------------------------------------------------------------------------
\* What is returned says what happened and holds no secret, whatever the
\* endpoint answers and whenever the deadline passes.
THEOREM AnswersAreHonestHold == Spec => []AnswersAreHonest
  <1>1. ClassSaysWhatHappened /\ NothingSecretIsKept => AnswersAreHonest
    BY DEF AnswersAreHonest
  <1> QED
    BY <1>1, ClassSaysWhatHappenedHolds, NothingSecretIsKeptHolds, PTL
=============================================================================
