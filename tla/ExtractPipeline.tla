--------------------------- MODULE ExtractPipeline ---------------------------
(***************************************************************************)
(* The text stage of the realtime stack: an attachment lands in S3, the    *)
(* notification reaches the extraction queue of its format, the extraction *)
(* Lambda (extract_pdf / extract_hwp / extract_hwpx, the same _process in  *)
(* all three) stores the text and hands the document on to the LLM queue   *)
(* and the embedding queue, and the LLM Lambda stores the qualifications.  *)
(*                                                                         *)
(* A notification is one S3 event about one document and becomes one       *)
(* message of the extraction queue.  An invocation working on it sends at  *)
(* most one message to each of the two next queues (once the text is       *)
(* stored, a redelivery only skips), so those carry the same index.        *)
(***************************************************************************)
EXTENDS SqsMessage

CONSTANTS
    Documents,     \* raw keys, one per attachment
    Notifications, \* S3 events sent about them, repeated ones included (bound)
    Subject,       \* the document each notification is about
    Unreadable     \* documents no extractor can open: the handler always raises

ASSUME SubjectAssumption == Subject \in [Notifications -> Documents]

ASSUME UnreadableAssumption == Unreadable \subseteq Documents

VARIABLES
    raw,            \* documents present under raw/downloads/
    extracted,      \* documents present under extracted/
    qualifications, \* documents present under qualifications/
    extractQ,       \* extraction queue, by notification
    extractPc,      \* where the invocation working on it is
    llmQ,           \* LLM queue, by the notification whose invocation sent it
    llmPc,
    embedSent,      \* notifications whose invocation reached the embedding queue
    dropped         \* history: hand-overs a document's invocations gave up

vars == <<raw, extracted, qualifications, extractQ, extractPc,
          llmQ, llmPc, embedSent, dropped>>

ExtractPcs == {"idle", "checking", "skipping", "extracting", "stored",
               "forwarded", "finished"}

LlmPcs == {"idle", "extracting", "stored"}

TypeOK ==
    /\ raw \subseteq Documents
    /\ extracted \subseteq Documents
    /\ qualifications \subseteq Documents
    /\ extractQ \in [Notifications -> Message]
    /\ extractPc \in [Notifications -> ExtractPcs]
    /\ llmQ \in [Notifications -> Message]
    /\ llmPc \in [Notifications -> LlmPcs]
    /\ embedSent \subseteq Notifications
    /\ dropped \in [Documents -> SUBSET {"llm", "embed"}]

Init ==
    /\ raw = {}
    /\ extracted = {}
    /\ qualifications = {}
    /\ extractQ = [n \in Notifications |-> Absent]
    /\ extractPc = [n \in Notifications |-> "idle"]
    /\ llmQ = [n \in Notifications |-> Absent]
    /\ llmPc = [n \in Notifications |-> "idle"]
    /\ embedSent = {}
    /\ dropped = [d \in Documents |-> {}]

-------------------------------------------------------------------------------
(* The extraction Lambda.                                                   *)

\* The downloader writes the object, or S3 repeats the notification of an
\* object that is already there.
Notify(n) ==
    /\ extractQ[n].status = "absent"
    /\ raw' = raw \union {Subject[n]}
    /\ extractQ' = [extractQ EXCEPT ![n] = Fresh]
    /\ UNCHANGED <<extracted, qualifications, extractPc, llmQ, llmPc,
                   embedSent, dropped>>

ExtractReceive(n) ==
    /\ extractQ[n].status = "visible"
    /\ extractQ' = [extractQ EXCEPT ![n] = Received(@)]
    /\ extractPc' = [extractPc EXCEPT ![n] = "checking"]
    /\ UNCHANGED <<raw, extracted, qualifications, llmQ, llmPc, embedSent,
                   dropped>>

\* s3.object_exists(extracted_key): a document already extracted is skipped.
ExtractCheck(n) ==
    /\ extractPc[n] = "checking"
    /\ extractPc' = [extractPc EXCEPT ![n] =
                        IF Subject[n] \in extracted THEN "skipping" ELSE "extracting"]
    /\ UNCHANGED <<raw, extracted, qualifications, extractQ, llmQ, llmPc,
                   embedSent, dropped>>

ExtractStore(n) ==
    /\ extractPc[n] = "extracting"
    /\ Subject[n] \notin Unreadable
    /\ extracted' = extracted \union {Subject[n]}
    /\ extractPc' = [extractPc EXCEPT ![n] = "stored"]
    /\ UNCHANGED <<raw, qualifications, extractQ, llmQ, llmPc, embedSent,
                   dropped>>

\* Mutated form: the embedding branch is forgotten.
ExtractForwardOnly(n) ==
    /\ extractPc[n] = "stored"
    /\ llmQ' = [llmQ EXCEPT ![n] = Fresh]
    /\ extractPc' = [extractPc EXCEPT ![n] = "finished"]
    /\ UNCHANGED <<raw, extracted, qualifications, extractQ, llmPc, embedSent,
                   dropped>>

\* sqs.send_to_next_queue
ExtractForward(n) ==
    /\ extractPc[n] = "stored"
    /\ llmQ' = [llmQ EXCEPT ![n] = Fresh]
    /\ extractPc' = [extractPc EXCEPT ![n] = "forwarded"]
    /\ UNCHANGED <<raw, extracted, qualifications, extractQ, llmPc, embedSent,
                   dropped>>

\* _send_to_embed_queue: an error is logged and swallowed.
ExtractEmbed(n) ==
    /\ extractPc[n] = "forwarded"
    /\ \/ /\ embedSent' = embedSent \union {n}
          /\ UNCHANGED dropped
       \/ /\ dropped' = [dropped EXCEPT ![Subject[n]] = @ \union {"embed"}]
          /\ UNCHANGED embedSent
    /\ extractPc' = [extractPc EXCEPT ![n] = "finished"]
    /\ UNCHANGED <<raw, extracted, qualifications, extractQ, llmQ, llmPc>>

ExtractAck(n) ==
    /\ extractPc[n] \in {"skipping", "finished"}
    /\ extractQ' = [extractQ EXCEPT ![n] = Deleted(@)]
    /\ extractPc' = [extractPc EXCEPT ![n] = "idle"]
    /\ UNCHANGED <<raw, extracted, qualifications, llmQ, llmPc, embedSent,
                   dropped>>

\* The hand-overs an invocation that dies at step pc leaves undone.
Undone(pc) == CASE pc = "stored"    -> {"llm", "embed"}
                [] pc = "forwarded" -> {"embed"}
                [] OTHER            -> {}

\* Mutated form: a failed invocation cleans up the text it may have stored.
ExtractGiveUpAndClean(n) ==
    /\ extractQ' = [extractQ EXCEPT ![n] = Returned(@)]
    /\ extractPc' = [extractPc EXCEPT ![n] = "idle"]
    /\ extracted' = extracted \ {Subject[n]}
    /\ dropped' = [dropped EXCEPT ![Subject[n]] = @ \union Undone(extractPc[n])]
    /\ UNCHANGED <<raw, qualifications, llmQ, llmPc, embedSent>>

\* The invocation ends without success: its message is returned to the queue.
ExtractGiveUp(n) ==
    /\ extractQ' = [extractQ EXCEPT ![n] = Returned(@)]
    /\ extractPc' = [extractPc EXCEPT ![n] = "idle"]
    /\ dropped' = [dropped EXCEPT ![Subject[n]] = @ \union Undone(extractPc[n])]
    /\ UNCHANGED <<raw, extracted, qualifications, llmQ, llmPc, embedSent>>

\* An AWS call raises, or the Lambda times out, at any step.
ExtractFail(n) ==
    /\ extractPc[n] # "idle"
    /\ ExtractGiveUp(n)

\* No extractor opens the document: the handler logs and re-raises.
ExtractRaise(n) ==
    /\ extractPc[n] = "extracting"
    /\ Subject[n] \in Unreadable
    /\ ExtractGiveUp(n)

\* An operator moves the message back from the dead-letter queue.
ExtractRedrive(n) ==
    /\ extractQ[n].status = "dead"
    /\ extractQ' = [extractQ EXCEPT ![n] = Fresh]
    /\ UNCHANGED <<raw, extracted, qualifications, extractPc, llmQ, llmPc,
                   embedSent, dropped>>

-------------------------------------------------------------------------------
(* The LLM Lambda: no duplicate check, the result key is overwritten.       *)

LlmReceive(n) ==
    /\ llmQ[n].status = "visible"
    /\ llmQ' = [llmQ EXCEPT ![n] = Received(@)]
    /\ llmPc' = [llmPc EXCEPT ![n] = "extracting"]
    /\ UNCHANGED <<raw, extracted, qualifications, extractQ, extractPc,
                   embedSent, dropped>>

\* get_object(extracted key), the model call, put_object(qualifications key).
LlmStore(n) ==
    /\ llmPc[n] = "extracting"
    /\ Subject[n] \in extracted
    /\ qualifications' = qualifications \union {Subject[n]}
    /\ llmPc' = [llmPc EXCEPT ![n] = "stored"]
    /\ UNCHANGED <<raw, extracted, extractQ, extractPc, llmQ, embedSent,
                   dropped>>

\* Mutated form: the message is deleted as soon as it is read.
LlmAckEarly(n) ==
    /\ llmPc[n] = "extracting"
    /\ llmQ' = [llmQ EXCEPT ![n] = Deleted(@)]
    /\ llmPc' = [llmPc EXCEPT ![n] = "idle"]
    /\ UNCHANGED <<raw, extracted, qualifications, extractQ, extractPc,
                   embedSent, dropped>>

LlmAck(n) ==
    /\ llmPc[n] = "stored"
    /\ llmQ' = [llmQ EXCEPT ![n] = Deleted(@)]
    /\ llmPc' = [llmPc EXCEPT ![n] = "idle"]
    /\ UNCHANGED <<raw, extracted, qualifications, extractQ, extractPc,
                   embedSent, dropped>>

\* The model call fails, its answer does not validate, or the Lambda dies.
LlmFail(n) ==
    /\ llmPc[n] # "idle"
    /\ llmQ' = [llmQ EXCEPT ![n] = Returned(@)]
    /\ llmPc' = [llmPc EXCEPT ![n] = "idle"]
    /\ UNCHANGED <<raw, extracted, qualifications, extractQ, extractPc,
                   embedSent, dropped>>

LlmRedrive(n) ==
    /\ llmQ[n].status = "dead"
    /\ llmQ' = [llmQ EXCEPT ![n] = Fresh]
    /\ UNCHANGED <<raw, extracted, qualifications, extractQ, extractPc, llmPc,
                   embedSent, dropped>>

-------------------------------------------------------------------------------
ExtractLambda(n) ==
    \/ ExtractReceive(n)
    \/ ExtractCheck(n)
    \/ ExtractStore(n)
    \/ ExtractForward(n)
    \/ ExtractEmbed(n)
    \/ ExtractAck(n)
    \/ ExtractRaise(n)

LlmLambda(n) ==
    \/ LlmReceive(n)
    \/ LlmStore(n)
    \/ LlmAck(n)

Environment(n) ==
    \/ Notify(n)
    \/ ExtractFail(n)
    \/ ExtractRedrive(n)
    \/ LlmFail(n)
    \/ LlmRedrive(n)

Next == \E n \in Notifications :
            ExtractLambda(n) \/ LlmLambda(n) \/ Environment(n)

Spec == Init /\ [][Next]_vars

\* SQS keeps offering a visible message and a running invocation ends within
\* its timeout; nothing makes S3, the faults or the operator act.
Fairness ==
    \A n \in Notifications :
        WF_vars(ExtractLambda(n)) /\ WF_vars(LlmLambda(n))

FairSpec == Spec /\ Fairness

-------------------------------------------------------------------------------
(* Properties.                                                              *)

About(d) == {n \in Notifications : Subject[n] = d}

DeadLettered(d) == \E n \in About(d) : \/ extractQ[n].status = "dead"
                                      \/ llmQ[n].status = "dead"

InTransit(d) == \E n \in About(d) : Pending(extractQ[n]) \/ Pending(llmQ[n])

Forwarded(d) == {n \in About(d) : llmQ[n].status # "absent"}

(* No uploaded document vanishes silently: some queue still owes it a       *)
(* delivery, a dead-letter queue holds it, its qualifications are stored,   *)
(* or an extraction died between the put of the text and the send.          *)
NothingVanishes ==
    \A d \in raw : \/ InTransit(d)
                   \/ DeadLettered(d)
                   \/ d \in qualifications
                   \/ "llm" \in dropped[d]

(* The same for the embedding branch: an extracted document was offered to  *)
(* the embedding queue, is about to be, or one invocation gave that up.     *)
EmbeddingAccounted ==
    \A d \in extracted :
        \/ \E n \in About(d) : \/ n \in embedSent
                               \/ extractPc[n] \in {"stored", "forwarded"}
        \/ "embed" \in dropped[d]

(* A document is settled once its qualifications exist, a dead-letter queue *)
(* shows it to the operator, or its hand-over was given up.                 *)
Settled(d) == d \in qualifications \/ DeadLettered(d) \/ "llm" \in dropped[d]

(* Retries are bounded: every uploaded document settles.                    *)
EventuallySettled == \A d \in Documents : (d \in raw) ~> Settled(d)

(* The detailed stage implements DocumentProgress.                          *)
StageOf(d) == CASE d \in qualifications -> "qualified"
                [] d \in extracted \ qualifications -> "extracted"
                [] d \in raw \ (extracted \union qualifications) -> "uploaded"
                [] OTHER -> "absent"

stageMap == [d \in Documents |-> StageOf(d)]

Progress == INSTANCE DocumentProgress WITH stage <- stageMap

ImplementsProgress == Progress!Spec

(* What the comment of _process says of a skipped delivery: the text being  *)
(* there means the document was processed.  Once nothing about a document   *)
(* is under way and no dead-letter queue shows it, a message deleted from   *)
(* the extraction queue therefore stands for a document the LLM queue got.  *)
AckedWasForwarded ==
    \A n \in Notifications :
        LET d == Subject[n] IN
        extractQ[n].status = "deleted" /\ ~InTransit(d) /\ ~DeadLettered(d)
            => Forwarded(d) # {}

===============================================================================
