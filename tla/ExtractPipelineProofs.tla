------------------------ MODULE ExtractPipelineProofs ------------------------
(***************************************************************************)
(* Theorems about ExtractPipeline, for any sets of documents and events    *)
(* and any maxReceiveCount.                                                *)
(***************************************************************************)
EXTENDS ExtractPipeline, TLAPS

-------------------------------------------------------------------------------
\* What the operations of SqsMessage do to one message.
LEMMA MessageSteps ==
    ASSUME NEW m \in Message
    PROVE  /\ Absent \in Message /\ Fresh \in Message
           /\ m.receives < MaxReceive => Received(m) \in Message
           /\ Deleted(m) \in Message
           /\ Returned(m) \in Message
           /\ Absent.status = "absent"
           /\ Fresh.status = "visible" /\ Fresh.receives = 0
           /\ Fresh.receives < MaxReceive
           /\ Received(m).status = "inflight"
           /\ Received(m).receives = m.receives + 1
           /\ Deleted(m).status = "deleted"
           /\ Deleted(m).receives = m.receives
           /\ Returned(m).status \in {"visible", "dead"}
           /\ Returned(m).receives = m.receives
           /\ Returned(m).status = "visible" => Returned(m).receives < MaxReceive
  BY MaxReceiveAssumption
  DEF Message, Status, Absent, Fresh, Received, Deleted, Returned

-------------------------------------------------------------------------------
(* The inductive invariant, in named parts.                                 *)

\* A visible message has a delivery left.
DeliveriesLeft(q) ==
    \A n \in Notifications : q[n].status = "visible" => q[n].receives < MaxReceive

\* An invocation is at work exactly while its message is in flight.
ExtractRuns ==
    \A n \in Notifications : extractPc[n] # "idle" <=> extractQ[n].status = "inflight"

LlmRuns ==
    \A n \in Notifications : llmPc[n] # "idle" <=> llmQ[n].status = "inflight"

\* A document is in S3 exactly if S3 announced it.
RawAnnounced ==
    \A d \in Documents : d \in raw <=> \E n \in About(d) : extractQ[n].status # "absent"

\* Text, and later the qualifications, exist wherever the queues say so.
TextBehind ==
    \A n \in Notifications :
        (\/ extractPc[n] \in {"skipping", "stored", "forwarded", "finished"}
         \/ extractQ[n].status = "deleted")
        => Subject[n] \in extracted

QualificationsBehind ==
    \A n \in Notifications :
        (llmPc[n] = "stored" \/ llmQ[n].status = "deleted")
            => Subject[n] \in qualifications

Nested == qualifications \subseteq extracted /\ extracted \subseteq raw

\* Extracted text has been sent on, is about to be, or was given up.
HandedOn ==
    \A d \in extracted :
        \/ \E n \in About(d) : llmQ[n].status # "absent" \/ extractPc[n] = "stored"
        \/ "llm" \in dropped[d]

\* An invocation that may still send finds the slot of its message unused:
\* a notification whose invocation has sent once only skips from then on.
SentOnce ==
    \A n \in Notifications :
        /\ llmQ[n].status # "absent" => Subject[n] \in extracted
        /\ extractPc[n] \in {"extracting", "stored"} => llmQ[n].status = "absent"

IInv ==
    /\ TypeOK
    /\ DeliveriesLeft(extractQ)
    /\ DeliveriesLeft(llmQ)
    /\ ExtractRuns
    /\ LlmRuns
    /\ RawAnnounced
    /\ TextBehind
    /\ QualificationsBehind
    /\ Nested
    /\ SentOnce
    /\ HandedOn
    /\ EmbeddingAccounted

-------------------------------------------------------------------------------
LEMMA InitIInv == Init => IInv
  <1> SUFFICES ASSUME Init PROVE IInv
    OBVIOUS
  <1>1. Absent \in Message /\ Absent.status = "absent"
    BY MaxReceiveAssumption DEF Message, Status, Absent
  <1>2. TypeOK
    BY <1>1 DEF Init, TypeOK, ExtractPcs, LlmPcs
  <1>3. QED
    BY <1>1, <1>2
    DEF Init, IInv, DeliveriesLeft, ExtractRuns, LlmRuns, RawAnnounced, About,
        TextBehind, QualificationsBehind, Nested, SentOnce, HandedOn, EmbeddingAccounted

(* Every step of an invocation, a fault or an operator preserves IInv.      *)
LEMMA StepIInv ==
    ASSUME IInv, NEW n \in Notifications,
           ExtractLambda(n) \/ LlmLambda(n) \/ Environment(n)
    PROVE  IInv'
  <1> USE SubjectAssumption
  <1>0. /\ Subject[n] \in Documents
        /\ extractQ[n] \in Message
        /\ llmQ[n] \in Message
        /\ TypeOK
    BY DEF IInv, TypeOK
  <1>1. ASSUME Notify(n) PROVE IInv'
    <2>1. TypeOK'
      BY <1>0, <1>1, MessageSteps DEF Notify, TypeOK, IInv, DeliveriesLeft, ExtractPcs, LlmPcs
    <2>2. DeliveriesLeft(extractQ)' /\ DeliveriesLeft(llmQ)'
      BY <1>0, <1>1, MessageSteps DEF Notify, TypeOK, IInv, DeliveriesLeft
    <2>3. ExtractRuns' /\ LlmRuns'
      BY <1>0, <1>1, MessageSteps DEF Notify, TypeOK, IInv, ExtractRuns, LlmRuns, SentOnce
    <2>4. RawAnnounced' /\ Nested'
      BY <1>0, <1>1, MessageSteps DEF Notify, TypeOK, IInv, ExtractRuns, RawAnnounced, Nested, About
    <2>5. TextBehind' /\ QualificationsBehind'
      BY <1>0, <1>1, MessageSteps DEF Notify, TypeOK, IInv, TextBehind, QualificationsBehind
    <2>6. SentOnce'
      BY <1>0, <1>1, MessageSteps DEF Notify, TypeOK, IInv, ExtractRuns, LlmRuns, TextBehind, SentOnce
    <2>7. HandedOn' /\ EmbeddingAccounted'
      BY <1>0, <1>1, MessageSteps DEF Notify, TypeOK, IInv, ExtractRuns, HandedOn, EmbeddingAccounted, About
    <2>8. QED
      BY <2>1, <2>2, <2>3, <2>4, <2>5, <2>6, <2>7 DEF IInv
  <1>2. ASSUME ExtractReceive(n) PROVE IInv'
    <2>1. TypeOK'
      BY <1>0, <1>2, MessageSteps DEF ExtractReceive, TypeOK, IInv, DeliveriesLeft, ExtractPcs, LlmPcs
    <2>2. DeliveriesLeft(extractQ)' /\ DeliveriesLeft(llmQ)'
      BY <1>0, <1>2, MessageSteps DEF ExtractReceive, TypeOK, IInv, DeliveriesLeft
    <2>3. ExtractRuns' /\ LlmRuns'
      BY <1>0, <1>2, MessageSteps DEF ExtractReceive, TypeOK, IInv, ExtractRuns, LlmRuns, SentOnce
    <2>4. RawAnnounced' /\ Nested'
      BY <1>0, <1>2, MessageSteps DEF ExtractReceive, TypeOK, IInv, ExtractRuns, RawAnnounced, Nested, About
    <2>5. TextBehind' /\ QualificationsBehind'
      BY <1>0, <1>2, MessageSteps DEF ExtractReceive, TypeOK, IInv, TextBehind, QualificationsBehind
    <2>6. SentOnce'
      BY <1>0, <1>2, MessageSteps DEF ExtractReceive, TypeOK, IInv, ExtractRuns, LlmRuns, TextBehind, SentOnce
    <2>7. HandedOn' /\ EmbeddingAccounted'
      BY <1>0, <1>2, MessageSteps DEF ExtractReceive, TypeOK, IInv, ExtractRuns, HandedOn, EmbeddingAccounted, About
    <2>8. QED
      BY <2>1, <2>2, <2>3, <2>4, <2>5, <2>6, <2>7 DEF IInv
  <1>3. ASSUME ExtractCheck(n) PROVE IInv'
    <2>1. TypeOK'
      BY <1>0, <1>3, MessageSteps DEF ExtractCheck, TypeOK, IInv, DeliveriesLeft, ExtractPcs, LlmPcs
    <2>2. DeliveriesLeft(extractQ)' /\ DeliveriesLeft(llmQ)'
      BY <1>0, <1>3, MessageSteps DEF ExtractCheck, TypeOK, IInv, DeliveriesLeft
    <2>3. ExtractRuns' /\ LlmRuns'
      BY <1>0, <1>3, MessageSteps DEF ExtractCheck, TypeOK, IInv, ExtractRuns, LlmRuns, SentOnce
    <2>4. RawAnnounced' /\ Nested'
      BY <1>0, <1>3, MessageSteps DEF ExtractCheck, TypeOK, IInv, ExtractRuns, RawAnnounced, Nested, About
    <2>5. TextBehind' /\ QualificationsBehind'
      BY <1>0, <1>3, MessageSteps DEF ExtractCheck, TypeOK, IInv, TextBehind, QualificationsBehind
    <2>6. SentOnce'
      BY <1>0, <1>3, MessageSteps DEF ExtractCheck, TypeOK, IInv, ExtractRuns, LlmRuns, TextBehind, SentOnce
    <2>7. HandedOn' /\ EmbeddingAccounted'
      BY <1>0, <1>3, MessageSteps DEF ExtractCheck, TypeOK, IInv, ExtractRuns, HandedOn, EmbeddingAccounted, About
    <2>8. QED
      BY <2>1, <2>2, <2>3, <2>4, <2>5, <2>6, <2>7 DEF IInv
  <1>4. ASSUME ExtractStore(n) PROVE IInv'
    <2>1. TypeOK'
      BY <1>0, <1>4, MessageSteps DEF ExtractStore, TypeOK, IInv, DeliveriesLeft, ExtractPcs, LlmPcs
    <2>2. DeliveriesLeft(extractQ)' /\ DeliveriesLeft(llmQ)'
      BY <1>0, <1>4, MessageSteps DEF ExtractStore, TypeOK, IInv, DeliveriesLeft
    <2>3. ExtractRuns' /\ LlmRuns'
      BY <1>0, <1>4, MessageSteps DEF ExtractStore, TypeOK, IInv, ExtractRuns, LlmRuns, SentOnce
    <2>4. RawAnnounced' /\ Nested'
      BY <1>0, <1>4, MessageSteps DEF ExtractStore, TypeOK, IInv, ExtractRuns, RawAnnounced, Nested, About
    <2>5. TextBehind' /\ QualificationsBehind'
      BY <1>0, <1>4, MessageSteps DEF ExtractStore, TypeOK, IInv, TextBehind, QualificationsBehind
    <2>6. SentOnce'
      BY <1>0, <1>4, MessageSteps DEF ExtractStore, TypeOK, IInv, ExtractRuns, LlmRuns, TextBehind, SentOnce
    <2>7. HandedOn' /\ EmbeddingAccounted'
      BY <1>0, <1>4, MessageSteps DEF ExtractStore, TypeOK, IInv, ExtractRuns, HandedOn, EmbeddingAccounted, About
    <2>8. QED
      BY <2>1, <2>2, <2>3, <2>4, <2>5, <2>6, <2>7 DEF IInv
  <1>5. ASSUME ExtractForward(n) PROVE IInv'
    <2>1. TypeOK'
      BY <1>0, <1>5, MessageSteps DEF ExtractForward, TypeOK, IInv, DeliveriesLeft, ExtractPcs, LlmPcs
    <2>2. DeliveriesLeft(extractQ)' /\ DeliveriesLeft(llmQ)'
      BY <1>0, <1>5, MessageSteps DEF ExtractForward, TypeOK, IInv, DeliveriesLeft
    <2>3. ExtractRuns' /\ LlmRuns'
      BY <1>0, <1>5, MessageSteps DEF ExtractForward, TypeOK, IInv, ExtractRuns, LlmRuns, SentOnce
    <2>4. RawAnnounced' /\ Nested'
      BY <1>0, <1>5, MessageSteps DEF ExtractForward, TypeOK, IInv, ExtractRuns, RawAnnounced, Nested, About
    <2>5. TextBehind' /\ QualificationsBehind'
      BY <1>0, <1>5, MessageSteps DEF ExtractForward, TypeOK, IInv, TextBehind, QualificationsBehind
    <2>6. SentOnce'
      BY <1>0, <1>5, MessageSteps DEF ExtractForward, TypeOK, IInv, ExtractRuns, LlmRuns, TextBehind, SentOnce
    <2>7. HandedOn' /\ EmbeddingAccounted'
      BY <1>0, <1>5, MessageSteps DEF ExtractForward, TypeOK, IInv, ExtractRuns, HandedOn, EmbeddingAccounted, About
    <2>8. QED
      BY <2>1, <2>2, <2>3, <2>4, <2>5, <2>6, <2>7 DEF IInv
  <1>6. ASSUME ExtractEmbed(n) PROVE IInv'
    <2>1. TypeOK'
      BY <1>0, <1>6, MessageSteps DEF ExtractEmbed, TypeOK, IInv, DeliveriesLeft, ExtractPcs, LlmPcs
    <2>2. DeliveriesLeft(extractQ)' /\ DeliveriesLeft(llmQ)'
      BY <1>0, <1>6, MessageSteps DEF ExtractEmbed, TypeOK, IInv, DeliveriesLeft
    <2>3. ExtractRuns' /\ LlmRuns'
      BY <1>0, <1>6, MessageSteps DEF ExtractEmbed, TypeOK, IInv, ExtractRuns, LlmRuns, SentOnce
    <2>4. RawAnnounced' /\ Nested'
      BY <1>0, <1>6, MessageSteps DEF ExtractEmbed, TypeOK, IInv, ExtractRuns, RawAnnounced, Nested, About
    <2>5. TextBehind' /\ QualificationsBehind'
      BY <1>0, <1>6, MessageSteps DEF ExtractEmbed, TypeOK, IInv, TextBehind, QualificationsBehind
    <2>6. SentOnce'
      BY <1>0, <1>6, MessageSteps DEF ExtractEmbed, TypeOK, IInv, ExtractRuns, LlmRuns, TextBehind, SentOnce
    <2>7. HandedOn' /\ EmbeddingAccounted'
      BY <1>0, <1>6, MessageSteps DEF ExtractEmbed, TypeOK, IInv, ExtractRuns, HandedOn, EmbeddingAccounted, About
    <2>8. QED
      BY <2>1, <2>2, <2>3, <2>4, <2>5, <2>6, <2>7 DEF IInv
  <1>7. ASSUME ExtractAck(n) PROVE IInv'
    <2>1. TypeOK'
      BY <1>0, <1>7, MessageSteps DEF ExtractAck, TypeOK, IInv, DeliveriesLeft, ExtractPcs, LlmPcs
    <2>2. DeliveriesLeft(extractQ)' /\ DeliveriesLeft(llmQ)'
      BY <1>0, <1>7, MessageSteps DEF ExtractAck, TypeOK, IInv, DeliveriesLeft
    <2>3. ExtractRuns' /\ LlmRuns'
      BY <1>0, <1>7, MessageSteps DEF ExtractAck, TypeOK, IInv, ExtractRuns, LlmRuns, SentOnce
    <2>4. RawAnnounced' /\ Nested'
      BY <1>0, <1>7, MessageSteps DEF ExtractAck, TypeOK, IInv, ExtractRuns, RawAnnounced, Nested, About
    <2>5. TextBehind' /\ QualificationsBehind'
      BY <1>0, <1>7, MessageSteps DEF ExtractAck, TypeOK, IInv, TextBehind, QualificationsBehind
    <2>6. SentOnce'
      BY <1>0, <1>7, MessageSteps DEF ExtractAck, TypeOK, IInv, ExtractRuns, LlmRuns, TextBehind, SentOnce
    <2>7. HandedOn' /\ EmbeddingAccounted'
      BY <1>0, <1>7, MessageSteps DEF ExtractAck, TypeOK, IInv, ExtractRuns, HandedOn, EmbeddingAccounted, About
    <2>8. QED
      BY <2>1, <2>2, <2>3, <2>4, <2>5, <2>6, <2>7 DEF IInv
  <1>8. ASSUME extractPc[n] # "idle", ExtractGiveUp(n) PROVE IInv'
    <2>1. TypeOK'
      BY <1>0, <1>8, MessageSteps DEF ExtractGiveUp, TypeOK, IInv, DeliveriesLeft, ExtractPcs, LlmPcs, Undone
    <2>2. DeliveriesLeft(extractQ)' /\ DeliveriesLeft(llmQ)'
      BY <1>0, <1>8, MessageSteps DEF ExtractGiveUp, TypeOK, IInv, DeliveriesLeft
    <2>3. ExtractRuns' /\ LlmRuns'
      BY <1>0, <1>8, MessageSteps DEF ExtractGiveUp, TypeOK, IInv, ExtractRuns, LlmRuns, SentOnce
    <2>4. RawAnnounced' /\ Nested'
      BY <1>0, <1>8, MessageSteps DEF ExtractGiveUp, TypeOK, IInv, ExtractRuns, RawAnnounced, Nested, About
    <2>5. TextBehind' /\ QualificationsBehind'
      BY <1>0, <1>8, MessageSteps DEF ExtractGiveUp, TypeOK, IInv, TextBehind, QualificationsBehind
    <2>6. SentOnce'
      BY <1>0, <1>8, MessageSteps DEF ExtractGiveUp, TypeOK, IInv, ExtractRuns, LlmRuns, TextBehind, SentOnce
    <2>7. HandedOn' /\ EmbeddingAccounted'
      BY <1>0, <1>8, MessageSteps DEF ExtractGiveUp, TypeOK, IInv, ExtractRuns, HandedOn, EmbeddingAccounted, About, Undone
    <2>8. QED
      BY <2>1, <2>2, <2>3, <2>4, <2>5, <2>6, <2>7 DEF IInv
  <1>9. ASSUME ExtractRedrive(n) PROVE IInv'
    <2>1. TypeOK'
      BY <1>0, <1>9, MessageSteps DEF ExtractRedrive, TypeOK, IInv, DeliveriesLeft, ExtractPcs, LlmPcs
    <2>2. DeliveriesLeft(extractQ)' /\ DeliveriesLeft(llmQ)'
      BY <1>0, <1>9, MessageSteps DEF ExtractRedrive, TypeOK, IInv, DeliveriesLeft
    <2>3. ExtractRuns' /\ LlmRuns'
      BY <1>0, <1>9, MessageSteps DEF ExtractRedrive, TypeOK, IInv, ExtractRuns, LlmRuns, SentOnce
    <2>4. RawAnnounced' /\ Nested'
      BY <1>0, <1>9, MessageSteps DEF ExtractRedrive, TypeOK, IInv, ExtractRuns, RawAnnounced, Nested, About
    <2>5. TextBehind' /\ QualificationsBehind'
      BY <1>0, <1>9, MessageSteps DEF ExtractRedrive, TypeOK, IInv, TextBehind, QualificationsBehind
    <2>6. SentOnce'
      BY <1>0, <1>9, MessageSteps DEF ExtractRedrive, TypeOK, IInv, ExtractRuns, LlmRuns, TextBehind, SentOnce
    <2>7. HandedOn' /\ EmbeddingAccounted'
      BY <1>0, <1>9, MessageSteps DEF ExtractRedrive, TypeOK, IInv, ExtractRuns, HandedOn, EmbeddingAccounted, About
    <2>8. QED
      BY <2>1, <2>2, <2>3, <2>4, <2>5, <2>6, <2>7 DEF IInv
  <1>10. ASSUME LlmReceive(n) PROVE IInv'
    <2>1. TypeOK'
      BY <1>0, <1>10, MessageSteps DEF LlmReceive, TypeOK, IInv, DeliveriesLeft, ExtractPcs, LlmPcs
    <2>2. DeliveriesLeft(extractQ)' /\ DeliveriesLeft(llmQ)'
      BY <1>0, <1>10, MessageSteps DEF LlmReceive, TypeOK, IInv, DeliveriesLeft
    <2>3. ExtractRuns' /\ LlmRuns'
      BY <1>0, <1>10, MessageSteps DEF LlmReceive, TypeOK, IInv, ExtractRuns, LlmRuns, SentOnce
    <2>4. RawAnnounced' /\ Nested'
      BY <1>0, <1>10, MessageSteps DEF LlmReceive, TypeOK, IInv, ExtractRuns, RawAnnounced, Nested, About
    <2>5. TextBehind' /\ QualificationsBehind'
      BY <1>0, <1>10, MessageSteps DEF LlmReceive, TypeOK, IInv, TextBehind, QualificationsBehind
    <2>6. SentOnce'
      BY <1>0, <1>10, MessageSteps DEF LlmReceive, TypeOK, IInv, ExtractRuns, LlmRuns, TextBehind, SentOnce
    <2>7. HandedOn' /\ EmbeddingAccounted'
      BY <1>0, <1>10, MessageSteps DEF LlmReceive, TypeOK, IInv, ExtractRuns, HandedOn, EmbeddingAccounted, About
    <2>8. QED
      BY <2>1, <2>2, <2>3, <2>4, <2>5, <2>6, <2>7 DEF IInv
  <1>11. ASSUME LlmStore(n) PROVE IInv'
    <2>1. TypeOK'
      BY <1>0, <1>11, MessageSteps DEF LlmStore, TypeOK, IInv, DeliveriesLeft, ExtractPcs, LlmPcs
    <2>2. DeliveriesLeft(extractQ)' /\ DeliveriesLeft(llmQ)'
      BY <1>0, <1>11, MessageSteps DEF LlmStore, TypeOK, IInv, DeliveriesLeft
    <2>3. ExtractRuns' /\ LlmRuns'
      BY <1>0, <1>11, MessageSteps DEF LlmStore, TypeOK, IInv, ExtractRuns, LlmRuns, SentOnce
    <2>4. RawAnnounced' /\ Nested'
      BY <1>0, <1>11, MessageSteps DEF LlmStore, TypeOK, IInv, ExtractRuns, RawAnnounced, Nested, About
    <2>5. TextBehind' /\ QualificationsBehind'
      BY <1>0, <1>11, MessageSteps DEF LlmStore, TypeOK, IInv, TextBehind, QualificationsBehind
    <2>6. SentOnce'
      BY <1>0, <1>11, MessageSteps DEF LlmStore, TypeOK, IInv, ExtractRuns, LlmRuns, TextBehind, SentOnce
    <2>7. HandedOn' /\ EmbeddingAccounted'
      BY <1>0, <1>11, MessageSteps DEF LlmStore, TypeOK, IInv, ExtractRuns, HandedOn, EmbeddingAccounted, About
    <2>8. QED
      BY <2>1, <2>2, <2>3, <2>4, <2>5, <2>6, <2>7 DEF IInv
  <1>12. ASSUME LlmAck(n) PROVE IInv'
    <2>1. TypeOK'
      BY <1>0, <1>12, MessageSteps DEF LlmAck, TypeOK, IInv, DeliveriesLeft, ExtractPcs, LlmPcs
    <2>2. DeliveriesLeft(extractQ)' /\ DeliveriesLeft(llmQ)'
      BY <1>0, <1>12, MessageSteps DEF LlmAck, TypeOK, IInv, DeliveriesLeft
    <2>3. ExtractRuns' /\ LlmRuns'
      BY <1>0, <1>12, MessageSteps DEF LlmAck, TypeOK, IInv, ExtractRuns, LlmRuns, SentOnce
    <2>4. RawAnnounced' /\ Nested'
      BY <1>0, <1>12, MessageSteps DEF LlmAck, TypeOK, IInv, ExtractRuns, RawAnnounced, Nested, About
    <2>5. TextBehind' /\ QualificationsBehind'
      BY <1>0, <1>12, MessageSteps DEF LlmAck, TypeOK, IInv, TextBehind, QualificationsBehind
    <2>6. SentOnce'
      BY <1>0, <1>12, MessageSteps DEF LlmAck, TypeOK, IInv, ExtractRuns, LlmRuns, TextBehind, SentOnce
    <2>7. HandedOn' /\ EmbeddingAccounted'
      BY <1>0, <1>12, MessageSteps DEF LlmAck, TypeOK, IInv, ExtractRuns, HandedOn, EmbeddingAccounted, About
    <2>8. QED
      BY <2>1, <2>2, <2>3, <2>4, <2>5, <2>6, <2>7 DEF IInv
  <1>13. ASSUME LlmFail(n) PROVE IInv'
    <2>1. TypeOK'
      BY <1>0, <1>13, MessageSteps DEF LlmFail, TypeOK, IInv, DeliveriesLeft, ExtractPcs, LlmPcs
    <2>2. DeliveriesLeft(extractQ)' /\ DeliveriesLeft(llmQ)'
      BY <1>0, <1>13, MessageSteps DEF LlmFail, TypeOK, IInv, DeliveriesLeft
    <2>3. ExtractRuns' /\ LlmRuns'
      BY <1>0, <1>13, MessageSteps DEF LlmFail, TypeOK, IInv, ExtractRuns, LlmRuns, SentOnce
    <2>4. RawAnnounced' /\ Nested'
      BY <1>0, <1>13, MessageSteps DEF LlmFail, TypeOK, IInv, ExtractRuns, RawAnnounced, Nested, About
    <2>5. TextBehind' /\ QualificationsBehind'
      BY <1>0, <1>13, MessageSteps DEF LlmFail, TypeOK, IInv, TextBehind, QualificationsBehind
    <2>6. SentOnce'
      BY <1>0, <1>13, MessageSteps DEF LlmFail, TypeOK, IInv, ExtractRuns, LlmRuns, TextBehind, SentOnce
    <2>7. HandedOn' /\ EmbeddingAccounted'
      BY <1>0, <1>13, MessageSteps DEF LlmFail, TypeOK, IInv, ExtractRuns, HandedOn, EmbeddingAccounted, About
    <2>8. QED
      BY <2>1, <2>2, <2>3, <2>4, <2>5, <2>6, <2>7 DEF IInv
  <1>14. ASSUME LlmRedrive(n) PROVE IInv'
    <2>1. TypeOK'
      BY <1>0, <1>14, MessageSteps DEF LlmRedrive, TypeOK, IInv, DeliveriesLeft, ExtractPcs, LlmPcs
    <2>2. DeliveriesLeft(extractQ)' /\ DeliveriesLeft(llmQ)'
      BY <1>0, <1>14, MessageSteps DEF LlmRedrive, TypeOK, IInv, DeliveriesLeft
    <2>3. ExtractRuns' /\ LlmRuns'
      BY <1>0, <1>14, MessageSteps DEF LlmRedrive, TypeOK, IInv, ExtractRuns, LlmRuns, SentOnce
    <2>4. RawAnnounced' /\ Nested'
      BY <1>0, <1>14, MessageSteps DEF LlmRedrive, TypeOK, IInv, ExtractRuns, RawAnnounced, Nested, About
    <2>5. TextBehind' /\ QualificationsBehind'
      BY <1>0, <1>14, MessageSteps DEF LlmRedrive, TypeOK, IInv, TextBehind, QualificationsBehind
    <2>6. SentOnce'
      BY <1>0, <1>14, MessageSteps DEF LlmRedrive, TypeOK, IInv, ExtractRuns, LlmRuns, TextBehind, SentOnce
    <2>7. HandedOn' /\ EmbeddingAccounted'
      BY <1>0, <1>14, MessageSteps DEF LlmRedrive, TypeOK, IInv, ExtractRuns, HandedOn, EmbeddingAccounted, About
    <2>8. QED
      BY <2>1, <2>2, <2>3, <2>4, <2>5, <2>6, <2>7 DEF IInv
  <1>15. QED
    BY <1>1, <1>2, <1>3, <1>4, <1>5, <1>6, <1>7, <1>8, <1>9, <1>10, <1>11, <1>12, <1>13, <1>14
    DEF ExtractLambda, LlmLambda, Environment, ExtractFail, ExtractRaise, IInv

THEOREM Invariance == Spec => []IInv
  <1>1. Init => IInv
    BY InitIInv
  <1>2. IInv /\ [Next]_vars => IInv'
    <2> SUFFICES ASSUME IInv, [Next]_vars PROVE IInv'
      OBVIOUS
    <2>1. CASE Next
      <3>1. PICK n \in Notifications :
                    ExtractLambda(n) \/ LlmLambda(n) \/ Environment(n)
        BY <2>1 DEF Next
      <3>2. QED
        BY <3>1, StepIInv
    <2>2. CASE UNCHANGED vars
      BY <2>2
      DEF vars, IInv, TypeOK, DeliveriesLeft, ExtractRuns, LlmRuns, RawAnnounced,
          About, TextBehind, QualificationsBehind, Nested, SentOnce, HandedOn,
          EmbeddingAccounted
    <2>3. QED
      BY <2>1, <2>2
  <1>3. QED
    BY <1>1, <1>2, PTL DEF Spec

(* Every variable keeps its type; in particular no message is received more *)
(* often than maxReceiveCount allows.                                       *)
THEOREM TypeCorrect == Spec => []TypeOK
  <1>1. IInv => TypeOK
    BY DEF IInv
  <1>2. QED
    BY <1>1, Invariance, PTL

(* No uploaded document vanishes silently, however deliveries repeat and    *)
(* invocations die (ExtractPipeline, NothingVanishes).                      *)
THEOREM NothingVanishesHolds == Spec => []NothingVanishes
  <1>1. IInv => NothingVanishes
    <2> SUFFICES ASSUME IInv, NEW d \in raw,
                        ~InTransit(d), ~DeadLettered(d), "llm" \notin dropped[d]
                 PROVE  d \in qualifications
      BY DEF NothingVanishes
    <2>0. /\ d \in Documents
          /\ \A n \in About(d) : n \in Notifications /\ Subject[n] = d
          /\ \A n \in About(d) : extractQ[n] \in Message /\ llmQ[n] \in Message
      BY DEF IInv, TypeOK, About
    <2>1. \A n \in About(d) : /\ extractQ[n].status \in {"absent", "deleted"}
                             /\ llmQ[n].status \in {"absent", "deleted"}
      BY <2>0 DEF InTransit, DeadLettered, Pending, Message, Status
    <2>2. PICK n \in About(d) : extractQ[n].status # "absent"
      BY <2>0 DEF IInv, RawAnnounced
    <2>3. d \in extracted
      BY <2>0, <2>1, <2>2 DEF IInv, TextBehind
    <2>4. PICK m \in About(d) :
                  llmQ[m].status # "absent" \/ extractPc[m] = "stored"
      BY <2>3 DEF IInv, HandedOn
    <2>5. llmQ[m].status = "deleted"
      BY <2>0, <2>1, <2>4 DEF IInv, ExtractRuns
    <2>6. QED
      BY <2>0, <2>5 DEF IInv, QualificationsBehind
  <1>2. QED
    BY <1>1, Invariance, PTL

(* The embedding branch loses no document silently either                   *)
(* (ExtractPipeline, EmbeddingAccounted).                                   *)
THEOREM EmbeddingAccountedHolds == Spec => []EmbeddingAccounted
  <1>1. IInv => EmbeddingAccounted
    BY DEF IInv
  <1>2. QED
    BY <1>1, Invariance, PTL
-------------------------------------------------------------------------------
(* The stage implements DocumentProgress.                                   *)

\* Adding one document to one of the three prefixes moves its stage by one.
LEMMA StageMoves ==
    ASSUME TypeOK, Nested, NEW d \in Documents,
           \/ /\ d \in raw /\ d \notin extracted
              /\ extracted' = extracted \union {d}
              /\ UNCHANGED <<raw, qualifications>>
           \/ /\ d \in extracted /\ d \notin qualifications
              /\ qualifications' = qualifications \union {d}
              /\ UNCHANGED <<raw, extracted>>
           \/ /\ d \notin raw
              /\ raw' = raw \union {d}
              /\ UNCHANGED <<extracted, qualifications>>
    PROVE  Progress!Next
  <1>1. \A c \in Documents \ {d} : StageOf(c)' = StageOf(c)
    BY DEF StageOf
  <1>2. ASSUME NEW from, NEW to, StageOf(d) = from, StageOf(d)' = to
        PROVE  Progress!Advance(d, from, to)
    <2>1. stageMap[d] = from
      BY <1>2 DEF stageMap
    <2>2. \A c \in Documents :
             stageMap'[c] = IF c = d THEN to ELSE stageMap[c]
      BY <1>1, <1>2 DEF stageMap
    <2>3. stageMap' = [stageMap EXCEPT ![d] = to]
      BY <2>2 DEF stageMap
    <2>4. QED
      BY <2>1, <2>3 DEF Progress!Advance
  <1>3. CASE d \in raw /\ d \notin extracted
             /\ extracted' = extracted \union {d} /\ UNCHANGED <<raw, qualifications>>
    <2>1. StageOf(d) = "uploaded" /\ StageOf(d)' = "extracted"
      BY <1>3 DEF StageOf, Nested
    <2>2. QED
      BY <1>2, <2>1 DEF Progress!Next
  <1>4. CASE d \in extracted /\ d \notin qualifications
             /\ qualifications' = qualifications \union {d} /\ UNCHANGED <<raw, extracted>>
    <2>1. StageOf(d) = "extracted" /\ StageOf(d)' = "qualified"
      BY <1>4 DEF StageOf, Nested
    <2>2. QED
      BY <1>2, <2>1 DEF Progress!Next
  <1>5. CASE d \notin raw /\ raw' = raw \union {d} /\ UNCHANGED <<extracted, qualifications>>
    <2>1. StageOf(d) = "absent" /\ StageOf(d)' = "uploaded"
      BY <1>5 DEF StageOf, Nested
    <2>2. QED
      BY <1>2, <2>1 DEF Progress!Next
  <1>6. QED
    BY <1>3, <1>4, <1>5

LEMMA StepProgress ==
    ASSUME IInv, [Next]_vars
    PROVE  [Progress!Next]_stageMap
  <1>1. CASE UNCHANGED <<raw, extracted, qualifications>>
    <2>1. stageMap' = stageMap
      BY <1>1 DEF stageMap, StageOf
    <2>2. QED
      BY <2>1
  <1>2. CASE ~ UNCHANGED <<raw, extracted, qualifications>>
    <2>1. PICK n \in Notifications :
                  ExtractLambda(n) \/ LlmLambda(n) \/ Environment(n)
      BY <1>2 DEF Next, vars
    <2>2. TypeOK /\ Nested /\ Subject[n] \in Documents
      BY SubjectAssumption DEF IInv
    <2>3. CASE Notify(n)
      BY <1>2, <2>2, <2>3, StageMoves DEF Notify
    <2>4. CASE ExtractStore(n)
      <3>1. Subject[n] \in raw
        BY <2>2, <2>4 DEF IInv, ExtractRuns, RawAnnounced, ExtractStore, About
      <3>2. QED
        BY <1>2, <2>2, <2>4, <3>1, StageMoves DEF ExtractStore
    <2>5. CASE LlmStore(n)
      BY <1>2, <2>2, <2>5, StageMoves DEF LlmStore
    <2>6. QED
      BY <1>2, <2>1, <2>3, <2>4, <2>5
      DEF ExtractLambda, LlmLambda, Environment, ExtractReceive, ExtractCheck,
          ExtractForward, ExtractEmbed, ExtractAck, ExtractRaise, ExtractFail,
          ExtractGiveUp, ExtractRedrive, LlmReceive, LlmAck, LlmFail, LlmRedrive
  <1>3. QED
    BY <1>1, <1>2

(* Whatever the queues do, each document goes through the stages of         *)
(* DocumentProgress in order and never back (ImplementsProgress).           *)
THEOREM Refinement == Spec => ImplementsProgress
  <1>1. Init => Progress!Init
    BY DEF Init, Progress!Init, stageMap, StageOf
  <1>2. IInv /\ [Next]_vars => [Progress!Next]_stageMap
    BY StepProgress
  <1>3. QED
    BY <1>1, <1>2, Invariance, PTL DEF Spec, ImplementsProgress, Progress!Spec

===============================================================================
