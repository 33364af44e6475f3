-------------------------- MODULE VectorStageProofs --------------------------
(***************************************************************************)
(* Theorems about VectorStage, for any sets of documents, bids and         *)
(* requests, any number of chunks and titles and any maxReceiveCount.      *)
(***************************************************************************)
EXTENDS VectorStage, TLAPS

-------------------------------------------------------------------------------
\* What the operations of SqsMessage do to one message.
LEMMA MessageSteps ==
    ASSUME NEW m \in Message
    PROVE  /\ Absent \in Message /\ Fresh \in Message
           /\ m.receives < MaxReceive => Received(m) \in Message
           /\ Deleted(m) \in Message
           /\ Returned(m) \in Message
           /\ Absent.status = "absent"
           /\ Fresh.status = "visible" /\ Fresh.receives = 0
           /\ Fresh.receives < MaxReceive
           /\ Received(m).status = "inflight"
           /\ Received(m).receives = m.receives + 1
           /\ Deleted(m).status = "deleted"
           /\ Deleted(m).receives = m.receives
           /\ Returned(m).status \in {"visible", "dead"}
           /\ Returned(m).receives = m.receives
           /\ Returned(m).status = "visible" => Returned(m).receives < MaxReceive
  BY MaxReceiveAssumption
  DEF Message, Status, Absent, Fresh, Received, Deleted, Returned

-------------------------------------------------------------------------------
(* The inductive invariant, in named parts.                                 *)

\* A visible message has a delivery left, a delivered one has a number.
DeliveriesLeft ==
    \A r \in Requests :
        /\ embedQ[r].status = "absent" => embedQ[r].receives = 0
        /\ embedQ[r].status = "visible" => embedQ[r].receives < MaxReceive
        /\ embedQ[r].status = "inflight" => embedQ[r].receives > 0
        /\ \A k \in Deliveries :
               indexQ[r][k].status = "visible" => indexQ[r][k].receives < MaxReceive

\* An invocation is at work only while its message is in flight.
Runs ==
    \A r \in Requests :
        /\ embedPc[r] # "idle" => embedQ[r].status = "inflight"
        /\ \A k \in Deliveries :
               indexPc[r][k] # "idle" => indexQ[r][k].status = "inflight"

\* A delivery that has not sent its message yet finds the slot unused.
SlotsFree ==
    \A r \in Requests, k \in Deliveries :
        \/ k > embedQ[r].receives
        \/ k = embedQ[r].receives /\ embedPc[r] # "idle"
        => indexQ[r][k].status = "absent"

\* An invocation about to send has stored the vectors.
StoredBehind ==
    \A r \in Requests : embedPc[r] = "stored" => vectors[Subject[r]].stored

\* A title that was read once is there for good, in some wording.
TitlesKnown ==
    /\ \A d \in Documents : vectors[d].title # 0 => title[BidOf[d]] # 0
    /\ \A r \in Requests : embedTitle[r] # 0 => title[BidOf[Subject[r]]] # 0

\* The embedding queue still owes something for d, or shows that it failed.
EmbedOwes(d) ==
    \E r \in About(d) : Pending(embedQ[r]) \/ embedQ[r].status = "dead"

\* A message of the index queue that will write the text of d, or failed to.
IndexOwes(d) ==
    \E r \in About(d), k \in Deliveries :
        Pending(indexQ[r][k]) \/ indexQ[r][k].status = "dead"

\* The same for its title: an invocation that has read none does not count.
Carries(r, k) ==
    \/ indexQ[r][k].status \in {"visible", "dead"}
    \/ indexPc[r][k] = "reading"
    \/ indexPc[r][k] = "writing" /\ indexTitle[r][k] # 0

TitleOwed(d) == \E r \in About(d), k \in Deliveries : Carries(r, k)

RequestKept ==
    \A r \in Requests :
        embedQ[r].status # "absent" /\ chunks[Subject[r]] # 0
            => vectors[Subject[r]].stored \/ EmbedOwes(Subject[r])

BodyKept ==
    \A d \in Documents :
        vectors[d].stored => Indexed(d) \subseteq bodyDocs \/ EmbedOwes(d) \/ IndexOwes(d)

TitleKept ==
    \A d \in Documents :
        vectors[d].title # 0 => titleDocs[BidOf[d]] # 0 \/ EmbedOwes(d) \/ TitleOwed(d)

\* While nothing else moves, the script writes the titles the bids have.
CalmWork ==
    calm =>
        /\ script # "off" => Quiet
        /\ script = "listed" => targets = title
        /\ script = "writing" =>
               \A b \in Bids : IF targets[b] = 0
                               THEN title[b] = 0 \/ titleDocs[b] = title[b]
                               ELSE targets[b] = title[b]
        /\ script = "done" => TitlesRepaired

Bookkeeping == DeliveriesLeft /\ Runs /\ SlotsFree

Owing ==
    /\ StoredBehind
    /\ MessagesHaveVectors
    /\ TitlesKnown
    /\ RequestKept
    /\ BodyKept
    /\ TitleKept

IInv == TypeOK /\ Bookkeeping /\ Owing /\ CalmWork

LEMMA InitIInv == Init => IInv
  <1> SUFFICES ASSUME Init PROVE IInv
    OBVIOUS
  <1>1. Absent \in Message /\ Absent.status = "absent" /\ Absent.receives = 0
    BY MaxReceiveAssumption DEF Message, Status, Absent
  <1>2. TypeOK
    <2>1. /\ 0 \in Titles
          /\ [stored |-> FALSE, title |-> 0] \in [stored : BOOLEAN, title : Titles]
      BY DocumentsAssumption DEF Titles
    <2>2. QED
      BY <1>1, <2>1 DEF Init, TypeOK, EmbedPcs, IndexPcs
  <1>3. Bookkeeping
    BY <1>1 DEF Init, Bookkeeping, DeliveriesLeft, Runs, SlotsFree
  <1>4. Owing
    BY <1>1, DocumentsAssumption
    DEF Init, Owing, StoredBehind, MessagesHaveVectors, TitlesKnown, RequestKept, BodyKept, TitleKept
  <1>5. CalmWork
    BY DEF Init, CalmWork
  <1>6. QED
    BY <1>2, <1>3, <1>4, <1>5 DEF IInv

(* A send fills one slot and leaves the others alone.                       *)
LEMMA SentType ==
    ASSUME TypeOK, NEW r \in Requests
    PROVE  /\ Sent(r) \in [Requests -> [Deliveries -> Message]]
           /\ \A q \in Requests, k \in Deliveries :
                  Sent(r)[q][k] = IF q = r /\ k = embedQ[r].receives
                                  THEN Fresh ELSE indexQ[q][k]
  <1>1. Fresh \in Message
    BY MaxReceiveAssumption DEF Fresh, Message, Status
  <1>2. QED
    BY <1>1 DEF TypeOK, Sent

(* The deliveries of a message are numbered.                                *)
LEMMA Counts ==
    ASSUME TypeOK
    PROVE  /\ Deliveries \subseteq Nat
           /\ \A q \in Requests :
                  /\ embedQ[q] \in Message
                  /\ embedQ[q].receives \in Nat
                  /\ embedQ[q].receives > 0 => embedQ[q].receives \in Deliveries
                  /\ \A j \in Deliveries : indexQ[q][j] \in Message
  BY MaxReceiveAssumption DEF TypeOK, Deliveries, Message

LEMMA BodyType ==
    ASSUME UNCHANGED chunks
    PROVE  /\ (UNION {Indexed(d) : d \in Documents})' = UNION {Indexed(d) : d \in Documents}
           /\ \A d \in Documents : Indexed(d) \subseteq UNION {Indexed(e) : e \in Documents}
  BY DEF Indexed

LEMMA EmbedIInv ==
    ASSUME IInv, UNCHANGED chunks, NEW r \in Requests,
           Request(r) \/ EmbedLambda(r) \/ EmbedFail(r)
    PROVE  IInv'
  <1> USE DocumentsAssumption, MaxReceiveAssumption
  <1>0. /\ TypeOK /\ Bookkeeping /\ Owing /\ CalmWork
        /\ \A d \in Documents : Indexed(d)' = Indexed(d)
        /\ \A d \in Documents : chunks[d] = 0 => Indexed(d) = {}
        /\ Subject[r] \in Documents /\ BidOf[Subject[r]] \in Bids
        /\ embedQ[r] \in Message
    BY DEF IInv, TypeOK, Indexed
  <1>1. ASSUME Request(r) PROVE IInv'
    <2>0. /\ \A q \in Requests :
                 embedQ'[q] = IF q = r THEN Fresh ELSE embedQ[q]
          /\ embedQ[r].status = "absent"
          /\ UNCHANGED <<embedPc, embedTitle>>
          /\ UNCHANGED <<indexQ, indexPc, indexTitle>>
      BY <1>0, <1>1, SentType DEF Request, TypeOK
    <2>1. TypeOK'
      BY <1>0, <1>1, MessageSteps, SentType, BodyType
      DEF Request, TypeOK, DeliveriesLeft, Runs, Bookkeeping, EmbedPcs, IndexPcs,
          Titles, Deliveries
    <2>2. Bookkeeping'
      <3>1. DeliveriesLeft'
        BY <1>0, <1>1, <2>0, MessageSteps, Counts
        DEF DeliveriesLeft, Runs, SlotsFree, Bookkeeping
      <3>2. Runs'
        BY <1>0, <1>1, <2>0, MessageSteps, Counts
        DEF Runs, DeliveriesLeft, SlotsFree, Bookkeeping
      <3>3. SlotsFree'
        BY <1>0, <1>1, <2>0, MessageSteps, Counts
        DEF SlotsFree, DeliveriesLeft, Runs, Bookkeeping
      <3>4. QED
        BY <3>1, <3>2, <3>3 DEF Bookkeeping
    <2>3. StoredBehind' /\ MessagesHaveVectors' /\ TitlesKnown'
      BY <1>0, <1>1, <2>0, MessageSteps, Counts
      DEF Request, Runs, Bookkeeping, StoredBehind, MessagesHaveVectors, TitlesKnown,
          Owing
    <2>4. /\ \A d \in Documents : EmbedOwes(d) => EmbedOwes(d)'
          /\ \A d \in Documents : IndexOwes(d) => IndexOwes(d)'
          /\ \A d \in Documents : TitleOwed(d) => TitleOwed(d)'
          /\ EmbedOwes(Subject[r])'
      <3>1. \A d \in Documents : EmbedOwes(d) => EmbedOwes(d)'
        BY <1>0, <1>1, <2>0, MessageSteps, Counts
        DEF EmbedOwes, About, Pending, Runs, DeliveriesLeft, Bookkeeping
      <3>2. \A d \in Documents : IndexOwes(d) => IndexOwes(d)'
        BY <1>0, <1>1, <2>0, MessageSteps, Counts
        DEF IndexOwes, About, Pending, Runs, DeliveriesLeft, Bookkeeping
      <3>3. \A d \in Documents : TitleOwed(d) => TitleOwed(d)'
        BY <1>0, <1>1, <2>0, MessageSteps, Counts
        DEF TitleOwed, Carries, About, Pending, Runs, DeliveriesLeft, Bookkeeping
      <3>4. EmbedOwes(Subject[r])'
        BY <1>0, <1>1, <2>0, MessageSteps, Counts
        DEF EmbedOwes, About, Pending, Runs, DeliveriesLeft, Bookkeeping
      <3>5. QED
        BY <3>1, <3>2, <3>3, <3>4
    <2>5. RequestKept'
      BY <1>0, <1>1, <2>0, <2>4, MessageSteps
      DEF Request, Owing, RequestKept, StoredBehind, Runs, Bookkeeping
    <2>6. BodyKept'
      BY <1>0, <1>1, <2>4 DEF Request, TypeOK, Owing, BodyKept, TitlesKnown
    <2>7. TitleKept'
      BY <1>0, <1>1, <2>4 DEF Request, TypeOK, Titles, Owing, TitleKept, TitlesKnown
    <2>8. CalmWork'
      BY <1>0, <1>1, <2>0
      DEF Request, Runs, Bookkeeping, CalmWork, Quiet, TitlesRepaired, Pending
    <2>9. QED
      BY <2>1, <2>2, <2>3, <2>5, <2>6, <2>7, <2>8 DEF IInv, Owing
  <1>2. ASSUME EmbedReceive(r) PROVE IInv'
    <2>0. /\ \A q \in Requests :
                 embedQ'[q] = IF q = r THEN Received(embedQ[q]) ELSE embedQ[q]
          /\ \A q \in Requests :
                 embedPc'[q] = IF q = r THEN "reading" ELSE embedPc[q]
          /\ UNCHANGED <<indexQ, indexPc, indexTitle>>
          /\ embedQ[r].status = "visible"
      BY <1>0, <1>2, SentType DEF EmbedReceive, backfill, TypeOK
    <2>1. TypeOK'
      BY <1>0, <1>2, MessageSteps, SentType, BodyType
      DEF EmbedReceive, backfill, TypeOK, DeliveriesLeft, Runs, Bookkeeping, EmbedPcs,
          IndexPcs, Titles, Deliveries
    <2>2. Bookkeeping'
      <3>1. DeliveriesLeft'
        BY <1>0, <1>2, <2>0, MessageSteps, Counts
        DEF DeliveriesLeft, Runs, SlotsFree, Bookkeeping
      <3>2. Runs'
        BY <1>0, <1>2, <2>0, MessageSteps, Counts
        DEF Runs, DeliveriesLeft, SlotsFree, Bookkeeping
      <3>3. SlotsFree'
        BY <1>0, <1>2, <2>0, MessageSteps, Counts
        DEF SlotsFree, DeliveriesLeft, Runs, Bookkeeping
      <3>4. QED
        BY <3>1, <3>2, <3>3 DEF Bookkeeping
    <2>3. StoredBehind' /\ MessagesHaveVectors' /\ TitlesKnown'
      BY <1>0, <1>2, <2>0, MessageSteps, Counts
      DEF EmbedReceive, backfill, Runs, Bookkeeping, StoredBehind,
          MessagesHaveVectors, TitlesKnown, Owing
    <2>4. /\ \A d \in Documents : EmbedOwes(d) => EmbedOwes(d)'
          /\ \A d \in Documents : IndexOwes(d) => IndexOwes(d)'
          /\ \A d \in Documents : TitleOwed(d) => TitleOwed(d)'
      <3>1. \A d \in Documents : EmbedOwes(d) => EmbedOwes(d)'
        BY <1>0, <1>2, <2>0, MessageSteps, Counts
        DEF EmbedOwes, About, Pending, Runs, DeliveriesLeft, Bookkeeping
      <3>2. \A d \in Documents : IndexOwes(d) => IndexOwes(d)'
        BY <1>0, <1>2, <2>0, MessageSteps, Counts
        DEF IndexOwes, About, Pending, Runs, DeliveriesLeft, Bookkeeping
      <3>3. \A d \in Documents : TitleOwed(d) => TitleOwed(d)'
        BY <1>0, <1>2, <2>0, MessageSteps, Counts
        DEF TitleOwed, Carries, About, Pending, Runs, DeliveriesLeft, Bookkeeping
      <3>4. QED
        BY <3>1, <3>2, <3>3
    <2>5. RequestKept'
      BY <1>0, <1>2, <2>0, <2>4, MessageSteps
      DEF EmbedReceive, backfill, Owing, RequestKept, StoredBehind, Runs, Bookkeeping
    <2>6. BodyKept'
      BY <1>0, <1>2, <2>4
      DEF EmbedReceive, backfill, TypeOK, Owing, BodyKept, TitlesKnown
    <2>7. TitleKept'
      BY <1>0, <1>2, <2>4
      DEF EmbedReceive, backfill, TypeOK, Titles, Owing, TitleKept, TitlesKnown
    <2>8. CalmWork'
      BY <1>0, <1>2, <2>0
      DEF EmbedReceive, backfill, Runs, Bookkeeping, CalmWork, Quiet, TitlesRepaired,
          Pending
    <2>9. QED
      BY <2>1, <2>2, <2>3, <2>5, <2>6, <2>7, <2>8 DEF IInv, Owing
  <1>3. ASSUME EmbedRead(r) PROVE IInv'
    <2>1. TypeOK'
      BY <1>0, <1>3, MessageSteps, SentType, BodyType
      DEF EmbedRead, backfill, TypeOK, DeliveriesLeft, Runs, Bookkeeping, EmbedPcs,
          IndexPcs, Titles, Deliveries
    <2>2. Bookkeeping'
      BY <1>0, <1>3, MessageSteps, SentType
      DEF EmbedRead, backfill, TypeOK, DeliveriesLeft, Runs, SlotsFree, Bookkeeping,
          Deliveries
    <2>3. StoredBehind' /\ MessagesHaveVectors' /\ TitlesKnown'
      BY <1>0, <1>3, MessageSteps, SentType
      DEF EmbedRead, backfill, TypeOK, Titles, StoredBehind, MessagesHaveVectors,
          TitlesKnown, Owing
    <2>4. /\ \A d \in Documents : EmbedOwes(d) => EmbedOwes(d)'
          /\ \A d \in Documents : IndexOwes(d) => IndexOwes(d)'
          /\ \A d \in Documents : TitleOwed(d) => TitleOwed(d)'
      BY <1>0, <1>3, MessageSteps, SentType
      DEF EmbedRead, backfill, TypeOK, Runs, Bookkeeping, EmbedOwes, IndexOwes,
          TitleOwed, Carries, About, Pending, Owing, TitlesKnown
    <2>5. RequestKept'
      BY <1>0, <1>3, <2>4, MessageSteps
      DEF EmbedRead, backfill, TypeOK, Owing, RequestKept, StoredBehind
    <2>6. BodyKept'
      BY <1>0, <1>3, <2>4
      DEF EmbedRead, backfill, TypeOK, Owing, BodyKept, TitlesKnown
    <2>7. TitleKept'
      BY <1>0, <1>3, <2>4
      DEF EmbedRead, backfill, TypeOK, Titles, Owing, TitleKept, TitlesKnown
    <2>8. CalmWork'
      BY <1>0, <1>3, MessageSteps
      DEF EmbedRead, backfill, TypeOK, Runs, Bookkeeping, CalmWork, Quiet,
          TitlesRepaired, Pending
    <2>9. QED
      BY <2>1, <2>2, <2>3, <2>5, <2>6, <2>7, <2>8 DEF IInv, Owing
  <1>4. ASSUME EmbedSkip(r) PROVE IInv'
    <2>1. TypeOK'
      BY <1>0, <1>4, MessageSteps, SentType, BodyType
      DEF EmbedSkip, backfill, TypeOK, DeliveriesLeft, Runs, Bookkeeping, EmbedPcs,
          IndexPcs, Titles, Deliveries
    <2>2. Bookkeeping'
      BY <1>0, <1>4, MessageSteps, SentType
      DEF EmbedSkip, backfill, TypeOK, DeliveriesLeft, Runs, SlotsFree, Bookkeeping,
          Deliveries
    <2>3. StoredBehind' /\ MessagesHaveVectors' /\ TitlesKnown'
      BY <1>0, <1>4, MessageSteps, SentType
      DEF EmbedSkip, backfill, TypeOK, Titles, StoredBehind, MessagesHaveVectors,
          TitlesKnown, Owing
    <2>4. /\ \A d \in Documents \ {Subject[r]} : EmbedOwes(d) => EmbedOwes(d)'
          /\ \A d \in Documents : IndexOwes(d) => IndexOwes(d)'
          /\ \A d \in Documents : TitleOwed(d) => TitleOwed(d)'
          /\ chunks[Subject[r]] = 0 /\ vectors[Subject[r]].title = 0
      BY <1>0, <1>4, MessageSteps, SentType
      DEF EmbedSkip, backfill, TypeOK, Runs, Bookkeeping, EmbedOwes, IndexOwes,
          TitleOwed, Carries, About, Pending, Owing, TitlesKnown
    <2>5. RequestKept'
      BY <1>0, <1>4, <2>4, MessageSteps
      DEF EmbedSkip, backfill, TypeOK, Owing, RequestKept, StoredBehind
    <2>6. BodyKept'
      BY <1>0, <1>4, <2>4
      DEF EmbedSkip, backfill, TypeOK, Owing, BodyKept, TitlesKnown
    <2>7. TitleKept'
      BY <1>0, <1>4, <2>4
      DEF EmbedSkip, backfill, TypeOK, Titles, Owing, TitleKept, TitlesKnown
    <2>8. CalmWork'
      BY <1>0, <1>4, MessageSteps
      DEF EmbedSkip, backfill, TypeOK, Runs, Bookkeeping, CalmWork, Quiet,
          TitlesRepaired, Pending
    <2>9. QED
      BY <2>1, <2>2, <2>3, <2>5, <2>6, <2>7, <2>8 DEF IInv, Owing
  <1>5. ASSUME EmbedStore(r) PROVE IInv'
    <2>0. /\ UNCHANGED embedQ
          /\ \A q \in Requests :
                 embedPc'[q] = IF q = r THEN "stored" ELSE embedPc[q]
          /\ UNCHANGED <<indexQ, indexPc, indexTitle>>
          /\ embedPc[r] = "embedding"
      BY <1>0, <1>5, SentType DEF EmbedStore, backfill, TypeOK
    <2>1. TypeOK'
      BY <1>0, <1>5, MessageSteps, SentType, BodyType
      DEF EmbedStore, backfill, TypeOK, DeliveriesLeft, Runs, Bookkeeping, EmbedPcs,
          IndexPcs, Titles, Deliveries
    <2>2. Bookkeeping'
      <3>1. DeliveriesLeft'
        BY <1>0, <1>5, <2>0, MessageSteps, Counts
        DEF DeliveriesLeft, Runs, SlotsFree, Bookkeeping
      <3>2. Runs'
        BY <1>0, <1>5, <2>0, MessageSteps, Counts
        DEF Runs, DeliveriesLeft, SlotsFree, Bookkeeping
      <3>3. SlotsFree'
        BY <1>0, <1>5, <2>0, MessageSteps, Counts
        DEF SlotsFree, DeliveriesLeft, Runs, Bookkeeping
      <3>4. QED
        BY <3>1, <3>2, <3>3 DEF Bookkeeping
    <2>3. StoredBehind' /\ MessagesHaveVectors' /\ TitlesKnown'
      BY <1>0, <1>5, <2>0, MessageSteps, Counts
      DEF EmbedStore, backfill, TypeOK, Runs, Bookkeeping, StoredBehind,
          MessagesHaveVectors, TitlesKnown, Owing
    <2>4. /\ \A d \in Documents : EmbedOwes(d) => EmbedOwes(d)'
          /\ \A d \in Documents : IndexOwes(d) => IndexOwes(d)'
          /\ \A d \in Documents : TitleOwed(d) => TitleOwed(d)'
          /\ EmbedOwes(Subject[r])'
      <3>1. \A d \in Documents : EmbedOwes(d) => EmbedOwes(d)'
        BY <1>0, <1>5, <2>0, MessageSteps, Counts
        DEF EmbedOwes, About, Pending, Runs, DeliveriesLeft, Bookkeeping
      <3>2. \A d \in Documents : IndexOwes(d) => IndexOwes(d)'
        BY <1>0, <1>5, <2>0, MessageSteps, Counts
        DEF IndexOwes, About, Pending, Runs, DeliveriesLeft, Bookkeeping
      <3>3. \A d \in Documents : TitleOwed(d) => TitleOwed(d)'
        BY <1>0, <1>5, <2>0, MessageSteps, Counts
        DEF TitleOwed, Carries, About, Pending, Runs, DeliveriesLeft, Bookkeeping
      <3>4. EmbedOwes(Subject[r])'
        BY <1>0, <1>5, <2>0, MessageSteps, Counts
        DEF EmbedOwes, About, Pending, Runs, DeliveriesLeft, Bookkeeping
      <3>5. QED
        BY <3>1, <3>2, <3>3, <3>4
    <2>5. RequestKept'
      BY <1>0, <1>5, <2>0, <2>4, MessageSteps
      DEF EmbedStore, backfill, Owing, RequestKept, StoredBehind, Runs, Bookkeeping
    <2>6. BodyKept'
      BY <1>0, <1>5, <2>4
      DEF EmbedStore, backfill, TypeOK, Owing, BodyKept, TitlesKnown
    <2>7. TitleKept'
      BY <1>0, <1>5, <2>4
      DEF EmbedStore, backfill, TypeOK, Titles, Owing, TitleKept, TitlesKnown
    <2>8. CalmWork'
      BY <1>0, <1>5, <2>0
      DEF EmbedStore, backfill, Runs, Bookkeeping, CalmWork, Quiet, TitlesRepaired,
          Pending
    <2>9. QED
      BY <2>1, <2>2, <2>3, <2>5, <2>6, <2>7, <2>8 DEF IInv, Owing
  <1>6. ASSUME EmbedSend(r) PROVE IInv'
    <2>0. /\ \A q \in Requests :
                 embedQ'[q] = IF q = r THEN Deleted(embedQ[q]) ELSE embedQ[q]
          /\ \A q \in Requests :
                 embedPc'[q] = IF q = r THEN "idle" ELSE embedPc[q]
          /\ \A q \in Requests, j \in Deliveries :
                 indexQ'[q][j] = IF q = r /\ j = embedQ[r].receives THEN Fresh
                 ELSE indexQ[q][j]
          /\ UNCHANGED <<indexPc, indexTitle>>
          /\ embedPc[r] = "stored"
      BY <1>0, <1>6, SentType DEF EmbedSend, EmbedReturn, backfill, TypeOK
    <2>1. TypeOK'
      <3>1. indexQ' \in [Requests -> [Deliveries -> Message]]
        BY <1>0, <1>6, MessageSteps, SentType, BodyType
        DEF EmbedSend, EmbedReturn, backfill, TypeOK
      <3>2. embedQ' \in [Requests -> Message]
        BY <1>0, <1>6, MessageSteps, SentType, BodyType
        DEF EmbedSend, EmbedReturn, backfill, TypeOK
      <3>3. embedPc' \in [Requests -> EmbedPcs] /\ embedTitle' \in [Requests -> Titles]
        BY <1>0, <1>6, MessageSteps, SentType, BodyType
        DEF EmbedSend, EmbedReturn, backfill, TypeOK, EmbedPcs, Titles
      <3>4. QED
        BY <1>0, <1>6, <3>1, <3>2, <3>3, BodyType
        DEF EmbedSend, EmbedReturn, backfill, TypeOK
    <2>2. Bookkeeping'
      <3>1. DeliveriesLeft'
        BY <1>0, <1>6, <2>0, MessageSteps, Counts
        DEF DeliveriesLeft, Runs, SlotsFree, Bookkeeping
      <3>2. Runs'
        BY <1>0, <1>6, <2>0, MessageSteps, Counts
        DEF Runs, DeliveriesLeft, SlotsFree, Bookkeeping
      <3>3. SlotsFree'
        BY <1>0, <1>6, <2>0, MessageSteps, Counts
        DEF SlotsFree, DeliveriesLeft, Runs, Bookkeeping
      <3>4. QED
        BY <3>1, <3>2, <3>3 DEF Bookkeeping
    <2>3. StoredBehind' /\ MessagesHaveVectors' /\ TitlesKnown'
      BY <1>0, <1>6, <2>0, MessageSteps, Counts
      DEF EmbedSend, EmbedReturn, backfill, Runs, Bookkeeping, StoredBehind,
          MessagesHaveVectors, TitlesKnown, Owing
    <2>4. /\ \A d \in Documents \ {Subject[r]} : EmbedOwes(d) => EmbedOwes(d)'
          /\ \A d \in Documents : IndexOwes(d) => IndexOwes(d)'
          /\ \A d \in Documents : TitleOwed(d) => TitleOwed(d)'
          /\ IndexOwes(Subject[r])'
          /\ TitleOwed(Subject[r])'
      <3>1. \A d \in Documents \ {Subject[r]} : EmbedOwes(d) => EmbedOwes(d)'
        BY <1>0, <1>6, <2>0, MessageSteps, Counts
        DEF EmbedOwes, About, Pending, Runs, DeliveriesLeft, Bookkeeping
      <3>2. \A d \in Documents : IndexOwes(d) => IndexOwes(d)'
        BY <1>0, <1>6, <2>0, MessageSteps, Counts
        DEF IndexOwes, About, Pending, Runs, DeliveriesLeft, Bookkeeping
      <3>3. \A d \in Documents : TitleOwed(d) => TitleOwed(d)'
        BY <1>0, <1>6, <2>0, MessageSteps, Counts
        DEF TitleOwed, Carries, About, Pending, Runs, DeliveriesLeft, Bookkeeping
      <3>4. IndexOwes(Subject[r])'
        BY <1>0, <1>6, <2>0, MessageSteps, Counts
        DEF IndexOwes, About, Pending, Runs, DeliveriesLeft, Bookkeeping
      <3>5. TitleOwed(Subject[r])'
        BY <1>0, <1>6, <2>0, MessageSteps, Counts
        DEF TitleOwed, Carries, About, Pending, Runs, DeliveriesLeft, Bookkeeping
      <3>6. QED
        BY <3>1, <3>2, <3>3, <3>4, <3>5
    <2>5. RequestKept'
      BY <1>0, <1>6, <2>0, <2>4, MessageSteps
      DEF EmbedSend, EmbedReturn, backfill, Owing, RequestKept, StoredBehind, Runs,
          Bookkeeping
    <2>6. BodyKept'
      BY <1>0, <1>6, <2>4
      DEF EmbedSend, EmbedReturn, backfill, TypeOK, Owing, BodyKept, TitlesKnown
    <2>7. TitleKept'
      BY <1>0, <1>6, <2>4
      DEF EmbedSend, EmbedReturn, backfill, TypeOK, Titles, Owing, TitleKept,
          TitlesKnown
    <2>8. CalmWork'
      BY <1>0, <1>6, <2>0
      DEF EmbedSend, EmbedReturn, backfill, Runs, Bookkeeping, CalmWork, Quiet,
          TitlesRepaired, Pending
    <2>9. QED
      BY <2>1, <2>2, <2>3, <2>5, <2>6, <2>7, <2>8 DEF IInv, Owing
  <1>7. ASSUME EmbedFail(r), UNCHANGED indexQ PROVE IInv'
    <2>0. /\ \A q \in Requests :
                 embedQ'[q] = IF q = r THEN Returned(embedQ[q]) ELSE embedQ[q]
          /\ \A q \in Requests :
                 embedPc'[q] = IF q = r THEN "idle" ELSE embedPc[q]
          /\ UNCHANGED <<indexQ, indexPc, indexTitle>>
          /\ embedPc[r] # "idle"
      BY <1>0, <1>7, SentType DEF EmbedFail, backfill, TypeOK
    <2>1. TypeOK'
      BY <1>0, <1>7, MessageSteps, SentType, BodyType
      DEF EmbedFail, backfill, TypeOK, DeliveriesLeft, Runs, Bookkeeping, EmbedPcs,
          IndexPcs, Titles, Deliveries
    <2>2. Bookkeeping'
      <3>1. DeliveriesLeft'
        BY <1>0, <1>7, <2>0, MessageSteps, Counts
        DEF DeliveriesLeft, Runs, SlotsFree, Bookkeeping
      <3>2. Runs'
        BY <1>0, <1>7, <2>0, MessageSteps, Counts
        DEF Runs, DeliveriesLeft, SlotsFree, Bookkeeping
      <3>3. SlotsFree'
        BY <1>0, <1>7, <2>0, MessageSteps, Counts
        DEF SlotsFree, DeliveriesLeft, Runs, Bookkeeping
      <3>4. QED
        BY <3>1, <3>2, <3>3 DEF Bookkeeping
    <2>3. StoredBehind' /\ MessagesHaveVectors' /\ TitlesKnown'
      BY <1>0, <1>7, <2>0, MessageSteps, Counts
      DEF EmbedFail, backfill, Runs, Bookkeeping, StoredBehind, MessagesHaveVectors,
          TitlesKnown, Owing
    <2>4. /\ \A d \in Documents : EmbedOwes(d) => EmbedOwes(d)'
          /\ \A d \in Documents : IndexOwes(d) => IndexOwes(d)'
          /\ \A d \in Documents : TitleOwed(d) => TitleOwed(d)'
      <3>1. \A d \in Documents : EmbedOwes(d) => EmbedOwes(d)'
        BY <1>0, <1>7, <2>0, MessageSteps, Counts
        DEF EmbedOwes, About, Pending, Runs, DeliveriesLeft, Bookkeeping
      <3>2. \A d \in Documents : IndexOwes(d) => IndexOwes(d)'
        BY <1>0, <1>7, <2>0, MessageSteps, Counts
        DEF IndexOwes, About, Pending, Runs, DeliveriesLeft, Bookkeeping
      <3>3. \A d \in Documents : TitleOwed(d) => TitleOwed(d)'
        BY <1>0, <1>7, <2>0, MessageSteps, Counts
        DEF TitleOwed, Carries, About, Pending, Runs, DeliveriesLeft, Bookkeeping
      <3>4. QED
        BY <3>1, <3>2, <3>3
    <2>5. RequestKept'
      BY <1>0, <1>7, <2>0, <2>4, MessageSteps
      DEF EmbedFail, backfill, Owing, RequestKept, StoredBehind, Runs, Bookkeeping
    <2>6. BodyKept'
      BY <1>0, <1>7, <2>4
      DEF EmbedFail, backfill, TypeOK, Owing, BodyKept, TitlesKnown
    <2>7. TitleKept'
      BY <1>0, <1>7, <2>4
      DEF EmbedFail, backfill, TypeOK, Titles, Owing, TitleKept, TitlesKnown
    <2>8. CalmWork'
      BY <1>0, <1>7, <2>0
      DEF EmbedFail, backfill, Runs, Bookkeeping, CalmWork, Quiet, TitlesRepaired,
          Pending
    <2>9. QED
      BY <2>1, <2>2, <2>3, <2>5, <2>6, <2>7, <2>8 DEF IInv, Owing
  <1>8. ASSUME EmbedFail(r), embedPc[r] = "stored", indexQ' = Sent(r) PROVE IInv'
    <2>0. /\ \A q \in Requests :
                 embedQ'[q] = IF q = r THEN Returned(embedQ[q]) ELSE embedQ[q]
          /\ \A q \in Requests :
                 embedPc'[q] = IF q = r THEN "idle" ELSE embedPc[q]
          /\ \A q \in Requests, j \in Deliveries :
                 indexQ'[q][j] = IF q = r /\ j = embedQ[r].receives THEN Fresh
                 ELSE indexQ[q][j]
          /\ UNCHANGED <<indexPc, indexTitle>>
          /\ embedPc[r] = "stored"
      BY <1>0, <1>8, SentType DEF EmbedFail, backfill, TypeOK
    <2>1. TypeOK'
      BY <1>0, <1>8, MessageSteps, SentType, BodyType
      DEF EmbedFail, backfill, TypeOK, DeliveriesLeft, Runs, Bookkeeping, EmbedPcs,
          IndexPcs, Titles, Deliveries
    <2>2. Bookkeeping'
      <3>1. DeliveriesLeft'
        BY <1>0, <1>8, <2>0, MessageSteps, Counts
        DEF DeliveriesLeft, Runs, SlotsFree, Bookkeeping
      <3>2. Runs'
        BY <1>0, <1>8, <2>0, MessageSteps, Counts
        DEF Runs, DeliveriesLeft, SlotsFree, Bookkeeping
      <3>3. SlotsFree'
        BY <1>0, <1>8, <2>0, MessageSteps, Counts
        DEF SlotsFree, DeliveriesLeft, Runs, Bookkeeping
      <3>4. QED
        BY <3>1, <3>2, <3>3 DEF Bookkeeping
    <2>3. StoredBehind' /\ MessagesHaveVectors' /\ TitlesKnown'
      BY <1>0, <1>8, <2>0, MessageSteps, Counts
      DEF EmbedFail, backfill, Runs, Bookkeeping, StoredBehind, MessagesHaveVectors,
          TitlesKnown, Owing
    <2>4. /\ \A d \in Documents : EmbedOwes(d) => EmbedOwes(d)'
          /\ \A d \in Documents : IndexOwes(d) => IndexOwes(d)'
          /\ \A d \in Documents : TitleOwed(d) => TitleOwed(d)'
      <3>1. \A d \in Documents : EmbedOwes(d) => EmbedOwes(d)'
        BY <1>0, <1>8, <2>0, MessageSteps, Counts
        DEF EmbedOwes, About, Pending, Runs, DeliveriesLeft, Bookkeeping
      <3>2. \A d \in Documents : IndexOwes(d) => IndexOwes(d)'
        BY <1>0, <1>8, <2>0, MessageSteps, Counts
        DEF IndexOwes, About, Pending, Runs, DeliveriesLeft, Bookkeeping
      <3>3. \A d \in Documents : TitleOwed(d) => TitleOwed(d)'
        BY <1>0, <1>8, <2>0, MessageSteps, Counts
        DEF TitleOwed, Carries, About, Pending, Runs, DeliveriesLeft, Bookkeeping
      <3>4. QED
        BY <3>1, <3>2, <3>3
    <2>5. RequestKept'
      BY <1>0, <1>8, <2>0, <2>4, MessageSteps
      DEF EmbedFail, backfill, Owing, RequestKept, StoredBehind, Runs, Bookkeeping
    <2>6. BodyKept'
      BY <1>0, <1>8, <2>4
      DEF EmbedFail, backfill, TypeOK, Owing, BodyKept, TitlesKnown
    <2>7. TitleKept'
      BY <1>0, <1>8, <2>4
      DEF EmbedFail, backfill, TypeOK, Titles, Owing, TitleKept, TitlesKnown
    <2>8. CalmWork'
      BY <1>0, <1>8, <2>0
      DEF EmbedFail, backfill, Runs, Bookkeeping, CalmWork, Quiet, TitlesRepaired,
          Pending
    <2>9. QED
      BY <2>1, <2>2, <2>3, <2>5, <2>6, <2>7, <2>8 DEF IInv, Owing
  <1>9. QED
    BY <1>1, <1>2, <1>3, <1>4, <1>5, <1>6, <1>7, <1>8 DEF EmbedLambda, EmbedFail

LEMMA IndexIInv ==
    ASSUME IInv, UNCHANGED chunks, NEW r \in Requests, NEW k \in Deliveries,
           IndexLambda(r, k) \/ IndexFail(r, k)
    PROVE  IInv'
  <1> USE DocumentsAssumption, MaxReceiveAssumption
  <1>0. /\ TypeOK /\ Bookkeeping /\ Owing /\ CalmWork
        /\ \A d \in Documents : Indexed(d)' = Indexed(d)
        /\ \A d \in Documents : chunks[d] = 0 => Indexed(d) = {}
        /\ Subject[r] \in Documents /\ BidOf[Subject[r]] \in Bids
        /\ embedQ[r] \in Message
        /\ indexQ[r][k] \in Message
    BY DEF IInv, TypeOK, Indexed
  <1>1. ASSUME IndexReceive(r, k) PROVE IInv'
    <2>0. /\ UNCHANGED <<embedQ, embedPc, embedTitle>>
          /\ \A q \in Requests, j \in Deliveries :
                 indexQ'[q][j] = IF q = r /\ j = k THEN Received(indexQ[q][j])
                 ELSE indexQ[q][j]
          /\ \A q \in Requests, j \in Deliveries :
                 indexPc'[q][j] = IF q = r /\ j = k THEN "reading"
                 ELSE indexPc[q][j]
          /\ UNCHANGED indexTitle
          /\ indexQ[r][k].status = "visible"
      BY <1>0, <1>1, SentType DEF IndexReceive, backfill, TypeOK
    <2>1. TypeOK'
      BY <1>0, <1>1, MessageSteps, SentType, BodyType
      DEF IndexReceive, backfill, TypeOK, DeliveriesLeft, Runs, Bookkeeping, EmbedPcs,
          IndexPcs, Titles, Deliveries
    <2>2. Bookkeeping'
      <3>1. DeliveriesLeft'
        BY <1>0, <1>1, <2>0, MessageSteps, Counts
        DEF DeliveriesLeft, Runs, SlotsFree, Bookkeeping
      <3>2. Runs'
        BY <1>0, <1>1, <2>0, MessageSteps, Counts
        DEF Runs, DeliveriesLeft, SlotsFree, Bookkeeping
      <3>3. SlotsFree'
        BY <1>0, <1>1, <2>0, MessageSteps, Counts
        DEF SlotsFree, DeliveriesLeft, Runs, Bookkeeping
      <3>4. QED
        BY <3>1, <3>2, <3>3 DEF Bookkeeping
    <2>3. StoredBehind' /\ MessagesHaveVectors' /\ TitlesKnown'
      BY <1>0, <1>1, <2>0, MessageSteps, Counts
      DEF IndexReceive, backfill, Runs, Bookkeeping, StoredBehind,
          MessagesHaveVectors, TitlesKnown, Owing
    <2>4. /\ \A d \in Documents : EmbedOwes(d) => EmbedOwes(d)'
          /\ \A d \in Documents : IndexOwes(d) => IndexOwes(d)'
          /\ \A d \in Documents : TitleOwed(d) => TitleOwed(d)'
      <3>1. \A d \in Documents : EmbedOwes(d) => EmbedOwes(d)'
        BY <1>0, <1>1, <2>0, MessageSteps, Counts
        DEF EmbedOwes, About, Pending, Runs, DeliveriesLeft, Bookkeeping
      <3>2. \A d \in Documents : IndexOwes(d) => IndexOwes(d)'
        BY <1>0, <1>1, <2>0, MessageSteps, Counts
        DEF IndexOwes, About, Pending, Runs, DeliveriesLeft, Bookkeeping
      <3>3. \A d \in Documents : TitleOwed(d) => TitleOwed(d)'
        BY <1>0, <1>1, <2>0, MessageSteps, Counts
        DEF TitleOwed, Carries, About, Pending, Runs, DeliveriesLeft, Bookkeeping
      <3>4. QED
        BY <3>1, <3>2, <3>3
    <2>5. RequestKept'
      BY <1>0, <1>1, <2>0, <2>4, MessageSteps
      DEF IndexReceive, backfill, Owing, RequestKept, StoredBehind, Runs, Bookkeeping
    <2>6. BodyKept'
      BY <1>0, <1>1, <2>4
      DEF IndexReceive, backfill, TypeOK, Owing, BodyKept, TitlesKnown
    <2>7. TitleKept'
      BY <1>0, <1>1, <2>4
      DEF IndexReceive, backfill, TypeOK, Titles, Owing, TitleKept, TitlesKnown
    <2>8. CalmWork'
      BY <1>0, <1>1, <2>0
      DEF IndexReceive, backfill, Runs, Bookkeeping, CalmWork, Quiet, TitlesRepaired,
          Pending
    <2>9. QED
      BY <2>1, <2>2, <2>3, <2>5, <2>6, <2>7, <2>8 DEF IInv, Owing
  <1>2. ASSUME IndexRead(r, k) PROVE IInv'
    <2>0. /\ UNCHANGED <<embedQ, embedPc, embedTitle>>
          /\ UNCHANGED indexQ
          /\ \A q \in Requests, j \in Deliveries :
                 indexPc'[q][j] = IF q = r /\ j = k THEN "writing"
                 ELSE indexPc[q][j]
          /\ \A q \in Requests, j \in Deliveries :
                 indexTitle'[q][j] = IF q = r /\ j = k THEN vectors[Subject[r]].title
                 ELSE indexTitle[q][j]
          /\ indexPc[r][k] = "reading"
      BY <1>0, <1>2, SentType DEF IndexRead, backfill, TypeOK
    <2>1. TypeOK'
      BY <1>0, <1>2, MessageSteps, SentType, BodyType
      DEF IndexRead, backfill, TypeOK, DeliveriesLeft, Runs, Bookkeeping, EmbedPcs,
          IndexPcs, Titles, Deliveries
    <2>2. Bookkeeping'
      <3>1. DeliveriesLeft'
        BY <1>0, <1>2, <2>0, MessageSteps, Counts
        DEF DeliveriesLeft, Runs, SlotsFree, Bookkeeping
      <3>2. Runs'
        BY <1>0, <1>2, <2>0, MessageSteps, Counts
        DEF Runs, DeliveriesLeft, SlotsFree, Bookkeeping
      <3>3. SlotsFree'
        BY <1>0, <1>2, <2>0, MessageSteps, Counts
        DEF SlotsFree, DeliveriesLeft, Runs, Bookkeeping
      <3>4. QED
        BY <3>1, <3>2, <3>3 DEF Bookkeeping
    <2>3. StoredBehind' /\ MessagesHaveVectors' /\ TitlesKnown'
      BY <1>0, <1>2, <2>0, MessageSteps, Counts
      DEF IndexRead, backfill, Runs, Bookkeeping, StoredBehind, MessagesHaveVectors,
          TitlesKnown, Owing
    <2>4. /\ \A d \in Documents : EmbedOwes(d) => EmbedOwes(d)'
          /\ \A d \in Documents : IndexOwes(d) => IndexOwes(d)'
          /\ \A d \in Documents \ {Subject[r]} : TitleOwed(d) => TitleOwed(d)'
          /\ vectors[Subject[r]].title # 0 => TitleOwed(Subject[r])'
      <3>1. \A d \in Documents : EmbedOwes(d) => EmbedOwes(d)'
        BY <1>0, <1>2, <2>0, MessageSteps, Counts
        DEF EmbedOwes, About, Pending, Runs, DeliveriesLeft, Bookkeeping
      <3>2. \A d \in Documents : IndexOwes(d) => IndexOwes(d)'
        BY <1>0, <1>2, <2>0, MessageSteps, Counts
        DEF IndexOwes, About, Pending, Runs, DeliveriesLeft, Bookkeeping
      <3>3. \A d \in Documents \ {Subject[r]} : TitleOwed(d) => TitleOwed(d)'
        BY <1>0, <1>2, <2>0, MessageSteps, Counts
        DEF TitleOwed, Carries, About, Pending, Runs, DeliveriesLeft, Bookkeeping
      <3>4. vectors[Subject[r]].title # 0 => TitleOwed(Subject[r])'
        BY <1>0, <1>2, <2>0, MessageSteps, Counts
        DEF TitleOwed, Carries, About, Pending, Runs, DeliveriesLeft, Bookkeeping
      <3>5. QED
        BY <3>1, <3>2, <3>3, <3>4
    <2>5. RequestKept'
      BY <1>0, <1>2, <2>0, <2>4, MessageSteps
      DEF IndexRead, backfill, Owing, RequestKept, StoredBehind, Runs, Bookkeeping
    <2>6. BodyKept'
      BY <1>0, <1>2, <2>4
      DEF IndexRead, backfill, TypeOK, Owing, BodyKept, TitlesKnown
    <2>7. TitleKept'
      BY <1>0, <1>2, <2>4
      DEF IndexRead, backfill, TypeOK, Titles, Owing, TitleKept, TitlesKnown
    <2>8. CalmWork'
      BY <1>0, <1>2, <2>0
      DEF IndexRead, backfill, Runs, Bookkeeping, CalmWork, Quiet, TitlesRepaired,
          Pending
    <2>9. QED
      BY <2>1, <2>2, <2>3, <2>5, <2>6, <2>7, <2>8 DEF IInv, Owing
  <1>3. ASSUME IndexBulk(r, k) PROVE IInv'
    <2>0. /\ UNCHANGED <<embedQ, embedPc, embedTitle>>
          /\ \A q \in Requests, j \in Deliveries :
                 indexQ'[q][j] = IF q = r /\ j = k THEN Deleted(indexQ[q][j])
                 ELSE indexQ[q][j]
          /\ \A q \in Requests, j \in Deliveries :
                 indexPc'[q][j] = IF q = r /\ j = k THEN "idle"
                 ELSE indexPc[q][j]
          /\ \A q \in Requests, j \in Deliveries :
                 indexTitle'[q][j] = IF q = r /\ j = k THEN 0
                 ELSE indexTitle[q][j]
          /\ indexPc[r][k] = "writing"
      BY <1>0, <1>3, SentType DEF IndexBulk, Upsert, IndexReturn, backfill, TypeOK
    <2>1. TypeOK'
      <3>1. indexQ' \in [Requests -> [Deliveries -> Message]]
        BY <1>0, <1>3, MessageSteps, SentType, BodyType
        DEF IndexBulk, Upsert, IndexReturn, backfill, TypeOK, DeliveriesLeft,
            Bookkeeping
      <3>2. indexPc' \in [Requests -> [Deliveries -> IndexPcs]]
        BY <1>0, <1>3, MessageSteps, SentType, BodyType
        DEF IndexBulk, Upsert, IndexReturn, backfill, TypeOK, IndexPcs
      <3>3. indexTitle' \in [Requests -> [Deliveries -> Titles]]
        BY <1>0, <1>3, MessageSteps, SentType, BodyType
        DEF IndexBulk, Upsert, IndexReturn, backfill, TypeOK, Titles
      <3>4. titleDocs' \in [Bids -> Titles]
        BY <1>0, <1>3, MessageSteps, SentType, BodyType
        DEF IndexBulk, Upsert, IndexReturn, backfill, TypeOK, Titles
      <3>5. bodyDocs' \subseteq UNION {Indexed(d) : d \in Documents}
        BY <1>0, <1>3, MessageSteps, SentType, BodyType
        DEF IndexBulk, Upsert, IndexReturn, backfill, TypeOK
      <3>6. QED
        BY <1>0, <1>3, <3>1, <3>2, <3>3, <3>4, <3>5, BodyType
        DEF IndexBulk, Upsert, IndexReturn, backfill, TypeOK
    <2>2. Bookkeeping'
      <3>1. DeliveriesLeft'
        BY <1>0, <1>3, <2>0, MessageSteps, Counts
        DEF DeliveriesLeft, Runs, SlotsFree, Bookkeeping
      <3>2. Runs'
        BY <1>0, <1>3, <2>0, MessageSteps, Counts
        DEF Runs, DeliveriesLeft, SlotsFree, Bookkeeping
      <3>3. SlotsFree'
        BY <1>0, <1>3, <2>0, MessageSteps, Counts
        DEF SlotsFree, DeliveriesLeft, Runs, Bookkeeping
      <3>4. QED
        BY <3>1, <3>2, <3>3 DEF Bookkeeping
    <2>3. StoredBehind' /\ MessagesHaveVectors' /\ TitlesKnown'
      BY <1>0, <1>3, <2>0, MessageSteps, Counts
      DEF IndexBulk, Upsert, IndexReturn, backfill, Runs, Bookkeeping, StoredBehind,
          MessagesHaveVectors, TitlesKnown, Owing
    <2>4. /\ \A d \in Documents : EmbedOwes(d) => EmbedOwes(d)'
          /\ \A d \in Documents \ {Subject[r]} : IndexOwes(d) => IndexOwes(d)'
          /\ \A d \in Documents \ {Subject[r]} : TitleOwed(d) => TitleOwed(d)'
          /\ TitleOwed(Subject[r]) => TitleOwed(Subject[r])' \/ indexTitle[r][k] # 0
      <3>1. \A d \in Documents : EmbedOwes(d) => EmbedOwes(d)'
        BY <1>0, <1>3, <2>0, MessageSteps, Counts
        DEF EmbedOwes, About, Pending, Runs, DeliveriesLeft, Bookkeeping
      <3>2. \A d \in Documents \ {Subject[r]} : IndexOwes(d) => IndexOwes(d)'
        BY <1>0, <1>3, <2>0, MessageSteps, Counts
        DEF IndexOwes, About, Pending, Runs, DeliveriesLeft, Bookkeeping
      <3>3. \A d \in Documents \ {Subject[r]} : TitleOwed(d) => TitleOwed(d)'
        BY <1>0, <1>3, <2>0, MessageSteps, Counts
        DEF TitleOwed, Carries, About, Pending, Runs, DeliveriesLeft, Bookkeeping
      <3>4. TitleOwed(Subject[r]) => TitleOwed(Subject[r])' \/ indexTitle[r][k] # 0
        BY <1>0, <1>3, <2>0, MessageSteps, Counts
        DEF TitleOwed, Carries, About, Pending, Runs, DeliveriesLeft, Bookkeeping
      <3>5. QED
        BY <3>1, <3>2, <3>3, <3>4
    <2>5. RequestKept'
      BY <1>0, <1>3, <2>0, <2>4, MessageSteps
      DEF IndexBulk, Upsert, IndexReturn, backfill, Owing, RequestKept, StoredBehind,
          Runs, Bookkeeping
    <2>6. BodyKept'
      BY <1>0, <1>3, <2>4
      DEF IndexBulk, Upsert, IndexReturn, backfill, TypeOK, Owing, BodyKept,
          TitlesKnown
    <2>7. TitleKept'
      BY <1>0, <1>3, <2>4
      DEF IndexBulk, Upsert, IndexReturn, backfill, TypeOK, Titles, Owing, TitleKept,
          TitlesKnown
    <2>8. CalmWork'
      BY <1>0, <1>3, <2>0
      DEF IndexBulk, Upsert, IndexReturn, backfill, Runs, Bookkeeping, CalmWork,
          Quiet, TitlesRepaired, Pending
    <2>9. QED
      BY <2>1, <2>2, <2>3, <2>5, <2>6, <2>7, <2>8 DEF IInv, Owing
  <1>4. ASSUME IndexFail(r, k), UNCHANGED <<bodyDocs, titleDocs>> PROVE IInv'
    <2>0. /\ UNCHANGED <<embedQ, embedPc, embedTitle>>
          /\ \A q \in Requests, j \in Deliveries :
                 indexQ'[q][j] = IF q = r /\ j = k THEN Returned(indexQ[q][j])
                 ELSE indexQ[q][j]
          /\ \A q \in Requests, j \in Deliveries :
                 indexPc'[q][j] = IF q = r /\ j = k THEN "idle"
                 ELSE indexPc[q][j]
          /\ \A q \in Requests, j \in Deliveries :
                 indexTitle'[q][j] = IF q = r /\ j = k THEN 0
                 ELSE indexTitle[q][j]
          /\ indexPc[r][k] # "idle"
      BY <1>0, <1>4, SentType DEF IndexFail, backfill, TypeOK
    <2>1. TypeOK'
      <3>1. indexQ' \in [Requests -> [Deliveries -> Message]]
        BY <1>0, <1>4, MessageSteps, SentType, BodyType
        DEF IndexFail, backfill, TypeOK, DeliveriesLeft, Bookkeeping
      <3>2. indexPc' \in [Requests -> [Deliveries -> IndexPcs]]
        BY <1>0, <1>4, MessageSteps, SentType, BodyType
        DEF IndexFail, backfill, TypeOK, IndexPcs
      <3>3. indexTitle' \in [Requests -> [Deliveries -> Titles]]
        BY <1>0, <1>4, MessageSteps, SentType, BodyType
        DEF IndexFail, backfill, TypeOK, Titles
      <3>4. titleDocs' \in [Bids -> Titles]
        BY <1>0, <1>4, MessageSteps, SentType, BodyType
        DEF IndexFail, backfill, TypeOK, Titles
      <3>5. bodyDocs' \subseteq UNION {Indexed(d) : d \in Documents}
        BY <1>0, <1>4, MessageSteps, SentType, BodyType
        DEF IndexFail, backfill, TypeOK
      <3>6. QED
        BY <1>0, <1>4, <3>1, <3>2, <3>3, <3>4, <3>5, BodyType
        DEF IndexFail, backfill, TypeOK
    <2>2. Bookkeeping'
      <3>1. DeliveriesLeft'
        BY <1>0, <1>4, <2>0, MessageSteps, Counts
        DEF DeliveriesLeft, Runs, SlotsFree, Bookkeeping
      <3>2. Runs'
        BY <1>0, <1>4, <2>0, MessageSteps, Counts
        DEF Runs, DeliveriesLeft, SlotsFree, Bookkeeping
      <3>3. SlotsFree'
        BY <1>0, <1>4, <2>0, MessageSteps, Counts
        DEF SlotsFree, DeliveriesLeft, Runs, Bookkeeping
      <3>4. QED
        BY <3>1, <3>2, <3>3 DEF Bookkeeping
    <2>3. StoredBehind' /\ MessagesHaveVectors' /\ TitlesKnown'
      BY <1>0, <1>4, <2>0, MessageSteps, Counts
      DEF IndexFail, backfill, Runs, Bookkeeping, StoredBehind, MessagesHaveVectors,
          TitlesKnown, Owing
    <2>4. /\ \A d \in Documents : EmbedOwes(d) => EmbedOwes(d)'
          /\ \A d \in Documents : IndexOwes(d) => IndexOwes(d)'
          /\ \A d \in Documents : TitleOwed(d) => TitleOwed(d)'
      <3>1. \A d \in Documents : EmbedOwes(d) => EmbedOwes(d)'
        BY <1>0, <1>4, <2>0, MessageSteps, Counts
        DEF EmbedOwes, About, Pending, Runs, DeliveriesLeft, Bookkeeping
      <3>2. \A d \in Documents : IndexOwes(d) => IndexOwes(d)'
        BY <1>0, <1>4, <2>0, MessageSteps, Counts
        DEF IndexOwes, About, Pending, Runs, DeliveriesLeft, Bookkeeping
      <3>3. \A d \in Documents : TitleOwed(d) => TitleOwed(d)'
        BY <1>0, <1>4, <2>0, MessageSteps, Counts
        DEF TitleOwed, Carries, About, Pending, Runs, DeliveriesLeft, Bookkeeping
      <3>4. QED
        BY <3>1, <3>2, <3>3
    <2>5. RequestKept'
      BY <1>0, <1>4, <2>0, <2>4, MessageSteps
      DEF IndexFail, backfill, Owing, RequestKept, StoredBehind, Runs, Bookkeeping
    <2>6. BodyKept'
      BY <1>0, <1>4, <2>4
      DEF IndexFail, backfill, TypeOK, Owing, BodyKept, TitlesKnown
    <2>7. TitleKept'
      BY <1>0, <1>4, <2>4
      DEF IndexFail, backfill, TypeOK, Titles, Owing, TitleKept, TitlesKnown
    <2>8. CalmWork'
      BY <1>0, <1>4, <2>0
      DEF IndexFail, backfill, Runs, Bookkeeping, CalmWork, Quiet, TitlesRepaired,
          Pending
    <2>9. QED
      BY <2>1, <2>2, <2>3, <2>5, <2>6, <2>7, <2>8 DEF IInv, Owing
  <1>5. ASSUME IndexFail(r, k), NEW some \in SUBSET Indexed(Subject[r]), NEW withTitle \in BOOLEAN,
              Upsert(r, k, some, withTitle) PROVE IInv'
    <2>0. /\ UNCHANGED <<embedQ, embedPc, embedTitle>>
          /\ \A q \in Requests, j \in Deliveries :
                 indexQ'[q][j] = IF q = r /\ j = k THEN Returned(indexQ[q][j])
                 ELSE indexQ[q][j]
          /\ \A q \in Requests, j \in Deliveries :
                 indexPc'[q][j] = IF q = r /\ j = k THEN "idle"
                 ELSE indexPc[q][j]
          /\ \A q \in Requests, j \in Deliveries :
                 indexTitle'[q][j] = IF q = r /\ j = k THEN 0
                 ELSE indexTitle[q][j]
          /\ indexPc[r][k] # "idle"
      BY <1>0, <1>5, SentType DEF IndexFail, Upsert, backfill, TypeOK
    <2>1. TypeOK'
      <3>1. indexQ' \in [Requests -> [Deliveries -> Message]]
        BY <1>0, <1>5, MessageSteps, SentType, BodyType
        DEF IndexFail, Upsert, backfill, TypeOK, DeliveriesLeft, Bookkeeping
      <3>2. indexPc' \in [Requests -> [Deliveries -> IndexPcs]]
        BY <1>0, <1>5, MessageSteps, SentType, BodyType
        DEF IndexFail, Upsert, backfill, TypeOK, IndexPcs
      <3>3. indexTitle' \in [Requests -> [Deliveries -> Titles]]
        BY <1>0, <1>5, MessageSteps, SentType, BodyType
        DEF IndexFail, Upsert, backfill, TypeOK, Titles
      <3>4. titleDocs' \in [Bids -> Titles]
        BY <1>0, <1>5, MessageSteps, SentType, BodyType
        DEF IndexFail, Upsert, backfill, TypeOK, Titles
      <3>5. bodyDocs' \subseteq UNION {Indexed(d) : d \in Documents}
        BY <1>0, <1>5, MessageSteps, SentType, BodyType
        DEF IndexFail, Upsert, backfill, TypeOK
      <3>6. QED
        BY <1>0, <1>5, <3>1, <3>2, <3>3, <3>4, <3>5, BodyType
        DEF IndexFail, Upsert, backfill, TypeOK
    <2>2. Bookkeeping'
      <3>1. DeliveriesLeft'
        BY <1>0, <1>5, <2>0, MessageSteps, Counts
        DEF DeliveriesLeft, Runs, SlotsFree, Bookkeeping
      <3>2. Runs'
        BY <1>0, <1>5, <2>0, MessageSteps, Counts
        DEF Runs, DeliveriesLeft, SlotsFree, Bookkeeping
      <3>3. SlotsFree'
        BY <1>0, <1>5, <2>0, MessageSteps, Counts
        DEF SlotsFree, DeliveriesLeft, Runs, Bookkeeping
      <3>4. QED
        BY <3>1, <3>2, <3>3 DEF Bookkeeping
    <2>3. StoredBehind' /\ MessagesHaveVectors' /\ TitlesKnown'
      BY <1>0, <1>5, <2>0, MessageSteps, Counts
      DEF IndexFail, Upsert, backfill, Runs, Bookkeeping, StoredBehind,
          MessagesHaveVectors, TitlesKnown, Owing
    <2>4. /\ \A d \in Documents : EmbedOwes(d) => EmbedOwes(d)'
          /\ \A d \in Documents : IndexOwes(d) => IndexOwes(d)'
          /\ \A d \in Documents : TitleOwed(d) => TitleOwed(d)'
      <3>1. \A d \in Documents : EmbedOwes(d) => EmbedOwes(d)'
        BY <1>0, <1>5, <2>0, MessageSteps, Counts
        DEF EmbedOwes, About, Pending, Runs, DeliveriesLeft, Bookkeeping
      <3>2. \A d \in Documents : IndexOwes(d) => IndexOwes(d)'
        BY <1>0, <1>5, <2>0, MessageSteps, Counts
        DEF IndexOwes, About, Pending, Runs, DeliveriesLeft, Bookkeeping
      <3>3. \A d \in Documents : TitleOwed(d) => TitleOwed(d)'
        BY <1>0, <1>5, <2>0, MessageSteps, Counts
        DEF TitleOwed, Carries, About, Pending, Runs, DeliveriesLeft, Bookkeeping
      <3>4. QED
        BY <3>1, <3>2, <3>3
    <2>5. RequestKept'
      BY <1>0, <1>5, <2>0, <2>4, MessageSteps
      DEF IndexFail, Upsert, backfill, Owing, RequestKept, StoredBehind, Runs,
          Bookkeeping
    <2>6. BodyKept'
      BY <1>0, <1>5, <2>4
      DEF IndexFail, Upsert, backfill, TypeOK, Owing, BodyKept, TitlesKnown
    <2>7. TitleKept'
      BY <1>0, <1>5, <2>4
      DEF IndexFail, Upsert, backfill, TypeOK, Titles, Owing, TitleKept, TitlesKnown
    <2>8. CalmWork'
      BY <1>0, <1>5, <2>0
      DEF IndexFail, Upsert, backfill, Runs, Bookkeeping, CalmWork, Quiet,
          TitlesRepaired, Pending
    <2>9. QED
      BY <2>1, <2>2, <2>3, <2>5, <2>6, <2>7, <2>8 DEF IInv, Owing
  <1>6. QED
    BY <1>1, <1>2, <1>3, <1>4, <1>5 DEF IndexLambda, IndexFail

LEMMA EnvironmentIInv ==
    ASSUME IInv, UNCHANGED chunks,
           SetupIndex \/ Backfill \/ \E b \in Bids : Retitle(b)
    PROVE  IInv'
  <1> USE DocumentsAssumption, MaxReceiveAssumption
  <1>0. /\ TypeOK /\ Bookkeeping /\ Owing /\ CalmWork
        /\ \A d \in Documents : Indexed(d)' = Indexed(d)
        /\ \A d \in Documents : chunks[d] = 0 => Indexed(d) = {}
    BY DEF IInv, TypeOK, Indexed
  <1>1. ASSUME NEW b \in Bids, Retitle(b) PROVE IInv'
    <2>1. TypeOK'
      <3>1. title' \in [Bids -> Titles]
        BY <1>0, <1>1, MessageSteps, SentType, BodyType
        DEF Retitle, queues, TypeOK, Titles
      <3>2. QED
        BY <1>0, <1>1, <3>1, BodyType DEF Retitle, queues, TypeOK
    <2>2. Bookkeeping'
      BY <1>0, <1>1, MessageSteps, SentType
      DEF Retitle, queues, TypeOK, DeliveriesLeft, Runs, SlotsFree, Bookkeeping,
          Deliveries
    <2>3. StoredBehind' /\ MessagesHaveVectors' /\ TitlesKnown'
      BY <1>0, <1>1, MessageSteps, SentType
      DEF Retitle, queues, TypeOK, Titles, StoredBehind, MessagesHaveVectors,
          TitlesKnown, Owing
    <2>4. /\ \A d \in Documents : EmbedOwes(d) => EmbedOwes(d)'
          /\ \A d \in Documents : IndexOwes(d) => IndexOwes(d)'
          /\ \A d \in Documents : TitleOwed(d) => TitleOwed(d)'
      BY <1>0, <1>1, MessageSteps, SentType
      DEF Retitle, queues, TypeOK, Runs, Bookkeeping, EmbedOwes, IndexOwes, TitleOwed,
          Carries, About, Pending, Owing, TitlesKnown
    <2>5. RequestKept'
      BY <1>0, <1>1, <2>4, MessageSteps
      DEF Retitle, queues, TypeOK, Owing, RequestKept, StoredBehind
    <2>6. BodyKept'
      BY <1>0, <1>1, <2>4 DEF Retitle, queues, TypeOK, Owing, BodyKept, TitlesKnown
    <2>7. TitleKept'
      BY <1>0, <1>1, <2>4
      DEF Retitle, queues, TypeOK, Titles, Owing, TitleKept, TitlesKnown
    <2>8. CalmWork'
      BY <1>0, <1>1, MessageSteps
      DEF Retitle, queues, TypeOK, Runs, Bookkeeping, CalmWork, Quiet, TitlesRepaired,
          Pending
    <2>9. QED
      BY <2>1, <2>2, <2>3, <2>5, <2>6, <2>7, <2>8 DEF IInv, Owing
  <1>2. ASSUME SetupIndex PROVE IInv'
    <2>1. TypeOK'
      BY <1>0, <1>2, MessageSteps, SentType, BodyType
      DEF SetupIndex, backfill, TypeOK, DeliveriesLeft, Runs, Bookkeeping, EmbedPcs,
          IndexPcs, Titles, Deliveries
    <2>2. Bookkeeping'
      BY <1>0, <1>2, MessageSteps, SentType
      DEF SetupIndex, backfill, TypeOK, DeliveriesLeft, Runs, SlotsFree, Bookkeeping,
          Deliveries
    <2>3. StoredBehind' /\ MessagesHaveVectors' /\ TitlesKnown'
      BY <1>0, <1>2, MessageSteps, SentType
      DEF SetupIndex, backfill, TypeOK, Titles, StoredBehind, MessagesHaveVectors,
          TitlesKnown, Owing
    <2>4. /\ \A d \in Documents : EmbedOwes(d) => EmbedOwes(d)'
          /\ \A d \in Documents : IndexOwes(d) => IndexOwes(d)'
          /\ \A d \in Documents : TitleOwed(d) => TitleOwed(d)'
      BY <1>0, <1>2, MessageSteps, SentType
      DEF SetupIndex, backfill, TypeOK, Runs, Bookkeeping, EmbedOwes, IndexOwes,
          TitleOwed, Carries, About, Pending, Owing, TitlesKnown
    <2>5. RequestKept'
      BY <1>0, <1>2, <2>4, MessageSteps
      DEF SetupIndex, backfill, TypeOK, Owing, RequestKept, StoredBehind
    <2>6. BodyKept'
      BY <1>0, <1>2, <2>4
      DEF SetupIndex, backfill, TypeOK, Owing, BodyKept, TitlesKnown
    <2>7. TitleKept'
      BY <1>0, <1>2, <2>4
      DEF SetupIndex, backfill, TypeOK, Titles, Owing, TitleKept, TitlesKnown
    <2>8. CalmWork'
      BY <1>0, <1>2, MessageSteps
      DEF SetupIndex, backfill, TypeOK, Runs, Bookkeeping, CalmWork, Quiet,
          TitlesRepaired, Pending
    <2>9. QED
      BY <2>1, <2>2, <2>3, <2>5, <2>6, <2>7, <2>8 DEF IInv, Owing
  <1>3. ASSUME ListTitles PROVE IInv'
    <2>1. TypeOK'
      BY <1>0, <1>3, MessageSteps, SentType, BodyType
      DEF ListTitles, Quiet, queues, TypeOK, DeliveriesLeft, Runs, Bookkeeping,
          EmbedPcs, IndexPcs, Titles, Deliveries
    <2>2. Bookkeeping'
      BY <1>0, <1>3, MessageSteps, SentType
      DEF ListTitles, Quiet, queues, TypeOK, DeliveriesLeft, Runs, SlotsFree,
          Bookkeeping, Deliveries
    <2>3. StoredBehind' /\ MessagesHaveVectors' /\ TitlesKnown'
      BY <1>0, <1>3, MessageSteps, SentType
      DEF ListTitles, Quiet, queues, TypeOK, Titles, StoredBehind,
          MessagesHaveVectors, TitlesKnown, Owing
    <2>4. /\ \A d \in Documents : EmbedOwes(d) => EmbedOwes(d)'
          /\ \A d \in Documents : IndexOwes(d) => IndexOwes(d)'
          /\ \A d \in Documents : TitleOwed(d) => TitleOwed(d)'
      BY <1>0, <1>3, MessageSteps, SentType
      DEF ListTitles, Quiet, queues, TypeOK, Runs, Bookkeeping, EmbedOwes, IndexOwes,
          TitleOwed, Carries, About, Pending, Owing, TitlesKnown
    <2>5. RequestKept'
      BY <1>0, <1>3, <2>4, MessageSteps
      DEF ListTitles, Quiet, queues, TypeOK, Owing, RequestKept, StoredBehind
    <2>6. BodyKept'
      BY <1>0, <1>3, <2>4
      DEF ListTitles, Quiet, queues, TypeOK, Owing, BodyKept, TitlesKnown
    <2>7. TitleKept'
      BY <1>0, <1>3, <2>4
      DEF ListTitles, Quiet, queues, TypeOK, Titles, Owing, TitleKept, TitlesKnown
    <2>8. CalmWork'
      BY <1>0, <1>3, MessageSteps
      DEF ListTitles, Quiet, queues, TypeOK, Runs, Bookkeeping, CalmWork, Quiet,
          TitlesRepaired, Pending
    <2>9. QED
      BY <2>1, <2>2, <2>3, <2>5, <2>6, <2>7, <2>8 DEF IInv, Owing
  <1>4. ASSUME SelectTitles PROVE IInv'
    <2>1. TypeOK'
      BY <1>0, <1>4, MessageSteps, SentType, BodyType
      DEF SelectTitles, AlreadyWritten, queues, TypeOK, DeliveriesLeft, Runs,
          Bookkeeping, EmbedPcs, IndexPcs, Titles, Deliveries
    <2>2. Bookkeeping'
      BY <1>0, <1>4, MessageSteps, SentType
      DEF SelectTitles, AlreadyWritten, queues, TypeOK, DeliveriesLeft, Runs,
          SlotsFree, Bookkeeping, Deliveries
    <2>3. StoredBehind' /\ MessagesHaveVectors' /\ TitlesKnown'
      BY <1>0, <1>4, MessageSteps, SentType
      DEF SelectTitles, AlreadyWritten, queues, TypeOK, Titles, StoredBehind,
          MessagesHaveVectors, TitlesKnown, Owing
    <2>4. /\ \A d \in Documents : EmbedOwes(d) => EmbedOwes(d)'
          /\ \A d \in Documents : IndexOwes(d) => IndexOwes(d)'
          /\ \A d \in Documents : TitleOwed(d) => TitleOwed(d)'
      BY <1>0, <1>4, MessageSteps, SentType
      DEF SelectTitles, AlreadyWritten, queues, TypeOK, Runs, Bookkeeping, EmbedOwes,
          IndexOwes, TitleOwed, Carries, About, Pending, Owing, TitlesKnown
    <2>5. RequestKept'
      BY <1>0, <1>4, <2>4, MessageSteps
      DEF SelectTitles, AlreadyWritten, queues, TypeOK, Owing, RequestKept,
          StoredBehind
    <2>6. BodyKept'
      BY <1>0, <1>4, <2>4
      DEF SelectTitles, AlreadyWritten, queues, TypeOK, Owing, BodyKept, TitlesKnown
    <2>7. TitleKept'
      BY <1>0, <1>4, <2>4
      DEF SelectTitles, AlreadyWritten, queues, TypeOK, Titles, Owing, TitleKept,
          TitlesKnown
    <2>8. CalmWork'
      BY <1>0, <1>4, MessageSteps
      DEF SelectTitles, AlreadyWritten, queues, TypeOK, Runs, Bookkeeping, CalmWork,
          Quiet, TitlesRepaired, Pending
    <2>9. QED
      BY <2>1, <2>2, <2>3, <2>5, <2>6, <2>7, <2>8 DEF IInv, Owing
  <1>5. ASSUME NEW batch \in SUBSET Bids, WriteTitles(batch) PROVE IInv'
    <2>1. TypeOK'
      BY <1>0, <1>5, MessageSteps, SentType, BodyType
      DEF WriteTitles, queues, TypeOK, DeliveriesLeft, Runs, Bookkeeping, EmbedPcs,
          IndexPcs, Titles, Deliveries
    <2>2. Bookkeeping'
      BY <1>0, <1>5, MessageSteps, SentType
      DEF WriteTitles, queues, TypeOK, DeliveriesLeft, Runs, SlotsFree, Bookkeeping,
          Deliveries
    <2>3. StoredBehind' /\ MessagesHaveVectors' /\ TitlesKnown'
      BY <1>0, <1>5, MessageSteps, SentType
      DEF WriteTitles, queues, TypeOK, Titles, StoredBehind, MessagesHaveVectors,
          TitlesKnown, Owing
    <2>4. /\ \A d \in Documents : EmbedOwes(d) => EmbedOwes(d)'
          /\ \A d \in Documents : IndexOwes(d) => IndexOwes(d)'
          /\ \A d \in Documents : TitleOwed(d) => TitleOwed(d)'
      BY <1>0, <1>5, MessageSteps, SentType
      DEF WriteTitles, queues, TypeOK, Runs, Bookkeeping, EmbedOwes, IndexOwes,
          TitleOwed, Carries, About, Pending, Owing, TitlesKnown
    <2>5. RequestKept'
      BY <1>0, <1>5, <2>4, MessageSteps
      DEF WriteTitles, queues, TypeOK, Owing, RequestKept, StoredBehind
    <2>6. BodyKept'
      BY <1>0, <1>5, <2>4
      DEF WriteTitles, queues, TypeOK, Owing, BodyKept, TitlesKnown
    <2>7. TitleKept'
      BY <1>0, <1>5, <2>4
      DEF WriteTitles, queues, TypeOK, Titles, Owing, TitleKept, TitlesKnown
    <2>8. CalmWork'
      BY <1>0, <1>5, MessageSteps
      DEF WriteTitles, queues, TypeOK, Runs, Bookkeeping, CalmWork, Quiet,
          TitlesRepaired, Pending
    <2>9. QED
      BY <2>1, <2>2, <2>3, <2>5, <2>6, <2>7, <2>8 DEF IInv, Owing
  <1>6. ASSUME TitlesWritten PROVE IInv'
    <2>1. TypeOK'
      BY <1>0, <1>6, MessageSteps, SentType, BodyType
      DEF TitlesWritten, queues, TypeOK, DeliveriesLeft, Runs, Bookkeeping, EmbedPcs,
          IndexPcs, Titles, Deliveries
    <2>2. Bookkeeping'
      BY <1>0, <1>6, MessageSteps, SentType
      DEF TitlesWritten, queues, TypeOK, DeliveriesLeft, Runs, SlotsFree, Bookkeeping,
          Deliveries
    <2>3. StoredBehind' /\ MessagesHaveVectors' /\ TitlesKnown'
      BY <1>0, <1>6, MessageSteps, SentType
      DEF TitlesWritten, queues, TypeOK, Titles, StoredBehind, MessagesHaveVectors,
          TitlesKnown, Owing
    <2>4. /\ \A d \in Documents : EmbedOwes(d) => EmbedOwes(d)'
          /\ \A d \in Documents : IndexOwes(d) => IndexOwes(d)'
          /\ \A d \in Documents : TitleOwed(d) => TitleOwed(d)'
      BY <1>0, <1>6, MessageSteps, SentType
      DEF TitlesWritten, queues, TypeOK, Runs, Bookkeeping, EmbedOwes, IndexOwes,
          TitleOwed, Carries, About, Pending, Owing, TitlesKnown
    <2>5. RequestKept'
      BY <1>0, <1>6, <2>4, MessageSteps
      DEF TitlesWritten, queues, TypeOK, Owing, RequestKept, StoredBehind
    <2>6. BodyKept'
      BY <1>0, <1>6, <2>4
      DEF TitlesWritten, queues, TypeOK, Owing, BodyKept, TitlesKnown
    <2>7. TitleKept'
      BY <1>0, <1>6, <2>4
      DEF TitlesWritten, queues, TypeOK, Titles, Owing, TitleKept, TitlesKnown
    <2>8. CalmWork'
      BY <1>0, <1>6, MessageSteps
      DEF TitlesWritten, queues, TypeOK, Runs, Bookkeeping, CalmWork, Quiet,
          TitlesRepaired, Pending
    <2>9. QED
      BY <2>1, <2>2, <2>3, <2>5, <2>6, <2>7, <2>8 DEF IInv, Owing
  <1>7. ASSUME TitlesFail PROVE IInv'
    <2>1. TypeOK'
      <3>1. targets' \in [Bids -> Titles]
        BY <1>0, <1>7, MessageSteps, SentType, BodyType
        DEF TitlesFail, queues, TypeOK, Titles
      <3>2. titleDocs' \in [Bids -> Titles]
        BY <1>0, <1>7, MessageSteps, SentType, BodyType
        DEF TitlesFail, queues, TypeOK, Titles
      <3>3. QED
        BY <1>0, <1>7, <3>1, <3>2, BodyType DEF TitlesFail, queues, TypeOK
    <2>2. Bookkeeping'
      BY <1>0, <1>7, MessageSteps, SentType
      DEF TitlesFail, queues, TypeOK, DeliveriesLeft, Runs, SlotsFree, Bookkeeping,
          Deliveries
    <2>3. StoredBehind' /\ MessagesHaveVectors' /\ TitlesKnown'
      BY <1>0, <1>7, MessageSteps, SentType
      DEF TitlesFail, queues, TypeOK, Titles, StoredBehind, MessagesHaveVectors,
          TitlesKnown, Owing
    <2>4. /\ \A d \in Documents : EmbedOwes(d) => EmbedOwes(d)'
          /\ \A d \in Documents : IndexOwes(d) => IndexOwes(d)'
          /\ \A d \in Documents : TitleOwed(d) => TitleOwed(d)'
      BY <1>0, <1>7, MessageSteps, SentType
      DEF TitlesFail, queues, TypeOK, Runs, Bookkeeping, EmbedOwes, IndexOwes,
          TitleOwed, Carries, About, Pending, Owing, TitlesKnown
    <2>5. RequestKept'
      BY <1>0, <1>7, <2>4, MessageSteps
      DEF TitlesFail, queues, TypeOK, Owing, RequestKept, StoredBehind
    <2>6. BodyKept'
      BY <1>0, <1>7, <2>4 DEF TitlesFail, queues, TypeOK, Owing, BodyKept, TitlesKnown
    <2>7. TitleKept'
      BY <1>0, <1>7, <2>4
      DEF TitlesFail, queues, TypeOK, Titles, Owing, TitleKept, TitlesKnown
    <2>8. CalmWork'
      BY <1>0, <1>7, MessageSteps
      DEF TitlesFail, queues, TypeOK, Runs, Bookkeeping, CalmWork, Quiet,
          TitlesRepaired, Pending
    <2>9. QED
      BY <2>1, <2>2, <2>3, <2>5, <2>6, <2>7, <2>8 DEF IInv, Owing
  <1>8. QED
    BY <1>1, <1>2, <1>3, <1>4, <1>5, <1>6, <1>7 DEF Backfill

LEMMA StepIInv == IInv /\ [Next]_vars => IInv'
  <1> SUFFICES ASSUME IInv, [Next]_vars PROVE IInv'
    OBVIOUS
  <1>1. CASE Next
    BY <1>1, EmbedIInv, IndexIInv, EnvironmentIInv DEF Next, Step
  <1>2. CASE UNCHANGED vars
    BY <1>2
    DEF vars, queues, backfill, IInv, TypeOK, Bookkeeping, DeliveriesLeft, Runs,
        SlotsFree, Owing, StoredBehind, MessagesHaveVectors, TitlesKnown, RequestKept,
        BodyKept, TitleKept, EmbedOwes, IndexOwes, TitleOwed, Carries, CalmWork, Quiet,
        TitlesRepaired, Indexed, Pending, About
  <1>3. QED
    BY <1>1, <1>2

THEOREM Invariance == Spec => []IInv
  <1>1. QED
    BY InitIInv, StepIInv, PTL DEF Spec

-------------------------------------------------------------------------------

(* Every variable keeps its type, whatever the interleaving of deliveries,  *)
(* failures and the script.                                                 *)
THEOREM TypeCorrect == Spec => []TypeOK
  <1>1. IInv => TypeOK
    BY DEF IInv
  <1>2. QED
    BY <1>1, Invariance, PTL

(* A message of the index queue never names vectors that are not there, so  *)
(* that the index Lambda can fail for want of an index only.                *)
THEOREM MessagesHaveVectorsHolds == Spec => []MessagesHaveVectors
  <1>1. IInv => MessagesHaveVectors
    BY DEF IInv, Owing
  <1>2. QED
    BY <1>1, Invariance, PTL

(* No document sent to the embedding queue is lost: it is searchable, under *)
(* way, in a dead-letter queue, or there was nothing to index.              *)
THEOREM NothingLostHolds == Spec => []NothingLost
  <1>1. ASSUME IInv PROVE NothingLost
    <2> USE DocumentsAssumption
    <2> SUFFICES ASSUME NEW r \in Requests, embedQ[r].status # "absent",
                        ~InTransit(Subject[r]), ~DeadLettered(Subject[r]),
                        ~NothingToIndex(Subject[r])
                 PROVE  Searchable(Subject[r])
      BY DEF NothingLost
    <2>1. ~EmbedOwes(Subject[r]) /\ ~IndexOwes(Subject[r])
      BY DEF EmbedOwes, IndexOwes, InTransit, DeadLettered
    <2>2. ~TitleOwed(Subject[r])
      <3>1. \A q \in About(Subject[r]), k \in Deliveries :
               Carries(q, k) => Pending(indexQ[q][k]) \/ indexQ[q][k].status = "dead"
        BY <1>1 DEF Carries, Pending, IInv, Bookkeeping, Runs, About
      <3>2. QED
        BY <3>1, <2>1 DEF TitleOwed, IndexOwes
    <2>3. vectors[Subject[r]].stored
      BY <1>1, <2>1 DEF IInv, Owing, RequestKept, NothingToIndex
    <2>4. Indexed(Subject[r]) \subseteq bodyDocs
      BY <1>1, <2>1, <2>3 DEF IInv, Owing, BodyKept
    <2>5. vectors[Subject[r]].title # 0 => titleDocs[BidOf[Subject[r]]] # 0
      BY <1>1, <2>1, <2>2 DEF IInv, Owing, TitleKept
    <2>6. QED
      BY <2>3, <2>4, <2>5 DEF Searchable
  <1>2. QED
    BY <1>1, Invariance, PTL

(* An undisturbed run of the title backfill leaves every bid under the      *)
(* title it has, whatever deliveries wrote before.                          *)
THEOREM TitlesRepairedHolds == Spec => []TitlesRepaired
  <1>1. IInv => TitlesRepaired
    BY DEF IInv, CalmWork, TitlesRepaired
  <1>2. QED
    BY <1>1, Invariance, PTL

===============================================================================
