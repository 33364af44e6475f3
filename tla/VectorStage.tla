------------------------------ MODULE VectorStage ------------------------------
(***************************************************************************)
(* The vector stage of the realtime stack: the embedding Lambda            *)
(* (handlers/embed_chunks.py) cuts an extracted document into chunks, adds *)
(* the title of its bid, embeds both, stores the vectors in S3 and sends   *)
(* their key to the index queue; the index Lambda                          *)
(* (handlers/index_opensearch.py) reads the vectors and upserts one        *)
(* OpenSearch document per chunk.                                          *)
(*                                                                         *)
(* A request is one message of the embedding queue.  Each of its           *)
(* deliveries may send one message to the index queue, so those carry the  *)
(* request and the number of the delivery.  INDEX_QUEUE_URL is set, as in  *)
(* template.yaml.                                                          *)
(*                                                                         *)
(* An operator may run scripts/backfill_title_vectors.py meanwhile, which  *)
(* writes the titles under the same ids.                                   *)
(***************************************************************************)
EXTENDS SqsMessage

CONSTANTS
    Documents,
    Bids,
    BidOf,         \* bid of each document
    MaxChunks,     \* chunks a text may be cut into (bound)
    Requests,      \* messages sent to the embedding queue (bound)
    Subject,       \* the document each is about
    MaxTitles      \* titles a bid may have one after the other (bound)

ASSUME DocumentsAssumption ==
    /\ BidOf \in [Documents -> Bids]
    /\ MaxChunks \in Nat
    /\ Subject \in [Requests -> Documents]
    /\ MaxTitles \in Nat

VARIABLES
    chunks,     \* number of chunks each text is cut into, possibly none; fixed
    title,      \* which title the curated JSON of each bid holds; 0: none
    embedQ,     \* embedding queue, by request
    embedPc,
    embedTitle, \* the title the running invocation has read
    vectors,    \* object under vectors/ of each document
    indexQ,     \* index queue, by request and delivery
    indexPc,
    indexTitle, \* the title among the vectors the running invocation has read
    ready,      \* whether setup-opensearch-index.py has been run
    bodyDocs,   \* OpenSearch documents {file_id}::{chunk_idx}
    titleDocs,  \* title of the OpenSearch document {bid_id}_title::0; 0: none
    script,     \* what the title backfill is doing
    targets,    \* the title it holds for each bid it has still to write; 0: none
    calm        \* history: no message under way, none sent and no title
                \* written since the backfill listed the titles

queues == <<embedQ, embedPc, embedTitle, indexQ, indexPc, indexTitle>>
backfill == <<script, targets, calm>>
vars == <<chunks, title, queues, vectors, ready, bodyDocs, titleDocs, backfill>>

Deliveries == 1 .. MaxReceive
Titles == 0 .. MaxTitles

EmbedPcs == {"idle", "reading", "embedding", "stored"}
IndexPcs == {"idle", "reading", "writing"}

Indexed(d) == {<<d, i>> : i \in 1 .. chunks[d]}

TypeOK ==
    /\ chunks \in [Documents -> 0 .. MaxChunks]
    /\ title \in [Bids -> Titles]
    /\ embedQ \in [Requests -> Message]
    /\ embedPc \in [Requests -> EmbedPcs]
    /\ embedTitle \in [Requests -> Titles]
    /\ vectors \in [Documents -> [stored : BOOLEAN, title : Titles]]
    /\ indexQ \in [Requests -> [Deliveries -> Message]]
    /\ indexPc \in [Requests -> [Deliveries -> IndexPcs]]
    /\ indexTitle \in [Requests -> [Deliveries -> Titles]]
    /\ ready \in BOOLEAN
    /\ bodyDocs \subseteq UNION {Indexed(d) : d \in Documents}
    /\ titleDocs \in [Bids -> Titles]
    /\ script \in {"off", "listed", "writing", "done"}
    /\ targets \in [Bids -> Titles]
    /\ calm \in BOOLEAN

Init ==
    /\ chunks \in [Documents -> 0 .. MaxChunks]
    /\ title \in [Bids -> Titles]
    /\ embedQ = [r \in Requests |-> Absent]
    /\ embedPc = [r \in Requests |-> "idle"]
    /\ embedTitle = [r \in Requests |-> 0]
    /\ vectors = [d \in Documents |-> [stored |-> FALSE, title |-> 0]]
    /\ indexQ = [r \in Requests |-> [k \in Deliveries |-> Absent]]
    /\ indexPc = [r \in Requests |-> [k \in Deliveries |-> "idle"]]
    /\ indexTitle = [r \in Requests |-> [k \in Deliveries |-> 0]]
    /\ ready = FALSE
    /\ bodyDocs = {}
    /\ titleDocs = [b \in Bids |-> 0]
    /\ script = "off"
    /\ targets = [b \in Bids |-> 0]
    /\ calm = FALSE

-------------------------------------------------------------------------------
(* Around the stage.                                                        *)

\* An extraction Lambda sends the key of the text it has stored.
Request(r) ==
    /\ embedQ[r].status = "absent"
    /\ embedQ' = [embedQ EXCEPT ![r] = Fresh]
    /\ calm' = FALSE
    /\ UNCHANGED <<title, embedPc, embedTitle, vectors, indexQ, indexPc,
                   indexTitle, ready, bodyDocs, titleDocs, script, targets>>

\* The collector writes the curated JSON again, under another title.
Retitle(b) ==
    /\ title[b] < MaxTitles
    /\ title' = [title EXCEPT ![b] = @ + 1]
    /\ calm' = FALSE
    /\ UNCHANGED <<queues, vectors, ready, bodyDocs, titleDocs, script, targets>>

\* setup-opensearch-index.py; it never drops an index.
SetupIndex ==
    /\ ~ready
    /\ ready' = TRUE
    /\ UNCHANGED <<title, embedQ, embedPc, embedTitle, vectors, indexQ, indexPc,
                   indexTitle, bodyDocs, titleDocs, backfill>>

-------------------------------------------------------------------------------
(* The embedding Lambda.                                                    *)

EmbedReceive(r) ==
    /\ embedQ[r].status = "visible"
    /\ embedQ' = [embedQ EXCEPT ![r] = Received(@)]
    /\ embedPc' = [embedPc EXCEPT ![r] = "reading"]
    /\ UNCHANGED <<title, embedTitle, vectors, indexQ, indexPc, indexTitle, ready,
                   bodyDocs, titleDocs, backfill>>

\* The text, its chunks and _load_bid_title.
EmbedRead(r) ==
    LET t == title[BidOf[Subject[r]]] IN
    /\ embedPc[r] = "reading"
    /\ chunks[Subject[r]] # 0 \/ t # 0
    /\ embedTitle' = [embedTitle EXCEPT ![r] = t]
    /\ embedPc' = [embedPc EXCEPT ![r] = "embedding"]
    /\ UNCHANGED <<title, embedQ, vectors, indexQ, indexPc, indexTitle, ready,
                   bodyDocs, titleDocs, backfill>>

\* No chunk and no title: the handler logs a warning and returns.
EmbedSkip(r) ==
    /\ embedPc[r] = "reading"
    /\ chunks[Subject[r]] = 0
    /\ title[BidOf[Subject[r]]] = 0
    /\ embedQ' = [embedQ EXCEPT ![r] = Deleted(@)]
    /\ embedPc' = [embedPc EXCEPT ![r] = "idle"]
    /\ UNCHANGED <<title, embedTitle, vectors, indexQ, indexPc, indexTitle, ready,
                   bodyDocs, titleDocs, backfill>>

\* cloudflare_embedder.embed and the put of vectors/; the object of an
\* earlier delivery is replaced.
EmbedStore(r) ==
    /\ embedPc[r] = "embedding"
    /\ vectors' = [vectors EXCEPT ![Subject[r]] = [stored |-> TRUE, title |-> embedTitle[r]]]
    /\ embedPc' = [embedPc EXCEPT ![r] = "stored"]
    /\ UNCHANGED <<title, embedQ, embedTitle, indexQ, indexPc, indexTitle, ready,
                   bodyDocs, titleDocs, backfill>>

\* The messages of the index queue once this delivery has sent its own.
Sent(r) == [indexQ EXCEPT ![r][embedQ[r].receives] = Fresh]

\* The handler returns.
EmbedReturn(r) ==
    /\ embedQ' = [embedQ EXCEPT ![r] = Deleted(@)]
    /\ embedPc' = [embedPc EXCEPT ![r] = "idle"]
    /\ embedTitle' = [embedTitle EXCEPT ![r] = 0]

\* Mutated form: an error of the send is swallowed, as _send_to_embed_queue does.
EmbedSendSwallowing(r) ==
    /\ embedPc[r] = "stored"
    /\ indexQ' \in {indexQ, Sent(r)}
    /\ EmbedReturn(r)
    /\ UNCHANGED <<title, vectors, indexPc, indexTitle, ready, bodyDocs, titleDocs, backfill>>

\* _send_to_index_queue, the last step.
EmbedSend(r) ==
    /\ embedPc[r] = "stored"
    /\ indexQ' = Sent(r)
    /\ EmbedReturn(r)
    /\ UNCHANGED <<title, vectors, indexPc, indexTitle, ready, bodyDocs, titleDocs, backfill>>

\* S3, Cloudflare or SQS raises, or the Lambda dies at any step, after the
\* send among others.
EmbedFail(r) ==
    /\ embedPc[r] # "idle"
    /\ embedQ' = [embedQ EXCEPT ![r] = Returned(@)]
    /\ embedPc' = [embedPc EXCEPT ![r] = "idle"]
    /\ embedTitle' = [embedTitle EXCEPT ![r] = 0]
    /\ \/ UNCHANGED indexQ
       \/ embedPc[r] = "stored" /\ indexQ' = Sent(r)
    /\ UNCHANGED <<title, vectors, indexPc, indexTitle, ready, bodyDocs, titleDocs, backfill>>

-------------------------------------------------------------------------------
(* The index Lambda.                                                        *)

IndexReceive(r, k) ==
    /\ indexQ[r][k].status = "visible"
    /\ indexQ' = [indexQ EXCEPT ![r][k] = Received(@)]
    /\ indexPc' = [indexPc EXCEPT ![r][k] = "reading"]
    /\ UNCHANGED <<title, embedQ, embedPc, embedTitle, vectors, indexTitle, ready,
                   bodyDocs, titleDocs, backfill>>

\* _get_checked_client finds the index, and the vectors are read as they are now.
IndexRead(r, k) ==
    /\ indexPc[r][k] = "reading"
    /\ ready
    /\ vectors[Subject[r]].stored
    /\ indexTitle' = [indexTitle EXCEPT ![r][k] = vectors[Subject[r]].title]
    /\ indexPc' = [indexPc EXCEPT ![r][k] = "writing"]
    /\ UNCHANGED <<title, embedQ, embedPc, embedTitle, vectors, indexQ, ready,
                   bodyDocs, titleDocs, backfill>>

\* The effect of a bulk request on some of its documents.
Upsert(r, k, some, withTitle) ==
    /\ bodyDocs' = bodyDocs \union some
    /\ titleDocs' = IF withTitle /\ indexTitle[r][k] # 0
                    THEN [titleDocs EXCEPT ![BidOf[Subject[r]]] = indexTitle[r][k]]
                    ELSE titleDocs

\* The handler returns.
IndexReturn(r, k) ==
    /\ indexQ' = [indexQ EXCEPT ![r][k] = Deleted(@)]
    /\ indexPc' = [indexPc EXCEPT ![r][k] = "idle"]
    /\ indexTitle' = [indexTitle EXCEPT ![r][k] = 0]

\* Mutated form: raise_on_error = False, as in the script of the experiments.
IndexBulkLeniently(r, k) ==
    /\ indexPc[r][k] = "writing"
    /\ \E some \in SUBSET Indexed(Subject[r]), withTitle \in BOOLEAN :
         Upsert(r, k, some, withTitle)
    /\ IndexReturn(r, k)
    /\ UNCHANGED <<title, embedQ, embedPc, embedTitle, vectors, ready, backfill>>

\* helpers.bulk of every chunk and of the title.
IndexBulk(r, k) ==
    /\ indexPc[r][k] = "writing"
    /\ Upsert(r, k, Indexed(Subject[r]), TRUE)
    /\ IndexReturn(r, k)
    /\ UNCHANGED <<title, embedQ, embedPc, embedTitle, vectors, ready, backfill>>

\* The index or the vectors are missing, a call raises, some documents of the
\* bulk request are rejected (raise_on_error), or the Lambda dies, after the
\* bulk request among others.
IndexFail(r, k) ==
    /\ indexPc[r][k] # "idle"
    /\ indexQ' = [indexQ EXCEPT ![r][k] = Returned(@)]
    /\ indexPc' = [indexPc EXCEPT ![r][k] = "idle"]
    /\ indexTitle' = [indexTitle EXCEPT ![r][k] = 0]
    /\ \/ UNCHANGED <<bodyDocs, titleDocs>>
       \/ /\ indexPc[r][k] = "writing"
          /\ \E some \in SUBSET Indexed(Subject[r]), withTitle \in BOOLEAN :
               Upsert(r, k, some, withTitle)
    /\ UNCHANGED <<title, embedQ, embedPc, embedTitle, vectors, ready, backfill>>

-------------------------------------------------------------------------------
(* The title backfill, run to the end without --limit.                      *)

Quiet ==
    /\ \A r \in Requests : ~Pending(embedQ[r])
    /\ \A r \in Requests, k \in Deliveries : ~Pending(indexQ[r][k])

\* list_curated_objects and load_latest_titles.
ListTitles ==
    /\ script \in {"off", "done"}
    /\ script' = "listed"
    /\ targets' = title
    /\ calm' = Quiet
    /\ UNCHANGED <<title, queues, vectors, ready, bodyDocs, titleDocs>>

\* Mutated form: any title document of the bid will do.
AlreadyWrittenSome(b) == titleDocs[b] # 0

AlreadyWritten(b) == titleDocs[b] = targets[b]

\* load_existing_titles, which needs the index, and select_targets.
SelectTitles ==
    /\ script = "listed"
    /\ ready
    /\ targets' = [b \in Bids |-> IF AlreadyWritten(b) THEN 0 ELSE targets[b]]
    /\ script' = "writing"
    /\ UNCHANGED <<title, queues, vectors, ready, bodyDocs, titleDocs, calm>>

\* embed_titles and bulk_upsert of one batch.
WriteTitles(batch) ==
    /\ script = "writing"
    /\ \A b \in batch : targets[b] # 0
    /\ titleDocs' = [b \in Bids |-> IF b \in batch THEN targets[b] ELSE titleDocs[b]]
    /\ targets' = [b \in Bids |-> IF b \in batch THEN 0 ELSE targets[b]]
    /\ UNCHANGED <<title, queues, vectors, ready, bodyDocs, script, calm>>

TitlesWritten ==
    /\ script = "writing"
    /\ \A b \in Bids : targets[b] = 0
    /\ script' = "done"
    /\ UNCHANGED <<title, queues, vectors, ready, bodyDocs, titleDocs, targets, calm>>

\* A request fails, the answer holds too few vectors, or part of a bulk
\* request is rejected: the script ends.
TitlesFail ==
    /\ script \in {"listed", "writing"}
    /\ script' = "off"
    /\ targets' = [b \in Bids |-> 0]
    /\ calm' = FALSE
    /\ \E some \in SUBSET {b \in Bids : script = "writing" /\ targets[b] # 0} :
         titleDocs' = [b \in Bids |-> IF b \in some THEN targets[b] ELSE titleDocs[b]]
    /\ UNCHANGED <<title, queues, vectors, ready, bodyDocs>>

Backfill ==
    \/ ListTitles
    \/ SelectTitles
    \/ \E batch \in (SUBSET Bids) \ {{}} : WriteTitles(batch)
    \/ TitlesWritten
    \/ TitlesFail

-------------------------------------------------------------------------------

EmbedLambda(r) ==
    \/ EmbedReceive(r)
    \/ EmbedRead(r)
    \/ EmbedSkip(r)
    \/ EmbedStore(r)
    \/ EmbedSend(r)

IndexLambda(r, k) ==
    \/ IndexReceive(r, k)
    \/ IndexRead(r, k)
    \/ IndexBulk(r, k)

Step ==
    \/ \E r \in Requests : Request(r) \/ EmbedLambda(r) \/ EmbedFail(r)
    \/ \E b \in Bids : Retitle(b)
    \/ SetupIndex
    \/ Backfill
    \/ \E r \in Requests, k \in Deliveries : IndexLambda(r, k) \/ IndexFail(r, k)

Next == Step /\ UNCHANGED chunks

Spec == Init /\ [][Next]_vars

\* The event source mappings deliver what is visible, and an invocation ends:
\* it makes its next step, raises, or runs into its timeout.
FairSpec ==
    /\ Spec
    /\ \A r \in Requests : WF_vars((EmbedLambda(r) \/ EmbedFail(r)) /\ UNCHANGED chunks)
    /\ \A r \in Requests, k \in Deliveries :
           WF_vars((IndexLambda(r, k) \/ IndexFail(r, k)) /\ UNCHANGED chunks)

-------------------------------------------------------------------------------
(* Properties                                                               *)

About(d) == {r \in Requests : Subject[r] = d}

\* Everything stored under vectors/ for d can be found in OpenSearch.
Searchable(d) ==
    /\ vectors[d].stored
    /\ Indexed(d) \subseteq bodyDocs
    /\ vectors[d].title # 0 => titleDocs[BidOf[d]] # 0

InTransit(d) ==
    \E r \in About(d) : \/ Pending(embedQ[r])
                        \/ \E k \in Deliveries : Pending(indexQ[r][k])

DeadLettered(d) ==
    \E r \in About(d) : \/ embedQ[r].status = "dead"
                        \/ \E k \in Deliveries : indexQ[r][k].status = "dead"

\* A document without chunks of a bid without title has nothing to index.
NothingToIndex(d) == chunks[d] = 0 /\ ~vectors[d].stored

\* A document sent to the embedding queue is searchable in full, still under
\* way, on show in a dead-letter queue, or has nothing to index: no partial
\* write and no lost hand-over passes for success.
NothingLost ==
    \A r \in Requests :
        embedQ[r].status # "absent" =>
            LET d == Subject[r] IN
            Searchable(d) \/ InTransit(d) \/ DeadLettered(d) \/ NothingToIndex(d)

\* A message of the index queue never names vectors that are not there yet.
MessagesHaveVectors ==
    \A r \in Requests, k \in Deliveries :
        indexQ[r][k].status # "absent" => vectors[Subject[r]].stored

\* Retries are bounded on both queues: every request is settled.
EventuallySettled ==
    \A r \in Requests :
        LET d == Subject[r] IN
        embedQ[r].status = "visible" ~>
            \/ Searchable(d)
            \/ DeadLettered(d)
            \/ embedQ[r].status = "deleted" /\ NothingToIndex(d)

\* Deliveries may leave an older title over a newer one.  A run of the title
\* backfill repairs that: if no message was under way and nothing was written
\* meanwhile, every bid is afterwards indexed under the title it has.
TitlesRepaired ==
    script = "done" /\ calm => \A b \in Bids : title[b] # 0 => titleDocs[b] = title[b]

===============================================================================
