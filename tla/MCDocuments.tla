------------------------------ MODULE MCDocuments ------------------------------
(* What is made of a document, from its bytes to chunks and to fields, and    *)
(* what the programs that fetch past notices leave behind, for TLC.  The     *)
(* models hand each other what they make, but share no variable: one of them  *)
(* moves in each behaviour.                                                   *)
EXTENDS MCDocumentText, MCPdfPage, MCChunker, MCQualificationFields, History

CONSTANT Copy

VARIABLE moving

\* The others stand still, at an initial state of an empty instance.
TextRests ==
    /\ file = [content |-> "unknown", ext |-> "hwp", body |-> <<>>]
    /\ stage = "new" /\ format = "unknown"
    /\ todo = <<>> /\ lines = <<>> /\ pages = <<>>
    /\ inTable = FALSE /\ partial = FALSE /\ images = <<>>

PageRests ==
    /\ page = EmptyPage(400, 600)
    /\ parts = <<>> /\ tables = <<>> /\ blocks = <<>> /\ reading = NoPart
    /\ counter = 0 /\ registry = <<>> /\ output = <<>>

ChunksRest ==
    /\ doc = <<>> /\ rest = <<>> /\ kind = "text"
    /\ uncut = <<>> /\ section = <<>> /\ unfilled = <<>> /\ window = <<>>
    /\ chunks = <<>> /\ current = NoChunk /\ merged = <<>> /\ dropped = <<>>

FieldsRest == answers = <<>> /\ stored = {} /\ row = Null /\ included = {}

MCInit ==
    /\ Init
    /\ \/ moving = "text" /\ TextInit /\ PageRests /\ ChunksRest /\ FieldsRest
       \/ moving = "page" /\ PageInit /\ TextRests /\ ChunksRest /\ FieldsRest
       \/ moving = "chunks" /\ ChunkInit /\ TextRests /\ PageRests /\ FieldsRest
       \/ moving = "fields" /\ FieldsInit /\ TextRests /\ PageRests /\ ChunksRest
       \/ moving = "history" /\ TextRests /\ PageRests /\ ChunksRest /\ FieldsRest

documentVars == <<textVars, pageVars, chunkVars, fieldsVars>>

MCNext ==
    /\ UNCHANGED moving
    /\ \/ moving = "text" /\ TextNext /\ UNCHANGED <<pageVars, chunkVars, fieldsVars, vars>>
       \/ moving = "page" /\ PageNext /\ UNCHANGED <<textVars, chunkVars, fieldsVars, vars>>
       \/ moving = "chunks" /\ ChunkNext /\ UNCHANGED <<textVars, pageVars, fieldsVars, vars>>
       \/ moving = "fields" /\ FieldsNext /\ UNCHANGED <<textVars, pageVars, chunkVars, vars>>
       \/ moving = "history" /\ Next /\ UNCHANGED documentVars

MCSpec == MCInit /\ [][MCNext]_<<documentVars, vars, moving>>

\* Two days of one month and one of another.
OneMonthAndAnother == [d \in Days |-> IF d = 3 THEN "second" ELSE "first"]

\* A query with a second page, a query without any notice on the first day.
TwoPagesFirst ==
    [d \in Days |-> [q \in Queries |->
        IF d = 1 THEN (IF q = "a" THEN 2 ELSE 0) ELSE IF q = "b" THEN 1 ELSE 0]]

\* One attachment each, and one that is dropped.
OneEach ==
    [n \in Notices |-> IF n = <<2, "b", 1>> THEN {n, Copy} ELSE {n}]

===============================================================================
