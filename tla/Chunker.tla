-------------------------------- MODULE Chunker --------------------------------
(***************************************************************************)
(* How the embedding Lambda cuts a document into chunks                    *)
(* (src/pipeline/realtime/src/embedding/chunker.py; src/embedding/         *)
(* chunker.py is the copy the experiments use).                            *)
(*                                                                         *)
(* A document is a sequence of items, text or table (a box is treated as a *)
(* table is); an item is a sequence of lines.  Of a line the model keeps   *)
(* which one it is, its length in characters, the header it starts with    *)
(* and whether it holds a letter or a digit.  Lengths are the real ones.   *)
(* Page separators and page numbers are gone already, and no line begins   *)
(* or ends with a space, so that strip() removes whole empty lines.        *)
(***************************************************************************)
EXTENDS Integers, Sequences, SequencesExt, FiniteSetsExt

CONSTANTS
    Documents,     \* the documents that may come
    MaxTokens,     \* MAX_TOKENS
    MinTokens,     \* MIN_TOKENS
    MaxChars,      \* MAX_CHARS
    OverlapLines,  \* OVERLAP_LINES
    NoChunk

\* A line has no number when nothing is on it.
Line == {l \in [id : Nat, len : Nat, head : {"none", "main", "sub"}, words : BOOLEAN] :
            (l.id = 0 <=> l.len = 0) /\ (l.len = 0 => ~l.words)}

Item == [type : {"text", "table"}, lines : Seq(Line)]

\* Lines are numbered as they stand in the document.
ASSUME DocumentsAssumption ==
    \A d \in Documents :
        /\ d \in Seq(Item)
        /\ \A i, j \in DOMAIN d : \A m \in DOMAIN d[i].lines, n \in DOMAIN d[j].lines :
             LET a == d[i].lines[m].id
                 b == d[j].lines[n].id
             IN  a # 0 /\ b # 0 /\ (i < j \/ (i = j /\ m < n)) => a < b

ASSUME ChunkerAssumption ==
    /\ OverlapLines \in Nat \ {0}
    /\ NoChunk \notin Item

VARIABLES
    doc,      \* the document
    rest,     \* its items not cut yet
    kind,     \* type of the item that is being cut
    uncut,    \* what is left of it, to be cut into sections
    section,  \* what is left of a section that is too long, to be cut again
    unfilled, \* what is left of a table or a sub-section, to be put into chunks
    window,   \* the chunk it is put into
    chunks,   \* chunks not looked at by _merge_short_chunks yet
    current,  \* the chunk it is looking at, or NoChunk
    merged,   \* chunks it has settled
    dropped   \* chunks it has dropped

splitting == <<rest, kind, uncut, section, unfilled, window>>
merging == <<current, merged, dropped>>
chunkVars == <<doc, splitting, chunks, merging>>

Empty == [id |-> 0, len |-> 0, head |-> "none", words |-> FALSE]

\* Length of the lines joined by newlines.
Length(lines) ==
    FoldSeq(LAMBDA line, sum : line.len + sum, 0, lines)
    + (IF lines = <<>> THEN 0 ELSE Len(lines) - 1)

\* _tok: 1.5 characters to a token.
Tok(lines) == (2 * Length(lines)) \div 3

Strip(lines) ==
    LET full == {i \in DOMAIN lines : lines[i].len > 0} IN
    IF full = {} THEN <<>> ELSE SubSeq(lines, Min(full), Max(full))

HasLinguisticContent(lines) == \E i \in DOMAIN lines : lines[i].words

\* A chunk more, unless nothing is left of it.
Emitted(type, lines) ==
    IF Strip(lines) = <<>> THEN chunks
    ELSE Append(chunks, [type |-> type, lines |-> Strip(lines)])

(***************************************************************************)
(* chunk(): the items are cut in order.                                    *)
(***************************************************************************)
ChunkInit ==
    /\ doc \in Documents
    /\ rest = doc /\ kind = "text"
    /\ uncut = <<>> /\ section = <<>> /\ unfilled = <<>> /\ window = <<>>
    /\ chunks = <<>>
    /\ current = NoChunk
    /\ merged = <<>>
    /\ dropped = <<>>

\* Text that is blank is no item.
TakeItem ==
    /\ rest # <<>>
    /\ uncut = <<>> /\ section = <<>> /\ unfilled = <<>> /\ window = <<>>
    /\ LET item == Head(rest)
       IN  /\ kind' = item.type
           /\ IF item.type = "table"
              THEN unfilled' = Strip(item.lines) /\ UNCHANGED uncut
              ELSE /\ uncut' = IF Strip(item.lines) = <<>> THEN <<>> ELSE item.lines
                   /\ UNCHANGED unfilled
    /\ rest' = Tail(rest)
    /\ UNCHANGED <<doc, section, window, chunks, merging>>

\* How many lines stand before the next one with such a header.
UpToHeader(lines, head) ==
    Min({Len(lines)} \cup {n \in 1 .. Len(lines) - 1 : lines[n + 1].head = head})

\* As FirstPart would be without what stands before the first header.
FirstHeaded(lines, head) ==
    LET n == UpToHeader(lines, head)
    IN  IF Head(lines).head # head /\ n < Len(lines) THEN <<>> ELSE SubSeq(lines, 1, n)

\* The first part of the lines: all parts but the last end in a newline.
FirstPart(lines, head) ==
    LET n == UpToHeader(lines, head)
    IN  IF n = Len(lines) THEN lines ELSE Append(SubSeq(lines, 1, n), Empty)

OtherParts(lines, head) == SubSeq(lines, UpToHeader(lines, head) + 1, Len(lines))

\* A section is a chunk, or is cut again where it is too long.
CutSection ==
    /\ uncut # <<>> /\ section = <<>> /\ unfilled = <<>> /\ window = <<>>
    /\ LET part == FirstPart(uncut, "main")
       IN  IF Strip(part) = <<>> \/ Tok(part) <= MaxTokens
           THEN chunks' = Emitted("text", part) /\ UNCHANGED section
           ELSE section' = part /\ UNCHANGED chunks
    /\ uncut' = OtherParts(uncut, "main")
    /\ UNCHANGED <<doc, rest, kind, unfilled, window, merging>>

CutSubSection ==
    /\ section # <<>> /\ unfilled = <<>> /\ window = <<>>
    /\ LET part == FirstPart(section, "sub")
       IN  IF Strip(part) = <<>> \/ Tok(part) <= MaxTokens
           THEN chunks' = Emitted("text", part) /\ UNCHANGED unfilled
           ELSE unfilled' = part /\ UNCHANGED chunks
    /\ section' = OtherParts(section, "sub")
    /\ UNCHANGED <<doc, rest, kind, uncut, window, merging>>

LastLines(n, lines) == SubSeq(lines, Max({1, Len(lines) - n + 1}), Len(lines))

\* As Overlap would be if tables were windows, too.
OverlapAlways == OverlapLines

\* How many lines are put into the next chunk once more: of a table, none.
Overlap == IF kind = "text" THEN OverlapLines ELSE 0

(***************************************************************************)
(* Lines are added to a chunk until the next one no longer fits: the loop  *)
(* of _split_block and of _sliding_window.                                 *)
(***************************************************************************)
FillWindow ==
    /\ unfilled # <<>>
    /\ LET line == Head(unfilled)
       IN  IF window = <<>> \/ Length(Append(window, line)) <= MaxChars
           THEN window' = Append(window, line) /\ UNCHANGED chunks
           ELSE /\ chunks' = Emitted(kind, window)
                /\ window' = Append(LastLines(Overlap, window), line)
    /\ unfilled' = Tail(unfilled)
    /\ UNCHANGED <<doc, rest, kind, uncut, section, merging>>

EndWindow ==
    /\ unfilled = <<>> /\ window # <<>>
    /\ chunks' = Emitted(kind, window)
    /\ window' = <<>>
    /\ UNCHANGED <<doc, rest, kind, uncut, section, unfilled, merging>>

Split ==
    /\ rest = <<>>
    /\ uncut = <<>> /\ section = <<>> /\ unfilled = <<>> /\ window = <<>>

(***************************************************************************)
(* _merge_short_chunks walks over the chunks.                              *)
(***************************************************************************)
Short(c) == c.type = "text" /\ Tok(c.lines) < MinTokens

Residue(c) == Short(c) /\ ~HasLinguisticContent(c.lines)

Joined(c, d) == [c EXCEPT !.lines = @ \o d.lines]

Drop ==
    /\ Split /\ current = NoChunk /\ chunks # <<>>
    /\ Residue(Head(chunks))
    /\ dropped' = Append(dropped, Head(chunks))
    /\ chunks' = Tail(chunks)
    /\ UNCHANGED <<doc, splitting, current, merged>>

LookAt ==
    /\ Split /\ current = NoChunk /\ chunks # <<>>
    /\ ~Residue(Head(chunks))
    /\ current' = Head(chunks)
    /\ chunks' = Tail(chunks)
    /\ UNCHANGED <<doc, splitting, merged, dropped>>

\* Whether a short chunk takes the next one in.
AbsorbsNext ==
    /\ current # NoChunk
    /\ Short(current)
    /\ chunks # <<>>
    /\ Head(chunks).type = "text"
    /\ Length(Joined(current, Head(chunks)).lines) <= MaxChars

Absorb ==
    /\ AbsorbsNext
    /\ current' = Joined(current, Head(chunks))
    /\ chunks' = Tail(chunks)
    /\ UNCHANGED <<doc, splitting, merged, dropped>>

\* As TextChunksBefore would be without reversed().
FirstTextChunk ==
    {i \in DOMAIN merged :
        /\ merged[i].type = "text"
        /\ \A j \in 1 .. i - 1 : merged[j].type # "text"}

TextChunksBefore == {i \in DOMAIN merged : merged[i].type = "text"}

\* Whether it is put at the end of the last settled text chunk, which may
\* stand before a table.
JoinsPrevious ==
    /\ Short(current)
    /\ TextChunksBefore # {}
    /\ Length(Joined(merged[Max(TextChunksBefore)], current).lines) <= MaxChars

MergeBack ==
    /\ current # NoChunk
    /\ ~AbsorbsNext
    /\ JoinsPrevious
    /\ merged' = [merged EXCEPT ![Max(TextChunksBefore)] = Joined(@, current)]
    /\ current' = NoChunk
    /\ UNCHANGED <<doc, splitting, chunks, dropped>>

Keep ==
    /\ current # NoChunk
    /\ ~AbsorbsNext
    /\ ~JoinsPrevious
    /\ merged' = Append(merged, current)
    /\ current' = NoChunk
    /\ UNCHANGED <<doc, splitting, chunks, dropped>>

ChunkNext ==
    \/ TakeItem \/ CutSection \/ CutSubSection \/ FillWindow \/ EndWindow
    \/ Drop \/ LookAt \/ Absorb \/ MergeBack \/ Keep

ChunkSpec == ChunkInit /\ [][ChunkNext]_chunkVars

Finished == Split /\ chunks = <<>> /\ current = NoChunk

\* _check_invariants: the chunks it counts as over the limit.
Violations == {i \in DOMAIN merged : Length(merged[i].lines) > MaxChars}

--------------------------------------------------------------------------------
\* The lines of all items or chunks of a type, one after the other.
LinesOf(type, sequence) ==
    LET upTo[i \in 0 .. Len(sequence)] ==
            IF i = 0 THEN <<>>
            ELSE IF sequence[i].type = type THEN upTo[i - 1] \o sequence[i].lines
            ELSE upTo[i - 1]
    IN  upTo[Len(sequence)]

Ids(lines) == {lines[i].id : i \in DOMAIN lines} \ {0}

\* Numbers rise from line to line.
Rising(lines) ==
    \A i, j \in DOMAIN lines :
        i < j /\ lines[i].id # 0 /\ lines[j].id # 0 => lines[i].id < lines[j].id

\* They do except for lines that have been there.
OnlyRepeatsGoBack(lines) ==
    \A i, j \in DOMAIN lines :
        i < j /\ lines[j].id # 0 /\ lines[j].id < lines[i].id
            => \E k \in 1 .. i - 1 : lines[k].id = lines[j].id

\* No line is lost on the way through sections, windows and mergers: at the
\* end every line is in a chunk, except that a chunk without one letter or
\* digit may have been dropped (_split_block: "no data loss";
\* _merge_short_chunks: losing content is what it must never do).
NoLineLost ==
    Finished =>
        \A type \in {"text", "table"} :
            Ids(LinesOf(type, doc)) \ Ids(LinesOf(type, merged))
                \subseteq {line.id : line \in {l \in ToSet(LinesOf(type, dropped)) :
                                                  ~l.words}}

\* Text stays in its order although short chunks move, forward into the next
\* chunk or backward over a table, and although windows repeat lines; the rows
\* of tables stay in order and are never repeated.
ReadingOrderKept ==
    Finished =>
        /\ OnlyRepeatsGoBack(LinesOf("text", merged))
        /\ Rising(LinesOf("table", merged))
        /\ \A type \in {"text", "table"} :
             Ids(LinesOf(type, merged)) \subseteq Ids(LinesOf(type, doc))

\* The chunks hold the document, complete and in its order.
ChunksHoldDocument == NoLineLost /\ ReadingOrderKept

\* The claim of _check_invariants: a chunk over the limit is one line that is
\* too long by itself.
OnlyLongLinesOver == \A i \in Violations : Len(merged[i].lines) = 1
================================================================================
