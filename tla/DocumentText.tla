----------------------------- MODULE DocumentText -----------------------------
(***************************************************************************)
(* A Hangul document on its way to the chunker: dispatch finds the         *)
(* extractor of its format, which walks over the tree of the document;     *)
(* paginate cuts the text into pages; the embedding Lambda joins them and  *)
(* the chunker takes the tables out again.                                 *)
(*                                                                         *)
(* A paragraph is a sequence of nodes: text, pictures, tables (rows of     *)
(* cells of paragraphs), text boxes and page headers (of paragraphs).      *)
(* Text is a sequence of tokens; of a stretch of words the model keeps     *)
(* which one it is and its length.  A picture becomes a placeholder whose  *)
(* number leads to it in the registry; no captions: dispatch passes no     *)
(* describe_fn.  A document has fewer than eleven sections, so that the    *)
(* names of the sections sort as their numbers do.                         *)
(***************************************************************************)
EXTENDS Integers, Sequences, SequencesExt, FiniteSets

CONSTANTS
    Files,       \* [content, ext, body]: what may be uploaded
    PageChars    \* max_chars of paginate

VARIABLES
    file,
    stage,       \* "new", "walk", "cut", "done" or "failed"
    format,      \* what dispatch has detected
    todo,        \* paragraphs not rendered yet; lines not on a page yet
    lines,       \* what is rendered; the lines of the page being filled
    inTable,
    partial,     \* hwp5proc has died over the document
    images,      \* the registry: the pictures in the order of their numbers
    pages

textVars == <<file, stage, format, todo, lines, inTable, partial, images, pages>>

Mark(kind, len) == [kind |-> kind, id |-> 0, len |-> len]
Newline == Mark("newline", 1)
Open == Mark("open", 3)
Close == Mark("close", 4)
Bar == Mark("bar", 3)

Join(parts, separator) ==
    FlattenSeq([i \in DOMAIN parts |->
                   IF i = 1 THEN parts[i] ELSE <<separator>> \o parts[i]])

Trim(tokens) ==
    LET full == {i \in DOMAIN tokens : tokens[i] # Newline}
    IN  SelectSeq([i \in DOMAIN tokens |->
                      IF \E j, k \in full : j <= i /\ i <= k THEN tokens[i] ELSE Mark("cut", 0)],
                  LAMBDA token : token.kind # "cut")

-------------------------------------------------------------------------------
(* The walk.                                                                *)

FormatTable(rows) ==
    <<Open, Newline>>
    \o Join([i \in DOMAIN rows |-> Join(rows[i], Bar)], Newline)
    \o <<Newline, Close>>

\* Of hwpml only the children of TEXT are looked at; the walk of the other two goes
\* into everything.
RECURSIVE RenderParagraph(_, _)
RenderTable(fmt, table) ==
    FormatTable([r \in DOMAIN table.rows |->
                    [c \in DOMAIN table.rows[r] |->
                        LET cell == table.rows[r][c]
                        IN  Trim(Join([p \in DOMAIN cell |-> RenderParagraph(fmt, cell[p])],
                                      Newline))]])
RenderNode(fmt, node) ==
    IF node.kind = "table" THEN <<Newline>> \o RenderTable(fmt, node) \o <<Newline>>
    ELSE IF node.kind \in {"text", "picture"} THEN <<node>>
    ELSE IF fmt = "hwpml" THEN <<>>
    ELSE FlattenSeq([p \in DOMAIN node.inside |-> RenderParagraph(fmt, node.inside[p])])
RenderParagraph(fmt, paragraph) ==
    FlattenSeq([i \in DOMAIN paragraph |-> RenderNode(fmt, paragraph[i])])

\* body.iter("Paragraph") outside cells: the paragraphs of a text box come once more,
\* after the paragraph the box hangs on.
RECURSIVE IterParagraphs(_)
IterParagraphs(paragraphs) ==
    LET below(node) == IF node.kind \in {"box", "header"} THEN IterParagraphs(node.inside)
                       ELSE <<>>
    IN  FlattenSeq([p \in DOMAIN paragraphs |->
            <<paragraphs[p]>>
            \o FlattenSeq([i \in DOMAIN paragraphs[p] |-> below(paragraphs[p][i])])])

\* The others take the paragraphs of the sections one after the other.
ParagraphsOf(fmt, body) == IF fmt = "hwp" THEN IterParagraphs(body) ELSE body

Placeholder(number) == [kind |-> "picture", id |-> number, len |-> 13]

PicturesIn(tokens) == SelectSeq(tokens, LAMBDA token : token.kind = "picture")

\* Mutated form: every paragraph begins with number 1.
RegisterAfresh(tokens, known) ==
    [i \in DOMAIN tokens |->
        IF tokens[i].kind = "picture"
        THEN Placeholder(Len(PicturesIn(SubSeq(tokens, 1, i))))
        ELSE tokens[i]]

\* register_image over what a paragraph has become, the registry being known: its
\* pictures take the next numbers.
Register(tokens, known) ==
    [i \in DOMAIN tokens |->
        IF tokens[i].kind = "picture"
        THEN Placeholder(Len(known) + Len(PicturesIn(SubSeq(tokens, 1, i))))
        ELSE tokens[i]]

-------------------------------------------------------------------------------
(* dispatch and the extractors.                                             *)

TextInit ==
    /\ file \in Files
    /\ stage = "new" /\ format = "unknown"
    /\ todo = <<>> /\ lines = <<>> /\ pages = <<>>
    /\ inTable = FALSE /\ partial = FALSE /\ images = <<>>

\* Mutated form: the extension decides.
ByExtension(content, ext) == ext

\* The first bytes decide, and the extension only where they say nothing.
DetectFormat(content, ext) ==
    IF content \in {"hwpx", "hwp", "hwpml", "pdf"} THEN content ELSE ext

\* An extractor that is given another format raises, as dispatch does for a format
\* without an extractor.  A PDF goes its own way.
Dispatch ==
    /\ stage = "new"
    /\ format' = DetectFormat(file.content, file.ext)
    /\ IF format' = file.content
       THEN /\ stage' = "walk"
            /\ todo' = ParagraphsOf(format', file.body)
       ELSE /\ stage' = "failed"
            /\ UNCHANGED todo
    /\ UNCHANGED <<file, lines, inTable, partial, images, pages>>

\* hwp5proc has died: the XML ends after some paragraph.  Without any output it raises.
Hwp5procDies ==
    /\ stage = "walk" /\ format = "hwp" /\ lines = <<>> /\ ~partial
    /\ \E n \in 0 .. Len(file.body) - 1 :
         /\ todo' = ParagraphsOf(format, SubSeq(file.body, 1, n))
         /\ stage' \in IF n = 0 THEN {stage, "failed"} ELSE {stage}
    /\ partial' = TRUE
    /\ UNCHANGED <<file, format, lines, inTable, images, pages>>

Render ==
    /\ stage = "walk" /\ todo # <<>>
    /\ LET rendered == RenderParagraph(format, Head(todo))
       IN  /\ lines' = Append(lines, Register(rendered, images))
           /\ images' = images \o PicturesIn(rendered)
    /\ todo' = Tail(todo)
    /\ UNCHANGED <<file, stage, format, inTable, partial, pages>>

\* normalize_text: of three line ends or more, two stay.
NormalizeText(tokens) ==
    LET third(i) == i > 2 /\ \A j \in i - 2 .. i : tokens[j] = Newline
    IN  SelectSeq([i \in DOMAIN tokens |-> IF third(i) THEN Mark("cut", 0) ELSE tokens[i]],
                  LAMBDA token : token.kind # "cut")

SplitLines(tokens) ==
    LET step(done, token) ==
            IF token = Newline THEN Append(done, <<>>)
            ELSE [done EXCEPT ![Len(done)] = Append(@, token)]
    IN  FoldLeft(step, << <<>> >>, tokens)

\* extract_hwpml strips it.
TextOf(fmt, rendered) ==
    LET text == NormalizeText(Join(rendered, Newline))
    IN  IF fmt = "hwpml" THEN Trim(text) ELSE text

\* The text is complete; paginate gives no page for a blank one.
EndWalk ==
    /\ stage = "walk" /\ todo = <<>>
    /\ LET text == TextOf(format, lines)
       IN  IF Trim(text) = <<>> THEN stage' = "done" /\ UNCHANGED todo
           ELSE stage' = "cut" /\ todo' = SplitLines(text)
    /\ lines' = <<>>
    /\ UNCHANGED <<file, format, inTable, partial, images, pages>>

-------------------------------------------------------------------------------
(* paginate, a line at a time.                                              *)

Chars(tokens) == FoldSeq(LAMBDA token, sum : token.len + sum, 0, tokens)
Buffered(page) == FoldSeq(LAMBDA line, sum : Chars(line) + 1 + sum, 0, page)

Has(line, token) == token \in ToSet(line)

\* Mutated form: the line that would overfill the page is not put on it, nor on the next.
AddLineBefore ==
    /\ stage = "cut" /\ todo # <<>>
    /\ LET buf == Append(lines, Head(todo))
           open == ~Has(Head(todo), Close) /\ (inTable \/ Has(Head(todo), Open))
           full == Buffered(buf) >= PageChars /\ ~open
       IN  /\ inTable' = open
           /\ pages' = IF full THEN Append(pages, lines) ELSE pages
           /\ lines' = IF full THEN <<>> ELSE buf
    /\ todo' = Tail(todo)
    /\ UNCHANGED <<file, stage, format, partial, images>>

\* Mutated form: a full page is cut inside a table too.
AddLineAnywhere ==
    /\ stage = "cut" /\ todo # <<>>
    /\ LET buf == Append(lines, Head(todo))
           full == Buffered(buf) >= PageChars
       IN  /\ inTable' = inTable
           /\ pages' = IF full THEN Append(pages, buf) ELSE pages
           /\ lines' = IF full THEN <<>> ELSE buf
    /\ todo' = Tail(todo)
    /\ UNCHANGED <<file, stage, format, partial, images>>

\* A page ends after the line that fills it, but not inside a table.
AddLine ==
    /\ stage = "cut" /\ todo # <<>>
    /\ LET buf == Append(lines, Head(todo))
           open == ~Has(Head(todo), Close) /\ (inTable \/ Has(Head(todo), Open))
           full == Buffered(buf) >= PageChars /\ ~open
       IN  /\ inTable' = open
           /\ pages' = IF full THEN Append(pages, buf) ELSE pages
           /\ lines' = IF full THEN <<>> ELSE buf
    /\ todo' = Tail(todo)
    /\ UNCHANGED <<file, stage, format, partial, images>>

EndPages ==
    /\ stage = "cut" /\ todo = <<>>
    /\ pages' = IF lines = <<>> THEN pages ELSE Append(pages, lines)
    /\ stage' = "done"
    /\ UNCHANGED <<file, format, todo, lines, inTable, partial, images>>

TextNext == Dispatch \/ Hwp5procDies \/ Render \/ EndWalk \/ AddLine \/ EndPages

-------------------------------------------------------------------------------
(* The embedding Lambda: pages joined by an empty line, then \[표\].*?\[/표\]. *)

PageText(page) == Join(page, Newline)
JoinedPages == FlattenSeq([i \in DOMAIN pages |->
                   IF i = 1 THEN PageText(pages[i])
                   ELSE <<Newline, Newline>> \o PageText(pages[i])])

\* A table ends at the first closing mark after the opening one.
ExtractItems(tokens) ==
    LET text(ts) == [type |-> "text", tokens |-> ts]
        step(s, token) ==
            IF s.open THEN IF token = Close
                           THEN [open |-> FALSE, last |-> <<>>,
                                 items |-> Append(s.items, [type |-> "table",
                                                            tokens |-> Append(s.last, token)])]
                           ELSE [s EXCEPT !.last = Append(@, token)]
            ELSE IF token = Open THEN [open |-> TRUE, last |-> <<token>>,
                                       items |-> Append(s.items, text(s.last))]
            ELSE [s EXCEPT !.last = Append(@, token)]
        end == FoldLeft(step, [open |-> FALSE, last |-> <<>>, items |-> <<>>], tokens)
    IN  SelectSeq(Append(end.items, text(end.last)), LAMBDA item : Trim(item.tokens) # <<>>)

-------------------------------------------------------------------------------
(* Properties.                                                              *)

\* Placeholders replaced by what the registry says of them.
Resolved(tokens) ==
    [i \in DOMAIN tokens |-> IF tokens[i].kind # "picture" THEN tokens[i]
                             ELSE IF tokens[i].id \in DOMAIN images THEN images[tokens[i].id]
                             ELSE Mark("lost", 0)]

Words(tokens) == SelectSeq(tokens, LAMBDA token : token.kind \in {"text", "picture", "lost"})

\* The words of a paragraph in the order they are read, those of the given kinds of
\* nodes where they hang.
RECURSIVE Reading(_, _)
Reading(paragraphs, kinds) ==
    LET node(n) == IF n.kind \in {"text", "picture"} THEN <<n>>
                   ELSE IF n.kind = "table"
                   THEN FlattenSeq([r \in DOMAIN n.rows |->
                            FlattenSeq([c \in DOMAIN n.rows[r] |-> Reading(n.rows[r][c], kinds)])])
                   ELSE IF n.kind \in kinds THEN Reading(n.inside, kinds) ELSE <<>>
    IN  FlattenSeq([p \in DOMAIN paragraphs |->
            FlattenSeq([i \in DOMAIN paragraphs[p] |-> node(paragraphs[p][i])])])

\* The words that are in page headers only.
HeaderWords ==
    ToSet(Reading(file.body, {"box", "header"})) \ ToSet(Reading(file.body, {"box"}))

WordsAtChunker == Words(Resolved(JoinedPages))

FirstOnly(words) ==
    SelectSeq([i \in DOMAIN words |->
                  IF \E j \in 1 .. i - 1 : words[j] = words[i] THEN Mark("cut", 0) ELSE words[i]],
              LAMBDA word : word.kind # "cut")

\* Whatever the file is called, the words of its body reach the chunker complete and in
\* their order: hwpx gives each once, hwp those of boxes twice, hwpml those of boxes not
\* at all, and a placeholder leads to its picture.  Of a document hwp5proc has died over
\* it is the first part, and the result says so.  What becomes of the words of page
\* headers is left open.
WordsReachChunker ==
    /\ stage = "failed" => file.content = "unknown" \/ partial
    /\ stage = "done" =>
        LET words == SelectSeq(WordsAtChunker, LAMBDA word : word \notin HeaderWords)
            read == Reading(file.body, IF format = "hwpml" THEN {} ELSE {"box"})
        IN  IF partial THEN IsPrefix(FirstOnly(words), read)
            ELSE (IF format = "hwp" THEN FirstOnly(words) ELSE words) = read

\* What the comment on _SKIP says of all three extractors: page headers are not put into
\* the body.  It holds of hwpml only, the others walk into them.
HeadersLeftOut ==
    stage = "done" => ToSet(WordsAtChunker) \intersect HeaderWords = {}

\* The tables of a body that neither hold a table nor are inside one.
PlainTables(body) ==
    LET tables == {n \in UNION {ToSet(body[p]) : p \in DOMAIN body} : n.kind = "table"}
        cells(t) == UNION {ToSet(t.rows[r]) : r \in DOMAIN t.rows}
        inside(t) == UNION {UNION {ToSet(cell[p]) : p \in DOMAIN cell} : cell \in cells(t)}
    IN  {t \in tables : \A n \in inside(t) : n.kind \in {"text", "picture"}}

\* Such a table is on one page (paginate: no table is divided), and the chunker takes it
\* for one table, neither more nor less.
TablesStayWhole ==
    (stage = "done" /\ ~partial) =>
        \A t \in PlainTables(file.body) :
            LET table == NormalizeText(RenderTable(format, t))
            IN  /\ \E i \in DOMAIN pages : \E a, b \in DOMAIN pages[i] :
                        Resolved(Join(SubSeq(pages[i], a, b), Newline)) = table
                /\ [type |-> "table", tokens |-> table] \in
                        ToSet(ExtractItems(Resolved(JoinedPages)))

\* Nothing of a document is lost or torn before it is cut into chunks.
DocumentReachesChunker == WordsReachChunker /\ TablesStayWhole

===============================================================================
