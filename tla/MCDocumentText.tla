----------------------------- MODULE MCDocumentText -----------------------------
(* Documents of up to three paragraphs around the length of a page.           *)
EXTENDS DocumentText

Stretch(id, len) == [kind |-> "text", id |-> id, len |-> len]
Picture(id) == [kind |-> "picture", id |-> id, len |-> 13]
Grid(rows) == [kind |-> "table", rows |-> rows]
Box(paragraphs) == [kind |-> "box", inside |-> paragraphs]
Header(paragraphs) == [kind |-> "header", inside |-> paragraphs]

\* Words short and long; a table that fills a page, with an empty cell and a cell of
\* paragraphs with empty ones between; a table in a table, with a row after it, and two
\* beside each other; a box with a table; a page header; a picture.
Paragraphs(n) ==
    LET id(k) == 10 * n + k
        small(k) == Grid(<< << <<<<Stretch(id(k), 700)>>>> >>, << <<<<Stretch(id(k + 1), 300)>>>> >> >>)
    IN  {<<>>, <<Stretch(id(1), 20)>>, <<Stretch(id(1), 995)>>,
         <<Stretch(id(1), 700),
           Grid(<< << <<<<Stretch(id(2), 600)>>>>, <<>> >>,
                   << <<<<>>, <<Stretch(id(3), 600)>>, <<>>, <<>>, <<Picture(id(4))>>>>,
                      <<<<Stretch(id(5), 9)>>>> >> >>)>>,
         <<Stretch(id(1), 9),
           Grid(<< << <<<<small(2)>>>>, <<<<small(4), Stretch(id(6), 9)>>>> >>,
                   << <<<<Stretch(id(8), 9)>>>> >> >>)>>,
         <<Box(<< <<Stretch(id(1), 9), small(4)>>, <<Stretch(id(2), 9), Picture(id(6))>> >>),
           Stretch(id(3), 500)>>,
         <<Header(<< <<Stretch(id(1), 9)>> >>), Picture(id(2))>>}

Bodies ==
    {<<p>> : p \in Paragraphs(1)} \union {<<p, q>> : p \in Paragraphs(1), q \in Paragraphs(2)}
    \union {<<p, q, r>> : p \in Paragraphs(1), q \in Paragraphs(2), r \in Paragraphs(3)}

\* Attachments are named .hwp or .hwpx whatever they are.
SomeFiles == [content : {"hwp", "hwpx", "hwpml", "unknown"}, ext : {"hwp", "hwpx"}, body : Bodies]

===============================================================================
