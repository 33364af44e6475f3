-------------------------------- MODULE PdfPage --------------------------------
(***************************************************************************)
(* One page of a PDF becomes text (parsing/pdf/pdf_extractor.py): tables   *)
(* with the pictures in their cells, pictures beside them, boxes, and      *)
(* blocks of words, from top to bottom; a landscape page by halves.        *)
(*                                                                         *)
(* What PyMuPDF finds on the page is given: rectangles <<x0, y0, x1, y1>>  *)
(* in points.  A block of words lies in one cell or outside all tables;    *)
(* the cells of a table share their edges.                                 *)
(***************************************************************************)
EXTENDS Integers, Sequences, SequencesExt, FiniteSetsExt

CONSTANTS
    Pages,          \* [width, height, images, tables, drawings, blocks]
    LandscapeRatio, \* <<6, 5>>: LANDSCAPE_RATIO is 1.2
    MinBoxWidth, MinBoxHeight, Margin,
    NoCell          \* None among the cells of a table

VARIABLES
    page,
    parts,      \* clips still to be read
    tables,     \* tables of the part still to be formatted
    blocks,     \* blocks of the part still to be looked at
    reading,    \* the part: [clip, images, tables, elements, boxed], or NoPart
    counter,    \* pictures numbered so far
    registry,   \* picture of each number
    output      \* elements of the parts that are done

pageVars == <<page, parts, tables, blocks, reading, counter, registry, output>>

NoPart == [clip |-> <<>>]

X0(r) == r[1]
Y0(r) == r[2]
X1(r) == r[3]
Y1(r) == r[4]

RectContains(outer, inner) ==
    /\ X0(inner) >= X0(outer) - Margin /\ Y0(inner) >= Y0(outer) - Margin
    /\ X1(inner) <= X1(outer) + Margin /\ Y1(inner) <= Y1(outer) + Margin

RectsOverlap(r, other) ==
    ~(X1(other) < X0(r) \/ X0(other) > X1(r) \/ Y1(other) < Y0(r) \/ Y0(other) > Y1(r))

\* Twice the centre, so that it is an integer.
CentreIn(cell, rect) ==
    /\ 2 * X0(cell) <= X0(rect) + X1(rect) /\ X0(rect) + X1(rect) <= 2 * X1(cell)
    /\ 2 * Y0(cell) <= Y0(rect) + Y1(rect) /\ Y0(rect) + Y1(rect) <= 2 * Y1(cell)

\* What PyMuPDF clips to a rectangle: what has its centre there.
Inside(clip, rects) == SelectSeq(rects, LAMBDA b : CentreIn(clip, b.rect))

-------------------------------------------------------------------------------
(* Tables.                                                                  *)

Cells(table) == {i \in DOMAIN table.cells : table.cells[i] # NoCell}

Sorted(numbers) == SetToSortSeq(numbers, <)
XCoords(table) == Sorted(UNION {{X0(table.cells[i]), X1(table.cells[i])} : i \in Cells(table)})
YCoords(table) == Sorted(UNION {{Y0(table.cells[i]), Y1(table.cells[i])} : i \in Cells(table)})

\* Twice the centres of the grid.
Centres(coords) == [i \in 1 .. Len(coords) - 1 |-> coords[i] + coords[i + 1]]

\* bisect.bisect_left and bisect.bisect_right
BisectLeft(a, x) == Cardinality({i \in DOMAIN a : a[i] < x})
BisectRight(a, x) == Cardinality({i \in DOMAIN a : a[i] <= x})

\* Mutated form: a centre on the right or lower edge of a cell is not in it.
CoveredOpen(table, i) ==
    LET cell == table.cells[i]
        xs == Centres(XCoords(table))
        ys == Centres(YCoords(table))
    IN  (BisectLeft(ys, 2 * Y0(cell)) + 1 .. BisectLeft(ys, 2 * Y1(cell)) - 1)
        \X (BisectLeft(xs, 2 * X0(cell)) + 1 .. BisectLeft(xs, 2 * X1(cell)))

\* The positions <<row, column>> of the grid a cell covers.
Covered(table, i) ==
    LET cell == table.cells[i]
        xs == Centres(XCoords(table))
        ys == Centres(YCoords(table))
    IN  (BisectLeft(ys, 2 * Y0(cell)) + 1 .. BisectRight(ys, 2 * Y1(cell)))
        \X (BisectLeft(xs, 2 * X0(cell)) + 1 .. BisectRight(xs, 2 * X1(cell)))

\* setdefault: the first cell that covers a position has it; 0 where none does.
GridCell(table, position) ==
    LET over == {i \in Cells(table) : position \in Covered(table, i)}
    IN  IF over = {} THEN 0 ELSE Min(over)

FindCellForImage(table, rect) ==
    LET over == {i \in Cells(table) : CentreIn(table.cells[i], rect)}
    IN  IF over = {} THEN 0 ELSE Min(over)

\* From top to bottom, what is level as it comes.
ByTop(elements) ==
    LET above(i, j) == \/ elements[i].top < elements[j].top
                       \/ elements[i].top = elements[j].top /\ i < j
        order == SetToSortSeq(DOMAIN elements, above)
    IN  [k \in DOMAIN order |-> elements[order[k]]]

\* table.extract() has a row for each upper edge and a column for each left edge; a cell
\* gives its words to the first of its positions, unless PyMuPDF has missed them.
Extracted(table, position) ==
    LET lefts == Sorted({X0(table.cells[i]) : i \in Cells(table)})
        tops == Sorted({Y0(table.cells[i]) : i \in Cells(table)})
        at == {i \in Cells(table) : /\ Y0(table.cells[i]) = tops[position[1]]
                                    /\ X0(table.cells[i]) = lefts[position[2]]}
    IN  IF at = {} \/ table.missed THEN <<>>
        ELSE Inside(table.cells[Min(at)], page.blocks)

Positions(table) ==
    (1 .. Cardinality({Y0(table.cells[i]) : i \in Cells(table)}))
    \X (1 .. Cardinality({X0(table.cells[i]) : i \in Cells(table)}))

\* _recover_cell_text: the words in the position itself.
Recovered(table, position) ==
    LET xs == XCoords(table)
        ys == YCoords(table)
    IN  IF position[1] >= Len(ys) \/ position[2] >= Len(xs) THEN <<>>
        ELSE Inside(<<xs[position[2]], ys[position[1]], xs[position[2] + 1], ys[position[1] + 1]>>,
                    page.blocks)

Lettered(found) == [i \in DOMAIN found |-> [top |-> Y0(found[i].rect), text |-> found[i].id]]

\* The pictures of a cell come with its words, in order of their tops; else the words
\* extracted, else those recovered.
CellContent(table, position, images) ==
    LET cell == GridCell(table, position)
        here == SelectSeq(images, LAMBDA image : cell # 0 /\ FindCellForImage(table, image.rect) = cell)
        shown == [i \in DOMAIN here |-> [top |-> Y0(here[i].rect), picture |-> here[i].id]]
        words == Lettered(Extracted(table, position))
    IN  IF here # <<>> THEN ByTop(Lettered(Inside(table.cells[cell], page.blocks)) \o shown)
        ELSE IF words # <<>> THEN words
        ELSE Lettered(Recovered(table, position))

\* Without cells, what extract() gives; else position by position.
FormatGrid(table, images) ==
    LET order == SetToSortSeq(Positions(table), LAMBDA p, q : p[1] < q[1] \/ (p[1] = q[1] /\ p[2] < q[2]))
    IN  IF table.cells = <<>> THEN Lettered(Inside(table.bbox, page.blocks))
        ELSE FlattenSeq([i \in DOMAIN order |-> CellContent(table, order[i], images)])

-------------------------------------------------------------------------------
(* The page.                                                                *)

\* extract_page_text
ClipsOf(p) ==
    LET mid == p.width \div 2
    IN  IF p.width * LandscapeRatio[2] > p.height * LandscapeRatio[1]
        THEN << <<0, 0, mid, p.height>>, <<mid, 0, p.width, p.height>> >>
        ELSE << <<0, 0, p.width, p.height>> >>

PageInit ==
    /\ page \in Pages
    /\ parts = ClipsOf(page)
    /\ tables = <<>> /\ blocks = <<>>
    /\ reading = NoPart
    /\ counter = 0 /\ registry = <<>> /\ output = <<>>

\* The pictures that meet the clip, the tables and the blocks in it.
StartPart ==
    /\ reading = NoPart /\ parts # <<>>
    /\ LET clip == Head(parts)
           found == SelectSeq(page.tables, LAMBDA t : CentreIn(clip, t.bbox))
       IN  /\ reading' = [clip |-> clip,
                          images |-> SelectSeq(page.images, LAMBDA i : RectsOverlap(clip, i.rect)),
                          tables |-> found, elements |-> <<>>, boxed |-> <<>>, free |-> FALSE]
           /\ tables' = found
           /\ blocks' = Inside(clip, page.blocks)
    /\ parts' = Tail(parts)
    /\ UNCHANGED <<page, counter, registry, output>>

PicturesOf(content) ==
    LET shown == SelectSeq(content, LAMBDA c : "picture" \in DOMAIN c)
    IN  [i \in DOMAIN shown |-> shown[i].picture]

Number(pictures) ==
    /\ counter' = counter + Len(pictures)
    /\ registry' = registry \o pictures

AddTable ==
    /\ reading # NoPart /\ tables # <<>>
    /\ LET table == Head(tables)
           inner == SelectSeq(reading.images, LAMBDA i : RectsOverlap(table.bbox, i.rect))
           content == FormatGrid(table, inner)
       IN  /\ Number(PicturesOf(content))
           /\ reading' = IF content = <<>> THEN reading
                         ELSE [reading EXCEPT !.elements =
                                  Append(@, [top |-> Y0(table.bbox), kind |-> "table",
                                             content |-> content])]
    /\ tables' = Tail(tables)
    /\ UNCHANGED <<page, parts, blocks, output>>

\* The pictures that touch no table.
AddImages ==
    /\ reading # NoPart /\ tables = <<>> /\ ~reading.free
    /\ LET free == SelectSeq(reading.images, LAMBDA i :
                       \A k \in DOMAIN reading.tables : ~RectsOverlap(reading.tables[k].bbox, i.rect))
           element(i) == [top |-> Y0(i.rect), kind |-> "image",
                          content |-> <<[top |-> Y0(i.rect), picture |-> i.id]>>]
       IN  /\ Number([k \in DOMAIN free |-> free[k].id])
           /\ reading' = [reading EXCEPT !.free = TRUE,
                              !.elements = @ \o [k \in DOMAIN free |-> element(free[k])]]
    /\ UNCHANGED <<page, parts, tables, blocks, output>>

\* _find_box_rects: of the drawings with a line, those of some size outside the tables.
BoxRects ==
    LET box(d) == /\ d.stroked
                  /\ X1(d.rect) - X0(d.rect) >= MinBoxWidth
                  /\ Y1(d.rect) - Y0(d.rect) >= MinBoxHeight
                  /\ \A k \in DOMAIN reading.tables : ~RectContains(reading.tables[k].bbox, d.rect)
    IN  SelectSeq(page.drawings, box)

\* Mutated form: what overlaps a table is taken for a part of it.
InTableOverlapping(block) ==
    \E k \in DOMAIN reading.tables : RectsOverlap(reading.tables[k].bbox, block.rect)

InTable(block) ==
    \E k \in DOMAIN reading.tables : RectContains(reading.tables[k].bbox, block.rect)

\* A block belongs to a table, to the first box it is in, or to itself.
AddBlock ==
    /\ reading # NoPart /\ reading.free /\ blocks # <<>>
    /\ LET block == Head(blocks)
           over == SelectSeq(BoxRects, LAMBDA d : RectContains(d.rect, block.rect))
           entry == [top |-> Y0(block.rect), text |-> block.id]
       IN  reading' =
             IF InTable(block) THEN reading
             ELSE IF over # <<>>
             THEN [reading EXCEPT !.boxed =
                      Append(@, [at |-> <<X0(over[1].rect), Y0(over[1].rect)>>, entry |-> entry])]
             ELSE [reading EXCEPT !.elements =
                      Append(@, [top |-> entry.top, kind |-> "text", content |-> <<entry>>])]
    /\ blocks' = Tail(blocks)
    /\ UNCHANGED <<page, parts, tables, counter, registry, output>>

\* The boxes in order of their first blocks, then everything from top to bottom.
EndPart ==
    /\ reading # NoPart /\ reading.free /\ blocks = <<>>
    /\ LET first == {i \in DOMAIN reading.boxed :
                        \A j \in 1 .. i - 1 : reading.boxed[j].at # reading.boxed[i].at}
           order == Sorted(first)
           of(at) == SelectSeq(reading.boxed, LAMBDA b : b.at = at)
           entries(at) == ByTop([i \in DOMAIN of(at) |-> of(at)[i].entry])
           box(i) == [top |-> reading.boxed[i].at[2], kind |-> "box",
                      content |-> entries(reading.boxed[i].at)]
       IN  output' = output \o ByTop(reading.elements \o [k \in DOMAIN order |-> box(order[k])])
    /\ reading' = NoPart
    /\ UNCHANGED <<page, parts, tables, blocks, counter, registry>>

PageNext == StartPart \/ AddTable \/ AddImages \/ AddBlock \/ EndPart

-------------------------------------------------------------------------------
(* Properties.                                                              *)

PageDone == parts = <<>> /\ reading = NoPart

TextsIn(element) == {c.text : c \in {d \in ToSet(element.content) : "text" \in DOMAIN d}}
Pictures == FlattenSeq([i \in DOMAIN output |-> PicturesOf(output[i].content)])
PageTables == ToSet(page.tables)

\* The index the page is built with gives each position of a grid the cell the search
\* through all cells gave it: the first one that holds its centre (docstring of
\* _build_grid_cell_index).
IndexIsSearch ==
    \A table \in PageTables :
        LET xs == XCoords(table)
            ys == YCoords(table)
            at(p) == <<xs[p[2]], ys[p[1]], xs[p[2] + 1], ys[p[1] + 1]>>
        IN  \A p \in (1 .. Len(ys) - 1) \X (1 .. Len(xs) - 1) :
                GridCell(table, p) = FindCellForImage(table, at(p))

\* No words of a page are lost between its tables, boxes and blocks, whether or not
\* PyMuPDF misses the words of cells; words are in a table, in a box or by themselves, but
\* not in two of them.
WordsKept ==
    PageDone =>
        \A i \in DOMAIN page.blocks :
            LET id == page.blocks[i].id
                holding == {k \in DOMAIN output : id \in TextsIn(output[k])}
            IN  /\ holding # {}
                /\ Cardinality({output[k].kind : k \in holding}) = 1

\* A picture is on the page when it is beside the tables or has its centre in a cell, as
\* many times as the registry has a number for it.
PicturesKept ==
    PageDone =>
        /\ SortSeq(Pictures, <) = SortSeq(registry, <) /\ counter = Len(registry)
        /\ \A i \in DOMAIN page.images :
              LET image == page.images[i] IN
              (\A t \in PageTables : RectsOverlap(t.bbox, image.rect)
                                    => FindCellForImage(t, image.rect) # 0)
                  => image.id \in ToSet(Pictures)

\* What is on the page is in its text.
PageReachesText == IndexIsSearch /\ WordsKept /\ PicturesKept

===============================================================================
