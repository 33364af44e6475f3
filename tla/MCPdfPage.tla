------------------------------- MODULE MCPdfPage -------------------------------
(* Pages of 400 by 600 points, and one on its side.                           *)
EXTENDS PdfPage

Block(id, rect) == [id |-> id, rect |-> rect]
Drawing(rect, stroked) == [rect |-> rect, stroked |-> stroked]
Cell(left, top, right, bottom) == <<100 * left, 40 * top, 100 * right, 40 * bottom>>

\* Up to three cells on a grid of two by three, merged and overlapping as they may.
Spans == {<<0, 1>>, <<1, 2>>, <<0, 2>>}
Layouts ==
    LET cells == {Cell(x[1], y[1], x[2], y[2]) : x \in Spans, y \in Spans} \union {NoCell}
    IN  (UNION {[1 .. n -> cells] : n \in 1 .. 3}) \ {<<NoCell>>}
TableOf(cells, missed) == [bbox |-> <<0, 0, 200, 80>>, cells |-> cells, missed |-> missed]

EmptyPage(width, height) ==
    [width |-> width, height |-> height, images |-> <<>>, tables |-> <<>>,
     drawings |-> <<>>, blocks |-> <<>>]

Indexed ==
    {[EmptyPage(400, 600) EXCEPT !.tables = <<TableOf(cells, FALSE)>>] : cells \in Layouts}

\* Tables that fill their grid: whole, merged in each direction.
Filled ==
    {<<Cell(0, 0, 1, 1), Cell(1, 0, 2, 1), Cell(0, 1, 1, 2), Cell(1, 1, 2, 2)>>,
     <<Cell(0, 0, 2, 1), Cell(0, 1, 1, 2), Cell(1, 1, 2, 2)>>,
     <<Cell(0, 0, 1, 2), Cell(1, 0, 2, 1), NoCell, Cell(1, 1, 2, 2)>>,
     <<Cell(0, 0, 2, 2)>>, <<Cell(0, 0, 1, 1), Cell(1, 1, 2, 2)>>, <<>>}

\* Words in the middle of a cell and across the line that a merged cell has not; above,
\* below and beside the table; in a box with a box in it.
Where ==
    {<<20, 10, 60, 20>>, <<120, 50, 180, 60>>, <<60, 50, 90, 60>>}
Outside == {<<20, 78, 60, 95>>, <<210, 10, 260, 20>>, <<40, 330, 80, 340>>, <<40, 380, 80, 390>>}
Boxes == <<Drawing(<<30, 320, 200, 370>>, TRUE), Drawing(<<0, 310, 300, 400>>, TRUE),
           Drawing(<<10, 375, 100, 395>>, TRUE), Drawing(<<200, 0, 400, 100>>, FALSE)>>

\* A picture in a cell, on the edge of the table, and beside it.
Image(id, rect) == [id |-> id, rect |-> rect]
Images ==
    {<<>>, <<Image(1, <<10, 25, 70, 35>>)>>,
     <<Image(1, <<110, 50, 190, 78>>), Image(2, <<150, 60, 390, 70>>), Image(3, <<220, 200, 380, 300>>)>>}

Drawn ==
    {[EmptyPage(400, 600) EXCEPT
        !.tables = <<TableOf(cells, missed)>>, !.drawings = Boxes, !.images = images,
        !.blocks = <<Block(1, a), Block(2, b), Block(3, c)>>] :
      cells \in Filled \ {<<>>}, missed \in BOOLEAN, images \in Images,
      a \in Where, b \in Outside, c \in Outside}

\* On its side, with a picture over the middle.
Landscape ==
    {[EmptyPage(600, 400) EXCEPT
        !.tables = <<TableOf(cells, FALSE), [TableOf(<<>>, FALSE) EXCEPT !.bbox = <<310, 0, 500, 80>>]>>,
        !.images = <<Image(1, <<250, 100, 350, 200>>)>>, !.drawings = Boxes,
        !.blocks = <<Block(1, a), Block(2, <<320, 10, 360, 20>>), Block(3, b)>>] :
      cells \in Filled, a \in Where, b \in Outside \union {<<400, 200, 460, 210>>}}

SixToFive == <<6, 5>>

SomePages == {EmptyPage(400, 600)} \union Indexed \union Drawn \union Landscape

===============================================================================
