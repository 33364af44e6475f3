------------------------------- MODULE MCChunker -------------------------------
(* Documents of a few lines whose lengths lie around the limits of           *)
(* chunker.py: 45 characters are 30 tokens, 769 characters are 512.          *)
EXTENDS Chunker

Kind(len, head, words) == [len |-> len, head |-> head, words |-> words]

TextKinds == {Kind(0, "none", FALSE), Kind(3, "none", FALSE),
              Kind(20, "none", TRUE), Kind(44, "main", TRUE),
              Kind(722, "none", TRUE), Kind(400, "main", TRUE),
              Kind(400, "sub", TRUE), Kind(900, "none", TRUE)}
RowKinds == {Kind(20, "none", TRUE), Kind(747, "none", TRUE), Kind(900, "none", TRUE)}

Texts(n) == UNION {[1 .. k -> TextKinds] : k \in 1 .. n}
Tables(n) == UNION {[1 .. k -> RowKinds] : k \in 1 .. n}

Numbered(kinds, from) ==
    [i \in DOMAIN kinds |->
        [id |-> IF kinds[i].len = 0 THEN 0 ELSE from + i, len |-> kinds[i].len,
         head |-> kinds[i].head, words |-> kinds[i].words]]

Text(kinds, from) == [type |-> "text", lines |-> Numbered(kinds, from)]
Table(kinds, from) == [type |-> "table", lines |-> Numbered(kinds, from)]

SomeTexts ==
    {<<Text(t, 0)>> : t \in Texts(4)}
    \cup {<<Text(t, 0), Table(b, 10), Text(u, 20)>> :
             t \in Texts(2), b \in Tables(2), u \in Texts(1)}
    \cup {<<Table(b, 10), Text(u, 20)>> : b \in Tables(3), u \in Texts(2)}
================================================================================
