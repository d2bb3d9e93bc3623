--------------------------- MODULE MCHttpCapture ---------------------------
(* The capture of one request on a small instance: texts of characters 1 to 5, *)
(* of which 2 and 4 take two bytes.                                            *)
EXTENDS HttpCaptureChecks

CONSTANTS a, b, c

Set(bodies, inline, total) ==
    [enabled |-> TRUE, bodies |-> bodies, buffer |-> bodies, redact |-> TRUE,
     inline |-> inline, total |-> total]

Off == [Set(TRUE, 0, 0) EXCEPT !.enabled = FALSE]

Pair(name, value) == [name |-> name, value |-> value]
Few  == <<Pair(a, <<1, 2>>)>>
\* Names of one, two and four bytes.
MCNameBytes == [name \in {a, b, c} |-> IF name = a THEN 1 ELSE IF name = b THEN 2 ELSE 4]

\* A long name that comes again fills the map with one entry.
Again == <<Pair(c, <<1>>), Pair(c, <<2, 3>>), Pair(c, <<3>>)>>
Many == <<Pair(a, <<1>>), Pair(b, <<2, 3, 4>>), Pair(a, <<3>>), Pair(c, <<5>>)>>

Item(n, size) == [item |-> n, size |-> size]
Short == <<Item(1, 1), Item(2, 5), Item(3, 1), Item(4, 2)>>

Exchange(settings, maps, body, multipart, items) ==
    [settings |-> settings, maps |-> maps, body |-> body, multipart |-> multipart, items |-> items]

MCExchanges == {
    Exchange(Set(TRUE, 0, 0), Few, <<1, 2, 3>>, FALSE, <<>>),
    Exchange(Set(TRUE, 1, 5), Few, <<1, 2, 3, 4, 5>>, FALSE, <<>>),
    Exchange(Set(TRUE, 2, 1), Again, <<2, 1, 4>>, FALSE, <<>>),
    Exchange(Set(TRUE, 2, 1), Many, <<2, 1, 4>>, TRUE, <<>>),
    Exchange([Set(FALSE, 0, 0) EXCEPT !.redact = FALSE], Many, <<1>>, FALSE, Short),
    Exchange(Off, Few, <<1>>, FALSE, <<Item(1, 9)>>) }

MCResponses == {
    [body |-> <<>>, headers |-> Many],
    [body |-> <<4, 5>>, headers |-> <<>>],
    [body |-> <<5, 4, 3, 2>>, headers |-> Few] }

MCOutbound == {[body |-> <<1, 2, 3>>, size |-> 0], [body |-> <<1>>, size |-> 9]}
MCBuffers == {<<>>, <<3, 4, 3, 4, 3>>}
MCPayloads == {<<1>>, <<1, 4, 5>>}
MCListed == {<<>>, Few}
MCMask == <<3, 3>>
============================================================================
