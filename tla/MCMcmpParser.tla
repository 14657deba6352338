---------------------------- MODULE MCMcmpParser ----------------------------
EXTENDS McmpParser

\* '%', '&', '=', '2', '3', '6', 'C', 'c', 'a', '<': enough for "%3C" and
\* "%3c" ('<'), "%26" ('&'), a literal '<', a '%' without two hex digits
MCChars == {37, 38, 61, 50, 51, 54, 67, 99, 97, 60}

\* two or three tokens of one or two bytes over 'a', '%', '&', '<' is left
\* out: a sender's token holds no forbidden byte
MCPlains ==
    LET Tok == UNION {[1 .. n -> {97, 37, 38}] : n \in 1 .. 2}
    IN [1 .. 2 -> Tok] \cup [1 .. 3 -> {<<97>>, <<37, 38>>}]
=============================================================================
