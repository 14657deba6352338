----------------------------- MODULE McmpParser -----------------------------
(***************************************************************************)
(* The MCMP body parser of mod_manager: process_buff splits the body at    *)
(* every '&' and '=' and hands the tokens to decodeenc, which percent-      *)
(* decodes each token in place (mod_manager_hex2c) and rejects a decoded   *)
(* '<', '>', '"', ''', CR or LF (specification section 4.1).  Characters   *)
(* are their byte codes.  One step parses one body; the parsed tokens are  *)
(* compared with a reference decoder written from section 4.1, and a       *)
(* sender's tokens are checked to survive encoding and parsing.            *)
(***************************************************************************)
EXTENDS Integers, Sequences

CONSTANTS
    Chars,    \* the byte codes a body is made of
    MaxBody,  \* longest body parsed
    Plains    \* token sequences a sender percent-encodes (section 8 round trip)

PCT == 37       \* '%'
AMP == 38       \* '&'
EQ == 61        \* '='
Seps == {AMP, EQ}
\* from apr_escape_entity and apr_escape_shell: < > " ' CR LF
Forbidden == {60, 62, 34, 39, 13, 10}

IsDigit(c) == c \in 48 .. 57
IsUpper(c) == c \in 65 .. 90
IsXDigit(c) == IsDigit(c) \/ c \in 65 .. 70 \/ c \in 97 .. 102

Bodies == UNION {[1 .. n -> Chars] : n \in 0 .. MaxBody}

-----------------------------------------------------------------------------
(* The code.                                                               *)

\* process_buff: ptr[0] is the body, each separator is overwritten by '\0'
\* and starts the next token; an empty body is one empty token
RECURSIVE Split(_)
Split(b) ==
    IF b = <<>> THEN <<<<>>>>
    ELSE LET r == Split(Tail(b))
         IN IF Head(b) \in Seps THEN <<<<>>>> \o r
            ELSE <<<<Head(b)>> \o Head(r)>> \o Tail(r)

\* mutant: a lowercase hex digit is converted as an uppercase one
HexDigitAsUpper(c) ==
    IF IsDigit(c) THEN c - 48 ELSE c - (65 - 10)

\* one hex digit of mod_manager_hex2c
HexDigit(c) ==
    IF IsDigit(c) THEN c - 48
    ELSE IF IsUpper(c) THEN c - (65 - 10)
    ELSE c - (97 - 10)

\* mod_manager_hex2c: called only on two hex digits
Hex2c(x1, x2) == HexDigit(x1) * 16 + HexDigit(x2)

\* mutant: after "%HH" the loop moves on by one character, not three
RECURSIVE DecodeTokNoSkip(_)
DecodeTokNoSkip(t) ==
    IF t = <<>> THEN [ok |-> TRUE, out |-> <<>>]
    ELSE LET esc == t[1] = PCT /\ Len(t) >= 3 /\ IsXDigit(t[2]) /\ IsXDigit(t[3])
             ch == IF esc THEN Hex2c(t[2], t[3]) ELSE t[1]
             rest == DecodeTokNoSkip(Tail(t))
         IN IF ch \in Forbidden THEN [ok |-> FALSE, out |-> t]
            ELSE [ok |-> rest.ok, out |-> <<ch>> \o rest.out]

\* mutant: only the first of the two characters after '%' is checked
RECURSIVE DecodeTokOneDigit(_)
DecodeTokOneDigit(t) ==
    IF t = <<>> THEN [ok |-> TRUE, out |-> <<>>]
    ELSE LET esc == t[1] = PCT /\ Len(t) >= 3 /\ IsXDigit(t[2])
             ch == IF esc THEN Hex2c(t[2], t[3]) ELSE t[1]
             rest == DecodeTokOneDigit(IF esc THEN SubSeq(t, 4, Len(t)) ELSE Tail(t))
         IN IF ch \in Forbidden THEN [ok |-> FALSE, out |-> t]
            ELSE [ok |-> rest.ok, out |-> <<ch>> \o rest.out]

\* the loop of decodeenc over one token: "%HH" with two hex digits is one
\* byte; any other character is copied; a forbidden byte fails
RECURSIVE DecodeTok(_)
DecodeTok(t) ==
    IF t = <<>> THEN [ok |-> TRUE, out |-> <<>>]
    ELSE LET esc == t[1] = PCT /\ Len(t) >= 3 /\ IsXDigit(t[2]) /\ IsXDigit(t[3])
             ch == IF esc THEN Hex2c(t[2], t[3]) ELSE t[1]
             rest == DecodeTok(IF esc THEN SubSeq(t, 4, Len(t)) ELSE Tail(t))
         IN IF ch \in Forbidden THEN [ok |-> FALSE, out |-> t]
            ELSE [ok |-> rest.ok, out |-> <<ch>> \o rest.out]

\* decodeenc: tokens in order; the first empty token ends the loop with
\* APR_SUCCESS ("special case for no characters"), the tokens after it
\* left as they are
RECURSIVE Decodeenc(_)
Decodeenc(ptr) ==
    IF ptr = <<>> THEN [ok |-> TRUE, ptr |-> <<>>]
    ELSE IF Head(ptr) = <<>> THEN [ok |-> TRUE, ptr |-> ptr]
    ELSE LET d == DecodeTok(Head(ptr))
         IN IF ~d.ok THEN [ok |-> FALSE, ptr |-> ptr]
            ELSE LET r == Decodeenc(Tail(ptr))
                 IN [ok |-> r.ok, ptr |-> <<d.out>> \o r.ptr]

\* process_buff: the tokens, or NULL (manager_handler's SYNTAX) when
\* decodeenc fails
ProcessBuff(b) ==
    LET d == Decodeenc(Split(b))
    IN IF d.ok THEN [ok |-> TRUE, ptr |-> d.ptr] ELSE [ok |-> FALSE, ptr |-> <<>>]

-----------------------------------------------------------------------------
(* The reference, from section 4.1: every "%HH" (hex digits, either case)  *)
(* of every token is one octet, and any token holding a forbidden octet    *)
(* after decoding fails the body.                                          *)

HexChars(v) == IF v < 10 THEN {48 + v} ELSE {55 + v, 87 + v}
RefHexVal(c) == CHOOSE v \in 0 .. 15 : c \in HexChars(v)
RefIsHex(c) == \E v \in 0 .. 15 : c \in HexChars(v)

RECURSIVE RefDecode(_)
RefDecode(t) ==
    IF Len(t) >= 3 /\ t[1] = PCT /\ RefIsHex(t[2]) /\ RefIsHex(t[3])
    THEN <<16 * RefHexVal(t[2]) + RefHexVal(t[3])>> \o RefDecode(SubSeq(t, 4, Len(t)))
    ELSE IF t = <<>> THEN <<>> ELSE <<Head(t)>> \o RefDecode(Tail(t))

RefParse(b) ==
    LET toks == [i \in 1 .. Len(Split(b)) |-> RefDecode(Split(b)[i])]
    IN IF \E i \in 1 .. Len(toks) : \E k \in 1 .. Len(toks[i]) : toks[i][k] \in Forbidden
       THEN [ok |-> FALSE, ptr |-> <<>>]
       ELSE [ok |-> TRUE, ptr |-> toks]

\* a sender's encoding: every byte as "%HH" (uppercase), tokens joined by
\* '=' and '&' in turn
UpperHex(v) == IF v < 10 THEN 48 + v ELSE 55 + v
EncodeTok(t) == [i \in 1 .. 3 * Len(t) |->
                   LET c == t[(i - 1) \div 3 + 1]
                   IN CASE (i - 1) % 3 = 0 -> PCT
                        [] (i - 1) % 3 = 1 -> UpperHex(c \div 16)
                        [] OTHER -> UpperHex(c % 16)]
RECURSIVE Encode(_)
Encode(ts) ==
    IF Len(ts) <= 1 THEN (IF ts = <<>> THEN <<>> ELSE EncodeTok(ts[1]))
    ELSE Encode(SubSeq(ts, 1, Len(ts) - 1))
         \o <<IF Len(ts) % 2 = 0 THEN EQ ELSE AMP>> \o EncodeTok(ts[Len(ts)])

-----------------------------------------------------------------------------
NoPlain == <<>>

VARIABLES
    body,    \* the request body read by manager_handler
    plain,   \* the tokens it encodes, when a sender built it from tokens
    status,  \* "new", then "ok" or "syntax"
    ptr      \* the token vector process_buff returned

vars == <<body, plain, status, ptr>>

Init ==
    /\ \/ body \in Bodies /\ plain = NoPlain
       \/ \E ts \in Plains : plain = ts /\ body = Encode(ts)
    /\ status = "new"
    /\ ptr = <<>>

\* manager_handler calls process_buff on the body
Parse ==
    LET r == ProcessBuff(body)
    IN /\ status = "new"
       /\ status' = IF r.ok THEN "ok" ELSE "syntax"
       /\ ptr' = r.ptr
       /\ UNCHANGED <<body, plain>>

Next == Parse

Spec == Init /\ [][Next]_vars

-----------------------------------------------------------------------------
TypeOK ==
    /\ status \in {"new", "ok", "syntax"}
    /\ ptr \in Seq(Seq(0 .. 255))

HasEmptyToken(b) == \E i \in 1 .. Len(Split(b)) : Split(b)[i] = <<>>

\* For every body without an empty token, process_buff accepts exactly the
\* bodies the reference accepts and yields the reference's tokens:
\* mod_manager_hex2c and decodeenc's in-place loop decode as section 4.1.
ParseMatchesReference ==
    status # "new" /\ ~HasEmptyToken(body)
    => /\ (status = "ok") = RefParse(body).ok
       /\ status = "ok" => ptr = RefParse(body).ptr

\* Section 8 round trip: tokens of a sender (no empty token), percent-
\* encoded and joined by '=' and '&', come out of process_buff unchanged.
RoundTrip ==
    status # "new" /\ plain # NoPlain => status = "ok" /\ ptr = plain

\* Section 4.1: a body is parsed only if none of its tokens holds '<', '>',
\* '"', ''', CR or LF after decoding; decodeenc's return at the first empty
\* token is not a reason to skip the tokens after it.
ForbiddenAlwaysRejected ==
    status = "ok" => RefParse(body).ok

=============================================================================
