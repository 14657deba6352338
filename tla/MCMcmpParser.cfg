\* Every body of up to four bytes over ten characters, and the encodings of
\* two- and three-token sender bodies.  Parsing a body ends.
CONSTANTS
    Chars <- MCChars
    MaxBody = 4
    Plains <- MCPlains
SPECIFICATION Spec
CHECK_DEADLOCK FALSE
INVARIANT TypeOK
INVARIANT ParseMatchesReference
INVARIANT RoundTrip
