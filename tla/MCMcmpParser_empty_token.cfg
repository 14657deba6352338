\* Bodies of up to four bytes: "&<" and "&%3C" carry a forbidden byte after
\* an empty token.  Parsing a body ends.
CONSTANTS
    Chars <- MCChars
    MaxBody = 4
    Plains <- MCPlains
SPECIFICATION Spec
CHECK_DEADLOCK FALSE
INVARIANT ForbiddenAlwaysRejected
