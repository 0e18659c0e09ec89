CONSTANTS
    MaxLength = 3
    Char <- Chars
    Text <- Texts
    White = {"blank"}
    Byte255 = "ff"
    Nul = "zero"
    Eof = "eof"
    BufSize = 2
SPECIFICATION Spec
INVARIANT TypeOK
INVARIANT AcceptsExactly
INVARIANT PresentationErrors
CHECK_DEADLOCK FALSE
