---------------------------- MODULE JudgeCompare ----------------------------
(***************************************************************************)
(* judgemain: the comparison of a program's output with the expected one.  *)
(*                                                                         *)
(* Both are read in pieces of any length up to that of the buffer and      *)
(* compared character by character.  A piece that fills the buffer is      *)
(* ended with a zero one byte behind it, which belongs to whatever the     *)
(* compiler has put there: the other buffer, or nothing that is used       *)
(* (layout).  A buffer is the part of a stream last read, so that a byte   *)
(* overwritten in it is one changed in the stream.                         *)
(***************************************************************************)
EXTENDS Integers, SequencesExt

CONSTANTS
    Char,     \* characters in outputs
    White,    \* blank, tab, carriage return, newline
    Byte255,  \* the character that is -1 when it is signed
    Nul,      \* the zero
    Eof,      \* -1
    Text,     \* the outputs compared
    BufSize   \* length of a buffer

ASSUME TextAssumption ==
    /\ BufSize \in Nat \ {0}
    /\ Text \subseteq Seq(Char)
    /\ White \subseteq Char /\ Byte255 \notin White
    /\ Eof \notin Char \cup {Nul}

VARIABLES
    program,  \* the program's output
    expected, \* the expected output
    layout,   \* which buffer lies directly behind the other one
    a, b,     \* the streams as the buffers give them
    ra, rb,   \* characters read from them
    al, bl,   \* length of the last piece
    pa, pb,   \* characters compared: au and bu, counted from the start
    eoa, eob, \* a read has found the end
    precentationError,
    pc,       \* where the loop is
    verdict,  \* the exit status
    overran   \* history: a character not yet compared was overwritten

streams == <<program, expected, layout>>
vars == <<streams, a, b, ra, rb, al, bl, pa, pb, eoa, eob, precentationError,
          pc, verdict, overran>>

Layout == {"apart", "b behind a", "a behind b"}

-----------------------------------------------------------------------------
(***************************************************************************)
(* One turn of the loop: a piece of the program's output is read when the  *)
(* last one has been compared, then one of the expected output, then a     *)
(* character of each is compared.                                          *)
(***************************************************************************)
Longer(s, r) == {n \in 1..(BufSize + 1) : n <= Len(s) - r}  \* mutant: one byte too many
Piece(s, r) == {n \in 1..BufSize : n <= Len(s) - r}

EitherEnded == eoa \/ eob  \* mutant: the loop ends with the first
BothEnded == eoa /\ eob

ReadA ==
    /\ pc = "fillA" /\ ~BothEnded /\ ~eoa /\ pa = ra
    /\ pc' = "fillB"
    /\ \/ \E n \in Piece(a, ra) : ra' = ra + n /\ al' = n /\ UNCHANGED eoa
       \/ ra = Len(a) /\ eoa' = TRUE /\ UNCHANGED <<ra, al>>
    /\ UNCHANGED <<streams, a, b, rb, bl, pa, pb, eob, precentationError, verdict, overran>>

KeepA ==
    /\ pc = "fillA" /\ ~BothEnded /\ (eoa \/ pa # ra)
    /\ pc' = "fillB"
    /\ UNCHANGED <<streams, a, b, ra, al, rb, bl, pa, pb, eoa, eob, precentationError,
                   verdict, overran>>

(***************************************************************************)
(* After every read of the expected output the zeros are written: a[al],   *)
(* then b[bl].  What has been compared is not looked at again.             *)
(***************************************************************************)
ZeroInA(first, l) == layout = "a behind b" /\ l = BufSize /\ first \in (pa + 1)..ra

ZeroInB(first, r) == layout = "b behind a" /\ al = BufSize /\ first \in (pb + 1)..r

WriteZeros(r, l) ==
    LET firstA == ra - al + 1
        firstB == r - l + 1
    IN /\ a' = IF ZeroInA(firstA, l) THEN [a EXCEPT ![firstA] = Nul] ELSE a
       /\ b' = IF ZeroInB(firstB, r) THEN [b EXCEPT ![firstB] = Nul] ELSE b
       /\ overran' = (overran \/ ZeroInA(firstA, l) \/ ZeroInB(firstB, r))

ReadB ==
    /\ pc = "fillB" /\ ~eob /\ pb = rb
    /\ pc' = "compare"
    /\ \/ \E n \in Piece(b, rb) : /\ rb' = rb + n /\ bl' = n /\ UNCHANGED eob
                                  /\ WriteZeros(rb + n, n)
       \/ /\ rb = Len(b) /\ eob' = TRUE /\ UNCHANGED <<rb, bl>>
          /\ WriteZeros(rb, bl)
    /\ UNCHANGED <<streams, ra, al, pa, pb, eoa, precentationError, verdict>>

KeepB ==
    /\ pc = "fillB" /\ (eob \/ pb # rb)
    /\ pc' = "compare"
    /\ UNCHANGED <<streams, a, b, ra, al, rb, bl, pa, pb, eoa, eob, precentationError,
                   verdict, overran>>

(***************************************************************************)
(* The next character as an int: the end of the stream, and the character  *)
(* that is negative, are -1.                                               *)
(***************************************************************************)
Signed(c) == IF c = Byte255 THEN Eof ELSE c

NA == IF eoa THEN Eof ELSE Signed(a[pa + 1])
NB == IF eob THEN Eof ELSE Signed(b[pb + 1])

NextA == pa' = IF eoa THEN pa ELSE pa + 1
NextB == pb' = IF eob THEN pb ELSE pb + 1

IsWhite(c) == c \in White

Turn ==
    /\ pc = "compare" /\ pc' = "fillA"
    /\ UNCHANGED <<streams, a, b, ra, rb, al, bl, eoa, eob, overran, verdict>>

Equal ==
    /\ Turn /\ NA = NB
    /\ NextA /\ NextB
    /\ UNCHANGED precentationError

SkipA ==
    /\ Turn /\ NA # NB /\ IsWhite(NA)
    /\ NextA /\ UNCHANGED pb
    /\ precentationError' = TRUE

SkipBSilently ==  \* mutant: white space the program left out is no error
    /\ Turn /\ NA # NB /\ ~IsWhite(NA) /\ IsWhite(NB)
    /\ NextB /\ UNCHANGED <<pa, precentationError>>

SkipB ==
    /\ Turn /\ NA # NB /\ ~IsWhite(NA) /\ IsWhite(NB)
    /\ NextB /\ UNCHANGED pa
    /\ precentationError' = TRUE

Differ ==
    /\ pc = "compare" /\ pc' = "done"
    /\ NA # NB /\ ~IsWhite(NA) /\ ~IsWhite(NB)
    /\ verdict' = "different"
    /\ UNCHANGED <<streams, a, b, ra, rb, al, bl, pa, pb, eoa, eob, precentationError, overran>>

(***************************************************************************)
(* Both streams have ended.                                                *)
(***************************************************************************)
Exit ==
    /\ pc = "fillA" /\ BothEnded
    /\ pc' = "done"
    /\ verdict' = IF precentationError THEN "almost" ELSE "same"
    /\ UNCHANGED <<streams, a, b, ra, rb, al, bl, pa, pb, eoa, eob, precentationError, overran>>

Init ==
    /\ program \in Text /\ expected \in Text /\ layout \in Layout
    /\ a = program /\ b = expected
    /\ ra = 0 /\ rb = 0 /\ al = 0 /\ bl = 0 /\ pa = 0 /\ pb = 0
    /\ eoa = FALSE /\ eob = FALSE /\ precentationError = FALSE
    /\ pc = "fillA" /\ verdict = "none" /\ overran = FALSE

Next == ReadA \/ KeepA \/ ReadB \/ KeepB \/ Equal \/ SkipA \/ SkipB \/ Differ \/ Exit

Spec == Init /\ [][Next]_vars

-----------------------------------------------------------------------------
(***************************************************************************)
(* Type correctness, and the buffers' indices within what has been read.   *)
(***************************************************************************)
TypeOK ==
    /\ program \in Seq(Char) /\ expected \in Seq(Char) /\ layout \in Layout
    /\ a \in Seq(Char \cup {Nul}) /\ b \in Seq(Char \cup {Nul})
    /\ ra \in 0..Len(a) /\ rb \in 0..Len(b)
    /\ al \in 0..BufSize /\ bl \in 0..BufSize /\ al <= ra /\ bl <= rb
    /\ pa \in (ra - al)..ra /\ pb \in (rb - bl)..rb
    /\ eoa \in BOOLEAN /\ eob \in BOOLEAN
    /\ precentationError \in BOOLEAN /\ overran \in BOOLEAN
    /\ pc \in {"fillA", "fillB", "compare", "done"}
    /\ verdict \in {"none", "same", "almost", "different"}

(***************************************************************************)
(* Two texts are the same when they are so up to characters at the end     *)
(* that compare equal to the end.                                          *)
(***************************************************************************)
CharAt(s, k) == IF k <= Len(s) THEN Signed(s[k]) ELSE Eof

SameText(s, t) == \A k \in 1..(Len(s) + Len(t)) : CharAt(s, k) = CharAt(t, k)

(***************************************************************************)
(* However the two outputs are cut, a program is accepted if and only if   *)
(* it wrote the expected output, unless a character was overwritten; none  *)
(* is where both outputs are shorter than the buffer.                      *)
(***************************************************************************)
Short == Len(program) < BufSize /\ Len(expected) < BufSize

AcceptsExactly ==
    pc = "done" /\ (~overran \/ Short) => (verdict = "same" <=> SameText(program, expected))

(* A text's first characters without white space, and all of them. *)
Kept(s) ==
    LET upTo[n \in 0..Len(s)] ==
            IF n = 0 THEN <<>>
            ELSE IF s[n] \in White THEN upTo[n - 1]
            ELSE Append(upTo[n - 1], s[n])
    IN upTo

Squeezed(s) == Kept(s)[Len(s)]

(***************************************************************************)
(* A presentation error is found if and only if the outputs are the same   *)
(* without their white space: the greedy skipping on either side never     *)
(* skips too much.                                                         *)
(***************************************************************************)
PresentationErrors ==
    pc = "done" /\ ~overran =>
        (verdict = "almost" <=> /\ ~SameText(program, expected)
                                /\ SameText(Squeezed(program), Squeezed(expected)))

=============================================================================
