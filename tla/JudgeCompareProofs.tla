------------------------- MODULE JudgeCompareProofs -------------------------
(***************************************************************************)
(* For texts and buffers of any length, and however the outputs are cut:   *)
(* the comparison's indices stay within what it has read, it accepts       *)
(* exactly the expected output, and finds the presentation errors exactly, *)
(* unless a character was overwritten.                                     *)
(***************************************************************************)
EXTENDS JudgeCompare, SequenceTheorems, WellFoundedInduction, TLAPS

(***************************************************************************)
(* A buffer has a character to compare, or its stream has ended and been   *)
(* compared in full.                                                       *)
(***************************************************************************)
Buffers ==
    /\ Len(a) = Len(program) /\ Len(b) = Len(expected)
    /\ eoa => pa = Len(a)
    /\ eob => pb = Len(b)
    /\ pc \in {"fillB", "compare"} => eoa \/ pa < ra
    /\ pc = "compare" => eob \/ pb < rb

(***************************************************************************)
(* What has been compared.                                                 *)
(***************************************************************************)
Reached == IF pa < pb THEN pb ELSE pa

SameUpTo(n) == \A k \in 1..n : CharAt(program, k) = CharAt(expected, k)

Differs == \E k \in Nat \ {0} : CharAt(program, k) # CharAt(expected, k)

Progress ==
    /\ ~overran => a = program /\ b = expected
    /\ overran => ~Short
    /\ ~precentationError => (pa < pb => eoa) /\ (pb < pa => eob)
    /\ ~overran /\ ~precentationError => SameUpTo(Reached)
    /\ ~overran /\ precentationError => Differs

Verdicts ==
    /\ pc = "done" <=> verdict # "none"
    /\ verdict = "same" => ~precentationError /\ BothEnded
    /\ verdict = "almost" => precentationError
    /\ verdict = "different" /\ ~overran => Differs

Inv == TypeOK /\ Buffers /\ Progress /\ Verdicts

(***************************************************************************)
(* Two texts are the same if and only if they differ nowhere: behind both  *)
(* their ends there is nothing to differ.                                  *)
(***************************************************************************)
LEMMA SameIsNotDifferent ==
    ASSUME TypeOK
    PROVE  SameText(program, expected) <=> ~Differs
<1>1. Len(program) \in Nat /\ Len(expected) \in Nat
    BY DEF TypeOK
<1>2. \A k \in Nat \ {0} : k \notin 1..(Len(program) + Len(expected)) =>
          CharAt(program, k) = Eof /\ CharAt(expected, k) = Eof
    BY <1>1 DEF CharAt
<1>3. 1..(Len(program) + Len(expected)) \subseteq Nat \ {0}
    BY <1>1
<1>. QED
    BY <1>2, <1>3 DEF SameText, Differs

LEMMA SameUpToTheEnds ==
    ASSUME TypeOK, SameUpTo(Reached), pa = Len(program), pb = Len(expected)
    PROVE  SameText(program, expected)
<1>1. Len(program) \in Nat /\ Len(expected) \in Nat
    BY DEF TypeOK
<1>2. ASSUME NEW k \in 1..(Len(program) + Len(expected))
      PROVE  CharAt(program, k) = CharAt(expected, k)
  <2>1. CASE k <= Reached
    BY <1>1, <2>1 DEF SameUpTo, Reached
  <2>2. CASE ~(k <= Reached)
    BY <1>1, <2>2 DEF Reached, CharAt
  <2>. QED BY <2>1, <2>2
<1>. QED BY <1>2 DEF SameText

(***************************************************************************)
(* The characters compared are those at the place reached, where a stream  *)
(* that has ended goes on with -1.                                         *)
(***************************************************************************)
LEMMA Heads ==
    ASSUME TypeOK, Buffers, Progress, pc = "compare", ~overran, ~precentationError
    PROVE  /\ NA = CharAt(program, Reached + 1)
           /\ NB = CharAt(expected, Reached + 1)
<1>1. /\ pa \in Nat /\ pb \in Nat /\ ra \in Nat /\ rb \in Nat
      /\ ra <= Len(a) /\ rb <= Len(b) /\ Len(a) \in Nat /\ Len(b) \in Nat
    BY DEF TypeOK
<1>2. a = program /\ b = expected
    BY DEF Progress
<1>3. NA = CharAt(program, Reached + 1)
  <2>1. CASE eoa
    BY <1>1, <1>2, <2>1 DEF NA, CharAt, Reached, Buffers
  <2>2. CASE ~eoa
    BY <1>1, <1>2, <2>2 DEF NA, CharAt, Reached, Buffers, Progress
  <2>. QED BY <2>1, <2>2
<1>4. NB = CharAt(expected, Reached + 1)
  <2>1. CASE eob
    BY <1>1, <1>2, <2>1 DEF NB, CharAt, Reached, Buffers
  <2>2. CASE ~eob
    BY <1>1, <1>2, <2>2 DEF NB, CharAt, Reached, Buffers, Progress
  <2>. QED BY <2>1, <2>2
<1>. QED BY <1>3, <1>4

LEMMA DifferentHeads ==
    ASSUME TypeOK, Buffers, Progress, pc = "compare", ~overran, NA # NB
    PROVE  Differs
<1>1. CASE precentationError
    BY <1>1 DEF Progress
<1>2. CASE ~precentationError
  <2>1. CharAt(program, Reached + 1) # CharAt(expected, Reached + 1)
    BY <1>2, Heads
  <2>2. Reached + 1 \in Nat \ {0}
    BY DEF TypeOK, Reached
  <2>. QED BY <2>1, <2>2 DEF Differs
<1>. QED BY <1>1, <1>2

-----------------------------------------------------------------------------
LEMMA InitInv == Init => Inv
<1>. SUFFICES ASSUME Init PROVE Inv
    OBVIOUS
<1>. USE TextAssumption
<1>1. program \in Seq(Char) /\ expected \in Seq(Char)
    BY DEF Init
<1>2. a \in Seq(Char \cup {Nul}) /\ b \in Seq(Char \cup {Nul})
    BY <1>1, SMTT(30) DEF Init
<1>3. /\ ra \in 0..Len(a) /\ rb \in 0..Len(b)
      /\ al \in 0..BufSize /\ bl \in 0..BufSize /\ al <= ra /\ bl <= rb
      /\ pa \in (ra - al)..ra /\ pb \in (rb - bl)..rb
    BY <1>2 DEF Init
<1>4. /\ layout \in Layout /\ eoa \in BOOLEAN /\ eob \in BOOLEAN
      /\ precentationError \in BOOLEAN /\ overran \in BOOLEAN
      /\ pc \in {"fillA", "fillB", "compare", "done"}
      /\ verdict \in {"none", "same", "almost", "different"}
    BY DEF Init
<1>5. TypeOK
    BY <1>1, <1>2, <1>3, <1>4 DEF TypeOK
<1>. QED BY <1>5 DEF Init, Inv, Buffers, Progress, Verdicts, Reached, SameUpTo

(***************************************************************************)
(* The zeros change characters of the streams, not their lengths.          *)
(***************************************************************************)
LEMMA ZerosKeepLengths ==
    ASSUME TypeOK, NEW r \in Nat, NEW l \in Nat, l <= r, r <= Len(b), WriteZeros(r, l)
    PROVE  /\ a' \in Seq(Char \cup {Nul}) /\ Len(a') = Len(a)
           /\ b' \in Seq(Char \cup {Nul}) /\ Len(b') = Len(b)
           /\ ~overran' => ~overran /\ a' = a /\ b' = b
           /\ overran' /\ ~overran => al = BufSize \/ l = BufSize
           /\ overran' \in BOOLEAN
<1>1. /\ a \in Seq(Char \cup {Nul}) /\ b \in Seq(Char \cup {Nul}) /\ overran \in BOOLEAN
    BY DEF TypeOK
<1>0. /\ pa \in Nat /\ pb \in Nat /\ ra \in Nat /\ al \in Nat
      /\ ra <= Len(a) /\ Len(a) \in Nat /\ Len(b) \in Nat
    BY TextAssumption DEF TypeOK
<1>2. ASSUME NEW s \in Seq(Char \cup {Nul}), NEW i \in 1..Len(s)
      PROVE  /\ [s EXCEPT ![i] = Nul] \in Seq(Char \cup {Nul})
             /\ Len([s EXCEPT ![i] = Nul]) = Len(s)
    BY SMTT(30)
<1>3. ZeroInA(ra - al + 1, l) => ra - al + 1 \in 1..Len(a)
  <2>1. (pa + 1)..ra \subseteq 1..Len(a)
    BY <1>0
  <2>. QED BY <2>1, Zenon DEF ZeroInA
<1>4. ZeroInB(r - l + 1, r) => r - l + 1 \in 1..Len(b)
  <2>1. (pb + 1)..r \subseteq 1..Len(b)
    BY <1>0
  <2>. QED BY <2>1, Zenon DEF ZeroInB
<1>5. a' \in Seq(Char \cup {Nul}) /\ Len(a') = Len(a)
  <2>1. CASE ZeroInA(ra - al + 1, l)
    <3>1. a' = [a EXCEPT ![ra - al + 1] = Nul]
      BY <2>1 DEF WriteZeros
    <3>. QED BY <1>1, <1>2, <1>3, <2>1, <3>1
  <2>2. CASE ~ZeroInA(ra - al + 1, l)
    BY <1>1, <2>2 DEF WriteZeros
  <2>. QED BY <2>1, <2>2
<1>6. b' \in Seq(Char \cup {Nul}) /\ Len(b') = Len(b)
  <2>1. CASE ZeroInB(r - l + 1, r)
    <3>1. b' = [b EXCEPT ![r - l + 1] = Nul]
      BY <2>1 DEF WriteZeros
    <3>. QED BY <1>1, <1>2, <1>4, <2>1, <3>1
  <2>2. CASE ~ZeroInB(r - l + 1, r)
    BY <1>1, <2>2 DEF WriteZeros
  <2>. QED BY <2>1, <2>2
<1>7. overran' \in BOOLEAN
    BY Zenon DEF WriteZeros
<1>8. ~overran' => ~overran /\ a' = a /\ b' = b
    BY DEF WriteZeros
<1>9. overran' /\ ~overran => al = BufSize \/ l = BufSize
    BY DEF WriteZeros, ZeroInA, ZeroInB
<1>. QED BY <1>5, <1>6, <1>7, <1>8, <1>9

-----------------------------------------------------------------------------
(***************************************************************************)
(* One lemma for each action.                                              *)
(***************************************************************************)
LEMMA ReadAInv == Inv /\ ReadA => Inv'
<1>. SUFFICES ASSUME Inv, ReadA PROVE Inv'
    OBVIOUS
<1>. USE TextAssumption
<1>1. /\ pa \in Nat /\ ra \in Nat /\ al \in Nat /\ ra <= Len(a) /\ Len(a) \in Nat
    BY DEF Inv, TypeOK
<1>2. /\ ra' \in 0..Len(a) /\ al' \in 0..BufSize /\ al' <= ra'
      /\ pa \in (ra' - al')..ra'
      /\ eoa' => ra' = Len(a) /\ pa = Len(a)
      /\ eoa' \/ pa < ra'
    BY <1>1 DEF Inv, TypeOK, ReadA, Piece
<1>3. eoa' \in BOOLEAN
    BY Zenon DEF ReadA, Inv, TypeOK
<1>4. TypeOK'
    BY <1>2, <1>3 DEF Inv, TypeOK, ReadA, streams
<1>5. Buffers'
    BY <1>2 DEF Inv, Buffers, ReadA, streams
<1>6. Progress'
  <2>1. Reached' = Reached /\ (eoa => eoa')
    BY DEF ReadA, Reached
  <2>. QED BY <2>1 DEF Inv, Progress, Short, ReadA, streams, SameUpTo, Differs, CharAt
<1>7. Verdicts'
    BY DEF Inv, Verdicts, ReadA, BothEnded, Differs, CharAt, streams
<1>. QED BY <1>4, <1>5, <1>6, <1>7 DEF Inv

LEMMA ReadBInv == Inv /\ ReadB => Inv'
<1>. SUFFICES ASSUME Inv, ReadB PROVE Inv'
    OBVIOUS
<1>. USE TextAssumption
<1>1. /\ pb \in Nat /\ rb \in Nat /\ bl \in Nat /\ rb <= Len(b) /\ Len(b) \in Nat /\ bl <= rb
    BY DEF Inv, TypeOK
<1>2. /\ rb' \in 0..Len(b) /\ bl' \in 0..BufSize /\ bl' <= rb'
      /\ pb \in (rb' - bl')..rb'
      /\ eob' => rb' = Len(b) /\ pb = Len(b)
      /\ eob' \/ pb < rb'
    BY <1>1 DEF Inv, TypeOK, ReadB, Piece
<1>3. eob' \in BOOLEAN
    BY Zenon DEF ReadB, Inv, TypeOK
<1>4. WriteZeros(rb', bl')
    BY DEF ReadB
<1>5. /\ a' \in Seq(Char \cup {Nul}) /\ Len(a') = Len(a)
      /\ b' \in Seq(Char \cup {Nul}) /\ Len(b') = Len(b)
      /\ ~overran' => ~overran /\ a' = a /\ b' = b
      /\ overran' /\ ~overran => al = BufSize \/ bl' = BufSize
      /\ overran' \in BOOLEAN
    BY <1>1, <1>2, <1>4, ZerosKeepLengths DEF Inv
<1>6. TypeOK'
    BY <1>2, <1>3, <1>5 DEF Inv, TypeOK, ReadB, streams
<1>7. Buffers'
    BY <1>2, <1>5 DEF Inv, Buffers, ReadB, streams
<1>8. Progress'
  <2>1. Reached' = Reached /\ (eob => eob')
    BY DEF ReadB, Reached
  <2>2. ASSUME overran' PROVE ~Short'
    <3>1. /\ al <= Len(program) /\ bl' <= Len(expected) /\ al \in Nat /\ bl' \in Nat
          /\ Len(program) \in Nat /\ Len(expected) \in Nat
      BY <1>1, <1>2 DEF Inv, TypeOK, Buffers
    <3>2. program' = program /\ expected' = expected
      BY DEF ReadB, streams
    <3>3. CASE overran
      BY <3>2, <3>3 DEF Inv, Progress, Short
    <3>4. CASE ~overran
      BY <1>5, <2>2, <3>1, <3>2, <3>4 DEF Short
    <3>. QED BY <3>3, <3>4
  <2>. QED BY <1>5, <2>1, <2>2 DEF Inv, Progress, ReadB, streams, SameUpTo, Differs, CharAt
<1>9. Verdicts'
    BY <1>5 DEF Inv, Verdicts, ReadB, BothEnded, Differs, CharAt, streams
<1>. QED BY <1>6, <1>7, <1>8, <1>9 DEF Inv

LEMMA KeepInv == Inv /\ (KeepA \/ KeepB) => Inv'
<1>. SUFFICES ASSUME Inv, KeepA \/ KeepB PROVE Inv'
    OBVIOUS
<1>1. /\ UNCHANGED <<streams, a, b, ra, al, rb, bl, pa, pb, eoa, eob, precentationError,
                     verdict, overran>>
      /\ pc \in {"fillA", "fillB"} /\ pc' \in {"fillB", "compare"}
    BY DEF KeepA, KeepB
<1>2. TypeOK'
    BY <1>1 DEF Inv, TypeOK, streams
<1>3. Buffers'
    BY <1>1 DEF Inv, Buffers, TypeOK, KeepA, KeepB, streams
<1>4. Progress'
    BY <1>1 DEF Inv, Progress, Short, Reached, SameUpTo, Differs, CharAt, streams
<1>5. Verdicts'
    BY <1>1 DEF Inv, Verdicts, BothEnded, Differs, CharAt, streams
<1>. QED BY <1>2, <1>3, <1>4, <1>5 DEF Inv

LEMMA EqualInv == Inv /\ Equal => Inv'
<1>. SUFFICES ASSUME Inv, Equal PROVE Inv'
    OBVIOUS
<1>. USE TextAssumption
<1>1. /\ pa \in Nat /\ ra \in Nat /\ al \in Nat /\ ra <= Len(a) /\ Len(a) \in Nat
      /\ pb \in Nat /\ rb \in Nat /\ bl \in Nat /\ rb <= Len(b) /\ Len(b) \in Nat
    BY DEF Inv, TypeOK
<1>2. /\ pc = "compare" /\ pc' = "fillA" /\ NA = NB
      /\ UNCHANGED <<program, expected, layout, a, b, ra, rb, al, bl, eoa, eob, overran,
                     verdict, precentationError>>
      /\ pa' = IF eoa THEN pa ELSE pa + 1
      /\ pb' = IF eob THEN pb ELSE pb + 1
    BY DEF Equal, Turn, streams, NextA, NextB
<1>3. /\ eoa => pa = Len(a)
      /\ eob => pb = Len(b)
      /\ eoa \/ pa < ra
      /\ eob \/ pb < rb
    BY <1>2 DEF Inv, Buffers
<1>4. pa' \in (ra - al)..ra /\ pb' \in (rb - bl)..rb
    BY <1>1, <1>2, <1>3 DEF Inv, TypeOK
<1>5. TypeOK'
    BY <1>2, <1>4 DEF Inv, TypeOK
<1>6. Buffers'
    BY <1>1, <1>2, <1>3 DEF Inv, Buffers
<1>7. Progress'
  <2>1. ~overran' => a' = program' /\ b' = expected'
    BY <1>2 DEF Inv, Progress
  <2>2. ~precentationError' => (pa' < pb' => eoa') /\ (pb' < pa' => eob')
    BY <1>1, <1>2, <1>3 DEF Inv, Progress
  <2>3. ASSUME ~overran', ~precentationError' PROVE SameUpTo(Reached)'
    <3>1. CharAt(program, Reached + 1) = CharAt(expected, Reached + 1)
      BY <1>2, <2>3, Heads DEF Inv
    <3>2. Reached' <= Reached + 1 /\ Reached \in Nat /\ Reached' \in Nat
      BY <1>1, <1>2, <1>3 DEF Reached
    <3>3. SameUpTo(Reached)
      BY <1>2, <2>3 DEF Inv, Progress
    <3>4. \A k \in 1..Reached' : CharAt(program, k) = CharAt(expected, k)
      BY <3>1, <3>2, <3>3 DEF SameUpTo
    <3>5. program' = program /\ expected' = expected
      BY <1>2
    <3>. QED BY <3>4, <3>5 DEF SameUpTo, CharAt
  <2>4. ~overran' /\ precentationError' => Differs'
    BY <1>2 DEF Inv, Progress, Differs, CharAt
  <2>5. overran' => ~Short'
    BY <1>2 DEF Inv, Progress, Short
  <2>. QED BY <2>1, <2>2, <2>3, <2>4, <2>5 DEF Progress
<1>8. Verdicts'
    BY <1>2 DEF Inv, Verdicts, BothEnded, Differs, CharAt
<1>. QED BY <1>5, <1>6, <1>7, <1>8 DEF Inv

(***************************************************************************)
(* Skipping white space: the streams have been seen to differ.             *)
(***************************************************************************)
LEMMA SkipInv == Inv /\ (SkipA \/ SkipB) => Inv'
<1>. SUFFICES ASSUME Inv, SkipA \/ SkipB PROVE Inv'
    OBVIOUS
<1>. USE TextAssumption
<1>1. /\ pa \in Nat /\ ra \in Nat /\ al \in Nat /\ ra <= Len(a) /\ Len(a) \in Nat
      /\ pb \in Nat /\ rb \in Nat /\ bl \in Nat /\ rb <= Len(b) /\ Len(b) \in Nat
    BY DEF Inv, TypeOK
<1>2. /\ pc = "compare" /\ pc' = "fillA" /\ NA # NB
      /\ UNCHANGED <<program, expected, layout, a, b, ra, rb, al, bl, eoa, eob, overran, verdict>>
      /\ precentationError' = TRUE
      /\ pa' = pa \/ pa' = (IF eoa THEN pa ELSE pa + 1)
      /\ pb' = pb \/ pb' = (IF eob THEN pb ELSE pb + 1)
    BY DEF SkipA, SkipB, Turn, streams, NextA, NextB
<1>3. /\ eoa => pa = Len(a)
      /\ eob => pb = Len(b)
      /\ eoa \/ pa < ra
      /\ eob \/ pb < rb
    BY <1>2 DEF Inv, Buffers
<1>4. pa' \in (ra - al)..ra /\ pb' \in (rb - bl)..rb
    BY <1>1, <1>2, <1>3 DEF Inv, TypeOK
<1>5. TypeOK'
    BY <1>2, <1>4 DEF Inv, TypeOK
<1>6. Buffers'
    BY <1>1, <1>2, <1>3 DEF Inv, Buffers
<1>7. Progress'
  <2>1. ~overran => Differs
    BY <1>2, DifferentHeads DEF Inv
  <2>2. Differs' = Differs
    BY <1>2 DEF Differs, CharAt
  <2>. QED BY <1>2, <2>1, <2>2 DEF Inv, Progress, Short
<1>8. Verdicts'
  <2>1. verdict = "none"
    BY <1>2 DEF Inv, Verdicts
  <2>. QED BY <1>2, <2>1 DEF Verdicts
<1>. QED BY <1>5, <1>6, <1>7, <1>8 DEF Inv

LEMMA EndInv == Inv /\ (Differ \/ Exit) => Inv'
<1>. SUFFICES ASSUME Inv, Differ \/ Exit PROVE Inv'
    OBVIOUS
<1>1. /\ pc' = "done" /\ verdict' \in {"same", "almost", "different"}
      /\ UNCHANGED <<program, expected, layout, a, b, ra, rb, al, bl, pa, pb, eoa, eob,
                     precentationError, overran>>
    BY DEF Differ, Exit, streams
<1>2. TypeOK'
    BY <1>1 DEF Inv, TypeOK
<1>3. Buffers'
    BY <1>1 DEF Inv, Buffers
<1>4. Progress'
    BY <1>1 DEF Inv, Progress, Short, Reached, SameUpTo, Differs, CharAt
<1>5. Verdicts'
  <2>1. Differs' = Differs
    BY <1>1 DEF Differs, CharAt
  <2>2. CASE Differ
    <3>1. ~overran => Differs
      BY <2>2, DifferentHeads DEF Inv, Differ
    <3>. QED BY <1>1, <2>1, <2>2, <3>1 DEF Differ, Verdicts
  <2>3. CASE Exit
    BY <1>1, <2>3 DEF Exit, Verdicts, BothEnded
  <2>. QED BY <2>2, <2>3
<1>. QED BY <1>2, <1>3, <1>4, <1>5 DEF Inv

LEMMA StutterInv == Inv /\ UNCHANGED vars => Inv'
<1>. SUFFICES ASSUME Inv, UNCHANGED vars PROVE Inv'
    OBVIOUS
<1>1. TypeOK' /\ Buffers'
    BY DEF Inv, TypeOK, Buffers, vars, streams
<1>2. Progress' /\ Verdicts'
    BY DEF Inv, Progress, Short, Verdicts, BothEnded, Reached, SameUpTo, Differs, CharAt, vars, streams
<1>. QED BY <1>1, <1>2 DEF Inv

THEOREM Invariance == Spec => []Inv
<1>1. Inv /\ [Next]_vars => Inv'
    BY ReadAInv, ReadBInv, KeepInv, EqualInv, SkipInv, EndInv, StutterInv DEF Next
<1>. QED BY InitInv, <1>1, PTL DEF Spec

-----------------------------------------------------------------------------
(***************************************************************************)
(* Type correctness: no index leaves its buffer.                           *)
(***************************************************************************)
THEOREM TypeCorrect == Spec => []TypeOK
<1>1. Inv => TypeOK
    BY DEF Inv
<1>. QED BY Invariance, <1>1, PTL

(***************************************************************************)
(* A program is accepted if and only if it wrote the expected output, for  *)
(* outputs of any length in pieces of any length, as long as no character  *)
(* was overwritten before it was compared: for outputs shorter than the    *)
(* buffer, always.                                                         *)
(***************************************************************************)
THEOREM AcceptsExactlyTheExpected == Spec => []AcceptsExactly
<1>1. Inv => AcceptsExactly
  <2>. SUFFICES ASSUME Inv, pc = "done", ~overran \/ Short
                PROVE  verdict = "same" <=> SameText(program, expected)
      BY DEF AcceptsExactly
  <2>0. ~overran
    BY DEF Inv, Progress
  <2>1. SameText(program, expected) <=> ~Differs
    BY SameIsNotDifferent DEF Inv
  <2>2. CASE verdict = "same"
    <3>1. ~precentationError /\ eoa /\ eob
      BY <2>2 DEF Inv, Verdicts, BothEnded
    <3>2. SameUpTo(Reached) /\ pa = Len(program) /\ pb = Len(expected)
      BY <2>0, <3>1 DEF Inv, Progress, Buffers
    <3>. QED BY <2>2, <3>2, SameUpToTheEnds DEF Inv
  <2>3. CASE verdict # "same"
    <3>1. verdict \in {"almost", "different"}
      BY <2>3 DEF Inv, TypeOK, Verdicts
    <3>2. Differs
      BY <2>0, <3>1 DEF Inv, Verdicts, Progress
    <3>. QED BY <2>1, <2>3, <3>2
  <2>. QED BY <2>2, <2>3
<1>. QED BY Invariance, <1>1, PTL


-----------------------------------------------------------------------------
(***************************************************************************)
(* A set of naturals has a least one: what a recursive function gives for  *)
(* every length is proved from the least length for which it does not.     *)
(***************************************************************************)
LEMMA Least ==
    ASSUME NEW T, T \subseteq Nat, T # {}
    PROVE  \E n \in T : \A k \in T : n <= k
<1> DEFINE R == {ss \in Nat \X Nat : ss[1] < ss[2]}
<1>1. IsWellFoundedOn(R, Nat)
  BY NatLessThanWellFounded, Zenon DEF OpToRel
<1>2. PICK n \in T : \A k \in T : ~(<<k, n>> \in R)
  BY <1>1, WFMin, Zenon
<1>3. \A k \in T : ~(k < n)
  BY <1>2
<1> QED
  BY <1>3

(***************************************************************************)
(* Kept is the function that its recursion describes.                      *)
(***************************************************************************)
KeptAt(s, f, n) ==
    IF n = 0 THEN <<>>
    ELSE IF s[n] \in White THEN f[n - 1]
    ELSE Append(f[n - 1], s[n])

LEMMA KeptAtType ==
    ASSUME NEW s \in Seq(Char), NEW n \in 0..Len(s), NEW f,
           n # 0 => f[n - 1] \in Seq(Char)
    PROVE  KeptAt(s, f, n) \in Seq(Char)
<1>1. CASE n = 0
  BY <1>1 DEF KeptAt
<1>2. CASE n # 0
  <2>1. s[n] \in Char
    BY <1>2, ElementOfSeq
  <2> QED
    BY <1>2, <2>1, AppendProperties DEF KeptAt
<1> QED
  BY <1>1, <1>2

LEMMA KeptFrom ==
    ASSUME NEW s \in Seq(Char)
    PROVE  \A m \in 0..Len(s) : \E f \in [0..m -> Seq(Char)] :
               \A n \in 0..m : f[n] = KeptAt(s, f, n)
<1> DEFINE To(m) == \E f \in [0..m -> Seq(Char)] : \A n \in 0..m : f[n] = KeptAt(s, f, n)
           T == {m \in 0..Len(s) : ~To(m)}
<1>0. Len(s) \in Nat
  OBVIOUS
<1>1. SUFFICES ASSUME T # {} PROVE FALSE
  OBVIOUS
<1>2. PICK m \in T : \A k \in T : m <= k
  <2>1. T \subseteq Nat
    BY <1>0
  <2> QED
    BY <1>1, <2>1, Least
<1>3. m \in 0..Len(s) /\ m \in Nat
  BY <1>0
<1>4. CASE m = 0
  <2> DEFINE f == [n \in 0..m |-> <<>>]
  <2>1. f \in [0..m -> Seq(Char)]
    OBVIOUS
  <2>2. \A n \in 0..m : f[n] = KeptAt(s, f, n)
    BY <1>4 DEF KeptAt
  <2> QED
    BY <2>1, <2>2
<1>5. CASE m # 0
  <2>1. To(m - 1)
    <3>1. m - 1 \in 0..Len(s) /\ ~(m <= m - 1)
      BY <1>0, <1>3, <1>5
    <3> HIDE DEF To
    <3> QED
      BY <1>2, <3>1
  <2>2. PICK g \in [0..(m - 1) -> Seq(Char)] : \A n \in 0..(m - 1) : g[n] = KeptAt(s, g, n)
    BY <2>1
  <2> DEFINE x == KeptAt(s, g, m)
             f == [n \in 0..m |-> IF n = m THEN x ELSE g[n]]
  <2>3. x \in Seq(Char)
    BY <1>3, <1>5, <2>2, KeptAtType
  <2>4. f \in [0..m -> Seq(Char)]
    <3> HIDE DEF x
    <3> QED
      BY <1>3, <2>2, <2>3
  <2>5. \A n \in 0..(m - 1) : f[n] = g[n]
    BY <1>3
  <2>6. ASSUME NEW n \in 0..m  PROVE f[n] = KeptAt(s, f, n)
    <3>1. CASE n = m
      BY <1>3, <1>5, <2>5, <3>1 DEF KeptAt
    <3>2. CASE n # m
      <4>1. n \in 0..(m - 1)
        BY <1>3, <3>2
      <4>2. n # 0 => n - 1 \in 0..(m - 1)
        BY <1>3, <4>1
      <4>3. n # 0 => f[n - 1] = g[n - 1]
        BY <2>5, <4>2
      <4>4. f[n] = g[n] /\ g[n] = KeptAt(s, g, n)
        BY <2>2, <2>5, <4>1
      <4> HIDE DEF f
      <4> QED
        BY <4>3, <4>4 DEF KeptAt
    <3> QED
      BY <3>1, <3>2
  <2>7. To(m)
    BY <2>4, <2>6
  <2> QED
    BY <2>7
<1> QED
  BY <1>3, <1>4, <1>5

LEMMA KeptIs ==
    ASSUME NEW s \in Seq(Char)
    PROVE  /\ Kept(s) \in [0..Len(s) -> Seq(Char)]
           /\ \A n \in 0..Len(s) : Kept(s)[n] = KeptAt(s, Kept(s), n)
<1> DEFINE Fits(f) == f = [n \in 0..Len(s) |-> IF n = 0 THEN <<>>
                                               ELSE IF s[n] \in White THEN f[n - 1]
                                               ELSE Append(f[n - 1], s[n])]
<1>0. Len(s) \in Nat
  OBVIOUS
<1>1. \E f : Fits(f)
  <2>1. PICK f \in [0..Len(s) -> Seq(Char)] : \A n \in 0..Len(s) : f[n] = KeptAt(s, f, n)
    <3>1. Len(s) \in 0..Len(s)
      BY <1>0
    <3> QED
      BY <3>1, KeptFrom
  <2>2. Fits(f)
    BY <2>1 DEF KeptAt
  <2> QED
    BY <2>2
<1>2. Fits(Kept(s))
  <2>1. Kept(s) = CHOOSE f : Fits(f)
    BY DEF Kept
  <2> HIDE DEF Fits
  <2> QED
    BY <1>1, <2>1
<1>3. \A n \in 0..Len(s) : Kept(s)[n] = KeptAt(s, Kept(s), n)
  BY <1>2 DEF KeptAt
<1>4. \A n \in 0..Len(s) : Kept(s)[n] \in Seq(Char)
  <2> DEFINE T == {n \in 0..Len(s) : Kept(s)[n] \notin Seq(Char)}
  <2>1. SUFFICES ASSUME T # {} PROVE FALSE
    OBVIOUS
  <2>2. PICK n \in T : \A k \in T : n <= k
    <3>1. T \subseteq Nat
      BY <1>0
    <3> QED
      BY <2>1, <3>1, Least
  <2>3. n # 0 => n - 1 \in 0..Len(s) /\ n - 1 \notin T
    BY <1>0, <2>2
  <2>4. n # 0 => Kept(s)[n - 1] \in Seq(Char)
    BY <2>3
  <2> QED
    BY <1>3, <2>4, KeptAtType
<1>5. Kept(s) = [n \in 0..Len(s) |-> Kept(s)[n]]
  BY <1>2
<1> QED
  BY <1>3, <1>4, <1>5

(***************************************************************************)
(* What is kept of a beginning is a beginning of what is kept.             *)
(***************************************************************************)
LEMMA KeptGrows ==
    ASSUME NEW s \in Seq(Char), NEW m \in 0..Len(s)
    PROVE  \A n \in m..Len(s) :
               /\ Len(Kept(s)[m]) <= Len(Kept(s)[n])
               /\ \A k \in 1..Len(Kept(s)[m]) : Kept(s)[n][k] = Kept(s)[m][k]
<1> DEFINE Grown(n) == /\ Len(Kept(s)[m]) <= Len(Kept(s)[n])
                       /\ \A k \in 1..Len(Kept(s)[m]) : Kept(s)[n][k] = Kept(s)[m][k]
           T == {n \in m..Len(s) : ~Grown(n)}
<1>0. Len(s) \in Nat /\ m \in Nat
  OBVIOUS
<1>1. SUFFICES ASSUME T # {} PROVE FALSE
  OBVIOUS
<1>2. PICK n \in T : \A k \in T : n <= k
  <2>1. T \subseteq Nat
    BY <1>0
  <2> QED
    BY <1>1, <2>1, Least
<1>3. n \in Nat /\ n <= Len(s) /\ m <= n
  BY <1>0
<1>4. Kept(s)[m] \in Seq(Char)
  BY KeptIs
<1>5. CASE n = m
  <2>1. Grown(m)
    BY <1>4
  <2> QED
    BY <1>5, <2>1
<1>6. CASE n # m
  <2>1. n - 1 \in m..Len(s) /\ n \in 0..Len(s) /\ n # 0 /\ n - 1 \in 0..Len(s)
    BY <1>0, <1>3, <1>6
  <2>2. Grown(n - 1)
    BY <1>2, <1>3, <2>1
  <2>3. Kept(s)[n - 1] \in Seq(Char)
    BY <2>1, KeptIs
  <2>4. Kept(s)[n] = IF s[n] \in White THEN Kept(s)[n - 1] ELSE Append(Kept(s)[n - 1], s[n])
    BY <2>1, KeptIs DEF KeptAt
  <2>5. s[n] \in Char
    BY <2>1, ElementOfSeq
  <2> DEFINE u == Kept(s)[n - 1]
             v == Kept(s)[n]
  <2>6. Len(u) <= Len(v) /\ \A k \in 1..Len(u) : v[k] = u[k]
    <3>1. CASE s[n] \in White
      BY <2>3, <2>4, <3>1
    <3>2. CASE s[n] \notin White
      BY <2>3, <2>4, <2>5, <3>2, AppendProperties
    <3> QED
      BY <3>1, <3>2
  <2>7. Len(u) \in Nat /\ Len(v) \in Nat /\ Len(Kept(s)[m]) \in Nat
    BY <1>4, <2>1, <2>3, KeptIs
  <2>8. Grown(n)
    <3> HIDE DEF v
    <3>1. Len(Kept(s)[m]) <= Len(u) /\ \A k \in 1..Len(Kept(s)[m]) : u[k] = Kept(s)[m][k]
      BY <2>2
    <3> HIDE DEF u
    <3>2. Len(Kept(s)[m]) <= Len(v) /\ \A k \in 1..Len(Kept(s)[m]) : v[k] = Kept(s)[m][k]
      BY <2>6, <2>7, <3>1
    <3> QED
      BY <3>2 DEF v
  <2> QED
    BY <2>8
<1> QED
  BY <1>5, <1>6

-----------------------------------------------------------------------------
(***************************************************************************)
(* What has been compared apart from white space.                          *)
(***************************************************************************)
Left == Len(Kept(program)[pa])

Right == Len(Kept(expected)[pb])

Passed == IF Left < Right THEN Right ELSE Left

SqueezedUpTo(n) ==
    \A k \in 1..n : CharAt(Squeezed(program), k) = CharAt(Squeezed(expected), k)

SqueezedDiffer ==
    \E k \in Nat \ {0} : CharAt(Squeezed(program), k) # CharAt(Squeezed(expected), k)

Skipping == ~overran =>
    /\ Left < Right => eoa
    /\ Right < Left => eob
    /\ SqueezedUpTo(Passed)
    /\ verdict = "almost" => BothEnded
    /\ verdict = "different" => SqueezedDiffer

(***************************************************************************)
(* The next character that is not white is the next one that is kept.      *)
(***************************************************************************)
LEMMA KeptNext ==
    ASSUME NEW s \in Seq(Char), NEW n \in Nat, n + 1 <= Len(s)
    PROVE  /\ s[n + 1] \in White => Kept(s)[n + 1] = Kept(s)[n]
           /\ s[n + 1] \notin White =>
                 /\ Len(Kept(s)[n + 1]) = Len(Kept(s)[n]) + 1
                 /\ Squeezed(s)[Len(Kept(s)[n]) + 1] = s[n + 1]
                 /\ Len(Kept(s)[n]) + 1 <= Len(Squeezed(s))
<1>0. /\ n + 1 \in 0..Len(s) /\ n \in 0..Len(s) /\ n + 1 # 0 /\ (n + 1) - 1 = n
      /\ Len(s) \in Nat /\ Len(s) \in (n + 1)..Len(s)
  OBVIOUS
<1>1. Kept(s)[n] \in Seq(Char) /\ Kept(s)[n + 1] \in Seq(Char)
  BY <1>0, KeptIs
<1>2. Kept(s)[n + 1] = IF s[n + 1] \in White THEN Kept(s)[n] ELSE Append(Kept(s)[n], s[n + 1])
  BY <1>0, KeptIs DEF KeptAt
<1>3. ASSUME s[n + 1] \notin White
      PROVE  /\ Len(Kept(s)[n + 1]) = Len(Kept(s)[n]) + 1
             /\ Squeezed(s)[Len(Kept(s)[n]) + 1] = s[n + 1]
             /\ Len(Kept(s)[n]) + 1 <= Len(Squeezed(s))
  <2> DEFINE u == Kept(s)[n]
             v == Kept(s)[n + 1]
  <2>1. s[n + 1] \in Char
    BY <1>0, ElementOfSeq
  <2>2. v = Append(u, s[n + 1])
    BY <1>2, <1>3
  <2>3. Len(v) = Len(u) + 1 /\ v[Len(u) + 1] = s[n + 1] /\ Len(u) \in Nat
    BY <1>1, <2>1, <2>2, AppendProperties
  <2>4. Len(v) <= Len(Squeezed(s)) /\ \A k \in 1..Len(v) : Squeezed(s)[k] = v[k]
    BY <1>0, KeptGrows DEF Squeezed
  <2>5. Len(u) + 1 \in 1..Len(v)
    BY <2>3
  <2> HIDE DEF u, v
  <2>6. Squeezed(s)[Len(u) + 1] = s[n + 1] /\ Len(u) + 1 <= Len(Squeezed(s))
    BY <2>3, <2>4, <2>5
  <2> QED
    BY <2>3, <2>6 DEF u, v
<1> QED
  BY <1>2, <1>3

LEMMA KeptLengths ==
    ASSUME NEW s \in Seq(Char), NEW n \in 0..Len(s)
    PROVE  Len(Kept(s)[n]) \in Nat /\ Len(Squeezed(s)) \in Nat /\ Len(Kept(s)[n]) <= Len(Squeezed(s))
<1>1. Len(s) \in Nat /\ Len(s) \in n..Len(s) /\ Len(s) \in 0..Len(s)
  OBVIOUS
<1>2. Kept(s)[n] \in Seq(Char) /\ Squeezed(s) \in Seq(Char)
  BY <1>1, KeptIs DEF Squeezed
<1>3. Len(Kept(s)[n]) <= Len(Squeezed(s))
  BY <1>1, KeptGrows DEF Squeezed
<1> QED
  BY <1>2, <1>3

LEMMA SqueezedSame ==
    ASSUME TypeOK
    PROVE  SameText(Squeezed(program), Squeezed(expected)) <=> ~SqueezedDiffer
<1> DEFINE s == Squeezed(program)
           t == Squeezed(expected)
<1>1. Len(s) \in Nat /\ Len(t) \in Nat
  <2>1. 0 \in 0..Len(program) /\ 0 \in 0..Len(expected)
    BY DEF TypeOK
  <2> QED
    BY <2>1, KeptLengths DEF TypeOK
<1>2. \A k \in Nat \ {0} : k \notin 1..(Len(s) + Len(t)) =>
          CharAt(s, k) = Eof /\ CharAt(t, k) = Eof
  <2> HIDE DEF s, t
  <2> QED
    BY <1>1 DEF CharAt
<1>3. 1..(Len(s) + Len(t)) \subseteq Nat \ {0}
  BY <1>1
<1> QED
  BY <1>2, <1>3 DEF SameText, SqueezedDiffer

LEMMA SqueezedEnds ==
    ASSUME TypeOK, SqueezedUpTo(Passed), pa = Len(program), pb = Len(expected)
    PROVE  ~SqueezedDiffer
<1> DEFINE s == Squeezed(program)
           t == Squeezed(expected)
<1>1. Len(s) = Left /\ Len(t) = Right
  BY DEF Left, Right, Squeezed
<1>2. Len(s) \in Nat /\ Len(t) \in Nat
  <2>1. Len(program) \in 0..Len(program) /\ Len(expected) \in 0..Len(expected)
    BY DEF TypeOK
  <2> QED
    BY <2>1, KeptLengths DEF TypeOK
<1>3. ASSUME NEW k \in Nat \ {0}  PROVE CharAt(s, k) = CharAt(t, k)
  <2>1. CASE k <= Passed
    <3>1. k \in 1..Passed
      BY <1>1, <1>2, <2>1 DEF Passed
    <3> QED
      BY <3>1 DEF SqueezedUpTo
  <2>2. CASE ~(k <= Passed)
    <3>1. ~(k <= Len(s)) /\ ~(k <= Len(t))
      BY <1>1, <1>2, <2>2 DEF Passed
    <3> QED
      BY <3>1 DEF CharAt
  <2> QED
    BY <2>1, <2>2
<1> QED
  BY <1>3 DEF SqueezedDiffer

(***************************************************************************)
(* A character compared is the next one kept, unless it is white.          *)
(***************************************************************************)
LEMMA SqueezedHeads ==
    ASSUME Inv, Skipping, pc = "compare", ~overran
    PROVE  /\ ~IsWhite(NA) => NA = CharAt(Squeezed(program), Passed + 1)
           /\ ~IsWhite(NB) => NB = CharAt(Squeezed(expected), Passed + 1)
<1>1. /\ pa \in Nat /\ pb \in Nat /\ ra \in Nat /\ rb \in Nat
      /\ ra <= Len(program) /\ rb <= Len(expected)
      /\ Len(program) \in Nat /\ Len(expected) \in Nat
      /\ program \in Seq(Char) /\ expected \in Seq(Char)
      /\ pa <= Len(program) /\ pb <= Len(expected)
  BY DEF Inv, TypeOK, Buffers
<1>2. a = program /\ b = expected
  BY DEF Inv, Progress
<1>3. /\ Left \in Nat /\ Right \in Nat
      /\ Left <= Len(Squeezed(program)) /\ Right <= Len(Squeezed(expected))
      /\ Len(Squeezed(program)) \in Nat /\ Len(Squeezed(expected)) \in Nat
  <2>1. pa \in 0..Len(program) /\ pb \in 0..Len(expected)
    BY <1>1
  <2> QED
    BY <1>1, <2>1, KeptLengths DEF Left, Right
<1>4. ASSUME ~IsWhite(NA)  PROVE NA = CharAt(Squeezed(program), Passed + 1)
  <2>1. CASE eoa
    <3>1. pa = Len(program)
      BY <1>2, <2>1 DEF Inv, Buffers
    <3>2. Left = Len(Squeezed(program))
      BY <3>1 DEF Left, Squeezed
    <3>3. ~(Passed + 1 <= Len(Squeezed(program)))
      BY <1>3, <3>2 DEF Passed
    <3> QED
      BY <2>1, <3>3 DEF NA, CharAt
  <2>2. CASE ~eoa
    <3>1. pa + 1 <= Len(program)
      BY <1>1, <2>2 DEF Inv, Buffers
    <3>2. NA = Signed(program[pa + 1])
      BY <1>2, <2>2 DEF NA
    <3>3. program[pa + 1] \notin White
      BY <1>4, <3>2, TextAssumption DEF IsWhite, Signed
    <3>4. Squeezed(program)[Left + 1] = program[pa + 1] /\ Left + 1 <= Len(Squeezed(program))
      BY <1>1, <3>1, <3>3, KeptNext DEF Left
    <3>5. Passed = Left
      BY <1>3, <2>2 DEF Passed, Skipping
    <3> QED
      BY <3>2, <3>4, <3>5 DEF CharAt
  <2> QED
    BY <2>1, <2>2
<1>5. ASSUME ~IsWhite(NB)  PROVE NB = CharAt(Squeezed(expected), Passed + 1)
  <2>1. CASE eob
    <3>1. pb = Len(expected)
      BY <1>2, <2>1 DEF Inv, Buffers
    <3>2. Right = Len(Squeezed(expected))
      BY <3>1 DEF Right, Squeezed
    <3>3. ~(Passed + 1 <= Len(Squeezed(expected)))
      BY <1>3, <3>2 DEF Passed
    <3> QED
      BY <2>1, <3>3 DEF NB, CharAt
  <2>2. CASE ~eob
    <3>1. pb + 1 <= Len(expected)
      BY <1>1, <2>2 DEF Inv, Buffers
    <3>2. NB = Signed(expected[pb + 1])
      BY <1>2, <2>2 DEF NB
    <3>3. expected[pb + 1] \notin White
      BY <1>5, <3>2, TextAssumption DEF IsWhite, Signed
    <3>4. Squeezed(expected)[Right + 1] = expected[pb + 1] /\ Right + 1 <= Len(Squeezed(expected))
      BY <1>1, <3>1, <3>3, KeptNext DEF Right
    <3>5. Passed = Right
      BY <1>3, <2>2 DEF Passed, Skipping
    <3> QED
      BY <3>2, <3>4, <3>5 DEF CharAt
  <2> QED
    BY <2>1, <2>2
<1> QED
  BY <1>4, <1>5

LEMMA PassA ==
    ASSUME Inv, Skipping, pc = "compare", ~overran, NextA, program' = program
    PROVE  /\ Left \in Nat /\ Left' \in Nat
           /\ eoa \/ IsWhite(NA) => Left' = Left
           /\ ~eoa /\ ~IsWhite(NA) => Left' = Left + 1
<1>1. /\ pa \in Nat /\ ra \in Nat /\ ra <= Len(program) /\ Len(program) \in Nat
      /\ program \in Seq(Char) /\ a = program /\ pa <= Len(program)
  <2>1. a = program /\ program \in Seq(Char)
    BY DEF Inv, Progress, TypeOK
  <2> QED
    BY <2>1, LenProperties DEF Inv, TypeOK
<1>2. Left \in Nat
  <2>1. pa \in 0..Len(program)
    BY <1>1
  <2> QED
    BY <1>1, <2>1, KeptLengths DEF Left
<1>3. CASE eoa
  BY <1>2, <1>3 DEF NextA, Left
<1>4. CASE ~eoa
  <2>1. pa + 1 <= Len(program) /\ pa' = pa + 1
    BY <1>1, <1>4 DEF Inv, Buffers, NextA
  <2>2. NA = Signed(program[pa + 1])
    BY <1>1, <1>4 DEF NA
  <2>3. IsWhite(NA) <=> program[pa + 1] \in White
    BY <2>2, TextAssumption DEF IsWhite, Signed
  <2>4. Left' = Len(Kept(program)[pa + 1])
    BY <2>1 DEF Left
  <2>5. CASE IsWhite(NA)
    <3>1. Left' = Left
      BY <1>1, <2>1, <2>3, <2>4, <2>5, KeptNext DEF Left
    <3> QED
      BY <1>2, <2>5, <3>1
  <2>6. CASE ~IsWhite(NA)
    <3>1. Left' = Left + 1
      BY <1>1, <2>1, <2>3, <2>4, <2>6, KeptNext DEF Left
    <3> QED
      BY <1>2, <1>4, <2>6, <3>1
  <2> QED
    BY <2>5, <2>6
<1> QED
  BY <1>3, <1>4

LEMMA PassB ==
    ASSUME Inv, Skipping, pc = "compare", ~overran, NextB, expected' = expected
    PROVE  /\ Right \in Nat /\ Right' \in Nat
           /\ eob \/ IsWhite(NB) => Right' = Right
           /\ ~eob /\ ~IsWhite(NB) => Right' = Right + 1
<1>1. /\ pb \in Nat /\ rb \in Nat /\ rb <= Len(expected) /\ Len(expected) \in Nat
      /\ expected \in Seq(Char) /\ b = expected /\ pb <= Len(expected)
  <2>1. b = expected /\ expected \in Seq(Char)
    BY DEF Inv, Progress, TypeOK
  <2> QED
    BY <2>1, LenProperties DEF Inv, TypeOK
<1>2. Right \in Nat
  <2>1. pb \in 0..Len(expected)
    BY <1>1
  <2> QED
    BY <1>1, <2>1, KeptLengths DEF Right
<1>3. CASE eob
  BY <1>2, <1>3 DEF NextB, Right
<1>4. CASE ~eob
  <2>1. pb + 1 <= Len(expected) /\ pb' = pb + 1
    BY <1>1, <1>4 DEF Inv, Buffers, NextB
  <2>2. NB = Signed(expected[pb + 1])
    BY <1>1, <1>4 DEF NB
  <2>3. IsWhite(NB) <=> expected[pb + 1] \in White
    BY <2>2, TextAssumption DEF IsWhite, Signed
  <2>4. Right' = Len(Kept(expected)[pb + 1])
    BY <2>1 DEF Right
  <2>5. CASE IsWhite(NB)
    <3>1. Right' = Right
      BY <1>1, <2>1, <2>3, <2>4, <2>5, KeptNext DEF Right
    <3> QED
      BY <1>2, <2>5, <3>1
  <2>6. CASE ~IsWhite(NB)
    <3>1. Right' = Right + 1
      BY <1>1, <2>1, <2>3, <2>4, <2>6, KeptNext DEF Right
    <3> QED
      BY <1>2, <1>4, <2>6, <3>1
  <2> QED
    BY <2>5, <2>6
<1> QED
  BY <1>3, <1>4

-----------------------------------------------------------------------------
(***************************************************************************)
(* The greedy skipping keeps what is left of both texts alike.             *)
(***************************************************************************)
LEMMA SkippingInit == Init => Skipping
<1> SUFFICES ASSUME Init PROVE Skipping
  OBVIOUS
<1>1. program \in Seq(Char) /\ expected \in Seq(Char)
  BY TextAssumption DEF Init
<1>2. Kept(program)[0] = <<>> /\ Kept(expected)[0] = <<>>
  <2>1. 0 \in 0..Len(program) /\ 0 \in 0..Len(expected)
    BY <1>1
  <2> QED
    BY <1>1, <2>1, KeptIs DEF KeptAt
<1>3. Left = 0 /\ Right = 0
  BY <1>2 DEF Init, Left, Right
<1>4. SqueezedUpTo(Passed)
  BY <1>3 DEF Passed, SqueezedUpTo
<1> QED
  BY <1>3, <1>4 DEF Init, Skipping

LEMMA EqualSkipping == ASSUME Inv, Skipping, Equal PROVE Skipping'
<1>0. SUFFICES ASSUME ~overran' PROVE Skipping'
  BY DEF Skipping
<1>1. /\ pc = "compare" /\ NA = NB /\ NextA /\ NextB /\ ~overran /\ verdict' = verdict
      /\ program' = program /\ expected' = expected /\ eoa' = eoa /\ eob' = eob
  BY <1>0 DEF Equal, Turn, streams
<1>2. verdict = "none"
  BY <1>1 DEF Inv, Verdicts
<1>3. /\ Left < Right => eoa
      /\ Right < Left => eob
      /\ SqueezedUpTo(Passed)
  BY <1>1 DEF Skipping
<1>4. /\ Left \in Nat /\ Left' \in Nat
      /\ eoa \/ IsWhite(NA) => Left' = Left
      /\ ~eoa /\ ~IsWhite(NA) => Left' = Left + 1
  BY <1>1, PassA
<1>5. /\ Right \in Nat /\ Right' \in Nat
      /\ eob \/ IsWhite(NB) => Right' = Right
      /\ ~eob /\ ~IsWhite(NB) => Right' = Right + 1
  BY <1>1, PassB
<1>6. IsWhite(NA) => ~eoa /\ ~eob
  BY <1>1, TextAssumption DEF IsWhite, NA, NB
<1>7. /\ Left' < Right' => eoa
      /\ Right' < Left' => eob
      /\ Passed' = Passed \/ (Passed' = Passed + 1 /\ ~IsWhite(NA))
      /\ Passed \in Nat
  BY <1>1, <1>3, <1>4, <1>5, <1>6 DEF Passed
<1>8. ~IsWhite(NA) => CharAt(Squeezed(program), Passed + 1) = CharAt(Squeezed(expected), Passed + 1)
  BY <1>1, SqueezedHeads
<1>9. \A k \in 1..(Passed') : CharAt(Squeezed(program), k) = CharAt(Squeezed(expected), k)
  BY <1>3, <1>7, <1>8 DEF SqueezedUpTo
<1>10. SqueezedUpTo(Passed)'
  BY <1>1, <1>9 DEF SqueezedUpTo
<1> QED
  BY <1>1, <1>2, <1>7, <1>10 DEF Skipping

LEMMA SkipSkipping == ASSUME Inv, Skipping, SkipA \/ SkipB PROVE Skipping'
<1>0. SUFFICES ASSUME ~overran' PROVE Skipping'
  BY DEF Skipping
<1>1. /\ pc = "compare" /\ ~overran /\ verdict' = verdict
      /\ program' = program /\ expected' = expected /\ eoa' = eoa /\ eob' = eob
  BY <1>0 DEF SkipA, SkipB, Turn, streams
<1>2. verdict = "none"
  BY <1>1 DEF Inv, Verdicts
<1>3. Left' = Left /\ Right' = Right
  <2>1. CASE SkipA
    BY <1>1, <2>1, PassA DEF SkipA, Right
  <2>2. CASE SkipB
    BY <1>1, <2>2, PassB DEF SkipB, Left
  <2> QED
    BY <2>1, <2>2
<1>4. SqueezedUpTo(Passed)'
  BY <1>1, <1>3 DEF Skipping, Passed, SqueezedUpTo
<1> QED
  BY <1>1, <1>2, <1>3, <1>4 DEF Skipping

LEMMA DifferSkipping == ASSUME Inv, Skipping, Differ PROVE Skipping'
<1>0. SUFFICES ASSUME ~overran' PROVE Skipping'
  BY DEF Skipping
<1>1. /\ pc = "compare" /\ ~overran /\ verdict' = "different"
      /\ program' = program /\ expected' = expected /\ eoa' = eoa /\ eob' = eob
      /\ pa' = pa /\ pb' = pb
      /\ NA # NB /\ ~IsWhite(NA) /\ ~IsWhite(NB)
  BY <1>0 DEF Differ, streams
<1>2. CharAt(Squeezed(program), Passed + 1) # CharAt(Squeezed(expected), Passed + 1)
  BY <1>1, SqueezedHeads
<1>3. Passed + 1 \in Nat \ {0}
  <2>1. pa \in 0..Len(program) /\ pb \in 0..Len(expected)
    BY DEF Inv, TypeOK, Buffers
  <2>2. Left \in Nat /\ Right \in Nat
    BY <2>1, KeptLengths DEF Left, Right, Inv, TypeOK
  <2> QED
    BY <2>2 DEF Passed
<1>4. SqueezedDiffer'
  BY <1>1, <1>2, <1>3 DEF SqueezedDiffer
<1>5. Left' = Left /\ Right' = Right
  BY <1>1 DEF Left, Right
<1>6. SqueezedUpTo(Passed)'
  BY <1>1, <1>5 DEF Skipping, Passed, SqueezedUpTo
<1> QED
  BY <1>1, <1>4, <1>5, <1>6 DEF Skipping

LEMMA RestSkipping ==
    ASSUME Inv, Skipping, ReadA \/ KeepA \/ ReadB \/ KeepB \/ Exit \/ UNCHANGED vars
    PROVE  Skipping'
<1>0. SUFFICES ASSUME ~overran' PROVE Skipping'
  BY DEF Skipping
<1>1. /\ program' = program /\ expected' = expected /\ pa' = pa /\ pb' = pb
      /\ eoa => eoa'
      /\ eob => eob'
  BY DEF ReadA, KeepA, ReadB, KeepB, Exit, vars, streams
<1>2. ~overran
  <2>1. CASE ReadB
    BY <1>0, <2>1 DEF ReadB, WriteZeros
  <2>2. CASE ReadA \/ KeepA \/ KeepB \/ Exit \/ UNCHANGED vars
    BY <1>0, <2>2 DEF ReadA, KeepA, KeepB, Exit, vars
  <2> QED
    BY <2>1, <2>2
<1>3. /\ verdict' = "almost" => eoa' /\ eob'
      /\ verdict' = "different" => verdict = "different"
  <2>1. CASE Exit
    BY <2>1 DEF Exit, BothEnded
  <2>2. CASE ReadA \/ KeepA \/ ReadB \/ KeepB \/ UNCHANGED vars
    BY <1>1, <1>2, <2>2 DEF ReadA, KeepA, ReadB, KeepB, vars, Skipping, BothEnded
  <2> QED
    BY <2>1, <2>2
<1>4. Left' = Left /\ Right' = Right
  BY <1>1 DEF Left, Right
<1>5. SqueezedUpTo(Passed)' /\ SqueezedDiffer' = SqueezedDiffer
  BY <1>1, <1>2, <1>4 DEF Skipping, Passed, SqueezedUpTo, SqueezedDiffer
<1> QED
  BY <1>1, <1>2, <1>3, <1>4, <1>5 DEF Skipping, BothEnded

THEOREM SkippingInvariance == Spec => [](Inv /\ Skipping)
<1>1. Inv /\ Skipping /\ [Next]_vars => Skipping'
  BY EqualSkipping, SkipSkipping, DifferSkipping, RestSkipping DEF Next
<1> QED
  BY <1>1, SkippingInit, Invariance, PTL DEF Spec

(***************************************************************************)
(* A presentation error is found if and only if the outputs differ and are *)
(* the same without their white space, for outputs of any length in pieces *)
(* of any length: skipping white space on one side as soon as the two      *)
(* differ (judgemain) never skips too much or too little.                  *)
(***************************************************************************)
THEOREM PresentationErrorsFound == Spec => []PresentationErrors
<1>1. Inv /\ Skipping => PresentationErrors
  <2> SUFFICES ASSUME Inv, Skipping, pc = "done", ~overran
               PROVE  verdict = "almost" <=> /\ ~SameText(program, expected)
                                             /\ SameText(Squeezed(program), Squeezed(expected))
    BY DEF PresentationErrors
  <2>1. SameText(program, expected) <=> ~Differs
    BY SameIsNotDifferent DEF Inv
  <2>2. SameText(Squeezed(program), Squeezed(expected)) <=> ~SqueezedDiffer
    BY SqueezedSame DEF Inv
  <2>3. CASE verdict = "almost"
    <3>1. eoa /\ eob /\ precentationError
      BY <2>3 DEF Skipping, BothEnded, Inv, Verdicts
    <3>2. pa = Len(program) /\ pb = Len(expected) /\ Differs
      BY <3>1 DEF Inv, Progress, Buffers
    <3>3. ~SqueezedDiffer
      BY <3>2, SqueezedEnds DEF Skipping, Inv
    <3> QED
      BY <2>1, <2>2, <2>3, <3>2, <3>3
  <2>4. CASE verdict = "different"
    BY <2>2, <2>4 DEF Skipping
  <2>5. CASE verdict = "same"
    <3>1. ~precentationError /\ eoa /\ eob
      BY <2>5 DEF Inv, Verdicts, BothEnded
    <3>2. SameUpTo(Reached) /\ pa = Len(program) /\ pb = Len(expected)
      BY <3>1 DEF Inv, Progress, Buffers
    <3> QED
      BY <2>5, <3>2, SameUpToTheEnds DEF Inv
  <2>6. verdict \in {"same", "almost", "different"}
    BY DEF Inv, TypeOK, Verdicts
  <2> QED
    BY <2>3, <2>4, <2>5, <2>6
<1> QED
  BY <1>1, SkippingInvariance, PTL

=============================================================================
