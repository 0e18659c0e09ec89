------------------------- MODULE PackageSocketProofs ------------------------
(***************************************************************************)
(* For buffers of any size above two, any packages and any pieces in which *)
(* they are sent and read: the socket's own buffers do not overflow, what  *)
(* is read is what was written, in the pieces of the way of reading, and   *)
(* readString leaves its caller's buffer only in calls that made too little*)
(* room.  All but the first rest on a path: every byte on its way, in      *)
(* either buffer or between them, takes the reader from one place in the   *)
(* packages to the next, and the last one takes it to the writer's place.  *)
(***************************************************************************)
EXTENDS PackageSocket, SequenceTheorems, WellFoundedInduction, TLAPS

(***************************************************************************)
(* The bound of write_buff is kept because the loop leaves room for one    *)
(* more byte than an escape takes: the newline that ends the package.  A   *)
(* read stores at most what it was asked for, whatever room there is.      *)
(***************************************************************************)
WriterRoom ==
    /\ todo \in Seq(Byte) /\ wbuf \in Seq(Byte) /\ sent \in Nat
    /\ Len(wbuf) <= BufSize
    /\ wpc = "fill" => Len(wbuf) < BufSize
    /\ wpc = "idle" => wbuf = <<>>

ReaderRoom ==
    /\ wire \in Seq(Byte) /\ rbuf \in Seq(Byte) /\ b \in Seq(Byte)
    /\ Len(rbuf) <= BufSize /\ Len(b) <= Size

Room == WriterRoom /\ ReaderRoom

LEMMA SizeIsPositive == Size \in Nat \ {0}
  BY BoundsAssumption DEF Size

LEMMA EscapedType == \A c \in Byte : Escaped(c) \in Seq(Byte) /\ Len(Escaped(c)) <= 2
<1> SUFFICES ASSUME NEW c \in Byte
             PROVE  Escaped(c) \in Seq(Byte) /\ Len(Escaped(c)) <= 2
  OBVIOUS
<1>1. CASE c \in {"newline", "backslash"}
  <2>1. \E x \in Byte : Escaped(c) = <<"backslash", x>>
    BY <1>1 DEF Escaped, Byte
  <2> QED
    BY <2>1 DEF Byte
<1>2. CASE c \notin {"newline", "backslash"}
  BY <1>2 DEF Escaped, Byte
<1> QED
  BY <1>1, <1>2

LEMMA RoomInit == Init => Room
<1> SUFFICES ASSUME Init PROVE Room
  OBVIOUS
<1>1. Size \in Nat
  BY SizeIsPositive
<1> QED
  BY <1>1, BoundsAssumption DEF Init, Room, WriterRoom, ReaderRoom

LEMMA WriteKeepsRoom == ASSUME Room, Write PROVE Room'
<1> USE DEF Room, WriterRoom, ReaderRoom
<1>1. CASE Spill
  BY <1>1 DEF Spill, reader, Size
<1>2. CASE Fill
  <2>1. Head(todo) \in Byte /\ Tail(todo) \in Seq(Byte)
    BY <1>2, HeadTailProperties DEF Fill
  <2> DEFINE e == Escaped(Head(todo))
  <2>2. e \in Seq(Byte) /\ Len(e) <= 2
    BY <2>1, EscapedType
  <2>3. wbuf' \in Seq(Byte) /\ Len(wbuf') = Len(wbuf) + Len(e)
    BY <1>2, <2>2, ConcatProperties DEF Fill
  <2>4. Len(wbuf) + 2 < BufSize
    BY <1>2, BoundsAssumption, LenProperties DEF Fill, NoRoom
  <2>5. Len(wbuf') < BufSize
    BY <2>2, <2>3, <2>4, LenProperties, BoundsAssumption
  <2> QED
    BY <1>2, <2>1, <2>3, <2>5, LenProperties, BoundsAssumption DEF Fill, reader, Size
<1>3. CASE EndOfPackage
  <2>1. wbuf' \in Seq(Byte) /\ Len(wbuf') = Len(wbuf) + 1
    BY <1>3, AppendProperties DEF EndOfPackage, Byte
  <2> QED
    BY <1>3, <2>1, LenProperties, BoundsAssumption DEF EndOfPackage, reader, Size
<1>4. CASE Send
  <2>1. PICK s \in 1..(Len(wbuf) - sent) :
           /\ wire' = wire \o SubSeq(wbuf, 1, s)
           /\ \/ wbuf' = <<>> /\ wpc' \in {"fill", "idle"} /\ sent' = 0
              \/ wbuf' = wbuf /\ wpc' = wpc /\ sent' = sent + s
    BY <1>4 DEF Send
  <2>2. s \in 1..Len(wbuf)
    BY <2>1, LenProperties
  <2>3. SubSeq(wbuf, 1, s) \in Seq(Byte)
    BY <2>2, SubSeqProperties, LenProperties
  <2>4. wire' \in Seq(Byte)
    BY <2>1, <2>3, ConcatProperties
  <2>5. wpc \in {"spill", "end"} /\ UNCHANGED <<todo, rbuf, b, kind>>
    BY <1>4 DEF Send, reader
  <2>6. WriterRoom'
    <3>1. CASE wbuf' = <<>> /\ wpc' \in {"fill", "idle"} /\ sent' = 0
      BY <2>5, <3>1, BoundsAssumption
    <3>2. CASE wbuf' = wbuf /\ wpc' = wpc /\ sent' = sent + s
      BY <2>2, <2>5, <3>2
    <3> QED
      BY <2>1, <3>1, <3>2
  <2> QED
    BY <2>4, <2>5, <2>6 DEF Size
<1> QED
  BY <1>1, <1>2, <1>3, <1>4 DEF Write

LEMMA ReadKeepsRoom == ASSUME Room, Read PROVE Room'
<1> USE DEF Room, WriterRoom, ReaderRoom
<1>1. CASE StartRead
  BY <1>1, SizeIsPositive DEF StartRead, writer, Size
<1>2. CASE Recv
  <2>1. PICK n \in 1..Len(wire) :
           /\ n <= BufSize
           /\ rbuf' = SubSeq(wire, 1, n)
           /\ wire' = SubSeq(wire, n + 1, Len(wire))
    BY <1>2 DEF Recv
  <2>2. rbuf' \in Seq(Byte) /\ Len(rbuf') = n
    BY <2>1, SubSeqProperties, LenProperties
  <2>3. wire' \in Seq(Byte)
    BY <2>1, SubSeqProperties, LenProperties
  <2> QED
    BY <1>2, <2>1, <2>2, <2>3 DEF Recv, writer, call, Size
<1>3. CASE RecvEnd \/ FileFull \/ PyRead
  <2>1. wire' \in Seq(Byte)
    <3>1. CASE PyRead
      <4>1. PICK i \in 1..Len(wire) : wire' = SubSeq(wire, i + 1, Len(wire))
        BY <3>1 DEF PyRead
      <4> QED
        BY <4>1, SubSeqProperties, LenProperties
    <3> QED
      BY <1>3, <3>1 DEF RecvEnd, FileFull
  <2> QED
    BY <1>3, <2>1 DEF RecvEnd, FileFull, PyRead, Returns, writer, call, Size
<1>4. CASE StringFull
  BY <1>4, SizeIsPositive DEF StringFull, writer, call, Size
<1>5. ASSUME NEW c \in Byte, TakeByte(c)
      PROVE  /\ WriterRoom' /\ wire' \in Seq(Byte) /\ rbuf' \in Seq(Byte)
             /\ Len(rbuf') <= BufSize /\ Len(b) < Size /\ Size' = Size
  <2>1. rbuf' \in Seq(Byte) /\ Len(rbuf') = Len(rbuf) - 1
    BY <1>5, HeadTailProperties DEF TakeByte
  <2> QED
    BY <1>5, <2>1, LenProperties, BoundsAssumption DEF TakeByte, writer, call, Size
<1>6. ASSUME NEW c \in Byte, EscapedByte(c) \/ PlainByte(c)  PROVE Room'
  <2>1. TakeByte(c) /\ (b' = Append(b, c) \/ b' = Append(b, "newline"))
    BY <1>6 DEF EscapedByte, PlainByte
  <2>2. \A x \in Byte : Append(b, x) \in Seq(Byte) /\ Len(Append(b, x)) = Len(b) + 1
    BY AppendProperties
  <2>3. b' \in Seq(Byte) /\ Len(b') = Len(b) + 1
    BY <2>1, <2>2 DEF Byte
  <2> QED
    BY <1>5, <2>1, <2>3, LenProperties, SizeIsPositive
<1>7. CASE Newline \/ Backslash
  <2>1. PICK c \in Byte : TakeByte(c) /\ b' = b
    BY <1>7 DEF Newline, Backslash, Byte
  <2> QED
    BY <1>5, <2>1, LenProperties, SizeIsPositive
<1>8. CASE Overrun \/ ReadPastEnd
  <2>1. UNCHANGED <<kind, rbuf, b, wire, writer>>
    BY <1>8 DEF Overrun, ReadPastEnd
  <2> QED
    BY <2>1 DEF writer, Size
<1> QED
  BY <1>1, <1>2, <1>3, <1>4, <1>6, <1>7, <1>8 DEF Read

LEMMA NextKeepsRoom == Room /\ [Next]_vars => Room'
<1> SUFFICES ASSUME Room, [Next]_vars PROVE Room'
  OBVIOUS
<1>1. ASSUME NEW p \in Package, StartWrite(p)  PROVE Room'
  BY <1>1, PackageAssumption, BoundsAssumption
  DEF StartWrite, reader, Size, Room, WriterRoom, ReaderRoom
<1>2. CASE Close
  BY <1>2 DEF Close, reader, Size, Room, WriterRoom, ReaderRoom
<1>3. CASE UNCHANGED vars
  BY <1>3 DEF vars, writer, reader, Size, Room, WriterRoom, ReaderRoom
<1> QED
  BY <1>1, <1>2, <1>3, WriteKeepsRoom, ReadKeepsRoom DEF Next

-----------------------------------------------------------------------------
(***************************************************************************)
(* The least and the greatest of a set of numbers, and division.           *)
(***************************************************************************)
LEMMA Least ==
    ASSUME NEW T, T \subseteq Nat, T # {}
    PROVE  \E n \in T : \A k \in T : n <= k
<1> DEFINE R == {ss \in Nat \X Nat : ss[1] < ss[2]}
<1>1. IsWellFoundedOn(R, Nat)
  BY NatLessThanWellFounded, Zenon DEF OpToRel
<1>2. PICK n \in T : \A k \in T : ~(<<k, n>> \in R)
  BY <1>1, WFMin, Zenon
<1>3. \A k \in T : ~(k < n)
  BY <1>2
<1> QED
  BY <1>3

LEMMA Greatest ==
    ASSUME NEW N \in Nat, NEW T, T \subseteq 1..N, T # {}
    PROVE  \E n \in T : \A k \in T : k <= n
<1> DEFINE U == {N - n : n \in T}
<1>0. \A n \in T : n \in Nat /\ n <= N
  OBVIOUS
<1>1. U \subseteq Nat /\ U # {}
  <2>1. ASSUME NEW m \in U  PROVE m \in Nat
    <3>1. PICK n \in T : m = N - n
      OBVIOUS
    <3> QED
      BY <1>0, <3>1
  <2>2. PICK n \in T : TRUE
    OBVIOUS
  <2>3. N - n \in U
    OBVIOUS
  <2> QED
    BY <2>1, <2>3
<1>2. PICK m \in U : \A k \in U : m <= k
  BY <1>1, Least
<1>3. PICK n \in T : m = N - n
  BY <1>2
<1>4. \A k \in T : N - n <= N - k
  BY <1>2, <1>3
<1> QED
  BY <1>0, <1>4

LEMMA Div ==
    ASSUME NEW c \in Nat, NEW m \in Nat \ {0}, NEW d \in Nat, d < m, NEW n, n = c * m + d
    PROVE  n % m = d /\ n \div m = c
  BY SMTT(30)

LEMMA DivLow ==
    ASSUME NEW c \in Nat, NEW m \in Nat \ {0}, NEW n \in Nat, c * m <= n
    PROVE  c <= n \div m
  BY SMTT(30)

LEMMA Times ==
    ASSUME NEW c \in Nat, NEW m \in Nat \ {0}
    PROVE  c * m \in Nat /\ (c + 1) * m = c * m + m
  BY SMTT(30)

-----------------------------------------------------------------------------
(***************************************************************************)
(* Replace, from a byte on, and its recursion.                             *)
(***************************************************************************)
FromAt(s, x, y, z, f, i) ==
    IF i > Len(s) THEN <<>>
    ELSE IF i < Len(s) /\ s[i] = x /\ s[i + 1] = y
    THEN <<z>> \o f[i + 2]
    ELSE <<s[i]>> \o f[i + 1]

From(s, x, y, z) == CHOOSE f : f = [i \in 1..(Len(s) + 2) |-> FromAt(s, x, y, z, f, i)]

LEMMA FromAtType ==
    ASSUME NEW s \in Seq(Byte), NEW x, NEW y, NEW z \in Byte, NEW i \in 1..(Len(s) + 2), NEW f,
           \A j \in (i + 1)..(Len(s) + 2) : f[j] \in Seq(Byte)
    PROVE  FromAt(s, x, y, z, f, i) \in Seq(Byte)
<1>0. Len(s) \in Nat /\ i \in Nat
  OBVIOUS
<1>1. CASE i > Len(s)
  BY <1>1 DEF FromAt
<1>2. CASE ~(i > Len(s))
  <2>1. i + 1 \in (i + 1)..(Len(s) + 2) /\ i + 2 \in (i + 1)..(Len(s) + 2) /\ i \in 1..Len(s)
    BY <1>0, <1>2
  <2>2. f[i + 1] \in Seq(Byte) /\ f[i + 2] \in Seq(Byte) /\ s[i] \in Byte
    BY <2>1, ElementOfSeq
  <2>3. <<z>> \in Seq(Byte) /\ <<s[i]>> \in Seq(Byte)
    BY <2>2
  <2>4. <<z>> \o f[i + 2] \in Seq(Byte) /\ <<s[i]>> \o f[i + 1] \in Seq(Byte)
    BY <2>2, <2>3, ConcatProperties
  <2> QED
    BY <1>2, <2>4 DEF FromAt
<1> QED
  BY <1>1, <1>2

LEMMA FromDown ==
    ASSUME NEW s \in Seq(Byte), NEW x, NEW y, NEW z \in Byte
    PROVE  \A m \in 0..(Len(s) + 1) :
               \E f \in [((Len(s) + 2) - m)..(Len(s) + 2) -> Seq(Byte)] :
                   \A i \in ((Len(s) + 2) - m)..(Len(s) + 2) : f[i] = FromAt(s, x, y, z, f, i)
<1> DEFINE L == Len(s) + 2
           Down(m) == \E f \in [(L - m)..L -> Seq(Byte)] :
                          \A i \in (L - m)..L : f[i] = FromAt(s, x, y, z, f, i)
           T == {m \in 0..(L - 1) : ~Down(m)}
<1>0. L \in Nat /\ Len(s) \in Nat /\ L = Len(s) + 2
  OBVIOUS
<1>1. SUFFICES ASSUME T # {} PROVE FALSE
  BY <1>0
<1> HIDE DEF L
<1>2. PICK m \in T : \A k \in T : m <= k
  <2>1. T \subseteq Nat
    BY <1>0
  <2> QED
    BY <1>1, <2>1, Least
<1>3. m \in 0..(L - 1) /\ m \in Nat
  BY <1>0
<1>4. CASE m = 0
  <2> DEFINE f == [i \in (L - m)..L |-> <<>>]
  <2>1. f \in [(L - m)..L -> Seq(Byte)]
    OBVIOUS
  <2>2. \A i \in (L - m)..L : i > Len(s)
    BY <1>0, <1>4
  <2>3. \A i \in (L - m)..L : f[i] = FromAt(s, x, y, z, f, i)
    BY <2>2 DEF FromAt
  <2> QED
    BY <2>1, <2>3
<1>5. CASE m # 0
  <2>1. Down(m - 1)
    <3>1. m - 1 \in 0..(L - 1) /\ ~(m <= m - 1)
      BY <1>0, <1>3, <1>5
    <3> HIDE DEF Down
    <3> QED
      BY <1>2, <3>1
  <2> DEFINE i0 == L - m
  <2>2. PICK g \in [(L - (m - 1))..L -> Seq(Byte)] :
            \A i \in (L - (m - 1))..L : g[i] = FromAt(s, x, y, z, g, i)
    BY <2>1
  <2>3. /\ L - (m - 1) = i0 + 1 /\ i0 \in 1..L /\ i0 \in Nat
        /\ i0..L = {i0} \cup ((i0 + 1)..L) /\ L \in (i0 + 1)..L
    BY <1>0, <1>3, <1>5
  <2> DEFINE c == FromAt(s, x, y, z, g, i0)
             f == [i \in i0..L |-> IF i = i0 THEN c ELSE g[i]]
  <2>4. c \in Seq(Byte)
    <3>1. \A j \in (i0 + 1)..L : g[j] \in Seq(Byte)
      BY <2>2, <2>3
    <3> HIDE DEF i0
    <3> QED
      BY <1>0, <2>3, <3>1, FromAtType
  <2>5. f \in [i0..L -> Seq(Byte)]
    <3> HIDE DEF c, i0
    <3> QED
      BY <2>2, <2>3, <2>4
  <2>6. f[i0] = c /\ \A i \in (i0 + 1)..L : f[i] = g[i]
    <3> HIDE DEF c, i0
    <3> QED
      BY <1>0, <2>3
  <2>7. ASSUME NEW h, \A i \in (i0 + 1)..L : h[i] = g[i], NEW i \in i0..L
        PROVE  FromAt(s, x, y, z, h, i) = FromAt(s, x, y, z, g, i)
    <3>1. i <= Len(s) => i + 1 \in (i0 + 1)..L /\ i + 2 \in (i0 + 1)..L
      BY <1>0, <2>3
    <3>2. i <= Len(s) => h[i + 1] = g[i + 1] /\ h[i + 2] = g[i + 2]
      BY <2>7, <3>1
    <3>3. i \in Nat
      BY <2>3
    <3> QED
      BY <1>0, <3>2, <3>3 DEF FromAt
  <2>8. \A i \in i0..L : f[i] = FromAt(s, x, y, z, f, i)
    <3>1. \A i \in i0..L : FromAt(s, x, y, z, f, i) = FromAt(s, x, y, z, g, i)
      <4> HIDE DEF f, i0
      <4> QED
        BY <2>6, <2>7
    <3>2. \A i \in (i0 + 1)..L : g[i] = FromAt(s, x, y, z, g, i)
      BY <2>2, <2>3
    <3>3. \A i \in i0..L : i = i0 \/ i \in (i0 + 1)..L
      BY <2>3
    <3>4. c = FromAt(s, x, y, z, g, i0)
      OBVIOUS
    <3> HIDE DEF f, i0, c
    <3> QED
      BY <2>6, <3>1, <3>2, <3>3, <3>4
  <2>9. Down(m)
    <3> HIDE DEF f
    <3> QED
      BY <2>5, <2>8
  <2> QED
    BY <2>9
<1> QED
  BY <1>4, <1>5

LEMMA FromIs ==
    ASSUME NEW s \in Seq(Byte), NEW x, NEW y, NEW z \in Byte
    PROVE  /\ Replace(s, x, y, z) = From(s, x, y, z)[1]
           /\ \A i \in 1..(Len(s) + 2) :
                  /\ From(s, x, y, z)[i] = FromAt(s, x, y, z, From(s, x, y, z), i)
                  /\ From(s, x, y, z)[i] \in Seq(Byte)
<1> DEFINE L == Len(s) + 2
           Fits(f) == f = [i \in 1..L |-> FromAt(s, x, y, z, f, i)]
           F == From(s, x, y, z)
<1>0. L \in Nat /\ Len(s) \in Nat /\ L = Len(s) + 2 /\ L - (L - 1) = 1 /\ L - 1 \in 0..(Len(s) + 1)
  OBVIOUS
<1>1. \E f : Fits(f)
  <2>1. PICK f \in [1..L -> Seq(Byte)] : \A i \in 1..L : f[i] = FromAt(s, x, y, z, f, i)
    <3>1. \E f \in [((Len(s) + 2) - (L - 1))..(Len(s) + 2) -> Seq(Byte)] :
             \A i \in ((Len(s) + 2) - (L - 1))..(Len(s) + 2) : f[i] = FromAt(s, x, y, z, f, i)
      BY <1>0, FromDown
    <3>2. (Len(s) + 2) - (L - 1) = 1
      BY <1>0
    <3> QED
      BY <3>1, <3>2
  <2>2. Fits(f)
    BY <2>1
  <2> QED
    BY <2>2
<1>2. Fits(F)
  <2>1. F = CHOOSE f : Fits(f)
    BY DEF From
  <2> HIDE DEF Fits, F
  <2> QED
    BY <1>1, <2>1
<1>3. Replace(s, x, y, z) = F[1]
  BY DEF Replace, From, FromAt
<1>4. \A i \in 1..L : F[i] = FromAt(s, x, y, z, F, i)
  <2> HIDE DEF F
  <2> QED
    BY <1>2
<1>5. \A i \in 1..L : F[i] \in Seq(Byte)
  <2> DEFINE T == {m \in 0..(L - 1) : F[L - m] \notin Seq(Byte)}
  <2>1. SUFFICES ASSUME T # {} PROVE FALSE
    <3>1. \A i \in 1..L : L - i \in 0..(L - 1) /\ L - (L - i) = i
      BY <1>0
    <3> HIDE DEF L, F
    <3> QED
      BY <3>1
  <2>2. PICK m \in T : \A k \in T : m <= k
    <3>1. T \subseteq Nat
      BY <1>0
    <3> HIDE DEF T
    <3> QED
      BY <2>1, <3>1, Least
  <2>3. L - m \in 1..L /\ m \in Nat
    BY <1>0
  <2>4. \A j \in ((L - m) + 1)..L : F[j] \in Seq(Byte)
    <3> SUFFICES ASSUME NEW j \in ((L - m) + 1)..L  PROVE F[j] \in Seq(Byte)
      OBVIOUS
    <3>1. L - j \in 0..(L - 1) /\ L - (L - j) = j /\ ~(m <= L - j)
      BY <1>0, <2>3
    <3>2. L - j \notin T
      BY <2>2, <3>1
    <3> HIDE DEF L, F
    <3> QED
      BY <3>1, <3>2
  <2>5. F[L - m] \in Seq(Byte)
    <3> HIDE DEF F
    <3> QED
      BY <1>0, <1>4, <2>3, <2>4, FromAtType
  <2> QED
    BY <2>5
<1> QED
  BY <1>3, <1>4, <1>5

LEMMA ReplaceType ==
    ASSUME NEW s \in Seq(Byte), NEW x, NEW y, NEW z \in Byte
    PROVE  Replace(s, x, y, z) \in Seq(Byte)
<1>1. 1 \in 1..(Len(s) + 2)
  OBVIOUS
<1> QED
  BY <1>1, FromIs

LEMMA UnescapedType == \A s \in Seq(Byte) : Unescaped(s) \in Seq(Byte)
<1>1. "newline" \in Byte /\ "backslash" \in Byte
  BY DEF Byte
<1> QED
  BY <1>1, ReplaceType DEF Unescaped

-----------------------------------------------------------------------------
(***************************************************************************)
(* The types of everything but the bytes.                                  *)
(***************************************************************************)
Types ==
    /\ written \in Seq(Package) /\ Len(written) <= MaxPackages
    /\ wpc \in {"idle", "fill", "spill", "end", "closed"}
    /\ sent <= Len(wbuf)
    /\ kind \in Reads /\ reading \in BOOLEAN
    /\ escape \in BOOLEAN /\ eot \in BOOLEAN
    /\ maxlen \in Nat /\ overrun \in BOOLEAN
    /\ got \in Seq(Seq(Byte))

LEMMA TypesInit == Init => Types
<1> SUFFICES ASSUME Init  PROVE Types
  OBVIOUS
<1>1. written = <<>> /\ wbuf = <<>> /\ got = <<>> /\ sent = 0
  BY DEF Init
<1>2. written \in Seq(Package) /\ got \in Seq(Seq(Byte)) /\ Len(written) = 0 /\ Len(wbuf) = 0
  BY <1>1
<1>3. Len(written) <= MaxPackages /\ sent <= Len(wbuf)
  BY <1>1, <1>2, BoundsAssumption
<1>4. /\ wpc \in {"idle", "fill", "spill", "end", "closed"}
      /\ kind \in Reads /\ reading \in BOOLEAN
      /\ escape \in BOOLEAN /\ eot \in BOOLEAN /\ overrun \in BOOLEAN
  BY Zenon DEF Init
<1>5. maxlen \in Nat
  BY DEF Init
<1> QED
  BY <1>2, <1>3, <1>4, <1>5, Zenon DEF Types

LEMMA TypesWrite ==
    ASSUME Room, Types, (\E p \in Package : StartWrite(p)) \/ Write \/ Close
    PROVE  Types'
<1>1. UNCHANGED <<kind, maxlen, overrun, reading, escape, eot, got>>
  BY DEF StartWrite, Write, Close, Spill, Fill, EndOfPackage, Send, reader
<1>2. wbuf \in Seq(Byte) /\ sent \in Nat /\ sent <= Len(wbuf)
  BY DEF Room, WriterRoom, Types
<1>3. ASSUME NEW p \in Package, StartWrite(p)
      PROVE  written' \in Seq(Package) /\ Len(written') <= MaxPackages
  <2>1. written \in Seq(Package) /\ Len(written) < MaxPackages /\ written' = Append(written, p)
    BY <1>3 DEF StartWrite, Types
  <2> QED
    BY <2>1, AppendProperties, BoundsAssumption
<1>4. written' \in Seq(Package) /\ Len(written') <= MaxPackages
  <2>1. CASE Write \/ Close
    BY <2>1 DEF Write, Close, Spill, Fill, EndOfPackage, Send, Types
  <2> QED
    BY <1>3, <2>1
<1>5. wpc' \in {"idle", "fill", "spill", "end", "closed"}
  BY DEF StartWrite, Write, Close, Spill, Fill, EndOfPackage, Send, Types
<1>6. sent' <= Len(wbuf')
  <2>1. CASE Fill
    <3>1. todo \in Seq(Byte) /\ todo # <<>> /\ wbuf' = wbuf \o Escaped(Head(todo)) /\ sent' = sent
      BY <2>1 DEF Fill, Room, WriterRoom
    <3>2. Head(todo) \in Byte
      BY <3>1, HeadTailProperties
    <3>3. Escaped(Head(todo)) \in Seq(Byte)
      BY <3>2, EscapedType
    <3>4. Len(wbuf') = Len(wbuf) + Len(Escaped(Head(todo)))
      BY <1>2, <3>1, <3>3, ConcatProperties
    <3> QED
      BY <1>2, <3>1, <3>3, <3>4, LenProperties
  <2>2. CASE EndOfPackage
    <3>1. wbuf' = Append(wbuf, "newline") /\ sent' = 0
      BY <2>2 DEF EndOfPackage
    <3> QED
      BY <1>2, <3>1, AppendProperties, LenProperties DEF Byte
  <2>3. CASE Send
    <3>1. PICK n \in 1..(Len(wbuf) - sent) :
             IF sent + n = Len(wbuf) THEN wbuf' = <<>> /\ sent' = 0
             ELSE sent' = sent + n /\ wbuf' = wbuf
      BY <2>3 DEF Send
    <3>2. CASE sent + n = Len(wbuf)
      BY <3>1, <3>2
    <3>3. CASE sent + n # Len(wbuf)
      BY <1>2, <3>1, <3>3, LenProperties
    <3> QED
      BY <3>2, <3>3
  <2>4. CASE Spill
    BY <1>2, <2>4, LenProperties DEF Spill
  <2>5. CASE Close \/ \E p \in Package : StartWrite(p)
    BY <1>2, <2>5 DEF Close, StartWrite
  <2> QED
    BY <2>1, <2>2, <2>3, <2>4, <2>5 DEF Write
<1> QED
  BY <1>1, <1>4, <1>5, <1>6 DEF Types

LEMMA TypesRead == ASSUME Room, Types, Read PROVE Types'
<1>0. /\ wire \in Seq(Byte) /\ b \in Seq(Byte) /\ got \in Seq(Seq(Byte))
      /\ reading \in BOOLEAN /\ escape \in BOOLEAN /\ eot \in BOOLEAN /\ kind \in Reads
      /\ maxlen \in Nat /\ overrun \in BOOLEAN
  BY DEF Room, ReaderRoom, Types
<1>1. UNCHANGED <<written, wpc, sent, wbuf, kind>>
  BY DEF Read, StartRead, Recv, RecvEnd, EscapedByte, PlainByte, Newline, Backslash, TakeByte,
         StringFull, FileFull, PyRead, Overrun, ReadPastEnd, writer, call
<1>2. eot' \in BOOLEAN /\ reading' \in BOOLEAN /\ escape' \in BOOLEAN
  BY <1>0, Zenon DEF Read, StartRead, Recv, RecvEnd, EscapedByte, PlainByte, Newline, Backslash,
         TakeByte, StringFull, FileFull, PyRead, Overrun, ReadPastEnd, Returns, EscapeKept, call
<1>3. got' = got \/ \E p \in Seq(Byte) : got' = Append(got, p)
  <2>1. CASE PyRead
    <3>1. PICK i \in 1..Len(wire) : got' = Append(got, Unescaped(SubSeq(wire, 1, i - 1)))
      BY <2>1 DEF PyRead, Returns
    <3>2. SubSeq(wire, 1, i - 1) \in Seq(Byte)
      <4>1. i - 1 \in 0..Len(wire)
        BY <1>0, LenProperties
      <4> QED
        BY <1>0, <4>1, SubSeqProperties
    <3> QED
      BY <3>1, <3>2, UnescapedType
  <2>2. CASE Newline \/ FileFull
    BY <1>0, <2>2 DEF Newline, FileFull, Returns
  <2>3. CASE StartRead \/ Recv \/ RecvEnd \/ Backslash \/ StringFull \/ Overrun \/ ReadPastEnd
             \/ \E c \in Byte : EscapedByte(c) \/ PlainByte(c)
    BY <2>3 DEF StartRead, Recv, RecvEnd, EscapedByte, PlainByte, Backslash, StringFull,
                Overrun, ReadPastEnd
  <2> QED
    BY <2>1, <2>2, <2>3 DEF Read
<1>4. got' \in Seq(Seq(Byte))
  <2>1. CASE got' = got
    BY <1>0, <2>1
  <2>2. ASSUME NEW p \in Seq(Byte), got' = Append(got, p)  PROVE got' \in Seq(Seq(Byte))
    BY <1>0, <2>2, AppendProperties
  <2> QED
    BY <1>3, <2>1, <2>2
<1>5. maxlen' \in Nat /\ overrun' \in BOOLEAN
  <2>1. maxlen' \in MaxLens \/ maxlen' = maxlen
    BY DEF Read, StartRead, Recv, RecvEnd, EscapedByte, PlainByte, Newline, Backslash, TakeByte,
           StringFull, FileFull, PyRead, Overrun, ReadPastEnd, call
  <2>2. overrun' = TRUE \/ overrun' = overrun
    BY DEF Read, StartRead, Recv, RecvEnd, EscapedByte, PlainByte, Newline, Backslash, TakeByte,
           StringFull, FileFull, PyRead, Overrun, ReadPastEnd, call
  <2> QED
    BY <1>0, <2>1, <2>2, MaxLensAssumption
<1> QED
  BY <1>0, <1>1, <1>2, <1>4, <1>5 DEF Types

LEMMA TypeInvariance == Spec => [](Room /\ Types)
<1>1. Room /\ Types /\ [Next]_vars => Types'
  <2>1. ASSUME Types, UNCHANGED vars  PROVE Types'
    BY <2>1 DEF Types, vars, writer, reader
  <2> QED
    BY <2>1, TypesWrite, TypesRead DEF Next
<1> QED
  BY <1>1, RoomInit, TypesInit, NextKeepsRoom, PTL DEF Spec

(***************************************************************************)
(* Type correctness of both ends, for buffers above two bytes and packages *)
(* and pieces of any size: an escape and the newline at the end always fit *)
(* into write_buff, what recv gives fits into read_buff, and whatever      *)
(* arrives is read as bytes (PackageSocket::write, read; the web           *)
(* interface's PackageSocket.read).                                        *)
(***************************************************************************)
THEOREM TypeCorrect == Spec => []TypeOK
<1>1. Room /\ Types => TypeOK
  <2> SUFFICES ASSUME Room, Types  PROVE TypeOK
    OBVIOUS
  <2>1. BuffersHold
    BY DEF Room, WriterRoom, ReaderRoom, BuffersHold
  <2>2. sent \in 0..BufSize
    BY BoundsAssumption, LenProperties DEF Room, WriterRoom, Types
  <2> QED
    BY <2>1, <2>2 DEF Room, WriterRoom, ReaderRoom, Types, TypeOK
<1> QED
  BY <1>1, TypeInvariance, PTL

-----------------------------------------------------------------------------
(***************************************************************************)
(* Paths through a sequence: the bytes of s take a machine, whose steps    *)
(* are R, from q to z.                                                     *)
(***************************************************************************)
Path(R, s, q, z) ==
    \E f : /\ f[0] = q /\ f[Len(s)] = z
           /\ \A k \in 1..Len(s) : <<f[k - 1], s[k], f[k]>> \in R

LEMMA PathEmpty ==
    \A R, q, z : Path(R, <<>>, q, z) <=> q = z
<1> TAKE R, q, z
<1>1. ASSUME q = z  PROVE Path(R, <<>>, q, z)
  <2> DEFINE f == [k \in {0} |-> q]
  <2>1. f[0] = q
    OBVIOUS
  <2> HIDE DEF f
  <2> QED
    BY <1>1, <2>1 DEF Path
<1> QED
  BY <1>1 DEF Path

LEMMA PathJoin ==
    ASSUME NEW B, NEW s \in Seq(B), NEW t \in Seq(B), NEW R, NEW q, NEW m, NEW z,
           Path(R, s, q, m), Path(R, t, m, z)
    PROVE  Path(R, s \o t, q, z)
<1>1. PICK f : /\ f[0] = q /\ f[Len(s)] = m
               /\ \A k \in 1..Len(s) : <<f[k - 1], s[k], f[k]>> \in R
  BY DEF Path
<1>2. PICK g : /\ g[0] = m /\ g[Len(t)] = z
               /\ \A k \in 1..Len(t) : <<g[k - 1], t[k], g[k]>> \in R
  BY DEF Path
<1> DEFINE u == s \o t
           h == [k \in 0..(Len(s) + Len(t)) |-> IF k <= Len(s) THEN f[k] ELSE g[k - Len(s)]]
<1>3. /\ Len(s) \in Nat /\ Len(t) \in Nat /\ Len(u) = Len(s) + Len(t)
      /\ \A k \in 1..Len(s) : u[k] = s[k]
      /\ \A k \in 1..Len(t) : u[k + Len(s)] = t[k]
  BY ConcatProperties
<1>4. /\ \A k \in 0..Len(s) : h[k] = f[k]
      /\ \A k \in 0..Len(t) : h[k + Len(s)] = g[k]
  <2>1. \A k \in 0..Len(s) : h[k] = f[k]
    BY <1>3
  <2>2. ASSUME NEW k \in 0..Len(t)  PROVE h[k + Len(s)] = g[k]
    <3>1. CASE k = 0
      BY <1>1, <1>2, <1>3, <3>1
    <3>2. CASE k # 0
      BY <1>3, <3>2
    <3> QED
      BY <3>1, <3>2
  <2> QED
    BY <2>1, <2>2
<1> HIDE DEF u, h
<1>5. ASSUME NEW k \in 1..Len(u)  PROVE <<h[k - 1], u[k], h[k]>> \in R
  <2>1. CASE k <= Len(s)
    <3>1. k \in 1..Len(s) /\ k \in 0..Len(s) /\ k - 1 \in 0..Len(s)
      BY <1>3, <2>1
    <3>2. h[k - 1] = f[k - 1] /\ h[k] = f[k] /\ u[k] = s[k]
      BY <1>3, <1>4, <3>1
    <3> QED
      BY <1>1, <3>1, <3>2
  <2>2. CASE ~(k <= Len(s))
    <3>1. PICK j \in 1..Len(t) : k = j + Len(s) /\ k - 1 = (j - 1) + Len(s)
      <4>1. k - Len(s) \in 1..Len(t) /\ k = (k - Len(s)) + Len(s)
            /\ k - 1 = ((k - Len(s)) - 1) + Len(s)
        BY <1>3, <2>2
      <4> QED
        BY <4>1
    <3>2. j \in 0..Len(t) /\ j - 1 \in 0..Len(t)
      BY <1>3
    <3>3. h[k - 1] = g[j - 1] /\ h[k] = g[j] /\ u[k] = t[j]
      BY <1>3, <1>4, <3>1, <3>2
    <3> QED
      BY <1>2, <3>3
  <2> QED
    BY <2>1, <2>2
<1>6. h[0] = q /\ h[Len(u)] = z
  <2>1. 0 \in 0..Len(s) /\ Len(t) \in 0..Len(t) /\ Len(u) = Len(t) + Len(s)
    BY <1>3
  <2> QED
    BY <1>1, <1>2, <1>4, <2>1
<1>7. Path(R, u, q, z)
  BY <1>5, <1>6 DEF Path
<1> QED
  BY <1>7 DEF u

LEMMA PathCut ==
    ASSUME NEW B, NEW s \in Seq(B), NEW n \in 0..Len(s), NEW R, NEW q, NEW z,
           Path(R, s, q, z)
    PROVE  \E m : /\ Path(R, SubSeq(s, 1, n), q, m)
                  /\ Path(R, SubSeq(s, n + 1, Len(s)), m, z)
<1>1. PICK f : /\ f[0] = q /\ f[Len(s)] = z
               /\ \A k \in 1..Len(s) : <<f[k - 1], s[k], f[k]>> \in R
  BY DEF Path
<1> DEFINE t == SubSeq(s, 1, n)
           u == SubSeq(s, n + 1, Len(s))
           g == [k \in 0..(Len(s) - n) |-> f[k + n]]
<1>2. /\ Len(s) \in Nat /\ n \in Nat /\ Len(t) = n /\ Len(u) = Len(s) - n
      /\ \A k \in 1..n : t[k] = s[k]
      /\ \A k \in 1..(Len(s) - n) : u[k] = s[k + n]
  BY SubSeqProperties
<1> HIDE DEF t, u
<1>3. Path(R, t, q, f[n])
  <2>1. \A k \in 1..Len(t) : <<f[k - 1], t[k], f[k]>> \in R
    BY <1>1, <1>2
  <2> QED
    BY <1>1, <1>2, <2>1 DEF Path
<1>4. Path(R, u, f[n], z)
  <2>0. \A k \in 0..Len(u) : g[k] = f[k + n]
    BY <1>2
  <2> HIDE DEF g
  <2>1. ASSUME NEW k \in 1..Len(u)  PROVE <<g[k - 1], u[k], g[k]>> \in R
    <3>1. /\ k \in 0..Len(u) /\ k - 1 \in 0..Len(u) /\ k + n \in 1..Len(s)
          /\ (k - 1) + n = (k + n) - 1
      BY <1>2
    <3>2. <<f[(k + n) - 1], s[k + n], f[k + n]>> \in R
      BY <1>1, <3>1
    <3>3. g[k - 1] = f[(k + n) - 1] /\ g[k] = f[k + n] /\ u[k] = s[k + n]
      BY <1>2, <2>0, <3>1
    <3> QED
      BY <3>2, <3>3
  <2>2. g[0] = f[n] /\ g[Len(u)] = z
    <3>1. 0 \in 0..Len(u) /\ Len(u) \in 0..Len(u) /\ 0 + n = n /\ Len(u) + n = Len(s)
      BY <1>2
    <3> QED
      BY <1>1, <2>0, <3>1
  <2> QED
    BY <2>1, <2>2 DEF Path
<1> QED
  BY <1>3, <1>4 DEF t, u

LEMMA PathHead ==
    ASSUME NEW B, NEW s \in Seq(B), s # <<>>, NEW R, NEW q, NEW z, Path(R, s, q, z)
    PROVE  \E m : <<q, Head(s), m>> \in R /\ Path(R, Tail(s), m, z)
<1>1. PICK f : /\ f[0] = q /\ f[Len(s)] = z
               /\ \A k \in 1..Len(s) : <<f[k - 1], s[k], f[k]>> \in R
  BY DEF Path
<1> DEFINE t == Tail(s)
           g == [k \in 0..(Len(s) - 1) |-> f[k + 1]]
<1>2. /\ Len(s) \in Nat \ {0} /\ Len(t) = Len(s) - 1 /\ Head(s) = s[1]
      /\ \A k \in 1..Len(t) : t[k] = s[k + 1]
  BY HeadTailProperties, EmptySeq
<1> HIDE DEF t
<1>3. <<q, Head(s), f[1]>> \in R
  BY <1>1, <1>2
<1>4. Path(R, t, f[1], z)
  <2>0. \A k \in 0..Len(t) : g[k] = f[k + 1]
    BY <1>2
  <2> HIDE DEF g
  <2>1. ASSUME NEW k \in 1..Len(t)  PROVE <<g[k - 1], t[k], g[k]>> \in R
    <3>1. /\ k \in 0..Len(t) /\ k - 1 \in 0..Len(t) /\ k + 1 \in 1..Len(s)
          /\ (k - 1) + 1 = (k + 1) - 1
      BY <1>2
    <3>2. <<f[(k + 1) - 1], s[k + 1], f[k + 1]>> \in R
      BY <1>1, <3>1
    <3>3. g[k - 1] = f[(k + 1) - 1] /\ g[k] = f[k + 1] /\ t[k] = s[k + 1]
      BY <1>2, <2>0, <3>1
    <3> QED
      BY <3>2, <3>3
  <2>2. g[0] = f[1] /\ g[Len(t)] = z
    <3>1. 0 \in 0..Len(t) /\ Len(t) \in 0..Len(t) /\ 0 + 1 = 1 /\ Len(t) + 1 = Len(s)
      BY <1>2
    <3> QED
      BY <1>1, <2>0, <3>1
  <2> QED
    BY <2>1, <2>2 DEF Path
<1> QED
  BY <1>3, <1>4 DEF t

LEMMA PathOne ==
    ASSUME NEW R, NEW q, NEW c, NEW z, <<q, c, z>> \in R
    PROVE  Path(R, <<c>>, q, z)
<1> DEFINE f == [k \in 0..1 |-> IF k = 0 THEN q ELSE z]
<1>1. f[0] = q /\ f[1] = z
  OBVIOUS
<1> HIDE DEF f
<1>2. Len(<<c>>) = 1 /\ <<c>>[1] = c
  OBVIOUS
<1>3. \A k \in 1..1 : <<f[k - 1], <<c>>[k], f[k]>> \in R
  BY <1>1, <1>2
<1> QED
  BY <1>1, <1>2, <1>3 DEF Path

LEMMA PathMore ==
    ASSUME NEW R, NEW S, R \subseteq S, NEW s, NEW q, NEW z, Path(R, s, q, z)
    PROVE  Path(S, s, q, z)
  BY DEF Path

(***************************************************************************)
(* A place in the packages: pos bytes of package pkg are behind it, and a  *)
(* backslash that escapes the next one.                                    *)
(***************************************************************************)
Place == [pkg : Nat \ {0}, pos : Nat, esc : BOOLEAN]

Start(k) == [pkg |-> k, pos |-> 0, esc |-> FALSE]

Original(c) == IF c = "n" THEN "newline" ELSE c

Moves(w, q, c, r) ==
    /\ q.pkg <= Len(w)
    /\ IF c = "newline"
       THEN ~q.esc /\ q.pos = Len(w[q.pkg]) /\ r = Start(q.pkg + 1)
       ELSE /\ q.pos < Len(w[q.pkg])
            /\ IF c = "backslash" /\ ~q.esc
               THEN /\ w[q.pkg][q.pos + 1] \in {"newline", "backslash"}
                    /\ r = [pkg |-> q.pkg, pos |-> q.pos, esc |-> TRUE]
               ELSE /\ w[q.pkg][q.pos + 1] = IF q.esc THEN Original(c) ELSE c
                    /\ q.esc => c \in {"n", "backslash"}
                    /\ r = [pkg |-> q.pkg, pos |-> q.pos + 1, esc |-> FALSE]

Move(w) == {x \in Place \X Byte \X Place : Moves(w, x[1], x[2], x[3])}

(***************************************************************************)
(* The writer: what it has put into the buffer, and what is left to do.    *)
(***************************************************************************)
Last1 == written[Len(written)]

There ==
    IF wpc \in {"fill", "spill"}
    THEN [pkg |-> Len(written), pos |-> Len(Last1) - Len(todo), esc |-> FALSE]
    ELSE Start(Len(written) + 1)

Writing ==
    /\ sent = 0
    /\ wpc \in {"fill", "spill"} =>
          /\ written # <<>> /\ Len(todo) <= Len(Last1)
          /\ \A j \in 1..Len(todo) : todo[j] = Last1[(Len(Last1) - Len(todo)) + j]

(***************************************************************************)
(* The bytes on their way lead from the reader's place to the writer's.    *)
(***************************************************************************)
OnTheWay(q) ==
    \E m, n : /\ Path(Move(written), rbuf, q, m)
              /\ Path(Move(written), wire, m, n)
              /\ wpc # "closed" => Path(Move(written), wbuf, n, There)

LEMMA WrittenType ==
    ASSUME NEW w \in Seq(Package), NEW k \in 1..Len(w)
    PROVE  w[k] \in Seq(Byte)
  BY PackageAssumption, ElementOfSeq

LEMMA MovesKept ==
    ASSUME NEW w \in Seq(Package), NEW p \in Package
    PROVE  Move(w) \subseteq Move(Append(w, p))
<1> DEFINE v == Append(w, p)
<1>1. /\ Len(w) \in Nat /\ Len(v) = Len(w) + 1
      /\ \A k \in 1..Len(w) : v[k] = w[k]
  BY AppendProperties
<1> HIDE DEF v
<1>2. ASSUME NEW q \in Place, NEW c, NEW r, Moves(w, q, c, r)  PROVE Moves(v, q, c, r)
  <2>1. q.pkg \in 1..Len(w)
    BY <1>1, <1>2 DEF Moves, Place
  <2>2. v[q.pkg] = w[q.pkg] /\ q.pkg <= Len(v)
    BY <1>1, <2>1
  <2> QED
    BY <1>2, <2>2 DEF Moves
<1>3. ASSUME NEW x \in Move(w)  PROVE x \in Move(v)
  <2>1. x[1] \in Place /\ x \in Place \X Byte \X Place /\ Moves(w, x[1], x[2], x[3])
    BY DEF Move
  <2> QED
    BY <1>2, <2>1 DEF Move
<1> QED
  BY <1>3 DEF v

(***************************************************************************)
(* A byte of a package, escaped if it has to be, is one further on.        *)
(***************************************************************************)
LEMMA EscapedMoves ==
    ASSUME NEW w \in Seq(Package), NEW k \in 1..Len(w), NEW n \in Nat, n < Len(w[k])
    PROVE  Path(Move(w), Escaped(w[k][n + 1]), [pkg |-> k, pos |-> n, esc |-> FALSE],
                [pkg |-> k, pos |-> n + 1, esc |-> FALSE])
<1> DEFINE c == w[k][n + 1]
           q == [pkg |-> k, pos |-> n, esc |-> FALSE]
           m == [pkg |-> k, pos |-> n, esc |-> TRUE]
           z == [pkg |-> k, pos |-> n + 1, esc |-> FALSE]
<1>1. w[k] \in Seq(Byte) /\ n + 1 \in 1..Len(w[k]) /\ Len(w) \in Nat
  <2>1. w[k] \in Seq(Byte)
    BY WrittenType
  <2> QED
    BY <2>1, LenProperties
<1>2. c \in Byte
  BY <1>1, ElementOfSeq
<1>3. q \in Place /\ m \in Place /\ z \in Place /\ k <= Len(w)
  BY <1>1 DEF Place
<1>4. CASE c \in {"newline", "backslash"}
  <2> DEFINE d == IF c = "newline" THEN "n" ELSE "backslash"
  <2>1. Escaped(c) = <<"backslash">> \o <<d>>
    BY <1>4 DEF Escaped
  <2>2. <<q, "backslash", m>> \in Move(w)
    BY <1>1, <1>3, <1>4 DEF Move, Moves, Byte
  <2>3. <<m, d, z>> \in Move(w)
    <3>1. d \in Byte /\ d # "newline" /\ d \in {"n", "backslash"} /\ Original(d) = c
      BY <1>4 DEF Byte, Original
    <3> HIDE DEF d
    <3>2. Moves(w, m, d, z)
      BY <1>1, <1>3, <3>1 DEF Moves
    <3> QED
      BY <1>3, <3>1, <3>2 DEF Move
  <2>4. <<"backslash">> \in Seq(Byte) /\ <<d>> \in Seq(Byte)
    BY DEF Byte
  <2>5. Path(Move(w), <<"backslash">>, q, m)
    BY <2>2, PathOne
  <2>6. Path(Move(w), <<d>>, m, z)
    <3> HIDE DEF d
    <3> QED
      BY <2>3, PathOne
  <2> HIDE DEF d, q, m, z
  <2>7. Path(Move(w), <<"backslash">> \o <<d>>, q, z)
    BY <2>4, <2>5, <2>6, PathJoin
  <2> QED
    BY <2>1, <2>7 DEF q, z
<1>5. CASE c \notin {"newline", "backslash"}
  <2>1. Escaped(c) = <<c>>
    BY <1>5 DEF Escaped
  <2>2. <<q, c, z>> \in Move(w)
    <3>1. Moves(w, q, c, z)
      BY <1>1, <1>3, <1>5 DEF Moves
    <3> QED
      BY <1>2, <1>3, <3>1 DEF Move
  <2> QED
    BY <2>1, <2>2, PathOne
<1> QED
  BY <1>4, <1>5

-----------------------------------------------------------------------------
(***************************************************************************)
(* A package with every backslash twice: what the web interface has after  *)
(* the first of its replacements.                                          *)
(***************************************************************************)
Doubling(p, q, c, r) ==
    /\ q.pos < Len(p) /\ c = p[q.pos + 1]
    /\ c # "backslash" => ~q.half
    /\ r = IF c = "backslash" /\ ~q.half THEN [pos |-> q.pos, half |-> TRUE]
           ELSE [pos |-> q.pos + 1, half |-> FALSE]

Half == [pos : Nat, half : BOOLEAN]

Double(p) == {x \in Half \X Byte \X Half : Doubling(p, x[1], x[2], x[3])}

LEMMA FirstPass ==
    ASSUME NEW w \in Seq(Package), NEW k \in 1..Len(w), Plain(w[k]),
           NEW s \in Seq(Byte), NEW f,
           f[Len(s)] = [pkg |-> k, pos |-> Len(w[k]), esc |-> FALSE],
           \A i \in 1..Len(s) : s[i] # "newline" /\ <<f[i - 1], s[i], f[i]>> \in Move(w)
    PROVE  \A i \in 1..(Len(s) + 1) :
               f[i - 1].pkg = k /\ (f[i - 1].esc => i <= Len(s) /\ s[i] = "backslash") =>
                   Path(Double(w[k]), From(s, "backslash", "n", "newline")[i],
                        [pos |-> f[i - 1].pos, half |-> f[i - 1].esc],
                        [pos |-> Len(w[k]), half |-> FALSE])
<1> DEFINE p == w[k]
           F == From(s, "backslash", "n", "newline")
           z == [pos |-> Len(p), half |-> FALSE]
           At(i) == [pos |-> f[i - 1].pos, half |-> f[i - 1].esc]
           Fits(i) == f[i - 1].pkg = k /\ (f[i - 1].esc => i <= Len(s) /\ s[i] = "backslash")
           Claim(i) == Fits(i) => Path(Double(p), F[i], At(i), z)
           T == {i \in 1..(Len(s) + 1) : ~Claim(i)}
<1>0. /\ Len(s) \in Nat /\ p \in Seq(Byte) /\ Len(p) \in Nat
      /\ "backslash" \in Byte /\ "n" \in Byte /\ "newline" \in Byte
  BY WrittenType, LenProperties DEF Byte
<1>1. SUFFICES ASSUME T # {} PROVE FALSE
  OBVIOUS
<1>2. PICK i \in T : \A j \in T : j <= i
  <2>1. T \subseteq 1..(Len(s) + 1) /\ Len(s) + 1 \in Nat
    BY <1>0
  <2> HIDE DEF T
  <2> QED
    BY <1>1, <2>1, Greatest
<1>3. i \in 1..(Len(s) + 1) /\ Fits(i) /\ ~Path(Double(p), F[i], At(i), z)
  OBVIOUS
<1>4. \A j \in (i + 1)..(Len(s) + 1) : Claim(j)
  <2> SUFFICES ASSUME NEW j \in (i + 1)..(Len(s) + 1)  PROVE j \notin T /\ j \in 1..(Len(s) + 1)
    OBVIOUS
  <2>1. j \in 1..(Len(s) + 1) /\ ~(j <= i)
    BY <1>0, <1>3
  <2> HIDE DEF T
  <2> QED
    BY <1>2, <2>1
<1>5. \A j \in 1..(Len(s) + 1) :
          /\ F[j] = FromAt(s, "backslash", "n", "newline", F, j)
          /\ F[j] \in Seq(Byte)
  <2>1. \A j \in 1..(Len(s) + 1) : j \in 1..(Len(s) + 2)
    BY <1>0
  <2> QED
    BY <1>0, <2>1, FromIs
<1>6. \A j \in 1..Len(s) : /\ f[j - 1] \in Place /\ f[j] \in Place /\ s[j] \in Byte
                           /\ Moves(w, f[j - 1], s[j], f[j]) /\ s[j] # "newline"
  BY DEF Move
<1> HIDE DEF Claim, T, F
<1>7. ASSUME NEW j \in 1..(Len(s) + 1), Claim(j), Fits(j), NEW c \in Byte, F[i] = <<c>> \o F[j],
             <<At(i), c, At(j)>> \in Double(p)
      PROVE  FALSE
  <2>1. Path(Double(p), F[j], At(j), z)
    BY <1>7 DEF Claim
  <2>2. Path(Double(p), <<c>>, At(i), At(j))
    <3> HIDE DEF At
    <3> QED
      BY <1>7, PathOne
  <2>3. F[j] \in Seq(Byte) /\ <<c>> \in Seq(Byte)
    BY <1>5, <1>7
  <2> HIDE DEF At, z
  <2>4. Path(Double(p), <<c>> \o F[j], At(i), z)
    BY <2>1, <2>2, <2>3, PathJoin
  <2> QED
    BY <1>3, <1>7, <2>4 DEF At, z
<1>10. ASSUME NEW j, NEW m \in Nat, NEW h \in BOOLEAN,
              f[j - 1] = [pkg |-> k, pos |-> m, esc |-> h],
              h => j <= Len(s) /\ s[j] = "backslash"
       PROVE  At(j) = [pos |-> m, half |-> h] /\ Fits(j) /\ At(j) \in Half
  <2>1. f[j - 1].pkg = k /\ f[j - 1].pos = m /\ f[j - 1].esc = h
    BY <1>10
  <2>2. At(j) = [pos |-> m, half |-> h]
    BY <2>1
  <2>3. At(j) \in Half
    <3> HIDE DEF At
    <3> QED
      BY <2>2 DEF Half
  <2>4. Fits(j)
    BY <1>10, <2>1
  <2> QED
    BY <2>2, <2>3, <2>4
<1>8. CASE i = Len(s) + 1
  <2>1. i - 1 = Len(s) /\ i > Len(s)
    BY <1>0, <1>8
  <2>2. F[i] = <<>>
    BY <1>3, <1>5, <2>1 DEF FromAt
  <2>3. At(i) = z
    BY <1>0, <1>10, <2>1
  <2> QED
    BY <1>3, <2>2, <2>3, PathEmpty
<1>9. CASE i # Len(s) + 1
  <2>1. /\ i \in 1..Len(s) /\ i + 1 \in (i + 1)..(Len(s) + 1) /\ i + 1 \in 1..(Len(s) + 1)
        /\ (i + 1) - 1 = i /\ ~(i > Len(s)) /\ i \in Nat
    BY <1>0, <1>3, <1>9
  <2> DEFINE n == f[i - 1].pos
             c == s[i]
  <2>2. /\ f[i - 1] \in Place /\ f[i] \in Place /\ c \in Byte /\ c # "newline"
        /\ Moves(w, f[i - 1], c, f[i]) /\ f[i - 1].pkg = k
    BY <1>3, <1>6, <2>1
  <2>3. n \in Nat /\ f[i - 1].esc \in BOOLEAN /\ n < Len(p)
    BY <2>2 DEF Place, Moves
  <2>4. F[i] = FromAt(s, "backslash", "n", "newline", F, i) /\ Claim(i + 1)
    BY <1>4, <1>5, <2>1
  <2>5. At(i) = [pos |-> n, half |-> f[i - 1].esc] /\ At(i) \in Half
    BY <2>3 DEF Half
  <2>7. CASE ~f[i - 1].esc /\ c # "backslash"
    <3>1. f[i] = [pkg |-> k, pos |-> n + 1, esc |-> FALSE] /\ p[n + 1] = c
      BY <2>2, <2>7 DEF Moves
    <3>2. F[i] = <<c>> \o F[i + 1]
      BY <2>1, <2>4, <2>7 DEF FromAt
    <3>3. At(i + 1) = [pos |-> n + 1, half |-> FALSE] /\ Fits(i + 1) /\ At(i + 1) \in Half
      <4>1. f[(i + 1) - 1] = [pkg |-> k, pos |-> n + 1, esc |-> FALSE] /\ n + 1 \in Nat
        BY <2>1, <2>3, <3>1
      <4> HIDE DEF At, n
      <4> QED
        BY <1>10, <4>1
    <3>4. <<At(i), c, At(i + 1)>> \in Double(p)
      BY <2>2, <2>3, <2>5, <2>7, <3>1, <3>3 DEF Double, Doubling
    <3> QED
      BY <1>7, <2>1, <2>2, <2>4, <3>2, <3>3, <3>4
  <2>8. CASE ~f[i - 1].esc /\ c = "backslash"
    <3>1. f[i] = [pkg |-> k, pos |-> n, esc |-> TRUE]
      BY <2>2, <2>8 DEF Moves
    <3>2. i < Len(s)
      BY <1>0, <2>1, <3>1
    <3>3. /\ i + 1 \in 1..Len(s) /\ i + 2 \in (i + 1)..(Len(s) + 1) /\ i + 2 \in 1..(Len(s) + 1)
          /\ (i + 2) - 1 = i + 1
      BY <1>0, <2>1, <3>2
    <3>4. /\ s[i + 1] \in Byte /\ s[i + 1] # "newline" /\ Moves(w, f[i], s[i + 1], f[i + 1])
      BY <1>6, <2>1, <3>3
    <3>5. /\ s[i + 1] \in {"n", "backslash"} /\ p[n + 1] = Original(s[i + 1])
          /\ f[i + 1] = [pkg |-> k, pos |-> n + 1, esc |-> FALSE]
      BY <3>1, <3>4 DEF Moves
    <3>6. CASE s[i + 1] = "n"
      <4>1. F[i] = <<"newline">> \o F[i + 2]
        BY <2>1, <2>4, <2>8, <3>2, <3>6 DEF FromAt
      <4>2. At(i + 2) = [pos |-> n + 1, half |-> FALSE] /\ Fits(i + 2) /\ At(i + 2) \in Half
        <5>1. f[(i + 2) - 1] = [pkg |-> k, pos |-> n + 1, esc |-> FALSE] /\ n + 1 \in Nat
          BY <2>3, <3>3, <3>5
        <5> HIDE DEF At, n
        <5> QED
          BY <1>10, <5>1
      <4>3. p[n + 1] = "newline"
        BY <3>5, <3>6 DEF Original
      <4>4. <<At(i), "newline", At(i + 2)>> \in Double(p)
        BY <1>0, <2>3, <2>5, <2>8, <4>2, <4>3 DEF Double, Doubling
      <4>5. Claim(i + 2)
        BY <1>4, <3>3
      <4> QED
        BY <1>0, <1>7, <3>3, <4>1, <4>2, <4>4, <4>5
    <3>7. CASE s[i + 1] = "backslash"
      <4>1. F[i] = <<"backslash">> \o F[i + 1]
        BY <2>1, <2>4, <2>8, <3>7 DEF FromAt
      <4>2. At(i + 1) = [pos |-> n, half |-> TRUE] /\ Fits(i + 1) /\ At(i + 1) \in Half
        <5>1. i + 1 <= Len(s)
          BY <1>0, <3>3
        <5> QED
          BY <1>10, <2>1, <2>3, <3>1, <3>7, <5>1
      <4>3. p[n + 1] = "backslash"
        BY <3>5, <3>7 DEF Original
      <4>4. <<At(i), "backslash", At(i + 1)>> \in Double(p)
        BY <1>0, <2>3, <2>5, <2>8, <4>2, <4>3 DEF Double, Doubling
      <4> QED
        BY <1>0, <1>7, <2>1, <2>4, <4>1, <4>2, <4>4
    <3> QED
      BY <3>5, <3>6, <3>7
  <2>9. CASE f[i - 1].esc
    <3>1. c = "backslash"
      BY <1>3, <2>9
    <3>2. f[i] = [pkg |-> k, pos |-> n + 1, esc |-> FALSE] /\ p[n + 1] = "backslash"
      BY <2>2, <2>9, <3>1 DEF Moves, Original
    <3>3. ~(i < Len(s) /\ s[i + 1] = "n")
      <4> SUFFICES ASSUME i < Len(s), s[i + 1] = "n"  PROVE FALSE
        OBVIOUS
      <4>1. i + 1 \in 1..Len(s)
        BY <1>0, <2>1
      <4>2. Moves(w, f[i], "n", f[i + 1])
        BY <1>6, <2>1, <4>1
      <4>3. p[(n + 1) + 1] = "n" /\ n + 1 < Len(p)
        BY <3>2, <4>2 DEF Moves
      <4>4. n + 1 \in 1..(Len(p) - 1)
        BY <1>0, <2>3, <4>3
      <4> QED
        BY <3>2, <4>3, <4>4 DEF Plain
    <3>4. F[i] = <<"backslash">> \o F[i + 1]
      BY <2>1, <2>4, <3>1, <3>3 DEF FromAt
    <3>5. At(i + 1) = [pos |-> n + 1, half |-> FALSE] /\ Fits(i + 1) /\ At(i + 1) \in Half
      <4>1. f[(i + 1) - 1] = [pkg |-> k, pos |-> n + 1, esc |-> FALSE] /\ n + 1 \in Nat
        BY <2>1, <2>3, <3>2
      <4> HIDE DEF At, n
      <4> QED
        BY <1>10, <4>1
    <3>6. <<At(i), "backslash", At(i + 1)>> \in Double(p)
      BY <1>0, <2>3, <2>5, <2>9, <3>2, <3>5 DEF Double, Doubling
    <3> QED
      BY <1>0, <1>7, <2>1, <2>4, <3>4, <3>5, <3>6
  <2> QED
    BY <2>7, <2>8, <2>9
<1> QED
  BY <1>8, <1>9

LEMMA SecondPass ==
    ASSUME NEW p \in Seq(Byte), NEW t \in Seq(Byte),
           Path(Double(p), t, [pos |-> 0, half |-> FALSE], [pos |-> Len(p), half |-> FALSE])
    PROVE  Replace(t, "backslash", "backslash", "backslash") = p
<1>1. PICK g : /\ g[0] = [pos |-> 0, half |-> FALSE]
               /\ g[Len(t)] = [pos |-> Len(p), half |-> FALSE]
               /\ \A i \in 1..Len(t) : <<g[i - 1], t[i], g[i]>> \in Double(p)
  BY DEF Path
<1> DEFINE F == From(t, "backslash", "backslash", "backslash")
           Rest(n) == SubSeq(p, n + 1, Len(p))
           Claim(i) == ~g[i - 1].half => F[i] = Rest(g[i - 1].pos)
           T == {i \in 1..(Len(t) + 1) : ~Claim(i)}
<1>0. Len(t) \in Nat /\ Len(p) \in Nat /\ "backslash" \in Byte
  BY LenProperties DEF Byte
<1>2. \A j \in 1..(Len(t) + 1) :
          F[j] = FromAt(t, "backslash", "backslash", "backslash", F, j) /\ F[j] \in Seq(Byte)
  <2>1. \A j \in 1..(Len(t) + 1) : j \in 1..(Len(t) + 2)
    BY <1>0
  <2> QED
    BY <1>0, <2>1, FromIs
<1>3. Replace(t, "backslash", "backslash", "backslash") = F[1]
  BY <1>0, FromIs
<1>4. \A j \in 1..Len(t) : /\ g[j - 1] \in Half /\ g[j] \in Half /\ t[j] \in Byte
                           /\ Doubling(p, g[j - 1], t[j], g[j])
  BY <1>1 DEF Double
<1>5. \A n \in Nat : n < Len(p) => Rest(n) = <<p[n + 1]>> \o Rest(n + 1)
  <2> SUFFICES ASSUME NEW n \in Nat, n < Len(p)  PROVE Rest(n) = <<p[n + 1]>> \o Rest(n + 1)
    OBVIOUS
  <2>1. p[n + 1] \in Byte
    BY <1>0, ElementOfSeq
  <2>2. /\ Rest(n) \in Seq(Byte) /\ Len(Rest(n)) = Len(p) - n
        /\ \A j \in 1..(Len(p) - n) : Rest(n)[j] = p[n + j]
    BY <1>0, SubSeqProperties
  <2>3. /\ Rest(n + 1) \in Seq(Byte) /\ Len(Rest(n + 1)) = Len(p) - (n + 1)
        /\ \A j \in 1..(Len(p) - (n + 1)) : Rest(n + 1)[j] = p[n + 1 + j]
    BY <1>0, SubSeqProperties
  <2> HIDE DEF Rest
  <2> DEFINE u == <<p[n + 1]>> \o Rest(n + 1)
  <2>4. /\ <<p[n + 1]>> \in Seq(Byte) /\ Len(<<p[n + 1]>>) = 1 /\ <<p[n + 1]>>[1] = p[n + 1]
    BY <2>1
  <2>5. /\ u \in Seq(Byte) /\ Len(u) = 1 + Len(Rest(n + 1)) /\ u[1] = p[n + 1]
        /\ \A j \in 1..Len(Rest(n + 1)) : u[j + 1] = Rest(n + 1)[j]
    BY <2>3, <2>4, ConcatProperties
  <2> HIDE DEF u
  <2>6. \A j \in 1..Len(u) : u[j] = Rest(n)[j]
    <3> SUFFICES ASSUME NEW j \in 1..Len(u)  PROVE u[j] = Rest(n)[j]
      OBVIOUS
    <3>1. CASE j = 1
      BY <1>0, <2>2, <2>5, <3>1
    <3>2. CASE j # 1
      <4>1. j - 1 \in 1..Len(Rest(n + 1)) /\ (j - 1) + 1 = j /\ n + 1 + (j - 1) = n + j
            /\ j \in 1..(Len(p) - n)
        BY <1>0, <2>3, <2>5, <3>2
      <4>2. u[j] = Rest(n + 1)[j - 1]
        BY <2>5, <4>1
      <4>3. Rest(n + 1)[j - 1] = p[n + 1 + (j - 1)]
        BY <2>3, <4>1
      <4> QED
        BY <2>2, <4>1, <4>2, <4>3
    <3> QED
      BY <3>1, <3>2
  <2>7. Len(u) = Len(Rest(n))
    BY <1>0, <2>2, <2>3, <2>5
  <2>8. Rest(n) = u
    BY <2>2, <2>5, <2>6, <2>7, SeqEqual
  <2> QED
    BY <2>8 DEF u
<1>6. T = {}
  <2> SUFFICES ASSUME T # {} PROVE FALSE
    OBVIOUS
  <2>2. PICK i \in T : \A j \in T : j <= i
    <3>1. T \subseteq 1..(Len(t) + 1) /\ Len(t) + 1 \in Nat
      BY <1>0
    <3> HIDE DEF T
    <3> QED
      BY <3>1, Greatest
  <2>3. i \in 1..(Len(t) + 1) /\ ~g[i - 1].half /\ F[i] # Rest(g[i - 1].pos)
    OBVIOUS
  <2>4. \A j \in (i + 1)..(Len(t) + 1) : Claim(j)
    <3> SUFFICES ASSUME NEW j \in (i + 1)..(Len(t) + 1)  PROVE j \notin T /\ j \in 1..(Len(t) + 1)
      OBVIOUS
    <3>1. j \in 1..(Len(t) + 1) /\ ~(j <= i)
      BY <1>0, <2>3
    <3> HIDE DEF T
    <3> QED
      BY <2>2, <3>1
  <2> HIDE DEF T, F, Rest
  <2>5. CASE i = Len(t) + 1
    <3>1. i - 1 = Len(t) /\ i > Len(t)
      BY <1>0, <2>5
    <3>2. F[i] = <<>> /\ g[i - 1].pos = Len(p)
      <4>1. g[i - 1].pos = Len(p)
        BY <1>1, <3>1
      <4>2. F[i] = FromAt(t, "backslash", "backslash", "backslash", F, i)
        BY <1>2, <2>3
      <4> QED
        BY <3>1, <4>1, <4>2 DEF FromAt
    <3>3. Rest(Len(p)) = <<>>
      BY <1>0, SubSeqProperties DEF Rest
    <3> QED
      BY <2>3, <3>2, <3>3
  <2>6. CASE i # Len(t) + 1
    <3>1. /\ i \in 1..Len(t) /\ i + 1 \in (i + 1)..(Len(t) + 1) /\ i + 1 \in 1..(Len(t) + 1)
          /\ (i + 1) - 1 = i /\ ~(i > Len(t)) /\ i \in Nat
      BY <1>0, <2>3, <2>6
    <3> DEFINE n == g[i - 1].pos
    <3>2. /\ g[i - 1] \in Half /\ g[i] \in Half /\ Doubling(p, g[i - 1], t[i], g[i])
          /\ n \in Nat /\ n < Len(p) /\ t[i] = p[n + 1]
      BY <1>4, <3>1 DEF Half, Doubling
    <3>3. F[i] = FromAt(t, "backslash", "backslash", "backslash", F, i)
      BY <1>2, <2>3
    <3>4. Rest(n) = <<p[n + 1]>> \o Rest(n + 1)
      BY <1>5, <3>2
    <3>5. CASE t[i] # "backslash"
      <4>1. g[i] = [pos |-> n + 1, half |-> FALSE]
        BY <2>3, <3>2, <3>5 DEF Doubling
      <4>2. F[i] = <<t[i]>> \o F[i + 1]
        BY <3>1, <3>3, <3>5 DEF FromAt
      <4>3. F[i + 1] = Rest(n + 1)
        BY <2>4, <3>1, <4>1
      <4> QED
        BY <2>3, <3>2, <3>4, <4>2, <4>3
    <3>6. CASE t[i] = "backslash"
      <4>1. g[i] = [pos |-> n, half |-> TRUE]
        BY <2>3, <3>2, <3>6 DEF Doubling
      <4>2. i < Len(t)
        BY <1>0, <1>1, <3>1, <4>1
      <4>3. /\ i + 1 \in 1..Len(t) /\ i + 2 \in (i + 1)..(Len(t) + 1) /\ (i + 2) - 1 = i + 1
        BY <1>0, <3>1, <4>2
      <4>4. Doubling(p, g[i], t[i + 1], g[i + 1])
        BY <1>4, <3>1, <4>3
      <4>5. t[i + 1] = "backslash" /\ g[i + 1] = [pos |-> n + 1, half |-> FALSE]
        BY <4>1, <4>4 DEF Doubling
      <4>6. F[i] = <<"backslash">> \o F[i + 2]
        BY <3>1, <3>3, <3>6, <4>2, <4>5 DEF FromAt
      <4>7. F[i + 2] = Rest(n + 1)
        BY <2>4, <4>3, <4>5
      <4> QED
        BY <2>3, <3>2, <3>4, <3>6, <4>6, <4>7
    <3> QED
      BY <3>5, <3>6
  <2> QED
    BY <2>5, <2>6
<1>7. F[1] = Rest(0)
  <2>1. 1 \in 1..(Len(t) + 1) /\ 1 - 1 = 0
    BY <1>0
  <2>2. Claim(1)
    BY <1>6, <2>1
  <2> HIDE DEF F, Rest
  <2> QED
    BY <1>1, <2>1, <2>2
<1>8. Rest(0) = p
  <2>1. /\ Rest(0) \in Seq(Byte) /\ Len(Rest(0)) = Len(p)
        /\ \A j \in 1..Len(p) : Rest(0)[j] = p[j]
    BY <1>0, SubSeqProperties
  <2> HIDE DEF Rest
  <2> QED
    BY <2>1, SeqEqual
<1> QED
  BY <1>3, <1>7, <1>8

(***************************************************************************)
(* The web interface's replacements undo the escapes of a package in which *)
(* no backslash precedes an n.                                             *)
(***************************************************************************)
LEMMA PlainUnescaped ==
    ASSUME NEW w \in Seq(Package), NEW k \in 1..Len(w), Plain(w[k]),
           NEW s \in Seq(Byte), \A i \in 1..Len(s) : s[i] # "newline",
           Path(Move(w), s, Start(k), [pkg |-> k, pos |-> Len(w[k]), esc |-> FALSE])
    PROVE  Unescaped(s) = w[k]
<1>1. PICK f : /\ f[0] = Start(k) /\ f[Len(s)] = [pkg |-> k, pos |-> Len(w[k]), esc |-> FALSE]
               /\ \A i \in 1..Len(s) : <<f[i - 1], s[i], f[i]>> \in Move(w)
  BY DEF Path
<1> DEFINE t == Replace(s, "backslash", "n", "newline")
<1>2. "newline" \in Byte /\ 1 \in 1..(Len(s) + 1) /\ 1 \in 1..(Len(s) + 2) /\ 1 - 1 = 0
  BY LenProperties DEF Byte
<1>3. t = From(s, "backslash", "n", "newline")[1] /\ t \in Seq(Byte)
  BY <1>2, FromIs
<1>4. Path(Double(w[k]), t, [pos |-> 0, half |-> FALSE], [pos |-> Len(w[k]), half |-> FALSE])
  <2>1. f[1 - 1].pkg = k /\ ~f[1 - 1].esc /\ f[1 - 1].pos = 0
    BY <1>1, <1>2 DEF Start
  <2>2. Path(Double(w[k]), From(s, "backslash", "n", "newline")[1],
             [pos |-> f[1 - 1].pos, half |-> f[1 - 1].esc],
             [pos |-> Len(w[k]), half |-> FALSE])
    BY <1>1, <1>2, <2>1, FirstPass
  <2>3. f[1 - 1].esc = FALSE
    BY <1>1, <1>2 DEF Start
  <2> HIDE DEF t
  <2> QED
    BY <1>3, <2>1, <2>2, <2>3
<1>5. w[k] \in Seq(Byte)
  BY WrittenType
<1> HIDE DEF t
<1>6. Replace(t, "backslash", "backslash", "backslash") = w[k]
  BY <1>3, <1>4, <1>5, SecondPass
<1> QED
  BY <1>6 DEF Unescaped, t

-----------------------------------------------------------------------------
(***************************************************************************)
(* The pieces of a package: full ones, and the rest.                       *)
(***************************************************************************)
LEMMA MinOfTwo ==
    ASSUME NEW x \in Int, NEW y \in Int
    PROVE  Min({x, y}) = IF x <= y THEN x ELSE y
<1> DEFINE m == IF x <= y THEN x ELSE y
<1>1. m \in {x, y} /\ \A v \in {x, y} : m <= v
  OBVIOUS
<1>2. \A v \in {x, y} : (\A u \in {x, y} : v <= u) => v = m
  OBVIOUS
<1>3. Min({x, y}) \in {x, y} /\ \A u \in {x, y} : Min({x, y}) <= u
  <2>1. Min({x, y}) = CHOOSE v \in {x, y} : \A u \in {x, y} : v <= u
    BY DEF Min
  <2> HIDE DEF m
  <2> QED
    BY <1>1, <2>1
<1> QED
  BY <1>2, <1>3

LEMMA PiecesIs ==
    ASSUME NEW p \in Seq(Byte)
    PROVE  /\ Pieces(p) \in Seq(Seq(Byte))
           /\ Len(Pieces(p)) = (Len(p) \div FileSize) + 1
           /\ \A c \in Nat : (c + 1) * FileSize <= Len(p) =>
                  /\ c + 1 <= Len(Pieces(p))
                  /\ Pieces(p)[c + 1] = SubSeq(p, c * FileSize + 1, c * FileSize + FileSize)
           /\ \A c \in Nat : c * FileSize <= Len(p) /\ Len(p) < (c + 1) * FileSize =>
                  /\ c + 1 = Len(Pieces(p))
                  /\ Pieces(p)[c + 1] = SubSeq(p, c * FileSize + 1, Len(p))
<1> DEFINE S == FileSize
           d == Len(p) \div S
<1>0. S \in Nat \ {0} /\ Len(p) \in Nat
  BY BoundsAssumption
<1>1. d \in Nat
  BY <1>0
<1>2. \A c \in Nat : c * S \in Nat /\ (c + 1) * S = c * S + S
  BY <1>0, Times
<1>3. ASSUME NEW k \in 1..(d + 1)  PROVE SubSeq(p, (k - 1) * S + 1, Min({k * S, Len(p)})) \in Seq(Byte)
  <2>1. k - 1 \in Nat /\ k \in Nat
    BY <1>1
  <2>2. (k - 1) * S \in Nat /\ k * S \in Nat
    BY <1>2, <2>1
  <2>3. Min({k * S, Len(p)}) = IF k * S <= Len(p) THEN k * S ELSE Len(p)
    BY <1>0, <2>2, MinOfTwo
  <2> DEFINE m == (k - 1) * S + 1
             n == Min({k * S, Len(p)})
  <2>4. m \in Nat /\ n \in Nat /\ m >= 1 /\ n <= Len(p)
    BY <1>0, <2>2, <2>3
  <2>5. \A i \in m..n : i \in 1..Len(p) /\ p[i] \in Byte
    BY <1>0, <2>4, ElementOfSeq
  <2> HIDE DEF m, n
  <2>6. SubSeq(p, m, n) \in Seq(Byte)
    BY <2>4, <2>5, SubSeqProperties
  <2> QED
    BY <2>6 DEF m, n
<1>4. Pieces(p) = [k \in 1..(d + 1) |-> SubSeq(p, (k - 1) * S + 1, Min({k * S, Len(p)}))]
  BY DEF Pieces
<1>5. Pieces(p) \in Seq(Seq(Byte)) /\ Len(Pieces(p)) = d + 1
  <2> HIDE DEF d, S
  <2>1. Pieces(p) \in [1..(d + 1) -> Seq(Byte)]
    BY <1>3, <1>4
  <2>2. d + 1 \in Nat
    BY <1>1
  <2>3. Pieces(p) \in Seq(Seq(Byte))
    BY <2>1, <2>2, SeqDef
  <2>4. DOMAIN Pieces(p) = 1..(d + 1)
    BY <2>1
  <2>5. Len(Pieces(p)) = d + 1
    BY <2>2, <2>3, <2>4, LenProperties
  <2> QED
    BY <2>3, <2>5
<1>6. ASSUME NEW c \in Nat, (c + 1) * S <= Len(p)
      PROVE  c + 1 <= d + 1 /\ Pieces(p)[c + 1] = SubSeq(p, c * S + 1, c * S + S)
  <2>1. (c + 1) <= d
    <3>1. c + 1 \in Nat
      OBVIOUS
    <3> HIDE DEF S
    <3> QED
      BY <1>0, <1>6, <3>1, DivLow DEF d
  <2>2. c + 1 \in 1..(d + 1) /\ (c + 1) - 1 = c
    BY <1>1, <2>1
  <2>3. (c + 1) * S \in Nat
    <3>1. c + 1 \in Nat
      OBVIOUS
    <3> HIDE DEF S
    <3> QED
      BY <1>2, <3>1
  <2>4. Min({(c + 1) * S, Len(p)}) = (c + 1) * S
    BY <1>0, <1>6, <2>3, MinOfTwo
  <2>5. Pieces(p)[c + 1] = SubSeq(p, ((c + 1) - 1) * S + 1, Min({(c + 1) * S, Len(p)}))
    <3> HIDE DEF d, S
    <3> QED
      BY <1>4, <2>2
  <2>6. (c + 1) * S = c * S + S
    BY <1>2
  <2>7. c + 1 <= d + 1
    BY <1>1, <2>2
  <2> HIDE DEF d, S
  <2>8. Pieces(p)[c + 1] = SubSeq(p, c * S + 1, (c + 1) * S)
    BY <2>2, <2>4, <2>5
  <2> QED
    BY <2>6, <2>7, <2>8
<1>7. ASSUME NEW c \in Nat, c * S <= Len(p), Len(p) < (c + 1) * S
      PROVE  c + 1 = d + 1 /\ Pieces(p)[c + 1] = SubSeq(p, c * S + 1, Len(p))
  <2>1. c * S \in Nat /\ (c + 1) * S = c * S + S
    BY <1>2
  <2>2. d = c
    <3>1. Len(p) - c * S \in Nat /\ Len(p) - c * S < S /\ Len(p) = c * S + (Len(p) - c * S)
      BY <1>0, <1>7, <2>1
    <3> HIDE DEF S
    <3> QED
      BY <1>0, <3>1, Div DEF S
  <2>3. c + 1 \in 1..(d + 1) /\ (c + 1) - 1 = c
    BY <1>1, <2>2
  <2>4. Min({(c + 1) * S, Len(p)}) = Len(p)
    <3>1. (c + 1) * S \in Int /\ Len(p) \in Int /\ ~((c + 1) * S <= Len(p))
      BY <1>0, <1>7, <2>1
    <3> QED
      BY <3>1, MinOfTwo
  <2>5. Pieces(p)[c + 1] = SubSeq(p, ((c + 1) - 1) * S + 1, Min({(c + 1) * S, Len(p)}))
    <3> HIDE DEF d, S
    <3> QED
      BY <1>4, <2>3
  <2> HIDE DEF d, S
  <2> QED
    BY <2>2, <2>3, <2>4, <2>5
<1> QED
  BY <1>5, <1>6, <1>7

(***************************************************************************)
(* The pieces of the first n packages, one after the other.                *)
(***************************************************************************)
Flat(w, n, g) ==
    \E f : /\ f[0] = <<>> /\ f[n] = g
           /\ \A j \in 1..n : f[j] = f[j - 1] \o Pieces(w[j])

Begins(s, t) == Len(s) <= Len(t) /\ \A i \in 1..Len(s) : t[i] = s[i]

LEMMA FlatMore ==
    ASSUME NEW w, NEW n \in Nat, NEW g, Flat(w, n, g)
    PROVE  Flat(w, n + 1, g \o Pieces(w[n + 1]))
<1>1. PICK f : /\ f[0] = <<>> /\ f[n] = g
               /\ \A j \in 1..n : f[j] = f[j - 1] \o Pieces(w[j])
  BY DEF Flat
<1> DEFINE x == g \o Pieces(w[n + 1])
           h == [j \in 0..(n + 1) |-> IF j = n + 1 THEN x ELSE f[j]]
<1>2. h[n + 1] = x /\ \A j \in 0..n : h[j] = f[j]
  OBVIOUS
<1> HIDE DEF h
<1>3. ASSUME NEW j \in 1..(n + 1)  PROVE h[j] = h[j - 1] \o Pieces(w[j])
  <2>1. CASE j = n + 1
    <3>1. j - 1 = n /\ n \in 0..n
      BY <2>1
    <3> QED
      BY <1>1, <1>2, <2>1, <3>1
  <2>2. CASE j # n + 1
    <3>1. j \in 1..n /\ j \in 0..n /\ j - 1 \in 0..n
      BY <2>2
    <3>2. f[j] = f[j - 1] \o Pieces(w[j]) /\ h[j] = f[j] /\ h[j - 1] = f[j - 1]
      BY <1>1, <1>2, <3>1
    <3> QED
      BY <3>2
  <2> QED
    BY <2>1, <2>2
<1>4. h[0] = <<>>
  <2>1. 0 \in 0..n
    OBVIOUS
  <2> QED
    BY <1>1, <1>2, <2>1
<1> QED
  BY <1>2, <1>3, <1>4 DEF Flat

LEMMA FlatKept ==
    ASSUME NEW w \in Seq(Package), NEW p \in Package, NEW n \in 0..Len(w), NEW g, Flat(w, n, g)
    PROVE  Flat(Append(w, p), n, g)
<1>1. \A j \in 1..n : Append(w, p)[j] = w[j]
  BY AppendProperties
<1> QED
  BY <1>1 DEF Flat

LEMMA FlattenIs ==
    ASSUME NEW B, NEW q \in Seq(Seq(B)), Len(q) # 0
    PROVE  \E u : /\ FlattenSeq(q) = u[Len(q)]
                  /\ \A i \in 1..Len(q) :
                         u[i] \in Seq(B) /\ u[i] = IF i = 1 THEN q[1] ELSE u[i - 1] \o q[i]
<1> DEFINE Body(f, i) == IF i = 1 THEN q[i] ELSE f[i - 1] \o q[i]
           Fits(f) == f = [i \in 1..Len(q) |-> Body(f, i)]
           To(m) == \E f \in [1..m -> Seq(B)] : \A i \in 1..m : f[i] = Body(f, i)
           T == {m \in 1..Len(q) : ~To(m)}
           u == CHOOSE f : Fits(f)
<1>0. Len(q) \in Nat /\ Len(q) \in 1..Len(q) /\ \A i \in 1..Len(q) : q[i] \in Seq(B)
  BY ElementOfSeq
<1>1. T = {}
  <2> SUFFICES ASSUME T # {} PROVE FALSE
    OBVIOUS
  <2>1. PICK m \in T : \A k \in T : m <= k
    <3>1. T \subseteq Nat
      OBVIOUS
    <3> HIDE DEF T
    <3> QED
      BY <3>1, Least
  <2>2. m \in 1..Len(q) /\ m \in Nat /\ ~To(m)
    <3> HIDE DEF To
    <3> QED
      OBVIOUS
  <2>3. CASE m = 1
    <3> DEFINE f == [i \in 1..m |-> q[1]]
    <3>1. f \in [1..m -> Seq(B)] /\ \A i \in 1..m : f[i] = Body(f, i)
      BY <1>0, <2>2, <2>3
    <3> QED
      BY <2>2, <3>1
  <2>4. CASE m # 1
    <3>1. m - 1 \in 1..Len(q) /\ ~(m <= m - 1)
      BY <1>0, <2>2, <2>4
    <3>2. To(m - 1)
      <4> HIDE DEF To
      <4> QED
        BY <2>1, <3>1
    <3>3. PICK g \in [1..(m - 1) -> Seq(B)] : \A i \in 1..(m - 1) : g[i] = Body(g, i)
      BY <3>2
    <3> DEFINE x == g[m - 1] \o q[m]
               f == [i \in 1..m |-> IF i = m THEN x ELSE g[i]]
    <3>4. x \in Seq(B)
      <4>1. g[m - 1] \in Seq(B) /\ q[m] \in Seq(B)
        <5>1. m - 1 \in 1..(m - 1)
          BY <2>2, <2>4
        <5> QED
          BY <1>0, <2>2, <3>3, <5>1
      <4> QED
        BY <4>1, ConcatProperties
    <3>5. f \in [1..m -> Seq(B)]
      <4> HIDE DEF x
      <4> QED
        BY <2>2, <3>3, <3>4
    <3>6. f[m] = x /\ \A i \in 1..(m - 1) : f[i] = g[i]
      <4> HIDE DEF x
      <4> QED
        BY <2>2
    <3>7. ASSUME NEW i \in 1..m  PROVE f[i] = Body(f, i)
      <4>1. CASE i = m
        <5>1. f[m - 1] = g[m - 1]
          BY <2>2, <2>4, <3>6
        <5> HIDE DEF f
        <5> QED
          BY <2>2, <2>4, <3>6, <4>1, <5>1
      <4>2. CASE i # m
        <5>1. i \in 1..(m - 1) /\ (i # 1 => i - 1 \in 1..(m - 1))
          BY <2>2, <4>2
        <5>2. g[i] = Body(g, i) /\ f[i] = g[i] /\ (i # 1 => f[i - 1] = g[i - 1])
          <6> HIDE DEF f
          <6> QED
            BY <3>3, <3>6, <5>1
        <5> HIDE DEF f
        <5> QED
          BY <5>2
      <4> QED
        BY <4>1, <4>2
    <3>8. To(m)
      <4> HIDE DEF f
      <4> QED
        BY <3>5, <3>7
    <3> QED
      BY <2>2, <3>8
  <2> QED
    BY <2>3, <2>4
<1>2. PICK f \in [1..Len(q) -> Seq(B)] : \A i \in 1..Len(q) : f[i] = Body(f, i)
  BY <1>0, <1>1
<1>3. Fits(f)
  BY <1>2
<1>4. Fits(u)
  <2> HIDE DEF Fits
  <2> QED
    BY <1>3
<1>5. FlattenSeq(q) = u[Len(q)]
  BY DEF FlattenSeq
<1>6. \A i \in 1..Len(q) : u[i] = Body(u, i)
  <2> HIDE DEF u
  <2> QED
    BY <1>4
<1>7. \A i \in 1..Len(q) : u[i] \in Seq(B)
  <2> HIDE DEF u
  <2> DEFINE V == {i \in 1..Len(q) : u[i] \notin Seq(B)}
  <2> SUFFICES ASSUME V # {} PROVE FALSE
    OBVIOUS
  <2>1. PICK m \in V : \A k \in V : m <= k
    <3>1. V \subseteq Nat
      OBVIOUS
    <3> HIDE DEF V
    <3> QED
      BY <3>1, Least
  <2>2. m \in 1..Len(q) /\ u[m] \notin Seq(B)
    OBVIOUS
  <2>3. m # 1 => u[m - 1] \in Seq(B)
    <3>1. m # 1 => m - 1 \in 1..Len(q) /\ ~(m <= m - 1)
      BY <1>0, <2>2
    <3> QED
      BY <2>1, <3>1
  <2>4. u[m] \in Seq(B)
    <3>1. u[m] = Body(u, m) /\ q[m] \in Seq(B) /\ q[1] \in Seq(B)
      BY <1>0, <1>6, <2>2
    <3> QED
      BY <2>3, <3>1, ConcatProperties
  <2> QED
    BY <2>2, <2>4
<1> HIDE DEF u
<1> QED
  BY <1>5, <1>6, <1>7

LEMMA ConcatIs ==
    ASSUME NEW B, NEW s \in Seq(B), NEW t \in Seq(B)
    PROVE  /\ s \o t \in Seq(B) /\ Len(s \o t) = Len(s) + Len(t)
           /\ Len(s) \in Nat /\ Len(t) \in Nat
           /\ \A i \in 1..Len(s) : (s \o t)[i] = s[i]
           /\ \A i \in 1..Len(t) : (s \o t)[Len(s) + i] = t[i]
           /\ Begins(s, s \o t)
<1>1. /\ s \o t \in Seq(B) /\ Len(s \o t) = Len(s) + Len(t)
      /\ Len(s) \in Nat /\ Len(t) \in Nat
      /\ \A i \in 1..Len(s) : (s \o t)[i] = s[i]
  BY ConcatProperties, LenProperties
<1>2. ASSUME NEW i \in 1..Len(t)  PROVE (s \o t)[Len(s) + i] = t[i]
  <2>1. /\ Len(s) + i \in 1..(Len(s) + Len(t)) /\ ~(Len(s) + i <= Len(s))
        /\ (Len(s) + i) - Len(s) = i
    BY <1>1
  <2> QED
    BY <2>1, ConcatProperties
<1> QED
  BY <1>1, <1>2 DEF Begins

LEMMA BeginsTransitive ==
    ASSUME NEW B, NEW s \in Seq(B), NEW t \in Seq(B), NEW u \in Seq(B),
           Begins(s, t), Begins(t, u)
    PROVE  Begins(s, u)
<1>1. Len(s) \in Nat /\ Len(t) \in Nat /\ Len(u) \in Nat
  BY LenProperties
<1> QED
  BY <1>1 DEF Begins

LEMMA FlatBegins ==
    ASSUME NEW w \in Seq(Package), NEW n \in 0..Len(w), NEW g, Flat(w, n, g)
    PROVE  /\ g \in Seq(Seq(Byte))
           /\ FlattenSeq([i \in DOMAIN w |-> Pieces(w[i])]) \in Seq(Seq(Byte))
           /\ Begins(g, FlattenSeq([i \in DOMAIN w |-> Pieces(w[i])]))
<1> DEFINE P == [i \in DOMAIN w |-> Pieces(w[i])]
           L == Len(w)
<1>0. L \in Nat /\ n \in Nat /\ n <= L
  OBVIOUS
<1>1. /\ P \in Seq(Seq(Seq(Byte))) /\ Len(P) = L
      /\ \A i \in 1..L : P[i] = Pieces(w[i]) /\ P[i] \in Seq(Seq(Byte))
  <2>1. \A i \in 1..L : Pieces(w[i]) \in Seq(Seq(Byte))
    BY WrittenType, PiecesIs
  <2>2. DOMAIN w = 1..L
    BY LenProperties
  <2>3. P = [i \in 1..L |-> Pieces(w[i])]
    BY <2>2
  <2> HIDE DEF P, L
  <2>4. P \in [1..L -> Seq(Seq(Byte))] /\ \A i \in 1..L : P[i] = Pieces(w[i])
    BY <2>1, <2>3
  <2>5. P \in Seq(Seq(Seq(Byte)))
    BY <1>0, <2>4, SeqDef
  <2>6. DOMAIN P = 1..L
    BY <2>4
  <2>7. Len(P) = L
    BY <1>0, <2>5, <2>6, LenProperties
  <2> QED
    BY <2>1, <2>4, <2>5, <2>7
<1> HIDE DEF P
<1>2. PICK f : /\ f[0] = <<>> /\ f[n] = g
               /\ \A j \in 1..n : f[j] = f[j - 1] \o Pieces(w[j])
  BY DEF Flat
<1>3. CASE L = 0
  <2>1. n = 0 /\ g = <<>>
    BY <1>0, <1>2, <1>3
  <2>2. FlattenSeq(P) = P
    BY <1>1, <1>3 DEF FlattenSeq
  <2>3. P = <<>>
    BY <1>1, <1>3, EmptySeq
  <2>4. Begins(<<>>, <<>>)
    BY DEF Begins
  <2>5. g \in Seq(Seq(Byte)) /\ FlattenSeq(P) \in Seq(Seq(Byte)) /\ Begins(g, FlattenSeq(P))
    <3>1. <<>> \in Seq(Seq(Byte))
      OBVIOUS
    <3> QED
      BY <2>1, <2>2, <2>3, <2>4, <3>1, Zenon
  <2> QED
    BY <2>5, Zenon DEF P
<1>4. CASE L # 0
  <2>1. PICK u : /\ FlattenSeq(P) = u[L]
                 /\ \A i \in 1..L : /\ u[i] \in Seq(Seq(Byte))
                                    /\ u[i] = IF i = 1 THEN P[1] ELSE u[i - 1] \o P[i]
    <3>1. Len(P) # 0
      BY <1>1, <1>4
    <3>2. PICK u : /\ FlattenSeq(P) = u[Len(P)]
                   /\ \A i \in 1..Len(P) : /\ u[i] \in Seq(Seq(Byte))
                                           /\ u[i] = IF i = 1 THEN P[1] ELSE u[i - 1] \o P[i]
      <4> DEFINE B == Seq(Byte)
      <4>1. P \in Seq(Seq(B))
        BY <1>1
      <4> HIDE DEF B
      <4>2. \E u : /\ FlattenSeq(P) = u[Len(P)]
                   /\ \A i \in 1..Len(P) :
                          u[i] \in Seq(B) /\ u[i] = IF i = 1 THEN P[1] ELSE u[i - 1] \o P[i]
        BY <3>1, <4>1, FlattenIs
      <4> QED
        BY <4>2 DEF B
    <3> QED
      BY <1>1, <3>2
  <2>2. \A j \in 1..n : f[j] = u[j]
    <3> DEFINE T == {j \in 1..n : f[j] # u[j]}
    <3> SUFFICES ASSUME T # {} PROVE FALSE
      OBVIOUS
    <3>1. PICK m \in T : \A k \in T : m <= k
      <4>1. T \subseteq Nat
        BY <1>0
      <4> HIDE DEF T
      <4> QED
        BY <4>1, Least
    <3>2. m \in 1..n /\ m \in 1..L /\ f[m] # u[m]
      BY <1>0
    <3>3. f[m] = f[m - 1] \o P[m] /\ P[m] \in Seq(Seq(Byte))
      BY <1>1, <1>2, <3>2
    <3>4. CASE m = 1
      <4>0. m - 1 = 0
        BY <3>4
      <4>1. f[m] = <<>> \o P[1]
        BY <1>2, <3>3, <3>4, <4>0
      <4>2. <<>> \o P[1] = P[1]
        BY <3>3, <3>4, ConcatEmptySeq
      <4> QED
        BY <2>1, <3>2, <3>4, <4>1, <4>2
    <3>5. CASE m # 1
      <4>1. m - 1 \in 1..n /\ ~(m <= m - 1)
        BY <1>0, <3>2, <3>5
      <4>2. f[m - 1] = u[m - 1]
        BY <3>1, <4>1
      <4> QED
        BY <2>1, <3>2, <3>3, <3>5, <4>2
    <3> QED
      BY <3>4, <3>5
  <2>3. ASSUME NEW j \in 1..L  PROVE \A i \in j..L : Begins(u[j], u[i])
    <3> DEFINE T == {i \in j..L : ~Begins(u[j], u[i])}
    <3> SUFFICES ASSUME T # {} PROVE FALSE
      OBVIOUS
    <3>0. j \in Nat
      BY <1>0
    <3>1. PICK m \in T : \A k \in T : m <= k
      <4>1. T \subseteq Nat
        BY <1>0, <3>0
      <4> HIDE DEF T
      <4> QED
        BY <4>1, Least
    <3>2. m \in j..L /\ m \in 1..L /\ ~Begins(u[j], u[m])
      BY <1>0, <3>0
    <3>3. u[j] \in Seq(Seq(Byte)) /\ u[m] \in Seq(Seq(Byte)) /\ Len(u[j]) \in Nat
      BY <2>1, <3>2, LenProperties
    <3>4. CASE m = j
      BY <3>2, <3>3, <3>4 DEF Begins
    <3>5. CASE m # j
      <4>1. m - 1 \in j..L /\ ~(m <= m - 1) /\ m - 1 \in 1..L /\ m # 1
        BY <1>0, <3>0, <3>2, <3>5
      <4>2. Begins(u[j], u[m - 1])
        BY <3>1, <4>1
      <4>3. /\ u[m] = u[m - 1] \o P[m] /\ P[m] \in Seq(Seq(Byte))
            /\ u[m - 1] \in Seq(Seq(Byte))
        BY <1>1, <2>1, <3>2, <4>1
      <4>4. Begins(u[m - 1], u[m])
        BY <4>3, ConcatIs
      <4>6. Begins(u[j], u[m])
        BY <3>3, <4>2, <4>3, <4>4, BeginsTransitive
      <4> QED
        BY <3>2, <4>6
    <3> QED
      BY <3>4, <3>5
  <2>4. CASE n = 0
    <3>1. g = <<>>
      BY <1>2, <2>4
    <3>2. u[L] \in Seq(Seq(Byte)) /\ Len(u[L]) \in Nat
      <4>1. L \in 1..L
        BY <1>0, <1>4
      <4> QED
        BY <2>1, <4>1, LenProperties
    <3>3. Begins(g, u[L])
      BY <3>1, <3>2 DEF Begins
    <3>4. g \in Seq(Seq(Byte)) /\ FlattenSeq(P) \in Seq(Seq(Byte)) /\ Begins(g, FlattenSeq(P))
      BY <2>1, <3>1, <3>2, <3>3
    <3> QED
      BY <3>4, Zenon DEF P
  <2>5. CASE n # 0
    <3>1. n \in 1..n /\ n \in 1..L /\ L \in n..L
      BY <1>0, <2>5
    <3>2. g = u[n] /\ g \in Seq(Seq(Byte)) /\ Begins(g, u[L]) /\ u[L] \in Seq(Seq(Byte))
      BY <1>2, <2>1, <2>2, <2>3, <3>1
    <3>3. g \in Seq(Seq(Byte)) /\ FlattenSeq(P) \in Seq(Seq(Byte)) /\ Begins(g, FlattenSeq(P))
      BY <2>1, <3>2
    <3> QED
      BY <3>3, Zenon DEF P
  <2> QED
    BY <2>4, <2>5
<1> QED
  BY <1>3, <1>4

LEMMA BeginsIsPrefix ==
    ASSUME NEW B, NEW s \in Seq(B), NEW t \in Seq(B), Begins(s, t)
    PROVE  IsPrefix(s, t)
<1>1. Len(s) \in Nat /\ Len(s) <= Len(t) /\ \A i \in 1..Len(s) : t[i] = s[i]
  BY DEF Begins
<1>2. SubSeq(s, 1, Len(s)) = SubSeq(t, 1, Len(s))
  <2> DEFINE n == Len(s)
             x == SubSeq(s, 1, n)
             y == SubSeq(t, 1, n)
  <2>1. x \in Seq(B) /\ Len(x) = n /\ \A i \in 1..n : x[i] = s[i]
    BY <1>1, SubSeqProperties
  <2>2. y \in Seq(B) /\ Len(y) = n /\ \A i \in 1..n : y[i] = t[i]
    BY <1>1, LenProperties, SubSeqProperties
  <2> HIDE DEF x, y
  <2>3. \A i \in 1..Len(x) : x[i] = y[i]
    BY <1>1, <2>1, <2>2
  <2>4. x = y
    BY <2>1, <2>2, <2>3, SeqEqual
  <2> QED
    BY <2>4 DEF x, y
<1> QED
  BY <1>1, <1>2 DEF IsPrefix

-----------------------------------------------------------------------------
(***************************************************************************)
(* The reader is at q: what it has of the package it reads, and what it    *)
(* has returned, for each way of reading.                                  *)
(***************************************************************************)
Current(q) ==
    /\ q \in Place /\ q.esc = escape /\ q.pkg <= Len(written) + 1
    /\ q.pos <= IF q.pkg <= Len(written) THEN Len(written[q.pkg]) ELSE 0
    /\ reading /\ kind # "python" =>
          /\ Len(b) <= q.pos
          /\ \A j \in 1..Len(b) : b[j] = written[q.pkg][(q.pos - Len(b)) + j]

Strings(q) == kind = "string" =>
    /\ Len(got) = q.pkg - 1
    /\ \A j \in 1..Len(got) : got[j] = LastPiece(written[j])
    /\ reading => \E c \in Nat : q.pos = c * StringSize + Len(b)
    /\ ~reading /\ ~eot => q.pos = 0

FileRead(q, g, c) ==
    /\ Flat(written, q.pkg - 1, g)
    /\ Len(got) = Len(g) + c
    /\ \A j \in 1..Len(g) : got[j] = g[j]
    /\ \A j \in 1..c : got[Len(g) + j] = Pieces(written[q.pkg])[j]
    /\ c * FileSize <= q.pos
    /\ ~eot => q.pos = c * FileSize + IF reading THEN Len(b) ELSE 0

Files(q) == kind = "file" => \E g : \E c \in Nat : FileRead(q, g, c)

Pythons(q) == kind = "python" =>
    /\ rbuf = <<>> /\ q.pos = 0 /\ ~q.esc
    /\ Len(got) = q.pkg - 1
    /\ \A j \in 1..Len(got) : Plain(written[j]) => got[j] = written[j]

Reader(q) == Current(q) /\ Strings(q) /\ Files(q) /\ Pythons(q)

Arrived == \E q : Reader(q) /\ OnTheWay(q)

Inv == Room /\ Types /\ Writing /\ (eot => ~reading) /\ Arrived

LEMMA FilesArrive ==
    ASSUME Types, NEW q, Current(q), kind = "file", NEW g, NEW c \in Nat, FileRead(q, g, c)
    PROVE  FilePieces
<1> DEFINE k == q.pkg - 1
           all == FlattenSeq([i \in DOMAIN written |-> Pieces(written[i])])
<1>1. written \in Seq(Package) /\ got \in Seq(Seq(Byte)) /\ Len(written) \in Nat /\ Len(got) \in Nat
  BY LenProperties DEF Types
<1>2. k \in 0..Len(written) /\ k + 1 = q.pkg
  BY <1>1 DEF Current, Place
<1>3. Flat(written, k, g)
  BY DEF FileRead
<1>4. g \in Seq(Seq(Byte)) /\ Begins(g, all) /\ Len(g) \in Nat /\ all \in Seq(Seq(Byte))
  BY <1>1, <1>2, <1>3, FlatBegins, LenProperties
<1>5. CASE q.pkg <= Len(written)
  <2> DEFINE p == written[q.pkg]
             h == g \o Pieces(p)
  <2>0. q.pkg \in 1..Len(written) /\ k + 1 \in 0..Len(written)
    BY <1>1, <1>2, <1>5
  <2>1. Pieces(p) \in Seq(Seq(Byte)) /\ Len(Pieces(p)) = (Len(p) \div FileSize) + 1 /\ Len(p) \in Nat
    BY <1>1, <2>0, WrittenType, PiecesIs, LenProperties
  <2>2. c <= Len(Pieces(p))
    <3>1. c * FileSize <= Len(p)
      <4>1. c * FileSize \in Nat /\ q.pos \in Nat /\ q.pos <= Len(p) /\ c * FileSize <= q.pos
        BY <1>5, Times, BoundsAssumption DEF Current, Place, FileRead
      <4> QED
        BY <2>1, <4>1
    <3>2. c <= Len(p) \div FileSize
      <4> HIDE DEF p
      <4> QED
        BY <2>1, <3>1, DivLow, BoundsAssumption
    <3>3. Len(p) \div FileSize \in Nat
      <4> HIDE DEF p
      <4> QED
        BY <2>1, BoundsAssumption
    <3> HIDE DEF p
    <3> QED
      BY <2>1, <3>2, <3>3
  <2>3. Flat(written, k + 1, h)
    <3>1. k \in Nat
      BY <1>2
    <3> QED
      BY <1>2, <1>3, <3>1, FlatMore
  <2>4. Begins(h, all)
    BY <1>1, <2>0, <2>3, FlatBegins
  <2>5. /\ Len(h) = Len(g) + Len(Pieces(p))
        /\ \A j \in 1..Len(g) : h[j] = g[j]
        /\ \A j \in 1..Len(Pieces(p)) : h[Len(g) + j] = Pieces(p)[j]
    <3> DEFINE y == Pieces(p)
    <3>1. y \in Seq(Seq(Byte)) /\ h = g \o y
      BY <2>1
    <3> HIDE DEF y, h
    <3>2. /\ Len(h) = Len(g) + Len(y)
          /\ \A j \in 1..Len(g) : h[j] = g[j]
          /\ \A j \in 1..Len(y) : h[Len(g) + j] = y[j]
      BY <1>4, <3>1, ConcatIs
    <3> QED
      BY <3>2 DEF y
  <2>6. Len(Pieces(p)) \in Nat
    BY <2>1, LenProperties
  <2> HIDE DEF h, all
  <2>7. Begins(got, all)
    <3>1. Len(got) = Len(g) + c
      BY DEF FileRead
    <3>2. ASSUME NEW i \in 1..Len(got)  PROVE all[i] = got[i]
      <4>1. i \in 1..Len(h)
        BY <1>1, <1>4, <2>2, <2>5, <2>6, <3>1
      <4>2. all[i] = h[i]
        BY <2>4, <4>1 DEF Begins
      <4>3. CASE i <= Len(g)
        BY <1>1, <1>4, <2>5, <4>2, <4>3 DEF FileRead
      <4>4. CASE ~(i <= Len(g))
        <5>1. i - Len(g) \in 1..c /\ i - Len(g) \in 1..Len(Pieces(p)) /\ Len(g) + (i - Len(g)) = i
          BY <1>1, <1>4, <2>2, <2>6, <3>1, <4>4
        <5>2. got[Len(g) + (i - Len(g))] = Pieces(p)[i - Len(g)]
          BY <5>1 DEF FileRead
        <5>3. h[Len(g) + (i - Len(g))] = Pieces(p)[i - Len(g)]
          BY <2>5, <5>1
        <5> QED
          BY <4>2, <5>1, <5>2, <5>3
      <4> QED
        BY <4>3, <4>4
    <3>3. Len(got) <= Len(h) /\ Len(h) <= Len(all)
      BY <1>4, <2>2, <2>4, <2>5, <2>6, <3>1 DEF Begins
    <3>4. Len(got) <= Len(all)
      <4>1. Len(h) \in Nat /\ Len(all) \in Nat
        BY <1>4, <2>5, <2>6, LenProperties
      <4> QED
        BY <1>1, <3>3, <4>1
    <3> QED
      BY <3>2, <3>4 DEF Begins
  <2> QED
    BY <1>1, <1>4, <2>7, BeginsIsPrefix DEF FilePieces, all
<1>6. CASE ~(q.pkg <= Len(written))
  <2>1. c = 0
    <3>1. q.pos = 0
      BY <1>6 DEF Current, Place
    <3>2. c * FileSize <= 0
      BY <3>1 DEF FileRead
    <3> QED
      BY <3>2, BoundsAssumption, SMTT(30)
  <2>2. Len(got) = Len(g) /\ \A j \in 1..Len(g) : got[j] = g[j]
    BY <1>4, <2>1 DEF FileRead
  <2> HIDE DEF all
  <2>3. Begins(got, all)
    BY <1>4, <2>2 DEF Begins
  <2> QED
    BY <1>1, <1>4, <2>3, BeginsIsPrefix DEF FilePieces, all
<1> QED
  BY <1>5, <1>6

LEMMA LastPieceType ==
    ASSUME NEW p \in Seq(Byte)
    PROVE  LastPiece(p) \in Seq(Byte)
<1>1. /\ Len(p) \in Nat /\ Len(p) % StringSize \in Nat /\ Len(p) % StringSize <= Len(p)
  <2>1. Len(p) \in Nat /\ StringSize \in Nat \ {0}
    BY BoundsAssumption, LenProperties
  <2> QED
    BY <2>1
<1> DEFINE m == Len(p) - (Len(p) % StringSize) + 1
<1>2. m \in Nat /\ m >= 1
  BY <1>1
<1>3. \A i \in m..Len(p) : i \in 1..Len(p) /\ p[i] \in Byte
  BY <1>1, <1>2, ElementOfSeq
<1> HIDE DEF m
<1>4. SubSeq(p, m, Len(p)) \in Seq(Byte)
  BY <1>1, <1>2, <1>3, SubSeqProperties
<1> QED
  BY <1>4 DEF LastPiece, m

LEMMA InvArrives == Inv => PiecesArrive
<1> SUFFICES ASSUME Inv  PROVE PiecesArrive
  OBVIOUS
<1>1. PICK q : Reader(q)
  BY DEF Inv, Arrived
<1>2. /\ written \in Seq(Package) /\ got \in Seq(Seq(Byte)) /\ Len(written) \in Nat /\ Len(got) \in Nat
      /\ DOMAIN written = 1..Len(written) /\ DOMAIN got = 1..Len(got)
  BY LenProperties DEF Inv, Types
<1>3. q.pkg \in Nat \ {0} /\ q.pkg <= Len(written) + 1
  BY <1>1 DEF Reader, Current, Place
<1>4. ASSUME kind = "string"  PROVE StringTails
  <2> DEFINE all == [i \in DOMAIN written |-> LastPiece(written[i])]
  <2>1. Len(got) <= Len(written) /\ \A j \in 1..Len(got) : got[j] = LastPiece(written[j])
    BY <1>1, <1>2, <1>3, <1>4 DEF Reader, Strings
  <2>2. Len(all) = Len(written)
    BY <1>2
  <2>3. \A j \in 1..Len(got) : all[j] = got[j]
    BY <1>2, <2>1
  <2>5. all \in Seq(Seq(Byte))
    <3>1. \A i \in 1..Len(written) : LastPiece(written[i]) \in Seq(Byte)
      BY <1>2, WrittenType, LastPieceType
    <3>2. all \in [1..Len(written) -> Seq(Byte)]
      BY <1>2, <3>1
    <3> HIDE DEF all
    <3> QED
      BY <1>2, <3>2, SeqDef
  <2> HIDE DEF all
  <2>4. Begins(got, all)
    BY <2>1, <2>2, <2>3 DEF Begins
  <2> QED
    BY <1>2, <2>4, <2>5, BeginsIsPrefix DEF StringTails, all
<1>5. ASSUME kind = "file"  PROVE FilePieces
  BY <1>1, <1>5, FilesArrive DEF Inv, Reader, Files
<1>6. ASSUME kind = "python"  PROVE PlainArrive
  BY <1>1, <1>2, <1>3, <1>6 DEF Reader, Pythons, PlainArrive
<1> QED
  BY <1>4, <1>5, <1>6 DEF PiecesArrive

-----------------------------------------------------------------------------
(***************************************************************************)
(* The writer.  What the reader has is left as it is.                      *)
(***************************************************************************)
LEMMA ReaderStays ==
    ASSUME NEW q, Reader(q), written' = written, reader' = reader
    PROVE  Reader(q)'
<1>1. /\ kind' = kind /\ reading' = reading /\ rbuf' = rbuf /\ escape' = escape /\ b' = b
      /\ eot' = eot /\ got' = got
  BY DEF reader
<1>2. Current(q)'
  BY <1>1 DEF Reader, Current
<1>3. Strings(q)'
  BY <1>1 DEF Reader, Strings
<1>4. Files(q)'
  BY <1>1 DEF Reader, Files, FileRead
<1>5. Pythons(q)'
  BY <1>1 DEF Reader, Pythons
<1> QED
  BY <1>2, <1>3, <1>4, <1>5 DEF Reader

LEMMA StartKeepsReader ==
    ASSUME Types, NEW q, Reader(q), NEW p \in Package, written' = Append(written, p), reader' = reader
    PROVE  Reader(q)'
<1>1. /\ kind' = kind /\ reading' = reading /\ rbuf' = rbuf /\ escape' = escape /\ b' = b
      /\ eot' = eot /\ got' = got
  BY DEF reader
<1>2. /\ written \in Seq(Package) /\ Len(written) \in Nat /\ Len(written') = Len(written) + 1
      /\ \A j \in 1..Len(written) : written'[j] = written[j]
      /\ written'[Len(written) + 1] = p /\ p \in Seq(Byte) /\ Len(p) \in Nat
  BY AppendProperties, PackageAssumption, LenProperties DEF Types
<1>3. q \in Place /\ q.pkg \in Nat \ {0} /\ q.pkg <= Len(written) + 1 /\ q.pos \in Nat
  BY DEF Reader, Current, Place
<1>4. q.pkg <= Len(written) => written'[q.pkg] = written[q.pkg]
  BY <1>2, <1>3
<1>5. Current(q)'
  <2>1. CASE q.pkg <= Len(written)
    <3>1. q.pkg <= Len(written')
      BY <1>2, <1>3, <2>1
    <3> QED
      BY <1>1, <1>2, <1>3, <1>4, <2>1, <3>1 DEF Reader, Current
  <2>2. CASE ~(q.pkg <= Len(written))
    <3>1. q.pkg = Len(written) + 1 /\ q.pos = 0
      BY <1>2, <1>3, <2>2 DEF Reader, Current
    <3>2. reading /\ kind # "python" => b' = b /\ Len(b) <= 0
      BY <1>1, <3>1 DEF Reader, Current
    <3>3. reading /\ kind # "python" => \A j \in 1..Len(b) : FALSE
      BY <3>2
    <3> QED
      BY <1>1, <1>2, <1>3, <3>1, <3>2, <3>3 DEF Reader, Current
  <2> QED
    BY <2>1, <2>2
<1>6. ASSUME Len(got) = q.pkg - 1  PROVE \A j \in 1..Len(got) : written'[j] = written[j]
  BY <1>2, <1>3, <1>6
<1>7. Strings(q)'
  BY <1>1, <1>6 DEF Reader, Strings
<1>8. Files(q)'
  <2>1. CASE kind = "file"
    <3>1. PICK g : \E c \in Nat : FileRead(q, g, c)
      BY <2>1 DEF Reader, Files
    <3>2. PICK c \in Nat : FileRead(q, g, c)
      BY <3>1
    <3>3. Flat(written', q.pkg - 1, g)
      <4>1. q.pkg - 1 \in 0..Len(written) /\ Flat(written, q.pkg - 1, g)
        BY <1>2, <1>3, <3>2 DEF FileRead
      <4> QED
        BY <1>2, <4>1, FlatKept
    <3>4. \A j \in 1..c : got[Len(g) + j] = Pieces(written'[q.pkg])[j]
      <4>1. CASE q.pkg <= Len(written)
        BY <1>4, <3>2, <4>1 DEF FileRead
      <4>2. CASE ~(q.pkg <= Len(written))
        <5>1. c * FileSize <= 0
          BY <3>2, <4>2 DEF FileRead, Reader, Current, Place
        <5>2. c = 0
          BY <5>1, BoundsAssumption, SMTT(30)
        <5> QED
          BY <5>2
      <4> QED
        BY <4>1, <4>2
    <3>5. FileRead(q, g, c)'
      BY <1>1, <3>2, <3>3, <3>4 DEF FileRead
    <3> QED
      BY <3>5 DEF Files
  <2>2. CASE kind # "file"
    BY <1>1, <2>2 DEF Files
  <2> QED
    BY <2>1, <2>2
<1>9. Pythons(q)'
  BY <1>1, <1>6 DEF Reader, Pythons
<1> QED
  BY <1>5, <1>7, <1>8, <1>9 DEF Reader

LEMMA StartKeepsWay ==
    ASSUME Room, Types, Writing, NEW q, OnTheWay(q), NEW p \in Package, StartWrite(p)
    PROVE  Writing' /\ OnTheWay(q)'
<1>1. /\ wpc = "idle" /\ written' = Append(written, p) /\ todo' = p /\ wpc' = "fill"
      /\ wbuf' = wbuf /\ sent' = sent /\ wire' = wire /\ rbuf' = rbuf
  BY DEF StartWrite, reader
<1>2. /\ written \in Seq(Package) /\ Len(written) \in Nat /\ Len(written') = Len(written) + 1
      /\ written' \in Seq(Package)
      /\ written'[Len(written) + 1] = p /\ p \in Seq(Byte) /\ Len(p) \in Nat
  BY <1>1, AppendProperties, PackageAssumption, LenProperties DEF Types
<1>3. Last1' = p
  BY <1>2 DEF Last1
<1>4. Writing'
  <2>1. written' # <<>>
    BY <1>2, EmptySeq
  <2>2. \A j \in 1..Len(p) : p[j] = p[(Len(p) - Len(p)) + j]
    BY <1>2
  <2> QED
    BY <1>1, <1>2, <1>3, <2>1, <2>2 DEF Writing
<1>5. There' = There
  <2>1. There = Start(Len(written) + 1)
    BY <1>1 DEF There
  <2>2. There' = [pkg |-> Len(written) + 1, pos |-> Len(p) - Len(p), esc |-> FALSE]
    BY <1>1, <1>2, <1>3 DEF There
  <2>3. Len(p) - Len(p) = 0
    BY <1>2
  <2> QED
    BY <2>1, <2>2, <2>3 DEF Start
<1>6. Move(written) \subseteq Move(written')
  BY <1>1, <1>2, MovesKept
<1>7. PICK m, n : /\ Path(Move(written), rbuf, q, m)
                  /\ Path(Move(written), wire, m, n)
                  /\ Path(Move(written), wbuf, n, There)
  BY <1>1 DEF OnTheWay
<1>8. /\ Path(Move(written'), rbuf, q, m)
      /\ Path(Move(written'), wire, m, n)
      /\ Path(Move(written'), wbuf, n, There)
  BY <1>6, <1>7, PathMore
<1>9. OnTheWay(q)'
  BY <1>1, <1>5, <1>8 DEF OnTheWay
<1> QED
  BY <1>4, <1>9

LEMMA FillKeepsWay ==
    ASSUME Room, Types, Writing, NEW q, OnTheWay(q), Fill
    PROVE  Writing' /\ OnTheWay(q)'
<1>1. /\ wpc = "fill" /\ wpc' = "fill" /\ todo # <<>> /\ wbuf' = wbuf \o Escaped(Head(todo))
      /\ todo' = Tail(todo) /\ written' = written /\ sent' = sent /\ wire' = wire /\ rbuf' = rbuf
  BY DEF Fill, reader
<1> DEFINE L == Len(written)
           p == Last1
           n == Len(p) - Len(todo)
<1>2. /\ written \in Seq(Package) /\ L \in Nat \ {0} /\ todo \in Seq(Byte) /\ Len(todo) \in Nat \ {0}
      /\ wbuf \in Seq(Byte) /\ Len(todo) <= Len(p)
      /\ \A j \in 1..Len(todo) : todo[j] = p[n + j]
  BY <1>1, EmptySeq, LenProperties DEF Types, Room, WriterRoom, Writing
<1>3. /\ Head(todo) = todo[1] /\ Head(todo) \in Byte
      /\ Tail(todo) \in Seq(Byte) /\ Len(Tail(todo)) = Len(todo) - 1
      /\ \A j \in 1..(Len(todo) - 1) : Tail(todo)[j] = todo[j + 1]
  BY <1>1, <1>2, HeadTailProperties
<1>4. L \in 1..L /\ p = written[L] /\ p \in Seq(Byte) /\ Len(p) \in Nat
  BY <1>2, WrittenType, LenProperties DEF Last1
<1>5. n \in Nat /\ n < Len(p) /\ Head(todo) = p[n + 1]
  BY <1>2, <1>3, <1>4
<1>6. Len(p) - Len(todo') = n + 1
  BY <1>1, <1>2, <1>3, <1>4
<1>7. Last1' = p
  BY <1>1 DEF Last1
<1>8. Writing'
  <2>1. \A j \in 1..Len(todo') : todo'[j] = p[(n + 1) + j]
    <3> SUFFICES ASSUME NEW j \in 1..Len(todo')  PROVE todo'[j] = p[(n + 1) + j]
      OBVIOUS
    <3>1. j \in 1..(Len(todo) - 1) /\ j + 1 \in 1..Len(todo) /\ n + (j + 1) = (n + 1) + j
      BY <1>1, <1>2, <1>3, <1>5
    <3> HIDE DEF n, p
    <3> QED
      BY <1>1, <1>2, <1>3, <3>1
  <2>2. Len(todo') <= Len(p)
    BY <1>1, <1>2, <1>3, <1>4
  <2> HIDE DEF n, p
  <2> QED
    BY <1>1, <1>2, <1>6, <1>7, <2>1, <2>2 DEF Writing
<1>9. Path(Move(written), Escaped(Head(todo)), There, There')
  <2>1. There = [pkg |-> L, pos |-> n, esc |-> FALSE]
    BY <1>1 DEF There
  <2>2. There' = [pkg |-> L, pos |-> n + 1, esc |-> FALSE]
    <3> HIDE DEF n, p
    <3> QED
      BY <1>1, <1>6, <1>7 DEF There
  <2>3. n < Len(written[L])
    BY <1>4, <1>5
  <2>4. written[L][n + 1] = Head(todo) /\ L \in 1..Len(written)
    BY <1>4, <1>5
  <2> HIDE DEF n, L, p
  <2>5. Path(Move(written), Escaped(written[L][n + 1]), [pkg |-> L, pos |-> n, esc |-> FALSE],
             [pkg |-> L, pos |-> n + 1, esc |-> FALSE])
    BY <1>2, <1>5, <2>3, <2>4, EscapedMoves
  <2> QED
    BY <2>1, <2>2, <2>4, <2>5
<1>10. PICK m, x : /\ Path(Move(written), rbuf, q, m)
                   /\ Path(Move(written), wire, m, x)
                   /\ Path(Move(written), wbuf, x, There)
  BY <1>1 DEF OnTheWay
<1>11. Path(Move(written), wbuf \o Escaped(Head(todo)), x, There')
  <2>1. Escaped(Head(todo)) \in Seq(Byte)
    BY <1>3, EscapedType
  <2> QED
    BY <1>2, <1>9, <1>10, <2>1, PathJoin
<1>12. OnTheWay(q)'
  BY <1>1, <1>10, <1>11 DEF OnTheWay
<1> QED
  BY <1>8, <1>12

LEMMA EndKeepsWay ==
    ASSUME Room, Types, Writing, NEW q, OnTheWay(q), EndOfPackage
    PROVE  Writing' /\ OnTheWay(q)'
<1>1. /\ wpc = "fill" /\ wpc' = "end" /\ todo = <<>> /\ wbuf' = Append(wbuf, "newline")
      /\ written' = written /\ sent' = 0 /\ wire' = wire /\ rbuf' = rbuf
  BY DEF EndOfPackage, reader
<1>2. Writing'
  BY <1>1 DEF Writing
<1> DEFINE L == Len(written)
<1>3. /\ written \in Seq(Package) /\ L \in Nat \ {0} /\ wbuf \in Seq(Byte)
  BY <1>1, EmptySeq, LenProperties DEF Types, Room, WriterRoom, Writing
<1>4. L \in 1..L /\ written[L] \in Seq(Byte) /\ Len(written[L]) \in Nat
  BY <1>3, WrittenType, LenProperties
<1>5. There = [pkg |-> L, pos |-> Len(written[L]), esc |-> FALSE]
  <2>1. There = [pkg |-> L, pos |-> Len(written[L]) - Len(todo), esc |-> FALSE]
    BY <1>1 DEF There, Last1
  <2>2. Len(written[L]) - Len(todo) = Len(written[L])
    BY <1>1, <1>4
  <2> QED
    BY <2>1, <2>2
<1>6. There' = Start(L + 1)
  BY <1>1 DEF There
<1>7. <<There, "newline", There'>> \in Move(written)
  <2>1. There \in Place /\ There' \in Place /\ "newline" \in Byte
    BY <1>3, <1>4, <1>5, <1>6 DEF Place, Start, Byte
  <2>2. There.pkg = L /\ There.pos = Len(written[L]) /\ ~There.esc
    BY <1>5
  <2>3. Moves(written, There, "newline", There')
    <3>1. L <= Len(written)
      BY <1>3
    <3> HIDE DEF L
    <3> QED
      BY <1>6, <2>2, <3>1 DEF Moves
  <2> QED
    BY <2>1, <2>3 DEF Move
<1>8. PICK m, x : /\ Path(Move(written), rbuf, q, m)
                  /\ Path(Move(written), wire, m, x)
                  /\ Path(Move(written), wbuf, x, There)
  BY <1>1 DEF OnTheWay
<1>9. Path(Move(written), wbuf', x, There')
  <2>1. Path(Move(written), <<"newline">>, There, There')
    BY <1>7, PathOne
  <2>2. <<"newline">> \in Seq(Byte) /\ wbuf' = wbuf \o <<"newline">>
    <3>1. "newline" \in Byte
      BY DEF Byte
    <3>2. Append(wbuf, "newline") = wbuf \o <<"newline">>
      BY <1>3, <3>1, AppendIsConcat
    <3> QED
      BY <1>1, <3>1, <3>2
  <2> QED
    BY <1>3, <1>8, <2>1, <2>2, PathJoin
<1>10. OnTheWay(q)'
  BY <1>1, <1>8, <1>9 DEF OnTheWay
<1> QED
  BY <1>2, <1>10

LEMMA SendKeepsWay ==
    ASSUME ~ShortSends, Room, Types, Writing, NEW q, OnTheWay(q), Send
    PROVE  Writing' /\ OnTheWay(q)'
<1>1. /\ wpc \in {"spill", "end"} /\ written' = written /\ todo' = todo /\ rbuf' = rbuf
      /\ wbuf \in Seq(Byte) /\ wire \in Seq(Byte) /\ Len(wbuf) \in Nat /\ sent = 0
  BY LenProperties DEF Send, reader, Room, WriterRoom, ReaderRoom, Writing
<1>2. PICK s \in 1..(Len(wbuf) - sent) :
          /\ s = Len(wbuf) - sent
          /\ wire' = wire \o SubSeq(wbuf, 1, s)
          /\ IF sent + s = Len(wbuf)
             THEN /\ wbuf' = <<>> /\ sent' = 0
                  /\ wpc' = IF wpc = "spill" THEN "fill" ELSE "idle"
             ELSE sent' = sent + s /\ UNCHANGED <<wbuf, wpc>>
  BY DEF Send
<1>3. s = Len(wbuf) /\ sent + s = Len(wbuf)
  BY <1>1, <1>2
<1>4. wbuf' = <<>> /\ sent' = 0 /\ wpc' = IF wpc = "spill" THEN "fill" ELSE "idle"
  BY <1>2, <1>3
<1>5. wire' = wire \o wbuf
  <2> DEFINE x == SubSeq(wbuf, 1, Len(wbuf))
  <2>1. x \in Seq(Byte) /\ Len(x) = Len(wbuf) /\ \A j \in 1..Len(wbuf) : x[j] = wbuf[j]
    BY <1>1, SubSeqProperties
  <2>2. wire' = wire \o x
    BY <1>2, <1>3
  <2> HIDE DEF x
  <2>3. x = wbuf
    BY <1>1, <2>1, SeqEqual
  <2> QED
    BY <2>2, <2>3
<1>6. There' = There /\ Last1' = Last1
  BY <1>1, <1>4 DEF There, Last1
<1>7. Writing'
  BY <1>1, <1>4, <1>6 DEF Writing
<1>8. PICK m, n : /\ Path(Move(written), rbuf, q, m)
                  /\ Path(Move(written), wire, m, n)
                  /\ Path(Move(written), wbuf, n, There)
  BY <1>1 DEF OnTheWay
<1>9. Path(Move(written), wire', m, There)
  BY <1>1, <1>5, <1>8, PathJoin
<1>10. Path(Move(written), wbuf', There, There)
  BY <1>4, PathEmpty
<1>11. OnTheWay(q)'
  BY <1>1, <1>6, <1>8, <1>9, <1>10 DEF OnTheWay
<1> QED
  BY <1>7, <1>11

LEMMA WriterKeepsInv ==
    ASSUME ~ShortSends, Inv, (\E p \in Package : StartWrite(p)) \/ Write \/ Close
    PROVE  Writing' /\ (eot' => ~reading') /\ Arrived'
<1>1. PICK q : Reader(q) /\ OnTheWay(q)
  BY DEF Inv, Arrived
<1>2. reader' = reader
  BY DEF StartWrite, Write, Spill, Fill, EndOfPackage, Send, Close, reader
<1>3. eot' => ~reading'
  BY <1>2 DEF Inv, reader
<1>4. ASSUME NEW p \in Package, StartWrite(p)  PROVE Writing' /\ Arrived'
  <2>1. Reader(q)'
    BY <1>1, <1>2, <1>4, StartKeepsReader DEF Inv, StartWrite
  <2>2. Writing' /\ OnTheWay(q)'
    BY <1>1, <1>4, StartKeepsWay DEF Inv
  <2> QED
    BY <2>1, <2>2 DEF Arrived
<1>5. ASSUME Write \/ Close  PROVE Writing' /\ Arrived'
  <2>1. written' = written
    BY <1>5 DEF Write, Close, Spill, Fill, EndOfPackage, Send
  <2>2. Reader(q)'
    BY <1>1, <1>2, <2>1, ReaderStays
  <2>3. CASE Spill
    <3>1. /\ wpc = "fill" /\ wpc' = "spill" /\ sent' = 0
          /\ UNCHANGED <<written, todo, wbuf, wire, rbuf>>
      BY <2>3 DEF Spill, reader
    <3>2. There' = There /\ Last1' = Last1
      BY <3>1 DEF There, Last1
    <3>3. Writing'
      BY <3>1, <3>2 DEF Writing, Inv
    <3>4. OnTheWay(q)'
      BY <1>1, <3>1, <3>2 DEF OnTheWay
    <3> QED
      BY <2>2, <3>3, <3>4 DEF Arrived
  <2>4. CASE Close
    <3>1. wpc' = "closed" /\ UNCHANGED <<written, todo, wbuf, sent, wire, rbuf>>
      BY <2>4 DEF Close, reader
    <3>2. Writing'
      BY <3>1 DEF Writing, Inv
    <3>3. OnTheWay(q)'
      BY <1>1, <3>1 DEF OnTheWay
    <3> QED
      BY <2>2, <3>2, <3>3 DEF Arrived
  <2>5. CASE Fill
    BY <1>1, <2>2, <2>5, FillKeepsWay DEF Inv, Arrived
  <2>6. CASE EndOfPackage
    BY <1>1, <2>2, <2>6, EndKeepsWay DEF Inv, Arrived
  <2>7. CASE Send
    BY <1>1, <2>2, <2>7, SendKeepsWay DEF Inv, Arrived
  <2> QED
    BY <1>5, <2>3, <2>4, <2>5, <2>6, <2>7 DEF Write
<1> QED
  BY <1>3, <1>4, <1>5

-----------------------------------------------------------------------------
(***************************************************************************)
(* The reader, at the same place: what the writer has put on the way is    *)
(* left as it is.                                                          *)
(***************************************************************************)
LEMMA WriterStays ==
    ASSUME writer' = writer
    PROVE  /\ There' = There /\ (Writing => Writing')
           /\ written' = written /\ wpc' = wpc /\ wbuf' = wbuf
  BY DEF writer, There, Last1, Writing

LEMMA WayStays ==
    ASSUME NEW q, OnTheWay(q), writer' = writer, rbuf' = rbuf, wire' = wire
    PROVE  OnTheWay(q)'
  BY WriterStays DEF OnTheWay

LEMMA StartReadKeeps ==
    ASSUME Types, NEW q, Reader(q), StartRead
    PROVE  Reader(q)'
<1>1. /\ ~reading /\ ~eot /\ reading' = TRUE /\ b' = <<>> /\ written' = written
      /\ UNCHANGED <<kind, rbuf, escape, eot, got>>
  BY DEF StartRead, writer
<1>2. q \in Place /\ q.pos \in Nat
  BY DEF Reader, Current, Place
<1>3. Current(q)'
  <2>1. Len(b') = 0
    BY <1>1
  <2>2. \A j \in 1..Len(b') : FALSE
    BY <2>1
  <2> QED
    BY <1>1, <1>2, <2>1, <2>2 DEF Reader, Current
<1>4. Strings(q)'
  <2>1. kind = "string" => q.pos = 0 * StringSize + Len(b')
    BY <1>1, BoundsAssumption DEF Reader, Strings
  <2>2. kind = "string" => \E c \in Nat : q.pos = c * StringSize + Len(b')
    BY <2>1
  <2> QED
    BY <1>1, <2>2 DEF Reader, Strings
<1>5. Files(q)'
  <2>1. CASE kind = "file"
    <3>1. PICK g : \E c \in Nat : FileRead(q, g, c)
      BY <2>1 DEF Reader, Files
    <3>2. PICK c \in Nat : FileRead(q, g, c)
      BY <3>1
    <3>3. q.pos = c * FileSize + Len(b')
      BY <1>1, <3>2, BoundsAssumption DEF FileRead
    <3>4. FileRead(q, g, c)'
      BY <1>1, <3>2, <3>3 DEF FileRead
    <3> QED
      BY <3>4 DEF Files
  <2>2. CASE kind # "file"
    BY <1>1, <2>2 DEF Files
  <2> QED
    BY <2>1, <2>2
<1>6. Pythons(q)'
  BY <1>1 DEF Reader, Pythons
<1> QED
  BY <1>3, <1>4, <1>5, <1>6 DEF Reader

LEMMA RecvKeeps ==
    ASSUME Room, NEW q, Reader(q), OnTheWay(q), Recv
    PROVE  Reader(q)' /\ OnTheWay(q)'
<1>1. /\ kind # "python" /\ rbuf = <<>> /\ writer' = writer /\ written' = written
      /\ UNCHANGED <<kind, reading, escape, b, eot, got>>
  BY DEF Recv, EscapeKept, writer, call
<1>2. Current(q)' /\ Strings(q)'
  BY <1>1 DEF Reader, Current, Strings
<1>3. Files(q)' /\ Pythons(q)'
  BY <1>1 DEF Reader, Files, FileRead, Pythons
<1>4. PICK n \in 1..Len(wire) :
          rbuf' = SubSeq(wire, 1, n) /\ wire' = SubSeq(wire, n + 1, Len(wire))
  BY DEF Recv
<1>5. PICK m, z : /\ Path(Move(written), rbuf, q, m)
                  /\ Path(Move(written), wire, m, z)
                  /\ wpc # "closed" => Path(Move(written), wbuf, z, There)
  BY DEF OnTheWay
<1>6. m = q
  BY <1>1, <1>5, PathEmpty
<1>7. wire \in Seq(Byte) /\ n \in 0..Len(wire)
  BY LenProperties DEF Room, ReaderRoom
<1>8. PICK x : /\ Path(Move(written), SubSeq(wire, 1, n), q, x)
               /\ Path(Move(written), SubSeq(wire, n + 1, Len(wire)), x, z)
  BY <1>5, <1>6, <1>7, PathCut
<1>9. OnTheWay(q)'
  BY <1>1, <1>4, <1>5, <1>8, WriterStays DEF OnTheWay
<1> QED
  BY <1>2, <1>3, <1>9 DEF Reader

LEMMA RecvEndKeeps ==
    ASSUME NEW q, Reader(q), RecvEnd
    PROVE  Reader(q)'
<1>1. /\ eot' = TRUE /\ reading' = FALSE /\ written' = written
      /\ UNCHANGED <<kind, rbuf, escape, b, got>>
  BY DEF RecvEnd, writer, call
<1>2. Current(q)' /\ Strings(q)'
  BY <1>1 DEF Reader, Current, Strings
<1>3. Files(q)'
  BY <1>1 DEF Reader, Files, FileRead
<1>4. Pythons(q)'
  BY <1>1 DEF Reader, Pythons
<1> QED
  BY <1>2, <1>3, <1>4 DEF Reader

LEMMA StringFullKeeps ==
    ASSUME NEW q, Reader(q), StringFull
    PROVE  Reader(q)'
<1>1. /\ reading /\ kind = "string" /\ Len(b) = StringSize /\ b' = <<>> /\ written' = written
      /\ UNCHANGED <<kind, reading, rbuf, escape, eot, got>>
  BY DEF StringFull, writer, call, Size
<1>2. q \in Place /\ q.pos \in Nat
  BY DEF Reader, Current, Place
<1>3. Len(b') = 0 /\ \A j \in 1..Len(b') : FALSE
  BY <1>1
<1>4. Current(q)'
  BY <1>1, <1>2, <1>3 DEF Reader, Current
<1>5. Strings(q)'
  <2>1. PICK c \in Nat : q.pos = c * StringSize + Len(b)
    BY <1>1 DEF Reader, Strings
  <2>2. q.pos = (c + 1) * StringSize + 0
    BY <1>1, <2>1, Times, BoundsAssumption
  <2>3. \E d \in Nat : q.pos = d * StringSize + Len(b')
    BY <1>3, <2>2
  <2> QED
    BY <1>1, <2>3 DEF Reader, Strings
<1> QED
  BY <1>1, <1>4, <1>5 DEF Reader, Files, Pythons

(***************************************************************************)
(* A full buffer of readFD is the next piece of the package.               *)
(***************************************************************************)
LEMMA FileFullKeeps ==
    ASSUME Room, Types, NEW q, Reader(q), FileFull, eot => ~reading
    PROVE  Reader(q)'
<1>1. /\ reading /\ ~eot /\ kind = "file" /\ Len(b) = FileSize /\ written' = written
      /\ reading' = FALSE /\ got' = Append(got, b)
      /\ UNCHANGED <<kind, rbuf, escape, b, eot>>
  BY DEF FileFull, Returns, writer, call, Size
<1>2. q \in Place /\ q.pos \in Nat /\ q.pkg \in Nat \ {0} /\ Len(b) <= q.pos
  BY <1>1 DEF Reader, Current, Place
<1>3. /\ written \in Seq(Package) /\ Len(written) \in Nat /\ b \in Seq(Byte)
      /\ got \in Seq(Seq(Byte)) /\ FileSize \in Nat \ {0}
  BY LenProperties, BoundsAssumption DEF Room, ReaderRoom, Types
<1>4. q.pkg \in 1..Len(written)
  <2>1. q.pos # 0
    BY <1>1, <1>2, <1>3
  <2> QED
    BY <1>2, <1>3, <2>1 DEF Reader, Current
<1> DEFINE p == written[q.pkg]
<1>5. p \in Seq(Byte) /\ Len(p) \in Nat /\ q.pos <= Len(p)
      /\ \A j \in 1..Len(b) : b[j] = p[(q.pos - Len(b)) + j]
  BY <1>1, <1>3, <1>4, WrittenType, LenProperties DEF Reader, Current
<1>6. PICK g : \E c \in Nat : FileRead(q, g, c)
  BY <1>1 DEF Reader, Files
<1>7. PICK c \in Nat : FileRead(q, g, c)
  BY <1>6
<1>8. q.pos = c * FileSize + FileSize /\ c * FileSize \in Nat /\ (c + 1) * FileSize = q.pos
  <2>1. q.pos = c * FileSize + FileSize
    BY <1>1, <1>7 DEF FileRead
  <2> QED
    BY <1>3, <2>1, Times
<1> HIDE DEF p
<1>9. b = Pieces(p)[c + 1]
  <2>1. Pieces(p)[c + 1] = SubSeq(p, c * FileSize + 1, c * FileSize + FileSize)
    BY <1>5, <1>8, PiecesIs
  <2> DEFINE k == c * FileSize
             x == SubSeq(p, k + 1, k + FileSize)
  <2>2. k \in Nat /\ k + FileSize <= Len(p) /\ k = q.pos - Len(b)
    BY <1>1, <1>3, <1>5, <1>8
  <2> HIDE DEF k
  <2>3. x \in Seq(Byte) /\ Len(x) = FileSize /\ \A j \in 1..FileSize : x[j] = p[k + j]
    <3>1. \A j \in (k + 1)..(k + FileSize) : j \in 1..Len(p)
      BY <1>3, <1>5, <2>2
    <3>2. /\ x \in Seq(Byte)
          /\ Len(x) = IF k + 1 <= k + FileSize THEN (k + FileSize) - (k + 1) + 1 ELSE 0
          /\ \A i \in 1..((k + FileSize) - (k + 1) + 1) : x[i] = p[(k + 1) + i - 1]
      <4>1. k + 1 \in 1..(Len(p) + 1) /\ k + FileSize \in 0..Len(p)
        BY <1>3, <1>5, <2>2
      <4> QED
        BY <1>5, <4>1, SubSeqProperties
    <3>3. (k + FileSize) - (k + 1) + 1 = FileSize /\ k + 1 <= k + FileSize
      BY <1>3, <2>2
    <3>4. \A i \in 1..FileSize : (k + 1) + i - 1 = k + i
      BY <1>3, <2>2
    <3> HIDE DEF x
    <3> QED
      BY <3>2, <3>3, <3>4
  <2> HIDE DEF x
  <2>4. \A j \in 1..Len(b) : b[j] = x[j]
    BY <1>1, <1>5, <2>2, <2>3
  <2>5. b = x
    BY <1>1, <1>3, <2>3, <2>4, SeqEqual
  <2> QED
    BY <2>1, <2>5 DEF x, k
<1>10. Len(got) = Len(g) + c /\ Len(got) \in Nat
  BY <1>3, <1>7, LenProperties DEF FileRead
<1>11. /\ Len(got') = Len(got) + 1 /\ got'[Len(got) + 1] = b
       /\ \A j \in 1..Len(got) : got'[j] = got[j]
  BY <1>1, <1>3, AppendProperties
<1>12. FileRead(q, g, c + 1)'
  <2>1. Len(g) \in Nat
    <3>1. q.pkg - 1 \in 0..Len(written)
      BY <1>3, <1>4
    <3>2. g \in Seq(Seq(Byte))
      BY <1>3, <1>7, <3>1, FlatBegins DEF FileRead
    <3> QED
      BY <3>2, LenProperties
  <2>2. Flat(written', q.pkg - 1, g)
    BY <1>1, <1>7 DEF FileRead
  <2>3. Len(got') = Len(g) + (c + 1)
    BY <1>10, <1>11, <2>1
  <2>4. \A j \in 1..Len(g) : got'[j] = g[j]
    BY <1>7, <1>10, <1>11, <2>1 DEF FileRead
  <2>5. ASSUME NEW j \in 1..(c + 1)  PROVE got'[Len(g) + j] = Pieces(written'[q.pkg])[j]
    <3>1. CASE j = c + 1
      <4>1. Len(g) + j = Len(got) + 1
        BY <1>10, <2>1, <3>1
      <4> QED
        BY <1>1, <1>9, <1>11, <3>1, <4>1 DEF p
    <3>2. CASE j # c + 1
      <4>1. j \in 1..c /\ Len(g) + j \in 1..Len(got)
        BY <1>10, <2>1, <3>2
      <4> QED
        BY <1>1, <1>7, <1>11, <4>1 DEF FileRead
    <3> QED
      BY <3>1, <3>2
  <2>6. (c + 1) * FileSize <= q.pos
    BY <1>2, <1>8
  <2>7. q.pos = (c + 1) * FileSize + 0
    BY <1>2, <1>8
  <2> QED
    BY <1>1, <2>2, <2>3, <2>4, <2>5, <2>6, <2>7 DEF FileRead
<1>13. Files(q)'
  <2>1. c + 1 \in Nat
    OBVIOUS
  <2> QED
    BY <1>12, <2>1 DEF Files
<1>14. Current(q)' /\ Strings(q)' /\ Pythons(q)'
  BY <1>1 DEF Reader, Current, Strings, Pythons
<1> QED
  BY <1>13, <1>14 DEF Reader

(***************************************************************************)
(* A byte that the reader takes takes it to another place.                 *)
(***************************************************************************)
LEMMA TookByte ==
    ASSUME Room, NEW c, TakeByte(c), NEW q, OnTheWay(q)
    PROVE  \E m : <<q, c, m>> \in Move(written) /\ OnTheWay(m)'
<1>1. /\ rbuf # <<>> /\ c = Head(rbuf) /\ rbuf' = Tail(rbuf) /\ writer' = writer /\ wire' = wire
      /\ rbuf \in Seq(Byte)
  BY DEF TakeByte, Room, ReaderRoom
<1>2. PICK x, z : /\ Path(Move(written), rbuf, q, x)
                  /\ Path(Move(written), wire, x, z)
                  /\ wpc # "closed" => Path(Move(written), wbuf, z, There)
  BY DEF OnTheWay
<1>3. PICK m : <<q, c, m>> \in Move(written) /\ Path(Move(written), rbuf', m, x)
  BY <1>1, <1>2, PathHead
<1>4. OnTheWay(m)'
  BY <1>1, <1>2, <1>3, WriterStays DEF OnTheWay
<1> QED
  BY <1>3, <1>4

(***************************************************************************)
(* A byte of the package: it is added to the caller's buffer.              *)
(***************************************************************************)
LEMMA AddKeeps ==
    ASSUME Room, Types, NEW q, Reader(q), NEW x \in Byte,
           reading, kind # "python", eot => ~reading,
           q.pkg <= Len(written), q.pos < Len(written[q.pkg]), x = written[q.pkg][q.pos + 1],
           b' = Append(b, x), escape' = FALSE,
           UNCHANGED <<written, kind, reading, eot, got>>
    PROVE  Reader([pkg |-> q.pkg, pos |-> q.pos + 1, esc |-> FALSE])'
<1> DEFINE m == [pkg |-> q.pkg, pos |-> q.pos + 1, esc |-> FALSE]
<1>1. /\ q \in Place /\ q.pos \in Nat /\ q.pkg \in Nat \ {0}
      /\ Len(b) <= q.pos /\ \A j \in 1..Len(b) : b[j] = written[q.pkg][(q.pos - Len(b)) + j]
  BY DEF Reader, Current, Place
<1>2. b \in Seq(Byte) /\ Len(b) \in Nat /\ written \in Seq(Package) /\ Len(written) \in Nat
  BY LenProperties DEF Room, ReaderRoom, Types
<1>3. q.pkg \in 1..Len(written)
  BY <1>1, <1>2
<1>4. Len(written[q.pkg]) \in Nat
  BY <1>2, <1>3, WrittenType, LenProperties
<1>5. m \in Place /\ m.pkg = q.pkg /\ m.pos = q.pos + 1 /\ m.esc = FALSE
  BY <1>1 DEF Place
<1>6. /\ Len(b') = Len(b) + 1 /\ b'[Len(b) + 1] = x
      /\ \A j \in 1..Len(b) : b'[j] = b[j]
  BY <1>2, AppendProperties
<1> HIDE DEF m
<1>7. Current(m)'
  <2>1. ASSUME NEW j \in 1..Len(b')  PROVE b'[j] = written[q.pkg][(m.pos - Len(b')) + j]
    <3>1. m.pos - Len(b') = q.pos - Len(b)
      BY <1>1, <1>2, <1>5, <1>6
    <3>2. CASE j = Len(b) + 1
      <4>1. (q.pos - Len(b)) + j = q.pos + 1
        <5>1. q.pos \in Nat /\ Len(b) \in Nat
          BY <1>1, <1>2
        <5>2. (q.pos - Len(b)) + (Len(b) + 1) = q.pos + 1
          BY <5>1
        <5> QED
          BY <3>2, <5>2
      <4> QED
        BY <1>6, <3>1, <3>2, <4>1
    <3>3. CASE j # Len(b) + 1
      <4>1. j \in 1..Len(b)
        BY <1>2, <1>6, <3>3
      <4> QED
        BY <1>1, <1>6, <3>1, <4>1
    <3> QED
      BY <3>2, <3>3
  <2>2. m.pos <= Len(written[q.pkg]) /\ Len(b') <= m.pos
    BY <1>1, <1>2, <1>4, <1>5, <1>6
  <2>3. m.pkg <= Len(written) + 1
    BY <1>1, <1>2, <1>5
  <2> QED
    BY <1>5, <2>1, <2>2, <2>3 DEF Current
<1>8. Strings(m)'
  <2>1. CASE kind = "string"
    <3>1. PICK c \in Nat : q.pos = c * StringSize + Len(b)
      BY <2>1 DEF Reader, Strings
    <3>2. c * StringSize \in Nat
      BY Times, BoundsAssumption
    <3>3. m.pos = c * StringSize + Len(b')
      BY <1>2, <1>5, <1>6, <3>1, <3>2
    <3> QED
      BY <1>5, <2>1, <3>3 DEF Reader, Strings
  <2>2. CASE kind # "string"
    BY <2>2 DEF Strings
  <2> QED
    BY <2>1, <2>2
<1>9. Files(m)'
  <2>1. CASE kind = "file"
    <3>1. PICK g : \E c \in Nat : FileRead(q, g, c)
      BY <2>1 DEF Reader, Files
    <3>2. PICK c \in Nat : FileRead(q, g, c)
      BY <3>1
    <3>3. c * FileSize \in Nat
      BY Times, BoundsAssumption
    <3>4. m.pos = c * FileSize + Len(b') /\ c * FileSize <= m.pos
      <4>1. q.pos = c * FileSize + Len(b)
        BY <3>2 DEF FileRead
      <4> QED
        BY <1>1, <1>2, <1>5, <1>6, <3>3, <4>1
    <3>5. FileRead(m, g, c)'
      BY <1>5, <3>2, <3>4 DEF FileRead
    <3> QED
      BY <3>5 DEF Files
  <2>2. CASE kind # "file"
    BY <2>2 DEF Files
  <2> QED
    BY <2>1, <2>2
<1>10. Pythons(m)'
  BY DEF Pythons
<1> QED
  BY <1>7, <1>8, <1>9, <1>10 DEF Reader, m

LEMMA AddByteKeeps ==
    ASSUME Inv, NEW c \in Byte, EscapedByte(c) \/ PlainByte(c)
    PROVE  Arrived'
<1>1. TakeByte(c)
  BY DEF EscapedByte, PlainByte
<1>2. PICK q : Reader(q) /\ OnTheWay(q)
  BY DEF Inv, Arrived
<1>3. PICK m : <<q, c, m>> \in Move(written) /\ OnTheWay(m)'
  BY <1>1, <1>2, TookByte DEF Inv
<1>4. Moves(written, q, c, m)
  BY <1>3 DEF Move
<1>5. /\ reading /\ rbuf # <<>> /\ escape \in BOOLEAN /\ q.esc = escape
      /\ UNCHANGED <<written, kind, reading, eot, got>>
  BY <1>1, <1>2 DEF TakeByte, EscapedByte, PlainByte, writer, call, Inv, Types, Reader, Current
<1>6. kind # "python"
  BY <1>2, <1>5 DEF Reader, Pythons
<1> DEFINE x == written[q.pkg][q.pos + 1]
<1>7. /\ q.pkg <= Len(written) /\ q.pos < Len(written[q.pkg])
      /\ m = [pkg |-> q.pkg, pos |-> q.pos + 1, esc |-> FALSE]
      /\ b' = Append(b, x) /\ escape' = FALSE
  <2>1. CASE EscapedByte(c)
    <3>1. escape /\ b' = Append(b, IF c = "n" THEN "newline" ELSE c) /\ escape' = FALSE
      BY <2>1 DEF EscapedByte
    <3>2. q.esc /\ c # "newline"
      BY <1>4, <1>5, <3>1 DEF Moves
    <3>3. /\ q.pkg <= Len(written) /\ q.pos < Len(written[q.pkg])
          /\ m = [pkg |-> q.pkg, pos |-> q.pos + 1, esc |-> FALSE] /\ x = Original(c)
      BY <1>4, <3>2 DEF Moves
    <3> QED
      BY <3>1, <3>3 DEF Original
  <2>2. CASE PlainByte(c)
    <3>1. ~escape /\ c \notin {"newline", "backslash"} /\ b' = Append(b, c) /\ escape' = escape
      BY <2>2 DEF PlainByte
    <3>2. /\ q.pkg <= Len(written) /\ q.pos < Len(written[q.pkg])
          /\ m = [pkg |-> q.pkg, pos |-> q.pos + 1, esc |-> FALSE] /\ x = c
      BY <1>4, <1>5, <3>1 DEF Moves
    <3> QED
      BY <1>5, <3>1, <3>2
  <2> QED
    BY <2>1, <2>2
<1>8. x \in Byte
  <2>1. /\ q.pkg \in Nat \ {0} /\ q.pos \in Nat
        /\ written \in Seq(Package) /\ Len(written) \in Nat
    BY <1>2, LenProperties DEF Reader, Current, Place, Inv, Types
  <2>2. q.pkg \in 1..Len(written)
    BY <1>7, <2>1
  <2>3. written[q.pkg] \in Seq(Byte) /\ Len(written[q.pkg]) \in Nat
    BY <2>1, <2>2, WrittenType, LenProperties
  <2>4. q.pos + 1 \in 1..Len(written[q.pkg])
    BY <1>7, <2>1, <2>3
  <2> QED
    BY <2>3, <2>4, ElementOfSeq
<1>9. Reader(m)'
  <2> HIDE DEF x
  <2>1. x = written[q.pkg][q.pos + 1]
    BY DEF x
  <2> QED
    BY <1>2, <1>5, <1>6, <1>7, <1>8, <2>1, AddKeeps DEF Inv
<1> QED
  BY <1>3, <1>9 DEF Arrived

(***************************************************************************)
(* The backslash of an escape.                                             *)
(***************************************************************************)
LEMMA BackslashKeeps ==
    ASSUME Inv, Backslash
    PROVE  Arrived'
<1>1. TakeByte("backslash") /\ ~escape /\ escape' = TRUE /\ UNCHANGED <<reading, b, got>>
  BY DEF Backslash
<1>2. PICK q : Reader(q) /\ OnTheWay(q)
  BY DEF Inv, Arrived
<1>3. PICK m : <<q, "backslash", m>> \in Move(written) /\ OnTheWay(m)'
  BY <1>1, <1>2, TookByte DEF Inv
<1>4. Moves(written, q, "backslash", m) /\ m \in Place
  BY <1>3 DEF Move
<1>5. /\ rbuf # <<>> /\ escape \in BOOLEAN /\ q.esc = escape
      /\ UNCHANGED <<written, kind, eot>>
  BY <1>1, <1>2 DEF TakeByte, writer, call, Inv, Types, Reader, Current
<1>6. m.pkg = q.pkg /\ m.pos = q.pos /\ m.esc = TRUE
  BY <1>1, <1>4, <1>5 DEF Moves
<1>7. Current(m)'
  BY <1>1, <1>2, <1>4, <1>5, <1>6 DEF Reader, Current
<1>8. Strings(m)'
  BY <1>1, <1>2, <1>5, <1>6 DEF Reader, Strings
<1>9. Files(m)'
  <2>1. CASE kind = "file"
    <3>1. PICK g : \E c \in Nat : FileRead(q, g, c)
      BY <1>2, <2>1 DEF Reader, Files
    <3>2. PICK c \in Nat : FileRead(q, g, c)
      BY <3>1
    <3>3. FileRead(m, g, c)'
      BY <1>1, <1>5, <1>6, <3>2 DEF FileRead
    <3> QED
      BY <3>3 DEF Files
  <2>2. CASE kind # "file"
    BY <1>5, <2>2 DEF Files
  <2> QED
    BY <2>1, <2>2
<1>10. Pythons(m)'
  BY <1>2, <1>5 DEF Reader, Pythons
<1> QED
  BY <1>3, <1>7, <1>8, <1>9, <1>10 DEF Reader, Arrived

(***************************************************************************)
(* The newline: the string's last piece, or the file's, is in the buffer.  *)
(***************************************************************************)
LEMMA SubSeqIs ==
    ASSUME NEW p \in Seq(Byte), NEW k \in 0..Len(p), NEW d \in Seq(Byte),
           Len(d) = Len(p) - k, \A j \in 1..Len(d) : d[j] = p[k + j]
    PROVE  d = SubSeq(p, k + 1, Len(p))
<1> DEFINE x == SubSeq(p, k + 1, Len(p))
<1>0. Len(p) \in Nat /\ k \in Nat /\ k <= Len(p)
  BY LenProperties
<1>1. /\ x \in Seq(Byte)
      /\ Len(x) = IF k + 1 <= Len(p) THEN Len(p) - (k + 1) + 1 ELSE 0
      /\ \A i \in 1..(Len(p) - (k + 1) + 1) : x[i] = p[(k + 1) + i - 1]
  <2>1. k + 1 \in 1..(Len(p) + 1) /\ Len(p) \in 0..Len(p)
    BY <1>0
  <2> QED
    BY <2>1, SubSeqProperties
<1>2. Len(x) = Len(p) - k /\ Len(p) - (k + 1) + 1 = Len(p) - k
  BY <1>0, <1>1
<1>3. \A i \in 1..Len(d) : (k + 1) + i - 1 = k + i
  BY <1>0
<1> HIDE DEF x
<1>4. \A i \in 1..Len(d) : d[i] = x[i]
  BY <1>1, <1>2, <1>3
<1>5. d = x
  BY <1>1, <1>2, <1>4, SeqEqual
<1> QED
  BY <1>5 DEF x

LEMMA NewlineKeeps ==
    ASSUME Inv, Newline
    PROVE  Arrived'
<1>1. /\ TakeByte("newline") /\ ~escape /\ got' = Append(got, b) /\ reading' = FALSE
      /\ escape' = escape /\ b' = b
  BY DEF Newline, Returns
<1>2. PICK q : Reader(q) /\ OnTheWay(q)
  BY DEF Inv, Arrived
<1>3. PICK m : <<q, "newline", m>> \in Move(written) /\ OnTheWay(m)'
  BY <1>1, <1>2, TookByte DEF Inv
<1>4. Moves(written, q, "newline", m) /\ m \in Place
  BY <1>3 DEF Move
<1>5. /\ reading /\ ~eot /\ rbuf # <<>> /\ Len(b) < Size /\ escape \in BOOLEAN
      /\ UNCHANGED <<written, kind, eot>>
  BY <1>1 DEF TakeByte, writer, call, Inv, Types
<1>6. kind # "python"
  BY <1>2, <1>5 DEF Reader, Pythons
<1>7. /\ q.pkg <= Len(written) /\ q.pos = Len(written[q.pkg])
      /\ m = Start(q.pkg + 1)
  BY <1>4 DEF Moves
<1>8. /\ q \in Place /\ q.pkg \in Nat \ {0} /\ q.pos \in Nat
      /\ Len(b) <= q.pos /\ \A j \in 1..Len(b) : b[j] = written[q.pkg][(q.pos - Len(b)) + j]
  BY <1>2, <1>5, <1>6 DEF Reader, Current, Place
<1>9. /\ written \in Seq(Package) /\ Len(written) \in Nat /\ b \in Seq(Byte) /\ Len(b) \in Nat
      /\ got \in Seq(Seq(Byte)) /\ Len(got) \in Nat
      /\ StringSize \in Nat \ {0} /\ FileSize \in Nat \ {0}
  BY LenProperties, BoundsAssumption DEF Inv, Room, ReaderRoom, Types
<1>10. q.pkg \in 1..Len(written)
  BY <1>7, <1>8, <1>9
<1> DEFINE p == written[q.pkg]
<1>11. p \in Seq(Byte) /\ Len(p) \in Nat /\ q.pos = Len(p)
       /\ \A j \in 1..Len(b) : b[j] = p[(Len(p) - Len(b)) + j]
  BY <1>7, <1>8, <1>9, <1>10, WrittenType, LenProperties
<1>12. /\ Len(got') = Len(got) + 1 /\ got'[Len(got) + 1] = b
       /\ \A j \in 1..Len(got) : got'[j] = got[j]
  BY <1>1, <1>9, AppendProperties
<1>13. m.pkg = q.pkg + 1 /\ m.pos = 0 /\ m.esc = FALSE /\ m.pkg - 1 = q.pkg
  BY <1>7, <1>8 DEF Start
<1> HIDE DEF p
<1>14. Current(m)'
  <2>1. m.pkg <= Len(written) + 1
    BY <1>8, <1>9, <1>10, <1>13
  <2>2. m.pkg <= Len(written) => 0 <= Len(written[m.pkg])
    <3>1. m.pkg <= Len(written) => m.pkg \in 1..Len(written)
      BY <1>8, <1>9, <1>13
    <3> QED
      BY <1>9, <3>1, WrittenType, LenProperties
  <2>3. m.pos <= IF m.pkg <= Len(written) THEN Len(written[m.pkg]) ELSE 0
    BY <1>13, <2>2
  <2> QED
    BY <1>1, <1>4, <1>5, <1>13, <2>1, <2>3 DEF Current
<1>15. b = SubSeq(p, (Len(p) - Len(b)) + 1, Len(p))
  <2>1. Len(p) - Len(b) \in 0..Len(p) /\ Len(b) = Len(p) - (Len(p) - Len(b))
    BY <1>8, <1>9, <1>11
  <2> DEFINE k == Len(p) - Len(b)
  <2>2. \A j \in 1..Len(b) : b[j] = p[k + j]
    BY <1>11
  <2>3. k \in 0..Len(p) /\ Len(b) = Len(p) - k
    BY <2>1
  <2> HIDE DEF k
  <2>4. b = SubSeq(p, k + 1, Len(p))
    BY <1>9, <1>11, <2>2, <2>3, SubSeqIs
  <2> QED
    BY <2>4 DEF k
<1>16. Strings(m)'
  <2>1. CASE kind = "string"
    <3>1. PICK c \in Nat : q.pos = c * StringSize + Len(b)
      BY <1>2, <1>5, <2>1 DEF Reader, Strings
    <3>2. Len(b) < StringSize
      BY <1>5, <2>1 DEF Size
    <3>3. Len(p) % StringSize = Len(b)
      <4>1. Len(p) = c * StringSize + Len(b)
        BY <1>11, <3>1
      <4> DEFINE n == Len(p)
                 d == Len(b)
      <4>2. n = c * StringSize + d /\ d \in Nat /\ d < StringSize /\ StringSize \in Nat \ {0}
        BY <1>9, <3>2, <4>1
      <4> HIDE DEF n, d
      <4>3. n % StringSize = d
        BY <4>2, Div
      <4> QED
        BY <4>3 DEF n, d
    <3>4. LastPiece(p) = b
      BY <1>15, <3>3 DEF LastPiece
    <3>5. Len(got) = q.pkg - 1 /\ \A j \in 1..Len(got) : got[j] = LastPiece(written[j])
      BY <1>2, <2>1 DEF Reader, Strings
    <3>6. Len(got) + 1 = q.pkg
      BY <1>8, <3>5
    <3>7. \A j \in 1..Len(got') : got'[j] = LastPiece(written[j])
      <4> SUFFICES ASSUME NEW j \in 1..Len(got')  PROVE got'[j] = LastPiece(written[j])
        OBVIOUS
      <4>1. CASE j = Len(got) + 1
        BY <1>12, <3>4, <3>6, <4>1 DEF p
      <4>2. CASE j # Len(got) + 1
        <5>1. j \in 1..Len(got)
          BY <1>9, <1>12, <4>2
        <5> QED
          BY <1>12, <3>5, <5>1
      <4> QED
        BY <4>1, <4>2
    <3> QED
      BY <1>1, <1>5, <1>12, <1>13, <3>6, <3>7 DEF Strings
  <2>2. CASE kind # "string"
    BY <1>5, <2>2 DEF Strings
  <2> QED
    BY <2>1, <2>2
<1>17. Files(m)'
  <2>1. CASE kind = "file"
    <3>1. PICK g : \E c \in Nat : FileRead(q, g, c)
      BY <1>2, <2>1 DEF Reader, Files
    <3>2. PICK c \in Nat : FileRead(q, g, c)
      BY <3>1
    <3>3. Len(b) < FileSize /\ q.pos = c * FileSize + Len(b) /\ c * FileSize \in Nat
      BY <1>5, <1>9, <2>1, <3>2, Times DEF Size, FileRead
    <3>4. /\ Len(Pieces(p)) = c + 1 /\ Pieces(p)[c + 1] = b
          /\ Pieces(p) \in Seq(Seq(Byte))
      <4>1. c * FileSize <= Len(p) /\ Len(p) < (c + 1) * FileSize /\ c * FileSize = Len(p) - Len(b)
        <5>1. (c + 1) * FileSize = c * FileSize + FileSize
          BY <1>9, Times
        <5> DEFINE k == c * FileSize
        <5> HIDE DEF k
        <5>2. k \in Nat /\ Len(p) = k + Len(b)
          BY <1>11, <3>3 DEF k
        <5>3. k <= Len(p) /\ Len(p) < k + FileSize /\ k = Len(p) - Len(b)
          <6>1. Len(b) < FileSize
            BY <3>3
          <6> QED
            BY <1>9, <1>11, <5>2, <6>1
        <5> QED
          BY <5>1, <5>3 DEF k
      <4> QED
        BY <1>11, <1>15, <4>1, PiecesIs
    <3> DEFINE P == Pieces(p)
    <3>5. g \in Seq(Seq(Byte)) /\ Len(g) \in Nat
      <4>1. q.pkg - 1 \in 0..Len(written)
        BY <1>8, <1>9, <1>10
      <4>2. g \in Seq(Seq(Byte))
        BY <1>9, <3>2, <4>1, FlatBegins DEF FileRead
      <4> QED
        BY <4>2, LenProperties
    <3>6. P \in Seq(Seq(Byte)) /\ Len(P) = c + 1 /\ P[c + 1] = b
      BY <3>4
    <3>7. PICK h : h = g \o P /\ Flat(written, q.pkg, h)
      <4>1. q.pkg - 1 \in Nat /\ (q.pkg - 1) + 1 = q.pkg
        BY <1>8
      <4> QED
        BY <3>2, <4>1, FlatMore DEF FileRead, p
    <3>8. /\ Len(got) = Len(g) + c /\ \A j \in 1..Len(g) : got[j] = g[j]
          /\ \A j \in 1..c : got[Len(g) + j] = P[j]
      BY <3>2 DEF FileRead, p
    <3> HIDE DEF P
    <3>9. /\ Len(h) = Len(g) + Len(P)
          /\ \A j \in 1..Len(g) : h[j] = g[j]
          /\ \A j \in 1..Len(P) : h[Len(g) + j] = P[j]
      <4> DEFINE B == Seq(Byte)
      <4>1. h = g \o P /\ g \in Seq(B) /\ P \in Seq(B)
        BY <3>5, <3>6, <3>7
      <4> HIDE DEF B
      <4> QED
        BY <4>1, ConcatIs
    <3>10. Len(got') = Len(h)
      BY <1>12, <3>5, <3>6, <3>8, <3>9
    <3>11. ASSUME NEW j \in 1..Len(h)  PROVE got'[j] = h[j]
      <4>1. CASE j <= Len(g)
        <5>1. j \in 1..Len(g) /\ j \in 1..Len(got)
          BY <3>5, <3>8, <3>9, <3>6, <4>1
        <5> QED
          BY <1>12, <3>8, <3>9, <5>1
      <4>2. CASE ~(j <= Len(g))
        <5>1. j - Len(g) \in 1..(c + 1) /\ Len(g) + (j - Len(g)) = j
          BY <3>5, <3>6, <3>9, <4>2
        <5>2. h[j] = P[j - Len(g)]
          BY <3>6, <3>9, <5>1
        <5>3. CASE j - Len(g) = c + 1
          <6>1. j = Len(got) + 1
            BY <3>5, <3>8, <5>1, <5>3
          <6> QED
            BY <1>12, <3>6, <5>2, <5>3, <6>1
        <5>4. CASE j - Len(g) # c + 1
          <6>1. j - Len(g) \in 1..c /\ j \in 1..Len(got)
            BY <3>5, <3>6, <3>8, <3>9, <5>1, <5>4
          <6>2. got[Len(g) + (j - Len(g))] = P[j - Len(g)]
            BY <3>8, <6>1
          <6> QED
            BY <1>12, <5>1, <5>2, <6>1, <6>2
        <5> QED
          BY <5>3, <5>4
      <4> QED
        BY <4>1, <4>2
    <3>12. FileRead(m, h, 0)'
      <4>1. Len(h) = Len(h) + 0 /\ 0 * FileSize = 0
        <5>1. Len(h) \in Nat
          BY <1>9, <1>12, <3>10
        <5> QED
          BY <1>9, <5>1
      <4>2. Len(got') = Len(h) + 0
        BY <3>10, <4>1
      <4>3. \A j \in 1..0 : FALSE
        OBVIOUS
      <4>4. Flat(written', m.pkg - 1, h)
        BY <1>5, <1>13, <3>7
      <4>5. m.pos = 0 * FileSize + 0 /\ 0 * FileSize <= m.pos
        BY <1>9, <1>13
      <4>6. \A j \in 1..0 : got'[Len(h) + j] = Pieces(written'[m.pkg])[j]
        BY <4>3
      <4>7. \A j \in 1..Len(h) : got'[j] = h[j]
        BY <3>11
      <4>8. m.pos = 0 * FileSize + IF reading' THEN Len(b') ELSE 0
        BY <1>1, <4>5
      <4> QED
        BY <4>2, <4>4, <4>5, <4>6, <4>7, <4>8, Zenon DEF FileRead
    <3> QED
      BY <3>12 DEF Files
  <2>2. CASE kind # "file"
    BY <1>5, <2>2 DEF Files
  <2> QED
    BY <2>1, <2>2
<1>18. Pythons(m)'
  BY <1>5, <1>6 DEF Pythons
<1> QED
  BY <1>3, <1>14, <1>16, <1>17, <1>18 DEF Reader, Arrived

(***************************************************************************)
(* The web interface: up to the first newline the bytes are of one         *)
(* package, and that newline is its end.                                   *)
(***************************************************************************)
LEMMA OnePackage ==
    ASSUME NEW w, NEW s \in Seq(Byte), \A i \in 1..Len(s) : s[i] # "newline",
           NEW q, NEW m, Path(Move(w), s, q, m)
    PROVE  m.pkg = q.pkg
<1>1. PICK f : /\ f[0] = q /\ f[Len(s)] = m
               /\ \A i \in 1..Len(s) : <<f[i - 1], s[i], f[i]>> \in Move(w)
  BY DEF Path
<1>2. Len(s) \in Nat
  BY LenProperties
<1> DEFINE T == {i \in 0..Len(s) : f[i].pkg # q.pkg}
<1>3. ASSUME T # {}  PROVE FALSE
  <2>1. PICK i \in T : \A j \in T : i <= j
    <3>1. T \subseteq Nat
      BY <1>2
    <3> HIDE DEF T
    <3> QED
      BY <1>3, <3>1, Least
  <2>2. i \in 0..Len(s) /\ f[i].pkg # q.pkg
    OBVIOUS
  <2>3. i # 0
    BY <1>1, <2>2
  <2>4. i \in 1..Len(s) /\ i - 1 \in 0..Len(s) /\ ~(i <= i - 1)
    BY <1>2, <2>2, <2>3
  <2>5. f[i - 1].pkg = q.pkg
    BY <2>1, <2>4
  <2>6. Moves(w, f[i - 1], s[i], f[i])
    BY <1>1, <2>4 DEF Move
  <2>7. f[i].pkg = f[i - 1].pkg
    BY <2>4, <2>6 DEF Moves
  <2> QED
    BY <2>2, <2>5, <2>7
<1>4. Len(s) \in 0..Len(s)
  BY <1>2
<1> QED
  BY <1>1, <1>3, <1>4

LEMMA PyReadKeeps ==
    ASSUME Inv, PyRead
    PROVE  Arrived'
<1>1. PICK i \in 1..Len(wire) :
          /\ wire[i] = "newline"
          /\ \A j \in 1..(i - 1) : wire[j] # "newline"
          /\ Returns(Unescaped(SubSeq(wire, 1, i - 1)))
          /\ wire' = SubSeq(wire, i + 1, Len(wire))
  BY DEF PyRead
<1> DEFINE s == SubSeq(wire, 1, i - 1)
           t == SubSeq(wire, i, Len(wire))
<1>2. /\ kind = "python" /\ reading /\ writer' = writer /\ written' = written
      /\ UNCHANGED <<kind, rbuf, escape, b, eot>>
      /\ got' = Append(got, Unescaped(s)) /\ reading' = FALSE
  BY <1>1 DEF PyRead, Returns, writer, call
<1>3. PICK q : Reader(q) /\ OnTheWay(q)
  BY DEF Inv, Arrived
<1>4. /\ q \in Place /\ q.pkg \in Nat \ {0} /\ q.pos = 0 /\ ~q.esc /\ rbuf = <<>>
      /\ q.esc = escape /\ escape \in BOOLEAN
      /\ Len(got) = q.pkg - 1
      /\ \A j \in 1..Len(got) : Plain(written[j]) => got[j] = written[j]
  BY <1>2, <1>3 DEF Reader, Current, Pythons, Place, Inv, Types
<1>5. PICK m, z : /\ Path(Move(written), rbuf, q, m)
                  /\ Path(Move(written), wire, m, z)
                  /\ wpc # "closed" => Path(Move(written), wbuf, z, There)
  BY <1>3 DEF OnTheWay
<1>6. m = q
  BY <1>4, <1>5, PathEmpty
<1>7. /\ wire \in Seq(Byte) /\ Len(wire) \in Nat /\ i - 1 \in 0..Len(wire) /\ i \in Nat \ {0}
      /\ written \in Seq(Package) /\ Len(written) \in Nat
      /\ got \in Seq(Seq(Byte)) /\ Len(got) \in Nat
  BY LenProperties DEF Inv, Room, ReaderRoom, Types
<1>8. PICK x : /\ Path(Move(written), s, q, x)
               /\ Path(Move(written), t, x, z)
  <2>1. \E x : /\ Path(Move(written), SubSeq(wire, 1, i - 1), q, x)
               /\ Path(Move(written), SubSeq(wire, (i - 1) + 1, Len(wire)), x, z)
    BY <1>5, <1>6, <1>7, PathCut
  <2>2. (i - 1) + 1 = i
    BY <1>7
  <2> QED
    BY <2>1, <2>2
<1>9. /\ s \in Seq(Byte) /\ Len(s) = i - 1 /\ \A j \in 1..Len(s) : s[j] # "newline"
  <2>1. /\ s \in Seq(Byte) /\ Len(s) = i - 1 /\ \A j \in 1..(i - 1) : s[j] = wire[j]
    BY <1>7, SubSeqProperties
  <2> HIDE DEF s
  <2> QED
    BY <1>1, <2>1
<1>10. /\ t \in Seq(Byte) /\ Len(t) = Len(wire) - i + 1
       /\ \A j \in 1..Len(t) : t[j] = wire[i + j - 1]
  <2>1. i \in 1..(Len(wire) + 1) /\ Len(wire) \in 0..Len(wire) /\ i <= Len(wire)
    BY <1>7
  <2> QED
    BY <1>7, <2>1, SubSeqProperties
<1>11. t # <<>> /\ Head(t) = "newline" /\ Tail(t) = wire'
  <2> DEFINE u == SubSeq(wire, i + 1, Len(wire))
  <2>1. /\ u \in Seq(Byte) /\ Len(u) = Len(wire) - i
        /\ \A j \in 1..Len(u) : u[j] = wire[i + j]
    <3>1. i + 1 \in 1..(Len(wire) + 1) /\ Len(wire) \in 0..Len(wire) /\ i <= Len(wire)
      BY <1>7
    <3>2. /\ u \in Seq(Byte)
          /\ Len(u) = IF i + 1 <= Len(wire) THEN Len(wire) - (i + 1) + 1 ELSE 0
          /\ \A j \in 1..(Len(wire) - (i + 1) + 1) : u[j] = wire[(i + 1) + j - 1]
      BY <1>7, <3>1, SubSeqProperties
    <3>3. Len(wire) - (i + 1) + 1 = Len(wire) - i
      BY <1>7
    <3>4. \A j \in 1..(Len(wire) - i) : (i + 1) + j - 1 = i + j
      BY <1>7
    <3>5. Len(u) = Len(wire) - i
      BY <1>7, <3>2
    <3> HIDE DEF u
    <3> QED
      BY <3>2, <3>3, <3>4, <3>5
  <2> HIDE DEF t, u
  <2>2. Len(t) \in Nat \ {0}
    BY <1>7, <1>10
  <2>3. t # <<>>
    BY <2>2, EmptySeq
  <2>4. /\ Head(t) = t[1] /\ Tail(t) \in Seq(Byte) /\ Len(Tail(t)) = Len(t) - 1
        /\ \A j \in 1..Len(Tail(t)) : Tail(t)[j] = t[j + 1]
    BY <1>10, <2>3, HeadTailProperties
  <2>5. t[1] = wire[i]
    <3>1. i + 1 - 1 = i /\ 1 \in 1..Len(t)
      BY <1>7, <2>2
    <3> QED
      BY <1>10, <3>1
  <2>6. Tail(t) = u
    <3>1. Len(Tail(t)) = Len(u)
      <4>1. (Len(wire) - i + 1) - 1 = Len(wire) - i
        BY <1>7
      <4>2. Len(Tail(t)) = Len(t) - 1 /\ Len(u) = Len(wire) - i /\ Len(t) = Len(wire) - i + 1
        BY <1>10, <2>1, <2>4, Zenon
      <4> QED
        BY <4>1, <4>2, Zenon
    <3>2. ASSUME NEW j \in 1..Len(u)  PROVE Tail(t)[j] = u[j]
      <4>1. j + 1 \in 1..Len(t) /\ i + (j + 1) - 1 = i + j
        BY <1>7, <1>10, <2>1
      <4> QED
        BY <1>10, <2>1, <2>4, <3>1, <4>1
    <3> QED
      BY <2>1, <2>4, <3>1, <3>2, SeqEqual
  <2> QED
    BY <1>1, <2>3, <2>4, <2>5, <2>6 DEF u
<1>12. PICK y : <<x, "newline", y>> \in Move(written) /\ Path(Move(written), wire', y, z)
  BY <1>8, <1>10, <1>11, PathHead
<1>13. Moves(written, x, "newline", y) /\ x \in Place /\ y \in Place
  BY <1>12 DEF Move
<1>14. x.pkg = q.pkg
  <2>1. Path(Move(written), s, q, x)
    BY <1>8
  <2> HIDE DEF s
  <2> QED
    BY <1>9, <2>1, OnePackage
<1>15. /\ q.pkg <= Len(written) /\ x.pos = Len(written[q.pkg]) /\ x.esc = FALSE
       /\ y = Start(q.pkg + 1)
  BY <1>13, <1>14 DEF Moves, Place
<1>16. q.pkg \in 1..Len(written)
  BY <1>4, <1>7, <1>15
<1>17. q = Start(q.pkg) /\ x = [pkg |-> q.pkg, pos |-> Len(written[q.pkg]), esc |-> FALSE]
  BY <1>4, <1>13, <1>14, <1>15 DEF Place, Start
<1> HIDE DEF s, t
<1>18. Plain(written[q.pkg]) => Unescaped(s) = written[q.pkg]
  <2> DEFINE k == q.pkg
  <2>1. /\ k \in 1..Len(written)
        /\ Path(Move(written), s, Start(k), [pkg |-> k, pos |-> Len(written[k]), esc |-> FALSE])
    BY <1>8, <1>16, <1>17
  <2> HIDE DEF k
  <2>2. Plain(written[k]) => Unescaped(s) = written[k]
    BY <1>7, <1>9, <2>1, PlainUnescaped
  <2> QED
    BY <2>2 DEF k
<1>19. y.pkg = q.pkg + 1 /\ y.pos = 0 /\ y.esc = FALSE
  BY <1>15 DEF Start
<1>20. Unescaped(s) \in Seq(Byte)
  BY <1>9, UnescapedType
<1>21. /\ Len(got') = Len(got) + 1 /\ got'[Len(got) + 1] = Unescaped(s)
       /\ \A j \in 1..Len(got) : got'[j] = got[j]
  BY <1>2, <1>7, <1>20, AppendProperties
<1>22. Pythons(y)'
  <2>1. Len(got) + 1 = q.pkg /\ y.pkg - 1 = q.pkg
    BY <1>4, <1>19
  <2>2. ASSUME NEW j \in 1..Len(got'), Plain(written[j])  PROVE got'[j] = written[j]
    <3>1. CASE j = Len(got) + 1
      BY <1>18, <1>21, <2>1, <2>2, <3>1
    <3>2. CASE j # Len(got) + 1
      <4>1. j \in 1..Len(got)
        BY <1>7, <1>21, <3>2
      <4> QED
        BY <1>4, <1>21, <2>2, <4>1
    <3> QED
      BY <3>1, <3>2
  <2> QED
    BY <1>2, <1>4, <1>19, <1>21, <2>1, <2>2 DEF Pythons
<1>23. Current(y)'
  <2>1. y.pkg <= Len(written) + 1
    BY <1>7, <1>16, <1>19
  <2>2. y.pkg <= Len(written) => 0 <= Len(written[y.pkg])
    <3>1. y.pkg <= Len(written) => y.pkg \in 1..Len(written)
      BY <1>4, <1>7, <1>19
    <3> QED
      BY <1>7, <3>1, WrittenType, LenProperties
  <2>3. y.pos <= IF y.pkg <= Len(written) THEN Len(written[y.pkg]) ELSE 0
    BY <1>19, <2>2
  <2> QED
    BY <1>2, <1>4, <1>13, <1>19, <2>1, <2>3 DEF Current
<1>24. Strings(y)' /\ Files(y)'
  BY <1>2 DEF Strings, Files
<1>25. OnTheWay(y)'
  <2>1. Path(Move(written'), rbuf', y, y)
    BY <1>2, <1>4, PathEmpty
  <2>2. wpc' # "closed" => Path(Move(written'), wbuf', z, There')
    BY <1>2, <1>5, WriterStays
  <2> QED
    BY <1>2, <1>12, <2>1, <2>2 DEF OnTheWay
<1> QED
  BY <1>22, <1>23, <1>24, <1>25 DEF Reader, Arrived

-----------------------------------------------------------------------------
(***************************************************************************)
(* Every step keeps the invariant.                                         *)
(***************************************************************************)
LEMMA ReaderKeepsInv ==
    ASSUME Inv, Read
    PROVE  Writing' /\ (eot' => ~reading') /\ Arrived'
<1>1. writer' = writer
  BY DEF Read, StartRead, Recv, RecvEnd, EscapedByte, PlainByte, Newline, Backslash, TakeByte,
         StringFull, FileFull, PyRead, Overrun, ReadPastEnd
<1>2. Writing'
  BY <1>1, WriterStays DEF Inv
<1>3. eot' => ~reading'
  <2>1. CASE RecvEnd \/ ReadPastEnd
    BY <2>1 DEF RecvEnd, ReadPastEnd
  <2>2. CASE ~(RecvEnd \/ ReadPastEnd)
    <3>1. eot' = eot
      BY <2>2 DEF Read, StartRead, Recv, EscapedByte, PlainByte, Newline, Backslash, TakeByte,
                  StringFull, FileFull, PyRead, Overrun, ReadPastEnd
    <3>2. eot => ~reading /\ ~Read
      BY <2>2 DEF Inv, Read, StartRead, Recv, EscapedByte, PlainByte, Newline, Backslash, TakeByte,
                  StringFull, FileFull, PyRead, Overrun, ReadPastEnd
    <3> QED
      BY <3>1, <3>2
  <2> QED
    BY <2>1, <2>2
<1>4. PICK q : Reader(q) /\ OnTheWay(q)
  BY DEF Inv, Arrived
<1>5. ASSUME StartRead  PROVE Arrived'
  <2>1. rbuf' = rbuf /\ wire' = wire
    BY <1>5 DEF StartRead
  <2> QED
    BY <1>1, <1>4, <1>5, <2>1, StartReadKeeps, WayStays DEF Inv, Arrived
<1>6. ASSUME Recv  PROVE Arrived'
  BY <1>4, <1>6, RecvKeeps DEF Inv, Arrived
<1>7. ASSUME RecvEnd  PROVE Arrived'
  <2>1. rbuf' = rbuf /\ wire' = wire
    BY <1>7 DEF RecvEnd
  <2> QED
    BY <1>1, <1>4, <1>7, <2>1, RecvEndKeeps, WayStays DEF Arrived
<1>8. ASSUME StringFull  PROVE Arrived'
  <2>1. rbuf' = rbuf /\ wire' = wire
    BY <1>8 DEF StringFull
  <2> QED
    BY <1>1, <1>4, <1>8, <2>1, StringFullKeeps, WayStays DEF Arrived
<1>9. ASSUME FileFull  PROVE Arrived'
  <2>1. rbuf' = rbuf /\ wire' = wire
    BY <1>9 DEF FileFull
  <2> QED
    BY <1>1, <1>4, <1>9, <2>1, FileFullKeeps, WayStays DEF Inv, Arrived
<1>10. ASSUME \E c \in Byte : EscapedByte(c) \/ PlainByte(c)  PROVE Arrived'
  BY <1>10, AddByteKeeps
<1>11. ASSUME Overrun \/ ReadPastEnd  PROVE Arrived'
  <2>1. /\ UNCHANGED <<kind, reading, rbuf, escape, b, eot, got>> /\ written' = written
        /\ wire' = wire
    BY <1>1, <1>11, WriterStays DEF Overrun, ReadPastEnd
  <2>2. Current(q)' /\ Strings(q)' /\ Files(q)' /\ Pythons(q)'
    BY <1>4, <2>1 DEF Reader, Current, Strings, Files, FileRead, Pythons
  <2> QED
    BY <1>1, <1>4, <2>1, <2>2, WayStays DEF Reader, Arrived
<1>12. Arrived'
  BY <1>5, <1>6, <1>7, <1>8, <1>9, <1>10, <1>11, NewlineKeeps, BackslashKeeps, PyReadKeeps DEF Read
<1> QED
  BY <1>2, <1>3, <1>12

LEMMA InvInit == Init => Inv
<1> SUFFICES ASSUME Init  PROVE Inv
  OBVIOUS
<1>1. /\ written = <<>> /\ wpc = "idle" /\ wbuf = <<>> /\ wire = <<>> /\ rbuf = <<>> /\ sent = 0
      /\ reading = FALSE /\ escape = FALSE /\ eot = FALSE /\ got = <<>>
      /\ Len(written) = 0 /\ Len(got) = 0
  BY DEF Init
<1>2. Writing /\ (eot => ~reading)
  BY <1>1 DEF Writing
<1> DEFINE q == Start(1)
<1>3. q \in Place /\ q.pkg = 1 /\ q.pos = 0 /\ q.esc = FALSE /\ q.pkg - 1 = 0
  BY DEF Start, Place
<1>4. There = q
  BY <1>1 DEF There
<1> HIDE DEF q
<1>5. Current(q) /\ Strings(q) /\ Pythons(q)
  <2>1. \A j \in 1..Len(got) : FALSE
    BY <1>1
  <2>2. q.pos <= IF q.pkg <= Len(written) THEN Len(written[q.pkg]) ELSE 0
    BY <1>1, <1>3
  <2>3. q.pkg <= Len(written) + 1
    BY <1>1, <1>3
  <2>4. Current(q)
    BY <1>1, <1>3, <2>2, <2>3 DEF Current
  <2>5. Strings(q) /\ Pythons(q)
    BY <1>1, <1>3, <2>1 DEF Strings, Pythons
  <2> QED
    BY <2>4, <2>5
<1>6. Files(q)
  <2>1. Flat(written, 0, <<>>)
    <3> DEFINE f == [j \in {0} |-> <<>>]
    <3>1. f[0] = <<>>
      OBVIOUS
    <3> HIDE DEF f
    <3> QED
      BY <3>1 DEF Flat
  <2>2. 0 * FileSize = 0
    BY BoundsAssumption
  <2>3. FileRead(q, <<>>, 0)
    <3>1. q.pos = 0 * FileSize + 0 /\ 0 * FileSize <= q.pos
      BY <1>3, <2>2
    <3> QED
      BY <1>1, <1>3, <2>1, <3>1 DEF FileRead
  <2> QED
    BY <2>3 DEF Files
<1>7. OnTheWay(q)
  BY <1>1, <1>4, PathEmpty DEF OnTheWay
<1> QED
  BY <1>2, <1>5, <1>6, <1>7, RoomInit, TypesInit DEF Inv, Arrived, Reader

LEMMA InvStutters ==
    ASSUME Inv, UNCHANGED vars
    PROVE  Writing' /\ (eot' => ~reading') /\ Arrived'
<1>1. writer' = writer /\ reader' = reader /\ wire' = wire /\ written' = written /\ rbuf' = rbuf
      /\ reading' = reading /\ eot' = eot
  BY DEF vars, writer, reader
<1>2. PICK q : Reader(q) /\ OnTheWay(q)
  BY DEF Inv, Arrived
<1>3. Reader(q)' /\ OnTheWay(q)'
  BY <1>1, <1>2, ReaderStays, WayStays
<1> QED
  BY <1>1, <1>3, WriterStays DEF Inv, Arrived

LEMMA Invariance == ~ShortSends => (Spec => []Inv)
<1> SUFFICES ASSUME ~ShortSends  PROVE Spec => []Inv
  OBVIOUS
<1>1. Inv /\ [Next]_vars => Inv'
  <2> SUFFICES ASSUME Inv, [Next]_vars  PROVE Inv'
    OBVIOUS
  <2>1. Room' /\ Types'
    <3>1. CASE UNCHANGED vars
      BY <3>1, NextKeepsRoom DEF Inv, Types, vars, writer, reader
    <3>2. CASE Next
      BY <3>2, NextKeepsRoom, TypesWrite, TypesRead DEF Inv, Next
    <3> QED
      BY <3>1, <3>2
  <2>2. Writing' /\ (eot' => ~reading') /\ Arrived'
    BY WriterKeepsInv, ReaderKeepsInv, InvStutters DEF Next
  <2> QED
    BY <2>1, <2>2 DEF Inv
<1> QED
  BY <1>1, InvInit, PTL DEF Spec

(***************************************************************************)
(* What is read is what was written, each package once and in order: to the*)
(* web interface the plain packages unchanged, a string's last piece, a file's*)
(* pieces one by one (PackageSocket::write, read, readString, readFD).  The*)
(* hypothesis is what write needs of the kernel: after a short send it sends*)
(* from the start of its buffer again (src/common/packagesocket.cc:95, 114).*)
(***************************************************************************)
THEOREM WhatIsReadWasWritten ==
    ASSUME ~ShortSends
    PROVE  Spec => []PiecesArrive
<1>1. Spec => []Inv
  BY Invariance
<1> QED
  BY <1>1, InvArrives, PTL

-----------------------------------------------------------------------------
(***************************************************************************)
(* When readString stores a byte, or the end of its string, past the end of*)
(* its buffer, that buffer holds maxlen + 1 bytes of the package: the place*)
(* of the reader bounds them by the package's length.                      *)
(***************************************************************************)
LEMMA OverrunIsLong ==
    ASSUME Inv, Overrun
    PROVE  /\ kind = "string" /\ maxlen < StringSize
           /\ Len(got) < Len(written) /\ Len(written[Len(got) + 1]) > maxlen
<1>1. /\ reading /\ kind = "string" /\ Len(b) < StringSize /\ ~(Len(b) < maxlen + 1)
  BY DEF Overrun, HasRoom, CallerRoom, Size
<1>2. /\ maxlen \in Nat /\ Len(b) \in Nat /\ StringSize \in Nat
      /\ Len(got) \in Nat /\ Len(written) \in Nat
  BY LenProperties, BoundsAssumption DEF Inv, Types, Room, ReaderRoom
<1>3. PICK q : Reader(q)
  BY DEF Inv, Arrived
<1>4. /\ Len(b) <= q.pos /\ Len(got) = q.pkg - 1 /\ q.pos \in Nat /\ q.pkg \in Nat
      /\ q.pos <= IF q.pkg <= Len(written) THEN Len(written[q.pkg]) ELSE 0
  BY <1>1, <1>3 DEF Reader, Current, Strings, Place
<1>5. q.pkg = Len(got) + 1
  BY <1>2, <1>4
<1>6. q.pos > maxlen
  BY <1>1, <1>2, <1>4
<1>7. q.pkg <= Len(written)
  BY <1>2, <1>4, <1>6
<1>8. Len(written[q.pkg]) \in Nat
  <2>1. q.pkg \in 1..Len(written)
    BY <1>2, <1>4, <1>5, <1>7
  <2> QED
    BY <2>1, WrittenType, LenProperties DEF Inv
<1> QED
  BY <1>1, <1>2, <1>4, <1>5, <1>6, <1>7, <1>8

(***************************************************************************)
(* readString writes past the end of its buffer only in a call that makes  *)
(* less room than a piece (packagesocket.cc:81-84) and that either comes   *)
(* after the end of the stream or reads a package longer than its maxlen:  *)
(* for packages, buffers, pieces and maxlens of any size, whatever was read*)
(* before and however the bytes are cut.  The hypothesis is that of        *)
(* WhatIsReadWasWritten.                                                   *)
(***************************************************************************)
THEOREM OverrunsAreCaused ==
    ASSUME ~ShortSends
    PROVE  Spec => []OverrunsHaveCauses
<1>1. Init => OverrunsHaveCauses
  BY DEF Init, OverrunsHaveCauses
<1>2. ASSUME Inv, OverrunsHaveCauses, [Next]_vars  PROVE OverrunsHaveCauses'
  <2>1. ASSUME \E p \in Package : StartWrite(p)  PROVE OverrunsHaveCauses'
    <3>1. PICK p \in Package : StartWrite(p)
      BY <2>1
    <3>2. /\ UNCHANGED <<kind, maxlen, overrun, eot, got>> /\ written' = Append(written, p)
          /\ written \in Seq(Package) /\ Len(got) \in Nat /\ Len(written) \in Nat
      BY <1>2, <3>1, LenProperties DEF StartWrite, reader, Inv, Types
    <3>3. /\ Len(written') = Len(written) + 1
          /\ Len(got) < Len(written) => written'[Len(got) + 1] = written[Len(got) + 1]
      BY <3>2, AppendProperties
    <3> QED
      BY <1>2, <3>2, <3>3 DEF OverrunsHaveCauses
  <2>2. ASSUME Write \/ Close \/ UNCHANGED vars  PROVE OverrunsHaveCauses'
    <3>1. UNCHANGED <<kind, maxlen, overrun, eot, got, written>>
      BY <2>2 DEF Write, Spill, Fill, EndOfPackage, Send, Close, reader, vars, writer
    <3> QED
      BY <1>2, <3>1 DEF OverrunsHaveCauses
  <2>3. ASSUME Read  PROVE OverrunsHaveCauses'
    <3>1. CASE Overrun
      <4>1. UNCHANGED <<kind, maxlen, got, written>>
        BY <3>1 DEF Overrun, writer
      <4> QED
        BY <1>2, <3>1, <4>1, OverrunIsLong DEF OverrunsHaveCauses
    <3>2. CASE ReadPastEnd
      BY <3>2 DEF ReadPastEnd, OverrunsHaveCauses
    <3>3. CASE ~Overrun /\ ~ReadPastEnd
      <4>1. ~overrun /\ overrun' = overrun
        BY <2>3, <3>3 DEF Read, StartRead, Recv, RecvEnd, EscapedByte, PlainByte, Newline,
                          Backslash, TakeByte, StringFull, FileFull, PyRead, call
      <4> QED
        BY <4>1 DEF OverrunsHaveCauses
    <3> QED
      BY <3>1, <3>2, <3>3
  <2> QED
    BY <1>2, <2>1, <2>2, <2>3 DEF Next
<1>3. Spec => []Inv
  BY Invariance
<1> QED
  BY <1>1, <1>2, <1>3, PTL DEF Spec

=============================================================================
