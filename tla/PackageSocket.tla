---------------------------- MODULE PackageSocket ---------------------------
(***************************************************************************)
(* One direction of a connection, byte by byte: PackageSocket::write on    *)
(* one side; readString and readFD, or the web interface's                 *)
(* PackageSocket.read, on the other.  readString asks for a whole piece    *)
(* even when its caller has room for less: the model follows it to the     *)
(* first byte outside that room, and no further.                           *)
(*                                                                         *)
(* A package is a sequence of bytes.  Of the bytes, a newline, a backslash *)
(* and the letter n matter, and one that does not stands for the rest.     *)
(***************************************************************************)
EXTENDS Integers, SequencesExt

CONSTANTS
    Package,     \* the packages that may be written
    MaxPackages, \* bound: packages written
    BufSize,     \* max_buff_size: bytes of each buffer
    StringSize,  \* bytes readString asks for at once, whatever its maxlen
    MaxLens,     \* the maxlens readString is called with
    FileSize,    \* bytes readFD reads at once
    Reads,       \* the ways the other side reads
    ShortSends   \* whether the kernel may take less than it is given

ASSUME BoundsAssumption ==
    /\ MaxPackages \in Nat
    /\ BufSize \in Nat /\ BufSize > 2
    /\ StringSize \in Nat \ {0} /\ FileSize \in Nat \ {0}

ASSUME ReadsAssumption ==
    Reads \subseteq {"string", "file", "python"} /\ ShortSends \in BOOLEAN

Byte == {"a", "n", "backslash", "newline"}

ASSUME MaxLensAssumption == MaxLens \subseteq Nat

ASSUME PackageAssumption == \A p \in Package : p \in Seq(Byte)

VARIABLES
    written, \* history: the packages the writer has begun to write
    wpc,     \* "idle", "fill", "spill" (buffer full), "end", "closed"
    todo,    \* bytes of the package that write has not looked at
    wbuf,    \* write_buff
    sent,    \* the x of the loop around send
    wire,    \* bytes on their way
    kind,    \* how the other side reads
    maxlen,  \* the argument of readString
    reading, \* a read is under way
    rbuf,    \* what is left of read_buff
    escape,  \* read_escape
    b,       \* the caller's buffer
    eot,     \* the end of the stream was read
    got,     \* history: the packages that were read
    overrun  \* history: readString wrote past the end of its buffer

writer == <<written, wpc, todo, wbuf, sent>>
call == <<kind, maxlen, overrun>>
reader == <<kind, maxlen, overrun, reading, rbuf, escape, b, eot, got>>
vars == <<writer, wire, reader>>

-----------------------------------------------------------------------------
(***************************************************************************)
(* PackageSocket::write.  writeFD is a write in pieces, the last one with  *)
(* end_of_package.                                                         *)
(***************************************************************************)
StartWrite(p) ==
    /\ wpc = "idle" /\ Len(written) < MaxPackages
    /\ written' = Append(written, p)
    /\ todo' = p
    /\ wpc' = "fill"
    /\ UNCHANGED <<wbuf, sent, wire, reader>>

NoRoomForOne == Len(wbuf) + 1 >= BufSize  \* mutant: the escape is not counted
NoRoom == Len(wbuf) + 2 >= BufSize

Spill ==
    /\ wpc = "fill" /\ todo # <<>> /\ NoRoom
    /\ wpc' = "spill"
    /\ sent' = 0
    /\ UNCHANGED <<written, todo, wbuf, wire, reader>>

Escaped(c) ==
    IF c \in {"newline", "backslash"}
    THEN <<"backslash", IF c = "newline" THEN "n" ELSE "backslash">>
    ELSE <<c>>

Fill ==
    /\ wpc = "fill" /\ todo # <<>> /\ ~NoRoom
    /\ wbuf' = wbuf \o Escaped(Head(todo))
    /\ todo' = Tail(todo)
    /\ UNCHANGED <<written, wpc, sent, wire, reader>>

\* Mutant: the end of the package stays in the buffer.
EndBuffered ==
    /\ wpc = "fill" /\ todo = <<>>
    /\ wbuf' = Append(wbuf, "newline")
    /\ wpc' = "idle"
    /\ UNCHANGED <<written, todo, sent, wire, reader>>

EndOfPackage ==
    /\ wpc = "fill" /\ todo = <<>>
    /\ wbuf' = Append(wbuf, "newline")
    /\ wpc' = "end"
    /\ sent' = 0
    /\ UNCHANGED <<written, todo, wire, reader>>

(***************************************************************************)
(* One turn of the loop around send, which hands over as many bytes as are *)
(* left to send, counted from the start of the buffer.                     *)
(***************************************************************************)
Send ==
    /\ wpc \in {"spill", "end"}
    /\ \E s \in 1..(Len(wbuf) - sent) :
          /\ ShortSends \/ s = Len(wbuf) - sent
          /\ wire' = wire \o SubSeq(wbuf, 1, s)
          /\ IF sent + s = Len(wbuf)
             THEN /\ wbuf' = <<>>
                  /\ sent' = 0
                  /\ wpc' = IF wpc = "spill" THEN "fill" ELSE "idle"
             ELSE sent' = sent + s /\ UNCHANGED <<wbuf, wpc>>
    /\ UNCHANGED <<written, todo, reader>>

(***************************************************************************)
(* The writer is done, or killed in the middle of a package.               *)
(***************************************************************************)
Close ==
    /\ wpc # "closed"
    /\ wpc' = "closed"
    /\ UNCHANGED <<written, todo, wbuf, sent, wire, reader>>

-----------------------------------------------------------------------------
(***************************************************************************)
(* A call of readString, of readFD, or of the web interface's read.        *)
(***************************************************************************)
StartRead ==
    /\ ~reading /\ ~eot
    /\ reading' = TRUE
    /\ b' = <<>>
    /\ maxlen' \in IF kind = "string" THEN MaxLens ELSE {maxlen}
    /\ UNCHANGED <<kind, overrun, rbuf, escape, eot, got, writer, wire>>

Returns(p) ==
    /\ got' = Append(got, p)
    /\ reading' = FALSE

(***************************************************************************)
(* How much the call asks read for, and how much its buffer has room for:  *)
(* readString's has maxlen + 1 bytes.  HasRoom says that the next byte, or *)
(* the terminator of the string, is still inside.                          *)
(***************************************************************************)
Size == IF kind = "string" THEN StringSize ELSE FileSize

RoomWithoutEnd == IF kind = "string" THEN maxlen ELSE FileSize  \* mutant
CallerRoom == IF kind = "string" THEN maxlen + 1 ELSE FileSize

HasRoom == Len(b) < CallerRoom

(***************************************************************************)
(* recv gives some of the bytes that have arrived.  A backslash that was   *)
(* the last of the bytes before still escapes the first of them.           *)
(***************************************************************************)
EscapeDropped == FALSE  \* mutant: every buffer is looked at by itself
EscapeKept == escape

Recv ==
    /\ reading /\ kind # "python" /\ rbuf = <<>> /\ Len(b) < Size
    /\ \E n \in 1..Len(wire) :
          /\ n <= BufSize
          /\ rbuf' = SubSeq(wire, 1, n)
          /\ wire' = SubSeq(wire, n + 1, Len(wire))
    /\ escape' = EscapeKept
    /\ UNCHANGED <<call, reading, b, eot, got, writer>>

(***************************************************************************)
(* recv gives nothing: the call ends with what it has, and canRead is      *)
(* false from here on.                                                     *)
(***************************************************************************)
RecvEnd ==
    /\ reading /\ rbuf = <<>> /\ Len(b) < Size /\ HasRoom
    /\ wpc = "closed"
    /\ IF kind = "python" THEN "newline" \notin ToSet(wire) ELSE wire = <<>>
    /\ eot' = TRUE
    /\ reading' = FALSE
    /\ UNCHANGED <<call, rbuf, escape, b, got, writer, wire>>

(***************************************************************************)
(* PackageSocket::read, one byte of the buffer.                            *)
(***************************************************************************)
TakeByte(c) ==
    /\ reading /\ rbuf # <<>> /\ Len(b) < Size
    /\ c = Head(rbuf)
    /\ rbuf' = Tail(rbuf)
    /\ UNCHANGED <<call, eot, writer, wire>>

EscapedByte(c) ==
    /\ TakeByte(c) /\ escape /\ HasRoom
    /\ b' = Append(b, IF c = "n" THEN "newline" ELSE c)
    /\ escape' = FALSE
    /\ UNCHANGED <<reading, got>>

Newline ==
    /\ TakeByte("newline") /\ ~escape /\ HasRoom
    /\ Returns(b)
    /\ UNCHANGED <<escape, b>>

Backslash ==
    /\ TakeByte("backslash") /\ ~escape
    /\ escape' = TRUE
    /\ UNCHANGED <<reading, b, got>>

PlainByte(c) ==
    /\ TakeByte(c) /\ ~escape /\ HasRoom /\ c \notin {"newline", "backslash"}
    /\ b' = Append(b, c)
    /\ UNCHANGED <<reading, escape, got>>

(***************************************************************************)
(* The byte, or the terminator, that comes next is stored past the end of  *)
(* readString's buffer.  What the program does from there on is undefined, *)
(* and the model's reader stops.                                           *)
(***************************************************************************)
Overrun ==
    /\ reading /\ kind = "string" /\ Len(b) < Size /\ ~HasRoom
    /\ \/ rbuf # <<>> /\ (escape \/ Head(rbuf) # "backslash")
       \/ rbuf = <<>> /\ wire = <<>> /\ wpc = "closed"
    /\ overrun' = TRUE
    /\ UNCHANGED <<kind, maxlen, reading, rbuf, escape, b, eot, got, writer, wire>>

(***************************************************************************)
(* A call of readString after the end of the stream reads nothing, and     *)
(* terminates its string where a whole piece would end.  Such a call of    *)
(* readFD or of the web interface changes nothing.                         *)
(***************************************************************************)
ReadPastEnd ==
    /\ ~reading /\ eot /\ kind = "string"
    /\ maxlen' \in {m \in MaxLens : m < StringSize}
    /\ overrun' = TRUE
    /\ UNCHANGED <<kind, reading, rbuf, escape, b, eot, got, writer, wire>>

(***************************************************************************)
(* All that was asked for is there: readString reads on, into the same     *)
(* buffer; readFD, called without a maxsize, returns.                      *)
(***************************************************************************)
StringFull ==
    /\ reading /\ kind = "string" /\ Len(b) = Size
    /\ b' = <<>>
    /\ UNCHANGED <<call, reading, rbuf, escape, eot, got, writer, wire>>

FileFull ==
    /\ reading /\ kind = "file" /\ Len(b) = Size
    /\ Returns(b)
    /\ UNCHANGED <<call, rbuf, escape, b, eot, writer, wire>>

-----------------------------------------------------------------------------
(***************************************************************************)
(* The web interface collects bytes up to a newline, and replaces first    *)
(* each backslash and n by a newline, then two backslashes by one.         *)
(***************************************************************************)
Replace(s, x, y, z) ==
    LET from[i \in 1..(Len(s) + 2)] ==
            IF i > Len(s) THEN <<>>
            ELSE IF i < Len(s) /\ s[i] = x /\ s[i + 1] = y
            THEN <<z>> \o from[i + 2]
            ELSE <<s[i]>> \o from[i + 1]
    IN from[1]

Unescaped(msg) ==
    LET once == Replace(msg, "backslash", "n", "newline")
    IN Replace(once, "backslash", "backslash", "backslash")

PyRead ==
    /\ reading /\ kind = "python"
    /\ \E i \in 1..Len(wire) :
          /\ wire[i] = "newline"
          /\ \A j \in 1..(i - 1) : wire[j] # "newline"
          /\ Returns(Unescaped(SubSeq(wire, 1, i - 1)))
          /\ wire' = SubSeq(wire, i + 1, Len(wire))
    /\ UNCHANGED <<call, rbuf, escape, b, eot, writer>>

-----------------------------------------------------------------------------
Init ==
    /\ written = <<>> /\ wpc = "idle" /\ todo = <<>> /\ wbuf = <<>> /\ sent = 0
    /\ wire = <<>>
    /\ kind \in Reads /\ reading = FALSE /\ rbuf = <<>> /\ escape = FALSE /\ b = <<>>
    /\ eot = FALSE /\ got = <<>> /\ maxlen = 0 /\ overrun = FALSE

Write == Spill \/ Fill \/ EndOfPackage \/ Send

Read ==
    /\ ~overrun
    /\ \/ StartRead \/ Recv \/ RecvEnd
       \/ (\E c \in Byte : EscapedByte(c) \/ PlainByte(c)) \/ Newline \/ Backslash
       \/ Overrun \/ ReadPastEnd
       \/ StringFull \/ FileFull \/ PyRead

Next ==
    \/ \E p \in Package : StartWrite(p)
    \/ Write \/ Close
    \/ Read

Spec == Init /\ [][Next]_vars

(***************************************************************************)
(* Fairness: the writer finishes what it has begun unless it is killed,    *)
(* and the reader reads on.                                                *)
(***************************************************************************)
FairSpec ==
    /\ Spec
    /\ WF_vars(Write) /\ WF_vars(Read)

-----------------------------------------------------------------------------
(***************************************************************************)
(* The socket's own two buffers never hold more than they have room for,   *)
(* the escapes and the newline at the end included.  The buffer of the     *)
(* caller is another matter: see OverrunsHaveCauses.                       *)
(***************************************************************************)
BuffersHold == Len(wbuf) <= BufSize /\ Len(rbuf) <= BufSize

(***************************************************************************)
(* Type correctness of both ends, and the bounds of the socket's buffers.  *)
(***************************************************************************)
TypeOK ==
    /\ written \in Seq(Package) /\ Len(written) <= MaxPackages
    /\ wpc \in {"idle", "fill", "spill", "end", "closed"}
    /\ todo \in Seq(Byte) /\ wbuf \in Seq(Byte)
    /\ sent \in 0..BufSize
    /\ wire \in Seq(Byte)
    /\ kind \in Reads /\ reading \in BOOLEAN
    /\ maxlen \in Nat /\ overrun \in BOOLEAN
    /\ rbuf \in Seq(Byte) /\ b \in Seq(Byte)
    /\ escape \in BOOLEAN /\ eot \in BOOLEAN
    /\ got \in Seq(Seq(Byte))
    /\ BuffersHold

(***************************************************************************)
(* documentation.org:32-35: "All communication between applications        *)
(* consists of a series of packages.  A package is simply a binary string  *)
(* terminated by a newline".  What is read are the packages that were      *)
(* written, each once and in order, however the bytes are cut into pieces  *)
(* and wherever the writer is killed.                                      *)
(***************************************************************************)
PackagesArrive == IsPrefix(got, written)

(***************************************************************************)
(* What is read of packages longer than the reader's pieces: of a string,  *)
(* its last piece, which is empty when the pieces come out even; of a      *)
(* file, its pieces one by one, the last possibly empty; by the web        *)
(* interface everything, if no backslash precedes an n.  What readString   *)
(* gets after it has written past its buffer's end is not covered.         *)
(***************************************************************************)
LastPiece(p) == SubSeq(p, Len(p) - (Len(p) % StringSize) + 1, Len(p))

Pieces(p) ==
    [k \in 1..((Len(p) \div FileSize) + 1) |->
        SubSeq(p, (k - 1) * FileSize + 1, Min({k * FileSize, Len(p)}))]

StringTails == IsPrefix(got, [i \in DOMAIN written |-> LastPiece(written[i])])

FilePieces == IsPrefix(got, FlattenSeq([i \in DOMAIN written |-> Pieces(written[i])]))

Plain(p) == \A i \in 1..(Len(p) - 1) : ~(p[i] = "backslash" /\ p[i + 1] = "n")

PlainArrive ==
    /\ Len(got) <= Len(written)
    /\ \A i \in DOMAIN got : Plain(written[i]) => got[i] = written[i]

PiecesArrive ==
    /\ kind = "string" => StringTails
    /\ kind = "file" => FilePieces
    /\ kind = "python" => PlainArrive

(***************************************************************************)
(* readString asks read for 1023 bytes whatever the room its caller gives  *)
(* (packagesocket.cc:81-83).  It writes past the end of its buffer only    *)
(* when that room is less than a piece, and then only in a call made after *)
(* the end of the stream, or for a package longer than maxlen: a package   *)
(* of at most maxlen bytes never does it, whatever was read before and     *)
(* wherever the bytes are cut.                                             *)
(***************************************************************************)
OverrunsHaveCauses ==
    overrun =>
        /\ kind = "string" /\ maxlen < StringSize
        /\ \/ eot
           \/ Len(got) < Len(written) /\ Len(written[Len(got) + 1]) > maxlen

(***************************************************************************)
(* A package that has been written is read, unless the writer is killed or *)
(* the reader has written past the end of its buffer.                      *)
(***************************************************************************)
PackagesRead ==
    \A k \in 1..MaxPackages :
        Len(written) >= k ~> Len(got) >= k \/ wpc = "closed" \/ overrun

=============================================================================
