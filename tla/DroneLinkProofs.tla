--------------------------- MODULE DroneLinkProofs --------------------------
(***************************************************************************)
(* Theorems about DroneLink, for any entries and any number of requests.   *)
(***************************************************************************)
EXTENDS DroneLink, SequenceTheorems, FiniteSetTheorems, TLAPS

-----------------------------------------------------------------------------
(***************************************************************************)
(* Packages on their way to the drone: a request that has something behind *)
(* it has a name behind it, and nothing ends with a request unless it was  *)
(* cut off there.                                                          *)
(***************************************************************************)
Named(s) == \A k \in 1..Len(s) : s[k] \in Request /\ k < Len(s) => s[k + 1] \in Entry

Whole(s) == s # <<>> => s[Len(s)] \notin Request

LEMMA Words ==
    /\ {"list", "ping", "archive", "source", "rest", "known", "unknown", "import",
        "judge", "destroy"} \subseteq Package
    /\ {"pong", "invalid", "zero", "code", "text", "end"} \subseteq Package
    /\ Entry \subseteq Package
    /\ \A p \in Entry : /\ p \notin Request \cup Content \cup Answer
                        /\ p # "list" /\ p # "ping"
    /\ {"list", "ping", "archive", "source", "rest", "known", "unknown"} \cap Request = {}
  BY NameAssumption DEF Package, Request, Content, Answer

LEMMA NamedTail ==
    ASSUME NEW s \in Seq(Package), s # <<>>
    PROVE  /\ Head(s) \in Package /\ Tail(s) \in Seq(Package)
           /\ Named(s) => Named(Tail(s))
           /\ Whole(s) => Whole(Tail(s))
           /\ Named(s) /\ Head(s) \in Request
              => IF Tail(s) = <<>> THEN ~Whole(s) ELSE Head(Tail(s)) \in Entry
<1> DEFINE t == Tail(s)
<1>1. /\ Head(s) = s[1] /\ Head(s) \in Package /\ t \in Seq(Package)
      /\ Len(t) = Len(s) - 1 /\ Len(s) \in Nat \ {0}
      /\ \A k \in 1..Len(t) : t[k] = s[k + 1]
  BY HeadTailProperties, EmptySeq, LenProperties
<1>2. t = <<>> <=> Len(s) = 1
  BY <1>1, EmptySeq
<1>3. t # <<>> => Head(t) = t[1]
  BY <1>1, HeadTailProperties
<1> HIDE DEF t
<1>4. Named(s) => Named(t)
  BY <1>1 DEF Named
<1>5. Whole(s) => Whole(t)
  BY <1>1, <1>2 DEF Whole
<1>6. Named(s) /\ Head(s) \in Request => IF t = <<>> THEN ~Whole(s) ELSE Head(t) \in Entry
  BY <1>1, <1>2, <1>3 DEF Named, Whole
<1> QED
  BY <1>1, <1>4, <1>5, <1>6 DEF t

LEMMA NamedConcat ==
    ASSUME NEW s \in Seq(Package), NEW t \in Seq(Package), Named(s), Named(t), Whole(s)
    PROVE  /\ s \o t \in Seq(Package) /\ Named(s \o t)
           /\ Whole(t) => Whole(s \o t)
<1> DEFINE u == s \o t
<1>1. /\ u \in Seq(Package) /\ Len(u) = Len(s) + Len(t)
      /\ \A i \in 1..Len(u) : u[i] = IF i <= Len(s) THEN s[i] ELSE t[i - Len(s)]
      /\ Len(s) \in Nat /\ Len(t) \in Nat
  BY ConcatProperties, LenProperties
<1>2. /\ s = <<>> <=> Len(s) = 0
      /\ t = <<>> <=> Len(t) = 0
      /\ u = <<>> <=> Len(u) = 0
  BY <1>1, EmptySeq
<1> HIDE DEF u
<1>3. ASSUME NEW k \in 1..Len(u), u[k] \in Request, k < Len(u)
      PROVE  u[k + 1] \in Entry
  <2>1. CASE k < Len(s)
    BY <1>1, <1>3, <2>1 DEF Named
  <2>2. CASE k = Len(s)
    BY <1>1, <1>2, <1>3, <2>2 DEF Whole
  <2>3. CASE k > Len(s)
    <3>1. u[k] = t[k - Len(s)] /\ k - Len(s) \in 1..Len(t) /\ k - Len(s) < Len(t)
      BY <1>1, <1>3, <2>3
    <3>2. u[k + 1] = t[(k - Len(s)) + 1]
      BY <1>1, <1>3, <2>3
    <3> QED
      BY <1>3, <3>1, <3>2 DEF Named
  <2> QED
    BY <1>1, <1>3, <2>1, <2>2, <2>3
<1>4. Whole(t) => Whole(u)
  BY <1>1, <1>2 DEF Whole
<1> QED
  BY <1>1, <1>3, <1>4 DEF Named, u

LEMMA NamedPrefix ==
    ASSUME NEW s \in Seq(Package), NEW n \in 0..Len(s)
    PROVE  /\ SubSeq(s, 1, n) \in Seq(Package)
           /\ Named(s) => Named(SubSeq(s, 1, n))
<1>1. Len(s) \in Nat
  BY LenProperties
<1>2. /\ SubSeq(s, 1, n) \in Seq(Package) /\ Len(SubSeq(s, 1, n)) = n
      /\ \A i \in 1..n : SubSeq(s, 1, n)[i] = s[i]
  BY <1>1, SubSeqProperties
<1> QED
  BY <1>1, <1>2 DEF Named

LEMMA NamedOne ==
    ASSUME NEW p \in Package
    PROVE  <<p>> \in Seq(Package) /\ Named(<<p>>) /\ (p \notin Request => Whole(<<p>>))
  BY DEF Named, Whole

LEMMA NamedAsk ==
    ASSUME NEW r \in Request, NEW e \in Entry
    PROVE  /\ <<r, e>> \in Seq(Package) /\ Named(<<r, e>>) /\ Whole(<<r, e>>)
           /\ \A lang \in {"known", "unknown"} :
                 <<r, e, lang>> \in Seq(Package) /\ Named(<<r, e, lang>>) /\ Whole(<<r, e, lang>>)
<1>1. r \in Package /\ e \in Package /\ e \notin Request
  BY Words DEF Request
<1>2. /\ <<r, e>> \in Seq(Package) /\ Len(<<r, e>>) = 2
      /\ <<r, e>>[1] = r /\ <<r, e>>[2] = e
  BY <1>1
<1>3. Named(<<r, e>>) /\ Whole(<<r, e>>)
  BY <1>1, <1>2 DEF Named, Whole
<1>4. ASSUME NEW lang \in {"known", "unknown"}
      PROVE  <<r, e, lang>> \in Seq(Package) /\ Named(<<r, e, lang>>) /\ Whole(<<r, e, lang>>)
  <2>1. lang \in Package /\ lang \notin Request
    BY Words
  <2>2. /\ <<r, e, lang>> \in Seq(Package) /\ Len(<<r, e, lang>>) = 3
        /\ <<r, e, lang>>[1] = r /\ <<r, e, lang>>[2] = e /\ <<r, e, lang>>[3] = lang
    BY <1>1, <2>1
  <2> QED
    BY <1>1, <2>1, <2>2 DEF Named, Whole
<1> QED
  BY <1>2, <1>3, <1>4

(* The directories a drone lists, in the order it finds them. *)
LEMMA ListSeq == ASSUME NEW S \in SUBSET Entry PROVE SetToSeq(S) \in Seq(S)
<1> DEFINE n == Cardinality(S)
<1>1. IsFiniteSet(S)
  BY CallsAssumption, FS_Subset
<1>2. n \in Nat /\ ExistsBijection(1..n, S)
  BY <1>1, FS_CardinalityType
<1>3. \E f \in [1..n -> S] : IsInjective(f)
  BY <1>2 DEF ExistsBijection, Bijection, Injection
<1>4. SetToSeq(S) \in [1..n -> S]
  BY <1>3 DEF SetToSeq
<1> QED
  BY <1>2, <1>4

-----------------------------------------------------------------------------
(***************************************************************************)
(* While the list is read nothing else is on the link.                     *)
(***************************************************************************)
Listed == Entry \cup {"end"}

Listing == thread /\ at = "listing" =>
    /\ dpc \in {"command", "off"}
    /\ o2d \in {<<>>, <<"list">>}
    /\ d2o \in Seq(Listed)

(***************************************************************************)
(* What is on its way to the drone, and what its handlers read as names.   *)
(***************************************************************************)
Stream ==
    /\ o2d \in Seq(Package) /\ Named(o2d) /\ (link = "up" => Whole(o2d))
    /\ dpc \in {"importName", "destroyName", "judgeName"} =>
          IF o2d = <<>> THEN link # "up" ELSE Head(o2d) \in Entry
    /\ dpc \in {"importArchive", "judgeLang", "judgeSource"} \cup Working => name \in Entry

LInv == TypeOK /\ Listing /\ Stream

LEMMA LinkInit == Init => LInv
<1> SUFFICES ASSUME Init PROVE LInv
  OBVIOUS
<1>1. /\ o2d = <<>> /\ d2o = <<>> /\ link = "left" /\ ~thread /\ dpc = "off"
      /\ name \in Package
  BY Words DEF Init
<1>2. TypeOK
  <2>1. disk \in [Entry -> DirState] /\ seen = disk /\ calls = 0 /\ 0 \in 0..MaxCalls
    BY CallsAssumption DEF Init, DirState
  <2>2. o2d \in Seq(Package) /\ d2o \in Seq(Package)
    BY <1>1, EmptySeq
  <2> QED
    BY <1>1, <2>1, <2>2 DEF Init, TypeOK, ThreadState
<1>3. Stream
  BY <1>1, EmptySeq DEF Stream, Named, Working
<1> QED
  BY <1>1, <1>2, <1>3 DEF LInv, Listing

(* The thread writes packages, and the program goes on as before. *)
LEMMA StreamGrows ==
    ASSUME Stream, NEW t \in Seq(Package), Named(t), Whole(t), Write(t),
           UNCHANGED <<link, dpc, name>>
    PROVE  Stream'
<1>1. CASE link # "up"
  BY <1>1 DEF Write, Stream
<1>2. CASE link = "up"
  <2>1. o2d' = o2d \o t
    BY <1>2 DEF Write
  <2>2. o2d \o t \in Seq(Package) /\ Named(o2d \o t) /\ Whole(o2d \o t)
    BY <1>2, NamedConcat DEF Stream
  <2>3. o2d # <<>> => o2d \o t # <<>> /\ Head(o2d \o t) = Head(o2d)
    <3>1. /\ Len(o2d \o t) = Len(o2d) + Len(t) /\ Len(o2d) \in Nat /\ Len(t) \in Nat
          /\ \A i \in 1..Len(o2d \o t) :
                (o2d \o t)[i] = IF i <= Len(o2d) THEN o2d[i] ELSE t[i - Len(o2d)]
      BY ConcatProperties, LenProperties DEF Stream
    <3>2. o2d # <<>> => Len(o2d) # 0
      BY EmptySeq DEF Stream
    <3>3. o2d # <<>> => o2d \o t # <<>> /\ (o2d \o t)[1] = o2d[1]
      BY <3>1, <3>2, EmptySeq
    <3> QED
      BY <2>2, <3>3, HeadTailProperties DEF Stream
  <2> QED
    BY <1>2, <2>1, <2>2, <2>3 DEF Stream
<1> QED
  BY <1>1, <1>2

(* The link goes down, and some of the packages with it. *)
LEMMA StreamCut ==
    ASSUME Stream, NEW n \in 0..Len(o2d), o2d' = SubSeq(o2d, 1, n), link' # "up",
           UNCHANGED <<dpc, name>>
    PROVE  Stream'
<1>1. o2d' \in Seq(Package) /\ Named(o2d')
  BY NamedPrefix DEF Stream
<1>2. o2d' # <<>> => o2d # <<>> /\ Head(o2d') = Head(o2d)
  <2>1. /\ Len(o2d) \in Nat /\ Len(o2d') = n
        /\ \A i \in 1..n : o2d'[i] = o2d[i]
    BY SubSeqProperties, LenProperties DEF Stream
  <2>2. o2d' # <<>> => n # 0 /\ Len(o2d) # 0
    BY <1>1, <2>1, EmptySeq
  <2>3. o2d' # <<>> => o2d # <<>> /\ o2d'[1] = o2d[1]
    BY <2>1, <2>2, EmptySeq
  <2> QED
    BY <1>1, <2>3, HeadTailProperties DEF Stream
<1> QED
  BY <1>1, <1>2 DEF Stream

LEMMA StreamThread ==
    ASSUME LInv,
           \/ \E e \in Entry : AskImport(e) \/ AskDestroy(e)
                               \/ \E lang \in {"known", "unknown"} : AskJudge(e, lang)
           \/ ThreadWorks \/ NoArchive \/ SourceMissing \/ OverlordKilled
    PROVE  Stream'
<1> USE DEF LInv
<1>1. CASE UNCHANGED <<link, o2d, dpc, name>>
  BY <1>1 DEF Stream
<1>2. ASSUME ThreadEnds, UNCHANGED o2d  PROVE Stream'
  BY <1>2 DEF ThreadEnds, program, Stream
<1>3. ASSUME NEW p \in Package \ Request, Write(<<p>>), UNCHANGED <<link, dpc, name>>
      PROVE  Stream'
  BY <1>3, NamedOne, StreamGrows
<1>4. ASSUME NEW e \in Entry, AskImport(e) \/ AskDestroy(e)  PROVE Stream'
  <2>1. \E r \in Request : Write(<<r, e>>) /\ UNCHANGED <<link, dpc, name>>
    BY <1>4 DEF AskImport, AskDestroy, Ask, Request, program
  <2> QED
    BY <2>1, NamedAsk, StreamGrows
<1>5. ASSUME NEW e \in Entry, NEW lang \in {"known", "unknown"}, AskJudge(e, lang)
      PROVE  Stream'
  <2>1. Write(<<"judge", e, lang>>) /\ UNCHANGED <<link, dpc, name>> /\ "judge" \in Request
    BY <1>5 DEF AskJudge, Ask, program, Request
  <2> QED
    BY <2>1, NamedAsk, StreamGrows
<1>6. CASE ReadList \/ Pong \/ ReadCode \/ ReadText \/ NoArchive
  BY <1>1, <1>6 DEF ReadList, Pong, ReadCode, ReadText, NoArchive, wire, program
<1>7. CASE Ping \/ SendArchive \/ SendSource
  <2>1. \E p \in {"ping", "archive", "source"} :
           Write(<<p>>) /\ UNCHANGED <<link, dpc, name>>
    BY <1>7 DEF Ping, SendArchive, SendSource, SendFile, program
  <2> QED
    BY <1>3, <2>1, Words
<1>8. CASE LeaveDone \/ LeaveBroken \/ LeaveOutOfStep \/ SourceMissing
  BY <1>2, <1>8 DEF LeaveDone, LeaveBroken, LeaveOutOfStep, SourceMissing
<1>9. CASE OverlordKilled
  <2>1. \E n \in 0..Len(o2d) : o2d' = SubSeq(o2d, 1, n)
    BY <1>9 DEF OverlordKilled
  <2>2. link' # "up" /\ UNCHANGED <<dpc, name>>
    BY <1>9 DEF OverlordKilled, ThreadEnds, program
  <2> QED
    BY <2>1, <2>2, StreamCut
<1> QED
  BY <1>4, <1>5, <1>6, <1>7, <1>8, <1>9 DEF ThreadWorks

LEMMA StreamProgram == ASSUME LInv, ProgramWorks PROVE Stream'
<1> USE DEF LInv
<1> DEFINE p == Head(o2d)
           t == Tail(o2d)
<1>1. o2d # <<>> => /\ p \in Package /\ t \in Seq(Package) /\ Named(t)
                    /\ link = "up" => Whole(t)
                    /\ p \in Request => IF t = <<>> THEN link # "up" ELSE Head(t) \in Entry
  BY NamedTail DEF Stream
<1>2. CASE Command
  <2>1. o2d # <<>> /\ o2d' = t /\ UNCHANGED <<link, name>> /\ dpc = "command"
    BY <1>2 DEF Command
  <2>2. CASE p \in Request
    <3>1. dpc' \in {"importName", "destroyName", "judgeName"}
      BY <1>2, <2>2 DEF Command, Handler, Request
    <3> QED
      BY <1>1, <2>1, <2>2, <3>1 DEF Stream, Working
  <2>3. CASE p \notin Request
    <3>1. dpc' = dpc
      BY <1>2, <2>3 DEF Command, Request
    <3> QED
      BY <1>1, <2>1, <3>1 DEF Stream, Working
  <2> QED
    BY <2>2, <2>3
<1>3. CASE ImportName \/ DestroyName \/ JudgeName
  <2>1. /\ o2d # <<>> /\ o2d' = t /\ name' = p /\ link' = link
        /\ dpc \in {"importName", "destroyName", "judgeName"}
        /\ dpc' \in {"importArchive", "destroying", "judgeLang"}
    BY <1>3 DEF ImportName, DestroyName, JudgeName, ReadName
  <2> QED
    BY <1>1, <2>1 DEF Stream
<1>4. ASSUME o2d # <<>>, ReadFile, UNCHANGED <<link, name>>, dpc' \in Working, name \in Entry
      PROVE  Stream'
  <2>1. o2d' \in Seq(Package) /\ Named(o2d') /\ (link = "up" => Whole(o2d'))
    <3>1. CASE o2d' = t
      BY <1>1, <1>4, <3>1
    <3>2. CASE o2d' = <<"rest">> \o t
      <4>1. <<"rest">> \in Seq(Package) /\ Named(<<"rest">>) /\ Whole(<<"rest">>)
        BY Words, NamedOne
      <4> HIDE DEF t
      <4> QED
        BY <1>1, <1>4, <3>2, <4>1, NamedConcat
    <3> QED
      BY <1>4, <3>1, <3>2 DEF ReadFile
  <2> QED
    BY <1>4, <2>1 DEF Stream, Working
<1>5. CASE ImportArchive \/ JudgeSource
  <2>1. /\ o2d # <<>> /\ ReadFile /\ UNCHANGED <<link, name>>
        /\ dpc' \in Working /\ dpc \in {"importArchive", "judgeSource"}
    BY <1>5 DEF ImportArchive, JudgeSource, Working
  <2> QED
    BY <1>4, <2>1 DEF Stream
<1>6. CASE JudgeLang
  <2>1. /\ o2d # <<>> /\ o2d' = t /\ UNCHANGED <<link, name>> /\ dpc = "judgeLang"
        /\ dpc' \in {"judgeSource", "text"}
    BY <1>6 DEF JudgeLang
  <2> QED
    BY <1>1, <2>1 DEF Stream, Working
<1>7. ASSUME UNCHANGED <<link, o2d, name>>, dpc \in Working, dpc' \in Working \cup {"command"}
      PROVE  Stream'
  BY <1>7 DEF Stream, Working
<1>8. ASSUME NEW s, ImportEnds(s) \/ DestroyEnds(s) \/ JudgeEnds(s)  PROVE Stream'
  BY <1>7, <1>8 DEF ImportEnds, DestroyEnds, JudgeEnds, Working
<1>9. CASE Text
  BY <1>7, <1>9 DEF Text, Working
<1>10. CASE LinkDown
  BY <1>10 DEF LinkDown, ProgramEnds, Stream, Working
<1> QED
  BY <1>2, <1>3, <1>5, <1>6, <1>8, <1>9, <1>10 DEF ProgramWorks

LEMMA StreamNext == ASSUME LInv, [Next]_vars PROVE Stream'
<1> USE DEF LInv
<1>1. CASE UNCHANGED vars
  BY <1>1 DEF vars, wire, program, Stream
<1>2. CASE Connect
  <2>1. o2d' = <<"list">> /\ dpc' = "command"
    BY <1>2 DEF Connect
  <2>2. "list" \in Package /\ "list" \notin Request
    BY Words
  <2>3. <<"list">> \in Seq(Package) /\ Named(<<"list">>) /\ Whole(<<"list">>)
    BY <2>2, NamedOne
  <2> QED
    BY <2>1, <2>3 DEF Stream, Working
<1>3. CASE Killed
  BY <1>3 DEF Killed, ProgramEnds, Stream, Working
<1>4. CASE Reset
  <2>1. \E n \in 0..Len(o2d) : o2d' = SubSeq(o2d, 1, n)
    BY <1>4 DEF Reset
  <2>2. link' # "up" /\ UNCHANGED <<dpc, name>>
    BY <1>4 DEF Reset, program
  <2> QED
    BY <2>1, <2>2, StreamCut
<1> QED
  BY <1>1, <1>2, <1>3, <1>4, StreamThread, StreamProgram DEF Next

-----------------------------------------------------------------------------
(***************************************************************************)
(* Types.  A list adds names of entries to what is known because nothing   *)
(* but the list is on the link then.                                       *)
(***************************************************************************)
LEMMA ReadTypes ==
    ASSUME NEW S, NEW s \in Seq(S), s # <<>>
    PROVE  Head(s) \in S /\ Tail(s) \in Seq(S)
  BY HeadTailProperties

LEMMA BecomeType ==
    ASSUME TypeOK, NEW p, NEW s \in DirState, Become(p, s)
    PROVE  disk' \in [Entry -> DirState]
  BY DEF Become, TypeOK

LEMMA AnswersType ==
    ASSUME TypeOK, NEW t \in Seq(Package), Answers(t)
    PROVE  d2o' \in Seq(Package)
  BY ConcatProperties DEF Answers, TypeOK

LEMMA ThreadTypes ==
    ASSUME LInv, o2d' \in Seq(Package),
           \/ \E e \in Entry : AskImport(e) \/ AskDestroy(e)
                               \/ \E lang \in {"known", "unknown"} : AskJudge(e, lang)
           \/ ThreadWorks \/ NoArchive \/ SourceMissing \/ OverlordKilled
    PROVE  TypeOK'
<1> USE DEF LInv
<1>1. ASSUME NEW e \in Entry, NEW to \in ThreadState, NEW packages, Ask(e, to, packages)
      PROVE  TypeOK'
  <2>1. calls' \in 0..MaxCalls
    BY <1>1, CallsAssumption DEF Ask, TypeOK
  <2> QED
    BY <1>1, <2>1 DEF Ask, TypeOK, program, history
<1>2. CASE \E e \in Entry : AskImport(e) \/ AskDestroy(e)
                             \/ \E lang \in {"known", "unknown"} : AskJudge(e, lang)
  BY <1>1, <1>2 DEF AskImport, AskDestroy, AskJudge, ThreadState
<1>3. CASE ReadList
  <2>1. Head(d2o) \in Listed /\ d2o' \in Seq(Package)
    BY <1>3, ReadTypes DEF ReadList, Listing, TypeOK
  <2> QED
    BY <1>3, <2>1 DEF ReadList, TypeOK, program, history, Listed, ThreadState
<1>4. CASE Ping \/ SendArchive \/ SendSource \/ NoArchive
  BY <1>4 DEF Ping, SendArchive, SendSource, SendFile, NoArchive, TypeOK, wire, program,
     history, ThreadState
<1>5. CASE Pong
  BY <1>5, ReadTypes DEF Pong, TypeOK, program, history, ThreadState
<1>6. CASE ReadCode
  <2>1. d2o' \in Seq(Package) /\ code' \in {"none", "zero", "other"}
    BY <1>6, ReadTypes DEF ReadCode, TypeOK, CodeOf
  <2> QED
    BY <1>6, <2>1 DEF ReadCode, TypeOK, program, history
<1>7. NowKnown \subseteq Entry
  BY DEF NowKnown, TypeOK
<1>8. CASE ReadText
  <2>1. d2o' \in Seq(Package)
    BY <1>8, ReadTypes DEF ReadText, TypeOK
  <2>2. skew' \in BOOLEAN
    BY <1>8 DEF ReadText, TypeOK
  <2> QED
    BY <1>7, <1>8, <2>1, <2>2 DEF ReadText, TypeOK, program, ThreadState
<1>9. ASSUME ThreadEnds, at' \in ThreadState, known' \subseteq Entry  PROVE TypeOK'
  <2>1. seen' \in [Entry -> DirState]
    BY <1>9 DEF ThreadEnds, SeenAtEnd, TypeOK, program
  <2> QED
    BY <1>9, <2>1 DEF ThreadEnds, TypeOK, program
<1>10. CASE LeaveDone \/ LeaveBroken \/ LeaveOutOfStep \/ SourceMissing
  BY <1>7, <1>9, <1>10 DEF LeaveDone, LeaveBroken, LeaveOutOfStep, SourceMissing, TypeOK
<1>11. CASE OverlordKilled
  BY <1>9, <1>11 DEF OverlordKilled, ThreadState
<1> QED
  BY <1>2, <1>3, <1>4, <1>5, <1>6, <1>8, <1>10, <1>11 DEF ThreadWorks

LEMMA ProgramTypes == ASSUME LInv, o2d' \in Seq(Package), ProgramWorks PROVE TypeOK'
<1> USE DEF LInv
<1>1. o2d # <<>> => Head(o2d) \in Package
  BY ReadTypes DEF TypeOK
<1>2. ASSUME NEW q \in {"zero", "code", "text", "invalid", "pong"}
      PROVE  <<q>> \in Seq(Package)
  BY <1>2, Words, NamedOne
<1>3. CASE Command
  <2>1. SetToSeq(Directories) \o <<"end">> \in Seq(Package)
    <3>1. Directories \in SUBSET Entry
      BY DEF Directories
    <3>2. SetToSeq(Directories) \in Seq(Directories)
      BY <3>1, ListSeq
    <3>3. Directories \subseteq Package
      BY <3>1, Words
    <3>4. SetToSeq(Directories) \in Seq(Package)
      BY <3>2, <3>3
    <3>5. <<"end">> \in Seq(Package)
      BY Words, NamedOne
    <3> QED
      BY <3>4, <3>5, ConcatProperties
  <2>2. d2o' \in Seq(Package)
    BY <1>2, <1>3, <2>1, AnswersType DEF Command, InvalidCommand, TypeOK
  <2>3. dpc' \in Reading
    BY <1>3 DEF Command, Handler, Request, Reading
  <2> QED
    BY <1>3, <2>2, <2>3 DEF Command, TypeOK, overlord, history
<1>4. ASSUME NEW from, NEW to \in Reading \cup Working, ReadName(from, to),
             disk' \in [Entry -> DirState]
      PROVE  TypeOK'
  BY <1>1, <1>4 DEF ReadName, TypeOK, overlord, history
<1>5. CASE ImportName \/ DestroyName \/ JudgeName
  <2>1. disk' \in [Entry -> DirState]
    BY <1>5, BecomeType DEF ImportName, DestroyName, JudgeName, DirState, TypeOK
  <2> QED
    BY <1>4, <1>5, <2>1 DEF ImportName, DestroyName, JudgeName, Reading, Working
<1>6. CASE ImportArchive \/ JudgeSource
  <2>1. disk' \in [Entry -> DirState]
    BY <1>6, BecomeType DEF ImportArchive, JudgeSource, DirState, TypeOK
  <2> QED
    BY <1>6, <2>1 DEF ImportArchive, JudgeSource, TypeOK, overlord, history, Working
<1>7. ASSUME NEW s \in DirState, ImportEnds(s)  PROVE TypeOK'
  <2>1. disk' \in [Entry -> DirState]
    BY <1>7, BecomeType DEF ImportEnds
  <2>2. d2o' \in Seq(Package)
    BY <1>2, <1>7, AnswersType DEF ImportEnds, ImportCode
  <2> QED
    BY <1>7, <2>1, <2>2 DEF ImportEnds, TypeOK, overlord, history, Working
<1>8. ASSUME NEW answer \in {"zero", "code"}, DestroyEnds(answer) \/ JudgeEnds(answer)
      PROVE  TypeOK'
  <2>1. disk' \in [Entry -> DirState]
    BY <1>8, BecomeType DEF DestroyEnds, JudgeEnds, DirState, TypeOK
  <2>2. d2o' \in Seq(Package)
    BY <1>2, <1>8, AnswersType DEF DestroyEnds, JudgeEnds
  <2> QED
    BY <1>8, <2>1, <2>2 DEF DestroyEnds, JudgeEnds, TypeOK, overlord, history, Working
<1>9. CASE JudgeLang
  <2>1. d2o' \in Seq(Package)
    BY <1>2, <1>9, AnswersType DEF JudgeLang, TypeOK
  <2> QED
    BY <1>9, <2>1 DEF JudgeLang, TypeOK, overlord, history, Working, Reading
<1>10. CASE Text
  <2>1. d2o' \in Seq(Package)
    BY <1>2, <1>10, AnswersType DEF Text, Message
  <2> QED
    BY <1>10, <2>1 DEF Text, TypeOK, overlord, history, Reading
<1>11. CASE LinkDown
  <2>1. disk' \in [Entry -> DirState]
    BY <1>11, BecomeType DEF LinkDown, Nothing, DirState, TypeOK
  <2>2. seen' \in [Entry -> DirState]
    BY <1>11, <2>1 DEF LinkDown, ProgramEnds, SeenAtEnd, TypeOK
  <2> QED
    BY <1>11, <2>1, <2>2 DEF LinkDown, ProgramEnds, TypeOK, overlord
<1> QED
  BY <1>3, <1>5, <1>6, <1>7, <1>8, <1>9, <1>10, <1>11 DEF ProgramWorks

LEMMA TypesNext == ASSUME LInv, [Next]_vars PROVE TypeOK'
<1> USE DEF LInv
<1>1. o2d' \in Seq(Package)
  BY StreamNext DEF Stream
<1>2. CASE UNCHANGED vars
  BY <1>2 DEF vars, wire, overlord, program, history, TypeOK
<1>3. CASE Connect
  BY <1>1, <1>3, EmptySeq DEF Connect, TypeOK, ThreadState, Reading
<1>4. CASE Killed
  <2>1. seen' \in [Entry -> DirState]
    BY <1>4 DEF Killed, ProgramEnds, SeenAtEnd, TypeOK
  <2> QED
    BY <1>4, <2>1 DEF Killed, ProgramEnds, TypeOK, overlord
<1>5. CASE Reset
  <2>1. d2o' \in Seq(Package)
    BY <1>5, NamedPrefix DEF Reset, TypeOK
  <2> QED
    BY <1>1, <1>5, <2>1 DEF Reset, TypeOK, overlord, program, history
<1> QED
  BY <1>1, <1>2, <1>3, <1>4, <1>5, ThreadTypes, ProgramTypes DEF Next

LEMMA ListingNext == ASSUME LInv, [Next]_vars PROVE Listing'
<1> USE DEF LInv
<1>1. CASE UNCHANGED vars
  BY <1>1 DEF vars, wire, overlord, program, Listing
<1>2. CASE Connect
  <2>1. dpc' = "command" /\ o2d' = <<"list">> /\ d2o' = <<>>
    BY <1>2 DEF Connect
  <2> QED
    BY <2>1, EmptySeq DEF Listing
<1>3. CASE ReadList
  <2>1. thread /\ at = "listing" /\ d2o # <<>> /\ d2o' = Tail(d2o) /\ UNCHANGED <<o2d, dpc>>
    BY <1>3 DEF ReadList, program
  <2> QED
    BY <2>1, ReadTypes DEF Listing
<1>4. CASE \/ \E e \in Entry : AskImport(e) \/ AskDestroy(e)
                               \/ \E lang \in {"known", "unknown"} : AskJudge(e, lang)
           \/ Ping \/ Pong \/ SendArchive \/ SendSource \/ NoArchive \/ ReadText
           \/ ReadCode \/ LeaveDone \/ LeaveBroken \/ LeaveOutOfStep \/ SourceMissing
           \/ OverlordKilled
  BY <1>4 DEF AskImport, AskDestroy, AskJudge, Ask, Ping, Pong, SendArchive, SendSource,
     SendFile, NoArchive, ReadText, ReadCode, LeaveDone, LeaveBroken, LeaveOutOfStep,
     SourceMissing, OverlordKilled, ThreadEnds, Listing
<1>5. CASE Command
  <2> SUFFICES ASSUME thread, at = "listing"
               PROVE  dpc' = "command" /\ o2d' = <<>> /\ d2o' \in Seq(Listed)
    BY <1>5 DEF Command, overlord, Listing
  <2>1. o2d = <<"list">> /\ d2o \in Seq(Listed)
    BY <1>5 DEF Command, Listing
  <2>2. Head(o2d) = "list" /\ Tail(o2d) = <<>>
    BY <2>1
  <2>3. /\ dpc = "command" /\ dpc' = dpc /\ o2d' = <<>>
        /\ Answers(SetToSeq(Directories) \o <<"end">>)
    <3>1. dpc = "command" /\ o2d' = <<>>
      BY <1>5, <2>2 DEF Command
    <3>2. Head(o2d) = "list" => Answers(SetToSeq(Directories) \o <<"end">>) /\ UNCHANGED dpc
      BY <1>5 DEF Command, Request
    <3> QED
      BY <2>2, <3>1, <3>2
  <2>4. SetToSeq(Directories) \o <<"end">> \in Seq(Listed)
    <3>1. Directories \in SUBSET Entry /\ Directories \subseteq Listed
      BY DEF Directories, Listed
    <3>2. SetToSeq(Directories) \in Seq(Directories)
      BY <3>1, ListSeq
    <3>3. SetToSeq(Directories) \in Seq(Listed)
      BY <3>1, <3>2
    <3>4. <<"end">> \in Seq(Listed)
      BY DEF Listed
    <3> QED
      BY <3>3, <3>4, ConcatProperties
  <2>5. d2o' \in Seq(Listed)
    BY <2>1, <2>3, <2>4, ConcatProperties DEF Answers
  <2> QED
    BY <2>3, <2>5
<1>6. ASSUME dpc \notin {"command", "off"}, UNCHANGED <<thread, at>>  PROVE Listing'
  BY <1>6 DEF Listing
<1>7. ASSUME ProgramWorks, ~Command, ~LinkDown  PROVE Listing'
  BY <1>6, <1>7 DEF ProgramWorks, ImportName, ImportArchive, ImportEnds, DestroyName,
     DestroyEnds, JudgeName, JudgeLang, JudgeSource, JudgeEnds, Text, ReadName, overlord
<1>8. CASE LinkDown \/ Killed
  BY <1>8 DEF LinkDown, Killed, ProgramEnds, overlord, Listing
<1>9. CASE Reset
  <2> SUFFICES ASSUME thread, at = "listing"
               PROVE  o2d' \in {<<>>, <<"list">>} /\ d2o' \in Seq(Listed)
    BY <1>9 DEF Reset, overlord, program, Listing
  <2>1. PICK n \in 0..Len(d2o) : d2o' = SubSeq(d2o, 1, n)
    BY <1>9 DEF Reset
  <2>2. PICK m \in 0..Len(o2d) : o2d' = SubSeq(o2d, 1, m)
    BY <1>9 DEF Reset
  <2>3. d2o \in Seq(Listed) /\ o2d \in {<<>>, <<"list">>}
    BY DEF Listing
  <2>4. d2o' \in Seq(Listed)
    BY <2>1, <2>3, SubSeqProperties, LenProperties
  <2>5. o2d' \in {<<>>, <<"list">>}
    <3>1. CASE o2d = <<>>
      BY <2>2, <3>1
    <3>2. CASE o2d = <<"list">>
      <4>1. m = 0 \/ m = 1
        BY <2>2, <3>2
      <4>2. SubSeq(<<"list">>, 1, 0) = <<>>
        BY SubSeqEmpty
      <4>3. SubSeq(<<"list">>, 1, 1) = <<"list">>
        <5>1. <<"list">> \in Seq({"list"}) /\ Len(<<"list">>) = 1
          OBVIOUS
        <5>2. SubSeq(<<"list">>, 1, Len(<<"list">>)) = <<"list">>
          BY <5>1, SubSeqFull
        <5> QED
          BY <5>1, <5>2
      <4> QED
        BY <2>2, <3>2, <4>1, <4>2, <4>3
    <3> QED
      BY <2>3, <3>1, <3>2
  <2> QED
    BY <2>4, <2>5
<1> QED
  BY <1>1, <1>2, <1>3, <1>4, <1>5, <1>7, <1>8, <1>9 DEF Next, ThreadWorks, ProgramWorks

LEMMA LinkInvariant == Spec => []LInv
<1>1. LInv /\ [Next]_vars => LInv'
  BY StreamNext, TypesNext, ListingNext DEF LInv
<1> QED
  BY <1>1, LinkInit, PTL DEF Spec

(***************************************************************************)
(* For any entries and any number of requests, the thread and the program  *)
(* keep their types, in whatever order their packages are read: a list is  *)
(* read as names of entries only (Drone::run_, ListHandler).               *)
(***************************************************************************)
THEOREM LinkTypes == Spec => []TypeOK
<1>1. LInv => TypeOK
  BY DEF LInv
<1> QED
  BY <1>1, LinkInvariant, PTL

(***************************************************************************)
(* However far requests and answers are out of step, and wherever the link *)
(* or an end of it breaks, the package a handler of the drone reads as a   *)
(* name is the name of an entry: never a command, a language or a file     *)
(* (RequestHandler::run, ImportHandler, JudgeHandler, DestroyHandler).     *)
(***************************************************************************)
THEOREM NamesCorrect == Spec => []NamesAreNames
<1>1. LInv => NamesAreNames
  BY DEF LInv, TypeOK, Stream, NamesAreNames
<1> QED
  BY <1>1, LinkInvariant, PTL

-----------------------------------------------------------------------------
(***************************************************************************)
(* Sequences by their elements.                                            *)
(***************************************************************************)
LEMMA TailAt ==
    ASSUME NEW S, NEW s \in Seq(S), s # <<>>
    PROVE  /\ Len(s) \in Nat \ {0} /\ Head(s) = s[1] /\ s[1] \in S
           /\ Tail(s) \in Seq(S) /\ Len(Tail(s)) = Len(s) - 1
           /\ \A k \in 1..(Len(s) - 1) : Tail(s)[k] = s[k + 1]
  BY HeadTailProperties, EmptySeq, LenProperties

LEMMA AppendAt ==
    ASSUME NEW S, NEW s \in Seq(S), NEW p \in S
    PROVE  /\ s \o <<p>> \in Seq(S) /\ Len(s \o <<p>>) = Len(s) + 1 /\ Len(s) \in Nat
           /\ \A k \in 1..Len(s) : (s \o <<p>>)[k] = s[k]
           /\ (s \o <<p>>)[Len(s) + 1] = p
<1>1. <<p>> \in Seq(S) /\ Len(<<p>>) = 1 /\ <<p>>[1] = p
  OBVIOUS
<1> QED
  BY <1>1, ConcatProperties, LenProperties

LEMMA ConsAt ==
    ASSUME NEW S, NEW s \in Seq(S), NEW p \in S
    PROVE  /\ <<p>> \o s \in Seq(S) /\ Len(<<p>> \o s) = Len(s) + 1 /\ Len(s) \in Nat
           /\ \A k \in 1..Len(s) : (<<p>> \o s)[k + 1] = s[k]
           /\ (<<p>> \o s)[1] = p
<1>1. <<p>> \in Seq(S) /\ Len(<<p>>) = 1 /\ <<p>>[1] = p
  OBVIOUS
<1> QED
  BY <1>1, ConcatProperties, LenProperties

-----------------------------------------------------------------------------
(***************************************************************************)
(* How the program will read the packages on their way: in which state it  *)
(* takes each, and how many answers it owes for it.  A command is answered *)
(* with one package, a request with two, and what a handler reads with     *)
(* none.                                                                   *)
(***************************************************************************)
Reads(q, p) ==
    CASE q = "command" -> IF p \in Request THEN Handler(p) ELSE "command"
      [] q = "importName" -> "importArchive"
      [] q = "judgeName" -> "judgeLang"
      [] q = "judgeLang" /\ p = "known" -> "judgeSource"
      [] OTHER -> "command"

Worth(q, p) == IF q # "command" THEN 0 ELSE IF p \in Request THEN 2 ELSE 1

(***************************************************************************)
(* Starting in q the program reads s, is in z then, and owes n answers; a  *)
(* handler that is still reading at the end is owed for in s or was at     *)
(* work in q.                                                              *)
(***************************************************************************)
Parses(s, q, z, n, f, c) ==
    /\ f[0] = q /\ c[0] = 0 /\ f[Len(s)] = z /\ c[Len(s)] = n
    /\ \A k \in 1..Len(s) : /\ f[k] = Reads(f[k - 1], s[k])
                            /\ c[k] = c[k - 1] + Worth(f[k - 1], s[k])
    /\ \A k \in 0..Len(s) : /\ c[k] <= n
                            /\ f[k] = "command" /\ z # "command" => c[k] + 2 <= n

Parse(s, q, z, n) ==
    \E f \in [0..Len(s) -> Reading], c \in [0..Len(s) -> Int] : Parses(s, q, z, n, f, c)

LEMMA ReadsType ==
    ASSUME NEW q \in Reading, NEW p \in Package
    PROVE  Reads(q, p) \in Reading /\ Worth(q, p) \in 0..2
  BY DEF Reads, Worth, Handler, Request, Reading

LEMMA ParseEmpty == ASSUME NEW q \in Reading PROVE Parse(<<>>, q, q, 0)
<1>1. Len(<<>>) = 0
  OBVIOUS
<1> DEFINE f == [k \in 0..0 |-> q]
           c == [k \in 0..0 |-> 0]
<1>2. f \in [0..0 -> Reading] /\ c \in [0..0 -> Int] /\ f[0] = q /\ c[0] = 0
  OBVIOUS
<1> HIDE DEF f, c
<1>3. Parses(<<>>, q, q, 0, f, c)
  BY <1>1, <1>2 DEF Parses
<1> QED
  BY <1>1, <1>2, <1>3 DEF Parse

LEMMA ParseTail ==
    ASSUME NEW s \in Seq(Package), s # <<>>, NEW q \in Reading, NEW z, NEW n \in Int,
           Parse(s, q, z, n)
    PROVE  /\ Worth(q, Head(s)) <= n
           /\ Parse(Tail(s), Reads(q, Head(s)), z, n - Worth(q, Head(s)))
<1> DEFINE m == Len(s)
           t == Tail(s)
           w == Worth(q, Head(s))
<1>1. PICK f \in [0..m -> Reading], c \in [0..m -> Int] : Parses(s, q, z, n, f, c)
  BY DEF Parse
<1>2. /\ m \in Nat \ {0} /\ Head(s) = s[1] /\ s[1] \in Package /\ Len(t) = m - 1
      /\ \A k \in 1..(m - 1) : t[k] = s[k + 1]
  BY TailAt
<1>3. f[1] = Reads(q, Head(s)) /\ c[1] = w /\ w \in Int /\ w <= n
  BY <1>1, <1>2, ReadsType DEF Parses
<1> DEFINE g == [k \in 0..(m - 1) |-> f[k + 1]]
           d == [k \in 0..(m - 1) |-> c[k + 1] - w]
<1>4. g \in [0..(m - 1) -> Reading] /\ d \in [0..(m - 1) -> Int]
  BY <1>2, <1>3
<1>5. \A k \in 0..(m - 1) : g[k] = f[k + 1] /\ d[k] = c[k + 1] - w
  OBVIOUS
<1> HIDE DEF t, w, g, d
<1>6. Parses(t, Reads(q, Head(s)), z, n - w, g, d)
  <2>1. g[0] = f[1] /\ d[0] = 0 /\ g[m - 1] = z /\ d[m - 1] = n - w
    BY <1>1, <1>2, <1>3, <1>5 DEF Parses
  <2>2. ASSUME NEW k \in 1..(m - 1)
        PROVE  g[k] = Reads(g[k - 1], t[k]) /\ d[k] = d[k - 1] + Worth(g[k - 1], t[k])
    <3>1. k + 1 \in 1..m /\ k \in 0..(m - 1) /\ k - 1 \in 0..(m - 1) /\ (k + 1) - 1 = k
          /\ (k - 1) + 1 = k /\ t[k] = s[k + 1]
      BY <1>2
    <3>2. /\ f[k + 1] = Reads(f[k], s[k + 1])
          /\ c[k + 1] = c[k] + Worth(f[k], s[k + 1])
      BY <1>1, <3>1 DEF Parses
    <3>3. g[k] = f[k + 1] /\ g[k - 1] = f[k] /\ d[k] = c[k + 1] - w /\ d[k - 1] = c[k] - w
      BY <1>5, <3>1
    <3>4. c[k] \in Int /\ s[k + 1] \in Package /\ f[k] \in Reading
      BY <1>1, <1>2, <3>1, ElementOfSeq
    <3>5. Worth(f[k], s[k + 1]) \in Int
      BY <3>4, ReadsType
    <3> QED
      BY <1>3, <3>1, <3>2, <3>3, <3>4, <3>5
  <2>3. ASSUME NEW k \in 0..(m - 1)
        PROVE  d[k] <= n - w /\ (g[k] = "command" /\ z # "command" => d[k] + 2 <= n - w)
    <3>1. k + 1 \in 0..m /\ c[k + 1] \in Int
      BY <1>1, <1>2
    <3>2. c[k + 1] <= n /\ (f[k + 1] = "command" /\ z # "command" => c[k + 1] + 2 <= n)
      BY <1>1, <3>1 DEF Parses
    <3> QED
      BY <1>3, <1>5, <3>1, <3>2
  <2> QED
    BY <1>2, <1>3, <2>1, <2>2, <2>3 DEF Parses
<1> QED
  BY <1>2, <1>3, <1>4, <1>6 DEF Parse, t, w

LEMMA ParseAppend ==
    ASSUME NEW s \in Seq(Package), NEW q \in Reading, NEW z \in Reading, NEW n \in Int,
           Parse(s, q, z, n), NEW p \in Package
    PROVE  Parse(s \o <<p>>, q, Reads(z, p), n + Worth(z, p))
<1> DEFINE m == Len(s)
           t == s \o <<p>>
           x == Reads(z, p)
           w == Worth(z, p)
<1>1. PICK f \in [0..m -> Reading], c \in [0..m -> Int] : Parses(s, q, z, n, f, c)
  BY DEF Parse
<1>2. /\ m \in Nat /\ Len(t) = m + 1 /\ t[m + 1] = p
      /\ \A k \in 1..m : t[k] = s[k]
  BY AppendAt
<1>3. x \in Reading /\ w \in 0..2
  BY ReadsType
<1> DEFINE g == [k \in 0..(m + 1) |-> IF k = m + 1 THEN x ELSE f[k]]
           d == [k \in 0..(m + 1) |-> IF k = m + 1 THEN n + w ELSE c[k]]
<1>4. g \in [0..(m + 1) -> Reading] /\ d \in [0..(m + 1) -> Int]
  BY <1>2, <1>3
<1>5. /\ \A k \in 0..m : g[k] = f[k] /\ d[k] = c[k]
      /\ g[m + 1] = x /\ d[m + 1] = n + w
  BY <1>2
<1> HIDE DEF t, g, d
<1>6. ASSUME NEW k \in 1..(m + 1)
      PROVE  g[k] = Reads(g[k - 1], t[k]) /\ d[k] = d[k - 1] + Worth(g[k - 1], t[k])
  <2>1. CASE k = m + 1
    BY <1>1, <1>2, <1>5, <2>1 DEF Parses
  <2>2. CASE k \in 1..m
    BY <1>1, <1>2, <1>5, <2>2 DEF Parses
  <2> QED
    BY <1>2, <2>1, <2>2
<1>7. x # "command" => z # "command" \/ w = 2
  BY DEF Reads, Worth
<1> HIDE DEF x, w
<1>8. ASSUME NEW k \in 0..(m + 1)
      PROVE  d[k] <= n + w /\ (g[k] = "command" /\ x # "command" => d[k] + 2 <= n + w)
  <2>1. CASE k = m + 1
    BY <1>3, <1>5, <2>1
  <2>2. CASE k \in 0..m
    <3>1. c[k] <= n /\ (f[k] = "command" /\ z # "command" => c[k] + 2 <= n) /\ c[k] \in Int
      BY <1>1, <2>2 DEF Parses
    <3> QED
      BY <1>3, <1>5, <1>7, <2>2, <3>1
  <2> QED
    BY <1>2, <2>1, <2>2
<1>9. Parses(t, q, x, n + w, g, d)
  <2>1. g[0] = q /\ d[0] = 0
    BY <1>1, <1>2, <1>5 DEF Parses
  <2> QED
    BY <1>2, <1>5, <1>6, <1>8, <2>1 DEF Parses
<1> QED
  BY <1>2, <1>4, <1>9 DEF Parse, t, x, w

(* What is left of a file comes before the rest, and is answered once. *)
LEMMA ParseRest ==
    ASSUME NEW s \in Seq(Package), NEW z, NEW n \in Int, Parse(s, "command", z, n),
           NEW p \in Package \ Request
    PROVE  Parse(<<p>> \o s, "command", z, n + 1)
<1> DEFINE m == Len(s)
           t == <<p>> \o s
<1>1. PICK f \in [0..m -> Reading], c \in [0..m -> Int] : Parses(s, "command", z, n, f, c)
  BY DEF Parse
<1>2. /\ m \in Nat /\ Len(t) = m + 1 /\ t[1] = p
      /\ \A k \in 1..m : t[k + 1] = s[k]
  BY ConsAt
<1>3. Reads("command", p) = "command" /\ Worth("command", p) = 1 /\ "command" \in Reading
  BY DEF Reads, Worth, Reading
<1> DEFINE g == [k \in 0..(m + 1) |-> IF k = 0 THEN "command" ELSE f[k - 1]]
           d == [k \in 0..(m + 1) |-> IF k = 0 THEN 0 ELSE c[k - 1] + 1]
<1>4. g \in [0..(m + 1) -> Reading] /\ d \in [0..(m + 1) -> Int]
  BY <1>2, <1>3
<1>5. /\ \A k \in 1..(m + 1) : g[k] = f[k - 1] /\ d[k] = c[k - 1] + 1
      /\ g[0] = "command" /\ d[0] = 0
  BY <1>2
<1> HIDE DEF t, g, d
<1>6. ASSUME NEW k \in 1..(m + 1)
      PROVE  g[k] = Reads(g[k - 1], t[k]) /\ d[k] = d[k - 1] + Worth(g[k - 1], t[k])
  <2>1. CASE k = 1
    BY <1>1, <1>2, <1>3, <1>5, <2>1 DEF Parses
  <2>2. CASE k \in 2..(m + 1)
    <3>1. k - 1 \in 1..m /\ k - 1 \in 1..(m + 1) /\ (k - 1) + 1 = k /\ (k - 1) - 1 \in 0..m
      BY <1>2, <2>2
    <3>2. /\ f[k - 1] = Reads(f[(k - 1) - 1], s[k - 1])
          /\ c[k - 1] = c[(k - 1) - 1] + Worth(f[(k - 1) - 1], s[k - 1])
      BY <1>1, <3>1 DEF Parses
    <3>3. s[k - 1] \in Package /\ f[(k - 1) - 1] \in Reading /\ c[(k - 1) - 1] \in Int
      BY <1>1, <3>1, ElementOfSeq
    <3>4. Worth(f[(k - 1) - 1], s[k - 1]) \in Int
      BY <3>3, ReadsType
    <3>5. /\ g[k] = f[k - 1] /\ g[k - 1] = f[(k - 1) - 1] /\ t[k] = s[k - 1]
          /\ d[k] = c[k - 1] + 1 /\ d[k - 1] = c[(k - 1) - 1] + 1
      <4>1. t[(k - 1) + 1] = s[k - 1]
        BY <1>2, <3>1
      <4> QED
        BY <1>5, <3>1, <4>1
    <3> QED
      BY <3>2, <3>3, <3>4, <3>5
  <2> QED
    BY <1>2, <2>1, <2>2
<1>7. ASSUME NEW k \in 0..(m + 1)
      PROVE  d[k] <= n + 1 /\ (g[k] = "command" /\ z # "command" => d[k] + 2 <= n + 1)
  <2>1. ASSUME NEW j \in 0..m
        PROVE  /\ c[j] <= n /\ (f[j] = "command" /\ z # "command" => c[j] + 2 <= n)
               /\ c[j] \in Int
    BY <1>1, <2>1 DEF Parses
  <2>2. CASE k = 0
    <3>1. f[0] = "command" /\ c[0] = 0 /\ 0 \in 0..m
      BY <1>1, <1>2 DEF Parses
    <3> QED
      BY <1>5, <2>1, <2>2, <3>1
  <2>3. CASE k \in 1..(m + 1)
    <3>1. k - 1 \in 0..m
      BY <1>2, <2>3
    <3> QED
      BY <1>5, <2>1, <2>3, <3>1
  <2> QED
    BY <1>2, <2>2, <2>3
<1>8. Parses(t, "command", z, n + 1, g, d)
  <2>1. g[m + 1] = z /\ d[m + 1] = n + 1
    BY <1>1, <1>2, <1>5 DEF Parses
  <2> QED
    BY <1>2, <1>5, <1>6, <1>7, <2>1 DEF Parses
<1> QED
  BY <1>2, <1>4, <1>8 DEF Parse, t

-----------------------------------------------------------------------------
(***************************************************************************)
(* Who is there: a link that is up has both ends, and what a thread has    *)
(* read goes with where it is.                                             *)
(***************************************************************************)
Ends ==
    /\ link = "up" => thread /\ dpc # "off"
    /\ link = "left" => ~thread
    /\ link = "closed" => dpc = "off"
    /\ code # "none" => thread /\ at \in {"importing", "judging", "destroying"}
    /\ thread => at # "killed"
    /\ thread /\ at = "listing" => ~skew
    /\ ~thread /\ dpc # "off" => at # "waiting"

LEMMA EndsInit == Init => Ends
  BY DEF Init, Ends

LEMMA EndsNext == ASSUME LInv, Ends, [Next]_vars PROVE Ends'
<1> USE DEF Ends
<1>1. ASSUME UNCHANGED <<link, thread, at, code, skew>>, dpc # "off", dpc' # "off"
      PROVE  Ends'
  BY <1>1
<1>2. CASE UNCHANGED vars
  BY <1>2 DEF vars, wire, overlord, program, history
<1>3. CASE Connect
  BY <1>3 DEF Connect
<1>4. CASE \E e \in Entry : AskImport(e) \/ AskDestroy(e)
                             \/ \E lang \in {"known", "unknown"} : AskJudge(e, lang)
  BY <1>4 DEF AskImport, AskDestroy, AskJudge, Ask, program, history
<1>5. CASE ReadList \/ Ping \/ Pong \/ SendArchive \/ SendSource \/ NoArchive
  BY <1>5 DEF ReadList, Ping, Pong, SendArchive, SendSource, SendFile, NoArchive, wire,
     program, history
<1>6. CASE ReadCode \/ ReadText
  BY <1>6 DEF ReadCode, ReadText, program, history
<1>7. CASE LeaveDone \/ LeaveBroken \/ LeaveOutOfStep \/ SourceMissing \/ OverlordKilled
  BY <1>7 DEF LeaveDone, LeaveBroken, LeaveOutOfStep, SourceMissing, OverlordKilled,
     ThreadEnds, program
<1>8. CASE ProgramWorks /\ ~LinkDown
  <2>1. dpc # "off" /\ dpc' # "off"
    BY <1>8 DEF ProgramWorks, Command, Handler, Request, ImportName, ImportArchive,
       ImportEnds, DestroyName, DestroyEnds, JudgeName, ReadName, JudgeLang, JudgeSource,
       JudgeEnds, Text
  <2>2. UNCHANGED <<link, thread, at, code, skew>>
    BY <1>8 DEF ProgramWorks, Command, ImportName, ImportArchive,
       ImportEnds, DestroyName, DestroyEnds, JudgeName, ReadName, JudgeLang, JudgeSource,
       JudgeEnds, Text, overlord, history
  <2> QED
    BY <1>1, <2>1, <2>2
<1>9. CASE LinkDown \/ Killed
  BY <1>9 DEF LinkDown, Killed, ProgramEnds, overlord
<1>10. CASE Reset
  BY <1>10 DEF Reset, overlord, program, history
<1> QED
  BY <1>2, <1>3, <1>4, <1>5, <1>6, <1>7, <1>8, <1>9, <1>10 DEF Next, ThreadWorks

-----------------------------------------------------------------------------
(***************************************************************************)
(* What the program owes: the answers on their way, those of the request   *)
(* it is at, and those for the packages it will read.  Between two writes  *)
(* of the thread the packages end where a command is due or a file.        *)
(***************************************************************************)
Resumed(p) == IF p \in Reading THEN p ELSE "command"

Owed(p) ==
    IF p \in {"command", "off"} THEN 0
    ELSE IF p \in {"importText", "text"} THEN 1 ELSE 2

Rest == {"command", "importArchive", "judgeSource"}

Owes(s, t, p, x) ==
    \E z \in Rest, n \in Int :
        Parse(s, Resumed(p), z, n) /\ Len(t) + Owed(p) + n >= x

(***************************************************************************)
(* The thread is owed what it waits for, and out of step one answer more.  *)
(***************************************************************************)
Awaited ==
    IF at \in {"listing", "waiting"} THEN 0
    ELSE IF at = "pinging" \/ code # "none" THEN 1 ELSE 2

Surplus == IF skew THEN 1 ELSE 0

Due == thread /\ link = "up" => Owes(o2d, d2o, dpc, Awaited + Surplus)

LEMMA OwedType ==
    \A p : /\ Owed(p) \in 0..2 /\ Resumed(p) \in Reading
           /\ Resumed(p) # "command" => Owed(p) = 2
  BY DEF Owed, Resumed, Reading

(* A package that is no request, written where the program rests. *)
LEMMA ParsePlain ==
    ASSUME NEW s \in Seq(Package), NEW q \in Reading, NEW z \in Rest, NEW n \in Int,
           Parse(s, q, z, n), NEW p \in Package \ Request
    PROVE  Parse(s \o <<p>>, q, "command", IF z = "command" THEN n + 1 ELSE n)
<1>1. z \in Reading
  BY DEF Rest, Reading
<1>2. Parse(s \o <<p>>, q, Reads(z, p), n + Worth(z, p))
  BY <1>1, ParseAppend
<1>3. Reads(z, p) = "command" /\ Worth(z, p) = IF z = "command" THEN 1 ELSE 0
  BY DEF Reads, Worth, Rest
<1>4. n + Worth(z, p) = IF z = "command" THEN n + 1 ELSE n
  BY <1>3
<1> QED
  BY <1>2, <1>3, <1>4

(* Where a file is due, an answer to its request is owed for. *)
LEMMA ParseHungry ==
    ASSUME NEW s \in Seq(Package), NEW p, NEW z \in Rest \ {"command"}, NEW n \in Int,
           Parse(s, Resumed(p), z, n)
    PROVE  Owed(p) + n >= 2
<1>1. PICK f \in [0..Len(s) -> Reading], c \in [0..Len(s) -> Int] :
         Parses(s, Resumed(p), z, n, f, c)
  BY DEF Parse
<1>2. 0 \in 0..Len(s)
  BY LenProperties
<1>3. 0 <= n /\ (Resumed(p) = "command" => 2 <= n)
  BY <1>1, <1>2 DEF Parses
<1> QED
  BY <1>3, OwedType

(* One package more: an answer more, unless a handler was waiting for it. *)
LEMMA AddPlain ==
    ASSUME NEW s \in Seq(Package), NEW t \in Seq(Package), NEW p, NEW x \in 0..3,
           Owes(s, t, p, x), NEW u \in Package \ Request
    PROVE  /\ Owes(s \o <<u>>, t, p, x)
           /\ x \in {0, 1} => Owes(s \o <<u>>, t, p, x + 1)
<1>1. PICK z \in Rest, n \in Int : Parse(s, Resumed(p), z, n) /\ Len(t) + Owed(p) + n >= x
  BY DEF Owes
<1> DEFINE k == IF z = "command" THEN n + 1 ELSE n
<1>2. Parse(s \o <<u>>, Resumed(p), "command", k)
  BY <1>1, OwedType, ParsePlain
<1>3. z # "command" => Owed(p) + n >= 2
  BY <1>1, ParseHungry
<1>4. Len(t) \in Nat /\ Owed(p) \in Nat
  BY LenProperties, OwedType
<1>5. k \in Int /\ Len(t) + Owed(p) + k >= x /\ (x \in {0, 1} => Len(t) + Owed(p) + k >= x + 1)
  BY <1>1, <1>3, <1>4
<1> HIDE DEF k
<1> QED
  BY <1>2, <1>5 DEF Rest, Owes

(* Packages written in one go are written one after the other. *)
LEMMA WrittenTwo ==
    ASSUME NEW s \in Seq(Package), NEW p \in Package, NEW r \in Package
    PROVE  s \o <<p, r>> = (s \o <<p>>) \o <<r>>
<1>1. <<p>> \in Seq(Package) /\ <<r>> \in Seq(Package) /\ <<p, r>> \in Seq(Package)
  OBVIOUS
<1>2. <<p>> \o <<r>> = <<p, r>>
  <2>1. /\ <<p>> \o <<r>> \in Seq(Package) /\ Len(<<p>> \o <<r>>) = 2
        /\ (<<p>> \o <<r>>)[1] = p /\ (<<p>> \o <<r>>)[2] = r
    BY <1>1, AppendAt
  <2>2. Len(<<p, r>>) = 2 /\ <<p, r>>[1] = p /\ <<p, r>>[2] = r
    OBVIOUS
  <2>3. \A k \in 1..2 : (<<p>> \o <<r>>)[k] = <<p, r>>[k]
    BY <2>1, <2>2
  <2> QED
    BY <1>1, <2>1, <2>2, <2>3, SeqEqual
<1>3. \A t, u \in Seq(Package) : (s \o t) \o u = s \o (t \o u)
  BY ConcatAssociative
<1>4. (s \o <<p>>) \o <<r>> = s \o (<<p>> \o <<r>>)
  BY <1>1, <1>3, Zenon
<1> QED
  BY <1>2, <1>4, Zenon

LEMMA WrittenThree ==
    ASSUME NEW s \in Seq(Package), NEW p \in Package, NEW r \in Package, NEW u \in Package
    PROVE  s \o <<p, r, u>> = ((s \o <<p>>) \o <<r>>) \o <<u>>
<1>1. <<p, r>> \in Seq(Package) /\ <<u>> \in Seq(Package) /\ <<p, r, u>> \in Seq(Package)
  OBVIOUS
<1>2. <<p, r>> \o <<u>> = <<p, r, u>>
  <2>1. /\ <<p, r>> \o <<u>> \in Seq(Package) /\ Len(<<p, r>> \o <<u>>) = 3
        /\ \A k \in 1..2 : (<<p, r>> \o <<u>>)[k] = <<p, r>>[k]
        /\ (<<p, r>> \o <<u>>)[3] = u
    BY <1>1, AppendAt
  <2>2. /\ Len(<<p, r, u>>) = 3 /\ <<p, r, u>>[3] = u
        /\ \A k \in 1..2 : <<p, r>>[k] = <<p, r, u>>[k]
    OBVIOUS
  <2>3. \A k \in 1..3 : (<<p, r>> \o <<u>>)[k] = <<p, r, u>>[k]
    BY <2>1, <2>2
  <2> QED
    BY <1>1, <2>1, <2>2, <2>3, SeqEqual
<1>3. s \o <<p, r, u>> = (s \o <<p, r>>) \o <<u>>
  BY <1>1, <1>2, ConcatAssociative
<1> QED
  BY <1>3, WrittenTwo

(* A request with its name, and its language: two answers more than before. *)
LEMMA AddRequest ==
    ASSUME NEW s \in Seq(Package), NEW t \in Seq(Package), NEW p, NEW x \in {0, 1},
           Owes(s, t, p, x), NEW r \in Request, NEW e \in Entry
    PROVE  \E z \in Reading, n \in Int :
              /\ Parse((s \o <<r>>) \o <<e>>, Resumed(p), z, n)
              /\ (z = "judgeLang" /\ r = "judge") \/ z \in Rest
              /\ Len(t) + Owed(p) + n >= x + 2
<1>1. PICK z \in Rest, n \in Int : Parse(s, Resumed(p), z, n) /\ Len(t) + Owed(p) + n >= x
  BY DEF Owes
<1>2. r \in Package /\ e \in Package /\ e \notin Request /\ s \o <<r>> \in Seq(Package)
  BY Words, AppendAt DEF Request
<1>3. z \in Reading /\ Resumed(p) \in Reading /\ Len(t) \in Nat /\ Owed(p) \in Nat
  BY OwedType, LenProperties DEF Rest, Reading
<1>4. Parse(s \o <<r>>, Resumed(p), Reads(z, r), n + Worth(z, r))
  BY <1>1, <1>2, <1>3, ParseAppend
<1>5. CASE z = "command"
  <2>1. PICK y \in {"importName", "judgeName", "destroyName"} :
           y = Reads(z, r) /\ (y = "judgeName" => r = "judge")
    BY <1>5 DEF Reads, Handler, Request
  <2>2. Worth(z, r) = 2 /\ y \in Reading
    BY <1>5 DEF Worth, Reading
  <2>3. Parse((s \o <<r>>) \o <<e>>, Resumed(p), Reads(y, e), (n + 2) + Worth(y, e))
    <3>1. Parse(s \o <<r>>, Resumed(p), y, n + 2) /\ n + 2 \in Int
      BY <1>4, <2>1, <2>2
    <3> QED
      BY <1>2, <1>3, <2>2, <3>1, ParseAppend
  <2>4. /\ Reads(y, e) \in Reading /\ Worth(y, e) = 0
        /\ (Reads(y, e) = "judgeLang" /\ r = "judge") \/ Reads(y, e) \in Rest
    BY <2>1 DEF Reads, Worth, Rest, Reading
  <2>5. Len(t) + Owed(p) + (n + 2) >= x + 2 /\ (n + 2) + 0 = n + 2 /\ n + 2 \in Int
    BY <1>1, <1>3
  <2> QED
    BY <2>3, <2>4, <2>5
<1>6. CASE z # "command"
  <2>1. Reads(z, r) = "command" /\ Worth(z, r) = 0 /\ "command" \in Rest
    BY <1>6 DEF Reads, Worth, Rest
  <2>2. Parse(s \o <<r>>, Resumed(p), "command", n)
    BY <1>4, <2>1
  <2>3. Parse((s \o <<r>>) \o <<e>>, Resumed(p), "command", n + 1)
    BY <1>2, <1>3, <2>1, <2>2, ParsePlain
  <2>4. Owed(p) + n >= 2
    BY <1>1, <1>6, ParseHungry
  <2>5. Len(t) + Owed(p) + (n + 1) >= x + 2 /\ n + 1 \in Int
    BY <1>3, <2>4
  <2> QED
    BY <2>1, <2>3, <2>5 DEF Reading
<1> QED
  BY <1>5, <1>6

LEMMA AddAsk ==
    ASSUME NEW s \in Seq(Package), NEW t \in Seq(Package), NEW p, NEW x \in {0, 1},
           Owes(s, t, p, x), NEW e \in Entry
    PROVE  /\ Owes(s \o <<"import", e>>, t, p, x + 2)
           /\ Owes(s \o <<"destroy", e>>, t, p, x + 2)
           /\ \A lang \in {"known", "unknown"} :
                 Owes(s \o <<"judge", e, lang>>, t, p, x + 2)
<1>1. ASSUME NEW r \in {"import", "destroy"}  PROVE Owes(s \o <<r, e>>, t, p, x + 2)
  <2>1. r \in Request /\ r \in Package /\ e \in Package
    BY Words DEF Request
  <2>2. s \o <<r, e>> = (s \o <<r>>) \o <<e>>
    BY <2>1, WrittenTwo
  <2> QED
    BY <2>1, <2>2, AddRequest DEF Owes
<1>2. ASSUME NEW lang \in {"known", "unknown"}
      PROVE  Owes(s \o <<"judge", e, lang>>, t, p, x + 2)
  <2>1. "judge" \in Request /\ "judge" \in Package /\ e \in Package
        /\ lang \in Package \ Request
    BY Words DEF Request
  <2> DEFINE u == (s \o <<"judge">>) \o <<e>>
  <2>2. s \o <<"judge", e, lang>> = u \o <<lang>> /\ u \in Seq(Package)
    BY <2>1, WrittenThree, AppendAt
  <2>3. PICK z \in Reading, n \in Int :
           /\ Parse(u, Resumed(p), z, n)
           /\ z = "judgeLang" \/ z \in Rest
           /\ Len(t) + Owed(p) + n >= x + 2
    BY <2>1, AddRequest
  <2> HIDE DEF u
  <2>4. Resumed(p) \in Reading /\ Len(t) \in Nat /\ Owed(p) \in Nat
    BY OwedType, LenProperties
  <2>5. Parse(u \o <<lang>>, Resumed(p), Reads(z, lang), n + Worth(z, lang))
    BY <2>1, <2>2, <2>3, <2>4, ParseAppend
  <2>6. Reads(z, lang) \in Rest /\ Worth(z, lang) \in 0..2
    BY <2>1, <2>3, ReadsType DEF Reads, Rest
  <2>7. n + Worth(z, lang) \in Int /\ Len(t) + Owed(p) + (n + Worth(z, lang)) >= x + 2
    BY <2>3, <2>4, <2>6
  <2> QED
    BY <2>2, <2>5, <2>6, <2>7 DEF Owes
<1> QED
  BY <1>1, <1>2

(* Something is on the link or in the program's hands, so an answer is due. *)
LEMMA OwesSome ==
    ASSUME NEW s \in Seq(Package), NEW t \in Seq(Package), NEW p, NEW x \in Int,
           Owes(s, t, p, x)
    PROVE  /\ \A y \in Int : y <= x => Owes(s, t, p, y)
           /\ Owes(s, t, p, 0)
           /\ (s # <<>> \/ t # <<>> \/ p # "command") /\ p # "off" => Owes(s, t, p, 1)
<1>1. PICK z \in Rest, n \in Int : Parse(s, Resumed(p), z, n) /\ Len(t) + Owed(p) + n >= x
  BY DEF Owes
<1>2. Len(t) \in Nat /\ Owed(p) \in Nat /\ Resumed(p) \in Reading
  BY LenProperties, OwedType
<1>3. 0 <= n
  <2>1. PICK f \in [0..Len(s) -> Reading], c \in [0..Len(s) -> Int] :
           Parses(s, Resumed(p), z, n, f, c)
    BY <1>1 DEF Parse
  <2>2. 0 \in 0..Len(s)
    BY LenProperties
  <2> QED
    BY <2>1, <2>2 DEF Parses
<1>4. ASSUME s # <<>> \/ t # <<>> \/ p # "command", p # "off"
      PROVE  Len(t) + Owed(p) + n >= 1
  <2>1. CASE t # <<>>
    <3>1. Len(t) # 0
      BY <2>1, EmptySeq
    <3> QED
      BY <1>2, <1>3, <3>1
  <2>2. CASE p # "command"
    <3>1. Owed(p) >= 1
      BY <1>4, <2>2 DEF Owed
    <3> QED
      BY <1>2, <1>3, <3>1
  <2>3. CASE p = "command" /\ s # <<>>
    <3>1. Resumed(p) = "command"
      BY <2>3 DEF Resumed, Reading
    <3>2. Worth("command", Head(s)) <= n
      BY <1>1, <1>2, <2>3, <3>1, ParseTail
    <3>3. Worth("command", Head(s)) \in {1, 2}
      BY DEF Worth
    <3> QED
      BY <1>2, <3>2, <3>3
  <2> QED
    BY <1>4, <2>1, <2>2, <2>3
<1>5. ASSUME NEW y \in Int, y <= x  PROVE Len(t) + Owed(p) + n >= y
  BY <1>1, <1>2, <1>5
<1>6. Len(t) + Owed(p) + n >= 0
  BY <1>2, <1>3
<1> QED
  BY <1>1, <1>4, <1>5, <1>6 DEF Owes

LEMMA OwesRead ==
    ASSUME NEW s \in Seq(Package), NEW t \in Seq(Package), NEW p, NEW x \in Int,
           Owes(s, t, p, x), t # <<>>
    PROVE  Owes(s, Tail(t), p, x - 1)
<1>1. PICK z \in Rest, n \in Int : Parse(s, Resumed(p), z, n) /\ Len(t) + Owed(p) + n >= x
  BY DEF Owes
<1>2. Len(t) \in Nat /\ Len(Tail(t)) = Len(t) - 1 /\ Owed(p) \in Nat
  BY TailAt, OwedType
<1>3. Len(Tail(t)) + Owed(p) + n >= x - 1
  BY <1>1, <1>2
<1> QED
  BY <1>1, <1>3 DEF Owes

LEMMA DueThread ==
    ASSUME LInv, Ends, Due,
           \/ \E e \in Entry : AskImport(e) \/ AskDestroy(e)
                               \/ \E lang \in {"known", "unknown"} : AskJudge(e, lang)
           \/ ThreadWorks \/ NoArchive \/ SourceMissing \/ OverlordKilled
    PROVE  Due'
<1> SUFFICES ASSUME thread', link' = "up"
             PROVE  Owes(o2d', d2o', dpc', Awaited' + Surplus')
  BY DEF Due
<1>1. o2d \in Seq(Package) /\ d2o \in Seq(Package)
  BY DEF LInv, TypeOK
<1>2. /\ thread /\ link = "up" /\ UNCHANGED dpc /\ dpc # "off"
      /\ ~(LeaveDone \/ LeaveBroken \/ LeaveOutOfStep \/ SourceMissing \/ OverlordKilled)
  BY DEF ThreadWorks, AskImport, AskDestroy, AskJudge, Ask, ReadList, Ping, Pong,
     SendArchive, SendSource, SendFile, ReadCode, ReadText, NoArchive, LeaveDone,
     LeaveBroken, LeaveOutOfStep, SourceMissing, OverlordKilled, ThreadEnds, program, wire,
     Ends
<1>3. Surplus \in {0, 1} /\ Surplus' \in {0, 1}
  BY DEF Surplus
<1>4. Awaited \in 0..2 /\ Owes(o2d, d2o, dpc, Awaited + Surplus)
  BY <1>2 DEF Awaited, Due
<1>5. CASE ReadList \/ Pong \/ ReadCode \/ ReadText
  <2>1. d2o # <<>> /\ d2o' = Tail(d2o) /\ UNCHANGED o2d
    BY <1>5 DEF ReadList, Pong, ReadCode, ReadText
  <2>2. Owes(o2d', d2o', dpc', (Awaited + Surplus) - 1)
    BY <1>1, <1>2, <1>3, <1>4, <2>1, OwesRead
  <2>3. o2d' \in Seq(Package) /\ d2o' \in Seq(Package) /\ (Awaited + Surplus) - 1 \in Int
    BY <1>1, <1>3, <1>4, <2>1, TailAt
  <2>4. CASE ReadList
    <3>1. Awaited' + Surplus' = 0
      BY <2>4 DEF ReadList, Awaited, Surplus, history, Ends
    <3> QED
      BY <2>2, <2>3, <3>1, OwesSome
  <2>5. CASE Pong \/ ReadCode
    <3>1. Surplus' = Surplus
      <4>1. UNCHANGED history
        BY <2>5 DEF Pong, ReadCode
      <4> QED
        BY <4>1 DEF Surplus, history
    <3>2. CASE Pong
      <4>1. Awaited = 1 /\ Awaited' = 0
        BY <3>2 DEF Pong, Awaited, Ends
      <4> QED
        BY <1>3, <2>2, <3>1, <4>1
    <3>3. CASE ReadCode
      <4>1. Awaited = 2 /\ at' = at /\ code' \in {"zero", "other"}
        BY <3>3 DEF ReadCode, CodeOf, Awaited
      <4>2. Awaited' = 1
        BY <3>3, <4>1 DEF ReadCode, Awaited
      <4> QED
        BY <1>3, <2>2, <3>1, <4>1, <4>2
    <3> QED
      BY <2>5, <3>2, <3>3
  <2>6. CASE ReadText
    <3>1. Awaited = 1 /\ Awaited' = 0 /\ (skew => skew')
      BY <2>6 DEF ReadText, Awaited, Ends
    <3>2. CASE skew
      <4>1. Awaited' + Surplus' = (Awaited + Surplus) - 1
        BY <3>1, <3>2 DEF Surplus
      <4> QED
        BY <2>2, <4>1
    <3>3. CASE ~skew /\ ~skew'
      <4>1. Awaited' + Surplus' = 0
        BY <3>1, <3>3 DEF Surplus
      <4> QED
        BY <2>2, <2>3, <4>1, OwesSome
    <3>4. CASE ~skew /\ skew'
      <4>1. Awaited' + Surplus' = 1
        BY <3>1, <3>4 DEF Surplus
      <4>2. (o2d' # <<>> \/ d2o' # <<>> \/ dpc' # "command") /\ dpc' # "off"
        BY <1>2, <2>6, <3>4 DEF ReadText, Quiet
      <4> QED
        BY <2>2, <2>3, <4>1, <4>2, OwesSome
    <3> QED
      BY <3>2, <3>3, <3>4
  <2> QED
    BY <1>5, <2>4, <2>5, <2>6
<1>6. CASE Ping \/ SendArchive \/ SendSource
  <2>1. PICK u \in {"ping", "archive", "source"} : Write(<<u>>)
    BY <1>6 DEF Ping, SendArchive, SendSource, SendFile
  <2>2. u \in Package \ Request /\ o2d' = o2d \o <<u>>
    BY <1>2, <2>1, Words DEF Write, Request
  <2>3. d2o' = d2o /\ Surplus' = Surplus
    <3>1. d2o' = d2o /\ UNCHANGED history
      BY <1>6 DEF Ping, SendArchive, SendSource, SendFile
    <3> QED
      BY <3>1 DEF Surplus, history
  <2>4. Awaited + Surplus \in 0..3
    BY <1>3, <1>4
  <2>5. /\ Owes(o2d', d2o', dpc', Awaited + Surplus)
        /\ Awaited + Surplus \in {0, 1} => Owes(o2d', d2o', dpc', (Awaited + Surplus) + 1)
    BY <1>1, <1>2, <1>4, <2>2, <2>3, <2>4, AddPlain
  <2>6. CASE Ping
    <3>1. Awaited = 0 /\ Awaited' = 1
      BY <2>6 DEF Ping, Awaited
    <3> QED
      BY <1>3, <2>3, <2>5, <3>1
  <2>7. CASE SendArchive \/ SendSource
    <3>1. Awaited' = Awaited
      BY <2>7 DEF SendArchive, SendSource, SendFile, Awaited, Ends
    <3> QED
      BY <2>3, <2>5, <3>1
  <2> QED
    BY <1>6, <2>6, <2>7
<1>7. CASE NoArchive
  <2>1. Awaited = 2 /\ Awaited' = 0 /\ Surplus' = 1 /\ UNCHANGED <<o2d, d2o>>
    BY <1>7 DEF NoArchive, Awaited, Surplus, Ends, wire
  <2>2. 1 <= Awaited + Surplus /\ Awaited + Surplus \in Int
    BY <1>3, <2>1
  <2> QED
    BY <1>1, <1>2, <1>4, <2>1, <2>2, OwesSome
<1>8. CASE \E e \in Entry : AskImport(e) \/ AskDestroy(e)
                             \/ \E lang \in {"known", "unknown"} : AskJudge(e, lang)
  <2>1. /\ Awaited = 0 /\ Awaited' = 2 /\ Surplus' = Surplus /\ d2o' = d2o
        /\ \E e \in Entry : \/ o2d' = o2d \o <<"import", e>>
                            \/ o2d' = o2d \o <<"destroy", e>>
                            \/ \E lang \in {"known", "unknown"} :
                                  o2d' = o2d \o <<"judge", e, lang>>
    <3>1. PICK e \in Entry : AskImport(e) \/ AskDestroy(e)
                             \/ \E lang \in {"known", "unknown"} : AskJudge(e, lang)
      BY <1>8
    <3>2. /\ at = "waiting" /\ at' \in {"opening", "destroying", "sending"} /\ UNCHANGED <<code, d2o>>
          /\ UNCHANGED history
      BY <3>1 DEF AskImport, AskDestroy, AskJudge, Ask
    <3>3. Surplus' = Surplus
      BY <3>2 DEF Surplus, history
    <3>4. Awaited = 0 /\ Awaited' = 2
      BY <3>2 DEF Awaited, Ends
    <3>5. \/ o2d' = o2d \o <<"import", e>>
          \/ o2d' = o2d \o <<"destroy", e>>
          \/ \E lang \in {"known", "unknown"} : o2d' = o2d \o <<"judge", e, lang>>
      BY <1>2, <3>1 DEF AskImport, AskDestroy, AskJudge, Ask, Write
    <3> QED
      BY <3>2, <3>3, <3>4, <3>5
  <2>2. Awaited + Surplus \in {0, 1} /\ (Awaited + Surplus) + 2 = Awaited' + Surplus'
    BY <1>3, <2>1
  <2>3. Owes(o2d', d2o', dpc', (Awaited + Surplus) + 2)
    <3>1. PICK e \in Entry : \/ o2d' = o2d \o <<"import", e>>
                             \/ o2d' = o2d \o <<"destroy", e>>
                             \/ \E lang \in {"known", "unknown"} :
                                   o2d' = o2d \o <<"judge", e, lang>>
      BY <2>1
    <3>2. /\ Owes(o2d \o <<"import", e>>, d2o, dpc, (Awaited + Surplus) + 2)
          /\ Owes(o2d \o <<"destroy", e>>, d2o, dpc, (Awaited + Surplus) + 2)
          /\ \A lang \in {"known", "unknown"} :
                Owes(o2d \o <<"judge", e, lang>>, d2o, dpc, (Awaited + Surplus) + 2)
      BY <1>1, <1>4, <2>2, AddAsk
    <3> QED
      BY <1>2, <2>1, <3>1, <3>2
  <2> QED
    BY <2>2, <2>3
<1> QED
  BY <1>2, <1>5, <1>6, <1>7, <1>8 DEF ThreadWorks

(* A step of the program: the owed answers change hands. *)
Moves(s, p, u, q, m) ==
    \A z \in Rest, n \in Int :
        Parse(s, Resumed(p), z, n) => \E k \in Int : k >= n + m /\ Parse(u, Resumed(q), z, k)

LEMMA OwesMove ==
    ASSUME NEW s, NEW t \in Seq(Package), NEW p, NEW q, NEW x \in Int, Owes(s, t, p, x),
           NEW u, NEW m \in {-2, -1, 0}, Moves(s, p, u, q, m),
           NEW v \in Seq(Package), Owed(q) + m + Len(v) >= Owed(p)
    PROVE  Owes(u, t \o v, q, x)
<1>1. PICK z \in Rest, n \in Int : Parse(s, Resumed(p), z, n) /\ Len(t) + Owed(p) + n >= x
  BY DEF Owes
<1>2. PICK k \in Int : k >= n + m /\ Parse(u, Resumed(q), z, k)
  BY <1>1 DEF Moves
<1>3. /\ Len(t) \in Nat /\ Len(v) \in Nat /\ Owed(p) \in Nat /\ Owed(q) \in Nat
      /\ Len(t \o v) = Len(t) + Len(v)
  BY OwedType, ConcatProperties, LenProperties
<1>4. Len(t \o v) + Owed(q) + k >= x
  BY <1>1, <1>2, <1>3
<1> QED
  BY <1>2, <1>4 DEF Owes

LEMMA MovesSame ==
    ASSUME NEW s, NEW p, NEW q, Resumed(p) = Resumed(q)  PROVE Moves(s, p, s, q, 0)
<1> SUFFICES ASSUME NEW z \in Rest, NEW n \in Int, Parse(s, Resumed(p), z, n)
             PROVE  \E k \in Int : k >= n + 0 /\ Parse(s, Resumed(q), z, k)
  BY DEF Moves
<1>1. n >= n + 0
  OBVIOUS
<1> QED
  BY <1>1

LEMMA MovesRead ==
    ASSUME NEW s \in Seq(Package), s # <<>>, NEW p, NEW q, NEW m \in {-2, -1, 0},
           Resumed(q) = Reads(Resumed(p), Head(s)), m = 0 - Worth(Resumed(p), Head(s))
    PROVE  Moves(s, p, Tail(s), q, m)
<1> SUFFICES ASSUME NEW z \in Rest, NEW n \in Int, Parse(s, Resumed(p), z, n)
             PROVE  \E k \in Int : k >= n + m /\ Parse(Tail(s), Resumed(q), z, k)
  BY DEF Moves
<1>1. Resumed(p) \in Reading
  BY OwedType
<1>2. Head(s) \in Package
  BY TailAt
<1>3. Worth(Resumed(p), Head(s)) \in 0..2
  BY <1>1, <1>2, ReadsType
<1> DEFINE k == n - Worth(Resumed(p), Head(s))
<1>4. k \in Int /\ k >= n + m
  BY <1>3
<1>5. Parse(Tail(s), Resumed(q), z, k)
  BY <1>1, ParseTail
<1> HIDE DEF k
<1> QED
  BY <1>4, <1>5

(* A file is read, by a handler that has its request, and a part is left. *)
LEMMA MovesRest ==
    ASSUME NEW s \in Seq(Package), s # <<>>, NEW p \in {"importArchive", "judgeSource"},
           NEW q, Resumed(q) = "command"
    PROVE  Moves(s, p, <<"rest">> \o Tail(s), q, 0)
<1> SUFFICES ASSUME NEW z \in Rest, NEW n \in Int, Parse(s, Resumed(p), z, n)
             PROVE  \E k \in Int : k >= n + 0 /\ Parse(<<"rest">> \o Tail(s), Resumed(q), z, k)
  BY DEF Moves
<1>1. p \in Reading /\ Resumed(p) = p /\ Reads(p, Head(s)) = "command" /\ Worth(p, Head(s)) = 0
  BY DEF Resumed, Reading, Reads, Worth
<1>2. Parse(Tail(s), "command", z, n)
  <2>1. Parse(Tail(s), Reads(p, Head(s)), z, n - Worth(p, Head(s)))
    BY <1>1, ParseTail
  <2>2. n - Worth(p, Head(s)) = n
    BY <1>1
  <2> QED
    BY <1>1, <2>1, <2>2
<1>3. Tail(s) \in Seq(Package) /\ "rest" \in Package \ Request
  BY TailAt, Words
<1>4. Parse(<<"rest">> \o Tail(s), "command", z, n + 1)
  BY <1>2, <1>3, ParseRest
<1>5. n + 1 \in Int /\ n + 1 >= n + 0
  OBVIOUS
<1> QED
  BY <1>4, <1>5

LEMMA DueProgram == ASSUME LInv, Ends, Due, ProgramWorks PROVE Due'
<1> SUFFICES ASSUME thread', link' = "up"
             PROVE  Owes(o2d', d2o', dpc', Awaited' + Surplus')
  BY DEF Due
<1>1. o2d \in Seq(Package) /\ d2o \in Seq(Package)
  BY DEF LInv, TypeOK
<1>2. ~LinkDown
  BY DEF LinkDown, ProgramEnds
<1>3. thread /\ link = "up" /\ Awaited' = Awaited /\ Surplus' = Surplus
  <2>1. UNCHANGED link /\ UNCHANGED overlord /\ UNCHANGED history
    <3>1. CASE Command \/ Text \/ JudgeLang
      BY <3>1 DEF Command, Text, JudgeLang
    <3>2. CASE ImportName \/ DestroyName \/ JudgeName
      BY <3>2 DEF ImportName, DestroyName, JudgeName, ReadName
    <3>3. CASE ImportArchive \/ JudgeSource
      BY <3>3 DEF ImportArchive, JudgeSource
    <3>4. ASSUME NEW x, ImportEnds(x) \/ DestroyEnds(x) \/ JudgeEnds(x)
          PROVE  UNCHANGED link /\ UNCHANGED overlord /\ UNCHANGED history
      BY <3>4 DEF ImportEnds, DestroyEnds, JudgeEnds
    <3> QED
      BY <1>2, <3>1, <3>2, <3>3, <3>4 DEF ProgramWorks
  <2>2. UNCHANGED <<thread, at, code, skew, link>>
    BY <2>1 DEF overlord, history
  <2> QED
    BY <2>2 DEF Awaited, Surplus
<1>4. Awaited + Surplus \in Int /\ Owes(o2d, d2o, dpc, Awaited + Surplus)
  BY <1>3 DEF Awaited, Surplus, Due
<1> DEFINE p == Head(o2d)
           t == Tail(o2d)
<1>5. o2d # <<>> => p \in Package /\ t \in Seq(Package)
  BY <1>1, TailAt
<1>6. <<>> \in Seq(Package) /\ Len(<<>>) = 0 /\ d2o = d2o \o <<>>
  BY <1>1, ConcatEmptySeq
<1>7. ASSUME NEW u \in {"zero", "code", "text", "invalid", "pong"}
      PROVE  <<u>> \in Seq(Package) /\ Len(<<u>>) = 1
  BY <1>7, Words, NamedOne
<1>8. Resumed(dpc) \in Reading /\ Resumed(dpc') \in Reading
      /\ Owed(dpc) \in 0..2 /\ Owed(dpc') \in 0..2
  BY OwedType
<1> HIDE DEF p, t
(* The program takes a package to read. *)
<1>9. ASSUME NEW m \in {-2, -1, 0}, o2d # <<>>, o2d' = t,
             Resumed(dpc') = Reads(Resumed(dpc), p), m = 0 - Worth(Resumed(dpc), p)
      PROVE  Moves(o2d, dpc, o2d', dpc', m)
  BY <1>1, <1>9, MovesRead DEF p, t
<1>10. CASE Command
  <2>1. dpc = "command" /\ o2d # <<>> /\ o2d' = t /\ Resumed(dpc) = "command" /\ Owed(dpc) = 0
    BY <1>10 DEF Command, Resumed, Reading, Owed, t
  <2>2. CASE p \in Request
    <3>1. /\ dpc' = Reads("command", p) /\ dpc' \in Reading \ {"command"} /\ d2o' = d2o
          /\ Worth("command", p) = 2
      BY <1>10, <2>2 DEF Command, Reads, Worth, Handler, Request, Reading, p
    <3>2. Resumed(dpc') = dpc' /\ Owed(dpc') = 2
      BY <3>1 DEF Resumed, Owed, Reading
    <3>3. Moves(o2d, dpc, o2d', dpc', -2)
      <4>1. Resumed(dpc') = Reads(Resumed(dpc), p) /\ -2 = 0 - Worth(Resumed(dpc), p)
        BY <2>1, <3>1, <3>2
      <4> QED
        BY <1>9, <2>1, <4>1
    <3>4. Owed(dpc') + -2 + Len(<<>>) >= Owed(dpc)
      BY <1>6, <2>1, <3>2
    <3>5. Owes(o2d', d2o \o <<>>, dpc', Awaited + Surplus)
      BY <1>1, <1>4, <1>6, <3>3, <3>4, OwesMove
    <3> QED
      BY <1>3, <1>6, <3>1, <3>5
  <2>3. CASE p \notin Request
    <3>1. dpc' = "command" /\ Reads("command", p) = "command" /\ Worth("command", p) = 1
      BY <1>10, <2>3 DEF Command, Reads, Worth, Request, p
    <3>2. PICK v \in Seq(Package) : Len(v) >= 1 /\ d2o' = d2o \o v
      <4>1. \A w \in {"pong", "invalid"} : Answers(<<w>>) =>
               \E v \in Seq(Package) : Len(v) >= 1 /\ d2o' = d2o \o v
        <5> SUFFICES ASSUME NEW w \in {"pong", "invalid"}, Answers(<<w>>)
                     PROVE  \E v \in Seq(Package) : Len(v) >= 1 /\ d2o' = d2o \o v
          OBVIOUS
        <5>1. <<w>> \in Seq(Package) /\ Len(<<w>>) = 1 /\ d2o' = d2o \o <<w>>
          BY <1>3, <1>7 DEF Answers
        <5>2. Len(<<w>>) >= 1
          BY <5>1
        <5> QED
          BY <5>1, <5>2, Zenon
      <4>2. Answers(SetToSeq(Directories) \o <<"end">>) =>
               \E v \in Seq(Package) : Len(v) >= 1 /\ d2o' = d2o \o v
        <5>1. SetToSeq(Directories) \in Seq(Package)
          <6>1. Directories \in SUBSET Entry /\ Entry \subseteq Package
            BY Words DEF Directories
          <6>2. SetToSeq(Directories) \in Seq(Directories)
            BY <6>1, ListSeq
          <6> QED
            BY <6>1, <6>2
        <5>2. /\ SetToSeq(Directories) \o <<"end">> \in Seq(Package)
              /\ Len(SetToSeq(Directories) \o <<"end">>) >= 1
          BY <5>1, Words, AppendAt
        <5> QED
          BY <1>3, <5>2 DEF Answers
      <4> QED
        BY <1>10, <2>3, <4>1, <4>2 DEF Command, InvalidCommand, p
    <3>3. Moves(o2d, dpc, o2d', dpc', -1)
      <4>1. Resumed(dpc') = Reads(Resumed(dpc), p) /\ -1 = 0 - Worth(Resumed(dpc), p)
        BY <2>1, <3>1 DEF Resumed, Reading
      <4> QED
        BY <1>9, <2>1, <4>1
    <3>4. Owed(dpc') + -1 + Len(v) >= Owed(dpc)
      BY <2>1, <3>1, <3>2, LenProperties
    <3>5. Owes(o2d', d2o \o v, dpc', Awaited + Surplus)
      BY <1>1, <1>4, <3>2, <3>3, <3>4, OwesMove
    <3> QED
      BY <1>3, <3>2, <3>5
  <2> QED
    BY <2>2, <2>3
<1>11. CASE ImportName \/ DestroyName \/ JudgeName \/ (JudgeLang /\ p = "known")
  <2>1. /\ o2d # <<>> /\ o2d' = t /\ d2o' = d2o
        /\ dpc \in {"importName", "destroyName", "judgeName", "judgeLang"}
        /\ Resumed(dpc') = Reads(dpc, p) /\ Owed(dpc') = 2
    BY <1>11 DEF ImportName, DestroyName, JudgeName, ReadName, JudgeLang, Reads, Resumed,
       Owed, Reading, p, t
  <2>2. Resumed(dpc) = dpc /\ Worth(dpc, p) = 0
    BY <2>1 DEF Resumed, Reading, Worth
  <2>3. Moves(o2d, dpc, o2d', dpc', 0)
    <3>1. Resumed(dpc') = Reads(Resumed(dpc), p) /\ 0 = 0 - Worth(Resumed(dpc), p)
      BY <2>1, <2>2
    <3> QED
      BY <1>9, <2>1, <3>1
  <2>4. Owed(dpc') + 0 + Len(<<>>) >= Owed(dpc)
    BY <1>6, <1>8, <2>1
  <2>5. Owes(o2d', d2o \o <<>>, dpc', Awaited + Surplus)
    BY <1>1, <1>4, <1>6, <2>3, <2>4, OwesMove
  <2> QED
    BY <1>3, <1>6, <2>1, <2>5
<1>12. CASE JudgeLang /\ p # "known"
  <2>1. o2d # <<>> /\ o2d' = t /\ d2o' = d2o \o <<"code">> /\ dpc = "judgeLang" /\ dpc' = "text"
    BY <1>3, <1>12 DEF JudgeLang, Answers, p, t
  <2>2. /\ Resumed(dpc) = dpc /\ Resumed(dpc') = "command" /\ Reads(dpc, p) = "command"
        /\ Worth(dpc, p) = 0 /\ Owed(dpc') = 1 /\ Owed(dpc) = 2
    BY <1>12, <2>1 DEF Resumed, Reading, Reads, Worth, Owed
  <2>3. Moves(o2d, dpc, o2d', dpc', 0)
    <3>1. Resumed(dpc') = Reads(Resumed(dpc), p) /\ 0 = 0 - Worth(Resumed(dpc), p)
      BY <2>1, <2>2
    <3> QED
      BY <1>9, <2>1, <3>1
  <2>4. Owed(dpc') + 0 + Len(<<"code">>) >= Owed(dpc)
    BY <1>7, <2>2
  <2>5. Owes(o2d', d2o \o <<"code">>, dpc', Awaited + Surplus)
    BY <1>1, <1>4, <1>7, <2>3, <2>4, OwesMove
  <2> QED
    BY <1>3, <2>1, <2>5
<1>13. CASE ImportArchive \/ JudgeSource
  <2>1. /\ o2d # <<>> /\ ReadFile /\ d2o' = d2o /\ dpc \in {"importArchive", "judgeSource"}
        /\ dpc' \in {"importing", "judging"}
    BY <1>13 DEF ImportArchive, JudgeSource
  <2>2. /\ Resumed(dpc) = dpc /\ Resumed(dpc') = "command" /\ Reads(dpc, p) = "command"
        /\ Worth(dpc, p) = 0 /\ Owed(dpc') = 2
    BY <2>1 DEF Resumed, Reading, Reads, Worth, Owed
  <2>3. Moves(o2d, dpc, o2d', dpc', 0)
    <3>1. CASE o2d' = t
      <4>1. Resumed(dpc') = Reads(Resumed(dpc), p) /\ 0 = 0 - Worth(Resumed(dpc), p)
        BY <2>2
      <4> QED
        BY <1>9, <2>1, <3>1, <4>1
    <3>2. CASE o2d' = <<"rest">> \o t
      BY <1>1, <2>1, <2>2, <3>2, MovesRest DEF t
    <3> QED
      BY <2>1, <3>1, <3>2 DEF ReadFile, t
  <2>4. Owed(dpc') + 0 + Len(<<>>) >= Owed(dpc)
    BY <1>6, <1>8, <2>2
  <2>5. Owes(o2d', d2o \o <<>>, dpc', Awaited + Surplus)
    BY <1>1, <1>4, <1>6, <2>3, <2>4, OwesMove
  <2> QED
    BY <1>3, <1>6, <2>1, <2>5
<1>14. ASSUME NEW u \in {"zero", "code", "text"}, Answers(<<u>>), o2d' = o2d,
              Resumed(dpc) = "command", Resumed(dpc') = "command", Owed(dpc') + 1 >= Owed(dpc)
       PROVE  Owes(o2d', d2o', dpc', Awaited' + Surplus')
  <2>1. d2o' = d2o \o <<u>>
    BY <1>3, <1>14 DEF Answers
  <2>2. Moves(o2d, dpc, o2d', dpc', 0)
    BY <1>14, MovesSame
  <2>3. Owed(dpc') + 0 + Len(<<u>>) >= Owed(dpc)
    BY <1>7, <1>8, <1>14
  <2>4. Owes(o2d', d2o \o <<u>>, dpc', Awaited + Surplus)
    BY <1>1, <1>4, <1>7, <2>2, <2>3, OwesMove
  <2> QED
    BY <1>3, <2>1, <2>4
<1>15. ASSUME NEW x, ImportEnds(x) \/ DestroyEnds(x) \/ JudgeEnds(x), x \in {"zero", "code"} \/ ImportEnds(x)
       PROVE  Owes(o2d', d2o', dpc', Awaited' + Surplus')
  <2>1. /\ \E u \in {"zero", "code", "text"} : Answers(<<u>>)
        /\ o2d' = o2d /\ dpc \in {"importing", "destroying", "judging"}
        /\ dpc' \in {"importText", "text"}
    BY <1>15 DEF ImportEnds, ImportCode, DestroyEnds, JudgeEnds
  <2>2. Resumed(dpc) = "command" /\ Resumed(dpc') = "command" /\ Owed(dpc') + 1 >= Owed(dpc)
    BY <2>1 DEF Resumed, Reading, Owed
  <2> QED
    BY <1>14, <2>1, <2>2
<1>16. CASE Text
  <2>1. /\ Answers(<<"text">>) /\ o2d' = o2d /\ dpc \in {"importText", "text"}
        /\ dpc' = "command"
    BY <1>16 DEF Text, Message
  <2>2. Resumed(dpc) = "command" /\ Resumed(dpc') = "command" /\ Owed(dpc') + 1 >= Owed(dpc)
    BY <2>1 DEF Resumed, Reading, Owed
  <2> QED
    BY <1>14, <2>1, <2>2
<1> QED
  BY <1>2, <1>10, <1>11, <1>12, <1>13, <1>15, <1>16 DEF ProgramWorks

LEMMA DueNext == ASSUME LInv, Ends, Due, [Next]_vars PROVE Due'
<1>1. CASE UNCHANGED vars
  BY <1>1 DEF vars, wire, overlord, program, history, Due, Awaited, Surplus
<1>2. CASE Connect
  <2>1. o2d' = <<"list">> /\ d2o' = <<>> /\ dpc' = "command" /\ Awaited' + Surplus' = 0
    BY <1>2 DEF Connect, Awaited, Surplus
  <2>2. "list" \in Package \ Request
    BY Words
  <2>3. Parse(<<>>, "command", "command", 0)
    BY ParseEmpty DEF Reading
  <2>4. <<"list">> = <<>> \o <<"list">> /\ <<>> \in Seq(Package)
    BY <2>2, ConcatEmptySeq, NamedOne
  <2>5. Parse(<<"list">>, "command", "command", 1)
    <3>1. "command" \in Reading /\ "list" \in Package /\ 0 \in Int
      BY <2>2 DEF Reading
    <3>2. Parse(<<>> \o <<"list">>, "command", Reads("command", "list"), 0 + Worth("command", "list"))
      BY <2>3, <2>4, <3>1, ParseAppend
    <3>3. Reads("command", "list") = "command" /\ 0 + Worth("command", "list") = 1
      BY <2>2 DEF Reads, Worth
    <3> QED
      BY <2>4, <3>2, <3>3
  <2>6. Resumed(dpc') = "command" /\ Owed(dpc') = 0 /\ Len(<<>>) = 0
    BY <2>1 DEF Resumed, Owed, Reading
  <2>7. Owes(o2d', d2o', dpc', 0)
    BY <2>1, <2>5, <2>6 DEF Owes, Rest
  <2> QED
    BY <2>1, <2>7 DEF Due
<1>3. CASE Killed \/ Reset
  <2>1. link' # "up"
    BY <1>3 DEF Killed, ProgramEnds, Reset
  <2> QED
    BY <2>1 DEF Due
<1> QED
  BY <1>1, <1>2, <1>3, DueThread, DueProgram DEF Next

LEMMA DueInvariant == Spec => [](LInv /\ Ends /\ Due)
<1>1. Init => Due
  BY DEF Init, Due
<1>2. (LInv /\ Ends /\ Due) /\ [Next]_vars => (Ends /\ Due)'
  BY EndsNext, DueNext
<1> QED
  BY <1>1, <1>2, EndsInit, LinkInvariant, PTL DEF Spec

(***************************************************************************)
(* A link that is out of step stays so while it is up, for any entries and *)
(* any number of requests: whenever the thread is about to ask (Drone::run)*)
(* an answer to something earlier is still due from the drone.             *)
(***************************************************************************)
THEOREM SkewStays == Spec => []OutOfStepStays
<1>1. LInv /\ Ends /\ Due => OutOfStepStays
  <2> SUFFICES ASSUME LInv, Ends, Due, thread, at = "waiting", skew, link = "up", Quiet
               PROVE  FALSE
    BY DEF OutOfStepStays
  <2>1. Owes(<<>>, <<>>, "command", 1)
    BY DEF Due, Awaited, Surplus, Quiet
  <2>2. PICK z \in Rest, n \in Int :
           Parse(<<>>, "command", z, n) /\ Len(<<>>) + Owed("command") + n >= 1
    BY <2>1 DEF Owes, Resumed, Reading
  <2>3. n = 0
    BY <2>2 DEF Parse, Parses
  <2> QED
    BY <2>2, <2>3 DEF Owed
<1> QED
  BY <1>1, DueInvariant, PTL

-----------------------------------------------------------------------------
(***************************************************************************)
(* In step: what is on its way to the program belongs to the request of    *)
(* the thread, and only its first packages are a command and a name.       *)
(***************************************************************************)
Naming == {"importName", "destroyName", "judgeName"}

HasName == {"importArchive", "judgeLang", "judgeSource"} \cup Working

Routed(s, p, e) ==
    \A k \in 1..Len(s) :
        /\ s[k] \in Request => k = 1 /\ p = "command"
        /\ s[k] \in Entry => /\ s[k] = e
                             /\ \/ k = 1 /\ p \in Naming
                                \/ k = 2 /\ p = "command" /\ s[1] \in Request

Asked(s) == s # <<>> /\ Head(s) \in Request

Route == ~skew /\ dpc # "off" =>
    /\ Routed(o2d, dpc, entry)
    /\ dpc \in HasName => name = entry

RequestOf(a) ==
    CASE a \in {"opening", "importing"} -> "import"
      [] a \in {"sending", "judging"} -> "judge"
      [] a = "destroying" -> "destroy"
      [] OTHER -> "none"

HandlerOf(a) ==
    CASE a = "opening" -> {"importName", "importArchive"}
      [] a = "importing" -> {"importName", "importArchive", "importing", "importText"}
      [] a = "sending" -> {"judgeName", "judgeLang", "judgeSource", "text"}
      [] a = "judging" -> {"judgeName", "judgeLang", "judgeSource", "judging", "text"}
      [] a = "destroying" -> {"destroyName", "destroying", "text"}
      [] OTHER -> {}

(* How many packages of the request can be ahead, where no file is sent yet. *)
Room(a, p) ==
    CASE p \in {"importName", "destroyName", "judgeLang"} -> 1
      [] p = "judgeName" -> 2
      [] p = "command" -> IF a = "sending" THEN 3 ELSE 2
      [] OTHER -> 0

Kind == ~skew /\ dpc # "off" /\ at # "killed" =>
    /\ Asked(o2d) => Head(o2d) = RequestOf(at)
    /\ dpc \in {"command"} \cup HandlerOf(at)
    /\ at \in {"opening", "sending", "destroying"} =>
          /\ dpc # "command" \/ Asked(o2d) => Len(o2d) <= Room(at, dpc)
          /\ dpc = "command" /\ link = "up" => Asked(o2d) \/ o2d = <<>>

Calling == {"opening", "importing", "sending", "judging", "destroying"}

Begun == (dpc = "command" /\ Asked(o2d)) \/ dpc \notin {"command", "importText", "text", "off"}

Told == Len(d2o) + IF code = "none" THEN 0 ELSE 1

Answering ==
    /\ Begun => Told = 0
    /\ dpc \in {"importText", "text"} => Told <= 1 /\ (link = "up" => Told = 1)
    /\ dpc = "command" /\ ~Asked(o2d) /\ link = "up" => Told >= 2
    /\ code = "none" /\ d2o # <<>> => Head(d2o) \in {"zero", "code"}

Answered == thread /\ ~skew =>
    /\ at \in Calling => Answering
    /\ at = "opening" => d2o = <<>>
    /\ at = "destroying" => Told <= 2
    /\ at = "waiting" => d2o = <<>> /\ (link = "up" => Quiet)
    /\ at = "pinging" => /\ d2o \in {<<>>, <<"pong">>}
                         /\ link = "up" => \/ o2d = <<"ping">> /\ d2o = <<>>
                                           \/ o2d = <<>> /\ d2o = <<"pong">>

-----------------------------------------------------------------------------
Bare(s) == \A k \in 1..Len(s) : s[k] \notin Request \cup Entry

LEMMA RoutedBare ==
    ASSUME NEW s, NEW p, NEW e, NEW q, NEW d
    PROVE  /\ Bare(s) => Routed(s, q, d)
           /\ Routed(s, p, e) /\ p \notin Naming \cup {"command"} => Bare(s)
  BY DEF Bare, Routed

LEMMA AskedAt ==
    ASSUME NEW s \in Seq(Package)
    PROVE  /\ Asked(s) <=> Len(s) >= 1 /\ s[1] \in Request
           /\ s = <<>> <=> Len(s) = 0
           /\ Len(s) \in Nat
  BY EmptySeq, LenProperties, HeadTailProperties DEF Asked

LEMMA RoutedQuiet ==
    ASSUME NEW s \in Seq(Package), NEW e, Routed(s, "command", e), ~Asked(s)
    PROVE  Bare(s)
  BY AskedAt DEF Routed, Bare, Naming

LEMMA RoutedTail ==
    ASSUME NEW s \in Seq(Package), s # <<>>, NEW p, NEW e, Routed(s, p, e)
    PROVE  /\ p \in Naming => Bare(Tail(s)) /\ (Head(s) \in Entry => Head(s) = e)
           /\ p \notin Naming \cup {"command"} => Bare(Tail(s))
           /\ p = "command" /\ Head(s) \notin Request => Bare(Tail(s))
           /\ p = "command" => \A q \in Naming : Routed(Tail(s), q, e)
<1> DEFINE t == Tail(s)
<1>1. /\ Len(s) \in Nat \ {0} /\ Head(s) = s[1] /\ Len(t) = Len(s) - 1
      /\ \A k \in 1..Len(t) : t[k] = s[k + 1] /\ k + 1 \in 1..Len(s) /\ k + 1 # 1
  BY TailAt
<1> HIDE DEF t
<1>2. p # "command" => Bare(t)
  BY <1>1 DEF Bare, Routed
<1>3. p \in Naming => (Head(s) \in Entry => Head(s) = e)
  BY <1>1 DEF Routed
<1>4. p = "command" /\ Head(s) \notin Request => Bare(t)
  BY <1>1 DEF Bare, Routed, Naming
<1>5. p = "command" => \A q \in Naming : Routed(t, q, e)
  BY <1>1 DEF Routed, Naming
<1>6. "command" \notin Naming
  BY DEF Naming
<1> QED
  BY <1>2, <1>3, <1>4, <1>5, <1>6 DEF t

LEMMA RoutedCut ==
    ASSUME NEW s \in Seq(Package), NEW n \in 0..Len(s), NEW p, NEW e, Routed(s, p, e)
    PROVE  /\ Routed(SubSeq(s, 1, n), p, e)
           /\ Asked(SubSeq(s, 1, n)) => Asked(s) /\ Head(SubSeq(s, 1, n)) = Head(s)
           /\ Len(SubSeq(s, 1, n)) <= Len(s)
           /\ ~Asked(SubSeq(s, 1, n)) /\ Asked(s) => SubSeq(s, 1, n) = <<>>
<1> DEFINE t == SubSeq(s, 1, n)
<1>1. Len(s) \in Nat
  BY LenProperties
<1>2. t \in Seq(Package) /\ Len(t) = n /\ \A k \in 1..n : t[k] = s[k]
  BY <1>1, SubSeqProperties
<1>3. /\ s # <<>> => Head(s) = s[1]
      /\ t # <<>> => Head(t) = t[1]
      /\ s = <<>> <=> Len(s) = 0
      /\ t = <<>> <=> Len(t) = 0
  BY <1>2, HeadTailProperties, EmptySeq
<1> HIDE DEF t
<1>4. Routed(t, p, e)
  BY <1>1, <1>2 DEF Routed
<1>5. n # 0 => t[1] = s[1]
  BY <1>1, <1>2
<1> QED
  BY <1>1, <1>2, <1>3, <1>4, <1>5 DEF t, Asked

LEMMA RoutedAdd ==
    ASSUME NEW s \in Seq(Package), NEW u \in Package \ (Request \cup Entry), NEW p, NEW e,
           Routed(s, p, e)
    PROVE  /\ Routed(s \o <<u>>, p, e)
           /\ Asked(s \o <<u>>) <=> Asked(s)
           /\ Asked(s) => Head(s \o <<u>>) = Head(s)
           /\ s \o <<u>> # <<>>
<1> DEFINE t == s \o <<u>>
<1>1. /\ t \in Seq(Package) /\ Len(t) = Len(s) + 1 /\ Len(s) \in Nat
      /\ \A k \in 1..Len(s) : t[k] = s[k]
      /\ t[Len(s) + 1] = u
  BY AppendAt
<1>2. t # <<>> /\ Head(t) = t[1] /\ (s # <<>> => Head(s) = s[1] /\ t[1] = s[1])
      /\ (s = <<>> <=> Len(s) = 0)
  BY <1>1, EmptySeq, HeadTailProperties
<1> HIDE DEF t
<1>3. Routed(t, p, e)
  BY <1>1 DEF Routed
<1>4. Asked(t) <=> Asked(s)
  BY <1>1, <1>2 DEF Asked
<1> QED
  BY <1>2, <1>3, <1>4 DEF t, Asked

LEMMA RoutedAsk ==
    ASSUME NEW r \in Request, NEW e \in Entry, NEW lang \in {"known", "unknown"}
    PROVE  /\ Routed(<<r, e>>, "command", e) /\ Asked(<<r, e>>) /\ Head(<<r, e>>) = r
           /\ Len(<<r, e>>) = 2
           /\ Routed(<<r, e, lang>>, "command", e) /\ Asked(<<r, e, lang>>)
           /\ Head(<<r, e, lang>>) = r /\ Len(<<r, e, lang>>) = 3
<1>1. r \notin Entry /\ e \notin Request /\ lang \notin Request /\ lang \notin Entry
  BY NameAssumption DEF Request, Content
<1>2. Routed(<<r, e>>, "command", e) /\ Asked(<<r, e>>) /\ Head(<<r, e>>) = r /\ Len(<<r, e>>) = 2
  <2>1. Len(<<r, e>>) = 2 /\ <<r, e>>[1] = r /\ <<r, e>>[2] = e /\ Head(<<r, e>>) = r
        /\ <<r, e>> # <<>>
    OBVIOUS
  <2> QED
    BY <1>1, <2>1 DEF Routed, Asked
<1>3. /\ Routed(<<r, e, lang>>, "command", e) /\ Asked(<<r, e, lang>>)
      /\ Head(<<r, e, lang>>) = r /\ Len(<<r, e, lang>>) = 3
  <2> DEFINE t == <<r, e, lang>>
  <2>1. Len(t) = 3 /\ t[1] = r /\ t[2] = e /\ t[3] = lang /\ Head(t) = r /\ t # <<>>
    OBVIOUS
  <2> HIDE DEF t
  <2>2. Routed(t, "command", e) /\ Asked(t) /\ Head(t) = r /\ Len(t) = 3
    BY <1>1, <2>1 DEF Routed, Asked
  <2> QED
    BY <2>2 DEF t
<1> QED
  BY <1>2, <1>3

LEMMA BareRest ==
    ASSUME NEW s \in Seq(Package), Bare(s)  PROVE Bare(<<"rest">> \o s)
<1>1. "rest" \in Package /\ "rest" \notin Request \cup Entry
  BY NameAssumption, Words DEF Content
<1> DEFINE t == <<"rest">> \o s
<1>2. /\ Len(t) = Len(s) + 1 /\ Len(s) \in Nat /\ t[1] = "rest"
      /\ \A k \in 1..Len(s) : t[k + 1] = s[k]
  BY <1>1, ConsAt
<1> HIDE DEF t
<1>3. ASSUME NEW k \in 1..Len(t)  PROVE t[k] \notin Request \cup Entry
  <2>1. CASE k = 1
    BY <1>1, <1>2, <2>1
  <2>2. CASE k - 1 \in 1..Len(s)
    <3>1. t[(k - 1) + 1] = s[k - 1] /\ (k - 1) + 1 = k
      BY <1>2, <2>2
    <3> QED
      BY <2>2, <3>1 DEF Bare
  <2> QED
    BY <1>2, <2>1, <2>2
<1> QED
  BY <1>3 DEF Bare, t

LEMMA BareAsked == ASSUME NEW s \in Seq(Package), Bare(s) PROVE ~Asked(s)
  BY AskedAt DEF Bare

LEMMA ProgramKeeps ==
    ASSUME ProgramWorks, ~LinkDown
    PROVE  /\ UNCHANGED link /\ UNCHANGED overlord /\ UNCHANGED history
           /\ UNCHANGED <<thread, at, entry, code, known, calls, skew, seen>>
           /\ dpc # "off" /\ dpc' # "off"
<1>1. /\ UNCHANGED link /\ UNCHANGED overlord /\ UNCHANGED history
      /\ dpc # "off" /\ dpc' # "off"
  <2>1. CASE Command \/ Text \/ JudgeLang
    BY <2>1 DEF Command, Text, JudgeLang, Handler, Request
  <2>2. CASE ImportName \/ DestroyName \/ JudgeName
    BY <2>2 DEF ImportName, DestroyName, JudgeName, ReadName
  <2>3. CASE ImportArchive \/ JudgeSource
    BY <2>3 DEF ImportArchive, JudgeSource
  <2>4. ASSUME NEW x, ImportEnds(x) \/ DestroyEnds(x) \/ JudgeEnds(x)
        PROVE  UNCHANGED link /\ UNCHANGED overlord /\ UNCHANGED history
               /\ dpc # "off" /\ dpc' # "off"
    BY <2>4 DEF ImportEnds, DestroyEnds, JudgeEnds
  <2> QED
    BY <2>1, <2>2, <2>3, <2>4 DEF ProgramWorks
<1> QED
  BY <1>1 DEF overlord, history

(* The program ends: it reads no more. *)
LEMMA EndKeeps ==
    ASSUME LinkDown \/ Killed
    PROVE  /\ dpc # "off" /\ dpc' = "off"
           /\ UNCHANGED <<o2d, d2o, thread, at, entry, code, known, calls, name, skew>>
           /\ link' = (IF link = "up" THEN "closed" ELSE link)
           /\ seen' = SeenAtEnd
<1>1. ProgramEnds /\ UNCHANGED d2o
  BY DEF LinkDown, Killed
<1> QED
  BY <1>1 DEF ProgramEnds, overlord

Asks == \E e \in Entry : AskImport(e) \/ AskDestroy(e)
                         \/ \E lang \in {"known", "unknown"} : AskJudge(e, lang)

Leaves == LeaveDone \/ LeaveBroken \/ LeaveOutOfStep \/ SourceMissing

LEMMA ThreadKeeps ==
    ASSUME Asks \/ ThreadWorks \/ NoArchive \/ SourceMissing \/ OverlordKilled
    PROVE  thread /\ UNCHANGED <<dpc, name, disk>> /\ (~skew' => ~skew)
<1>1. CASE Asks
  BY <1>1 DEF Asks, AskImport, AskDestroy, AskJudge, Ask, program, history
<1>2. CASE ReadList \/ Ping \/ Pong \/ SendArchive \/ SendSource \/ ReadCode
  BY <1>2 DEF ReadList, Ping, Pong, SendArchive, SendSource, SendFile, ReadCode, program, history
<1>3. CASE ReadText \/ NoArchive
  BY <1>3 DEF ReadText, NoArchive, program
<1>4. CASE Leaves \/ OverlordKilled
  BY <1>4 DEF Leaves, LeaveDone, LeaveBroken, LeaveOutOfStep, SourceMissing, OverlordKilled,
     ThreadEnds, program
<1> QED
  BY <1>1, <1>2, <1>3, <1>4 DEF ThreadWorks, Leaves

(* Asking, in step: the program is at rest, or the link is down. *)
LEMMA AskWays ==
    ASSUME LInv, Ends, Route, Kind, Answered, Asks, ~skew, dpc # "off"
    PROVE  /\ at = "waiting" /\ d2o = <<>> /\ dpc = "command" /\ Bare(o2d)
           /\ entry' \in Entry /\ at' \in {"opening", "sending", "destroying"}
           /\ UNCHANGED <<link, d2o, thread, code, dpc, skew>>
           /\ \/ link # "up" /\ o2d' = o2d
              \/ /\ link = "up" /\ Routed(o2d', "command", entry') /\ Asked(o2d')
                 /\ Head(o2d') = RequestOf(at') /\ Len(o2d') <= Room(at', "command")
<1>1. o2d \in Seq(Package) /\ d2o \in Seq(Package)
  BY DEF LInv, TypeOK
<1>2. PICK e \in Entry : AskImport(e) \/ AskDestroy(e)
                         \/ \E lang \in {"known", "unknown"} : AskJudge(e, lang)
  BY DEF Asks
<1>3. /\ thread /\ at = "waiting" /\ entry' = e /\ at' \in {"opening", "sending", "destroying"}
      /\ UNCHANGED <<link, d2o, thread, code, dpc, skew>>
  BY <1>2 DEF AskImport, AskDestroy, AskJudge, Ask, program, history
<1>4. d2o = <<>> /\ (link = "up" => o2d = <<>> /\ dpc = "command")
  BY <1>3 DEF Answered, Quiet
<1>5. dpc = "command" /\ (Asked(o2d) => Head(o2d) = "none")
  BY <1>3 DEF Kind, HandlerOf, RequestOf
<1>6. Bare(o2d)
  <2>1. ~Asked(o2d)
    BY <1>5 DEF Asked, Request
  <2> QED
    BY <1>1, <1>5, <2>1, RoutedQuiet DEF Route
<1>7. CASE link # "up"
  <2>1. o2d' = o2d
    BY <1>2, <1>7 DEF AskImport, AskDestroy, AskJudge, Ask, Write
  <2> QED
    BY <1>3, <1>4, <1>5, <1>6, <1>7, <2>1
<1>8. CASE link = "up"
  <2>1. \/ o2d' = o2d \o <<"import", e>> /\ at' = "opening"
        \/ o2d' = o2d \o <<"destroy", e>> /\ at' = "destroying"
        \/ \E lang \in {"known", "unknown"} : o2d' = o2d \o <<"judge", e, lang>> /\ at' = "sending"
    BY <1>2, <1>8 DEF AskImport, AskDestroy, AskJudge, Ask, Write
  <2>2. {"import", "destroy", "judge"} \subseteq Request
    BY DEF Request
  <2>3. \A s \in Seq(Package) : <<>> \o s = s
    BY ConcatEmptySeq
  <2>4. ASSUME NEW r \in {"import", "destroy"}, o2d' = o2d \o <<r, e>>
        PROVE  o2d' = <<r, e>>
    <3>1. <<r, e>> \in Seq(Package)
      BY <2>2, NamedAsk
    <3> QED
      BY <1>4, <1>8, <2>3, <2>4, <3>1
  <2>5. ASSUME NEW lang \in {"known", "unknown"}, o2d' = o2d \o <<"judge", e, lang>>
        PROVE  o2d' = <<"judge", e, lang>>
    <3>1. <<"judge", e, lang>> \in Seq(Package)
      BY <2>2, NamedAsk
    <3> QED
      BY <1>4, <1>8, <2>3, <2>5, <3>1
  <2>6. /\ Routed(o2d', "command", e) /\ Asked(o2d') /\ Head(o2d') = RequestOf(at')
        /\ Len(o2d') <= Room(at', "command")
    <3>1. CASE o2d' = <<"import", e>> /\ at' = "opening"
      <4>1. Room(at', "command") = 2 /\ RequestOf(at') = "import"
        BY <3>1 DEF Room, RequestOf
      <4>2. /\ Routed(<<"import", e>>, "command", e) /\ Asked(<<"import", e>>)
            /\ Head(<<"import", e>>) = "import" /\ Len(<<"import", e>>) = 2
        BY <2>2, RoutedAsk
      <4> QED
        BY <3>1, <4>1, <4>2
    <3>2. CASE o2d' = <<"destroy", e>> /\ at' = "destroying"
      <4>1. Room(at', "command") = 2 /\ RequestOf(at') = "destroy"
        BY <3>2 DEF Room, RequestOf
      <4>2. /\ Routed(<<"destroy", e>>, "command", e) /\ Asked(<<"destroy", e>>)
            /\ Head(<<"destroy", e>>) = "destroy" /\ Len(<<"destroy", e>>) = 2
        BY <2>2, RoutedAsk
      <4> QED
        BY <3>2, <4>1, <4>2
    <3>3. ASSUME NEW lang \in {"known", "unknown"}, o2d' = <<"judge", e, lang>>, at' = "sending"
          PROVE  /\ Routed(o2d', "command", e) /\ Asked(o2d') /\ Head(o2d') = RequestOf(at')
                 /\ Len(o2d') <= Room(at', "command")
      <4>1. Room(at', "command") = 3 /\ RequestOf(at') = "judge"
        BY <3>3 DEF Room, RequestOf
      <4>2. /\ Routed(<<"judge", e, lang>>, "command", e) /\ Asked(<<"judge", e, lang>>)
            /\ Head(<<"judge", e, lang>>) = "judge" /\ Len(<<"judge", e, lang>>) = 3
        BY <2>2, RoutedAsk
      <4> QED
        BY <3>3, <4>1, <4>2
    <3> QED
      BY <2>1, <2>4, <2>5, <3>1, <3>2, <3>3
  <2> QED
    BY <1>3, <1>4, <1>5, <1>6, <1>8, <2>6
<1> QED
  BY <1>7, <1>8

(* What else the thread writes is a plain package. *)
LEMMA WriteWays ==
    ASSUME LInv, Ping \/ SendArchive \/ SendSource
    PROVE  /\ \/ o2d' = o2d /\ link # "up"
              \/ \E u \in Package \ (Request \cup Entry) : o2d' = o2d \o <<u>> /\ link = "up"
           /\ UNCHANGED <<link, d2o, thread, entry, code, known, dpc, name, disk, skew, seen>>
<1>1. {"ping", "archive", "source"} \subseteq Package \ (Request \cup Entry)
  BY NameAssumption, Words DEF Content
<1>2. \E u \in {"ping", "archive", "source"} : Write(<<u>>)
  BY DEF Ping, SendArchive, SendSource, SendFile
<1>3. UNCHANGED <<link, d2o, thread, entry, code, known, dpc, name, disk, skew, seen>>
  BY DEF Ping, SendArchive, SendSource, SendFile, program, history
<1> QED
  BY <1>1, <1>2, <1>3 DEF Write

LEMMA NextWays ==
    ASSUME [Next]_vars
    PROVE  \/ UNCHANGED vars \/ Connect \/ Asks \/ Ping \/ SendArchive \/ SendSource
           \/ ReadList \/ Pong \/ ReadCode \/ ReadText \/ NoArchive \/ Leaves
           \/ OverlordKilled \/ (ProgramWorks /\ ~LinkDown) \/ LinkDown \/ Killed \/ Reset
  BY DEF Next, ThreadWorks, Leaves, Asks, ProgramWorks

(* What the program does to the packages it is sent, a step at a time. *)
LEMMA ProgramWays ==
    ASSUME ProgramWorks, ~LinkDown
    PROVE  \/ /\ dpc = "command" /\ o2d # <<>> /\ o2d' = Tail(o2d) /\ name' = name
              /\ dpc' = IF Head(o2d) \in Request THEN Handler(Head(o2d)) ELSE "command"
           \/ /\ dpc \in Naming /\ o2d # <<>> /\ o2d' = Tail(o2d) /\ name' = Head(o2d)
              /\ dpc' = CASE dpc = "importName" -> "importArchive"
                          [] dpc = "judgeName" -> "judgeLang"
                          [] OTHER -> "destroying"
           \/ /\ dpc = "judgeLang" /\ o2d # <<>> /\ o2d' = Tail(o2d) /\ name' = name
              /\ dpc' \in {"judgeSource", "text"}
           \/ /\ dpc \in {"importArchive", "judgeSource"} /\ o2d # <<>> /\ name' = name
              /\ o2d' = Tail(o2d) \/ o2d' = <<"rest">> \o Tail(o2d)
              /\ dpc' = IF dpc = "importArchive" THEN "importing" ELSE "judging"
           \/ /\ dpc \in Working /\ o2d' = o2d /\ name' = name
              /\ dpc' = CASE dpc = "importing" -> "importText"
                          [] dpc \in {"judging", "destroying"} -> "text"
                          [] OTHER -> "command"
<1>1. CASE Command
  BY <1>1 DEF Command, Request
<1>2. CASE ImportName \/ DestroyName \/ JudgeName
  BY <1>2 DEF ImportName, DestroyName, JudgeName, ReadName, Naming
<1>3. CASE ImportArchive \/ JudgeSource
  BY <1>3 DEF ImportArchive, JudgeSource, ReadFile
<1>4. CASE JudgeLang
  BY <1>4 DEF JudgeLang
<1>5. ASSUME NEW x, ImportEnds(x) \/ DestroyEnds(x) \/ JudgeEnds(x)
      PROVE  /\ dpc \in Working /\ o2d' = o2d /\ name' = name
             /\ dpc' = CASE dpc = "importing" -> "importText"
                         [] dpc \in {"judging", "destroying"} -> "text"
                         [] OTHER -> "command"
  BY <1>5 DEF ImportEnds, DestroyEnds, JudgeEnds, Working
<1>6. CASE Text
  BY <1>6 DEF Text, Working
<1> QED
  BY <1>1, <1>2, <1>3, <1>4, <1>5, <1>6 DEF ProgramWorks

LEMMA RouteNext ==
    ASSUME LInv, Ends, Route, Kind, Answered, [Next]_vars
    PROVE  Route'
<1> SUFFICES ASSUME ~skew', dpc' # "off"
             PROVE  Routed(o2d', dpc', entry') /\ (dpc' \in HasName => name' = entry')
  BY DEF Route
<1>1. o2d \in Seq(Package)
  BY DEF LInv, TypeOK
<1>2. "command" \notin HasName /\ "command" \notin Naming /\ HasName \cap Naming = {}
  BY DEF HasName, Naming, Working
<1>3. ASSUME ~skew, dpc # "off", UNCHANGED <<o2d, dpc, name, entry>>
      PROVE  Routed(o2d', dpc', entry') /\ (dpc' \in HasName => name' = entry')
  BY <1>3 DEF Route
<1>4. CASE UNCHANGED vars
  <2>1. UNCHANGED <<o2d, dpc, name, entry, skew>>
    BY <1>4 DEF vars, wire, overlord, program, history
  <2> QED
    BY <1>3, <2>1
<1>5. CASE Connect
  <2>1. o2d' = <<"list">> /\ dpc' = "command"
    BY <1>5 DEF Connect
  <2>2. "list" \notin Request \cup Entry
    BY NameAssumption, Words
  <2>3. Bare(o2d')
    BY <2>1, <2>2 DEF Bare
  <2> QED
    BY <1>2, <2>1, <2>3, RoutedBare
<1>6. CASE Asks
  <2>1. ~skew /\ dpc # "off"
    BY <1>6, ThreadKeeps
  <2> QED
    BY <1>2, <1>6, <2>1, AskWays, RoutedBare
<1>7. CASE Ping \/ SendArchive \/ SendSource
  <2>1. ~skew /\ dpc # "off" /\ UNCHANGED <<dpc, name, entry>>
    BY <1>7, WriteWays
  <2>2. CASE o2d' = o2d
    BY <1>3, <2>1, <2>2
  <2>3. ASSUME NEW u \in Package \ (Request \cup Entry), o2d' = o2d \o <<u>>
        PROVE  Routed(o2d', dpc', entry')
    BY <1>1, <2>1, <2>3, RoutedAdd DEF Route
  <2> QED
    BY <1>7, <2>1, <2>2, <2>3, WriteWays DEF Route
<1>8. CASE ReadList \/ Pong \/ ReadCode \/ ReadText \/ NoArchive \/ Leaves
  <2>1. ~skew /\ dpc # "off" /\ UNCHANGED <<dpc, name>>
    BY <1>8, ThreadKeeps DEF ThreadWorks, Leaves
  <2>2. UNCHANGED <<o2d, entry>>
    BY <1>8 DEF ReadList, Pong, ReadCode, ReadText, NoArchive, Leaves, LeaveDone, LeaveBroken,
       LeaveOutOfStep, SourceMissing, ThreadEnds, wire
  <2> QED
    BY <1>3, <2>1, <2>2
<1>9. CASE OverlordKilled \/ Reset
  <2>1. \E n \in 0..Len(o2d) : o2d' = SubSeq(o2d, 1, n)
    BY <1>9 DEF OverlordKilled, Reset
  <2>2. ~skew /\ UNCHANGED <<dpc, name, entry>>
    BY <1>9, ThreadKeeps DEF OverlordKilled, ThreadEnds, Reset, overlord, program, history
  <2> QED
    BY <1>1, <2>1, <2>2, RoutedCut DEF Route
<1>10. CASE ProgramWorks /\ ~LinkDown
  <2>1. ~skew /\ dpc # "off" /\ entry' = entry
    BY <1>10, ProgramKeeps
  <2>2. Routed(o2d, dpc, entry) /\ (dpc \in HasName => name = entry)
    BY <2>1 DEF Route
  <2>3. ASSUME Bare(o2d'), dpc' \in HasName => name' = entry
        PROVE  Routed(o2d', dpc', entry') /\ (dpc' \in HasName => name' = entry')
    BY <2>1, <2>3, RoutedBare
  <2>4. CASE /\ dpc = "command" /\ o2d # <<>> /\ o2d' = Tail(o2d)
             /\ dpc' = IF Head(o2d) \in Request THEN Handler(Head(o2d)) ELSE "command"
    <3>1. CASE Head(o2d) \in Request
      <4>1. dpc' \in Naming
        BY <2>4, <3>1 DEF Handler, Request, Naming
      <4> QED
        BY <1>1, <1>2, <2>1, <2>2, <2>4, <4>1, RoutedTail
    <3>2. CASE Head(o2d) \notin Request
      <4>1. Bare(o2d')
        BY <1>1, <2>2, <2>4, <3>2, RoutedTail
      <4> QED
        BY <1>2, <2>3, <2>4, <3>2, <4>1
    <3> QED
      BY <3>1, <3>2
  <2>5. CASE dpc \in Naming /\ o2d # <<>> /\ o2d' = Tail(o2d) /\ name' = Head(o2d)
    <3>1. Bare(o2d') /\ (Head(o2d) \in Entry => Head(o2d) = entry)
      BY <1>1, <2>2, <2>5, RoutedTail
    <3>2. Head(o2d) \in Entry
      BY <2>5 DEF LInv, Stream, Naming
    <3> QED
      BY <2>3, <2>5, <3>1, <3>2
  <2>6. CASE dpc \in {"judgeLang", "importArchive", "judgeSource"} /\ o2d # <<>> /\ name' = name
             /\ (o2d' = Tail(o2d) \/ o2d' = <<"rest">> \o Tail(o2d))
    <3>1. dpc \in HasName /\ dpc \notin Naming \cup {"command"}
      BY <2>6 DEF HasName, Naming
    <3>2. Bare(Tail(o2d)) /\ Tail(o2d) \in Seq(Package)
      BY <1>1, <2>2, <2>6, <3>1, RoutedTail, TailAt
    <3>3. Bare(o2d')
      BY <2>6, <3>2, BareRest
    <3> QED
      BY <2>2, <2>3, <2>6, <3>1, <3>3
  <2>7. CASE dpc \in Working /\ o2d' = o2d /\ name' = name
    <3>1. dpc \in HasName /\ dpc \notin Naming \cup {"command"}
      BY <2>7 DEF HasName, Naming, Working
    <3>2. Bare(o2d')
      BY <2>2, <2>7, <3>1, RoutedBare
    <3> QED
      BY <2>2, <2>3, <2>7, <3>1, <3>2
  <2> QED
    BY <1>10, <2>4, <2>5, <2>6, <2>7, ProgramWays
<1>11. CASE LinkDown \/ Killed
  BY <1>11, EndKeeps
<1> QED
  BY <1>4, <1>5, <1>6, <1>7, <1>8, <1>9, <1>10, <1>11, NextWays

LEMMA KindNext ==
    ASSUME LInv, Ends, Route, Kind, Answered, [Next]_vars
    PROVE  Kind'
<1> SUFFICES ASSUME ~skew', dpc' # "off", at' # "killed"
             PROVE  /\ Asked(o2d') => Head(o2d') = RequestOf(at')
                    /\ dpc' \in {"command"} \cup HandlerOf(at')
                    /\ at' \in {"opening", "sending", "destroying"} =>
                          /\ dpc' # "command" \/ Asked(o2d') => Len(o2d') <= Room(at', dpc')
                          /\ dpc' = "command" /\ link' = "up" => Asked(o2d') \/ o2d' = <<>>
  BY DEF Kind
<1>1. o2d \in Seq(Package) /\ Len(o2d) \in Nat
  BY LenProperties DEF LInv, TypeOK
<1> DEFINE Fits ==
       /\ Asked(o2d') => Head(o2d') = RequestOf(at')
       /\ dpc' \in {"command"} \cup HandlerOf(at')
       /\ at' \in {"opening", "sending", "destroying"} =>
             /\ dpc' # "command" \/ Asked(o2d') => Len(o2d') <= Room(at', dpc')
             /\ dpc' = "command" /\ link' = "up" => Asked(o2d') \/ o2d' = <<>>
<1> SUFFICES Fits
  OBVIOUS
<1>2. ASSUME ~skew, dpc # "off", at # "killed", UNCHANGED <<o2d, dpc, at>>, link' = link \/ link' # "up"
      PROVE  Fits
  BY <1>2 DEF Kind
<1>3. ASSUME dpc' = "command", ~Asked(o2d'), at' \notin {"opening", "sending", "destroying"}
      PROVE  Fits
  BY <1>3
<1>4. "none" \notin Request
  BY DEF Request
<1>5. CASE UNCHANGED vars
  <2>1. UNCHANGED <<o2d, dpc, at, link, skew>>
    BY <1>5 DEF vars, wire, overlord, program, history
  <2> QED
    BY <1>2, <2>1
<1>6. CASE Connect
  <2>1. o2d' = <<"list">> /\ dpc' = "command" /\ at' = "listing"
    BY <1>6 DEF Connect
  <2>2. ~Asked(o2d')
    BY <2>1 DEF Asked, Request
  <2> QED
    BY <1>3, <2>1, <2>2
<1>7. CASE Asks
  <2>1. ~skew /\ dpc # "off"
    BY <1>7, ThreadKeeps
  <2>2. CASE link # "up" /\ o2d' = o2d
    <3>1. dpc' = "command" /\ ~Asked(o2d') /\ link' # "up"
      BY <1>1, <1>7, <2>1, <2>2, AskWays, BareAsked
    <3> QED
      BY <3>1
  <2>3. CASE link = "up"
    BY <1>7, <2>1, <2>3, AskWays
  <2> QED
    BY <1>7, <2>1, <2>2, <2>3, AskWays
<1>8. CASE Ping \/ SendArchive \/ SendSource
  <2>1. ~skew /\ dpc # "off" /\ UNCHANGED <<dpc, link>>
    BY <1>8, WriteWays
  <2>2. Asked(o2d') => Asked(o2d) /\ Head(o2d') = Head(o2d)
    <3>1. ASSUME NEW u \in Package \ (Request \cup Entry), o2d' = o2d \o <<u>>
          PROVE  Asked(o2d') => Asked(o2d) /\ Head(o2d') = Head(o2d)
      BY <1>1, <2>1, <3>1, RoutedAdd DEF Route
    <3> QED
      BY <1>8, <3>1, WriteWays
  <2>3. \/ at = "waiting" /\ at' = "pinging"
        \/ at = "opening" /\ at' = "importing"
        \/ at = "sending" /\ at' = "judging"
    BY <1>8 DEF Ping, SendArchive, SendSource, SendFile
  <2>4. RequestOf(at') = RequestOf(at) /\ HandlerOf(at) \subseteq HandlerOf(at')
        /\ at' \notin {"opening", "sending", "destroying"} /\ at # "killed"
    BY <2>3 DEF RequestOf, HandlerOf
  <2> QED
    BY <2>1, <2>2, <2>4 DEF Kind
<1>9. CASE ReadList \/ Pong
  <2>1. ~skew /\ dpc # "off" /\ UNCHANGED <<dpc, o2d>> /\ at' \in {"listing", "waiting"}
        /\ at \in {"listing", "pinging"}
    BY <1>9 DEF ReadList, Pong, program, history
  <2>2. dpc = "command" /\ ~Asked(o2d)
    BY <1>4, <2>1 DEF Kind, RequestOf, HandlerOf, Asked
  <2> QED
    BY <1>3, <2>1, <2>2
<1>10. CASE ReadCode
  <2>1. UNCHANGED <<dpc, o2d, at, link, skew>> /\ at # "killed"
    BY <1>10 DEF ReadCode, program, history
  <2> QED
    BY <1>2, <2>1
<1>11. CASE ReadText
  <2>1. /\ ~skew /\ thread /\ code # "none" /\ d2o # <<>> /\ UNCHANGED <<dpc, o2d>>
        /\ at' = "waiting"
    BY <1>11 DEF ReadText, program
  <2>2. at \in {"importing", "judging", "destroying"} /\ d2o \in Seq(Package)
    BY <2>1 DEF Ends, LInv, TypeOK
  <2>3. Len(d2o) \in Nat /\ Len(d2o) # 0
    BY <2>1, <2>2, EmptySeq, LenProperties
  <2>4. Told >= 2
    BY <2>1, <2>3 DEF Told
  <2>5. Answering
    BY <2>1, <2>2 DEF Answered, Calling
  <2>6. dpc = "command" /\ ~Asked(o2d)
    BY <2>1, <2>3, <2>4, <2>5 DEF Answering, Begun, Told
  <2> QED
    BY <1>3, <2>1, <2>6
<1>12. CASE NoArchive
  BY <1>12 DEF NoArchive
<1>13. CASE Leaves
  <2>1. /\ ~skew /\ UNCHANGED <<dpc, o2d, at>> /\ thread /\ link' # "up"
    BY <1>13 DEF Leaves, LeaveDone, LeaveBroken, LeaveOutOfStep, SourceMissing, ThreadEnds, program
  <2>2. at # "killed"
    BY <2>1 DEF Ends
  <2> QED
    BY <1>2, <2>1, <2>2
<1>14. CASE OverlordKilled
  BY <1>14 DEF OverlordKilled
<1>15. CASE ProgramWorks /\ ~LinkDown
  <2>1. ~skew /\ dpc # "off" /\ at' = at /\ at # "killed" /\ link' = link
    BY <1>15, ProgramKeeps
  <2>2. /\ Asked(o2d) => Head(o2d) = RequestOf(at)
        /\ dpc \in {"command"} \cup HandlerOf(at)
        /\ at \in {"opening", "sending", "destroying"} =>
              /\ dpc # "command" \/ Asked(o2d) => Len(o2d) <= Room(at, dpc)
              /\ dpc = "command" /\ link = "up" => Asked(o2d) \/ o2d = <<>>
        /\ Routed(o2d, dpc, entry)
    BY <2>1 DEF Kind, Route
  <2>3. o2d # <<>> => /\ Tail(o2d) \in Seq(Package) /\ Len(Tail(o2d)) = Len(o2d) - 1
                      /\ Len(o2d) >= 1
    BY <1>1, TailAt
  <2>4. CASE /\ dpc = "command" /\ o2d # <<>> /\ o2d' = Tail(o2d)
             /\ dpc' = IF Head(o2d) \in Request THEN Handler(Head(o2d)) ELSE "command"
    <3>1. CASE Head(o2d) \in Request
      <4>1. Asked(o2d) /\ Head(o2d) = RequestOf(at)
        BY <2>2, <2>4, <3>1 DEF Asked
      <4>2. at \in Calling
        BY <1>4, <3>1, <4>1 DEF RequestOf, Calling
      <4>3. dpc' \in HandlerOf(at) /\ dpc' \in Naming
        BY <2>4, <3>1, <4>1, <4>2 DEF RequestOf, HandlerOf, Handler, Calling, Naming
      <4>4. ~Asked(o2d')
        <5>1. Routed(o2d', dpc', entry) /\ o2d' \in Seq(Package)
          BY <1>1, <2>2, <2>3, <2>4, <4>3, RoutedTail
        <5> QED
          BY <4>3, <5>1, AskedAt DEF Routed, Naming
      <4>5. at \in {"opening", "sending", "destroying"} => Room(at, dpc') = Room(at, dpc) - 1
        BY <2>4, <3>1, <4>1, <4>2 DEF Room, RequestOf, Handler
      <4>6. Room(at, dpc) \in Nat
        BY DEF Room
      <4>7. dpc' # "command"
        BY <4>3 DEF Naming
      <4>8. at \in {"opening", "sending", "destroying"} => Len(o2d') <= Room(at, dpc')
        BY <1>1, <2>2, <2>3, <2>4, <4>1, <4>5, <4>6
      <4> QED
        BY <2>1, <4>3, <4>4, <4>7, <4>8
    <3>2. CASE Head(o2d) \notin Request
      <4>1. ~Asked(o2d') /\ dpc' = "command"
        BY <1>1, <2>2, <2>3, <2>4, <3>2, RoutedTail, BareAsked
      <4>2. at \in {"opening", "sending", "destroying"} => link' # "up"
        BY <2>1, <2>2, <2>4, <3>2 DEF Asked
      <4> QED
        BY <2>1, <4>1, <4>2
    <3> QED
      BY <3>1, <3>2
  <2>5. CASE /\ dpc \in Naming \cup {"judgeLang"} /\ o2d # <<>> /\ o2d' = Tail(o2d)
             /\ dpc' \in (CASE dpc = "importName" -> {"importArchive"}
                            [] dpc = "judgeName" -> {"judgeLang"}
                            [] dpc = "destroyName" -> {"destroying"}
                            [] dpc = "judgeLang" -> {"judgeSource", "text"})
    <3>1. ~Asked(o2d') /\ dpc' # "command" /\ dpc' \in HandlerOf(at)
      <4>1. Bare(o2d') /\ o2d' \in Seq(Package)
        BY <1>1, <2>2, <2>3, <2>5, RoutedTail DEF Naming
      <4>2. dpc' \in HandlerOf(at) /\ dpc' # "command"
        BY <2>2, <2>5 DEF Naming, HandlerOf
      <4> QED
        BY <4>1, <4>2, BareAsked
    <3>2. at \in {"opening", "sending", "destroying"} => Room(at, dpc') = Room(at, dpc) - 1
      BY <2>5 DEF Room, Naming
    <3>3. Room(at, dpc) \in Nat
      BY DEF Room
    <3>4. dpc # "command"
      BY <2>5 DEF Naming
    <3>5. at \in {"opening", "sending", "destroying"} => Len(o2d') <= Room(at, dpc')
      BY <1>1, <2>2, <2>3, <2>5, <3>2, <3>3, <3>4
    <3> QED
      BY <2>1, <3>1, <3>5
  <2>6. CASE /\ dpc \in {"importArchive", "judgeSource"} /\ o2d # <<>>
             /\ o2d' = Tail(o2d) \/ o2d' = <<"rest">> \o Tail(o2d)
             /\ dpc' = IF dpc = "importArchive" THEN "importing" ELSE "judging"
    <3>1. Room(at, dpc) = 0
      BY <2>6 DEF Room
    <3>2. at \notin {"opening", "sending", "destroying"}
      BY <1>1, <2>2, <2>3, <2>6, <3>1
    <3>3. dpc' \in HandlerOf(at)
      BY <2>2, <2>6, <3>2 DEF HandlerOf
    <3>4. Bare(Tail(o2d)) /\ Tail(o2d) \in Seq(Package)
      BY <1>1, <2>2, <2>3, <2>6, RoutedTail DEF Naming
    <3>5. Bare(o2d') /\ o2d' \in Seq(Package)
      <4>1. "rest" \in Package
        BY Words
      <4>2. <<"rest">> \o Tail(o2d) \in Seq(Package) /\ Bare(<<"rest">> \o Tail(o2d))
        BY <3>4, <4>1, BareRest, ConsAt
      <4> QED
        BY <2>6, <3>4, <4>2
    <3>6. ~Asked(o2d')
      BY <3>5, BareAsked
    <3> QED
      BY <2>1, <3>2, <3>3, <3>6
  <2>7. CASE /\ dpc \in Working /\ o2d' = o2d
             /\ dpc' = CASE dpc = "importing" -> "importText"
                         [] dpc \in {"judging", "destroying"} -> "text"
                         [] OTHER -> "command"
    <3>1. dpc # "command" /\ dpc \notin Naming
      BY <2>7 DEF Working, Naming
    <3>2. Bare(o2d) /\ ~Asked(o2d)
      BY <1>1, <2>2, <3>1, RoutedBare, BareAsked
    <3>3. dpc' \in {"command"} \cup HandlerOf(at)
      BY <2>2, <2>7 DEF HandlerOf, Working
    <3>4. at \in {"opening", "sending", "destroying"} => Len(o2d) <= 0
      BY <2>2, <2>7, <3>1 DEF Room, Working
    <3>5. at \in {"opening", "sending", "destroying"} => o2d' = <<>> /\ Len(o2d') = 0
      BY <1>1, <2>7, <3>4, EmptySeq
    <3>6. Room(at, dpc') \in Nat
      BY DEF Room
    <3> QED
      BY <2>1, <2>7, <3>2, <3>3, <3>5, <3>6
  <2> QED
    BY <1>15, <2>4, <2>5, <2>6, <2>7, ProgramWays DEF Naming
<1>16. CASE LinkDown \/ Killed
  BY <1>16, EndKeeps
<1>17. CASE Reset
  <2>1. ~skew /\ UNCHANGED <<dpc, at>> /\ link' # "up" /\ dpc # "off" /\ at # "killed"
    BY <1>17 DEF Reset, overlord, program, history
  <2>2. PICK n \in 0..Len(o2d) : o2d' = SubSeq(o2d, 1, n)
    BY <1>17 DEF Reset
  <2>3. Routed(o2d, dpc, entry)
    BY <2>1 DEF Route
  <2>4. /\ Asked(o2d') => Asked(o2d) /\ Head(o2d') = Head(o2d)
        /\ Len(o2d') <= Len(o2d) /\ Len(o2d') \in Nat
    <3>1. o2d' \in Seq(Package)
      BY <1>1, <2>2, NamedPrefix
    <3> QED
      BY <1>1, <2>2, <2>3, <3>1, RoutedCut, LenProperties
  <2>5. Room(at, dpc) \in Nat
    BY DEF Room
  <2> QED
    BY <1>1, <2>1, <2>4, <2>5 DEF Kind
<1> QED
  BY <1>5, <1>6, <1>7, <1>8, <1>9, <1>10, <1>11, <1>12, <1>13, <1>14, <1>15, <1>16, <1>17,
     NextWays

LEMMA ProgramTakes ==
    ASSUME ProgramWorks, ~LinkDown
    PROVE  o2d' = o2d \/ (o2d # <<>> /\ (o2d' = Tail(o2d) \/ o2d' = <<"rest">> \o Tail(o2d)))
<1>1. CASE Command \/ JudgeLang
  BY <1>1 DEF Command, JudgeLang
<1>2. CASE ImportName \/ DestroyName \/ JudgeName
  BY <1>2 DEF ImportName, DestroyName, JudgeName, ReadName
<1>3. CASE ImportArchive \/ JudgeSource
  BY <1>3 DEF ImportArchive, JudgeSource, ReadFile
<1>4. ASSUME NEW x, ImportEnds(x) \/ DestroyEnds(x) \/ JudgeEnds(x)  PROVE o2d' = o2d
  BY <1>4 DEF ImportEnds, DestroyEnds, JudgeEnds
<1>5. CASE Text
  BY <1>5 DEF Text
<1> QED
  BY <1>1, <1>2, <1>3, <1>4, <1>5 DEF ProgramWorks

(* A link that the thread has left is read to its end as it was written. *)
Left == link = "left" /\ at # "killed" => Whole(o2d) /\ (dpc \in Naming => o2d # <<>>)

LEMMA LeftNext == ASSUME LInv, Ends, Left, [Next]_vars PROVE Left'
<1> SUFFICES ASSUME link' = "left", at' # "killed"
             PROVE  Whole(o2d') /\ (dpc' \in Naming => o2d' # <<>>)
  BY DEF Left
<1>1. o2d \in Seq(Package) /\ Named(o2d)
  BY DEF LInv, Stream
<1>2. ASSUME link = "left", at # "killed", o2d' = o2d, dpc' = dpc \/ dpc' = "off"
      PROVE  Whole(o2d') /\ (dpc' \in Naming => o2d' # <<>>)
  BY <1>2 DEF Left, Naming
<1>3. CASE UNCHANGED vars
  BY <1>2, <1>3 DEF vars, wire, overlord, program
<1>4. CASE Connect \/ Reset \/ OverlordKilled
  BY <1>4 DEF Connect, Reset, OverlordKilled
<1>5. CASE Asks \/ Ping \/ SendArchive \/ SendSource \/ ReadList \/ Pong \/ ReadCode
           \/ ReadText \/ NoArchive
  <2>1. thread /\ link' = link
    BY <1>5 DEF Asks, AskImport, AskDestroy, AskJudge, Ask, Ping, SendArchive, SendSource,
       SendFile, ReadList, Pong, ReadCode, ReadText, NoArchive, wire
  <2> QED
    BY <2>1 DEF Ends
<1>6. CASE Leaves
  <2>1. thread /\ UNCHANGED <<o2d, dpc>> /\ (link = "up" \/ link = "left")
    BY <1>6 DEF Leaves, LeaveDone, LeaveBroken, LeaveOutOfStep, SourceMissing, ThreadEnds, program
  <2>2. link = "up"
    BY <2>1 DEF Ends
  <2> QED
    BY <2>1, <2>2 DEF LInv, Stream, Naming
<1>7. CASE ProgramWorks /\ ~LinkDown
  <2>1. link = "left" /\ at # "killed"
    BY <1>7, ProgramKeeps
  <2>2. Whole(o2d) /\ (dpc \in Naming => o2d # <<>>)
    BY <2>1 DEF Left
  <2>3. o2d # <<>> => /\ Tail(o2d) \in Seq(Package) /\ Whole(Tail(o2d)) /\ Named(Tail(o2d))
                      /\ Head(o2d) \in Request => Tail(o2d) # <<>>
    BY <1>1, <2>2, NamedTail
  <2>4. o2d # <<>> => Whole(<<"rest">> \o Tail(o2d))
    <3>1. <<"rest">> \in Seq(Package) /\ Named(<<"rest">>) /\ Whole(<<"rest">>)
      BY Words, NamedOne
    <3> QED
      BY <2>3, <3>1, NamedConcat
  <2>5. dpc' \in Naming => dpc = "command" /\ o2d # <<>> /\ o2d' = Tail(o2d) /\ Head(o2d) \in Request
    BY <1>7, ProgramWays DEF Naming, Working
  <2>6. o2d' = o2d \/ (o2d # <<>> /\ (o2d' = Tail(o2d) \/ o2d' = <<"rest">> \o Tail(o2d)))
    BY <1>7, ProgramTakes
  <2> QED
    BY <2>2, <2>3, <2>4, <2>5, <2>6
<1>8. CASE LinkDown \/ Killed
  <2>1. dpc' = "off" /\ o2d' = o2d /\ link = "left" /\ at # "killed"
    BY <1>8, EndKeeps
  <2> QED
    BY <1>2, <2>1
<1> QED
  BY <1>3, <1>4, <1>5, <1>6, <1>7, <1>8, NextWays

-----------------------------------------------------------------------------
(***************************************************************************)
(* In step: the disk is as the overlord was told, but for the entry of the *)
(* request under way.                                                      *)
(***************************************************************************)
Active == thread \/ dpc # "off"

Disk == ~skew =>
    /\ ~Active => seen = disk
    /\ Active =>
          /\ \A e \in Entry \ {entry} : disk[e] = seen[e]
          /\ at \in {"listing", "waiting", "pinging", "sending", "judging"}
             => disk[entry] = seen[entry]
          /\ at \in {"opening", "destroying"}
             => disk[entry] \in {seen[entry], "absent", "broken"}

(* What the program does to the disk. *)
LEMMA DiskWays ==
    ASSUME LInv, Route, Kind, ProgramWorks, ~LinkDown, ~skew
    PROVE  \/ disk' = disk
           \/ \E s \in DirState :
                 /\ disk' = [disk EXCEPT ![entry] = s]
                 /\ \/ at \in {"importing", "killed"}
                    \/ at \in {"opening", "destroying"} /\ s \in {"absent", "broken"}
<1>1. dpc # "off"
  BY ProgramKeeps
<1>2. /\ entry \in Entry /\ o2d \in Seq(Package)
      /\ dpc \in HasName => name = entry
      /\ Routed(o2d, dpc, entry)
      /\ at # "killed" => dpc \in {"command"} \cup HandlerOf(at)
  BY <1>1 DEF LInv, TypeOK, Route, Kind
<1>3. CASE Command \/ Text \/ JudgeLang \/ JudgeName \/ JudgeSource
  BY <1>3 DEF Command, Text, JudgeLang, JudgeName, JudgeSource
<1>4. CASE ImportName \/ DestroyName
  <2>1. dpc \in Naming /\ o2d # <<>>
        /\ dpc \in {"importName", "destroyName"}
    BY <1>4 DEF ImportName, DestroyName, ReadName, Naming
  <2>2. Head(o2d) \in Entry => Head(o2d) = entry
    BY <1>2, <2>1, RoutedTail
  <2>3. disk' = disk \/ disk' = [disk EXCEPT ![entry] = "broken"]
    BY <1>2, <1>4, <2>2 DEF ImportName, DestroyName, Become
  <2>4. at \in {"opening", "importing", "destroying", "killed"}
    BY <1>2, <2>1 DEF HandlerOf
  <2> QED
    BY <2>3, <2>4 DEF DirState
<1>5. CASE ImportArchive \/ \E s \in DirState : ImportEnds(s)
  <2>1. dpc \in {"importArchive", "importing"} /\ name = entry
    BY <1>2, <1>5 DEF ImportArchive, ImportEnds, HasName, Working
  <2>2. \E s \in DirState : disk' = [disk EXCEPT ![entry] = s]
    BY <1>2, <1>5, <2>1 DEF ImportArchive, ImportEnds, Become, DirState
  <2>3. at \in {"importing", "killed"} \/ (at = "opening" /\ dpc = "importArchive")
    <3>1. CASE at # "killed"
      <4>1. dpc \in HandlerOf(at)
        BY <1>2, <2>1, <3>1
      <4> QED
        BY <2>1, <4>1 DEF HandlerOf
    <3> QED
      BY <3>1
  <2>4. ASSUME at = "opening", dpc = "importArchive"  PROVE FALSE
    <3>1. Len(o2d) <= 0 /\ o2d # <<>>
      BY <1>1, <1>5, <2>4 DEF Kind, Room, ImportArchive, ImportEnds
    <3> QED
      BY <1>2, <3>1, EmptySeq, LenProperties
  <2> QED
    BY <2>2, <2>3, <2>4
<1>6. ASSUME NEW answer \in {"zero", "code"}, DestroyEnds(answer) \/ JudgeEnds(answer)
      PROVE  disk' = disk \/ (disk' = [disk EXCEPT ![entry] = "absent"] /\ at \in {"destroying", "killed"})
  <2>1. CASE JudgeEnds(answer)
    <3>1. disk' = disk
      BY <2>1 DEF JudgeEnds
    <3> QED
      BY <3>1
  <2>2. CASE DestroyEnds(answer)
    <3>1. dpc = "destroying" /\ name = entry /\ at \in {"destroying", "killed"}
      BY <1>2, <2>2 DEF DestroyEnds, HasName, Working, HandlerOf
    <3> QED
      BY <1>2, <2>2, <3>1 DEF DestroyEnds, Become
  <2> QED
    BY <1>6, <2>1, <2>2
<1> QED
  BY <1>3, <1>4, <1>5, <1>6 DEF ProgramWorks, DirState

LEMMA DownWays ==
    ASSUME LInv, Ends, Route, Kind, LinkDown, ~skew
    PROVE  \/ disk' = disk
           \/ /\ disk' = [disk EXCEPT ![entry] = "absent"] /\ at \in {"opening", "importing", "killed"}
              /\ dpc \in {"importArchive", "importing", "importText"}
           \/ disk' = Nothing /\ ~thread /\ link = "left" /\ dpc = "importName" /\ o2d = <<>>
<1>1. dpc # "off" /\ link \in {"left", "reset"}
  BY DEF LinkDown, ProgramEnds
<1>2. /\ entry \in Entry
      /\ dpc \in HasName => name = entry
      /\ at # "killed" => dpc \in {"command"} \cup HandlerOf(at)
  BY <1>1 DEF LInv, TypeOK, Route, Kind
<1>3. CASE dpc = "importName" /\ link = "left"
  BY <1>3 DEF LinkDown, Ends, Reading
<1>4. CASE dpc \in {"importArchive", "importing", "importText"}
  <2>1. name = entry /\ at \in {"opening", "importing", "killed"}
    BY <1>2, <1>4 DEF HasName, Working, HandlerOf
  <2> QED
    BY <1>2, <1>4, <2>1 DEF LinkDown, Become
<1>5. CASE ~(dpc = "importName" /\ link = "left") /\ dpc \notin {"importArchive", "importing", "importText"}
  BY <1>5 DEF LinkDown
<1> QED
  BY <1>3, <1>4, <1>5

LEMMA DiskNext ==
    ASSUME LInv, Ends, Route, Kind, Disk, [Next]_vars
    PROVE  Disk'
<1> SUFFICES ASSUME ~skew'  PROVE Disk'
  BY DEF Disk
<1>1. disk \in [Entry -> DirState] /\ seen \in [Entry -> DirState] /\ entry \in Entry
  BY DEF LInv, TypeOK
<1>2. ASSUME ~skew, Active, Active', UNCHANGED <<disk, seen, entry>>,
             at' \in {"listing", "waiting", "pinging", "sending", "judging"}
             => at \in {"listing", "waiting", "pinging", "sending", "judging"},
             at' \in {"opening", "destroying"} => at' = at
      PROVE  Disk'
  BY <1>2 DEF Disk
<1>3. ASSUME ~Active', seen' = disk'  PROVE Disk'
  BY <1>3 DEF Disk
<1>4. CASE UNCHANGED vars
  BY <1>4 DEF vars, wire, overlord, program, history, Disk, Active
<1>5. CASE Connect
  <2>1. seen' = disk /\ disk' = disk
    BY <1>5 DEF Connect
  <2> QED
    BY <2>1 DEF Disk
<1>6. CASE Asks
  <2>1. /\ thread /\ at = "waiting" /\ ~skew /\ UNCHANGED <<disk, seen>> /\ entry' \in Entry
    BY <1>6 DEF Asks, AskImport, AskDestroy, AskJudge, Ask, program, history
  <2>2. \A e \in Entry : disk'[e] = seen'[e]
    BY <2>1 DEF Disk, Active
  <2>3. thread'
    BY <1>6 DEF Asks, AskImport, AskDestroy, AskJudge, Ask
  <2> QED
    BY <2>1, <2>2, <2>3 DEF Disk, Active
<1>7. CASE Ping \/ SendArchive \/ SendSource \/ ReadList \/ Pong \/ ReadCode
  <2>1. /\ thread /\ thread' /\ ~skew /\ UNCHANGED <<disk, seen, entry>>
        /\ \/ at = "waiting" /\ at' = "pinging"
           \/ at = "opening" /\ at' = "importing"
           \/ at = "sending" /\ at' = "judging"
           \/ at = "listing" /\ at' = "waiting"
           \/ at = "pinging" /\ at' = "waiting"
           \/ at' = at
    BY <1>7 DEF Ping, SendArchive, SendSource, SendFile, ReadList, Pong, ReadCode, program, history
  <2> QED
    BY <1>2, <2>1 DEF Active
<1>8. CASE ReadText
  <2>1. seen' = disk /\ disk' = disk
    BY <1>8 DEF ReadText, program
  <2> QED
    BY <2>1 DEF Disk
<1>9. CASE NoArchive
  BY <1>9 DEF NoArchive
<1>10. CASE Leaves \/ OverlordKilled
  <2>1. /\ thread /\ ~thread' /\ ~skew /\ UNCHANGED <<disk, entry, dpc>>
        /\ at' = at \/ at' = "killed"
        /\ seen' = IF dpc # "off" THEN seen ELSE disk
    BY <1>10 DEF Leaves, LeaveDone, LeaveBroken, LeaveOutOfStep, SourceMissing, OverlordKilled,
       ThreadEnds, SeenAtEnd, program
  <2> QED
    BY <1>2, <1>3, <2>1 DEF Active
<1>11. CASE ProgramWorks /\ ~LinkDown
  <2>1. ~skew /\ Active /\ Active' /\ UNCHANGED <<entry, seen, at>>
    BY <1>11, ProgramKeeps DEF Active
  <2>2. CASE disk' = disk
    BY <1>2, <2>1, <2>2
  <2>3. ASSUME NEW s \in DirState, disk' = [disk EXCEPT ![entry] = s],
               \/ at \in {"importing", "killed"}
               \/ at \in {"opening", "destroying"} /\ s \in {"absent", "broken"}
        PROVE  Disk'
    <3>1. disk'[entry] = s /\ \A e \in Entry \ {entry} : disk'[e] = disk[e]
      BY <1>1, <2>3
    <3> QED
      BY <2>1, <2>3, <3>1 DEF Disk
  <2> QED
    BY <1>11, <2>1, <2>2, <2>3, DiskWays
<1>12. CASE LinkDown \/ Killed
  <2>1. /\ dpc # "off" /\ dpc' = "off" /\ ~skew /\ UNCHANGED <<thread, at, entry>>
        /\ seen' = IF thread THEN seen ELSE disk'
    BY <1>12, EndKeeps DEF SeenAtEnd
  <2>2. CASE ~thread
    BY <1>3, <2>1, <2>2 DEF Active
  <2>3. CASE thread /\ disk' = disk
    BY <1>2, <2>1, <2>3 DEF Active
  <2>4. CASE thread /\ disk' = [disk EXCEPT ![entry] = "absent"] /\ at \in {"opening", "importing", "killed"}
    <3>1. disk'[entry] = "absent" /\ \A e \in Entry \ {entry} : disk'[e] = disk[e]
      BY <1>1, <2>4
    <3> QED
      BY <2>1, <2>4, <3>1 DEF Disk, Active
  <2> QED
    BY <1>12, <2>1, <2>2, <2>3, <2>4, DownWays DEF Killed
<1>13. CASE Reset
  <2>1. UNCHANGED <<disk, seen, entry, at, thread, dpc, skew>>
    BY <1>13 DEF Reset, overlord, program, history
  <2> QED
    BY <2>1 DEF Disk, Active
<1> QED
  BY <1>4, <1>5, <1>6, <1>7, <1>8, <1>9, <1>10, <1>11, <1>12, <1>13, NextWays

(* A list names every directory. *)
LEMMA ListAll ==
    ASSUME NEW S \in SUBSET Entry
    PROVE  /\ SetToSeq(S) \in Seq(S)
           /\ {SetToSeq(S)[j] : j \in 1..Len(SetToSeq(S))} = S
<1> DEFINE n == Cardinality(S)
           t == SetToSeq(S)
<1>1. IsFiniteSet(S)
  BY CallsAssumption, FS_Subset
<1>2. n \in Nat /\ ExistsBijection(1..n, S)
  BY <1>1, FS_CardinalityType
<1>3. \E f \in [1..n -> S] : IsInjective(f)
  BY <1>2 DEF ExistsBijection, Bijection, Injection
<1>4. t \in [1..n -> S] /\ IsInjective(t)
  BY <1>3 DEF SetToSeq
<1> HIDE DEF t
<1>5. t \in Injection(1..n, S)
  BY <1>4 DEF Injection
<1>6. Cardinality(1..n) = n
  BY <1>2, FS_Interval
<1>7. t \in Surjection(1..n, S)
  BY <1>1, <1>5, <1>6, FS_Injection
<1>8. \A e \in S : \E j \in 1..n : t[j] = e
  BY <1>7 DEF Surjection
<1>9. t \in Seq(S) /\ Len(t) = n
  BY <1>2, <1>4
<1>10. {t[j] : j \in 1..n} = S
  BY <1>4, <1>8
<1> QED
  BY <1>9, <1>10 DEF t

-----------------------------------------------------------------------------
(***************************************************************************)
(* While the list is read: its end tells that the overlord knows all.      *)
(***************************************************************************)
Known(s, K, D) ==
    \A k \in 1..Len(s) :
        s[k] = "end" => k = Len(s) /\ D = K \cup {s[j] : j \in 1..(k - 1)}

Listen == thread /\ at = "listing" =>
    /\ d2o # <<>> => o2d = <<>>
    /\ o2d # <<>> => known = {}
    /\ Known(d2o, known, Directories)

LEMMA KnownTail ==
    ASSUME NEW s \in Seq(Listed), s # <<>>, NEW K, NEW D, Known(s, K, D)
    PROVE  /\ Head(s) = "end" => D = K /\ Tail(s) = <<>>
           /\ Head(s) # "end" => Known(Tail(s), K \cup {Head(s)}, D)
<1> DEFINE t == Tail(s)
<1>1. /\ Len(s) \in Nat \ {0} /\ Head(s) = s[1] /\ t \in Seq(Listed) /\ Len(t) = Len(s) - 1
      /\ \A k \in 1..(Len(s) - 1) : t[k] = s[k + 1]
  BY TailAt
<1>2. t = <<>> <=> Len(t) = 0
  BY <1>1, EmptySeq
<1> HIDE DEF t
<1>3. ASSUME Head(s) = "end"  PROVE D = K /\ t = <<>>
  <2>1. 1 = Len(s) /\ D = K \cup {s[j] : j \in 1..(1 - 1)}
    BY <1>1, <1>3 DEF Known
  <2>2. {s[j] : j \in 1..(1 - 1)} = {}
    OBVIOUS
  <2> QED
    BY <1>1, <1>2, <2>1, <2>2
<1>4. ASSUME NEW k \in 1..Len(t), t[k] = "end"
      PROVE  k = Len(t) /\ D = (K \cup {Head(s)}) \cup {t[j] : j \in 1..(k - 1)}
  <2>1. k + 1 \in 1..Len(s) /\ s[k + 1] = "end" /\ (k + 1) - 1 = k
    BY <1>1, <1>4
  <2>2. k + 1 = Len(s) /\ D = K \cup {s[j] : j \in 1..((k + 1) - 1)}
    BY <2>1 DEF Known
  <2>3. {s[j] : j \in 1..((k + 1) - 1)} = {Head(s)} \cup {t[j] : j \in 1..(k - 1)}
    <3>1. ASSUME NEW j \in 1..k
          PROVE  s[j] \in {Head(s)} \cup {t[i] : i \in 1..(k - 1)}
      <4>1. CASE j = 1
        BY <1>1, <4>1
      <4>2. CASE j # 1
        <5>1. j - 1 \in 1..(k - 1) /\ j - 1 \in 1..(Len(s) - 1) /\ (j - 1) + 1 = j
          BY <1>1, <1>4, <4>2
        <5>2. t[j - 1] = s[j]
          BY <1>1, <5>1
        <5> QED
          BY <5>1, <5>2
      <4> QED
        BY <4>1, <4>2
    <3>2. ASSUME NEW j \in 1..(k - 1)  PROVE t[j] \in {s[i] : i \in 1..k}
      <4>1. j + 1 \in 1..k /\ t[j] = s[j + 1]
        BY <1>1, <1>4
      <4> QED
        BY <4>1
    <3>3. Head(s) \in {s[i] : i \in 1..k}
      BY <1>1
    <3> QED
      BY <2>1, <3>1, <3>2, <3>3
  <2>4. k = Len(t)
    BY <1>1, <1>4, <2>2
  <2>5. D = (K \cup {Head(s)}) \cup {t[j] : j \in 1..(k - 1)}
    BY <2>2, <2>3, Zenon
  <2> QED
    BY <2>4, <2>5
<1> QED
  BY <1>3, <1>4 DEF Known, t

LEMMA KnownCut ==
    ASSUME NEW S, NEW s \in Seq(S), NEW n \in 0..Len(s), NEW K, NEW D, Known(s, K, D)
    PROVE  Known(SubSeq(s, 1, n), K, D)
<1> DEFINE t == SubSeq(s, 1, n)
<1>1. Len(s) \in Nat
  BY LenProperties
<1>2. Len(t) = n /\ \A k \in 1..n : t[k] = s[k]
  BY <1>1, SubSeqProperties
<1> HIDE DEF t
<1>3. ASSUME NEW k \in 1..n, t[k] = "end"
      PROVE  k = n /\ D = K \cup {t[j] : j \in 1..(k - 1)}
  <2>1. k = Len(s) /\ D = K \cup {s[j] : j \in 1..(k - 1)}
    BY <1>1, <1>2, <1>3 DEF Known
  <2>2. {s[j] : j \in 1..(k - 1)} = {t[j] : j \in 1..(k - 1)}
    BY <1>1, <1>2
  <2>3. k = n
    BY <1>1, <1>3, <2>1
  <2> QED
    BY <2>1, <2>2, <2>3
<1> QED
  BY <1>2, <1>3 DEF Known, t

LEMMA KnownAll ==
    ASSUME NEW S \in SUBSET Entry
    PROVE  /\ Known(SetToSeq(S) \o <<"end">>, {}, S)
           /\ Known(<<>>, {}, S)
<1> DEFINE s == SetToSeq(S)
           t == s \o <<"end">>
<1>1. s \in Seq(S) /\ {s[j] : j \in 1..Len(s)} = S /\ S \subseteq Listed /\ "end" \in Listed
  BY ListAll DEF Listed
<1>2. s \in Seq(Listed)
  BY <1>1
<1> HIDE DEF s
<1>3. /\ Len(t) = Len(s) + 1 /\ Len(s) \in Nat
      /\ \A k \in 1..Len(s) : t[k] = s[k]
  BY <1>1, <1>2, AppendAt
<1>4. \A k \in 1..Len(s) : s[k] # "end"
  <2>1. "end" \notin Entry
    BY NameAssumption DEF Answer
  <2> QED
    BY <1>1, <2>1, ElementOfSeq
<1> HIDE DEF t
<1>5. Known(t, {}, S)
  <2>1. ASSUME NEW k \in 1..Len(t), t[k] = "end"
        PROVE  k = Len(t) /\ S = {} \cup {t[j] : j \in 1..(k - 1)}
    <3>1. k = Len(s) + 1
      BY <1>3, <1>4, <2>1
    <3>2. {t[j] : j \in 1..(k - 1)} = {s[j] : j \in 1..Len(s)}
      BY <1>3, <3>1
    <3> QED
      BY <1>1, <1>3, <3>1, <3>2
  <2> QED
    BY <2>1 DEF Known
<1>6. Known(<<>>, {}, S)
  BY DEF Known
<1> QED
  BY <1>5, <1>6 DEF t, s

LEMMA CutAt ==
    ASSUME NEW S, NEW s \in Seq(S), NEW n \in 0..Len(s)
    PROVE  /\ SubSeq(s, 1, n) \in Seq(S) /\ Len(SubSeq(s, 1, n)) = n /\ Len(s) \in Nat
           /\ \A k \in 1..n : SubSeq(s, 1, n)[k] = s[k]
           /\ SubSeq(s, 1, n) # <<>> => s # <<>> /\ Head(SubSeq(s, 1, n)) = Head(s)
<1> DEFINE t == SubSeq(s, 1, n)
<1>1. Len(s) \in Nat
  BY LenProperties
<1>2. t \in Seq(S) /\ Len(t) = n /\ \A k \in 1..n : t[k] = s[k]
  BY <1>1, SubSeqProperties
<1>3. /\ s # <<>> => Head(s) = s[1]
      /\ t # <<>> => Head(t) = t[1]
      /\ s = <<>> <=> Len(s) = 0
      /\ t = <<>> <=> Len(t) = 0
  BY <1>2, HeadTailProperties, EmptySeq
<1> HIDE DEF t
<1>4. n # 0 => t[1] = s[1]
  BY <1>1, <1>2
<1> QED
  BY <1>1, <1>2, <1>3, <1>4 DEF t

LEMMA ListenNext == ASSUME LInv, Ends, Listen, [Next]_vars PROVE Listen'
<1> SUFFICES ASSUME thread', at' = "listing"
             PROVE  /\ d2o' # <<>> => o2d' = <<>>
                    /\ o2d' # <<>> => known' = {}
                    /\ Known(d2o', known', Directories')
  BY DEF Listen
<1>1. Directories \in SUBSET Entry
  BY DEF Directories
<1>2. ASSUME thread, at = "listing", UNCHANGED <<o2d, d2o, known, disk>>
      PROVE  /\ d2o' # <<>> => o2d' = <<>>
             /\ o2d' # <<>> => known' = {}
             /\ Known(d2o', known', Directories')
  BY <1>2 DEF Listen, Directories
<1>3. CASE UNCHANGED vars
  BY <1>2, <1>3 DEF vars, wire, overlord, program
<1>4. CASE Connect
  <2>1. d2o' = <<>> /\ known' = {} /\ Directories' = Directories
    BY <1>4 DEF Connect, Directories
  <2> QED
    BY <1>1, <2>1, KnownAll
<1>5. CASE Asks \/ Ping \/ Pong \/ SendArchive \/ SendSource \/ ReadCode \/ ReadText \/ NoArchive
           \/ Leaves \/ OverlordKilled
  <2>1. at' # "listing" \/ ~thread'
    BY <1>5 DEF Asks, AskImport, AskDestroy, AskJudge, Ask, Ping, Pong, SendArchive, SendSource,
       SendFile, ReadCode, ReadText, NoArchive, Leaves, LeaveDone, LeaveBroken, LeaveOutOfStep,
       SourceMissing, OverlordKilled, ThreadEnds
  <2> QED
    BY <2>1
<1>6. CASE ReadList
  <2>1. /\ thread /\ at = "listing" /\ d2o # <<>> /\ d2o' = Tail(d2o) /\ o2d' = o2d
        /\ Head(d2o) # "end" /\ known' = known \cup {Head(d2o)} /\ Directories' = Directories
    BY <1>6 DEF ReadList, program, Directories
  <2>2. d2o \in Seq(Listed) /\ Known(d2o, known, Directories) /\ o2d = <<>>
    BY <2>1 DEF LInv, Listing, Listen
  <2> QED
    BY <2>1, <2>2, KnownTail
<1>7. CASE ProgramWorks /\ ~LinkDown
  <2>1. /\ thread /\ at = "listing" /\ known' = known
    BY <1>7, ProgramKeeps
  <2>2. dpc \in {"command", "off"} /\ o2d \in {<<>>, <<"list">>}
    BY <2>1 DEF LInv, Listing
  <2>3. Command
    BY <1>7, <2>2 DEF ProgramWorks, ImportName, ImportArchive, ImportEnds, DestroyName, DestroyEnds,
       JudgeName, JudgeLang, JudgeSource, JudgeEnds, Text, ReadName
  <2>4. o2d = <<"list">> /\ Head(o2d) = "list" /\ Tail(o2d) = <<>> /\ o2d # <<>>
    <3>1. o2d # <<>>
      BY <2>3 DEF Command
    <3>2. o2d = <<"list">>
      BY <2>2, <3>1
    <3> QED
      BY <3>1, <3>2
  <2>5. o2d' = <<>> /\ Answers(SetToSeq(Directories) \o <<"end">>) /\ Directories' = Directories
    <3>1. o2d' = <<>>
      BY <2>3, <2>4 DEF Command
    <3>2. Head(o2d) = "list" => Answers(SetToSeq(Directories) \o <<"end">>)
      BY <2>3 DEF Command, Request
    <3>3. disk' = disk
      BY <2>3 DEF Command
    <3> QED
      BY <2>4, <3>1, <3>2, <3>3 DEF Directories
  <2>6. d2o = <<>> /\ known = {}
    BY <2>1, <2>4 DEF Listen
  <2>7. d2o' = <<>> \/ d2o' = SetToSeq(Directories) \o <<"end">>
    <3>1. SetToSeq(Directories) \o <<"end">> \in Seq(Listed)
      <4>1. SetToSeq(Directories) \in Seq(Directories)
        BY <1>1, ListSeq
      <4>2. Directories \subseteq Listed /\ "end" \in Listed
        BY <1>1 DEF Listed
      <4>3. SetToSeq(Directories) \in Seq(Listed)
        BY <4>1, <4>2
      <4> QED
        BY <4>2, <4>3, AppendAt
    <3> QED
      BY <2>5, <2>6, <3>1, ConcatEmptySeq DEF Answers
  <2> QED
    BY <1>1, <2>1, <2>5, <2>6, <2>7, KnownAll
<1>8. CASE LinkDown \/ Killed
  <2>1. thread /\ at = "listing" /\ UNCHANGED <<o2d, d2o, known>> /\ dpc # "off"
    BY <1>8, EndKeeps
  <2>2. dpc = "command"
    BY <2>1 DEF LInv, Listing
  <2>3. disk' = disk
    BY <1>8, <2>2 DEF LinkDown, Killed
  <2> QED
    BY <1>2, <2>1, <2>3
<1>9. CASE Reset
  <2>1. UNCHANGED <<thread, at, known, disk>>
    BY <1>9 DEF Reset, overlord, program
  <2>2. PICK n \in 0..Len(d2o) : d2o' = SubSeq(d2o, 1, n)
    BY <1>9 DEF Reset
  <2>3. PICK m \in 0..Len(o2d) : o2d' = SubSeq(o2d, 1, m)
    BY <1>9 DEF Reset
  <2>4. d2o \in Seq(Package) /\ o2d \in Seq(Package)
    BY DEF LInv, TypeOK
  <2>5. d2o' # <<>> => d2o # <<>>
    BY <2>2, <2>4, CutAt
  <2>6. o2d' # <<>> => o2d # <<>>
    BY <2>3, <2>4, CutAt
  <2>7. /\ d2o # <<>> => o2d = <<>>
        /\ o2d # <<>> => known = {}
        /\ Known(d2o, known, Directories) /\ Directories' = Directories
    BY <2>1 DEF Listen, Directories
  <2> QED
    BY <2>1, <2>2, <2>4, <2>5, <2>6, <2>7, KnownCut
<1> QED
  BY <1>3, <1>4, <1>5, <1>6, <1>7, <1>8, <1>9, NextWays

(* One more answer, unless the link is down. *)
Grown(u) ==
    IF link = "up"
    THEN /\ Len(d2o') = Len(d2o) + 1 /\ d2o' # <<>>
         /\ Head(d2o') = IF d2o = <<>> THEN u ELSE Head(d2o)
    ELSE d2o' = d2o

LEMMA ConcatHead ==
    ASSUME NEW S, NEW s \in Seq(S), NEW v \in Seq(S)
    PROVE  /\ Len(s \o v) = Len(s) + Len(v) /\ Len(s) \in Nat /\ Len(v) \in Nat
           /\ s # <<>> => s \o v # <<>> /\ Head(s \o v) = Head(s)
           /\ s = <<>> => s \o v = v
<1> DEFINE t == s \o v
<1>1. /\ Len(s) \in Nat /\ Len(v) \in Nat /\ t \in Seq(S) /\ Len(t) = Len(s) + Len(v)
      /\ \A k \in 1..Len(t) : t[k] = IF k <= Len(s) THEN s[k] ELSE v[k - Len(s)]
  BY ConcatProperties, LenProperties
<1>2. s = <<>> => t = v
  BY ConcatEmptySeq
<1> HIDE DEF t
<1>3. ASSUME s # <<>>  PROVE t # <<>> /\ Head(t) = Head(s)
  <2>1. Len(s) # 0 /\ Head(s) = s[1]
    BY <1>3, EmptySeq, HeadTailProperties
  <2>2. Len(t) # 0 /\ t[1] = s[1]
    BY <1>1, <2>1
  <2>3. t # <<>>
    BY <1>1, <2>2, EmptySeq
  <2> QED
    BY <1>1, <2>1, <2>2, <2>3, HeadTailProperties
<1> QED
  BY <1>1, <1>2, <1>3 DEF t

LEMMA AnswersOne ==
    ASSUME d2o \in Seq(Package), NEW u \in Package, Answers(<<u>>)  PROVE Grown(u)
<1>1. <<u>> \in Seq(Package) /\ Len(<<u>>) = 1 /\ <<u>> # <<>> /\ Head(<<u>>) = u
  OBVIOUS
<1>2. CASE link # "up"
  BY <1>2 DEF Answers, Grown
<1>3. CASE link = "up"
  <2>1. d2o' = d2o \o <<u>>
    BY <1>3 DEF Answers
  <2>2. Len(d2o') = Len(d2o) + 1
    BY <1>1, <2>1, ConcatHead
  <2>3. CASE d2o = <<>>
    <3>1. d2o' = <<u>>
      BY <1>1, <2>1, <2>3, ConcatHead
    <3> QED
      BY <1>1, <1>3, <2>2, <2>3, <3>1 DEF Grown
  <2>4. CASE d2o # <<>>
    <3>1. d2o' # <<>> /\ Head(d2o') = Head(d2o)
      BY <1>1, <2>1, <2>4, ConcatHead
    <3> QED
      BY <1>3, <2>2, <2>4, <3>1 DEF Grown
  <2> QED
    BY <2>3, <2>4
<1> QED
  BY <1>2, <1>3

GoesOn ==
    /\ d2o' = d2o /\ Begun
    /\ dpc' \notin {"command", "importText", "text", "off"}

AnswersAny ==
    /\ dpc = "command" /\ ~Asked(o2d) /\ o2d # <<>> /\ dpc' = "command" /\ disk' = disk
    /\ o2d' = Tail(o2d)
    /\ IF link = "up"
       THEN Len(d2o') >= Len(d2o) + 1 /\ (d2o # <<>> => d2o' # <<>> /\ Head(d2o') = Head(d2o))
       ELSE d2o' = d2o

AnswersCode ==
    /\ dpc \in {"judgeLang", "importing", "destroying", "judging"}
    /\ dpc' \in {"importText", "text"}
    /\ \E u \in {"zero", "code"} : Grown(u)

AnswersText ==
    /\ dpc \in {"importText", "text"} /\ dpc' = "command"
    /\ Grown("text")
    /\ disk' = disk /\ o2d' = o2d

LEMMA AnswerWays ==
    ASSUME LInv, ProgramWorks, ~LinkDown
    PROVE  GoesOn \/ AnswersAny \/ AnswersCode \/ AnswersText
<1>1. o2d \in Seq(Package) /\ d2o \in Seq(Package)
  BY DEF LInv, TypeOK
<1>2. CASE Command
  <2>1. CASE Head(o2d) \in Request
    BY <1>2, <2>1 DEF Command, GoesOn, Begun, Asked, Handler, Request
  <2>2. CASE Head(o2d) \notin Request
    <3>1. /\ dpc = "command" /\ ~Asked(o2d) /\ o2d # <<>> /\ dpc' = "command" /\ disk' = disk
          /\ o2d' = Tail(o2d)
      BY <1>2, <2>2 DEF Command, Asked, Request
    <3>2. \E v \in Seq(Package) : Len(v) >= 1 /\ Answers(v)
      <4>1. ASSUME NEW w \in {"pong", "invalid"}, Answers(<<w>>)
            PROVE  \E v \in Seq(Package) : Len(v) >= 1 /\ Answers(v)
        <5>1. <<w>> \in Seq(Package) /\ Len(<<w>>) >= 1
          BY Words
        <5> QED
          BY <4>1, <5>1, Zenon
      <4>2. /\ SetToSeq(Directories) \o <<"end">> \in Seq(Package)
            /\ Len(SetToSeq(Directories) \o <<"end">>) >= 1
        <5>1. Directories \in SUBSET Entry /\ Entry \subseteq Package /\ "end" \in Package
          BY Words DEF Directories
        <5>2. SetToSeq(Directories) \in Seq(Directories)
          BY <5>1, ListSeq
        <5>3. SetToSeq(Directories) \in Seq(Package)
          BY <5>1, <5>2
        <5> QED
          BY <5>1, <5>3, AppendAt
      <4>3. \/ Answers(SetToSeq(Directories) \o <<"end">>)
            \/ \E w \in {"pong", "invalid"} : Answers(<<w>>)
        BY <1>2, <2>2 DEF Command, InvalidCommand
      <4> QED
        BY <4>1, <4>2, <4>3
    <3>3. IF link = "up"
          THEN Len(d2o') >= Len(d2o) + 1 /\ (d2o # <<>> => d2o' # <<>> /\ Head(d2o') = Head(d2o))
          ELSE d2o' = d2o
      BY <1>1, <3>2, ConcatHead DEF Answers
    <3> QED
      BY <3>1, <3>3 DEF AnswersAny
  <2> QED
    BY <2>1, <2>2
<1>3. CASE ImportName \/ DestroyName \/ JudgeName \/ ImportArchive \/ JudgeSource
  BY <1>3 DEF ImportName, DestroyName, JudgeName, ReadName, ImportArchive, JudgeSource, GoesOn, Begun
<1>4. {"zero", "code", "text"} \subseteq Package
  BY Words
<1>5. CASE JudgeLang
  BY <1>1, <1>4, <1>5, AnswersOne DEF JudgeLang, GoesOn, Begun, AnswersCode
<1>6. ASSUME NEW x, ImportEnds(x) \/ DestroyEnds(x) \/ JudgeEnds(x),
             x \in {"zero", "code"} \/ ImportEnds(x)
      PROVE  AnswersCode
  <2>1. /\ \E u \in {"zero", "code"} : Answers(<<u>>)
        /\ dpc \in {"importing", "destroying", "judging"} /\ dpc' \in {"importText", "text"}
    BY <1>6 DEF ImportEnds, ImportCode, DestroyEnds, JudgeEnds
  <2> QED
    BY <1>1, <1>4, <2>1, AnswersOne DEF AnswersCode
<1>7. CASE Text
  <2>1. Answers(<<"text">>)
    BY <1>7 DEF Text, Message
  <2>2. disk' = disk /\ o2d' = o2d /\ dpc \in {"importText", "text"} /\ dpc' = "command"
    BY <1>7 DEF Text
  <2> QED
    BY <1>1, <1>4, <2>1, <2>2, AnswersOne DEF AnswersText
<1> QED
  BY <1>2, <1>3, <1>5, <1>6, <1>7 DEF ProgramWorks

-----------------------------------------------------------------------------
(* The thread and the program keep the count of answers. *)
LEMMA ToldType == ASSUME LInv PROVE Told \in Nat /\ Told' = Len(d2o') + (IF code' = "none" THEN 0 ELSE 1)
<1>1. Len(d2o) \in Nat
  BY LenProperties DEF LInv, TypeOK
<1> QED
  BY <1>1 DEF Told

LEMMA ToldGrows ==
    ASSUME LInv, code' = code
    PROVE  /\ Len(d2o') = Len(d2o) + 1 => Told' = Told + 1
           /\ Told = 1 /\ code = "none" => d2o # <<>>
<1>1. Len(d2o) \in Nat /\ (d2o = <<>> => Len(d2o) = 0)
  BY LenProperties DEF LInv, TypeOK
<1>2. ASSUME Len(d2o') = Len(d2o) + 1  PROVE Told' = Told + 1
  <2>1. CASE code = "none"
    <3>1. Told = Len(d2o) + 0 /\ Told' = Len(d2o') + 0
      BY <2>1 DEF Told
    <3> QED
      BY <1>1, <1>2, <3>1
  <2>2. CASE code # "none"
    <3>1. Told = Len(d2o) + 1 /\ Told' = Len(d2o') + 1
      BY <2>2 DEF Told
    <3> QED
      BY <1>1, <1>2, <3>1
  <2> QED
    BY <2>1, <2>2
<1>3. ASSUME Told = 1, code = "none"  PROVE d2o # <<>>
  <2>1. Told = Len(d2o) + 0
    BY <1>3 DEF Told
  <2> QED
    BY <1>1, <1>3, <2>1
<1> QED
  BY <1>2, <1>3

LEMMA AnsweringProgram ==
    ASSUME LInv, Ends, Route, Kind, Answered, ProgramWorks, ~LinkDown, thread, ~skew,
           at \in Calling
    PROVE  /\ Answering' /\ (at = "destroying" => Told' <= 2)
           /\ at = "opening" => d2o' = <<>>
<1>1. /\ UNCHANGED <<thread, link, at, code, entry>> /\ dpc # "off" /\ dpc' # "off"
  BY ProgramKeeps
<1>2. /\ o2d \in Seq(Package) /\ d2o \in Seq(Package)
      /\ Len(d2o) \in Nat /\ (d2o = <<>> <=> Len(d2o) = 0)
      /\ Told \in Nat /\ Told' = Len(d2o') + (IF code' = "none" THEN 0 ELSE 1)
      /\ Told = Len(d2o) + (IF code = "none" THEN 0 ELSE 1)
  BY EmptySeq, LenProperties, ToldType DEF LInv, TypeOK, Told
<1>3. /\ Answering /\ Routed(o2d, dpc, entry)
      /\ at = "destroying" => Told <= 2
      /\ at = "opening" => d2o = <<>>
      /\ dpc \in {"command"} \cup HandlerOf(at)
      /\ at \in {"opening", "destroying"} /\ dpc = "command" /\ link = "up"
         => Asked(o2d) \/ o2d = <<>>
  <2>1. /\ Answering
        /\ at = "destroying" => Told <= 2
        /\ at = "opening" => d2o = <<>>
    BY DEF Answered
  <2>2. Routed(o2d, dpc, entry)
    BY <1>1 DEF Route
  <2>3. at # "killed"
    BY DEF Calling
  <2>4. /\ dpc \in {"command"} \cup HandlerOf(at)
        /\ at \in {"opening", "sending", "destroying"} =>
              (dpc = "command" /\ link = "up" => Asked(o2d) \/ o2d = <<>>)
    BY <1>1, <2>3 DEF Kind
  <2> QED
    BY <2>1, <2>2, <2>4
<1>4. at = "opening" => code = "none" /\ Told = 0
  BY <1>2, <1>3 DEF Ends
<1>5. CASE GoesOn
  <2>1. Told = 0 /\ d2o' = d2o /\ Told' = Told
    BY <1>1, <1>2, <1>3, <1>5 DEF GoesOn, Answering
  <2>2. Answering'
    BY <1>1, <1>2, <1>5, <2>1 DEF GoesOn, Answering
  <2> QED
    BY <1>3, <2>1, <2>2
<1>6. CASE AnswersAny
  <2>1. ~Begun /\ ~Begun' /\ ~Asked(o2d') /\ dpc' = "command"
    <3>1. Bare(Tail(o2d)) /\ Tail(o2d) \in Seq(Package)
      <4>1. Head(o2d) \notin Request
        BY <1>6 DEF AnswersAny, Asked
      <4> QED
        BY <1>2, <1>3, <1>6, <4>1, RoutedTail, TailAt DEF AnswersAny
    <3>2. ~Asked(o2d')
      BY <1>6, <3>1, BareAsked DEF AnswersAny
    <3> QED
      BY <1>6, <3>2 DEF AnswersAny, Begun
  <2>2. CASE link = "up"
    <3>1. Told >= 2 /\ at # "destroying" /\ at # "opening"
      BY <1>3, <1>4, <1>6, <2>2 DEF AnswersAny, Answering
    <3>2. Told' >= 2 /\ (code = "none" => d2o # <<>>)
      BY <1>1, <1>2, <1>6, <2>2, <3>1 DEF AnswersAny
    <3>3. code' = "none" /\ d2o' # <<>> => Head(d2o') \in {"zero", "code"}
      BY <1>1, <1>3, <1>6, <2>2, <3>2 DEF AnswersAny, Answering
    <3> QED
      BY <2>1, <3>1, <3>2, <3>3 DEF Answering
  <2>3. CASE link # "up"
    <3>1. d2o' = d2o /\ Told' = Told
      BY <1>1, <1>2, <1>6, <2>3 DEF AnswersAny
    <3>2. Answering'
      BY <1>1, <1>3, <2>1, <2>3, <3>1 DEF Answering
    <3> QED
      BY <1>3, <3>1, <3>2
  <2> QED
    BY <2>2, <2>3
<1>7. CASE AnswersCode
  <2>1. Begun /\ Told = 0 /\ d2o = <<>> /\ code = "none"
    BY <1>1, <1>2, <1>3, <1>7 DEF AnswersCode, Begun, Answering
  <2>2. at # "opening"
    BY <1>3, <1>7 DEF AnswersCode, HandlerOf
  <2>3. ~Begun' /\ dpc' \in {"importText", "text"}
    BY <1>7 DEF AnswersCode, Begun
  <2>4. PICK u \in {"zero", "code"} : Grown(u)
    BY <1>7 DEF AnswersCode
  <2>5. Told' <= 1 /\ (link = "up" => Told' = 1)
        /\ (d2o' # <<>> => Head(d2o') = u)
    BY <1>1, <1>2, <2>1, <2>4 DEF Grown
  <2>6. Answering'
    BY <1>1, <2>3, <2>4, <2>5 DEF Answering
  <2> QED
    BY <1>1, <1>2, <2>2, <2>5, <2>6
<1>8. CASE AnswersText
  <2>1. at # "opening" /\ Told <= 1 /\ (link = "up" => Told = 1)
    BY <1>3, <1>8 DEF AnswersText, HandlerOf, Answering
  <2>2. ~Asked(o2d') /\ ~Begun' /\ dpc' = "command"
    <3>1. Bare(o2d)
      BY <1>3, <1>8, RoutedBare DEF AnswersText, Naming
    <3>2. ~Asked(o2d')
      BY <1>2, <1>8, <3>1, BareAsked DEF AnswersText
    <3> QED
      BY <1>8, <3>2 DEF AnswersText, Begun
  <2>3. CASE link = "up"
    <3>1. Told' = 2
      <4>1. Len(d2o') = Len(d2o) + 1
        BY <1>8, <2>3 DEF AnswersText, Grown
      <4>2. code' = code
        BY <1>1
      <4> QED
        BY <2>1, <2>3, <4>1, <4>2, ToldGrows
    <3>2. code = "none" => d2o # <<>> /\ Head(d2o') = Head(d2o)
      <4>1. code = "none" => d2o # <<>>
        BY <1>1, <2>1, <2>3, ToldGrows
      <4>2. Grown("text")
        BY <1>8 DEF AnswersText
      <4> QED
        BY <2>3, <4>1, <4>2 DEF Grown
    <3>3. code' = "none" /\ d2o' # <<>> => Head(d2o') \in {"zero", "code"}
      BY <1>1, <1>3, <3>2 DEF Answering
    <3> QED
      BY <2>1, <2>2, <3>1, <3>3 DEF Answering
  <2>4. CASE link # "up"
    <3>1. d2o' = d2o /\ Told' = Told
      BY <1>1, <1>2, <1>8, <2>4 DEF AnswersText, Grown
    <3> QED
      BY <1>1, <1>3, <2>1, <2>2, <2>4, <3>1 DEF Answering
  <2> QED
    BY <2>3, <2>4
<1> QED
  BY <1>5, <1>6, <1>7, <1>8, AnswerWays

LEMMA ToldSame ==
    ASSUME UNCHANGED <<d2o, code>>  PROVE Told' = Told
  BY DEF Told

LEMMA ToldNone ==
    ASSUME LInv, d2o = <<>>, code = "none"  PROVE Told = 0 /\ Told \in Nat
<1>1. Len(d2o) = 0
  BY LenProperties, EmptySeq
<1> QED
  BY <1>1 DEF Told

LEMMA AnsweredThread ==
    ASSUME LInv, Ends, Route, Kind, Answered, Listen,
           \/ Asks \/ Ping \/ SendArchive \/ SendSource \/ ReadList \/ Pong \/ ReadCode
           \/ ReadText \/ NoArchive
    PROVE  Answered'
<1> SUFFICES ASSUME thread', ~skew'
             PROVE  /\ at' \in Calling => Answering'
                    /\ at' = "opening" => d2o' = <<>>
                    /\ at' = "destroying" => Told' <= 2
                    /\ at' = "waiting" => d2o' = <<>> /\ (link' = "up" => Quiet')
                    /\ at' = "pinging" => /\ d2o' \in {<<>>, <<"pong">>}
                                          /\ link' = "up" => \/ o2d' = <<"ping">> /\ d2o' = <<>>
                                                             \/ o2d' = <<>> /\ d2o' = <<"pong">>
  BY DEF Answered
<1>1. thread /\ ~skew /\ o2d \in Seq(Package) /\ d2o \in Seq(Package)
  BY ThreadKeeps DEF LInv, TypeOK, ThreadWorks
<1>2. CASE Asks
  <2>1. /\ at = "waiting" /\ at' \in {"opening", "sending", "destroying"}
        /\ UNCHANGED <<link, d2o, code, dpc>>
    BY <1>2 DEF Asks, AskImport, AskDestroy, AskJudge, Ask, program
  <2>2. d2o' = <<>> /\ code' = "none" /\ d2o = <<>> /\ code = "none"
    BY <1>1, <2>1 DEF Answered, Ends
  <2>3. Told' = 0 /\ Told' \in Nat
    BY <2>2, ToldNone, ToldSame
  <2>4. dpc' \in {"command", "off"} /\ (dpc' = "command" /\ link' = "up" => Asked(o2d'))
    <3>1. CASE dpc = "off"
      BY <2>1, <3>1
    <3>2. CASE dpc # "off"
      BY <1>1, <1>2, <2>1, <3>2, AskWays
    <3> QED
      BY <3>1, <3>2
  <2>5. Answering'
    BY <2>2, <2>3, <2>4 DEF Answering
  <2> QED
    BY <2>1, <2>2, <2>3, <2>5
<1>3. CASE Ping
  <2>1. /\ at = "waiting" /\ at' = "pinging" /\ UNCHANGED <<link, d2o>> /\ Write(<<"ping">>)
    BY <1>3 DEF Ping
  <2>2. d2o' = <<>> /\ (link' = "up" => o2d = <<>> /\ o2d' = o2d \o <<"ping">>)
    BY <1>1, <2>1 DEF Answered, Quiet, Write
  <2>3. <<>> \o <<"ping">> = <<"ping">>
    <3>1. <<"ping">> \in Seq({"ping"})
      OBVIOUS
    <3> QED
      BY <3>1, ConcatEmptySeq
  <2> QED
    BY <2>1, <2>2, <2>3 DEF Calling
<1>4. CASE SendArchive \/ SendSource
  <2>1. /\ at \in {"opening", "sending"} /\ at' \in {"importing", "judging"}
    BY <1>4 DEF SendArchive, SendSource, SendFile
  <2>2. UNCHANGED <<link, d2o, code, dpc>>
    BY <1>4, WriteWays
  <2>3. dpc # "off" => (Asked(o2d') <=> Asked(o2d))
    <3>1. dpc # "off" => Routed(o2d, dpc, entry)
      BY <1>1 DEF Route
    <3>2. \/ o2d' = o2d
          \/ \E u \in Package \ (Request \cup Entry) : o2d' = o2d \o <<u>>
      BY <1>4, WriteWays
    <3> QED
      BY <1>1, <3>1, <3>2, RoutedAdd
  <2>4. Answering /\ Told' = Told
    BY <1>1, <2>1, <2>2, ToldSame DEF Answered, Calling
  <2>5. Answering'
    BY <2>2, <2>3, <2>4 DEF Answering, Begun
  <2> QED
    BY <2>1, <2>5
<1>5. CASE ReadList
  <2>1. /\ at = "listing" /\ d2o # <<>> /\ d2o' = Tail(d2o) /\ UNCHANGED <<link, o2d, dpc>>
        /\ at' = "listing" \/ (at' = "waiting" /\ Head(d2o) = "end")
    BY <1>5 DEF ReadList, program
  <2>2. dpc \in {"command", "off"} /\ d2o \in Seq(Listed) /\ o2d = <<>>
        /\ Known(d2o, known, Directories)
    BY <1>1, <2>1 DEF LInv, Listing, Listen
  <2>3. at' = "waiting" => d2o' = <<>>
    BY <2>1, <2>2, KnownTail
  <2>4. at' = "waiting" /\ link' = "up" => Quiet'
    BY <2>1, <2>2, <2>3 DEF Quiet, Ends
  <2> QED
    BY <2>1, <2>3, <2>4 DEF Calling
<1>6. CASE Pong
  <2>1. /\ at = "pinging" /\ at' = "waiting" /\ d2o # <<>> /\ d2o' = Tail(d2o)
        /\ UNCHANGED <<link, o2d, dpc>>
    BY <1>6 DEF Pong, program
  <2>2. d2o = <<"pong">> /\ (link = "up" => o2d = <<>>)
    BY <1>1, <2>1 DEF Answered
  <2>3. d2o' = <<>>
    BY <2>1, <2>2
  <2>4. link = "up" => dpc = "command"
    BY <1>1, <2>1 DEF Kind, HandlerOf, Ends
  <2>5. link' = "up" => Quiet'
    BY <2>1, <2>2, <2>3, <2>4 DEF Quiet
  <2> QED
    BY <2>1, <2>3, <2>5 DEF Calling
<1>7. CASE ReadCode
  <2>1. /\ at \in {"importing", "judging", "destroying"} /\ at' = at
        /\ code = "none" /\ code' \in {"zero", "other"}
        /\ d2o # <<>> /\ d2o' = Tail(d2o) /\ UNCHANGED <<link, o2d, dpc>>
    <3>1. code' \in CodeOf(Head(d2o))
      BY <1>7 DEF ReadCode
    <3>2. code' \in {"zero", "other"}
      BY <3>1 DEF CodeOf
    <3> QED
      BY <1>7, <3>2 DEF ReadCode, program
  <2>2. Told' = Told
    <3>1. Len(d2o) \in Nat /\ Len(d2o') = Len(d2o) - 1
      BY <1>1, <2>1, TailAt
    <3>2. Told = Len(d2o) + 0
      BY <2>1 DEF Told
    <3>3. Told' = Len(d2o') + 1
      BY <2>1 DEF Told
    <3> QED
      BY <3>1, <3>2, <3>3
  <2>3. Answering /\ (at = "destroying" => Told <= 2)
    BY <1>1, <2>1 DEF Answered, Calling
  <2>4. Answering'
    BY <2>1, <2>2, <2>3 DEF Answering, Begun
  <2> QED
    BY <2>1, <2>2, <2>3, <2>4
<1>8. CASE ReadText
  <2>1. at' = "waiting" /\ skew' = (skew \/ d2o' # <<>> \/ (link = "up" /\ ~Quiet')) /\ link' = link
    BY <1>8 DEF ReadText
  <2> QED
    BY <2>1 DEF Calling
<1>9. CASE NoArchive
  BY <1>9 DEF NoArchive
<1> QED
  BY <1>2, <1>3, <1>4, <1>5, <1>6, <1>7, <1>8, <1>9

LEMMA AnsweredProgram ==
    ASSUME LInv, Ends, Route, Kind, Answered, ProgramWorks, ~LinkDown
    PROVE  Answered'
<1>1. /\ UNCHANGED <<thread, link, at, code, skew>> /\ dpc # "off"
  BY ProgramKeeps
<1> SUFFICES ASSUME thread, ~skew
             PROVE  /\ at \in Calling => Answering'
                    /\ at = "opening" => d2o' = <<>>
                    /\ at = "destroying" => Told' <= 2
                    /\ at = "waiting" => d2o' = <<>> /\ (link = "up" => Quiet')
                    /\ at = "pinging" => /\ d2o' \in {<<>>, <<"pong">>}
                                         /\ link = "up" => \/ o2d' = <<"ping">> /\ d2o' = <<>>
                                                           \/ o2d' = <<>> /\ d2o' = <<"pong">>
  BY <1>1 DEF Answered
<1>2. CASE at \in Calling
  BY <1>2, AnsweringProgram DEF Calling
<1>3. link # "up" => d2o' = d2o
  BY AnswerWays DEF GoesOn, AnswersAny, AnswersCode, AnswersText, Grown
<1>4. CASE at \in {"waiting", "pinging"} /\ link # "up"
  <2>1. d2o' = d2o
    BY <1>3, <1>4
  <2> QED
    BY <1>4, <2>1 DEF Answered, Calling
<1>5. CASE at = "waiting" /\ link = "up"
  <2>1. o2d = <<>> /\ dpc = "command"
    BY <1>5 DEF Answered, Quiet
  <2> QED
    BY <2>1, ProgramWays DEF Naming, Working
<1>6. CASE at = "pinging" /\ link = "up"
  <2>1. dpc = "command"
    BY <1>1, <1>6 DEF Kind, HandlerOf
  <2>2. Command
    BY <2>1 DEF ProgramWorks, ImportName, ImportArchive, ImportEnds, DestroyName, DestroyEnds,
       JudgeName, JudgeLang, JudgeSource, JudgeEnds, Text, ReadName
  <2>3. o2d = <<"ping">> /\ d2o = <<>>
    <3>1. o2d # <<>>
      BY <2>2 DEF Command
    <3> QED
      BY <1>6, <3>1 DEF Answered
  <2>4. o2d' = <<>>
    BY <2>2, <2>3 DEF Command
  <2>5. d2o' = <<>> \o <<"pong">>
    <3>1. Head(o2d) = "ping"
      BY <2>3
    <3> QED
      BY <1>6, <2>2, <2>3, <3>1 DEF Command, Answers, Request
  <2>6. d2o' = <<"pong">>
    <3>1. <<"pong">> \in Seq({"pong"})
      OBVIOUS
    <3> QED
      BY <2>5, <3>1, ConcatEmptySeq
  <2> QED
    BY <1>6, <2>4, <2>6 DEF Calling
<1>7. CASE at \notin {"waiting", "pinging"} \cup Calling
  BY <1>7 DEF Calling
<1> QED
  BY <1>2, <1>4, <1>5, <1>6, <1>7

LEMMA AnsweredReset ==
    ASSUME LInv, Ends, Answered, Reset
    PROVE  Answered' /\ Told' <= Told /\ Told' \in Nat /\ Told \in Nat
<1>1. UNCHANGED <<thread, at, code, dpc, skew>> /\ link' = "reset"
  BY DEF Reset, overlord, program, history
<1>2. PICK n \in 0..Len(d2o) : d2o' = SubSeq(d2o, 1, n)
  BY DEF Reset
<1>3. PICK m \in 0..Len(o2d) : o2d' = SubSeq(o2d, 1, m)
  BY DEF Reset
<1>4. d2o \in Seq(Package) /\ o2d \in Seq(Package)
  BY DEF LInv, TypeOK
<1>5. /\ Len(d2o') = n /\ Len(d2o) \in Nat
      /\ d2o' # <<>> => d2o # <<>> /\ Head(d2o') = Head(d2o)
  BY <1>2, <1>4, CutAt
<1>6. Asked(o2d') => Asked(o2d)
  BY <1>3, <1>4, CutAt DEF Asked
<1>7. Told' <= Told /\ Told' \in Nat /\ Told \in Nat
  <2>1. CASE code = "none"
    <3>1. Told = Len(d2o) + 0 /\ Told' = Len(d2o') + 0
      BY <1>1, <2>1 DEF Told
    <3> QED
      BY <1>5, <3>1
  <2>2. CASE code # "none"
    <3>1. Told = Len(d2o) + 1 /\ Told' = Len(d2o') + 1
      BY <1>1, <2>2 DEF Told
    <3> QED
      BY <1>5, <3>1
  <2> QED
    BY <2>1, <2>2
<1>8. ASSUME Answering  PROVE Answering'
  <2>1. Begun' => Begun
    BY <1>1, <1>6 DEF Begun
  <2> QED
    BY <1>1, <1>5, <1>7, <1>8, <2>1 DEF Answering
<1>9. d2o = <<"pong">> => d2o' \in {<<>>, <<"pong">>}
  <2>1. SUFFICES ASSUME d2o = <<"pong">>, d2o' # <<>>  PROVE d2o' = <<"pong">>
    OBVIOUS
  <2>2. Len(d2o) = 1 /\ Head(d2o') = "pong" /\ d2o' \in Seq(Package)
    BY <1>2, <1>4, <1>5, <2>1, CutAt
  <2>3. Len(d2o') = 1 /\ d2o'[1] = "pong"
    <3>1. Len(d2o') # 0
      BY <1>5, <2>1, <2>2, EmptySeq
    <3> QED
      BY <1>5, <2>1, <2>2, <3>1, HeadTailProperties
  <2>4. <<"pong">> \in Seq(Package) /\ Len(<<"pong">>) = 1 /\ <<"pong">>[1] = "pong"
    BY Words
  <2> QED
    BY <2>2, <2>3, <2>4, SeqEqual
<1>10. Answered'
  <2> SUFFICES ASSUME thread, ~skew
               PROVE  /\ at \in Calling => Answering'
                      /\ at = "opening" => d2o' = <<>>
                      /\ at = "destroying" => Told' <= 2
                      /\ at = "waiting" => d2o' = <<>>
                      /\ at = "pinging" => d2o' \in {<<>>, <<"pong">>}
    BY <1>1 DEF Answered
  <2>1. /\ at \in Calling => Answering
        /\ at = "opening" => d2o = <<>>
        /\ at = "destroying" => Told <= 2
        /\ at = "waiting" => d2o = <<>>
        /\ at = "pinging" => d2o \in {<<>>, <<"pong">>}
    BY DEF Answered
  <2> QED
    BY <1>5, <1>7, <1>8, <1>9, <2>1
<1> QED
  BY <1>7, <1>10

LEMMA AnsweredNext ==
    ASSUME LInv, Ends, Route, Kind, Answered, Listen, [Next]_vars
    PROVE  Answered'
<1>1. CASE UNCHANGED vars
  <2>1. UNCHANGED <<link, o2d, d2o, thread, at, code, dpc, skew>>
    BY <1>1 DEF vars, wire, overlord, program, history
  <2>2. UNCHANGED Answering /\ UNCHANGED Quiet /\ UNCHANGED Told
    BY <2>1 DEF Answering, Quiet, Told, Begun
  <2> QED
    BY <2>1, <2>2 DEF Answered
<1>2. CASE Connect
  BY <1>2 DEF Connect, Answered, Calling
<1>3. CASE Leaves \/ OverlordKilled
  <2>1. ~thread'
    BY <1>3 DEF Leaves, LeaveDone, LeaveBroken, LeaveOutOfStep, SourceMissing, OverlordKilled,
       ThreadEnds
  <2> QED
    BY <2>1 DEF Answered
<1>4. CASE LinkDown \/ Killed
  <2>1. /\ UNCHANGED <<o2d, d2o, thread, at, code, skew>> /\ dpc' = "off" /\ link' # "up"
        /\ dpc # "off"
    BY <1>4, EndKeeps
  <2>2. Told' = Told
    BY <2>1, ToldSame
  <2>3. Answering => Answering'
    BY <2>1, <2>2 DEF Answering, Begun
  <2> QED
    BY <2>1, <2>2, <2>3 DEF Answered
<1> QED
  BY <1>1, <1>2, <1>3, <1>4, AnsweredThread, AnsweredProgram, AnsweredReset, NextWays

(***************************************************************************)
(* In step: an answer that has come tells what became of the request.      *)
(***************************************************************************)
Ok == IF code = "none" THEN Head(d2o) = "zero" ELSE code = "zero"

Truth == thread /\ ~skew /\ Told >= 1 =>
    /\ at = "importing" /\ (link = "reset" => Told >= 2) => (Ok <=> disk[entry] = "ready")
    /\ at \in {"sending", "judging"} /\ Ok => seen[entry] # "absent"
    /\ at = "destroying" => Ok /\ disk[entry] = "absent"

LEMMA ToldSome ==
    ASSUME d2o \in Seq(Package), Told >= 1, code = "none"  PROVE d2o # <<>>
<1>1. d2o = <<>> => Len(d2o) = 0
  BY EmptySeq
<1>2. Told = Len(d2o) + 0 /\ Len(d2o) \in Nat
  BY LenProperties DEF Told
<1> QED
  BY <1>1, <1>2

LEMMA ReadCodeKeeps ==
    ASSUME LInv, Answered, ReadCode, ~skew
    PROVE  Told' = Told /\ (Ok' <=> Ok)
<1>1. /\ thread /\ at \in Calling /\ code = "none" /\ code' \in CodeOf(Head(d2o))
      /\ d2o # <<>> /\ d2o' = Tail(d2o)
  BY DEF ReadCode, Calling
<1>2. code' \in {"zero", "other"}
  BY <1>1 DEF CodeOf
<1>3. Head(d2o) \in {"zero", "code"}
  BY <1>1 DEF Answered, Answering
<1>4. Ok' <=> Ok
  BY <1>1, <1>2, <1>3 DEF Ok, CodeOf
<1>5. Told' = Told
  <2>1. Len(d2o) \in Nat /\ Len(d2o') = Len(d2o) - 1
    BY <1>1, TailAt DEF LInv, TypeOK
  <2>2. Told = Len(d2o) + 0
    BY <1>1 DEF Told
  <2>3. Told' = Len(d2o') + 1
    BY <1>2 DEF Told
  <2> QED
    BY <2>1, <2>2, <2>3
<1> QED
  BY <1>4, <1>5

(* The run code is answered. *)
LEMMA TruthCode ==
    ASSUME LInv, LInv', Ends, Route, Kind, Answered, Disk, ProgramWorks, ~LinkDown,
           thread, ~skew, at \in Calling, AnswersCode, Told' >= 1
    PROVE  /\ at = "importing" => (Ok' <=> disk'[entry] = "ready")
           /\ at \in {"sending", "judging"} /\ Ok' => seen[entry] # "absent"
           /\ at = "destroying" => Ok' /\ disk'[entry] = "absent"
<1>1. /\ UNCHANGED <<thread, link, at, code, entry>> /\ dpc # "off" /\ at # "killed"
  BY ProgramKeeps DEF Calling
<1>2. /\ Begun /\ Told = 0 /\ d2o \in Seq(Package) /\ entry \in Entry
      /\ disk \in [Entry -> DirState]
      /\ dpc \in {"judgeLang", "importing", "destroying", "judging"}
  BY DEF AnswersCode, Begun, Answered, Answering, LInv, TypeOK
<1>3. d2o = <<>> /\ code = "none"
  <2>1. code = "none"
    <3>1. CASE code # "none"
      <4>1. Told = Len(d2o) + 1 /\ Len(d2o) \in Nat
        BY <1>2, <3>1, LenProperties DEF Told
      <4> QED
        BY <1>2, <4>1
    <3> QED
      BY <3>1
  <2>2. Told = Len(d2o) + 0 /\ Len(d2o) \in Nat
    BY <1>2, <2>1, LenProperties DEF Told
  <2> QED
    BY <1>2, <2>1, <2>2, EmptySeq
<1>4. link = "up"
  <2>1. CASE link # "up"
    <3>1. d2o' = d2o
      BY <2>1 DEF AnswersCode, Grown
    <3>2. Told' = 0
      BY <1>1, <1>2, <3>1, ToldSame
    <3> QED
      BY <3>2
  <2> QED
    BY <2>1
<1>5. ASSUME NEW u \in {"zero", "code"}, Answers(<<u>>)
      PROVE  Ok' <=> u = "zero"
  <2>1. <<u>> \in Seq({"zero", "code"}) /\ Head(<<u>>) = u
    OBVIOUS
  <2>2. d2o' = <<u>>
    BY <1>3, <1>4, <1>5, <2>1, ConcatEmptySeq DEF Answers
  <2> QED
    BY <1>1, <1>3, <2>1, <2>2 DEF Ok
<1>6. name = entry \/ dpc = "judgeLang"
  BY <1>1, <1>2 DEF Route, HasName, Working
<1>7. dpc \in HandlerOf(at)
  BY <1>1, <1>2 DEF Kind
<1>8. /\ dpc = "importing" => at = "importing"
      /\ dpc = "destroying" => at = "destroying"
      /\ dpc = "judging" => at = "judging"
      /\ dpc = "judgeLang" => at \in {"sending", "judging"}
  BY <1>7 DEF HandlerOf
<1>9. CASE JudgeLang
  <2>1. dpc = "judgeLang" /\ dpc' \in {"judgeSource", "text"}
        /\ (dpc' = "text" => Answers(<<"code">>))
    BY <1>9 DEF JudgeLang
  <2>2. Answers(<<"code">>)
    BY <2>1 DEF AnswersCode
  <2>3. ~Ok'
    BY <1>5, <2>2
  <2> QED
    BY <1>8, <2>1, <2>3
<1>10. ASSUME NEW s \in DirState, ImportEnds(s)
       PROVE  at = "importing" /\ (Ok' <=> disk'[entry] = "ready")
  <2>1. dpc = "importing" /\ Become(name, s) /\ Answers(<<ImportCode(s)>>)
    BY <1>10 DEF ImportEnds
  <2>2. disk'[entry] = s
    BY <1>2, <1>6, <2>1 DEF Become
  <2>3. ImportCode(s) \in {"zero", "code"} /\ (ImportCode(s) = "zero" <=> s = "ready")
    BY DEF ImportCode
  <2>4. Ok' <=> ImportCode(s) = "zero"
    BY <1>5, <2>1, <2>3
  <2> QED
    BY <1>8, <2>1, <2>2, <2>3, <2>4
<1>11. ASSUME NEW answer \in {"zero", "code"}, DestroyEnds(answer)
       PROVE  at = "destroying" /\ Ok' /\ disk'[entry] = "absent"
  <2>1. dpc = "destroying" /\ Become(name, "absent") /\ Answers(<<answer>>) /\ name = entry
        /\ answer = "zero"
    BY <1>2, <1>6, <1>11 DEF DestroyEnds
  <2>2. disk'[entry] = "absent"
    BY <1>2, <2>1 DEF Become
  <2>3. Ok'
    BY <1>5, <2>1
  <2> QED
    BY <1>8, <2>1, <2>2, <2>3
<1>12. ASSUME NEW answer \in {"zero", "code"}, JudgeEnds(answer)
       PROVE  at = "judging" /\ (Ok' => seen[entry] # "absent")
  <2>1. dpc = "judging" /\ Answers(<<answer>>) /\ name = entry
        /\ (answer = "zero" => disk[entry] # "absent")
    BY <1>2, <1>6, <1>12 DEF JudgeEnds
  <2>2. at = "judging" /\ disk[entry] = seen[entry]
    BY <1>8, <2>1 DEF Disk, Active
  <2>3. Ok' <=> answer = "zero"
    BY <1>5, <2>1
  <2> QED
    BY <2>1, <2>2, <2>3
<1>13. JudgeLang \/ (\E s \in DirState : ImportEnds(s))
       \/ \E answer \in {"zero", "code"} : DestroyEnds(answer) \/ JudgeEnds(answer)
  BY <1>2 DEF ProgramWorks, Command, ImportName, DestroyName, JudgeName, ReadName, ImportArchive,
     JudgeSource, Text
<1> QED
  BY <1>9, <1>10, <1>11, <1>12, <1>13

LEMMA TruthProgram ==
    ASSUME LInv, LInv', Ends, Route, Kind, Answered, Disk, Truth, ProgramWorks, ~LinkDown
    PROVE  Truth'
<1>1. /\ UNCHANGED <<thread, link, at, code, entry, skew, seen>> /\ dpc # "off"
  BY ProgramKeeps
<1> SUFFICES ASSUME thread, ~skew, Told' >= 1, at \in Calling
             PROVE  /\ at = "importing" /\ (link = "reset" => Told' >= 2)
                       => (Ok' <=> disk'[entry] = "ready")
                    /\ at \in {"sending", "judging"} /\ Ok' => seen[entry] # "absent"
                    /\ at = "destroying" => Ok' /\ disk'[entry] = "absent"
  BY <1>1 DEF Truth, Calling
<1>2. Answering
  BY DEF Answered
<1>3. ASSUME disk' = disk, Ok' <=> Ok, Told >= 1, link = "reset" => Told' = Told
      PROVE  /\ at = "importing" /\ (link = "reset" => Told' >= 2)
                => (Ok' <=> disk'[entry] = "ready")
             /\ at \in {"sending", "judging"} /\ Ok' => seen[entry] # "absent"
             /\ at = "destroying" => Ok' /\ disk'[entry] = "absent"
  BY <1>3 DEF Truth
<1>4. ASSUME d2o' = d2o  PROVE Told' = Told /\ (Ok' <=> Ok)
  BY <1>1, <1>4, ToldSame DEF Ok
<1>5. CASE GoesOn
  <2>1. Told = 0 /\ Told' = Told
    BY <1>2, <1>4, <1>5 DEF GoesOn, Answering
  <2> QED
    BY <2>1
<1>6. CASE AnswersAny
  <2>1. CASE link = "up"
    <3>1. Told >= 2
      BY <1>2, <1>6, <2>1 DEF AnswersAny, Answering
    <3>2. d2o \in Seq(Package) /\ (code = "none" => d2o # <<>>)
      <4>1. Told >= 1
        <5>1. Told \in Nat
          BY ToldType
        <5> QED
          BY <3>1, <5>1
      <4> QED
        BY <4>1, ToldSome DEF LInv, TypeOK
    <3>3. Ok' <=> Ok
      BY <1>1, <1>6, <2>1, <3>2 DEF AnswersAny, Ok
    <3>4. Told >= 1
      BY <3>1, ToldType
    <3> QED
      BY <1>3, <1>6, <2>1, <3>3, <3>4 DEF AnswersAny
  <2>2. CASE link # "up"
    BY <1>3, <1>4, <1>6, <2>2 DEF AnswersAny
  <2> QED
    BY <2>1, <2>2
<1>7. CASE AnswersCode
  BY <1>7, TruthCode
<1>8. CASE AnswersText
  <2>1. CASE link = "up"
    <3>1. Told = 1
      BY <1>2, <1>8, <2>1 DEF AnswersText, Answering
    <3>2. code = "none" => d2o # <<>>
      BY <3>1, ToldSome DEF LInv, TypeOK
    <3>3. Grown("text") /\ disk' = disk
      BY <1>8 DEF AnswersText
    <3>4. Ok' <=> Ok
      BY <1>1, <2>1, <3>2, <3>3 DEF Grown, Ok
    <3> QED
      BY <1>3, <2>1, <3>1, <3>3, <3>4
  <2>2. CASE link # "up"
    <3>1. disk' = disk /\ d2o' = d2o
      BY <1>8, <2>2 DEF AnswersText, Grown
    <3> QED
      BY <1>3, <1>4, <3>1
  <2> QED
    BY <2>1, <2>2
<1> QED
  BY <1>5, <1>6, <1>7, <1>8, AnswerWays

LEMMA TruthNext ==
    ASSUME LInv, LInv', Ends, Route, Kind, Answered, Disk, Truth, [Next]_vars
    PROVE  Truth'
<1> SUFFICES ASSUME thread', ~skew', Told' >= 1
             PROVE  /\ at' = "importing" /\ (link' = "reset" => Told' >= 2)
                       => (Ok' <=> disk'[entry'] = "ready")
                    /\ at' \in {"sending", "judging"} /\ Ok' => seen'[entry'] # "absent"
                    /\ at' = "destroying" => Ok' /\ disk'[entry'] = "absent"
  BY DEF Truth
<1>1. ASSUME thread, ~skew, UNCHANGED <<entry, disk, seen, link>>, Told' = Told, Ok' <=> Ok,
             at' = at \/ (at = "sending" /\ at' = "judging")
      PROVE  /\ at' = "importing" /\ (link' = "reset" => Told' >= 2)
                => (Ok' <=> disk'[entry'] = "ready")
             /\ at' \in {"sending", "judging"} /\ Ok' => seen'[entry'] # "absent"
             /\ at' = "destroying" => Ok' /\ disk'[entry'] = "absent"
  BY <1>1 DEF Truth
<1>2. CASE UNCHANGED vars
  <2>1. UNCHANGED <<thread, skew, entry, disk, seen, link, at, d2o, code>>
    BY <1>2 DEF vars, wire, overlord, program, history
  <2>2. Told' = Told /\ (Ok' <=> Ok)
    BY <2>1 DEF Told, Ok
  <2> QED
    BY <1>1, <2>1, <2>2
<1>3. CASE Connect \/ Ping \/ ReadList \/ Pong \/ ReadText \/ NoArchive
  BY <1>3 DEF Connect, Ping, ReadList, Pong, ReadText, NoArchive
<1>4. CASE Asks
  <2>1. thread /\ ~skew /\ at = "waiting" /\ UNCHANGED <<d2o, code>>
    BY <1>4, ThreadKeeps DEF Asks, AskImport, AskDestroy, AskJudge, Ask
  <2>2. d2o = <<>> /\ code = "none"
    BY <2>1 DEF Answered, Ends
  <2>3. Told' = 0
    BY <2>1, <2>2, ToldNone, ToldSame
  <2> QED
    BY <2>3
<1>5. CASE SendArchive
  <2>1. thread /\ ~skew /\ at = "opening" /\ UNCHANGED <<d2o, code>>
    BY <1>5, ThreadKeeps DEF ThreadWorks, SendArchive, SendFile
  <2>2. d2o = <<>> /\ code = "none"
    BY <2>1 DEF Answered, Ends
  <2>3. Told' = 0
    BY <2>1, <2>2, ToldNone, ToldSame
  <2> QED
    BY <2>3
<1>6. CASE SendSource
  <2>1. thread /\ ~skew
    BY <1>6, ThreadKeeps DEF ThreadWorks
  <2>2. UNCHANGED <<entry, disk, seen, link, d2o, code>>
    BY <1>6, WriteWays
  <2>3. at = "sending" /\ at' = "judging"
    BY <1>6 DEF SendSource, SendFile
  <2>4. Told' = Told /\ (Ok' <=> Ok)
    BY <2>2 DEF Told, Ok
  <2> QED
    BY <1>1, <2>1, <2>2, <2>3, <2>4
<1>7. CASE ReadCode
  <2>1. thread /\ ~skew
    BY <1>7, ThreadKeeps DEF ThreadWorks
  <2>2. UNCHANGED <<entry, link, at>> /\ UNCHANGED program /\ UNCHANGED history
    BY <1>7 DEF ReadCode
  <2>3. UNCHANGED <<disk, seen>>
    BY <2>2 DEF program, history
  <2> QED
    BY <1>1, <1>7, <2>1, <2>2, <2>3, ReadCodeKeeps
<1>8. CASE Leaves \/ OverlordKilled
  BY <1>8 DEF Leaves, LeaveDone, LeaveBroken, LeaveOutOfStep, SourceMissing, OverlordKilled,
     ThreadEnds
<1>9. CASE ProgramWorks /\ ~LinkDown
  BY <1>9, TruthProgram DEF Truth
<1>10. CASE LinkDown \/ Killed
  <2>1. /\ UNCHANGED <<d2o, thread, at, entry, code, skew>> /\ seen' = SeenAtEnd
        /\ link' = (IF link = "up" THEN "closed" ELSE link) /\ dpc # "off"
    BY <1>10, EndKeeps
  <2>2. seen' = seen /\ thread /\ ~skew /\ at # "killed" /\ link # "left"
    BY <2>1 DEF SeenAtEnd, Ends
  <2>3. Told' = Told /\ (Ok' <=> Ok)
    BY <2>1 DEF Told, Ok
  <2>4. link' = "reset" <=> link = "reset"
    BY <2>1
  <2>5. CASE disk' = disk
    BY <2>1, <2>2, <2>3, <2>4, <2>5 DEF Truth
  <2>6. CASE disk' # disk
    <3>1. LinkDown /\ dpc \in {"importArchive", "importing", "importText"} /\ link = "reset"
      <4>1. LinkDown
        BY <1>10, <2>6 DEF Killed
      <4>2. dpc \in {"importArchive", "importing", "importText"} \/ (dpc = "importName" /\ link = "left")
        BY <2>6, <4>1 DEF LinkDown
      <4> QED
        BY <2>2, <4>1, <4>2 DEF LinkDown
    <3>2. dpc \in HandlerOf(at)
      BY <2>1, <2>2, <3>1 DEF Kind
    <3>3. at \in {"opening", "importing"}
      BY <3>1, <3>2 DEF HandlerOf
    <3>4. Told <= 1
      <4>1. Answering
        BY <2>2, <3>3 DEF Answered, Calling
      <4> QED
        BY <3>1, <4>1 DEF Answering, Begun
    <3> QED
      BY <2>1, <2>3, <2>4, <3>1, <3>3, <3>4, ToldType
  <2> QED
    BY <2>5, <2>6
<1>11. CASE Reset
  <2>1. UNCHANGED <<thread, at, entry, code, dpc, disk, skew, seen>> /\ link' = "reset"
        /\ link # "reset"
    BY <1>11 DEF Reset, overlord, program, history
  <2>2. Told' <= Told /\ Told' \in Nat /\ Told \in Nat
    BY <1>11, AnsweredReset
  <2>3. PICK n \in 0..Len(d2o) : d2o' = SubSeq(d2o, 1, n)
    BY <1>11 DEF Reset
  <2>4. d2o \in Seq(Package) /\ d2o' \in Seq(Package)
    BY DEF LInv, TypeOK
  <2>5. d2o' # <<>> => Head(d2o') = Head(d2o)
    BY <2>3, <2>4, CutAt
  <2>6. code' = "none" => d2o' # <<>>
    <3>1. CASE code' = "none"
      <4>1. Told' = Len(d2o') + 0 /\ (d2o' = <<>> => Len(d2o') = 0)
        BY <3>1, <2>4, EmptySeq DEF Told
      <4> QED
        BY <4>1
    <3> QED
      BY <3>1
  <2>7. Ok' <=> Ok
    BY <2>1, <2>5, <2>6 DEF Ok
  <2>8. Told >= 1
    BY <2>2
  <2> QED
    BY <2>1, <2>2, <2>7, <2>8 DEF Truth
<1> QED
  BY <1>2, <1>3, <1>4, <1>5, <1>6, <1>7, <1>8, <1>9, <1>10, <1>11, NextWays

-----------------------------------------------------------------------------
(***************************************************************************)
(* In step or not, one ping is under way at most, it is the last package   *)
(* to the program, and out of step something is ahead of its answer.       *)
(***************************************************************************)
Without(w, s) == \A k \in 1..Len(s) : s[k] # w

PingLast(s) == \A k \in 1..Len(s) : s[k] = "ping" => k = Len(s)

Pings == thread =>
    /\ at # "pinging" => Without("ping", o2d) /\ Without("pong", d2o)
    /\ at = "pinging" =>
          /\ PingLast(o2d)
          /\ Without("pong", d2o) \/ Without("ping", o2d)
          /\ skew /\ d2o # <<>> => Head(d2o) # "pong"

LEMMA WithoutTail ==
    ASSUME NEW s \in Seq(Package), s # <<>>, NEW w
    PROVE  /\ Without(w, s) => Without(w, Tail(s)) /\ Head(s) # w
           /\ PingLast(s) => PingLast(Tail(s)) /\ (Head(s) = "ping" => Tail(s) = <<>>)
<1> DEFINE t == Tail(s)
<1>1. /\ Len(s) \in Nat \ {0} /\ Head(s) = s[1] /\ t \in Seq(Package) /\ Len(t) = Len(s) - 1
      /\ \A k \in 1..(Len(s) - 1) : t[k] = s[k + 1]
  BY TailAt
<1>2. Len(t) = 0 => t = <<>>
  BY <1>1, EmptySeq
<1> HIDE DEF t
<1>3. Without(w, s) => Without(w, t) /\ Head(s) # w
  BY <1>1 DEF Without
<1>4. ASSUME PingLast(s)  PROVE PingLast(t) /\ (Head(s) = "ping" => t = <<>>)
  <2>1. PingLast(t)
    <3>1. ASSUME NEW k \in 1..Len(t), t[k] = "ping"  PROVE k = Len(t)
      <4>1. k + 1 \in 1..Len(s) /\ s[k + 1] = "ping"
        BY <1>1, <3>1
      <4> QED
        BY <1>1, <1>4, <4>1 DEF PingLast
    <3> QED
      BY <3>1 DEF PingLast
  <2>2. Head(s) = "ping" => t = <<>>
    BY <1>1, <1>2, <1>4 DEF PingLast
  <2> QED
    BY <2>1, <2>2
<1> QED
  BY <1>3, <1>4 DEF t

LEMMA WithoutConcat ==
    ASSUME NEW s \in Seq(Package), NEW v \in Seq(Package)
    PROVE  /\ \A w : Without(w, s) /\ Without(w, v) => Without(w, s \o v)
           /\ Without("ping", s) /\ PingLast(v) => PingLast(s \o v)
<1> DEFINE t == s \o v
<1>1. /\ Len(s) \in Nat /\ Len(v) \in Nat /\ Len(t) = Len(s) + Len(v)
      /\ \A k \in 1..Len(t) : t[k] = IF k <= Len(s) THEN s[k] ELSE v[k - Len(s)]
  BY ConcatProperties, LenProperties
<1> HIDE DEF t
<1>2. ASSUME NEW w, Without(w, s), Without(w, v)  PROVE Without(w, t)
  <2>1. ASSUME NEW k \in 1..Len(t)  PROVE t[k] # w
    <3>1. CASE k <= Len(s)
      BY <1>1, <1>2, <2>1, <3>1 DEF Without
    <3>2. CASE ~(k <= Len(s))
      <4>1. k - Len(s) \in 1..Len(v) /\ t[k] = v[k - Len(s)]
        BY <1>1, <2>1, <3>2
      <4> QED
        BY <1>2, <4>1 DEF Without
    <3> QED
      BY <3>1, <3>2
  <2> QED
    BY <2>1 DEF Without
<1>3. ASSUME Without("ping", s), PingLast(v)  PROVE PingLast(t)
  <2>1. ASSUME NEW k \in 1..Len(t), t[k] = "ping"  PROVE k = Len(t)
    <3>1. CASE k <= Len(s)
      BY <1>1, <1>3, <2>1, <3>1 DEF Without
    <3>2. CASE ~(k <= Len(s))
      <4>1. k - Len(s) \in 1..Len(v) /\ v[k - Len(s)] = "ping"
        BY <1>1, <2>1, <3>2
      <4>2. k - Len(s) = Len(v)
        BY <1>3, <4>1 DEF PingLast
      <4> QED
        BY <1>1, <2>1, <4>2
    <3> QED
      BY <3>1, <3>2
  <2> QED
    BY <2>1 DEF PingLast
<1> QED
  BY <1>2, <1>3 DEF t

LEMMA WithoutRest ==
    ASSUME NEW s \in Seq(Package)
    PROVE  /\ Without("ping", s) => Without("ping", <<"rest">> \o s)
           /\ PingLast(s) => PingLast(<<"rest">> \o s)
<1> DEFINE t == <<"rest">> \o s
<1>1. /\ Len(t) = Len(s) + 1 /\ Len(s) \in Nat
      /\ \A k \in 1..Len(s) : t[k + 1] = s[k]
      /\ t[1] = "rest"
  BY Words, ConsAt
<1> HIDE DEF t
<1>2. \A k \in 1..Len(t) : k = 1 \/ (k - 1 \in 1..Len(s) /\ t[k] = s[k - 1])
  <2> TAKE k \in 1..Len(t)
  <2>1. CASE k # 1
    <3>1. k - 1 \in 1..Len(s) /\ (k - 1) + 1 = k
      BY <1>1, <2>1
    <3> QED
      BY <1>1, <3>1
  <2> QED
    BY <2>1
<1>3. Without("ping", s) => Without("ping", t)
  BY <1>1, <1>2 DEF Without
<1>4. PingLast(s) => PingLast(t)
  BY <1>1, <1>2 DEF PingLast
<1> QED
  BY <1>3, <1>4 DEF t

LEMMA WithoutCut ==
    ASSUME NEW s \in Seq(Package), NEW n \in 0..Len(s)
    PROVE  /\ \A w : Without(w, s) => Without(w, SubSeq(s, 1, n))
           /\ PingLast(s) => PingLast(SubSeq(s, 1, n))
<1> DEFINE t == SubSeq(s, 1, n)
<1>1. /\ Len(t) = n /\ Len(s) \in Nat
      /\ \A k \in 1..n : t[k] = s[k]
  BY CutAt
<1> HIDE DEF t
<1>2. \A w : Without(w, s) => Without(w, t)
  BY <1>1 DEF Without
<1>3. PingLast(s) => PingLast(t)
  BY <1>1 DEF PingLast
<1> QED
  BY <1>2, <1>3 DEF t

(* What the program answers: a pong to a ping and to nothing else. *)
LEMMA AnswerPong ==
    ASSUME LInv, ProgramWorks, ~LinkDown
    PROVE  \/ d2o' = d2o
           \/ /\ link = "up"
              /\ \E v \in Seq(Package) : d2o' = d2o \o v /\ v # <<>> /\ Without("pong", v)
           \/ /\ dpc = "command" /\ o2d # <<>> /\ Head(o2d) = "ping" /\ o2d' = Tail(o2d)
              /\ dpc' = dpc /\ link = "up" /\ d2o' = d2o \o <<"pong">>
<1>1. ASSUME NEW v \in Seq(Package), v # <<>>, Without("pong", v), Answers(v)
      PROVE  \/ d2o' = d2o
             \/ /\ link = "up"
                /\ \E x \in Seq(Package) : d2o' = d2o \o x /\ x # <<>> /\ Without("pong", x)
  BY <1>1 DEF Answers
<1>2. ASSUME NEW u \in {"invalid", "zero", "code", "text"}, Answers(<<u>>)
      PROVE  \/ d2o' = d2o
             \/ /\ link = "up"
                /\ \E x \in Seq(Package) : d2o' = d2o \o x /\ x # <<>> /\ Without("pong", x)
  <2>1. <<u>> \in Seq(Package) /\ Len(<<u>>) = 1 /\ <<u>>[1] = u /\ <<u>> # <<>>
    BY Words
  <2>2. Without("pong", <<u>>)
    BY <2>1 DEF Without
  <2> QED
    BY <1>1, <1>2, <2>1, <2>2
<1>3. CASE Command
  <2>1. CASE Head(o2d) = "ping"
    <3>1. Answers(<<"pong">>) /\ dpc = "command" /\ o2d # <<>> /\ o2d' = Tail(o2d) /\ dpc' = dpc
      BY <1>3, <2>1 DEF Command, Request
    <3> QED
      BY <2>1, <3>1 DEF Answers
  <2>2. CASE Head(o2d) = "list"
    <3> DEFINE v == SetToSeq(Directories) \o <<"end">>
    <3>1. Answers(v)
      BY <1>3, <2>2 DEF Command, Request
    <3>2. Directories \in SUBSET Entry /\ Entry \subseteq Package /\ "pong" \notin Entry
          /\ "end" \in Package
      BY Words, NameAssumption DEF Directories, Answer
    <3>3. SetToSeq(Directories) \in Seq(Directories)
      BY <3>2, ListAll
    <3>4. SetToSeq(Directories) \in Seq(Package)
      BY <3>2, <3>3
    <3>5. Without("pong", SetToSeq(Directories))
      BY <3>2, <3>3, ElementOfSeq DEF Without
    <3>6. <<"end">> \in Seq(Package) /\ Without("pong", <<"end">>)
      BY <3>2 DEF Without
    <3>7. Without("pong", v)
      BY <3>4, <3>5, <3>6, WithoutConcat
    <3>8. v \in Seq(Package) /\ Len(v) = Len(SetToSeq(Directories)) + 1
          /\ Len(SetToSeq(Directories)) \in Nat
      BY <3>2, <3>4, AppendAt
    <3> HIDE DEF v
    <3>9. v # <<>>
      BY <3>8, EmptySeq
    <3> QED
      BY <1>1, <3>1, <3>7, <3>8, <3>9
  <2>3. CASE Head(o2d) \notin {"ping", "list"}
    BY <1>2, <1>3, <2>3 DEF Command, InvalidCommand
  <2> QED
    BY <2>1, <2>2, <2>3
<1>4. CASE ImportName \/ DestroyName \/ JudgeName \/ ImportArchive \/ JudgeSource
  BY <1>4 DEF ImportName, DestroyName, JudgeName, ReadName, ImportArchive, JudgeSource
<1>5. CASE JudgeLang
  BY <1>2, <1>5 DEF JudgeLang
<1>6. ASSUME NEW s \in DirState, ImportEnds(s)
      PROVE  \E u \in {"zero", "code"} : Answers(<<u>>)
  BY <1>6 DEF ImportEnds, ImportCode
<1>7. ASSUME NEW answer \in {"zero", "code"}, DestroyEnds(answer) \/ JudgeEnds(answer)
      PROVE  Answers(<<answer>>)
  BY <1>7 DEF DestroyEnds, JudgeEnds
<1>8. CASE Text
  <2>1. Answers(<<"text">>)
    BY <1>8 DEF Text, Message
  <2> QED
    BY <1>2, <2>1
<1> QED
  BY <1>2, <1>3, <1>4, <1>5, <1>6, <1>7, <1>8 DEF ProgramWorks

(* Out of step an earlier answer is ahead of that of a ping. *)
LEMMA PingLate ==
    ASSUME LInv, Ends, Due, thread, link = "up", skew, at = "pinging", dpc = "command",
           o2d # <<>>, Head(o2d) = "ping", Tail(o2d) = <<>>
    PROVE  d2o # <<>>
<1>1. Owes(o2d, d2o, "command", 2)
  <2>1. Awaited + Surplus = 2
    BY DEF Awaited, Surplus
  <2> QED
    BY <2>1 DEF Due
<1>2. PICK z \in Rest, n \in Int :
        Parse(o2d, Resumed("command"), z, n) /\ Len(d2o) + Owed("command") + n >= 2
  BY <1>1 DEF Owes
<1>3. Resumed("command") = "command" /\ Owed("command") = 0
  BY DEF Resumed, Owed, Reading
<1>4. PICK f \in [0..Len(o2d) -> Reading], c \in [0..Len(o2d) -> Int] :
        Parses(o2d, "command", z, n, f, c)
  BY <1>2, <1>3 DEF Parse
<1>5. Len(o2d) = 1 /\ o2d[1] = "ping"
  <2>1. o2d \in Seq(Package)
    BY DEF LInv, TypeOK
  <2>2. Len(Tail(o2d)) = 0
    OBVIOUS
  <2> QED
    BY <2>1, <2>2, TailAt
<1>6. n = 1
  <2>1. c[0] = 0 /\ f[0] = "command" /\ c[1] = n
    BY <1>4, <1>5 DEF Parses
  <2>2. c[1] = c[1 - 1] + Worth(f[1 - 1], o2d[1])
    BY <1>4, <1>5 DEF Parses
  <2>3. Worth("command", "ping") = 1
    BY DEF Worth, Request
  <2> QED
    BY <1>5, <2>1, <2>2, <2>3
<1>7. Len(d2o) # 0
  BY <1>2, <1>3, <1>6
<1> QED
  BY <1>7, EmptySeq

LEMMA PingsProgram ==
    ASSUME LInv, Ends, Due, Pings, ProgramWorks, ~LinkDown
    PROVE  Pings'
<1>1. /\ UNCHANGED <<thread, link, at, skew>> /\ dpc # "off"
  BY ProgramKeeps
<1> SUFFICES ASSUME thread
             PROVE  /\ at # "pinging" => Without("ping", o2d') /\ Without("pong", d2o')
                    /\ at = "pinging" =>
                          /\ PingLast(o2d')
                          /\ Without("pong", d2o') \/ Without("ping", o2d')
                          /\ skew /\ d2o' # <<>> => Head(d2o') # "pong"
  BY <1>1 DEF Pings
<1>2. o2d \in Seq(Package) /\ d2o \in Seq(Package)
  BY DEF LInv, TypeOK
<1>3. /\ Without("ping", o2d) => Without("ping", o2d')
      /\ PingLast(o2d) => PingLast(o2d')
  <2>1. o2d' = o2d \/ (o2d # <<>> /\ (o2d' = Tail(o2d) \/ o2d' = <<"rest">> \o Tail(o2d)))
    BY ProgramTakes
  <2>2. CASE o2d # <<>>
    <3>1. Tail(o2d) \in Seq(Package)
      BY <1>2, <2>2, TailAt
    <3>2. /\ Without("ping", o2d) => Without("ping", Tail(o2d))
          /\ PingLast(o2d) => PingLast(Tail(o2d))
      BY <1>2, <2>2, WithoutTail
    <3> QED
      BY <2>1, <3>1, <3>2, WithoutRest
  <2> QED
    BY <2>1, <2>2
<1>4. CASE d2o' = d2o
  BY <1>3, <1>4 DEF Pings
<1>5. ASSUME NEW v \in Seq(Package), d2o' = d2o \o v, v # <<>>, Without("pong", v)
      PROVE  /\ at # "pinging" => Without("ping", o2d') /\ Without("pong", d2o')
             /\ at = "pinging" =>
                   /\ PingLast(o2d')
                   /\ Without("pong", d2o') \/ Without("ping", o2d')
                   /\ skew /\ d2o' # <<>> => Head(d2o') # "pong"
  <2>1. Without("pong", d2o) => Without("pong", d2o')
    BY <1>2, <1>5, WithoutConcat
  <2>2. Head(d2o') = IF d2o = <<>> THEN Head(v) ELSE Head(d2o)
    BY <1>2, <1>5, ConcatHead
  <2>3. Head(v) # "pong"
    BY <1>5, WithoutTail
  <2> QED
    BY <1>3, <2>1, <2>2, <2>3 DEF Pings
<1>6. CASE /\ dpc = "command" /\ o2d # <<>> /\ Head(o2d) = "ping" /\ o2d' = Tail(o2d)
           /\ dpc' = dpc /\ link = "up" /\ d2o' = d2o \o <<"pong">>
  <2>1. at = "pinging"
    <3>1. CASE at # "pinging"
      <4>1. Without("ping", o2d)
        BY <3>1 DEF Pings
      <4> QED
        BY <1>2, <1>6, <4>1, WithoutTail
    <3> QED
      BY <3>1
  <2>2. o2d' = <<>>
    BY <1>2, <1>6, <2>1, WithoutTail DEF Pings
  <2>3. Without("ping", o2d') /\ PingLast(o2d')
    BY <2>2 DEF Without, PingLast
  <2>4. skew => Head(d2o') # "pong"
    <3>1. SUFFICES ASSUME skew  PROVE Head(d2o') # "pong"
      OBVIOUS
    <3>2. d2o # <<>>
      BY <1>6, <2>1, <2>2, <3>1, PingLate
    <3>3. <<"pong">> \in Seq(Package)
      BY Words
    <3>4. Head(d2o') = Head(d2o)
      BY <1>2, <1>6, <3>2, <3>3, ConcatHead
    <3> QED
      BY <2>1, <3>1, <3>2, <3>4 DEF Pings
  <2> QED
    BY <2>1, <2>3, <2>4
<1> QED
  BY <1>4, <1>5, <1>6, AnswerPong

LEMMA PingsThread ==
    ASSUME LInv, Ends, Answered, Pings,
           \/ Asks \/ Ping \/ SendArchive \/ SendSource \/ ReadList \/ Pong \/ ReadCode
           \/ ReadText \/ NoArchive
    PROVE  Pings'
<1>1. thread /\ o2d \in Seq(Package) /\ d2o \in Seq(Package)
  BY ThreadKeeps DEF LInv, TypeOK, ThreadWorks
<1>2. CASE Asks
  <2>1. PICK e \in Entry : AskImport(e) \/ AskDestroy(e)
                           \/ \E lang \in {"known", "unknown"} : AskJudge(e, lang)
    BY <1>2 DEF Asks
  <2>2. /\ at = "waiting" /\ at' \in {"opening", "sending", "destroying"} /\ d2o' = d2o
    BY <2>1 DEF AskImport, AskDestroy, AskJudge, Ask
  <2>3. Without("ping", o2d) /\ Without("pong", d2o)
    BY <1>1, <2>2 DEF Pings
  <2>4. \/ \E r \in {"import", "destroy"} : Write(<<r, e>>)
        \/ \E lang \in {"known", "unknown"} : Write(<<"judge", e, lang>>)
    BY <2>1 DEF AskImport, AskDestroy, AskJudge, Ask
  <2>5. "ping" \notin Entry /\ {"import", "destroy", "judge"} \subseteq Request
    BY NameAssumption DEF Request
  <2>6. ASSUME NEW r \in {"import", "destroy"}, Write(<<r, e>>)  PROVE Without("ping", o2d')
    <3>1. <<r, e>> \in Seq(Package)
      BY <2>5, NamedAsk
    <3>2. Without("ping", <<r, e>>)
      BY <2>5 DEF Without
    <3> QED
      BY <1>1, <2>3, <2>6, <3>1, <3>2, WithoutConcat DEF Write
  <2>7. ASSUME NEW lang \in {"known", "unknown"}, Write(<<"judge", e, lang>>)
        PROVE  Without("ping", o2d')
    <3>1. <<"judge", e, lang>> \in Seq(Package)
      BY <2>5, NamedAsk
    <3>2. Without("ping", <<"judge", e, lang>>)
      <4> DEFINE t == <<"judge", e, lang>>
      <4>1. Len(t) = 3 /\ t[1] = "judge" /\ t[2] = e /\ t[3] = lang
        OBVIOUS
      <4> HIDE DEF t
      <4>2. Without("ping", t)
        BY <2>5, <4>1 DEF Without
      <4> QED
        BY <4>2 DEF t
    <3> QED
      BY <1>1, <2>3, <2>7, <3>1, <3>2, WithoutConcat DEF Write
  <2> QED
    BY <2>2, <2>3, <2>4, <2>6, <2>7 DEF Pings
<1>3. CASE Ping
  <2>1. at = "waiting" /\ at' = "pinging" /\ Write(<<"ping">>) /\ d2o' = d2o
    BY <1>3 DEF Ping
  <2>2. Without("ping", o2d) /\ Without("pong", d2o)
    BY <1>1, <2>1 DEF Pings
  <2>3. <<"ping">> \in Seq(Package) /\ PingLast(<<"ping">>)
    BY Words DEF PingLast
  <2>4. PingLast(o2d')
    <3>1. PingLast(o2d)
      BY <2>2 DEF Without, PingLast
    <3> QED
      BY <1>1, <2>1, <2>2, <2>3, <3>1, WithoutConcat DEF Write
  <2>5. d2o' # <<>> => Head(d2o') # "pong"
    BY <1>1, <2>1, <2>2, WithoutTail
  <2> QED
    BY <2>1, <2>2, <2>4, <2>5 DEF Pings
<1>4. CASE SendArchive \/ SendSource
  <2>1. at \in {"opening", "sending"} /\ at' \in {"importing", "judging"} /\ d2o' = d2o
        /\ \E u \in {"archive", "source"} : Write(<<u>>)
    BY <1>4 DEF SendArchive, SendSource, SendFile
  <2>2. Without("ping", o2d) /\ Without("pong", d2o)
    BY <1>1, <2>1 DEF Pings
  <2>3. ASSUME NEW u \in {"archive", "source"}, Write(<<u>>)  PROVE Without("ping", o2d')
    <3>1. <<u>> \in Seq(Package) /\ Without("ping", <<u>>)
      BY Words DEF Without
    <3> QED
      BY <1>1, <2>2, <2>3, <3>1, WithoutConcat DEF Write
  <2> QED
    BY <2>1, <2>2, <2>3 DEF Pings
<1>5. CASE ReadList \/ ReadCode \/ ReadText
  <2>1. /\ o2d' = o2d /\ d2o # <<>> /\ d2o' = Tail(d2o)
        /\ at' = at \/ at' = "waiting"
    BY <1>5 DEF ReadList, ReadCode, ReadText
  <2>2. at # "pinging"
    BY <1>5 DEF ReadList, ReadCode, ReadText, Ends
  <2>3. Without("ping", o2d) /\ Without("pong", d2o)
    BY <1>1, <2>2 DEF Pings
  <2>4. Without("pong", d2o')
    BY <1>1, <2>1, <2>3, WithoutTail
  <2> QED
    BY <2>1, <2>2, <2>3, <2>4 DEF Pings
<1>6. CASE Pong
  <2>1. at = "pinging" /\ at' = "waiting" /\ d2o # <<>> /\ Head(d2o) = "pong" /\ o2d' = o2d
        /\ d2o' = Tail(d2o)
    BY <1>6 DEF Pong
  <2>2. ~skew
    BY <1>1, <2>1 DEF Pings
  <2>3. d2o = <<"pong">>
    BY <1>1, <2>1, <2>2 DEF Answered
  <2>4. d2o' = <<>> /\ d2o[1] = "pong" /\ Len(d2o) = 1
    BY <2>1, <2>3
  <2>5. ~Without("pong", d2o)
    BY <2>4 DEF Without
  <2>6. Without("ping", o2d)
    BY <1>1, <2>1, <2>5 DEF Pings
  <2>7. Without("pong", d2o')
    BY <2>4 DEF Without
  <2> QED
    BY <2>1, <2>6, <2>7 DEF Pings
<1>7. CASE NoArchive
  <2>1. at = "opening" /\ at' = "waiting"
    BY <1>7 DEF NoArchive
  <2>2. UNCHANGED <<o2d, d2o>>
    BY <1>7 DEF NoArchive, wire
  <2> QED
    BY <1>1, <2>1, <2>2 DEF Pings
<1> QED
  BY <1>2, <1>3, <1>4, <1>5, <1>6, <1>7

LEMMA PingsNext == ASSUME LInv, Ends, Due, Answered, Pings, [Next]_vars PROVE Pings'
<1>1. CASE UNCHANGED vars
  <2>1. UNCHANGED <<o2d, d2o, thread, at, skew>>
    BY <1>1 DEF vars, wire, overlord, history
  <2> QED
    BY <2>1 DEF Pings
<1>2. CASE Connect
  <2>1. o2d' = <<"list">> /\ d2o' = <<>> /\ at' = "listing"
    BY <1>2 DEF Connect
  <2>2. Without("ping", o2d') /\ Without("pong", d2o')
    BY <2>1 DEF Without
  <2> QED
    BY <2>1, <2>2 DEF Pings
<1>3. CASE Leaves \/ OverlordKilled
  BY <1>3 DEF Leaves, LeaveDone, LeaveBroken, LeaveOutOfStep, SourceMissing, OverlordKilled,
     ThreadEnds, Pings
<1>4. CASE LinkDown \/ Killed
  <2>1. UNCHANGED <<o2d, d2o, thread, at, skew>>
    BY <1>4, EndKeeps
  <2> QED
    BY <2>1 DEF Pings
<1>5. CASE Reset
  <2>1. UNCHANGED <<thread, at, skew>>
    BY <1>5 DEF Reset, overlord, history
  <2>2. o2d \in Seq(Package) /\ d2o \in Seq(Package)
    BY DEF LInv, TypeOK
  <2>3. /\ Without("pong", d2o) => Without("pong", d2o')
        /\ d2o' # <<>> => d2o # <<>> /\ Head(d2o') = Head(d2o)
    BY <1>5, <2>2, WithoutCut, CutAt DEF Reset
  <2>4. /\ Without("ping", o2d) => Without("ping", o2d')
        /\ PingLast(o2d) => PingLast(o2d')
    BY <1>5, <2>2, WithoutCut DEF Reset
  <2> QED
    BY <2>1, <2>3, <2>4 DEF Pings
<1> QED
  BY <1>1, <1>2, <1>3, <1>4, <1>5, PingsThread, PingsProgram, NextWays

-----------------------------------------------------------------------------
(***************************************************************************)
(* The link implements DroneCall, one step at a time.                      *)
(***************************************************************************)
LEMMA CallInit == Init => Call!Init
  BY DEF Init, Call!Init

LEMMA CallStutters ==
    ASSUME UNCHANGED <<thread, at, entry, skew, seen, known>>, dpc # "off", dpc' # "off"
    PROVE  UNCHANGED Call!vars
  BY DEF Call!vars

(* The entry of the request is the only one that an answer is about. *)
LEMMA OneChanges ==
    ASSUME LInv, Disk, Active, ~skew
    PROVE  /\ disk = [seen EXCEPT ![entry] = disk[entry]]
           /\ disk[entry] \in DirState
           /\ at \in {"listing", "waiting", "pinging", "sending", "judging"} => disk = seen
<1>1. disk \in [Entry -> DirState] /\ seen \in [Entry -> DirState] /\ entry \in Entry
  BY DEF LInv, TypeOK
<1>2. \A e \in Entry \ {entry} : disk[e] = seen[e]
  BY DEF Disk
<1>3. disk = [seen EXCEPT ![entry] = disk[entry]]
  BY <1>1, <1>2
<1>4. at \in {"listing", "waiting", "pinging", "sending", "judging"} => disk = seen
  <2>1. at \in {"listing", "waiting", "pinging", "sending", "judging"} => disk[entry] = seen[entry]
    BY DEF Disk
  <2> QED
    BY <1>1, <1>2, <2>1
<1> QED
  BY <1>1, <1>3, <1>4

LEMMA CallConnect ==
    ASSUME LInv, Disk, Connect  PROVE Call!Connect
<1>1. /\ ~thread /\ dpc = "off" /\ thread' /\ at' = "listing" /\ skew' = FALSE /\ seen' = disk
      /\ entry' = entry
  BY DEF Connect
<1>2. disk \in [Entry -> DirState]
  BY DEF LInv, TypeOK
<1>3. ~skew => disk = seen
  BY <1>1 DEF Disk, Active
<1>4. seen' \in (IF skew THEN [Entry -> DirState] ELSE {seen})
  BY <1>1, <1>2, <1>3
<1> QED
  BY <1>1, <1>4 DEF Call!Connect, Call!DirState, DirState

LEMMA CallAsks ==
    ASSUME Asks  PROVE \E e \in Entry, call \in {"opening", "sending", "destroying"} : Call!Request(e, call)
<1>1. PICK e \in Entry : AskImport(e) \/ AskDestroy(e)
                         \/ \E lang \in {"known", "unknown"} : AskJudge(e, lang)
  BY DEF Asks
<1>2. /\ thread /\ at = "waiting" /\ entry' = e /\ at' \in {"opening", "sending", "destroying"}
      /\ UNCHANGED <<thread, known, skew, seen>>
  BY <1>1 DEF AskImport, AskDestroy, AskJudge, Ask, program, history
<1>3. Call!Request(e, at')
  BY <1>2 DEF Call!Request
<1> QED
  BY <1>2, <1>3

LEMMA CallWrites ==
    ASSUME LInv, Ping \/ SendArchive \/ SendSource
    PROVE  Call!Ping \/ Call!Sent("opening", "importing") \/ Call!Sent("sending", "judging")
<1>1. UNCHANGED <<thread, entry, known, skew, seen>>
  BY WriteWays
<1>2. thread /\ \/ at = "waiting" /\ at' = "pinging"
                \/ at = "opening" /\ at' = "importing"
                \/ at = "sending" /\ at' = "judging"
  BY DEF Ping, SendArchive, SendSource, SendFile
<1> QED
  BY <1>1, <1>2 DEF Call!Ping, Call!Sent

LEMMA CallList ==
    ASSUME LInv, Ends, Disk, Listen, ReadList
    PROVE  Call!Listed \/ UNCHANGED Call!vars
<1>1. thread /\ at = "listing" /\ d2o # <<>> /\ UNCHANGED <<thread, entry, dpc, skew, seen>>
  BY DEF ReadList, program, history
<1>2. CASE Head(d2o) = "end"
  <2>1. at' = "waiting" /\ known' = known
    BY <1>2 DEF ReadList
  <2>2. d2o \in Seq(Listed) /\ Known(d2o, known, Directories)
    BY <1>1 DEF LInv, Listing, Listen
  <2>3. Directories = known
    BY <1>1, <1>2, <2>2, KnownTail
  <2>4. disk = seen
    BY <1>1, OneChanges DEF Ends, Active
  <2>5. known' = {e \in Entry : seen[e] # "absent"}
    BY <2>1, <2>3, <2>4 DEF Directories
  <2> QED
    BY <1>1, <2>1, <2>5 DEF Call!Listed
<1>3. CASE Head(d2o) # "end"
  <2>1. at' = at
    BY <1>3 DEF ReadList
  <2> QED
    BY <1>1, <2>1 DEF Call!vars
<1> QED
  BY <1>2, <1>3

LEMMA CallPong ==
    ASSUME Pings, Pong  PROVE Call!Pong
<1>1. /\ thread /\ at = "pinging" /\ at' = "waiting" /\ d2o # <<>> /\ Head(d2o) = "pong"
      /\ UNCHANGED <<thread, entry, known, skew, seen>>
  BY DEF Pong, program, history
<1>2. ~skew
  BY <1>1 DEF Pings
<1> QED
  BY <1>1, <1>2 DEF Call!Pong

(***************************************************************************)
(* The message after the run code, or the end of the packages in its place,*)
(* is an answer.  What the overlord takes the answer to say is so.         *)
(***************************************************************************)
LEMMA CallAnswer ==
    ASSUME LInv, Ends, Disk, Truth, thread, code # "none",
           at = "importing" /\ link = "reset" => d2o # <<>>,
           IF thread' \/ dpc' # "off" THEN at' = "waiting" ELSE TRUE,
           at' = "waiting" \/ at' = at,
           entry' = entry, known' = NowKnown,
           seen' = (IF skew THEN seen ELSE disk),
           skew' \in {skew, TRUE}, at = "destroying" => skew' = skew
    PROVE  \E ok \in BOOLEAN :
              Call!Judged(ok) \/ \E s \in DirState : Call!Imported(ok, s) \/ Call!Destroyed(ok, s)
<1> DEFINE ok == code = "zero"
           s == seen'[entry]
<1>1. at \in {"importing", "judging", "destroying"} /\ at' # "listing"
  BY DEF Ends
<1>2. /\ seen \in [Entry -> DirState] /\ disk \in [Entry -> DirState] /\ entry \in Entry
      /\ known' = IF at = "importing" /\ ok THEN known \cup {entry} ELSE known
  BY DEF LInv, TypeOK, NowKnown
<1>3. s \in DirState /\ seen' = [seen EXCEPT ![entry] = s]
  <2>1. CASE skew
    BY <1>2, <2>1
  <2>2. CASE ~skew
    BY <2>2, OneChanges DEF Active
  <2> QED
    BY <2>1, <2>2
<1>4. Told >= 1 /\ (d2o # <<>> => Told >= 2)
  <2>1. Told = Len(d2o) + 1 /\ Len(d2o) \in Nat
    BY LenProperties DEF Told, LInv, TypeOK
  <2>2. d2o # <<>> => Len(d2o) # 0
    BY EmptySeq DEF LInv, TypeOK
  <2> QED
    BY <2>1, <2>2
<1>5. Ok <=> ok
  BY DEF Ok
<1>6. Call!Answered
  BY <1>1 DEF Call!Answered
<1>7. CASE at = "importing"
  <2>1. IF skew THEN s = seen[entry] ELSE ok <=> s = "ready"
    <3>1. CASE skew
      BY <3>1
    <3>2. CASE ~skew
      <4>1. Ok <=> disk[entry] = "ready"
        BY <1>4, <1>7, <3>2 DEF Truth
      <4> QED
        BY <1>5, <3>2, <4>1
    <3> QED
      BY <3>1, <3>2
  <2>2. known' = IF ok THEN known \cup {entry} ELSE known
    BY <1>2, <1>7
  <2> HIDE DEF s, ok
  <2>3. Call!Become(s)
    BY <1>3 DEF Call!Become
  <2>4. Call!Imported(ok, s)
    BY <1>1, <1>6, <1>7, <2>1, <2>2, <2>3 DEF Call!Imported
  <2>5. ok \in BOOLEAN
    BY DEF ok
  <2> QED
    BY <1>3, <2>4, <2>5
<1>8. CASE at = "judging"
  <2>1. ok => skew \/ seen[entry] # "absent"
    BY <1>4, <1>5, <1>8 DEF Truth
  <2>2. seen' = seen
    BY <1>8, OneChanges DEF Active
  <2>3. known' = known
    BY <1>2, <1>8
  <2>4. Call!Judged(ok)
    BY <1>1, <1>6, <1>8, <2>1, <2>2, <2>3 DEF Call!Judged
  <2> QED
    BY <2>4
<1>9. CASE at = "destroying"
  <2>1. IF skew THEN s = seen[entry] ELSE ok /\ s = "absent"
    <3>1. CASE skew
      BY <3>1
    <3>2. CASE ~skew
      <4>1. Ok /\ disk[entry] = "absent"
        BY <1>4, <1>9, <3>2 DEF Truth
      <4> QED
        BY <1>5, <3>2, <4>1
    <3> QED
      BY <3>1, <3>2
  <2>2. known' = known
    BY <1>2, <1>9
  <2> HIDE DEF s, ok
  <2>3. Call!Become(s)
    BY <1>3 DEF Call!Become
  <2>4. Call!Destroyed(ok, s)
    BY <1>1, <1>6, <1>9, <2>1, <2>2, <2>3 DEF Call!Destroyed
  <2>5. ok \in BOOLEAN
    BY DEF ok
  <2> QED
    BY <1>3, <2>4, <2>5
<1> QED
  BY <1>1, <1>7, <1>8, <1>9

(* A directory that was destroyed is the last that the link was asked for. *)
LEMMA DestroyQuiet ==
    ASSUME LInv, Ends, Route, Kind, Answered, ReadText, at = "destroying"
    PROVE  skew' = skew
<1>1. /\ thread /\ code # "none" /\ d2o # <<>> /\ d2o' = Tail(d2o)
      /\ UNCHANGED <<link, o2d, dpc>>
      /\ skew' = (skew \/ d2o' # <<>> \/ (link = "up" /\ ~Quiet'))
  BY DEF ReadText, program
<1>2. skew \in BOOLEAN /\ d2o \in Seq(Package)
  BY DEF LInv, TypeOK
<1>3. CASE skew
  BY <1>1, <1>2, <1>3
<1>4. CASE ~skew
  <2>1. Told <= 2 /\ Answering
    BY <1>1, <1>4 DEF Answered, Calling
  <2>2. Told = Len(d2o) + 1 /\ Len(d2o) \in Nat \ {0} /\ Len(d2o') = Len(d2o) - 1
        /\ d2o' \in Seq(Package)
    BY <1>1, <1>2, TailAt DEF Told
  <2>3. d2o' = <<>> /\ Told = 2
    BY <2>1, <2>2, EmptySeq
  <2>4. link = "up" => Quiet'
    <3>1. SUFFICES ASSUME link = "up"  PROVE o2d = <<>> /\ dpc = "command"
      BY <1>1, <2>3 DEF Quiet
    <3>2. ~Begun /\ dpc \notin {"importText", "text"} /\ dpc # "off"
      BY <2>1, <2>3, <3>1 DEF Answering, Ends
    <3>3. dpc = "command" /\ ~Asked(o2d)
      BY <3>2 DEF Begun
    <3>4. o2d = <<>>
      BY <1>4, <3>1, <3>3 DEF Kind
    <3> QED
      BY <3>3, <3>4
  <2> QED
    BY <1>1, <1>2, <1>4, <2>3, <2>4
<1> QED
  BY <1>3, <1>4

LEMMA CallText ==
    ASSUME LInv, Ends, Route, Kind, Disk, Answered, Truth, ReadText
    PROVE  Call!Next
<1>1. /\ thread /\ thread' /\ code # "none" /\ d2o # <<>> /\ at' = "waiting" /\ entry' = entry
      /\ known' = NowKnown /\ seen' = (IF skew THEN seen ELSE disk)
      /\ skew' = (skew \/ d2o' # <<>> \/ (link = "up" /\ ~Quiet'))
  BY DEF ReadText
<1>2. skew' \in {skew, TRUE}
  <2>1. skew \in BOOLEAN
    BY DEF LInv, TypeOK
  <2> QED
    BY <1>1, <2>1
<1>3. at = "destroying" => skew' = skew
  BY DestroyQuiet
<1>4. \E ok \in BOOLEAN :
         Call!Judged(ok) \/ \E s \in DirState : Call!Imported(ok, s) \/ Call!Destroyed(ok, s)
  BY <1>1, <1>2, <1>3, CallAnswer
<1> QED
  BY <1>4 DEF Call!Next, Call!DirState, DirState

(***************************************************************************)
(* The thread's or the program's end, whichever comes last, shows the disk:*)
(* it is as DroneCall says that a request without an answer leaves it.     *)
(***************************************************************************)
LEMMA CallLeaves ==
    ASSUME LInv, Disk, Active, at \notin {"off", "killed"}, entry' = entry,
           seen' = (IF skew THEN seen ELSE disk)
    PROVE  \E s \in Call!LeftAs : Call!Become(s)
<1>1. /\ seen \in [Entry -> DirState] /\ entry \in Entry
      /\ Call!LeftAs = IF at = "importing" THEN DirState
                       ELSE IF at \in {"opening", "destroying"} THEN {seen[entry], "absent", "broken"}
                       ELSE {seen[entry]}
  BY DEF LInv, TypeOK, Active, Call!LeftAs, Call!DirState, DirState
<1>2. seen' = [seen EXCEPT ![entry] = seen'[entry]] /\ seen'[entry] \in DirState
  <2>1. CASE skew
    BY <1>1, <2>1
  <2>2. CASE ~skew
    BY <2>2, OneChanges
  <2> QED
    BY <2>1, <2>2
<1>3. seen'[entry] \in Call!LeftAs
  <2>1. CASE skew \/ at = "importing"
    BY <1>1, <1>2, <2>1
  <2>2. CASE ~skew /\ at \in {"opening", "destroying"}
    BY <1>1, <2>2 DEF Disk
  <2>3. CASE ~skew /\ at \notin {"importing", "opening", "destroying"}
    <3>1. at \in {"listing", "waiting", "pinging", "sending", "judging"}
      BY <2>3 DEF LInv, TypeOK, ThreadState
    <3>2. seen' = seen
      BY <2>3, <3>1, OneChanges
    <3> QED
      BY <1>1, <2>3, <3>2
  <2> QED
    BY <2>1, <2>2, <2>3
<1>4. Call!Become(seen'[entry])
  BY <1>2 DEF Call!Become
<1> QED
  BY <1>3, <1>4

LEMMA CallGone ==
    ASSUME LInv, Ends, Route, Kind, Disk, Answered, Truth, Leaves
    PROVE  Call!Next \/ UNCHANGED Call!vars
<1>1. ThreadEnds /\ thread /\ at' = at /\ at \in ThreadState \ {"killed"}
      /\ \/ LeaveDone
         \/ known' = known /\ at # "waiting"
  BY DEF Leaves, LeaveDone, LeaveBroken, LeaveOutOfStep, SourceMissing, Ends, LInv, TypeOK
<1>2. ~thread' /\ UNCHANGED <<entry, skew, dpc, disk>> /\ seen' = SeenAtEnd
  BY <1>1 DEF ThreadEnds, program
<1>3. CASE dpc # "off"
  <2>1. seen' = seen
    BY <1>2, <1>3 DEF SeenAtEnd
  <2>2. known' = known
    BY <1>1, <1>3 DEF LeaveDone, Ends
  <2> QED
    BY <1>1, <1>2, <1>3, <2>1, <2>2 DEF Call!vars
<1>4. CASE dpc = "off"
  <2>1. seen' = (IF skew THEN seen ELSE disk)
    BY <1>2, <1>4 DEF SeenAtEnd
  <2>2. CASE LeaveDone
    <3>1. code # "none" /\ link = "closed" /\ known' = NowKnown
      BY <2>2 DEF LeaveDone
    <3>2. \E ok \in BOOLEAN :
             Call!Judged(ok) \/ \E s \in DirState : Call!Imported(ok, s) \/ Call!Destroyed(ok, s)
      BY <1>1, <1>2, <1>4, <2>1, <3>1, CallAnswer
    <3> QED
      BY <3>2 DEF Call!Next, Call!DirState, DirState
  <2>3. CASE known' = known /\ at # "waiting"
    <3>1. at # "off"
      BY <1>1 DEF ThreadState
    <3>2. \E s \in Call!LeftAs : Call!Become(s)
      BY <1>1, <1>2, <2>1, <3>1, CallLeaves DEF Active
    <3>3. Call!Leave
      BY <1>1, <1>2, <1>4, <2>3, <3>1, <3>2 DEF Call!Leave
    <3> QED
      BY <3>3 DEF Call!Next
  <2> QED
    BY <1>1, <2>2, <2>3
<1> QED
  BY <1>3, <1>4

LEMMA CallKilled ==
    ASSUME LInv, Ends, Disk, OverlordKilled
    PROVE  Call!Kill
<1>1. /\ thread /\ ~thread' /\ at' = "killed" /\ known' = {} /\ seen' = SeenAtEnd
      /\ UNCHANGED <<entry, skew, dpc, disk>> /\ at \in ThreadState \ {"killed"} /\ at # "off"
  BY DEF OverlordKilled, ThreadEnds, program, Ends, LInv, TypeOK, ThreadState
<1>2. CASE dpc # "off"
  <2>1. seen' = seen
    BY <1>1, <1>2 DEF SeenAtEnd
  <2> QED
    BY <1>1, <1>2, <2>1 DEF Call!Kill
<1>3. CASE dpc = "off"
  <2>1. seen' = (IF skew THEN seen ELSE disk)
    BY <1>1, <1>3 DEF SeenAtEnd
  <2>2. \E s \in Call!LeftAs : Call!Become(s)
    BY <1>1, <2>1, CallLeaves DEF Active
  <2> QED
    BY <1>1, <1>3, <2>2 DEF Call!Kill
<1> QED
  BY <1>2, <1>3

LEMMA CallProgramEnds ==
    ASSUME LInv, Ends, Route, Kind, Disk, Left, LinkDown \/ Killed
    PROVE  Call!Next \/ UNCHANGED Call!vars
<1>1. /\ dpc # "off" /\ dpc' = "off" /\ UNCHANGED <<thread, at, entry, known, skew>>
      /\ seen' = SeenAtEnd
  BY EndKeeps
<1>2. CASE thread
  <2>1. seen' = seen
    BY <1>1, <1>2 DEF SeenAtEnd
  <2> QED
    BY <1>1, <1>2, <2>1 DEF Call!vars
<1>3. CASE ~thread
  <2>1. seen' = (IF skew THEN seen ELSE disk')
    BY <1>1, <1>3 DEF SeenAtEnd
  <2>2. /\ disk \in [Entry -> DirState] /\ seen \in [Entry -> DirState] /\ entry \in Entry
        /\ at \in ThreadState \ {"waiting"} /\ at # "off"
    BY <1>1, <1>3 DEF LInv, TypeOK, Ends, ThreadState
  <2>3. ~skew => \/ disk' = disk
                 \/ /\ disk' = [disk EXCEPT ![entry] = "absent"]
                    /\ at \in {"opening", "importing", "killed"}
                 \/ disk' = Nothing /\ at = "killed"
    <3>1. CASE LinkDown
      <4>1. CASE link = "left" /\ dpc = "importName" /\ o2d = <<>>
        BY <4>1, <3>1, DownWays DEF Left, Naming
      <4>2. CASE ~(link = "left" /\ dpc = "importName" /\ o2d = <<>>)
        BY <4>2, <3>1, DownWays
      <4> QED
        BY <4>1, <4>2
    <3>2. CASE Killed
      <4>1. disk' = disk
        BY <3>2 DEF Killed
      <4> QED
        BY <4>1
    <3> QED
      BY <3>1, <3>2
  <2>4. ~skew => \A e \in Entry \ {entry} : disk[e] = seen[e]
    BY <1>1 DEF Disk, Active
  <2>5. CASE at = "killed"
    <3>1. seen' \in [Entry -> DirState]
      BY <2>1, <2>2, <2>3 DEF Nothing, DirState
    <3>2. \A e \in Entry \ {entry} : seen'[e] \in {seen[e], "absent"}
      <4>1. CASE skew
        BY <2>1, <4>1
      <4>2. CASE ~skew
        BY <2>1, <2>2, <2>3, <2>4, <4>2 DEF Nothing
      <4> QED
        BY <4>1, <4>2
    <3>3. Call!AfterKill
      BY <1>1, <1>3, <2>5, <3>1, <3>2 DEF Call!AfterKill, Call!DirState, DirState
    <3> QED
      BY <3>3 DEF Call!Next
  <2>6. CASE at # "killed" /\ (skew \/ disk' = disk)
    <3>1. seen' = (IF skew THEN seen ELSE disk)
      BY <2>1, <2>6
    <3>2. \E s \in Call!LeftAs : Call!Become(s)
      BY <1>1, <2>2, <2>6, <3>1, CallLeaves DEF Active
    <3>3. Call!Leave
      BY <1>1, <1>3, <2>2, <2>6, <3>2 DEF Call!Leave
    <3> QED
      BY <3>3 DEF Call!Next
  <2>7. CASE at # "killed" /\ ~skew /\ disk' # disk
    <3>1. disk' = [disk EXCEPT ![entry] = "absent"] /\ at \in {"opening", "importing"}
      BY <2>3, <2>7
    <3>2. seen' = [seen EXCEPT ![entry] = "absent"]
      BY <2>1, <2>2, <2>4, <2>7, <3>1
    <3>3. "absent" \in Call!LeftAs
      BY <1>1, <3>1 DEF Call!LeftAs, Call!DirState
    <3>4. Call!Become("absent")
      BY <3>2 DEF Call!Become
    <3>5. Call!Leave
      BY <1>1, <1>3, <2>2, <2>7, <3>3, <3>4 DEF Call!Leave
    <3> QED
      BY <3>5 DEF Call!Next
  <2> QED
    BY <2>5, <2>6, <2>7
<1> QED
  BY <1>2, <1>3

-----------------------------------------------------------------------------
InStep == /\ Route /\ Kind /\ Disk /\ Left /\ Listen /\ Answered /\ Truth /\ Pings

LEMMA InStepInvariant == Spec => [](LInv /\ Ends /\ InStep)
<1>1. Init => InStep
  <2> SUFFICES ASSUME Init  PROVE InStep
    OBVIOUS
  <2>1. Route /\ Kind /\ Left /\ Listen /\ Answered /\ Truth /\ Pings
    BY DEF Init, Route, Kind, Left, Whole, Naming, Listen, Answered, Truth, Pings
  <2>2. Disk
    BY DEF Init, Disk, Active
  <2> QED
    BY <2>1, <2>2 DEF InStep
<1>2. (LInv /\ Ends /\ Due) /\ LInv' /\ InStep /\ [Next]_vars => InStep'
  <2> SUFFICES ASSUME LInv, Ends, Due, LInv', InStep, [Next]_vars  PROVE InStep'
    OBVIOUS
  <2>1. Route /\ Kind /\ Disk /\ Left /\ Listen /\ Answered /\ Truth /\ Pings
    BY DEF InStep
  <2>2. Route' /\ Kind'
    BY <2>1, RouteNext, KindNext
  <2>3. Disk' /\ Left' /\ Listen'
    BY <2>1, DiskNext, LeftNext, ListenNext
  <2>4. Answered' /\ Truth' /\ Pings'
    BY <2>1, AnsweredNext, TruthNext, PingsNext
  <2> QED
    BY <2>2, <2>3, <2>4 DEF InStep
<1> QED
  BY <1>1, <1>2, DueInvariant, PTL DEF Spec

LEMMA CallStep ==
    ASSUME LInv, Ends, InStep, [Next]_vars
    PROVE  [Call!Next]_(Call!vars)
<1>1. Route /\ Kind /\ Disk /\ Left /\ Listen /\ Answered /\ Truth /\ Pings
  BY DEF InStep
<1>2. CASE UNCHANGED vars
  <2>1. UNCHANGED <<thread, at, entry, known, dpc, skew, seen>>
    BY <1>2 DEF vars, overlord, program, history
  <2> QED
    BY <2>1 DEF Call!vars
<1>3. CASE Connect
  <2>1. Call!Connect
    BY <1>1, <1>3, CallConnect
  <2> QED
    BY <2>1 DEF Call!Next
<1>4. CASE Asks
  BY <1>4, CallAsks DEF Call!Next
<1>5. CASE Ping \/ SendArchive \/ SendSource
  BY <1>5, CallWrites DEF Call!Next
<1>6. CASE ReadList
  BY <1>1, <1>6, CallList DEF Call!Next
<1>7. CASE Pong
  BY <1>1, <1>7, CallPong DEF Call!Next
<1>8. CASE ReadCode
  <2>1. UNCHANGED <<thread, at, entry, known, dpc, skew, seen>>
    BY <1>8 DEF ReadCode, program, history
  <2> QED
    BY <2>1 DEF Call!vars
<1>9. CASE ReadText
  BY <1>1, <1>9, CallText
<1>10. CASE NoArchive
  <2>1. /\ thread /\ at = "opening" /\ at' = "waiting" /\ skew' = TRUE
        /\ UNCHANGED <<thread, entry, known, seen>>
    BY <1>10 DEF NoArchive
  <2>2. Call!NoArchive
    BY <2>1 DEF Call!NoArchive
  <2> QED
    BY <2>2 DEF Call!Next
<1>11. CASE Leaves
  BY <1>1, <1>11, CallGone
<1>12. CASE OverlordKilled
  <2>1. Call!Kill
    BY <1>1, <1>12, CallKilled
  <2> QED
    BY <2>1 DEF Call!Next
<1>13. CASE ProgramWorks /\ ~LinkDown
  BY <1>13, ProgramKeeps, CallStutters
<1>14. CASE LinkDown \/ Killed
  BY <1>1, <1>14, CallProgramEnds
<1>15. CASE Reset
  <2>1. UNCHANGED <<thread, at, entry, known, dpc, skew, seen>>
    BY <1>15 DEF Reset, overlord, program, history
  <2> QED
    BY <2>1 DEF Call!vars
<1> QED
  BY <1>2, <1>3, <1>4, <1>5, <1>6, <1>7, <1>8, <1>9, <1>10, <1>11, <1>12, <1>13, <1>14, <1>15,
     NextWays

(***************************************************************************)
(* What the two ends do with a connection (Drone::run_, RequestHandler::   *)
(* run) is what the overlord's model takes a call to do, for any entries   *)
(* and any number of requests: in step an answer tells what became of the  *)
(* entry, and out of step the next ping ends the link.                     *)
(***************************************************************************)
THEOREM LinkImplementsCall == Spec => CallSpec
<1>1. Spec => Call!Init
  BY CallInit DEF Spec
<1>2. (LInv /\ Ends /\ InStep) /\ [Next]_vars => [Call!Next]_(Call!vars)
  BY CallStep
<1> QED
  BY <1>1, <1>2, InStepInvariant, PTL DEF Spec, CallSpec, Call!Spec

=============================================================================
