------------------------------ MODULE DroneLink -----------------------------
(***************************************************************************)
(* The packages between a drone's thread in the overlord (Drone::run_) and *)
(* the drone's program (RequestHandler::run and its handlers).             *)
(*                                                                         *)
(* Neither end numbers its packages: the thread takes the next package for *)
(* the answer to its last request, the program takes the next package for  *)
(* a command or for whatever its handler reads next.  A package is a       *)
(* command word, an entry name or the kind of its content; names of        *)
(* entries are not command words.                                          *)
(***************************************************************************)
EXTENDS Integers, SequencesExt

CONSTANTS
    Entry,    \* names of entries
    MaxCalls  \* bound: imports, judges and destroys the overlord asks for

ASSUME CallsAssumption == MaxCalls \in Nat /\ IsFiniteSet(Entry)

Request == {"import", "judge", "destroy"}

Content == {"archive", "rest", "source", "known", "unknown"}

Answer == {"pong", "invalid", "zero", "code", "text", "end"}

Package == Entry \cup Request \cup Content \cup Answer \cup {"list", "ping"}

ASSUME NameAssumption ==
    Entry \cap (Request \cup Content \cup Answer \cup {"list", "ping"}) = {}

DirState == {"absent", "broken", "ready"}

VARIABLES
    link,    \* "up", "left" by the overlord, "closed" by the drone, "reset"
    o2d,     \* packages on their way to the drone
    d2o,     \* packages on their way to the overlord
    thread,  \* the overlord has a thread for this link
    at,      \* where it is
    entry,   \* the entry of its last request
    code,    \* the run code it has read: "none", "zero", "other"
    known,   \* Drone::myEntries
    dpc,     \* where the drone's program is
    name,    \* the package its handler read as a name
    disk,    \* its directories
    calls,   \* requests so far
    skew,    \* history: the link was not quiet after a request
    seen     \* history: the directories, as far as answers and lists told

wire == <<link, o2d, d2o>>
overlord == <<thread, at, entry, code, known, calls>>
program == <<dpc, name, disk>>
history == <<skew, seen>>
vars == <<wire, overlord, program, history>>

ThreadState == {"listing", "waiting", "pinging", "opening", "importing",
                "sending", "judging", "destroying", "killed"}

Reading == {"command", "importName", "importArchive", "destroyName",
            "judgeName", "judgeLang", "judgeSource"}

Working == {"importing", "importText", "destroying", "judging", "text"}

-----------------------------------------------------------------------------
(***************************************************************************)
(* The overlord's thread.  What it writes to a link that is down is lost.  *)
(***************************************************************************)
Write(packages) == o2d' = IF link = "up" THEN o2d \o packages ELSE o2d

(***************************************************************************)
(* A new connection: the program runs and the thread asks for the list.    *)
(***************************************************************************)
Connect ==
    /\ ~thread /\ dpc = "off"
    /\ link' = "up" /\ o2d' = <<"list">> /\ d2o' = <<>>
    /\ thread' = TRUE /\ at' = "listing" /\ code' = "none" /\ known' = {}
    /\ dpc' = "command"
    /\ skew' = FALSE /\ seen' = disk
    /\ UNCHANGED <<entry, calls, name, disk>>

ReadList ==
    /\ thread /\ at = "listing" /\ d2o # <<>>
    /\ d2o' = Tail(d2o)
    /\ IF Head(d2o) = "end"
       THEN at' = "waiting" /\ UNCHANGED known
       ELSE known' = known \cup {Head(d2o)} /\ UNCHANGED at
    /\ UNCHANGED <<link, o2d, thread, entry, code, calls, program, history>>

Ping ==
    /\ thread /\ at = "waiting"
    /\ at' = "pinging"
    /\ Write(<<"ping">>)
    /\ UNCHANGED <<link, d2o, thread, entry, code, known, calls, program, history>>

Pong ==
    /\ thread /\ at = "pinging" /\ d2o # <<>> /\ Head(d2o) = "pong"
    /\ at' = "waiting"
    /\ d2o' = Tail(d2o)
    /\ UNCHANGED <<link, o2d, thread, entry, code, known, calls, program, history>>

Ask(e, to, packages) ==
    /\ thread /\ at = "waiting" /\ calls < MaxCalls
    /\ calls' = calls + 1
    /\ entry' = e
    /\ at' = to
    /\ Write(packages)
    /\ UNCHANGED <<link, d2o, thread, code, known, program, history>>

AskImport(e) == Ask(e, "opening", <<"import", e>>)

AskDestroy(e) == Ask(e, "destroying", <<"destroy", e>>)

AskSwapped(e, lang) == Ask(e, "sending", <<"judge", lang, e>>)  \* mutant: order
AskJudge(e, lang) == Ask(e, "sending", <<"judge", e, lang>>)

SendFile(from, to, package) ==
    /\ thread /\ at = from
    /\ at' = to
    /\ Write(<<package>>)
    /\ UNCHANGED <<link, d2o, thread, entry, code, known, calls, program, history>>

SendArchive == SendFile("opening", "importing", "archive")

SendSource == SendFile("sending", "judging", "source")

(***************************************************************************)
(* Drone::import returns when the archive cannot be opened.                *)
(***************************************************************************)
NoArchive ==
    /\ thread /\ at = "opening"
    /\ at' = "waiting"
    /\ skew' = TRUE
    /\ UNCHANGED <<wire, thread, entry, code, known, calls, program, seen>>

(***************************************************************************)
(* atoi of a package: "invalid command" and most texts are no number, so   *)
(* they read as zero, RUN_SUCCESS.  readString has room here for 10 or 12  *)
(* bytes (drone.cc:52, 103, 137): a longer message read as a code, out of  *)
(* step, is written past them (Overrun in PackageSocket).  What the        *)
(* overlord does after that is undefined and not in this model, which      *)
(* follows the case in which the message fits.                             *)
(***************************************************************************)
RawCode(p) == {p}  \* mutant: the package is not converted
CodeOf(p) ==
    CASE p = "code" -> {"other"}
      [] p = "text" -> {"zero", "other"}
      [] OTHER -> {"zero"}

ReadCode ==
    /\ thread /\ at \in {"importing", "judging", "destroying"} /\ code = "none"
    /\ d2o # <<>>
    /\ code' \in CodeOf(Head(d2o))
    /\ d2o' = Tail(d2o)
    /\ UNCHANGED <<link, o2d, thread, at, entry, known, calls, program, history>>

NowKnown ==
    IF at = "importing" /\ code = "zero" THEN known \cup {entry} ELSE known

Quiet == o2d = <<>> /\ d2o = <<>> /\ dpc = "command"

(***************************************************************************)
(* The message that follows the run code ends the request.                 *)
(***************************************************************************)
ReadText ==
    /\ thread /\ code # "none" /\ d2o # <<>>
    /\ d2o' = Tail(d2o)
    /\ at' = "waiting"
    /\ code' = "none"
    /\ known' = NowKnown
    /\ UNCHANGED <<link, o2d, thread, entry, calls, program>>
    /\ skew' = (skew \/ d2o' # <<>> \/ (link = "up" /\ ~Quiet'))
    /\ seen' = IF skew THEN seen ELSE disk

(***************************************************************************)
(* The thread ends; what is known of the disk once the program has ended.  *)
(***************************************************************************)
SeenAtEnd == IF thread' \/ dpc' # "off" \/ skew THEN seen ELSE disk'

ThreadEnds ==
    /\ thread' = FALSE
    /\ code' = "none"
    /\ link' = IF link = "up" THEN "left" ELSE link
    /\ UNCHANGED <<d2o, entry, calls, program, skew>>
    /\ seen' = SeenAtEnd

(***************************************************************************)
(* The end of the packages where the message was due: the job is done and  *)
(* the loop ends.                                                          *)
(***************************************************************************)
LeaveDone ==
    /\ thread /\ code # "none" /\ link = "closed" /\ d2o = <<>>
    /\ known' = NowKnown
    /\ ThreadEnds
    /\ UNCHANGED <<o2d, at>>

(***************************************************************************)
(* The end of the packages, or an error, anywhere else: "drone died", an   *)
(* exception when reading or writing, a list or a ping without an answer.  *)
(***************************************************************************)
LeaveBroken ==
    /\ thread /\ at # "waiting"
    /\ \/ link = "reset"
       \/ link = "closed" /\ at \in {"pinging", "opening", "sending"}
       \/ link = "closed" /\ d2o = <<>> /\ code = "none"
    /\ ThreadEnds
    /\ UNCHANGED <<o2d, at, known>>

(***************************************************************************)
(* A ping is answered by anything but "pong", or a run code is read from a *)
(* text, and the text is empty.                                            *)
(***************************************************************************)
LeaveOutOfStep ==
    /\ thread /\ d2o # <<>>
    /\ \/ at = "pinging" /\ Head(d2o) # "pong"
       \/ at \in {"importing", "judging", "destroying"} /\ code = "none"
          /\ Head(d2o) = "text"
    /\ ThreadEnds
    /\ UNCHANGED <<o2d, at, known>>

(***************************************************************************)
(* The source of a judge cannot be opened.                                 *)
(***************************************************************************)
SourceMissing ==
    /\ thread /\ at = "sending"
    /\ ThreadEnds
    /\ UNCHANGED <<o2d, at, known>>

(***************************************************************************)
(* The overlord is killed, between two packages it sends or later.         *)
(***************************************************************************)
OverlordKilled ==
    /\ thread
    /\ at' = "killed"
    /\ \E n \in 0..Len(o2d) : o2d' = SubSeq(o2d, 1, n)
    /\ known' = {}
    /\ ThreadEnds

ThreadWorks ==
    \/ ReadList \/ Ping \/ Pong \/ SendArchive \/ SendSource \/ ReadCode \/ ReadText
    \/ LeaveDone \/ LeaveBroken \/ LeaveOutOfStep

-----------------------------------------------------------------------------
(***************************************************************************)
(* The drone's program.  Answers to a link that is down are lost.          *)
(***************************************************************************)
Answers(packages) == d2o' = IF link = "up" THEN d2o \o packages ELSE d2o

Become(p, s) == disk' = IF p \in Entry THEN [disk EXCEPT ![p] = s] ELSE disk

(***************************************************************************)
(* RequestHandler::run: the next package is a command.  It is read with    *)
(* room for 128 bytes (main.cc:63): a longer package that was left on the  *)
(* link, a source or the rest of a file, is written past them before it    *)
(* can be found invalid.  Of what the program does after that the model    *)
(* has only its end (Killed).                                              *)
(***************************************************************************)
Directories == {e \in Entry : disk[e] # "absent"}

Handler(p) ==
    CASE p = "import" -> "importName" [] p = "destroy" -> "destroyName"
      [] p = "judge" -> "judgeName"

NoAnswer == <<>>  \* mutant: an unknown command is dropped
InvalidCommand == <<"invalid">>

Command ==
    /\ dpc = "command" /\ o2d # <<>>
    /\ o2d' = Tail(o2d)
    /\ LET p == Head(o2d)
       IN CASE p = "list" -> Answers(SetToSeq(Directories) \o <<"end">>) /\ UNCHANGED dpc
            [] p = "ping" -> Answers(<<"pong">>) /\ UNCHANGED dpc
            [] p \in Request -> dpc' = Handler(p) /\ UNCHANGED d2o
            [] OTHER -> Answers(InvalidCommand) /\ UNCHANGED dpc
    /\ UNCHANGED <<link, overlord, name, disk, history>>

ReadName(from, to) ==
    /\ dpc = from /\ o2d # <<>>
    /\ o2d' = Tail(o2d)
    /\ name' = Head(o2d)
    /\ dpc' = to
    /\ UNCHANGED <<link, d2o, overlord, history>>

(***************************************************************************)
(* ImportHandler: the directory is made before the archive is read.        *)
(***************************************************************************)
ImportName ==
    /\ ReadName("importName", "importArchive")
    /\ LET p == Head(o2d)
       IN IF p \in Entry /\ disk[p] = "absent" THEN Become(p, "broken") ELSE UNCHANGED disk

(***************************************************************************)
(* PackageSocket::readFD reads at most 128 kilobytes of a file; the rest,  *)
(* and what tar has not read when it gives up, is left on the link.        *)
(***************************************************************************)
ReadFile ==
    \/ o2d' = Tail(o2d)
    \/ Head(o2d) \in {"archive", "source", "rest"} /\ o2d' = <<"rest">> \o Tail(o2d)

(***************************************************************************)
(* The next package goes to tar, whatever it is.                           *)
(***************************************************************************)
ImportArchive ==
    /\ dpc = "importArchive" /\ o2d # <<>>
    /\ ReadFile
    /\ Become(name, IF Head(o2d) = "archive" THEN "broken" ELSE "absent")
    /\ dpc' = "importing"
    /\ UNCHANGED <<link, d2o, overlord, name, history>>

(***************************************************************************)
(* The outcome of an import: a complete directory, or a run code and no    *)
(* directory or a half done one.                                           *)
(***************************************************************************)
GoodIfThere(s) == IF s = "absent" THEN "code" ELSE "zero"  \* mutant: half is good
ImportCode(s) == IF s = "ready" THEN "zero" ELSE "code"

ImportEnds(s) ==
    /\ dpc = "importing"
    /\ name \in Entry => (disk[name] = "absent" => s = "absent")
    /\ Become(name, s)
    /\ Answers(<<ImportCode(s)>>)
    /\ dpc' = "importText"
    /\ UNCHANGED <<link, o2d, overlord, name, history>>

DestroyName ==
    /\ ReadName("destroyName", "destroying")
    /\ LET p == Head(o2d)
       IN IF p \in Entry /\ disk[p] = "ready" THEN Become(p, "broken") ELSE UNCHANGED disk

(***************************************************************************)
(* DestroyHandler: a package that is no valid name is refused.             *)
(***************************************************************************)
DestroyEnds(answer) ==
    /\ dpc = "destroying"
    /\ name \in Entry => answer = "zero"
    /\ Become(name, "absent")
    /\ Answers(<<answer>>)
    /\ dpc' = "text"
    /\ UNCHANGED <<link, o2d, overlord, name, history>>

JudgeName == ReadName("judgeName", "judgeLang") /\ UNCHANGED disk

(***************************************************************************)
(* JudgeHandler: an unknown language is answered before the source is read.*)
(***************************************************************************)
JudgeLang ==
    /\ dpc = "judgeLang" /\ o2d # <<>>
    /\ o2d' = Tail(o2d)
    /\ IF Head(o2d) = "known"
       THEN dpc' = "judgeSource" /\ UNCHANGED d2o
       ELSE dpc' = "text" /\ Answers(<<"code">>)
    /\ UNCHANGED <<link, overlord, name, disk, history>>

JudgeSource ==
    /\ dpc = "judgeSource" /\ o2d # <<>>
    /\ ReadFile
    /\ dpc' = "judging"
    /\ UNCHANGED <<link, d2o, overlord, name, disk, history>>

JudgeEnds(answer) ==
    /\ dpc = "judging"
    /\ answer = "zero" => name \in Entry /\ disk[name] # "absent"
    /\ Answers(<<answer>>)
    /\ dpc' = "text"
    /\ UNCHANGED <<link, o2d, overlord, name, disk, history>>

NoMessage == <<>>  \* mutant: the message after the run code is forgotten
Message == <<"text">>

Text ==
    /\ dpc \in {"importText", "text"}
    /\ Answers(Message)
    /\ dpc' = "command"
    /\ UNCHANGED <<link, o2d, overlord, name, disk, history>>

(***************************************************************************)
(* The program ends.  At the end of the packages it leaves its loop, but   *)
(* only after the handler that was reading has gone on with an empty       *)
(* package: an import of the name "" removes the directory of entries.  An *)
(* error of the socket is an exception, upon which an import removes its   *)
(* directory, and ends the program.                                        *)
(***************************************************************************)
ProgramEnds ==
    /\ dpc # "off"
    /\ dpc' = "off"
    /\ link' = IF link = "up" THEN "closed" ELSE link
    /\ UNCHANGED <<o2d, overlord, name, skew>>
    /\ seen' = SeenAtEnd

Nothing == [e \in Entry |-> "absent"]

LinkDown ==
    /\ link \in {"left", "reset"} /\ dpc # "destroying"
    /\ dpc \in Reading => link = "reset" \/ o2d = <<>>
    /\ CASE dpc = "importName" /\ link = "left" -> disk' = Nothing
         [] dpc \in {"importArchive", "importing", "importText"} -> Become(name, "absent")
         [] OTHER -> UNCHANGED disk
    /\ UNCHANGED d2o
    /\ ProgramEnds

(***************************************************************************)
(* The program is killed: what it has answered so far still arrives.       *)
(***************************************************************************)
Killed == UNCHANGED <<d2o, disk>> /\ ProgramEnds

(***************************************************************************)
(* The connection is reset, by the network or because one end closed it    *)
(* with packages unread: what is on the way arrives up to some point.      *)
(***************************************************************************)
Reset ==
    /\ link # "reset"
    /\ link' = "reset"
    /\ \E n \in 0..Len(d2o) : d2o' = SubSeq(d2o, 1, n)
    /\ \E n \in 0..Len(o2d) : o2d' = SubSeq(o2d, 1, n)
    /\ UNCHANGED <<overlord, program, history>>

ProgramWorks ==
    \/ Command \/ ImportName \/ ImportArchive \/ (\E s \in DirState : ImportEnds(s))
    \/ DestroyName \/ JudgeName \/ JudgeLang \/ JudgeSource
    \/ (\E answer \in {"zero", "code"} : DestroyEnds(answer) \/ JudgeEnds(answer))
    \/ Text \/ LinkDown

-----------------------------------------------------------------------------
Init ==
    /\ link = "left" /\ o2d = <<>> /\ d2o = <<>>
    /\ thread = FALSE /\ at = "waiting" /\ entry \in Entry /\ code = "none"
    /\ known = {} /\ calls = 0
    /\ dpc = "off" /\ name \in Entry
    /\ disk \in [Entry -> {"absent", "ready"}]
    /\ skew = FALSE /\ seen = disk

Next ==
    \/ Connect
    \/ \E e \in Entry : AskImport(e) \/ AskDestroy(e)
                         \/ \E lang \in {"known", "unknown"} : AskJudge(e, lang)
    \/ ThreadWorks \/ NoArchive \/ SourceMissing
    \/ ProgramWorks \/ Killed \/ OverlordKilled \/ Reset

Spec == Init /\ [][Next]_vars

(***************************************************************************)
(* Fairness: both ends are scheduled, and what a handler runs ends (it is  *)
(* run under time limits).  Nothing has to fail.                           *)
(***************************************************************************)
FairSpec == Spec /\ WF_vars(ThreadWorks) /\ WF_vars(ProgramWorks)

-----------------------------------------------------------------------------
(***************************************************************************)
(* Type correctness of both ends and of the link.                          *)
(***************************************************************************)
TypeOK ==
    /\ link \in {"up", "left", "closed", "reset"}
    /\ o2d \in Seq(Package) /\ d2o \in Seq(Package)
    /\ thread \in BOOLEAN
    /\ at \in ThreadState
    /\ entry \in Entry
    /\ code \in {"none", "zero", "other"}
    /\ known \subseteq Entry
    /\ dpc \in Reading \cup Working \cup {"off"}
    /\ name \in Package
    /\ disk \in [Entry -> DirState]
    /\ calls \in 0..MaxCalls
    /\ skew \in BOOLEAN
    /\ seen \in [Entry -> DirState]

(***************************************************************************)
(* A link that is out of step after a request never comes back in step by  *)
(* itself: when the thread is about to ask again, something of an earlier  *)
(* request is still on the link or in the program's hands.                 *)
(***************************************************************************)
OutOfStepStays == thread /\ at = "waiting" /\ skew /\ link = "up" => ~Quiet

(***************************************************************************)
(* Even out of step no handler takes a command, a language or a file for   *)
(* the name of an entry: one package is misread, and the next command is   *)
(* read as one.                                                            *)
(***************************************************************************)
NamesAreNames == dpc \notin Reading \cup {"off"} => name \in Entry

(***************************************************************************)
(* The link behaves as the overlord's model takes it to.  The thread's     *)
(* departure shows when the program has ended too, and what is on the disk *)
(* when an answer, the list or that departure shows it.                    *)
(***************************************************************************)
Call == INSTANCE DroneCall WITH
    at <- IF thread \/ dpc # "off" THEN at ELSE "off",
    dir <- seen,
    known <- IF at = "listing" THEN {} ELSE known

CallSpec == Call!Spec

(***************************************************************************)
(* No request leaves its thread waiting for an answer that does not come:  *)
(* in step or not, the program has always something to answer, or the link *)
(* ends.                                                                   *)
(***************************************************************************)
CallsEnd == (thread /\ at # "waiting") ~> (~thread \/ at = "waiting")

=============================================================================
