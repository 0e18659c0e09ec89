----------------------------- MODULE DroneEntry -----------------------------
(***************************************************************************)
(* The directory of one entry on a drone's machine, file by file, and what *)
(* the drone's handlers do to it and with it: import, judge, destroy,      *)
(* list.  The drone serves one request at a time and may be killed between *)
(* any two steps.                                                          *)
(*                                                                         *)
(* A program is known by its language and its role (input generator or     *)
(* reference), an output by who wrote it.  An archive is whatever tar      *)
(* unpacks of it; generators write inputs only.                            *)
(***************************************************************************)
EXTENDS Integers, FiniteSets

CONSTANTS
    Input,    \* names of input files
    Lang,     \* languages, each by its rank, the key of langByRank
    Compiled  \* those that have a compiler

ASSUME LangAssumption == Lang \subseteq Nat \ {0} /\ Compiled \subseteq Lang

VARIABLES
    pc,      \* the drone's program: off, waiting for a command, in a handler
    dir,     \* the directory's files
    langs,   \* the loop over langByRank: languages not yet finished
    todo,    \* the loop over the inputs: those not yet finished
    blind,   \* history: inputs a judge agreed on without a complete output
    whole,   \* history: dir is as an import left it that succeeded
    seen,    \* history: what answers and lists told of dir
    known    \* the overlord takes the drone to have the entry

vars == <<pc, dir, langs, todo, blind, whole, seen, known>>

Archive == 0  \* who wrote an output that is part of the archive

\* An output: not there, or written in part or in full, by whom, and whether
\* by the last import.
Output == [state : {"none", "partial", "full"}, by : Lang \cup {Archive}, fresh : BOOLEAN]

NoOutput == [state |-> "none", by |-> Archive, fresh |-> FALSE]

Truncated(who) == [state |-> "partial", by |-> who, fresh |-> TRUE]

Complete(who) == [state |-> "full", by |-> who, fresh |-> TRUE]

Directory == [there : BOOLEAN, inputsDir : BOOLEAN, config : {"none", "good", "bad"},
              inputs : SUBSET Input, generator : SUBSET Lang, reference : SUBSET Lang,
              output : [Input -> Output]]

Nothing == [there |-> FALSE, inputsDir |-> FALSE, config |-> "none",
            inputs |-> {}, generator |-> {}, reference |-> {},
            output |-> [i \in Input |-> NoOutput]]

Emptied == [Nothing EXCEPT !.there = TRUE]

Importing == {"making", "unpacking", "checking", "generating", "compiling", "running",
              "removing", "emptying"}

State == Importing \cup {"off", "listing", "command", "pinging", "opening",
                         "sending", "judging", "comparing", "destroying"}

Goes(from, to) == pc = from /\ pc' = to

Kept == UNCHANGED <<whole, seen, known>>

(***************************************************************************)
(* What the overlord takes the directory to be.                            *)
(***************************************************************************)
Told(d, w) == IF ~d.there THEN "absent" ELSE IF w THEN "ready" ELSE "broken"

(***************************************************************************)
(* The end of a handler.                                                   *)
(***************************************************************************)
Answers ==
    /\ pc' = "command"
    /\ seen' = Told(dir', whole')
    /\ langs' = {} /\ todo' = {} /\ blind' = {}

Ends == UNCHANGED <<dir, whole, known>> /\ Answers

-----------------------------------------------------------------------------
(***************************************************************************)
(* ImportHandler::handle.  The directory and its subdirectories are made;  *)
(* one that is there already is used as it is.                             *)
(***************************************************************************)
Stale(o) == [i \in Input |-> [o[i] EXCEPT !.fresh = FALSE]]

MakeDirectory ==
    /\ Goes("making", "unpacking")
    /\ dir' = [dir EXCEPT !.there = TRUE, !.inputsDir = TRUE, !.output = Stale(@)]
    /\ whole' = FALSE
    /\ UNCHANGED <<langs, todo, blind, seen, known>>

(***************************************************************************)
(* tar writes the next file of the archive.                                *)
(***************************************************************************)
Unpacked(d) ==
    {[d EXCEPT !.config = c] : c \in {"good", "bad"}}
    \cup {[d EXCEPT !.inputs = @ \cup {i}] : i \in Input}
    \cup {[d EXCEPT !.generator = @ \cup {l}] : l \in Lang}
    \cup {[d EXCEPT !.reference = @ \cup {l}] : l \in Lang}
    \cup {[d EXCEPT !.output[i] = Complete(Archive)] : i \in Input}

Unpack ==
    /\ pc = "unpacking"
    /\ dir' \in Unpacked(dir)
    /\ UNCHANGED <<pc, langs, todo, blind>> /\ Kept

TarEnds ==
    /\ Goes("unpacking", "checking")
    /\ UNCHANGED <<dir, langs, todo, blind>> /\ Kept

(***************************************************************************)
(* parseConfig throws for a file that is not there or cannot be parsed; of *)
(* the limits it returns the handler keeps nothing.                        *)
(***************************************************************************)
ParseConfig ==
    /\ dir.config = "good"
    /\ Goes("checking", "generating")
    /\ langs' = Lang
    /\ UNCHANGED <<dir, todo, blind>> /\ Kept

(***************************************************************************)
(* The language the loop is at.                                            *)
(***************************************************************************)
Current(l) == l \in langs /\ \A m \in langs : l <= m

NextLang(l) == langs' = langs \ {l}

(***************************************************************************)
(* An input generator in this language, if there is one, is compiled and   *)
(* run; it writes inputs.                                                  *)
(***************************************************************************)
Generate(l) ==
    /\ pc = "generating" /\ Current(l)
    /\ NextLang(l)
    /\ \E new \in SUBSET (IF l \in dir.generator THEN Input ELSE {}) :
          dir' = [dir EXCEPT !.inputs = @ \cup new]
    /\ UNCHANGED <<pc, todo, blind>> /\ Kept

Generated ==
    /\ langs = {}
    /\ Goes("generating", "compiling")
    /\ langs' = Lang
    /\ UNCHANGED <<dir, todo, blind>> /\ Kept

(***************************************************************************)
(* A reference in this language, if there is one, is compiled, and run on  *)
(* every input that the directory then has.                                *)
(***************************************************************************)
NoReference(l) ==
    /\ pc = "compiling" /\ Current(l) /\ l \notin dir.reference
    /\ NextLang(l)
    /\ UNCHANGED <<pc, dir, todo, blind>> /\ Kept

OnlyWithout == {i \in dir.inputs : dir.output[i].state = "none"}  \* mutant: existing outputs are kept
InputsToRun == dir.inputs

CompileReference(l) ==
    /\ Current(l) /\ l \in dir.reference
    /\ Goes("compiling", "running")
    /\ todo' = InputsToRun
    /\ UNCHANGED <<dir, langs, blind>> /\ Kept

(***************************************************************************)
(* The output of the next input is truncated, then written.                *)
(***************************************************************************)
InWork(i, l) == i \in todo /\ dir.output[i] = Truncated(l)

OpenOutput(i, l) ==
    /\ pc = "running" /\ Current(l) /\ i \in todo
    /\ \A j \in Input : ~InWork(j, l)
    /\ dir' = [dir EXCEPT !.output[i] = Truncated(l)]
    /\ UNCHANGED <<pc, langs, todo, blind>> /\ Kept

RunReference(i, l) ==
    /\ pc = "running" /\ Current(l) /\ InWork(i, l)
    /\ dir' = [dir EXCEPT !.output[i] = Complete(l)]
    /\ todo' = todo \ {i}
    /\ UNCHANGED <<pc, langs, blind>> /\ Kept

ReferenceBreaks(l) ==  \* mutant: the loop over the inputs ends early
    /\ Current(l)
    /\ Goes("running", "compiling")
    /\ NextLang(l)
    /\ UNCHANGED <<dir, todo, blind>> /\ Kept

ReferenceDone(l) ==
    /\ todo = {} /\ Current(l)
    /\ Goes("running", "compiling")
    /\ NextLang(l)
    /\ UNCHANGED <<dir, todo, blind>> /\ Kept

ImportSucceeds ==
    /\ pc = "compiling" /\ langs = {}
    /\ whole' = TRUE
    /\ known' = TRUE
    /\ UNCHANGED dir
    /\ Answers

(***************************************************************************)
(* A program that does not compile ends the import and leaves the          *)
(* directory.                                                              *)
(***************************************************************************)
CompileFails(l) ==
    /\ Current(l) /\ l \in Compiled
    /\ \/ pc = "generating" /\ l \in dir.generator
       \/ pc = "compiling" /\ l \in dir.reference
    /\ Ends

(***************************************************************************)
(* Otherwise the directory is removed, and then the run code written: when *)
(* tar, the configuration or a generator fails, and upon any exception.    *)
(***************************************************************************)
ImportFails ==
    /\ pc \in {"making", "unpacking", "checking", "generating", "compiling", "running"}
    /\ pc' = "removing"
    /\ langs' = {} /\ todo' = {}
    /\ whole' = FALSE
    /\ UNCHANGED <<dir, blind, seen, known>>

(***************************************************************************)
(* When a reference fails on an input, rmrf(".") empties the directory but *)
(* cannot remove it.                                                       *)
(***************************************************************************)
ReferenceFails(l) ==
    /\ Current(l) /\ \E i \in Input : InWork(i, l)
    /\ Goes("running", "emptying")
    /\ langs' = {} /\ todo' = {}
    /\ UNCHANGED <<dir, blind>> /\ Kept

(***************************************************************************)
(* rmrf: one file after the other, in any order.                           *)
(***************************************************************************)
OneLess(d) ==
    {[d EXCEPT !.config = "none"]}
    \cup {[d EXCEPT !.inputs = @ \ {i}] : i \in Input}
    \cup {[d EXCEPT !.generator = @ \ {l}] : l \in Lang}
    \cup {[d EXCEPT !.reference = @ \ {l}] : l \in Lang}
    \cup {[d EXCEPT !.output[i] = NoOutput] : i \in Input}
    \cup (IF d.inputs = {} THEN {[d EXCEPT !.inputsDir = FALSE]} ELSE {})
    \cup (IF d = Emptied /\ pc # "emptying" THEN {Nothing} ELSE {})

RemoveFile ==
    /\ pc \in {"removing", "emptying", "destroying"}
    /\ dir' \in OneLess(dir) \ {dir}
    /\ whole' = FALSE
    /\ UNCHANGED <<pc, langs, todo, blind, seen, known>>

ImportFailed ==
    /\ \/ pc = "removing" /\ dir = Nothing
       \/ pc = "emptying" /\ dir = Emptied
    /\ Ends

ImportFor(l) ==
    \/ Generate(l) \/ NoReference(l) \/ CompileReference(l)
    \/ \E i \in Input : OpenOutput(i, l) \/ RunReference(i, l)
    \/ ReferenceDone(l) \/ CompileFails(l) \/ ReferenceFails(l)

Import ==
    \/ MakeDirectory \/ Unpack \/ TarEnds \/ ParseConfig \/ Generated
    \/ \E l \in Lang : ImportFor(l)
    \/ ImportSucceeds \/ ImportFails \/ RemoveFile \/ ImportFailed

-----------------------------------------------------------------------------
(***************************************************************************)
(* DestroyHandler::handle.                                                 *)
(***************************************************************************)
EmptyIsEnough == dir \in {Emptied, Nothing}  \* mutant: the directory may stay
IsDestroyed == dir = Nothing

Destroyed ==
    /\ pc = "destroying" /\ IsDestroyed
    /\ Ends

(***************************************************************************)
(* JudgeHandler::handle.  A source that is compiled is run on every input. *)
(***************************************************************************)
OpenInputs ==
    /\ dir.there /\ dir.inputsDir
    /\ Goes("judging", "comparing")
    /\ todo' = dir.inputs
    /\ UNCHANGED <<dir, langs, blind>> /\ Kept

(***************************************************************************)
(* Its output agrees with the expected one.  The expected output is opened *)
(* without a look at whether that succeeds; what cannot be read is taken   *)
(* for an empty output, with which a program without output agrees.        *)
(***************************************************************************)
Agrees(i) ==
    /\ pc = "comparing" /\ i \in todo
    /\ todo' = todo \ {i}
    /\ blind' = IF dir.output[i].state = "full" THEN blind ELSE blind \cup {i}
    /\ UNCHANGED <<pc, dir, langs>> /\ Kept

Accepts ==
    /\ pc = "comparing" /\ todo = {}
    /\ Ends

(***************************************************************************)
(* It does not compile, there is no directory or no inputs/ in it, it runs *)
(* badly or its output differs, or something is thrown.                    *)
(***************************************************************************)
Rejects ==
    /\ pc \in {"judging", "comparing"}
    /\ Ends

Judge == OpenInputs \/ (\E i \in Input : Agrees(i)) \/ Accepts \/ Rejects

-----------------------------------------------------------------------------
(***************************************************************************)
(* The overlord's thread for this drone: the list, pings, and requests,    *)
(* the content of which follows the name.                                  *)
(***************************************************************************)
Request ==
    /\ \E to \in {"pinging", "opening", "sending", "destroying"} : Goes("command", to)
    /\ UNCHANGED <<dir, langs, todo, blind>> /\ Kept

Content ==
    /\ Goes("opening", "making") \/ Goes("sending", "judging")
    /\ UNCHANGED <<dir, langs, todo, blind>> /\ Kept

Pong ==
    /\ Goes("pinging", "command")
    /\ UNCHANGED <<dir, langs, todo, blind>> /\ Kept

Connect ==
    /\ Goes("off", "listing")
    /\ known' = FALSE
    /\ UNCHANGED <<dir, langs, todo, blind, whole, seen>>

List ==
    /\ Goes("listing", "command")
    /\ known' = dir.there
    /\ UNCHANGED <<dir, langs, todo, blind, whole, seen>>

(***************************************************************************)
(* The program is killed, or its machine; while it waits for a command the *)
(* thread notices when it next asks, in "pinging".                         *)
(***************************************************************************)
Killed ==
    /\ pc \notin {"off", "command"}
    /\ pc' = "off"
    /\ seen' = Told(dir, whole)
    /\ langs' = {} /\ todo' = {} /\ blind' = {}
    /\ UNCHANGED <<dir, whole, known>>

-----------------------------------------------------------------------------
Init ==
    /\ pc = "off" /\ dir = Nothing
    /\ langs = {} /\ todo = {} /\ blind = {}
    /\ whole = FALSE /\ seen = "absent" /\ known = FALSE

Next ==
    \/ Import \/ Judge \/ Destroyed
    \/ Request \/ Content \/ Pong \/ Connect \/ List \/ Killed

Spec == Init /\ [][Next]_vars

-----------------------------------------------------------------------------
(***************************************************************************)
(* Type correctness of the directory and the handlers' locals: no files    *)
(* without a directory, and no loop in progress outside of a loop.         *)
(***************************************************************************)
TypeOK ==
    /\ pc \in State
    /\ dir \in Directory
    /\ langs \subseteq Lang /\ todo \subseteq Input /\ blind \subseteq Input
    /\ whole \in BOOLEAN /\ known \in BOOLEAN
    /\ seen \in {"absent", "broken", "ready"}
    /\ ~dir.there => dir = Nothing
    /\ langs # {} => pc \in {"generating", "compiling", "running"}
    /\ todo # {} => pc \in {"running", "comparing"}
    /\ pc = "running" => langs # {}

(***************************************************************************)
(* What an import that succeeded leaves, whatever was in the directory     *)
(* before and however earlier requests ended: a configuration that can be  *)
(* read, and for every input there is, its own or an old one, the complete *)
(* output of the last reference by rank, written by this import.           *)
(***************************************************************************)
WrittenBy(l) == \A i \in dir.inputs : dir.output[i] = Complete(l)

ImportedIsWhole ==
    whole =>
        /\ dir.there /\ dir.inputsDir /\ dir.config = "good"
        /\ dir.reference # {} =>
              \E l \in dir.reference : WrittenBy(l) /\ \A m \in dir.reference : m <= l

(***************************************************************************)
(* A judge in a directory that an import with a reference has left agrees  *)
(* with complete outputs only: in any other, of an import that was broken  *)
(* off or failed to compile or had no reference, it may accept a program   *)
(* without output.                                                         *)
(***************************************************************************)
AcceptedIsCompared ==
    pc = "comparing" /\ blind # {} => ~whole \/ dir.reference = {}

(***************************************************************************)
(* The handlers do to the directory what DroneCall, and with it the        *)
(* overlord's model, takes a request and its answer to do.                 *)
(***************************************************************************)
CallAt ==
    IF pc = "command" THEN "waiting"
    ELSE IF pc \in Importing THEN "importing"
    ELSE IF pc = "comparing" THEN "judging"
    ELSE pc

Call == INSTANCE DroneCall WITH
    Entry <- {"entry"},
    at <- CallAt,
    entry <- "entry",
    skew <- FALSE,
    dir <- [e \in {"entry"} |-> seen],
    known <- IF known THEN {"entry"} ELSE {}

CallSpec == Call!Spec

=============================================================================
