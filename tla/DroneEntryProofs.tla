-------------------------- MODULE DroneEntryProofs --------------------------
(***************************************************************************)
(* For any inputs and languages: what an import that succeeded has left,   *)
(* and what a judge compares with.                                         *)
(***************************************************************************)
EXTENDS DroneEntry, TLAPS

(***************************************************************************)
(* The import as far as it has come: the directory, its configuration, and *)
(* the outputs of the last reference that is finished and of the one at    *)
(* work.                                                                   *)
(***************************************************************************)
Finished(l) == l \in dir.reference /\ l \notin langs

Outputs ==
    (\E l \in dir.reference : Finished(l)) =>
        \E l \in dir.reference :
            /\ Finished(l) /\ WrittenBy(l)
            /\ \A m \in dir.reference : Finished(m) => m <= l

OutputsOf(l) == \A i \in dir.inputs \ todo : dir.output[i] = Complete(l)

ImportProgress ==
    /\ pc \in Importing \ {"making"} => ~whole
    /\ pc \in {"unpacking", "checking", "generating", "compiling", "running"} =>
          dir.there /\ dir.inputsDir
    /\ pc \in {"generating", "compiling", "running"} => dir.config = "good"
    /\ langs # {} => \A l \in Lang \ langs, m \in langs : l < m
    /\ pc = "compiling" => Outputs
    /\ pc = "running" => \E l \in dir.reference : Current(l) /\ OutputsOf(l)

JudgeProgress ==
    /\ pc = "comparing" => todo \subseteq dir.inputs
    /\ blind # {} => pc = "comparing" /\ (~whole \/ dir.reference = {})

Inv == TypeOK /\ ImportProgress /\ ImportedIsWhole /\ JudgeProgress

LEMMA InitInv == Init => Inv
<1>. SUFFICES ASSUME Init PROVE Inv
    OBVIOUS
<1>1. dir \in Directory
    BY DEF Init, Nothing, Directory, NoOutput, Output
<1>2. TypeOK
    BY <1>1 DEF Init, TypeOK, State
<1>3. ImportProgress /\ ImportedIsWhole /\ JudgeProgress
    BY DEF Init, ImportProgress, ImportedIsWhole, JudgeProgress, Importing
<1>. QED BY <1>2, <1>3 DEF Inv

(***************************************************************************)
(* Every change of one file leaves a directory.                            *)
(***************************************************************************)
LEMMA OneOutput ==
    ASSUME NEW d \in Directory, NEW i \in Input, NEW v \in Output
    PROVE  [d EXCEPT !.output[i] = v] \in Directory
<1>1. [d.output EXCEPT ![i] = v] \in [Input -> Output]
    BY DEF Directory
<1>2. [d EXCEPT !.output = [d.output EXCEPT ![i] = v]] \in Directory
    BY <1>1 DEF Directory
<1>. QED BY <1>2

LEMMA OneField ==
    ASSUME NEW d \in Directory
    PROVE  /\ \A c \in {"none", "good", "bad"} : [d EXCEPT !.config = c] \in Directory
           /\ \A I \in SUBSET Input : [d EXCEPT !.inputs = I] \in Directory
           /\ \A L \in SUBSET Lang : [d EXCEPT !.generator = L] \in Directory
           /\ \A L \in SUBSET Lang : [d EXCEPT !.reference = L] \in Directory
           /\ [d EXCEPT !.inputsDir = FALSE] \in Directory
BY DEF Directory

LEMMA Outcomes ==
    /\ NoOutput \in Output /\ Complete(Archive) \in Output
    /\ \A l \in Lang : Truncated(l) \in Output /\ Complete(l) \in Output
BY DEF NoOutput, Complete, Truncated, Output

LEMMA UnpackedType ==
    ASSUME NEW d \in Directory, NEW e \in Unpacked(d)
    PROVE  e \in Directory
<1>1. d.inputs \subseteq Input /\ d.generator \subseteq Lang /\ d.reference \subseteq Lang
    BY DEF Directory
<1>2. ASSUME NEW c \in {"good", "bad"} PROVE [d EXCEPT !.config = c] \in Directory
    BY OneField
<1>3. ASSUME NEW i \in Input PROVE [d EXCEPT !.inputs = @ \cup {i}] \in Directory
    BY <1>1, OneField
<1>4. ASSUME NEW l \in Lang
      PROVE  /\ [d EXCEPT !.generator = @ \cup {l}] \in Directory
             /\ [d EXCEPT !.reference = @ \cup {l}] \in Directory
    BY <1>1, OneField
<1>5. ASSUME NEW i \in Input PROVE [d EXCEPT !.output[i] = Complete(Archive)] \in Directory
    BY OneOutput, Outcomes
<1>. QED BY <1>2, <1>3, <1>4, <1>5, Zenon DEF Unpacked

LEMMA OneLessType ==
    ASSUME NEW d \in Directory, NEW e \in OneLess(d)
    PROVE  e \in Directory
<1>1. d.inputs \subseteq Input /\ d.generator \subseteq Lang /\ d.reference \subseteq Lang
    BY DEF Directory
<1>2. [d EXCEPT !.config = "none"] \in Directory /\ [d EXCEPT !.inputsDir = FALSE] \in Directory
    BY OneField
<1>3. ASSUME NEW i \in Input PROVE [d EXCEPT !.inputs = @ \ {i}] \in Directory
    BY <1>1, OneField
<1>4. ASSUME NEW l \in Lang
      PROVE  /\ [d EXCEPT !.generator = @ \ {l}] \in Directory
             /\ [d EXCEPT !.reference = @ \ {l}] \in Directory
    BY <1>1, OneField
<1>5. ASSUME NEW i \in Input PROVE [d EXCEPT !.output[i] = NoOutput] \in Directory
    BY OneOutput, Outcomes
<1>6. Nothing \in Directory
    BY DEF Nothing, Directory, NoOutput, Output
<1>. QED BY <1>2, <1>3, <1>4, <1>5, <1>6, Zenon DEF OneLess

LEMMA UnpackedKeeps ==
    ASSUME NEW d \in Directory, NEW e \in Unpacked(d)
    PROVE  e.there = d.there /\ e.inputsDir = d.inputsDir
BY DEF Unpacked, Directory

-----------------------------------------------------------------------------
(***************************************************************************)
(* The steps of an import.                                                 *)
(***************************************************************************)
LEMMA MakeDirectoryInv == Inv /\ MakeDirectory => Inv'
<1>. SUFFICES ASSUME Inv, MakeDirectory PROVE Inv'
    OBVIOUS
<1>1. /\ pc = "making" /\ pc' = "unpacking" /\ whole' = FALSE
      /\ UNCHANGED <<langs, todo, blind, seen, known>>
      /\ dir' = [dir EXCEPT !.there = TRUE, !.inputsDir = TRUE, !.output = Stale(@)]
    BY DEF MakeDirectory, Goes
<1>2. Stale(dir.output) \in [Input -> Output]
    BY DEF Inv, TypeOK, Directory, Stale, Output
<1>3. dir' \in Directory /\ dir'.there /\ dir'.inputsDir
    BY <1>1, <1>2 DEF Inv, TypeOK, Directory
<1>4. TypeOK'
    BY <1>1, <1>3 DEF Inv, TypeOK, State, Importing
<1>5. ImportProgress' /\ ImportedIsWhole'
    BY <1>1, <1>3 DEF Inv, TypeOK, ImportProgress, ImportedIsWhole, Importing
<1>6. JudgeProgress'
    BY <1>1 DEF Inv, JudgeProgress
<1>. QED BY <1>4, <1>5, <1>6 DEF Inv

LEMMA UnpackInv == Inv /\ (Unpack \/ TarEnds \/ ParseConfig) => Inv'
<1>. SUFFICES ASSUME Inv, Unpack \/ TarEnds \/ ParseConfig PROVE Inv'
    OBVIOUS
<1>1. /\ pc \in {"unpacking", "checking"} /\ pc' \in {"unpacking", "checking", "generating"}
      /\ langs' = langs \/ (pc' = "generating" /\ langs' = Lang /\ dir.config = "good" /\ dir' = dir)
      /\ dir' = dir \/ (dir' \in Unpacked(dir) /\ pc' = "unpacking")
      /\ pc' = "generating" => langs' = Lang /\ dir.config = "good" /\ dir' = dir
      /\ UNCHANGED <<todo, blind, whole, seen, known>>
    BY DEF Unpack, TarEnds, ParseConfig, Goes, Kept
<1>2. dir' \in Directory /\ dir'.there /\ dir'.inputsDir /\ dir.there
  <2>1. dir \in Directory /\ dir.there /\ dir.inputsDir
    BY <1>1 DEF Inv, TypeOK, ImportProgress
  <2>. QED BY <1>1, <2>1, UnpackedType, UnpackedKeeps
<1>3. langs = {} /\ todo = {} /\ blind = {} /\ ~whole
    BY <1>1 DEF Inv, TypeOK, JudgeProgress, ImportProgress, Importing
<1>4. TypeOK'
    BY <1>1, <1>2, <1>3 DEF Inv, TypeOK, State, Importing
<1>5. ImportProgress' /\ ImportedIsWhole'
    BY <1>1, <1>2, <1>3 DEF ImportProgress, ImportedIsWhole
<1>6. JudgeProgress'
    BY <1>1, <1>3 DEF JudgeProgress
<1>. QED BY <1>4, <1>5, <1>6 DEF Inv

LEMMA GenerateInv ==
    ASSUME Inv, NEW l \in Lang, Generate(l)
    PROVE  Inv'
<1>1. /\ pc = "generating" /\ pc' = "generating" /\ Current(l) /\ langs' = langs \ {l}
      /\ UNCHANGED <<todo, blind, whole, seen, known>>
    BY DEF Generate, NextLang, Kept
<1>2. PICK new \in SUBSET Input : dir' = [dir EXCEPT !.inputs = @ \cup new]
    BY DEF Generate
<1>3. /\ dir \in Directory /\ dir.there /\ dir.inputsDir /\ dir.config = "good"
      /\ todo = {} /\ blind = {} /\ ~whole
    BY <1>1 DEF Inv, TypeOK, ImportProgress, JudgeProgress, Importing
<1>4. /\ dir' \in Directory /\ dir'.there /\ dir'.inputsDir /\ dir'.config = "good"
    BY <1>2, <1>3 DEF Directory
<1>5. TypeOK'
    BY <1>1, <1>3, <1>4 DEF Inv, TypeOK, State, Importing
<1>6. \A m \in Lang \ langs', n \in langs' : m < n
  <2>1. \A n \in langs' : l < n
    BY <1>1, LangAssumption DEF Inv, TypeOK, Current
  <2>. QED BY <1>1, <2>1 DEF Inv, ImportProgress, Current
<1>7. ImportProgress' /\ ImportedIsWhole' /\ JudgeProgress'
    BY <1>1, <1>3, <1>4, <1>6 DEF ImportProgress, ImportedIsWhole, JudgeProgress, Importing
<1>. QED BY <1>5, <1>7 DEF Inv

LEMMA GeneratedInv == Inv /\ Generated => Inv'
<1>. SUFFICES ASSUME Inv, Generated PROVE Inv'
    OBVIOUS
<1>1. /\ pc = "generating" /\ pc' = "compiling" /\ langs' = Lang
      /\ UNCHANGED <<dir, todo, blind, whole, seen, known>>
    BY DEF Generated, Goes, Kept
<1>2. /\ dir \in Directory /\ dir.there /\ dir.inputsDir /\ dir.config = "good"
      /\ todo = {} /\ blind = {} /\ ~whole
    BY <1>1 DEF Inv, TypeOK, ImportProgress, JudgeProgress, Importing
<1>3. TypeOK'
    BY <1>1, <1>2 DEF Inv, TypeOK, State, Importing
<1>4. Outputs'
    BY <1>1, <1>2 DEF Outputs, Finished, Directory
<1>5. ImportProgress' /\ ImportedIsWhole' /\ JudgeProgress'
    BY <1>1, <1>2, <1>4 DEF ImportProgress, ImportedIsWhole, JudgeProgress, Importing
<1>. QED BY <1>3, <1>5 DEF Inv

(***************************************************************************)
(* The loop goes on to the next language.                                  *)
(***************************************************************************)
LEMMA NextLangKeepsOrder ==
    ASSUME Inv, NEW l \in Lang, Current(l), NextLang(l)
    PROVE  /\ \A m \in Lang \ langs', n \in langs' : m < n
           /\ \A m \in Lang \ langs' : m <= l
<1>1. langs \subseteq Lang /\ langs # {} /\ l \in langs /\ \A m \in langs : l <= m
    BY DEF Inv, TypeOK, Current
<1>2. Lang \subseteq Nat
    BY LangAssumption
<1>3. \A m \in Lang \ langs, n \in langs : m < n
    BY <1>1 DEF Inv, ImportProgress
<1>. QED BY <1>1, <1>2, <1>3 DEF NextLang

LEMMA NoReferenceInv ==
    ASSUME Inv, NEW l \in Lang, NoReference(l)
    PROVE  Inv'
<1>1. /\ pc = "compiling" /\ pc' = "compiling" /\ Current(l) /\ l \notin dir.reference
      /\ NextLang(l) /\ langs' = langs \ {l}
      /\ UNCHANGED <<dir, todo, blind, whole, seen, known>>
    BY DEF NoReference, NextLang, Kept
<1>2. TypeOK'
    BY <1>1 DEF Inv, TypeOK, State, Importing
<1>3. Outputs'
  <2>1. \A m \in dir.reference : Finished(m)' <=> Finished(m)
    BY <1>1 DEF Finished
  <2>2. Outputs
    BY <1>1 DEF Inv, ImportProgress
  <2>3. \A m \in dir.reference : WrittenBy(m)' <=> WrittenBy(m)
    BY <1>1 DEF WrittenBy
  <2>. QED BY <1>1, <2>1, <2>2, <2>3 DEF Outputs
<1>4. ImportProgress'
    BY <1>1, <1>3, NextLangKeepsOrder DEF Inv, ImportProgress
<1>5. ImportedIsWhole' /\ JudgeProgress'
    BY <1>1 DEF Inv, ImportedIsWhole, WrittenBy, JudgeProgress
<1>. QED BY <1>2, <1>4, <1>5 DEF Inv

LEMMA CompileReferenceInv ==
    ASSUME Inv, NEW l \in Lang, CompileReference(l)
    PROVE  Inv'
<1>1. /\ pc = "compiling" /\ pc' = "running" /\ Current(l) /\ l \in dir.reference
      /\ todo' = dir.inputs
      /\ UNCHANGED <<dir, langs, blind, whole, seen, known>>
    BY DEF CompileReference, Goes, Kept, InputsToRun
<1>2. TypeOK'
    BY <1>1 DEF Inv, TypeOK, State, Importing, Current, Directory
<1>3. Current(l)' /\ OutputsOf(l)'
    BY <1>1 DEF Current, OutputsOf
<1>4. ImportProgress'
    BY <1>1, <1>3 DEF Inv, ImportProgress, Importing
<1>5. ImportedIsWhole' /\ JudgeProgress'
    BY <1>1 DEF Inv, ImportedIsWhole, WrittenBy, JudgeProgress
<1>. QED BY <1>2, <1>4, <1>5 DEF Inv

LEMMA RunningInv ==
    ASSUME Inv, NEW l \in Lang, NEW i \in Input, OpenOutput(i, l) \/ RunReference(i, l)
    PROVE  Inv'
<1>1. /\ pc = "running" /\ pc' = "running" /\ Current(l) /\ i \in todo
      /\ UNCHANGED <<langs, blind, whole, seen, known>>
    BY DEF OpenOutput, RunReference, InWork, Kept
<1>2. /\ dir \in Directory /\ dir.there /\ dir.inputsDir /\ dir.config = "good" /\ ~whole
      /\ blind = {}
    BY <1>1 DEF Inv, TypeOK, ImportProgress, JudgeProgress, Importing
<1>3. PICK v \in {Truncated(l), Complete(l)} :
          /\ dir' = [dir EXCEPT !.output[i] = v]
          /\ \/ todo' = todo
             \/ todo' = todo \ {i} /\ v = Complete(l)
    BY DEF OpenOutput, RunReference
<1>4. /\ dir' \in Directory /\ dir'.there /\ dir'.inputsDir /\ dir'.config = "good"
      /\ dir'.reference = dir.reference /\ dir'.inputs = dir.inputs
      /\ dir'.output = [dir.output EXCEPT ![i] = v]
  <2>1. dir' \in Directory
    BY <1>2, <1>3, OneOutput, Outcomes
  <2>. QED BY <1>2, <1>3, <2>1 DEF Directory
<1>5. TypeOK'
    BY <1>1, <1>3, <1>4 DEF Inv, TypeOK
<1>6. \E m \in dir'.reference : Current(m)' /\ OutputsOf(m)'
  <2>1. PICK m \in dir.reference : Current(m) /\ OutputsOf(m)
    BY <1>1 DEF Inv, ImportProgress
  <2>2. m = l
    BY <1>1, <2>1, LangAssumption DEF Current, Inv, TypeOK
  <2>3. dir.output \in [Input -> Output]
    BY <1>2 DEF Directory
  <2>4. OutputsOf(l)'
    BY <1>1, <1>3, <1>4, <2>1, <2>2, <2>3 DEF OutputsOf
  <2>. QED BY <1>1, <1>4, <2>1, <2>2, <2>4 DEF Current
<1>7. ImportProgress'
    BY <1>1, <1>2, <1>4, <1>6 DEF Inv, ImportProgress, Importing
<1>8. ImportedIsWhole' /\ JudgeProgress'
    BY <1>1, <1>2 DEF ImportedIsWhole, JudgeProgress
<1>. QED BY <1>5, <1>7, <1>8 DEF Inv

LEMMA ReferenceDoneInv ==
    ASSUME Inv, NEW l \in Lang, ReferenceDone(l)
    PROVE  Inv'
<1>1. /\ pc = "running" /\ pc' = "compiling" /\ Current(l) /\ todo = {}
      /\ NextLang(l) /\ langs' = langs \ {l}
      /\ UNCHANGED <<dir, todo, blind, whole, seen, known>>
    BY DEF ReferenceDone, Goes, NextLang, Kept
<1>2. TypeOK'
    BY <1>1 DEF Inv, TypeOK, State, Importing
<1>3. Outputs'
  <2>1. PICK m \in dir.reference : Current(m) /\ OutputsOf(m)
    BY <1>1 DEF Inv, ImportProgress
  <2>2. m = l
    BY <1>1, <2>1, LangAssumption DEF Current, Inv, TypeOK
  <2>3. WrittenBy(l)' /\ Finished(l)'
    BY <1>1, <2>1, <2>2 DEF WrittenBy, OutputsOf, Finished
  <2>4. \A n \in dir'.reference : Finished(n)' => n <= l
    BY <1>1, NextLangKeepsOrder DEF Inv, TypeOK, Directory, Finished
  <2>. QED BY <1>1, <2>1, <2>2, <2>3, <2>4 DEF Outputs
<1>4. ImportProgress'
    BY <1>1, <1>3, NextLangKeepsOrder DEF Inv, ImportProgress, Importing
<1>5. ImportedIsWhole' /\ JudgeProgress'
    BY <1>1 DEF Inv, ImportedIsWhole, WrittenBy, JudgeProgress
<1>. QED BY <1>2, <1>4, <1>5 DEF Inv

(***************************************************************************)
(* How an import ends.                                                     *)
(***************************************************************************)
LEMMA AnswersType ==
    ASSUME Answers
    PROVE  /\ pc' = "command" /\ langs' = {} /\ todo' = {} /\ blind' = {}
           /\ seen' \in {"absent", "broken", "ready"}
BY DEF Answers, Told

LEMMA ImportSucceedsInv == Inv /\ ImportSucceeds => Inv'
<1>. SUFFICES ASSUME Inv, ImportSucceeds PROVE Inv'
    OBVIOUS
<1>1. /\ pc = "compiling" /\ langs = {} /\ whole' = TRUE /\ known' = TRUE /\ dir' = dir
      /\ Answers
    BY DEF ImportSucceeds
<1>2. TypeOK'
    BY <1>1, AnswersType DEF Inv, TypeOK, State
<1>3. ImportedIsWhole'
  <2>1. dir.there /\ dir.inputsDir /\ dir.config = "good" /\ Outputs
    BY <1>1 DEF Inv, ImportProgress
  <2>2. \A l \in dir.reference : Finished(l)
    BY <1>1 DEF Finished
  <2>. QED BY <1>1, <2>1, <2>2 DEF ImportedIsWhole, Outputs, WrittenBy
<1>4. ImportProgress' /\ JudgeProgress'
    BY <1>1, AnswersType DEF ImportProgress, JudgeProgress, Importing
<1>. QED BY <1>2, <1>3, <1>4 DEF Inv

(***************************************************************************)
(* A handler that answers and leaves the directory as it is.               *)
(***************************************************************************)
LEMMA EndsInv == Inv /\ Ends => Inv'
<1>. SUFFICES ASSUME Inv, Ends PROVE Inv'
    OBVIOUS
<1>1. Answers /\ UNCHANGED <<dir, whole, known>>
    BY DEF Ends
<1>2. TypeOK'
    BY <1>1, AnswersType DEF Inv, TypeOK, State
<1>3. ImportProgress' /\ JudgeProgress' /\ ImportedIsWhole'
    BY <1>1, AnswersType DEF Inv, ImportProgress, JudgeProgress, Importing, ImportedIsWhole, WrittenBy
<1>. QED BY <1>2, <1>3 DEF Inv

LEMMA ImportFailsInv ==
    Inv /\ (ImportFails \/ \E l \in Lang : ReferenceFails(l)) => Inv'
<1>. SUFFICES ASSUME Inv, ImportFails \/ \E l \in Lang : ReferenceFails(l) PROVE Inv'
    OBVIOUS
<1>1. /\ pc \in Importing /\ pc' \in {"removing", "emptying"} /\ langs' = {} /\ todo' = {}
      /\ whole' = FALSE
      /\ UNCHANGED <<dir, blind, seen, known>>
    BY DEF ImportFails, ReferenceFails, Goes, Kept, Importing, Inv, TypeOK, ImportProgress
<1>2. blind = {}
    BY <1>1 DEF Inv, JudgeProgress, Importing
<1>3. TypeOK'
    BY <1>1 DEF Inv, TypeOK, State, Importing
<1>4. ImportProgress' /\ JudgeProgress' /\ ImportedIsWhole'
    BY <1>1, <1>2 DEF ImportProgress, JudgeProgress, ImportedIsWhole
<1>. QED BY <1>3, <1>4 DEF Inv

LEMMA OneLessThere ==
    ASSUME NEW d \in Directory, d.there, NEW e \in OneLess(d)
    PROVE  e.there \/ e = Nothing
BY DEF OneLess, Directory

LEMMA RemoveFileInv == Inv /\ RemoveFile => Inv'
<1>. SUFFICES ASSUME Inv, RemoveFile PROVE Inv'
    OBVIOUS
<1>1. /\ pc \in {"removing", "emptying", "destroying"} /\ pc' = pc
      /\ dir' \in OneLess(dir) /\ dir' # dir /\ whole' = FALSE
      /\ UNCHANGED <<langs, todo, blind, seen, known>>
    BY DEF RemoveFile
<1>2. dir \in Directory /\ dir' \in Directory
    BY <1>1, OneLessType DEF Inv, TypeOK
<1>3. ~dir'.there => dir' = Nothing
  <2>1. CASE dir.there
    BY <1>1, <1>2, <2>1, OneLessThere
  <2>2. CASE ~dir.there
    <3>1. dir = Nothing
      BY <2>2 DEF Inv, TypeOK
    <3>. QED BY <1>1, <3>1 DEF OneLess, Nothing, Emptied
  <2>. QED BY <2>1, <2>2
<1>4. TypeOK'
    BY <1>1, <1>2, <1>3 DEF Inv, TypeOK
<1>5. ImportProgress' /\ JudgeProgress' /\ ImportedIsWhole'
    BY <1>1 DEF Inv, ImportProgress, JudgeProgress, ImportedIsWhole
<1>. QED BY <1>4, <1>5 DEF Inv

-----------------------------------------------------------------------------
(***************************************************************************)
(* A judge.                                                                *)
(***************************************************************************)
LEMMA OpenInputsInv == Inv /\ OpenInputs => Inv'
<1>. SUFFICES ASSUME Inv, OpenInputs PROVE Inv'
    OBVIOUS
<1>1. /\ pc = "judging" /\ pc' = "comparing" /\ todo' = dir.inputs
      /\ UNCHANGED <<dir, langs, blind, whole, seen, known>>
    BY DEF OpenInputs, Goes, Kept
<1>2. blind = {} /\ langs = {}
    BY <1>1 DEF Inv, TypeOK, JudgeProgress
<1>3. TypeOK'
    BY <1>1, <1>2 DEF Inv, TypeOK, State, Directory
<1>4. ImportProgress' /\ JudgeProgress' /\ ImportedIsWhole'
    BY <1>1, <1>2 DEF Inv, ImportProgress, JudgeProgress, ImportedIsWhole, WrittenBy, Importing
<1>. QED BY <1>3, <1>4 DEF Inv

LEMMA AgreesInv ==
    ASSUME Inv, NEW i \in Input, Agrees(i)
    PROVE  Inv'
<1>1. /\ pc = "comparing" /\ pc' = "comparing" /\ i \in todo /\ todo' = todo \ {i}
      /\ blind' = IF dir.output[i].state = "full" THEN blind ELSE blind \cup {i}
      /\ UNCHANGED <<dir, langs, whole, seen, known>>
    BY DEF Agrees, Kept
<1>2. TypeOK'
    BY <1>1 DEF Inv, TypeOK
<1>3. JudgeProgress'
  <2>1. i \in dir.inputs
    BY <1>1 DEF Inv, JudgeProgress
  <2>2. CASE whole /\ dir.reference # {}
    <3>1. PICK l \in dir.reference : dir.output[i] = Complete(l)
      BY <2>1, <2>2 DEF Inv, ImportedIsWhole, WrittenBy
    <3>2. blind' = blind
      BY <1>1, <3>1 DEF Complete
    <3>. QED BY <1>1, <2>1, <3>2 DEF Inv, JudgeProgress
  <2>3. CASE ~whole \/ dir.reference = {}
    BY <1>1, <2>3 DEF Inv, JudgeProgress
  <2>. QED BY <2>2, <2>3
<1>4. ImportProgress' /\ ImportedIsWhole'
    BY <1>1 DEF Inv, ImportProgress, ImportedIsWhole, WrittenBy, Importing
<1>. QED BY <1>2, <1>3, <1>4 DEF Inv

-----------------------------------------------------------------------------
(***************************************************************************)
(* The overlord's thread, and the death of the drone.                      *)
(***************************************************************************)
LEMMA OverlordInv == Inv /\ (Request \/ Content \/ Pong \/ Connect \/ List) => Inv'
<1>. SUFFICES ASSUME Inv, Request \/ Content \/ Pong \/ Connect \/ List PROVE Inv'
    OBVIOUS
<1>1. /\ pc \in {"command", "opening", "sending", "pinging", "off", "listing"}
      /\ pc' \in {"pinging", "opening", "sending", "destroying", "making", "judging",
                   "command", "listing"}
      /\ known' \in {known, FALSE, dir.there}
      /\ UNCHANGED <<dir, langs, todo, blind, whole, seen>>
    BY DEF Request, Content, Pong, Connect, List, Goes, Kept
<1>2. langs = {} /\ todo = {} /\ blind = {}
    BY <1>1 DEF Inv, TypeOK, JudgeProgress
<1>3. known' \in BOOLEAN
    BY <1>1 DEF Inv, TypeOK, Directory
<1>4. TypeOK'
    BY <1>1, <1>2, <1>3 DEF Inv, TypeOK, State, Importing
<1>5. ImportProgress' /\ JudgeProgress' /\ ImportedIsWhole'
    BY <1>1, <1>2 DEF Inv, ImportProgress, JudgeProgress, ImportedIsWhole, WrittenBy, Importing
<1>. QED BY <1>4, <1>5 DEF Inv

LEMMA KilledInv == Inv /\ Killed => Inv'
<1>. SUFFICES ASSUME Inv, Killed PROVE Inv'
    OBVIOUS
<1>1. /\ pc' = "off" /\ langs' = {} /\ todo' = {} /\ blind' = {}
      /\ seen' \in {"absent", "broken", "ready"}
      /\ UNCHANGED <<dir, whole, known>>
    BY DEF Killed, Told
<1>2. TypeOK'
    BY <1>1 DEF Inv, TypeOK, State
<1>3. ImportProgress' /\ JudgeProgress' /\ ImportedIsWhole'
    BY <1>1 DEF Inv, ImportProgress, JudgeProgress, ImportedIsWhole, WrittenBy, Importing
<1>. QED BY <1>2, <1>3 DEF Inv

LEMMA StutterInv == Inv /\ UNCHANGED vars => Inv'
BY DEF vars, Inv, TypeOK, ImportProgress, JudgeProgress, ImportedIsWhole, WrittenBy, Outputs,
       OutputsOf, Finished, Current

THEOREM Invariance == Spec => []Inv
<1>1. Inv /\ [Next]_vars => Inv'
  <2>. SUFFICES ASSUME Inv, [Next]_vars PROVE Inv'
      OBVIOUS
  <2>1. CASE Import
    <3>1. ASSUME NEW l \in Lang, ImportFor(l) PROVE Inv'
      BY <3>1, GenerateInv, NoReferenceInv, CompileReferenceInv, RunningInv, ReferenceDoneInv,
         ImportFailsInv, EndsInv DEF ImportFor, CompileFails
    <3>. QED BY <2>1, <3>1, MakeDirectoryInv, UnpackInv, GeneratedInv, ImportSucceedsInv,
                ImportFailsInv, RemoveFileInv, EndsInv DEF Import, ImportFailed
  <2>2. CASE Judge \/ Destroyed
    BY <2>2, OpenInputsInv, AgreesInv, EndsInv DEF Judge, Accepts, Rejects, Destroyed
  <2>3. CASE Request \/ Content \/ Pong \/ Connect \/ List \/ Killed \/ UNCHANGED vars
    BY <2>3, OverlordInv, KilledInv, StutterInv
  <2>. QED BY <2>1, <2>2, <2>3 DEF Next
<1>. QED BY InitInv, <1>1, PTL DEF Spec

-----------------------------------------------------------------------------
(***************************************************************************)
(* Type correctness of DroneEntry.                                         *)
(***************************************************************************)
THEOREM TypeCorrect == Spec => []TypeOK
<1>1. Inv => TypeOK
    BY DEF Inv
<1>. QED BY Invariance, <1>1, PTL

(***************************************************************************)
(* After an import with a reference that succeeded, and until the next     *)
(* import or removal, every input has the complete output of the last      *)
(* reference, whatever the directory held before.                          *)
(***************************************************************************)
THEOREM ImportsAreWhole == Spec => []ImportedIsWhole
<1>1. Inv => ImportedIsWhole
    BY DEF Inv
<1>. QED BY Invariance, <1>1, PTL

(***************************************************************************)
(* There a judge agrees with complete outputs only.                        *)
(***************************************************************************)
THEOREM AcceptedAreCompared == Spec => []AcceptedIsCompared
<1>1. Inv => AcceptedIsCompared
    BY DEF Inv, JudgeProgress, AcceptedIsCompared
<1>. QED BY Invariance, <1>1, PTL

-----------------------------------------------------------------------------
(***************************************************************************)
(* DroneEntry implements DroneCall.  Between two requests, and while one   *)
(* leaves the directory alone, what was told of it is true.                *)
(***************************************************************************)
Truthful ==
    /\ pc \notin Importing \cup {"destroying"} => seen = Told(dir, whole)
    /\ pc = "destroying" => seen = Told(dir, whole) \/ ~whole

LEMMA TruthfulInit == Init => Truthful
BY DEF Init, Truthful, Told, Nothing

LEMMA TruthfulStep == Inv /\ Truthful /\ [Next]_vars => Truthful'
<1>. SUFFICES ASSUME Inv, Truthful, [Next]_vars PROVE Truthful'
    OBVIOUS
<1>1. ASSUME Answers PROVE Truthful'
    BY <1>1 DEF Answers, Truthful
<1>2. ASSUME pc' \in Importing PROVE Truthful'
    BY <1>2 DEF Truthful, Importing
<1>3. CASE Import
  <2>1. CASE RemoveFile
    BY <2>1 DEF RemoveFile, Truthful, Importing
  <2>2. CASE Import /\ ~RemoveFile
    <3>1. Answers \/ pc' \in Importing
      <4>1. ASSUME NEW l \in Lang, ImportFor(l) PROVE Answers \/ pc' \in Importing
        BY <4>1 DEF ImportFor, Generate, NoReference, CompileReference, OpenOutput, RunReference,
           ReferenceDone, CompileFails, ReferenceFails, Goes, Ends, Importing
      <4>. QED BY <2>2, <4>1 DEF Import, MakeDirectory, Unpack, TarEnds, ParseConfig, Generated,
              ImportSucceeds, ImportFails, ImportFailed, Goes, Ends, Importing
    <3>. QED BY <1>1, <1>2, <3>1
  <2>. QED BY <1>3, <2>1, <2>2
<1>4. CASE Judge \/ Destroyed
  <2>1. CASE OpenInputs \/ \E i \in Input : Agrees(i)
    BY <2>1 DEF OpenInputs, Agrees, Goes, Kept, Truthful, Importing
  <2>. QED BY <1>1, <1>4, <2>1 DEF Judge, Accepts, Rejects, Destroyed, Ends
<1>5. CASE Request \/ Content \/ Pong \/ Connect \/ List
  <2>1. pc \notin Importing \cup {"destroying"} /\ UNCHANGED <<dir, whole, seen>>
    BY <1>5 DEF Request, Content, Pong, Connect, List, Goes, Kept, Importing
  <2>. QED BY <2>1 DEF Truthful, Told
<1>6. CASE Killed
    BY <1>6 DEF Killed, Truthful, Told
<1>7. CASE UNCHANGED vars
    BY <1>7 DEF vars, Truthful, Told
<1>. QED BY <1>3, <1>4, <1>5, <1>6, <1>7 DEF Next

LEMMA CallInit == Init => Call!Init
BY DEF Init, Call!Init, CallAt, Importing

(***************************************************************************)
(* One state of DroneCall for another.                                     *)
(***************************************************************************)
LEMMA CallStutter ==
    ASSUME CallAt' = CallAt, UNCHANGED <<seen, known>>
    PROVE  UNCHANGED Call!vars
BY DEF Call!vars

LEMMA Imported ==
    ASSUME Inv, pc \in Importing, Answers, NEW ok \in BOOLEAN, ok <=> seen' = "ready",
           known' = IF ok THEN TRUE ELSE known
    PROVE  Call!Imported(ok, seen')
<1>1. CallAt = "importing" /\ CallAt' = "waiting"
    BY DEF CallAt, Answers, Importing
<1>2. known \in BOOLEAN
    BY DEF Inv, TypeOK
<1>. QED BY <1>1, <1>2 DEF Call!Imported, Call!Answered, Call!Become

LEMMA ImportCalls == Inv /\ Truthful /\ Import => [Call!Next]_(Call!vars)
<1>. SUFFICES ASSUME Inv, Truthful, Import PROVE [Call!Next]_(Call!vars)
    OBVIOUS
<1>1. ASSUME pc \in Importing, pc' \in Importing, UNCHANGED <<seen, known>>
      PROVE  UNCHANGED Call!vars
    BY <1>1, CallStutter DEF CallAt, Importing
<1>2. CASE ImportSucceeds
  <2>1. /\ pc \in Importing /\ Answers /\ seen' = "ready" /\ known' = TRUE
    BY <1>2 DEF ImportSucceeds, Answers, Told, Importing, Inv, ImportProgress
  <2>2. Call!Imported(TRUE, seen')
    BY <2>1, Imported
  <2>. QED BY <2>1, <2>2 DEF Call!Next, Call!DirState
<1>3. ASSUME pc \in Importing \ {"making"}, Ends PROVE Call!Next
  <2>1. Answers /\ seen' # "ready" /\ seen' \in {"absent", "broken"} /\ known' = known
    BY <1>3 DEF Ends, Answers, Told, Inv, ImportProgress
  <2>2. Call!Imported(FALSE, seen')
    BY <1>3, <2>1, Imported
  <2>. QED BY <2>1, <2>2 DEF Call!Next, Call!DirState
<1>4. CASE RemoveFile
    BY <1>4, CallStutter DEF RemoveFile, CallAt
<1>5. CASE ImportFailed \/ \E l \in Lang : CompileFails(l)
    BY <1>3, <1>5 DEF ImportFailed, CompileFails, Importing
<1>6. CASE MakeDirectory \/ Unpack \/ TarEnds \/ ParseConfig \/ Generated \/ ImportFails
    BY <1>1, <1>6 DEF MakeDirectory, Unpack, TarEnds, ParseConfig, Generated, ImportFails, Goes,
       Kept, Importing
<1>7. ASSUME NEW l \in Lang, ImportFor(l), ~CompileFails(l) PROVE UNCHANGED Call!vars
    BY <1>1, <1>7 DEF ImportFor, Generate, NoReference, CompileReference, OpenOutput,
       RunReference, ReferenceDone, ReferenceFails, Goes, Kept, Importing
<1>. QED BY <1>2, <1>4, <1>5, <1>6, <1>7 DEF Import

LEMMA JudgeCalls == Inv /\ Truthful /\ (Judge \/ Destroyed) => [Call!Next]_(Call!vars)
<1>. SUFFICES ASSUME Inv, Truthful, Judge \/ Destroyed PROVE [Call!Next]_(Call!vars)
    OBVIOUS
<1>1. CASE OpenInputs \/ \E i \in Input : Agrees(i)
    BY <1>1, CallStutter DEF OpenInputs, Agrees, Goes, Kept, CallAt, Importing
<1>2. CASE Accepts \/ Rejects
  <2>1. /\ CallAt = "judging" /\ CallAt' = "waiting"
        /\ UNCHANGED <<seen, known>>
    BY <1>2 DEF Accepts, Rejects, Ends, Answers, CallAt, Importing, Truthful, Told
  <2>2. Call!Judged(FALSE)
    BY <2>1 DEF Call!Judged, Call!Answered
  <2>. QED BY <2>2 DEF Call!Next
<1>3. CASE Destroyed
  <2>1. /\ CallAt = "destroying" /\ CallAt' = "waiting"
        /\ seen' = "absent" /\ known' = known
    BY <1>3 DEF Destroyed, IsDestroyed, Ends, Answers, CallAt, Importing, Told, Nothing
  <2>2. Call!Destroyed(TRUE, "absent")
    BY <2>1 DEF Call!Destroyed, Call!Answered, Call!Become
  <2>. QED BY <2>2 DEF Call!Next, Call!DirState
<1>. QED BY <1>1, <1>2, <1>3 DEF Judge

LEMMA OverlordCalls ==
    Inv /\ Truthful /\ (Request \/ Content \/ Pong \/ Connect \/ List) => Call!Next
<1>. SUFFICES ASSUME Inv, Truthful, Request \/ Content \/ Pong \/ Connect \/ List PROVE Call!Next
    OBVIOUS
<1>1. CASE Request
  <2>1. /\ CallAt = "waiting" /\ CallAt' \in {"pinging", "opening", "sending", "destroying"}
        /\ UNCHANGED <<seen, known>>
    BY <1>1 DEF Request, Goes, Kept, CallAt, Importing
  <2>2. \/ Call!Ping
        \/ \E call \in {"opening", "sending", "destroying"} : Call!Request("entry", call)
    BY <2>1 DEF Call!Ping, Call!Request
  <2>. QED BY <2>2 DEF Call!Next
<1>2. CASE Content
  <2>1. /\ \/ CallAt = "opening" /\ CallAt' = "importing"
           \/ CallAt = "sending" /\ CallAt' = "judging"
        /\ UNCHANGED <<seen, known>>
    BY <1>2 DEF Content, Goes, Kept, CallAt, Importing
  <2>. QED BY <2>1 DEF Call!Next, Call!Sent
<1>3. CASE Pong
  <2>1. CallAt = "pinging" /\ CallAt' = "waiting" /\ UNCHANGED <<seen, known>>
    BY <1>3 DEF Pong, Goes, Kept, CallAt, Importing
  <2>. QED BY <2>1 DEF Call!Next, Call!Pong
<1>4. CASE Connect
  <2>1. CallAt = "off" /\ CallAt' = "listing" /\ seen' = seen /\ known' = FALSE
    BY <1>4 DEF Connect, Goes, CallAt, Importing
  <2>. QED BY <2>1 DEF Call!Next, Call!Connect
<1>5. CASE List
  <2>1. /\ CallAt = "listing" /\ CallAt' = "waiting" /\ seen' = seen
        /\ known' <=> seen # "absent"
    BY <1>5 DEF List, Goes, CallAt, Importing, Truthful, Told
  <2>2. (IF known' THEN {"entry"} ELSE {}) = {e \in {"entry"} : [f \in {"entry"} |-> seen][e] # "absent"}
    BY <2>1
  <2>. QED BY <2>1, <2>2 DEF Call!Next, Call!Listed
<1>. QED BY <1>1, <1>2, <1>3, <1>4, <1>5

LEMMA KilledCalls == Inv /\ Truthful /\ Killed => Call!Next
<1>. SUFFICES ASSUME Inv, Truthful, Killed PROVE Call!Next
    OBVIOUS
<1>1. /\ CallAt \notin {"off", "waiting", "killed"} /\ CallAt' = "off" /\ known' = known
      /\ seen' = Told(dir, whole)
    BY DEF Killed, CallAt, Importing, Inv, TypeOK, State
<1>2. seen' \in Call!LeftAs
  <2>1. CASE pc \in Importing
    BY <1>1, <2>1 DEF CallAt, Importing, Call!LeftAs, Call!DirState, Told
  <2>2. CASE pc = "destroying"
    BY <1>1, <2>2 DEF CallAt, Importing, Call!LeftAs, Told, Truthful
  <2>3. CASE pc \notin Importing \cup {"destroying"}
    BY <1>1, <2>3 DEF CallAt, Call!LeftAs, Truthful, Call!DirState, Told
  <2>. QED BY <2>1, <2>2, <2>3
<1>3. Call!Leave
    BY <1>1, <1>2 DEF Call!Leave, Call!Become
<1>. QED BY <1>3 DEF Call!Next

(***************************************************************************)
(* What the handlers do to the directory, file by file, is what DroneCall  *)
(* says of a request and its answer.                                       *)
(***************************************************************************)
THEOREM ImplementsCall == Spec => CallSpec
<1>1. Inv /\ Truthful /\ [Next]_vars => [Call!Next]_(Call!vars)
  <2>1. ASSUME UNCHANGED vars PROVE UNCHANGED Call!vars
    BY <2>1, CallStutter DEF vars, CallAt
  <2>. QED BY <2>1, ImportCalls, JudgeCalls, OverlordCalls, KilledCalls DEF Next
<1>2. Spec => []Truthful
    BY Invariance, TruthfulInit, TruthfulStep, PTL DEF Spec
<1>. QED BY Invariance, CallInit, <1>1, <1>2, PTL DEF Spec, CallSpec, Call!Spec

=============================================================================
