--------------------------- MODULE WebQueueProofs ---------------------------
(***************************************************************************)
(* For any number of processes, submissions and restarts of the overlord:  *)
(* a result is in one place, finds the row it belongs to, and a row has    *)
(* the verdict on its own source unless its id was given out twice.        *)
(***************************************************************************)
EXTENDS WebQueue, TLAPS

(***************************************************************************)
(* A job on its way is the one that was made for its submission.           *)
(***************************************************************************)
OnItsWay(j) == j \in working \/ j \in results \/ \E w \in Web : j \in got[w]

JobsAreGiven == \A j \in Job : OnItsWay(j) => given[j.sub] = j

(***************************************************************************)
(* A submission being sent has no row yet, no job before the overlord has  *)
(* answered, and no other process sends it.                                *)
(***************************************************************************)
Sending ==
    \A w \in Web :
        /\ at[w] \in Submitting => sub[w] \in Submission /\ code[sub[w]] = NoRow
        /\ at[w] = "asking" => given[sub[w]] = NoRow
        /\ told[w] = Refused => given[sub[w]] = NoRow
        /\ told[w] \in Job => told[w] = given[sub[w]]
        /\ \A v \in Web \ {w} : sub[w] # NoRow => sub[v] # sub[w]

(***************************************************************************)
(* A row has the id of its own job.                                        *)
(***************************************************************************)
RowsHaveIds ==
    \A s \in Submission :
        /\ code[s] \in Job \cup {InQueue} => given[s] \in Job /\ jobid[s] = given[s].id
        /\ code[s] = Refused => given[s] = NoRow

(***************************************************************************)
(* Only a pull has results, and what it is about to store it has pulled,   *)
(* for a row with that id.                                                 *)
(***************************************************************************)
Matched ==
    \A w \in Web :
        /\ at[w] \notin {"pulling", "matching", "committing"} => got[w] = {}
        /\ \A s \in Submission :
              found[w][s] # NoRow =>
                  /\ at[w] = "committing"
                  /\ found[w][s] \in got[w]
                  /\ code[s] \in Job \cup {InQueue}
                  /\ found[w][s].id = jobid[s]

(***************************************************************************)
(* A verdict was made for a submission with that id; one on its own source *)
(* is nowhere else.                                                        *)
(***************************************************************************)
Stored ==
    \A s \in Submission :
        code[s] \in Job =>
            /\ given[code[s].sub] = code[s]
            /\ code[s].id = jobid[s]
            /\ ~OnItsWay(code[s])

Inv ==
    /\ TypeOK /\ ResultInOnePlace
    /\ JobsAreGiven /\ Sending /\ RowsHaveIds /\ Matched /\ Stored

LEMMA InitInv == Init => Inv
<1>. SUFFICES ASSUME Init PROVE Inv
    OBVIOUS
<1>. USE LivesAssumption, CodeAssumption
<1>1. TypeOK
    BY DEF Init, TypeOK, WebState, Submitting, Code, NoResult
<1>2. ResultInOnePlace
    BY DEF Init, ResultInOnePlace
<1>3. JobsAreGiven /\ Sending
    BY DEF Init, JobsAreGiven, OnItsWay, Sending, Submitting
<1>4. RowsHaveIds /\ Matched /\ Stored
    BY DEF Init, RowsHaveIds, Matched, Stored, NoResult
<1>. QED BY <1>1, <1>2, <1>3, <1>4 DEF Inv

(***************************************************************************)
(* Sending a source.                                                       *)
(***************************************************************************)
LEMMA SubmitInv ==
    ASSUME Inv, NEW w \in Web, NEW s \in Submission, Submit(w, s)
    PROVE  Inv'
<1>. USE LivesAssumption, CodeAssumption
<1>1. TypeOK'
    BY DEF Inv, TypeOK, Submit, Goes, overlord, database, WebState, Submitting, Code
<1>2. ResultInOnePlace' /\ JobsAreGiven'
    BY DEF Inv, ResultInOnePlace, JobsAreGiven, OnItsWay, Submit, overlord
<1>3. Sending'
    BY DEF Inv, TypeOK, Sending, Submitting, Submit, Goes, Fresh, database
<1>4. RowsHaveIds' /\ Matched' /\ Stored'
    BY DEF Inv, TypeOK, RowsHaveIds, Matched, Stored, OnItsWay, Submit, Goes, overlord, database
<1>. QED BY <1>1, <1>2, <1>3, <1>4 DEF Inv

LEMMA AcceptInv ==
    ASSUME Inv, NEW w \in Web, Accept(w)
    PROVE  Inv'
<1>. USE LivesAssumption, CodeAssumption
<1>. DEFINE job == [id |-> idc, life |-> life, sub |-> sub[w]]
<1>1. /\ sub[w] \in Submission /\ given[sub[w]] = NoRow /\ code[sub[w]] = NoRow
      /\ job \in Job /\ job.sub = sub[w]
    BY DEF Inv, TypeOK, Sending, Submitting, Accept, Goes, Job
<1>2. /\ at[w] = "asking" /\ at' = [at EXCEPT ![w] = "answered"]
      /\ idc' = idc + 1 /\ working' = working \cup {job}
      /\ told' = [told EXCEPT ![w] = job]
      /\ given' = [given EXCEPT ![sub[w]] = job]
      /\ UNCHANGED <<life, results, sub, got, found, code, jobid>>
    BY DEF Accept, Goes, database
<1>. HIDE DEF job
<1>3. TypeOK'
    BY <1>1, <1>2 DEF Inv, TypeOK, WebState, Submitting
<1>4. ~OnItsWay(job)
    BY <1>1 DEF Inv, JobsAreGiven
<1>5. ResultInOnePlace'
    BY <1>2, <1>4 DEF Inv, ResultInOnePlace, OnItsWay
<1>6. \A j \in Job : given[j.sub] = j => given'[j.sub] = j
    BY <1>1, <1>2 DEF Inv, TypeOK, Job
<1>7. given'[job.sub] = job
    BY <1>1, <1>2 DEF Inv, TypeOK
<1>8. \A j \in Job : OnItsWay(j)' => j = job \/ OnItsWay(j)
    BY <1>2 DEF OnItsWay
<1>9. JobsAreGiven'
    BY <1>6, <1>7, <1>8 DEF Inv, JobsAreGiven
<1>10. Sending'
    BY <1>1, <1>2 DEF Inv, TypeOK, Sending, Submitting
<1>11. RowsHaveIds'
    BY <1>1, <1>2 DEF Inv, TypeOK, RowsHaveIds
<1>12. Matched'
    BY <1>2 DEF Inv, TypeOK, Matched
<1>13. Stored'
    BY <1>1, <1>2, <1>6, <1>8 DEF Inv, TypeOK, Stored
<1>. QED BY <1>3, <1>5, <1>9, <1>10, <1>11, <1>12, <1>13 DEF Inv

LEMMA AnswerInv ==
    ASSUME Inv, NEW w \in Web, Refuse(w) \/ ReadAnswer(w)
    PROVE  Inv'
<1>. USE LivesAssumption, CodeAssumption
<1>1. /\ at[w] \in Submitting
      /\ \E to \in Submitting \ {"asking"} : at' = [at EXCEPT ![w] = to]
      /\ \/ at[w] = "asking" /\ told' = [told EXCEPT ![w] = Refused]
         \/ at[w] = "answered" /\ told' = told
      /\ UNCHANGED <<life, idc, working, results, sub, got, found, code, jobid, given>>
    BY DEF Refuse, ReadAnswer, Goes, overlord, database, Submitting
<1>2. TypeOK'
    BY <1>1 DEF Inv, TypeOK, WebState, Submitting
<1>3. ResultInOnePlace' /\ JobsAreGiven'
    BY <1>1 DEF Inv, ResultInOnePlace, JobsAreGiven, OnItsWay
<1>4. Sending'
    BY <1>1 DEF Inv, TypeOK, Sending, Submitting
<1>5. RowsHaveIds' /\ Matched' /\ Stored'
    BY <1>1 DEF Inv, TypeOK, Submitting, RowsHaveIds, Matched, Stored, OnItsWay
<1>. QED BY <1>2, <1>3, <1>4, <1>5 DEF Inv

LEMMA StoreInv ==
    ASSUME Inv, NEW w \in Web, Store(w)
    PROVE  Inv'
<1>. USE LivesAssumption, CodeAssumption
<1>1. /\ at[w] = "storing" /\ at' = [at EXCEPT ![w] = "idle"]
      /\ code' = [code EXCEPT ![sub[w]] = CodeStored(w)]
      /\ jobid' = [jobid EXCEPT ![sub[w]] = IdStored(w)]
      /\ sub' = [sub EXCEPT ![w] = NoRow] /\ told' = [told EXCEPT ![w] = NoRow]
      /\ UNCHANGED <<life, idc, working, results, got, found, given>>
    BY DEF Store, Goes, Forget, overlord
<1>2. /\ sub[w] \in Submission /\ code[sub[w]] = NoRow
      /\ told[w] \in Job \cup {Refused}
    BY <1>1 DEF Inv, TypeOK, Sending, Submitting
<1>3. /\ CodeStored(w) \in {InQueue, Refused} /\ IdStored(w) \in Nat
      /\ CodeStored(w) = InQueue => told[w] \in Job /\ IdStored(w) = told[w].id
      /\ CodeStored(w) = Refused => told[w] = Refused
    BY <1>2 DEF CodeStored, IdStored, Job
<1>4. TypeOK'
    BY <1>1, <1>2, <1>3 DEF Inv, TypeOK, WebState, Submitting, Code
<1>5. ResultInOnePlace' /\ JobsAreGiven'
    BY <1>1 DEF Inv, ResultInOnePlace, JobsAreGiven, OnItsWay
<1>6. Sending'
    BY <1>1, <1>2 DEF Inv, TypeOK, Sending, Submitting
<1>7. RowsHaveIds'
    BY <1>1, <1>2, <1>3 DEF Inv, TypeOK, RowsHaveIds, Sending
<1>8. Matched'
    BY <1>1, <1>2 DEF Inv, TypeOK, Matched
<1>9. Stored'
    BY <1>1, <1>2, <1>3 DEF Inv, TypeOK, Stored, OnItsWay
<1>. QED BY <1>4, <1>5, <1>6, <1>7, <1>8, <1>9 DEF Inv

LEMMA SubmitFailsInv ==
    ASSUME Inv, NEW w \in Web, SubmitFails(w)
    PROVE  Inv'
<1>. USE LivesAssumption, CodeAssumption
<1>1. /\ at[w] \in Submitting /\ at' = [at EXCEPT ![w] = "idle"]
      /\ sub' = [sub EXCEPT ![w] = NoRow] /\ told' = [told EXCEPT ![w] = NoRow]
      /\ UNCHANGED <<life, idc, working, results, got, found, code, jobid, given>>
    BY DEF SubmitFails, Forget, overlord, database
<1>2. TypeOK'
    BY <1>1 DEF Inv, TypeOK, WebState, Submitting
<1>3. ResultInOnePlace' /\ JobsAreGiven'
    BY <1>1 DEF Inv, ResultInOnePlace, JobsAreGiven, OnItsWay
<1>4. Sending'
    BY <1>1 DEF Inv, TypeOK, Sending, Submitting
<1>5. RowsHaveIds' /\ Matched' /\ Stored'
    BY <1>1 DEF Inv, TypeOK, Submitting, RowsHaveIds, Matched, Stored, OnItsWay
<1>. QED BY <1>2, <1>3, <1>4, <1>5 DEF Inv

(***************************************************************************)
(* The overlord's own steps.                                               *)
(***************************************************************************)
LEMMA JobEndsInv == Inv /\ JobEnds => Inv'
<1>. SUFFICES ASSUME Inv, NEW job \in working, Done(job) \/ Lose(job) PROVE Inv'
    BY DEF JobEnds
<1>. USE LivesAssumption, CodeAssumption
<1>1. /\ working' = working \ {job}
      /\ results' = results \cup {job} \/ results' = results
      /\ UNCHANGED <<life, idc, at, sub, told, got, found, code, jobid, given>>
    BY DEF Done, Lose, process, database
<1>2. TypeOK'
    BY <1>1 DEF Inv, TypeOK
<1>3. ResultInOnePlace'
    BY <1>1 DEF Inv, ResultInOnePlace
<1>4. \A j \in Job : OnItsWay(j)' => OnItsWay(j)
    BY <1>1 DEF OnItsWay
<1>5. JobsAreGiven'
    BY <1>1, <1>4 DEF Inv, JobsAreGiven
<1>6. Sending' /\ RowsHaveIds' /\ Matched'
    BY <1>1 DEF Inv, Sending, RowsHaveIds, Matched
<1>7. Stored'
    BY <1>1, <1>4 DEF Inv, Stored
<1>. QED BY <1>2, <1>3, <1>5, <1>6, <1>7 DEF Inv

LEMMA RestartInv == Inv /\ Restart => Inv'
<1>. SUFFICES ASSUME Inv, Restart PROVE Inv'
    OBVIOUS
<1>. USE LivesAssumption, CodeAssumption
<1>1. TypeOK'
  <2>1. life' \in 0..MaxLives /\ idc' \in Nat
    BY DEF Inv, TypeOK, Restart, IdcAfterInit
  <2>2. /\ at' \in [Web -> WebState] /\ sub' \in [Web -> Submission \cup {NoRow}]
        /\ \A w \in Web : /\ sub'[w] # NoRow <=> at'[w] \in Submitting
                          /\ told[w] # NoRow <=> at'[w] \in Submitting \ {"asking"}
    BY DEF Inv, TypeOK, Restart, WebState, Submitting
  <2>. QED BY <2>1, <2>2 DEF Inv, TypeOK, Restart, database
<1>2. ResultInOnePlace' /\ JobsAreGiven'
    BY DEF Inv, ResultInOnePlace, JobsAreGiven, OnItsWay, Restart
<1>3. Sending'
    BY DEF Inv, TypeOK, Sending, Submitting, Restart, database
<1>4. RowsHaveIds' /\ Matched' /\ Stored'
    BY DEF Inv, TypeOK, RowsHaveIds, Matched, Stored, OnItsWay, Restart, database
<1>. QED BY <1>1, <1>2, <1>3, <1>4 DEF Inv

(***************************************************************************)
(* Fetching results.                                                       *)
(***************************************************************************)
LEMMA PullInv ==
    ASSUME Inv, NEW w \in Web, Pull(w)
    PROVE  Inv'
<1>. USE LivesAssumption, CodeAssumption
<1>1. /\ at[w] = "idle" /\ at' = [at EXCEPT ![w] = "pulling"]
      /\ got' = [got EXCEPT ![w] = results] /\ results' = {}
      /\ UNCHANGED <<life, idc, working, sub, told, found, code, jobid, given>>
    BY DEF Pull, Goes, ResultsAfterPull, database
<1>2. TypeOK'
    BY <1>1 DEF Inv, TypeOK, WebState, Submitting
<1>3. ResultInOnePlace'
    BY <1>1 DEF Inv, TypeOK, ResultInOnePlace
<1>4. \A j \in Job : OnItsWay(j)' => OnItsWay(j)
    BY <1>1 DEF Inv, TypeOK, OnItsWay
<1>5. JobsAreGiven'
    BY <1>1, <1>4 DEF Inv, JobsAreGiven
<1>6. Sending' /\ RowsHaveIds' /\ Matched'
    BY <1>1 DEF Inv, TypeOK, Sending, Submitting, RowsHaveIds, Matched
<1>7. Stored'
    BY <1>1, <1>4 DEF Inv, Stored
<1>. QED BY <1>2, <1>3, <1>5, <1>6, <1>7 DEF Inv

LEMMA PullReadInv ==
    ASSUME Inv, NEW w \in Web, PullRead(w)
    PROVE  Inv'
<1>. USE LivesAssumption, CodeAssumption
<1>1. /\ at[w] = "pulling" /\ at' = [at EXCEPT ![w] = "matching"]
      /\ UNCHANGED <<life, idc, working, results, sub, told, got, found, code, jobid, given>>
    BY DEF PullRead, Goes, overlord, database
<1>2. TypeOK'
    BY <1>1 DEF Inv, TypeOK, WebState, Submitting
<1>3. ResultInOnePlace' /\ JobsAreGiven'
    BY <1>1 DEF Inv, ResultInOnePlace, JobsAreGiven, OnItsWay
<1>4. Sending' /\ RowsHaveIds' /\ Matched' /\ Stored'
    BY <1>1 DEF Inv, TypeOK, Submitting, Sending, RowsHaveIds, Matched, Stored, OnItsWay
<1>. QED BY <1>2, <1>3, <1>4 DEF Inv

(***************************************************************************)
(* A pull that fails drops what it has, and stores nothing.                *)
(***************************************************************************)
LEMMA PullFailsInv ==
    ASSUME Inv, NEW w \in Web, PullBreaks(w) \/ MatchFails(w) \/ CommitFails(w)
    PROVE  Inv'
<1>. USE LivesAssumption, CodeAssumption
<1>1. /\ at[w] \in {"pulling", "matching", "committing"}
      /\ \E to \in {"idle", "spinning"} : at' = [at EXCEPT ![w] = to]
      /\ got' = [got EXCEPT ![w] = {}]
      /\ \/ at[w] # "committing" /\ found' = found
         \/ found' = [found EXCEPT ![w] = [s \in Submission |-> NoRow]]
      /\ UNCHANGED <<life, idc, working, results, sub, told, code, jobid, given>>
    BY DEF PullBreaks, MatchFails, CommitFails, Goes, overlord, database
<1>2. TypeOK'
    BY <1>1 DEF Inv, TypeOK, WebState, Submitting
<1>3. ResultInOnePlace'
    BY <1>1 DEF Inv, TypeOK, ResultInOnePlace
<1>4. \A j \in Job : OnItsWay(j)' => OnItsWay(j)
    BY <1>1 DEF Inv, TypeOK, OnItsWay
<1>5. JobsAreGiven'
    BY <1>1, <1>4 DEF Inv, JobsAreGiven
<1>6. Sending' /\ RowsHaveIds'
    BY <1>1 DEF Inv, TypeOK, Sending, Submitting, RowsHaveIds
<1>7. Matched'
    BY <1>1 DEF Inv, TypeOK, Matched
<1>8. Stored'
    BY <1>1, <1>4 DEF Inv, Stored
<1>. QED BY <1>2, <1>3, <1>5, <1>6, <1>7, <1>8 DEF Inv

LEMMA MatchInv ==
    ASSUME Inv, NEW w \in Web, Match(w)
    PROVE  Inv'
<1>. USE LivesAssumption, CodeAssumption
<1>1. /\ at[w] = "matching" /\ at' = [at EXCEPT ![w] = "committing"]
      /\ found' = [found EXCEPT ![w] = [s \in Submission |-> CodeFor(w, s)]]
      /\ UNCHANGED <<life, idc, working, results, sub, told, got, code, jobid, given>>
    BY DEF Match, Goes, overlord, database
<1>2. ASSUME NEW s \in Submission, CodeFor(w, s) # NoRow
      PROVE  /\ CodeFor(w, s) \in got[w]
             /\ code[s] = InQueue /\ jobid[s] = CodeFor(w, s).id
    BY <1>2 DEF CodeFor, Rows
<1>3. \A s \in Submission : CodeFor(w, s) \in Job \cup {NoRow}
    BY <1>2 DEF Inv, TypeOK
<1>4. TypeOK'
    BY <1>1, <1>3 DEF Inv, TypeOK, WebState, Submitting
<1>5. ResultInOnePlace' /\ JobsAreGiven'
    BY <1>1 DEF Inv, ResultInOnePlace, JobsAreGiven, OnItsWay
<1>6. Sending' /\ RowsHaveIds' /\ Stored'
    BY <1>1 DEF Inv, TypeOK, Submitting, Sending, RowsHaveIds, Stored, OnItsWay
<1>7. Matched'
    BY <1>1, <1>2 DEF Inv, TypeOK, Matched
<1>. QED BY <1>4, <1>5, <1>6, <1>7 DEF Inv

LEMMA CommitInv ==
    ASSUME Inv, NEW w \in Web, Commit(w)
    PROVE  Inv'
<1>. USE LivesAssumption, CodeAssumption
<1>1. /\ at[w] = "committing" /\ at' = [at EXCEPT ![w] = "idle"]
      /\ code' = [s \in Submission |-> IF found[w][s] # NoRow THEN found[w][s] ELSE code[s]]
      /\ found' = [found EXCEPT ![w] = [s \in Submission |-> NoRow]]
      /\ got' = [got EXCEPT ![w] = {}]
      /\ UNCHANGED <<life, idc, working, results, sub, told, jobid, given>>
    BY DEF Commit, Goes, overlord
<1>2. \A s \in Submission :
          \/ found[w][s] = NoRow /\ code'[s] = code[s]
          \/ /\ found[w][s] # NoRow /\ code'[s] = found[w][s] /\ found[w][s] \in Job
             /\ found[w][s] \in got[w] /\ code[s] \in Job \cup {InQueue}
             /\ found[w][s].id = jobid[s]
    BY <1>1 DEF Inv, TypeOK, Matched
<1>3. TypeOK'
  <2>1. code' \in [Submission -> Code]
    BY <1>1 DEF Inv, TypeOK, Code
  <2>. QED BY <1>1, <2>1 DEF Inv, TypeOK, WebState, Submitting
<1>4. ResultInOnePlace'
    BY <1>1 DEF Inv, TypeOK, ResultInOnePlace
<1>5. \A j \in Job : OnItsWay(j)' => OnItsWay(j) /\ j \notin got[w]
    BY <1>1 DEF Inv, TypeOK, OnItsWay, ResultInOnePlace
<1>6. JobsAreGiven'
    BY <1>1, <1>5 DEF Inv, JobsAreGiven
<1>7. Sending'
    BY <1>1, <1>2 DEF Inv, TypeOK, Sending, Submitting
<1>8. RowsHaveIds'
    BY <1>1, <1>2 DEF Inv, RowsHaveIds
<1>9. Matched'
    BY <1>1, <1>2 DEF Inv, TypeOK, Matched
<1>10. Stored'
  <2>1. \A s \in Submission : found[w][s] # NoRow => given[found[w][s].sub] = found[w][s]
    BY <1>2 DEF Inv, JobsAreGiven, OnItsWay
  <2>. QED BY <1>1, <1>2, <1>5, <2>1 DEF Inv, Stored
<1>. QED BY <1>3, <1>4, <1>6, <1>7, <1>8, <1>9, <1>10 DEF Inv

LEMMA StutterInv == Inv /\ UNCHANGED vars => Inv'
<1>. SUFFICES ASSUME Inv, UNCHANGED vars PROVE Inv'
    OBVIOUS
<1>1. TypeOK' /\ ResultInOnePlace' /\ JobsAreGiven'
    BY DEF Inv, TypeOK, ResultInOnePlace, JobsAreGiven, OnItsWay, vars, overlord, process, database
<1>2. Sending' /\ RowsHaveIds' /\ Matched' /\ Stored'
    BY DEF Inv, Sending, RowsHaveIds, Matched, Stored, OnItsWay, vars, overlord, process, database
<1>. QED BY <1>1, <1>2 DEF Inv

THEOREM Invariance == Spec => []Inv
<1>1. Inv /\ [Next]_vars => Inv'
    BY SubmitInv, AcceptInv, AnswerInv, StoreInv, SubmitFailsInv, JobEndsInv, RestartInv,
       PullInv, PullReadInv, PullFailsInv, MatchInv, CommitInv, StutterInv
       DEF Next, Request, Works
<1>. QED BY InitInv, <1>1, PTL DEF Spec

-----------------------------------------------------------------------------
(***************************************************************************)
(* Type correctness of WebQueue.                                           *)
(***************************************************************************)
THEOREM TypeCorrect == Spec => []TypeOK
<1>1. Inv => TypeOK
    BY DEF Inv
<1>. QED BY Invariance, <1>1, PTL

(***************************************************************************)
(* No two pulls have the same result, and none has one that is still with  *)
(* the overlord.                                                           *)
(***************************************************************************)
THEOREM ResultsAreInOnePlace == Spec => []ResultInOnePlace
<1>1. Inv => ResultInOnePlace
    BY DEF Inv
<1>. QED BY Invariance, <1>1, PTL

(***************************************************************************)
(* A row has the verdict on its own source, unless its id was given out    *)
(* more than once.                                                         *)
(***************************************************************************)
THEOREM VerdictsAreOwn == Spec => []VerdictIsOwn
<1>1. Inv => VerdictIsOwn
  <2>. SUFFICES ASSUME Inv, NEW s \in Submission, code[s] \in Job,
                       code[s] # given[s]
                PROVE  code[s].id = jobid[s] /\ ~GivenOnce(jobid[s])
      BY DEF VerdictIsOwn
  <2>1. /\ given[code[s].sub] = code[s] /\ code[s].id = jobid[s]
        /\ given[s] \in Job /\ given[s].id = jobid[s]
    BY DEF Inv, Stored, RowsHaveIds
  <2>2. code[s].sub \in Submission /\ code[s].sub # s
    BY <2>1 DEF Job
  <2>. QED BY <2>1, <2>2, CodeAssumption DEF GivenOnce
<1>. QED BY Invariance, <1>1, PTL

(***************************************************************************)
(* A result whose submission has a row, under an id given out once, is     *)
(* matched with exactly that row.                                          *)
(***************************************************************************)
LEMMA OneRow ==
    ASSUME Inv, NEW r \in Job, OnItsWay(r), code[r.sub] # NoRow, GivenOnce(r.id)
    PROVE  Rows(r.id) = {r.sub}
<1>1. r.sub \in Submission /\ given[r.sub] = r
  BY DEF Inv, JobsAreGiven, Job
<1>2. code[r.sub] \in Job \cup {InQueue} /\ jobid[r.sub] = r.id
  BY <1>1, CodeAssumption DEF Inv, TypeOK, Code, RowsHaveIds
<1>3. code[r.sub] \notin Job
  <2>. SUFFICES ASSUME code[r.sub] \in Job PROVE FALSE
      OBVIOUS
  <2>1. /\ given[code[r.sub].sub] = code[r.sub] /\ code[r.sub].id = r.id
        /\ ~OnItsWay(code[r.sub]) /\ code[r.sub].sub \in Submission
    BY <1>1, <1>2 DEF Inv, Stored, Job
  <2>2. code[r.sub].sub = r.sub
    BY <1>1, <2>1, CodeAssumption DEF GivenOnce
  <2>. QED BY <1>1, <2>1, <2>2
<1>4. r.sub \in Rows(r.id)
  BY <1>1, <1>2, <1>3 DEF Rows
<1>5. \A t \in Rows(r.id) : t = r.sub
  <2>. SUFFICES ASSUME NEW t \in Submission, code[t] = InQueue, jobid[t] = r.id
                PROVE  t = r.sub
      BY DEF Rows
  <2>1. given[t] \in Job /\ given[t].id = r.id
    BY DEF Inv, RowsHaveIds
  <2>. QED BY <1>1, <2>1, CodeAssumption DEF GivenOnce
<1>. QED BY <1>4, <1>5 DEF Rows

THEOREM ResultsFindRows == Spec => []ResultsFindTheirRow
<1>1. Inv => ResultsFindTheirRow
  <2>. SUFFICES ASSUME Inv, NEW r \in results \cup UNION {got[w] : w \in Web},
                       code[r.sub] # NoRow, GivenOnce(r.id)
                PROVE  Rows(r.id) = {r.sub}
      BY DEF ResultsFindTheirRow
  <2>1. r \in Job /\ OnItsWay(r)
    BY DEF Inv, TypeOK, OnItsWay
  <2>. QED BY <2>1, OneRow
<1>. QED BY Invariance, <1>1, PTL

-----------------------------------------------------------------------------
LEMMA LossStep ==
    ASSUME Inv, [Next]_vars, NEW s \in Submission, Coming(s), ~Coming(s)'
    PROVE  HasCause(s)
<1>. USE CodeAssumption
<1>1. given[s] \in Job /\ OnItsWay(given[s])
    BY DEF Inv, TypeOK, Coming, OnItsWay
<1>2. given'[s] \notin working' /\ given'[s] \notin results' /\ \A w \in Web : given'[s] \notin got'[w]
    BY DEF Coming
<1>3. CASE given'[s] # given[s]
  <2>1. \E w \in Web : Accept(w) /\ s = sub[w]
    BY <1>3 DEF Next, Request, Works, JobEnds, Submit, Accept, Refuse, ReadAnswer, Store,
       SubmitFails, Done, Lose, Restart, Pull, PullRead, PullBreaks, Match, MatchFails, Commit,
       CommitFails, vars, Inv, TypeOK
  <2>. QED BY <1>1, <2>1 DEF Inv, Sending, Accept, Goes
<1>4. CASE given'[s] = given[s]
  <2>1. given[s] \notin working' /\ given[s] \notin results' /\ \A w \in Web : given[s] \notin got'[w]
    BY <1>2, <1>4
  <2>2. CASE given[s] \in working \/ life' # life
    BY <2>2 DEF HasCause
  <2>3. CASE given[s] \in results /\ life' = life
    <3>1. results \subseteq results' \/ \E w \in Web : Pull(w)
      <4>1. CASE \E w \in Web : Request(w) \/ Works(w)
        BY <4>1 DEF Request, Works, Submit, Accept, Refuse, ReadAnswer, Store, SubmitFails,
           PullRead, PullBreaks, Match, MatchFails, Commit, CommitFails, overlord
      <4>2. CASE JobEnds
        BY <4>2 DEF JobEnds, Done, Lose
      <4>3. CASE Restart
        BY <2>3, <4>3 DEF Restart, Inv, TypeOK
      <4>4. CASE UNCHANGED vars
        BY <4>4 DEF vars, overlord
      <4>. QED BY <4>1, <4>2, <4>3, <4>4 DEF Next
    <3>2. ASSUME NEW w \in Web, Pull(w) PROVE FALSE
      <4>1. got'[w] = results
        BY <3>2 DEF Pull, Inv, TypeOK
      <4>. QED BY <2>1, <2>3, <4>1
    <3>. QED BY <2>1, <2>3, <3>1, <3>2
  <2>4. ASSUME NEW w \in Web, given[s] \in got[w] PROVE HasCause(s)
    <3>1. CASE at[w] \in {"pulling", "committing"}
      BY <2>4, <3>1 DEF HasCause
    <3>2. CASE at[w] \notin {"pulling", "committing"}
      <4>1. at[w] = "matching" /\ got'[w] # got[w]
        BY <2>1, <2>4, <3>2 DEF Inv, Matched
      <4>2. MatchFails(w)
        <5>1. \E v \in Web : Pull(v) \/ PullBreaks(v) \/ MatchFails(v) \/ Commit(v) \/ CommitFails(v)
          <6>1. CASE \E v \in Web : Request(v) \/ Works(v)
            BY <4>1, <6>1 DEF Request, Works, Submit, Accept, Refuse, ReadAnswer, Store,
               SubmitFails, PullRead, Match
          <6>2. CASE JobEnds \/ Restart \/ UNCHANGED vars
            BY <4>1, <6>2 DEF JobEnds, Done, Lose, Restart, vars, process
          <6>. QED BY <6>1, <6>2 DEF Next
        <5>2. PICK v \in Web : Pull(v) \/ PullBreaks(v) \/ MatchFails(v) \/ Commit(v) \/ CommitFails(v)
          BY <5>1
        <5>3. v = w
          BY <4>1, <5>2 DEF Pull, PullBreaks, MatchFails, Commit, CommitFails, Inv, TypeOK
        <5>. QED BY <4>1, <5>2, <5>3 DEF Pull, PullBreaks, Commit, CommitFails, Goes
      <4>3. PICK r \in got[w] : ~\E t \in Submission : Rows(r.id) = {t}
        BY <4>2 DEF MatchFails, EachHasOneRow
      <4>4. r \in Job /\ OnItsWay(r) /\ r.sub \in Submission
        BY DEF Inv, TypeOK, OnItsWay, Job
      <4>5. code[r.sub] = NoRow \/ ~GivenOnce(r.id)
        BY <4>3, <4>4, OneRow
      <4>. QED BY <2>4, <4>5 DEF HasCause
    <3>. QED BY <3>1, <3>2
  <2>. QED BY <1>1, <2>2, <2>3, <2>4 DEF OnItsWay
<1>. QED BY <1>3, <1>4

(***************************************************************************)
(* A result is lost by a restart, with its job, by an error, or in a pull  *)
(* that finds no row for a result, which has none or an id given out       *)
(* twice.                                                                  *)
(***************************************************************************)
THEOREM LossesAreCaused == Spec => LossesHaveCauses
<1>1. Inv /\ [Next]_vars =>
        [\A s \in Submission :
            Coming(s) /\ ~Coming(s)' /\ code'[s] # given[s] => HasCause(s)]_vars
    BY LossStep
<1>. QED BY Invariance, <1>1, PTL DEF Spec, LossesHaveCauses

=============================================================================
