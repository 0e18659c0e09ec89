------------------------------ MODULE WebQueue ------------------------------
(***************************************************************************)
(* The web interface's submissions: rows of a database, each with the id   *)
(* of the overlord's job, and requests that send a source (submit) or      *)
(* fetch all results that have come (pull), each served by a process.      *)
(*                                                                         *)
(* All processes use one async client of the overlord.  Of the overlord    *)
(* there is what that client sees: ids, jobs under way, results.  A result *)
(* carries the id only; which submission it judges, and in which life of   *)
(* the overlord, is kept as history.                                       *)
(***************************************************************************)
EXTENDS Naturals, FiniteSets

CONSTANTS
    Web,         \* processes of the web server, one request each at a time
    Submission,  \* sources that users send
    MaxLives,    \* bound: restarts of the overlord
    NoRow,       \* not in the database
    InQueue,     \* code -1
    Refused      \* a code other than RUN_PENDING, without a job

ASSUME LivesAssumption == MaxLives \in Nat

Job == [id : Nat, life : Nat, sub : Submission]

ASSUME CodeAssumption ==
    /\ NoRow \notin Submission
    /\ NoRow \notin Job /\ InQueue \notin Job /\ Refused \notin Job
    /\ NoRow # InQueue /\ NoRow # Refused /\ InQueue # Refused

VARIABLES
    life,     \* restarts of the overlord
    idc,      \* JobManager::idc
    working,  \* jobs accepted and not done
    results,  \* ASyncClient::results of the cookie "webcookie"
    at,       \* at[w]: where the process is
    sub,      \* sub[w]: the submission it is sending
    told,     \* told[w]: the overlord's answer to its judge
    got,      \* got[w]: the results it has pulled
    found,    \* found[w][s]: the code it will store for submission s
    code,     \* code[s]: the row's code, a result's when it has been judged
    jobid,    \* jobid[s]: the row's job id
    given     \* history: given[s] is the job made for submission s

overlord == <<life, idc, working, results>>
process == <<at, sub, told, got, found>>
database == <<code, jobid>>
vars == <<overlord, process, database, given>>

Code == Job \cup {NoRow, InQueue, Refused}

WebState == {"idle", "asking", "answered", "storing",
             "pulling", "matching", "committing", "spinning"}

Submitting == {"asking", "answered", "storing"}

Goes(w, from, to) == at[w] = from /\ at' = [at EXCEPT ![w] = to]

-----------------------------------------------------------------------------
(***************************************************************************)
(* submit: client.judge connects and sends the source.  The same text sent *)
(* again is another submission.                                            *)
(***************************************************************************)
Fresh(s) == code[s] = NoRow /\ given[s] = NoRow /\ \A w \in Web : sub[w] # s

Submit(w, s) ==
    /\ Goes(w, "idle", "asking")
    /\ Fresh(s)
    /\ sub' = [sub EXCEPT ![w] = s]
    /\ UNCHANGED <<overlord, told, got, found, database, given>>

(***************************************************************************)
(* The overlord's thread takes the source: it is refused, for an entry     *)
(* that is not known, or gets the next id, which is the answer.            *)
(***************************************************************************)
Accept(w) ==
    LET job == [id |-> idc, life |-> life, sub |-> sub[w]]
    IN /\ Goes(w, "asking", "answered")
       /\ idc' = idc + 1
       /\ working' = working \cup {job}
       /\ told' = [told EXCEPT ![w] = job]
       /\ given' = [given EXCEPT ![sub[w]] = job]
       /\ UNCHANGED <<life, results, sub, got, found, database>>

Refuse(w) ==
    /\ Goes(w, "asking", "answered")
    /\ told' = [told EXCEPT ![w] = Refused]
    /\ UNCHANGED <<overlord, sub, got, found, database, given>>

(***************************************************************************)
(* The code and the message have been read.                                *)
(***************************************************************************)
ReadAnswer(w) ==
    /\ Goes(w, "answered", "storing")
    /\ UNCHANGED <<overlord, sub, told, got, found, database, given>>

(***************************************************************************)
(* The row is added and committed.                                         *)
(***************************************************************************)
NeverPending(w) == Refused  \* mutant: the code is not compared with RUN_PENDING
CodeStored(w) == IF told[w] = Refused THEN Refused ELSE InQueue

IdStored(w) == IF told[w] = Refused THEN 0 ELSE told[w].id

\* Mutant: the answer stays with the process.
ForgetSubmission(w) == sub' = [sub EXCEPT ![w] = NoRow] /\ UNCHANGED told

Forget(w) ==
    /\ sub' = [sub EXCEPT ![w] = NoRow]
    /\ told' = [told EXCEPT ![w] = NoRow]

Store(w) ==
    /\ Goes(w, "storing", "idle")
    /\ code' = [code EXCEPT ![sub[w]] = CodeStored(w)]
    /\ jobid' = [jobid EXCEPT ![sub[w]] = IdStored(w)]
    /\ Forget(w)
    /\ UNCHANGED <<overlord, got, found, given>>

(***************************************************************************)
(* Any exception on the way, of the connection, in reading a code from a   *)
(* connection that has ended, or of the database: submit returns its text  *)
(* and there is no row, whether or not there is a job.                     *)
(***************************************************************************)
SubmitFails(w) ==
    /\ at[w] \in Submitting
    /\ at' = [at EXCEPT ![w] = "idle"]
    /\ Forget(w)
    /\ UNCHANGED <<overlord, got, found, database, given>>

-----------------------------------------------------------------------------
(***************************************************************************)
(* The overlord's part: a job is done, and its result is kept for the next *)
(* pull; or it is lost with the thread of a drone (LostOnlyWithDrone of    *)
(* Overlord).                                                              *)
(***************************************************************************)
Done(job) ==
    /\ job \in working
    /\ working' = working \ {job}
    /\ results' = results \cup {job}
    /\ UNCHANGED <<life, idc, process, database, given>>

Lose(job) ==
    /\ job \in working
    /\ working' = working \ {job}
    /\ UNCHANGED <<life, idc, results, process, database, given>>

(***************************************************************************)
(* The overlord ends and is started again: JobManager::init, no cookies.   *)
(* A request it has not taken fails.                                       *)
(***************************************************************************)
IdcAfterInit == 0

Restart ==
    /\ life < MaxLives
    /\ life' = life + 1
    /\ idc' = IdcAfterInit
    /\ working' = {} /\ results' = {}
    /\ at' = [w \in Web |-> IF at[w] = "asking" THEN "idle" ELSE at[w]]
    /\ sub' = [w \in Web |-> IF at[w] = "asking" THEN NoRow ELSE sub[w]]
    /\ UNCHANGED <<told, got, found, database, given>>

-----------------------------------------------------------------------------
(***************************************************************************)
(* pull: the overlord copies the results and clears them under its lock    *)
(* and then writes them.                                                   *)
(***************************************************************************)
ResultsKept == results  \* mutant: the results are not cleared
ResultsAfterPull == {}

Pull(w) ==
    /\ Goes(w, "idle", "pulling")
    /\ got' = [got EXCEPT ![w] = results]
    /\ results' = ResultsAfterPull
    /\ UNCHANGED <<life, idc, working, sub, told, found, database, given>>

PullRead(w) ==
    /\ Goes(w, "pulling", "matching")
    /\ UNCHANGED <<overlord, sub, told, got, found, database, given>>

(***************************************************************************)
(* The connection breaks before the empty package that ends the results.   *)
(* If recv raises an error, pull ends; if it returns nothing, read returns *)
(* None for every further package, none of which is empty, and the loop of *)
(* pullresults does not end.                                               *)
(***************************************************************************)
PullBreaks(w) ==
    /\ \E to \in {"idle", "spinning"} : Goes(w, "pulling", to)
    /\ got' = [got EXCEPT ![w] = {}]
    /\ UNCHANGED <<overlord, sub, told, found, database, given>>

(***************************************************************************)
(* one() for every result: the only row in the queue with its job id.      *)
(***************************************************************************)
AnyRow(id) == {s \in Submission : code[s] = InQueue}  \* mutant: no filter by job id
Rows(id) == {s \in Submission : code[s] = InQueue /\ jobid[s] = id}

EachHasOneRow(w) == \A r \in got[w] : \E s \in Submission : Rows(r.id) = {s}

\* Mutant: rows and results are matched in the order they come in.
CodeInOrder(w, s) ==
    IF \E r \in got[w] : s \in Rows(r.id) THEN CHOOSE r \in got[w] : TRUE ELSE NoRow

CodeFor(w, s) ==
    IF \E r \in got[w] : s \in Rows(r.id)
    THEN CHOOSE r \in got[w] : s \in Rows(r.id) ELSE NoRow

Match(w) ==
    /\ EachHasOneRow(w)
    /\ Goes(w, "matching", "committing")
    /\ found' = [found EXCEPT ![w] = [s \in Submission |-> CodeFor(w, s)]]
    /\ UNCHANGED <<overlord, sub, told, got, database, given>>

(***************************************************************************)
(* one() raises for a result: nothing of the session is stored.            *)
(***************************************************************************)
NeverRaises(w) == FALSE  \* mutant: a result without a row is waited for
MatchFails(w) ==
    /\ ~EachHasOneRow(w)
    /\ Goes(w, "matching", "idle")
    /\ got' = [got EXCEPT ![w] = {}]
    /\ UNCHANGED <<overlord, sub, told, found, database, given>>

Commit(w) ==
    /\ Goes(w, "committing", "idle")
    /\ code' = [s \in Submission |-> IF found[w][s] # NoRow THEN found[w][s] ELSE code[s]]
    /\ found' = [found EXCEPT ![w] = [s \in Submission |-> NoRow]]
    /\ got' = [got EXCEPT ![w] = {}]
    /\ UNCHANGED <<overlord, sub, told, jobid, given>>

CommitFails(w) ==
    /\ Goes(w, "committing", "idle")
    /\ found' = [found EXCEPT ![w] = [s \in Submission |-> NoRow]]
    /\ got' = [got EXCEPT ![w] = {}]
    /\ UNCHANGED <<overlord, sub, told, database, given>>

-----------------------------------------------------------------------------
Request(w) == Pull(w) \/ \E s \in Submission : Submit(w, s)

Works(w) ==
    \/ Accept(w) \/ Refuse(w) \/ ReadAnswer(w) \/ Store(w) \/ SubmitFails(w)
    \/ PullRead(w) \/ PullBreaks(w) \/ Match(w) \/ MatchFails(w)
    \/ Commit(w) \/ CommitFails(w)

JobEnds == \E job \in working : Done(job) \/ Lose(job)

NoResult == [s \in Submission |-> NoRow]

Init ==
    /\ life = 0 /\ idc = 0 /\ working = {} /\ results = {}
    /\ at = [w \in Web |-> "idle"]
    /\ sub \in [Web -> {NoRow}]
    /\ told = [w \in Web |-> NoRow]
    /\ got = [w \in Web |-> {}]
    /\ found = [w \in Web |-> NoResult]
    /\ code = [s \in Submission |-> NoRow]
    /\ jobid = [s \in Submission |-> 0]
    /\ given = [s \in Submission |-> NoRow]

Next ==
    \/ \E w \in Web : Request(w) \/ Works(w)
    \/ JobEnds
    \/ Restart

Spec == Init /\ [][Next]_vars

(***************************************************************************)
(* Fairness: processes run on and get their answers or an error, and jobs  *)
(* end.  Of the users it is assumed that they ask for the list of          *)
(* submissions again and again, with the Update button or a new page; the  *)
(* page's own timer does not.                                              *)
(***************************************************************************)
Fairness ==
    /\ \A w \in Web : WF_vars(Works(w)) /\ SF_vars(Pull(w))
    /\ WF_vars(JobEnds)

FairSpec == Spec /\ Fairness

-----------------------------------------------------------------------------
(***************************************************************************)
(* Type correctness of the overlord's part, the processes' locals and the  *)
(* rows; a process has a submission while it sends one, and an answer as   *)
(* soon as there is one.                                                   *)
(***************************************************************************)
TypeOK ==
    /\ life \in 0..MaxLives /\ idc \in Nat
    /\ working \in SUBSET Job /\ results \in SUBSET Job
    /\ at \in [Web -> WebState]
    /\ sub \in [Web -> Submission \cup {NoRow}]
    /\ told \in [Web -> Job \cup {NoRow, Refused}]
    /\ got \in [Web -> SUBSET Job]
    /\ found \in [Web -> [Submission -> Job \cup {NoRow}]]
    /\ code \in [Submission -> Code]
    /\ jobid \in [Submission -> Nat]
    /\ given \in [Submission -> Job \cup {NoRow}]
    /\ \A w \in Web : /\ sub[w] # NoRow <=> at[w] \in Submitting
                      /\ told[w] # NoRow <=> at[w] \in Submitting \ {"asking"}

(***************************************************************************)
(* The result of submission s is on its way to the database.               *)
(***************************************************************************)
Coming(s) == given[s] \in working \cup results \cup UNION {got[w] : w \in Web}

(***************************************************************************)
(* The id was given out once, in one life of the overlord.                 *)
(***************************************************************************)
GivenOnce(id) ==
    \A s, t \in Submission :
        given[s] # NoRow /\ given[t] # NoRow /\ given[s].id = id /\ given[t].id = id => s = t

(***************************************************************************)
(* A row has the verdict on its own source, whatever pulls run at the same *)
(* time; another's only when a restart of the overlord has given its id    *)
(* out again.                                                              *)
(***************************************************************************)
VerdictIsOwn ==
    \A s \in Submission : code[s] \in Job =>
        \/ code[s] = given[s]
        \/ code[s].id = jobid[s] /\ ~GivenOnce(jobid[s])

(***************************************************************************)
(* pull finds exactly the row a result belongs to, if that row is stored   *)
(* and its id was given out once: it is in the queue, so that nothing is   *)
(* judged twice, and no other row in the queue has its id.                 *)
(***************************************************************************)
ResultsFindTheirRow ==
    \A r \in results \cup UNION {got[w] : w \in Web} :
        code[r.sub] # NoRow /\ GivenOnce(r.id) => Rows(r.id) = {r.sub}

(***************************************************************************)
(* A result goes to one pull: it is with the overlord or in the hands of   *)
(* one process.                                                            *)
(***************************************************************************)
ResultInOnePlace ==
    /\ working \cap results = {}
    /\ \A w \in Web :
          /\ got[w] \cap (working \cup results) = {}
          /\ \A v \in Web \ {w} : got[w] \cap got[v] = {}

(***************************************************************************)
(* A step that loses a result on its way is a restart of the overlord, the *)
(* loss of the job, an error of the connection or the database in a pull,  *)
(* or a pull that has also read the result of a submission without a row   *)
(* (or under an id given out twice): a batch fails for nothing else.       *)
(***************************************************************************)
HasCause(s) ==
    \/ life' # life
    \/ given[s] \in working
    \/ \E w \in Web :
          /\ given[s] \in got[w]
          /\ \/ at[w] \in {"pulling", "committing"}
             \/ \E r \in got[w] : code[r.sub] = NoRow \/ ~GivenOnce(r.id)

LossesHaveCauses ==
    [][\A s \in Submission :
          Coming(s) /\ ~Coming(s)' /\ code'[s] # given[s] => HasCause(s)]_vars

(***************************************************************************)
(* No result stays on its way for ever, as long as not every process is    *)
(* caught in the loop of a pull whose connection has ended.                *)
(***************************************************************************)
ResultsLand ==
    \A s \in Submission :
        Coming(s) ~> (~Coming(s) \/ \A w \in Web : at[w] = "spinning")

=============================================================================
