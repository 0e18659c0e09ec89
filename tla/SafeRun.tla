------------------------------- MODULE SafeRun ------------------------------
(***************************************************************************)
(* One run of a program under saferun, and what becomes of its output: the *)
(* program, the timer (the process that forks it, waits for it and is      *)
(* interrupted by the alarm), and the caller.  In an import the output     *)
(* goes through the output limiter into a file; in a judge it goes, with   *)
(* no limiter, to the process that compares it (judgemain).                *)
(*                                                                         *)
(* Output is a sequence of tokens: one that the reference has, too         *)
(* ("good"), a difference in white space ("blank"), any other ("bad").     *)
(* Programs under judgement have no children of their own (forkLimit 0).   *)
(***************************************************************************)
EXTENDS Integers, SequencesExt, FiniteSets

CONSTANTS
    Uses,      \* what the run is for: "judge", "import"
    Expected,  \* number of good tokens in the reference's output
    Limit,     \* outputLimit
    PipeSize,  \* tokens that fit into a pipe
    MaxOutput  \* bound: tokens a program writes

ASSUME UsesAssumption == Uses \subseteq {"judge", "import"}

ASSUME SizesAssumption ==
    /\ Expected \in Nat /\ Limit \in Nat \ {0} /\ MaxOutput \in Nat
    /\ PipeSize \in Nat \ {0}

Token == {"good", "blank", "bad"}

\* How a program ends: by itself, or by a signal.
End == {"exit_zero", "exit_not_zero", "sigsegv", "sigabrt", "sigfpe", "signal"}

VARIABLES
    use,
    app,    \* "running", "writing" (in write), or its End
    made,   \* history: the tokens the program has called write for
    pipe,   \* the pipe its output goes to
    timer,  \* "waiting", "reaped" (waitpid has returned), "told", or its exit
    told,   \* the time is in the pipe for it
    caller, \* "time", "timer", "limiter", "comparer", "done"
    x,      \* the caller has read a time
    res,    \* what saferun returns
    reader, \* the limiter or the comparer: "reading", or its exit
    seen    \* the tokens it has copied, or compared

vars == <<use, app, made, pipe, timer, told, caller, x, res, reader, seen>>

-----------------------------------------------------------------------------
(***************************************************************************)
(* The program.  Whoever reads its output may be gone: the drone ignores   *)
(* SIGPIPE and so does the program, whose write fails.  In a judge the     *)
(* drone itself keeps the pipe open for reading and never reads.           *)
(***************************************************************************)
Ended == app \in End

AppAsks ==
    /\ app = "running" /\ Len(made) < MaxOutput
    /\ \E t \in Token : made' = Append(made, t)
    /\ app' = "writing"
    /\ UNCHANGED <<use, pipe, timer, told, caller, x, res, reader, seen>>

AppWrites ==
    /\ app = "writing" /\ Len(pipe) < PipeSize
    /\ use = "judge" \/ reader = "reading"
    /\ pipe' = Append(pipe, Last(made))
    /\ app' = "running"
    /\ UNCHANGED <<use, made, timer, told, caller, x, res, reader, seen>>

AppCannotWrite ==
    /\ app = "writing" /\ use = "import" /\ reader # "reading"
    /\ app' = "running"
    /\ UNCHANGED <<use, made, pipe, timer, told, caller, x, res, reader, seen>>

AppEnds ==
    /\ app = "running"
    /\ app' \in End
    /\ UNCHANGED <<use, made, pipe, timer, told, caller, x, res, reader, seen>>

-----------------------------------------------------------------------------
(***************************************************************************)
(* The timer.                                                              *)
(***************************************************************************)
TimerAlive == timer \in {"waiting", "reaped", "told"}

TimerWaits ==
    /\ timer = "waiting" /\ Ended
    /\ timer' = "reaped"
    /\ UNCHANGED <<use, app, made, pipe, told, caller, x, res, reader, seen>>

TimerTells ==
    /\ timer = "reaped" /\ app = "exit_zero"
    /\ told' = TRUE
    /\ timer' = "told"
    /\ UNCHANGED <<use, app, made, pipe, caller, x, res, reader, seen>>

ResultOf(end) ==
    CASE end = "exit_not_zero" -> "exit_not_zero"
      [] end = "sigsegv" -> "invalid_memory_reference"
      [] end = "sigabrt" -> "memory_limit_exceeded"
      [] end = "sigfpe" -> "devide_by_zero"
      [] end = "signal" -> "runtime_error"
      [] end = "exit_zero" -> "success"

TimerExits ==
    /\ \/ timer = "reaped" /\ app # "exit_zero"
       \/ timer = "told"
    /\ timer' = ResultOf(app)
    /\ UNCHANGED <<use, app, made, pipe, told, caller, x, res, reader, seen>>

(***************************************************************************)
(* The alarm, which is not turned off when the program has ended.          *)
(***************************************************************************)
AlarmWithoutKill ==  \* mutant: only the timer ends
    /\ TimerAlive
    /\ timer' = "time_limit_exceeded"
    /\ UNCHANGED <<use, app, made, pipe, told, caller, x, res, reader, seen>>

Alarm ==
    /\ TimerAlive
    /\ timer' = "time_limit_exceeded"
    /\ app' = IF Ended THEN app ELSE "signal"
    /\ UNCHANGED <<use, made, pipe, told, caller, x, res, reader, seen>>

(***************************************************************************)
(* Something else ends the timer; the program goes on without it.          *)
(***************************************************************************)
TimerKilled ==
    /\ TimerAlive
    /\ timer' = "killed"
    /\ UNCHANGED <<use, app, made, pipe, told, caller, x, res, reader, seen>>

-----------------------------------------------------------------------------
(***************************************************************************)
(* The caller: saferun after the forks, then, in a judge, waitpid for the  *)
(* comparer.                                                               *)
(***************************************************************************)
CallerReadsTime ==
    /\ caller = "time"
    /\ told \/ ~TimerAlive
    /\ x' = told
    /\ caller' = "timer"
    /\ UNCHANGED <<use, app, made, pipe, timer, told, res, reader, seen>>

Returns(r) ==
    /\ res' = r
    /\ caller' = IF use = "judge" THEN "comparer" ELSE "done"

LimiterIgnored ==  \* mutant: saferun returns what the timer says
    /\ caller = "timer" /\ ~TimerAlive
    /\ Returns(IF timer = "killed" THEN "internal_error" ELSE timer)
    /\ UNCHANGED <<use, app, made, pipe, timer, told, x, reader, seen>>

CallerWaitsForTimer ==
    /\ caller = "timer" /\ ~TimerAlive
    /\ \/ timer = "killed" /\ Returns("internal_error")
       \/ timer = "success" /\ use = "import" /\ caller' = "limiter" /\ UNCHANGED res
       \/ ~(timer = "success" /\ use = "import") /\ timer # "killed" /\ Returns(timer)
    /\ UNCHANGED <<use, app, made, pipe, timer, told, x, reader, seen>>

CallerWaitsForLimiter ==
    /\ caller = "limiter" /\ reader # "reading"
    /\ Returns(reader)
    /\ UNCHANGED <<use, app, made, pipe, timer, told, x, reader, seen>>

CallerWaitsForComparer ==
    /\ caller = "comparer" /\ reader # "reading"
    /\ caller' = "done"
    /\ UNCHANGED <<use, app, made, pipe, timer, told, x, res, reader, seen>>

-----------------------------------------------------------------------------
(***************************************************************************)
(* A read of the pipe, which ends when the program, the timer and the      *)
(* caller have closed their ends of it.                                    *)
(***************************************************************************)
CallerKeepsOpen == use = "judge" /\ caller \in {"comparer", "done"}  \* mutant
CallerClosed == use = "import" \/ caller \in {"comparer", "done"}

EndOfOutput == pipe = <<>> /\ Ended /\ ~TimerAlive /\ CallerClosed

ReaderTakes(n) ==
    /\ reader = "reading" /\ n \in 1..Len(pipe)
    /\ pipe' = SubSeq(pipe, n + 1, Len(pipe))

(***************************************************************************)
(* The output limiter.                                                     *)
(***************************************************************************)
LimiterCopies ==
    /\ use = "import"
    /\ \E n \in 1..PipeSize :
          /\ ReaderTakes(n)
          /\ IF Len(seen) + n > Limit
             THEN reader' = "output_limit_exceeded" /\ UNCHANGED seen
             ELSE seen' = seen \o SubSeq(pipe, 1, n) /\ UNCHANGED reader
    /\ UNCHANGED <<use, app, made, timer, told, caller, x, res>>

LimiterEnds ==
    /\ use = "import" /\ reader = "reading" /\ EndOfOutput
    /\ reader' = "success"
    /\ UNCHANGED <<use, app, made, pipe, timer, told, caller, x, res, seen>>

(***************************************************************************)
(* The comparer: exits at the first token that does not belong there.      *)
(***************************************************************************)
Goods(s) == Cardinality({i \in DOMAIN s : s[i] = "good"})

Wrong(s) == "bad" \in ToSet(s) \/ Goods(s) > Expected

ComparerReads ==
    /\ use = "judge"
    /\ \E n \in 1..PipeSize :
          /\ ReaderTakes(n)
          /\ seen' = seen \o SubSeq(pipe, 1, n)
    /\ reader' = IF Wrong(seen') THEN "wrong_output" ELSE "reading"
    /\ UNCHANGED <<use, app, made, timer, told, caller, x, res>>

Compared(s) ==
    IF Goods(s) < Expected THEN "wrong_output"
    ELSE IF "blank" \in ToSet(s) THEN "presentation_error"
    ELSE "success"

ComparerEnds ==
    /\ use = "judge" /\ reader = "reading" /\ EndOfOutput
    /\ reader' = Compared(seen)
    /\ UNCHANGED <<use, app, made, pipe, timer, told, caller, x, res, seen>>

-----------------------------------------------------------------------------
Init ==
    /\ use \in Uses
    /\ app = "running" /\ made = <<>> /\ pipe = <<>>
    /\ timer = "waiting" /\ told = FALSE
    /\ caller = "time" /\ x = FALSE /\ res = "none"
    /\ reader = "reading" /\ seen = <<>>

Program == AppAsks \/ AppWrites \/ AppCannotWrite \/ AppEnds
Timer == TimerWaits \/ TimerTells \/ TimerExits
Caller == CallerReadsTime \/ CallerWaitsForTimer \/ CallerWaitsForLimiter
              \/ CallerWaitsForComparer
Reader == LimiterCopies \/ LimiterEnds \/ ComparerReads \/ ComparerEnds

Next == Program \/ Timer \/ Alarm \/ TimerKilled \/ Caller \/ Reader

Spec == Init /\ [][Next]_vars

(***************************************************************************)
(* Fairness: time passes and the drone's processes are scheduled.  The     *)
(* program may do nothing for ever.                                        *)
(***************************************************************************)
FairSpec ==
    /\ Spec
    /\ WF_vars(Timer) /\ WF_vars(Alarm) /\ WF_vars(Caller) /\ WF_vars(Reader)

-----------------------------------------------------------------------------
Result == {ResultOf(e) : e \in End} \cup
    {"time_limit_exceeded", "output_limit_exceeded", "presentation_error",
     "wrong_output", "internal_error"}

(***************************************************************************)
(* Type correctness of the processes' states and of the pipe.              *)
(***************************************************************************)
TypeOK ==
    /\ use \in Uses
    /\ app \in {"running", "writing"} \cup End
    /\ made \in Seq(Token) /\ Len(made) <= MaxOutput
    /\ pipe \in Seq(Token) /\ Len(pipe) <= PipeSize
    /\ timer \in {"waiting", "reaped", "told", "killed"} \cup Result
    /\ told \in BOOLEAN /\ x \in BOOLEAN
    /\ caller \in {"time", "timer", "limiter", "comparer", "done"}
    /\ res \in {"none"} \cup Result
    /\ reader \in {"reading"} \cup Result
    /\ seen \in Seq(Token)

\* What the handler takes to have happened.
ComparerFirst == IF use = "judge" THEN reader ELSE res  \* mutant: res is not asked
Verdict == IF res = "success" /\ use = "judge" THEN reader ELSE res

(***************************************************************************)
(* What a program that ended in time deserves, whatever was read of its    *)
(* output and when: its own end first, then its whole output.              *)
(***************************************************************************)
Deserved ==
    IF app # "exit_zero" THEN ResultOf(app)
    ELSE IF use = "import"
    THEN IF Len(made) > Limit THEN "output_limit_exceeded" ELSE "success"
    ELSE IF Wrong(made) THEN "wrong_output" ELSE Compared(made)

(***************************************************************************)
(* The answer is the one deserved, unless the alarm went off or the timer  *)
(* was killed, and these are told as such.                                 *)
(***************************************************************************)
VerdictIsDeserved ==
    caller = "done" =>
        Verdict = CASE timer = "time_limit_exceeded" -> timer
                    [] timer = "killed" -> "internal_error"
                    [] timer \notin {"time_limit_exceeded", "killed"} -> Deserved

(***************************************************************************)
(* A success leaves everything the program wrote in the output file, and   *)
(* the time it took with the caller.                                       *)
(***************************************************************************)
OutputIsComplete ==
    caller = "done" /\ Verdict = "success" => x /\ seen = made

(***************************************************************************)
(* When saferun returns, the program has ended and can change nothing any  *)
(* more, unless the timer was killed.                                      *)
(***************************************************************************)
NothingRunsOn == res # "none" /\ timer # "killed" => Ended

(***************************************************************************)
(* However the program hangs or floods its output, the handler has its     *)
(* answer in the end, unless the timer was killed.                         *)
(***************************************************************************)
RunsEnd == <>(caller = "done" \/ timer = "killed")

=============================================================================
