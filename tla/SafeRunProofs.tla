---------------------------- MODULE SafeRunProofs ---------------------------
(***************************************************************************)
(* For pipes, limits and outputs of any size: saferun leaves no program    *)
(* running, the verdict on a program is the one it deserves, and a success *)
(* has all of its output.                                                  *)
(***************************************************************************)
EXTENDS SafeRun, SequenceTheorems, FiniteSetTheorems, TLAPS

(***************************************************************************)
(* The timer knows how the program ended, and has told the time before a   *)
(* success.                                                                *)
(***************************************************************************)
TimerKnows ==
    /\ use \in {"judge", "import"}
    /\ app \in {"running", "writing"} \cup End
    /\ timer \in {"waiting", "killed"} \/ Ended
    /\ timer = "told" => app = "exit_zero" /\ told
    /\ timer = "success" => told
    /\ \/ TimerAlive
       \/ timer \in {"killed", "time_limit_exceeded"}
       \/ timer = ResultOf(app)

(***************************************************************************)
(* saferun returns what the timer has found, and in an import what the     *)
(* limiter has, once both have ended.                                      *)
(***************************************************************************)
Answer ==
    IF timer = "killed" THEN "internal_error"
    ELSE IF timer = "success" /\ use = "import" THEN reader
    ELSE timer

CallerKnows ==
    /\ caller \in {"time", "timer", "limiter", "comparer", "done"}
    /\ caller # "time" => x \/ (~TimerAlive /\ timer # "success")
    /\ caller = "limiter" => use = "import" /\ timer = "success"
    /\ caller \in {"time", "timer", "limiter"} => res = "none"
    /\ caller \in {"comparer", "done"} => ~TimerAlive /\ res = Answer
    /\ caller = "comparer" => use = "judge"
    /\ caller = "done" => reader # "reading" \/ (use = "import" /\ timer # "success")

(***************************************************************************)
(* What the program has written is what was read and what is in the pipe,  *)
(* but for the last token while it waits in write, until the limiter has   *)
(* given up.                                                               *)
(***************************************************************************)
Flows ==
    \/ made = seen \o pipe /\ app # "writing"
    \/ made = Append(seen \o pipe, Last(made)) /\ app \in {"writing", "signal"}

OutputFlows ==
    /\ made \in Seq(Token) /\ pipe \in Seq(Token) /\ seen \in Seq(Token)
    /\ Flows \/ (use = "import" /\ reader = "output_limit_exceeded")

LimiterKnows ==
    use = "import" =>
        /\ reader \in {"reading", "success", "output_limit_exceeded"}
        /\ Len(seen) <= Limit
        /\ reader = "success" => pipe = <<>> /\ Ended
        /\ reader = "output_limit_exceeded" => Len(made) > Limit

ComparerKnows ==
    use = "judge" =>
        \/ reader = "reading" /\ ~Wrong(seen)
        \/ reader = "wrong_output" /\ Wrong(seen)
        \/ reader = Compared(seen) /\ ~Wrong(seen) /\ pipe = <<>> /\ Ended

IInv == TimerKnows /\ CallerKnows /\ OutputFlows /\ LimiterKnows /\ ComparerKnows

-----------------------------------------------------------------------------
(***************************************************************************)
(* Only an exit status of zero is a success, and no result is mistaken for *)
(* a state of a timer at work, or for its being stopped.                   *)
(***************************************************************************)
LEMMA ResultOfEnd ==
  ASSUME NEW e \in End
  PROVE  /\ ResultOf(e) = "success" <=> e = "exit_zero"
         /\ ResultOf(e) \notin {"waiting", "reaped", "told", "killed",
                                "time_limit_exceeded", "none"}
  BY DEF End, ResultOf

(***************************************************************************)
(* Reading n tokens moves them from the pipe to what was seen.             *)
(***************************************************************************)
LEMMA Regroup ==
  ASSUME NEW s \in Seq(Token), NEW l \in Seq(Token), NEW r \in Seq(Token)
  PROVE  s \o (l \o r) = (s \o l) \o r
  OBVIOUS

LEMMA Cut ==
  ASSUME NEW p \in Seq(Token), NEW n \in 1..Len(p)
  PROVE  /\ SubSeq(p, 1, n) \in Seq(Token) /\ Len(SubSeq(p, 1, n)) = n
         /\ SubSeq(p, n + 1, Len(p)) \in Seq(Token)
         /\ p = SubSeq(p, 1, n) \o SubSeq(p, n + 1, Len(p))
<1> DEFINE l == SubSeq(p, 1, n)
           r == SubSeq(p, n + 1, Len(p))
<1>1. /\ l \in Seq(Token) /\ Len(l) = n
      /\ \A i \in 1..n : l[i] = p[i]
  OBVIOUS
<1>2. /\ r \in Seq(Token) /\ Len(r) = Len(p) - n
      /\ \A i \in 1..(Len(p) - n) : r[i] = p[n + i]
  OBVIOUS
<1>3. l \o r \in Seq(Token) /\ Len(l \o r) = Len(p)
  BY <1>1, <1>2
<1>4. \A i \in 1..Len(p) : (l \o r)[i] = p[i]
  BY <1>1, <1>2
<1>5. p = l \o r
  BY <1>3, <1>4, SeqEqual
<1> QED
  BY <1>1, <1>2, <1>5

LEMMA ReadingMoves ==
  ASSUME NEW s \in Seq(Token), NEW p \in Seq(Token), NEW n \in 1..Len(p)
  PROVE  s \o p = (s \o SubSeq(p, 1, n)) \o SubSeq(p, n + 1, Len(p))
<1>1. /\ SubSeq(p, 1, n) \in Seq(Token)
      /\ SubSeq(p, n + 1, Len(p)) \in Seq(Token)
      /\ p = SubSeq(p, 1, n) \o SubSeq(p, n + 1, Len(p))
  BY Cut
<1>2. \A l, r \in Seq(Token) : s \o (l \o r) = (s \o l) \o r
  BY Regroup
<1> QED
  BY <1>1, <1>2, Zenon

(***************************************************************************)
(* Output that is wrong stays wrong, whatever follows.                     *)
(***************************************************************************)
LEMMA GoodsGrow ==
  ASSUME NEW s \in Seq(Token), NEW t \in Seq(Token)
  PROVE  Goods(s) \in Nat /\ Goods(s \o t) \in Nat /\ Goods(s) <= Goods(s \o t)
<1> DEFINE G(u) == {i \in DOMAIN u : u[i] = "good"}
<1>1. IsFiniteSet(1..Len(s \o t))
  BY FS_Interval
<1>2. G(s \o t) \subseteq 1..Len(s \o t)
  OBVIOUS
<1>3. IsFiniteSet(G(s \o t))
  BY <1>1, <1>2, FS_Subset
<1>4. G(s) \subseteq G(s \o t)
  OBVIOUS
<1>5. /\ IsFiniteSet(G(s)) /\ Cardinality(G(s)) <= Cardinality(G(s \o t))
  BY <1>3, <1>4, FS_Subset
<1>6. Cardinality(G(s)) \in Nat /\ Cardinality(G(s \o t)) \in Nat
  BY <1>3, <1>5, FS_CardinalityType
<1> QED
  BY <1>5, <1>6 DEF Goods

LEMMA WrongStays ==
  ASSUME NEW s \in Seq(Token), NEW t \in Seq(Token), Wrong(s)
  PROVE  Wrong(s \o t)
<1>1. CASE "bad" \in ToSet(s)
  <2>1. PICK i \in DOMAIN s : s[i] = "bad"
    BY <1>1 DEF ToSet
  <2>2. i \in DOMAIN (s \o t) /\ (s \o t)[i] = "bad"
    BY <2>1
  <2> QED
    BY <2>2 DEF Wrong, ToSet
<1>2. CASE Goods(s) > Expected
  BY <1>2, GoodsGrow, SizesAssumption DEF Wrong
<1> QED
  BY <1>1, <1>2 DEF Wrong

-----------------------------------------------------------------------------
LEMMA NothingWritten == ~Wrong(<<>>)
<1>1. {i \in DOMAIN <<>> : <<>>[i] = "good"} = {}
  OBVIOUS
<1>2. Goods(<<>>) = 0
  BY <1>1, FS_EmptySet DEF Goods
<1>3. "bad" \notin ToSet(<<>>)
  BY DEF ToSet
<1> QED
  BY <1>2, <1>3, SizesAssumption DEF Wrong

LEMMA InvInit == Init => IInv
<1> SUFFICES ASSUME Init PROVE IInv
  OBVIOUS
<1>1. TimerKnows
  BY UsesAssumption DEF Init, TimerKnows, TimerAlive
<1>2. CallerKnows
  BY DEF Init, CallerKnows
<1>3. OutputFlows
  <2>1. <<>> = <<>> \o <<>>
    OBVIOUS
  <2> QED
    BY <2>1 DEF Init, OutputFlows, Flows
<1>4. LimiterKnows
  BY SizesAssumption DEF Init, LimiterKnows
<1>5. ComparerKnows
  BY NothingWritten DEF Init, ComparerKnows
<1> QED
  BY <1>1, <1>2, <1>3, <1>4, <1>5 DEF IInv

LEMMA TimerKeepsKnowing ==
  ASSUME TimerKnows, [Next]_vars
  PROVE  TimerKnows'
<1> USE DEF TimerKnows, TimerAlive, Ended
<1>1. CASE AppAsks
  BY <1>1 DEF AppAsks, End
<1>2. CASE AppWrites
  BY <1>2 DEF AppWrites, End
<1>3. CASE AppCannotWrite
  BY <1>3 DEF AppCannotWrite, End
<1>4. CASE AppEnds
  BY <1>4 DEF AppEnds, End
<1>5. CASE TimerWaits
  BY <1>5 DEF TimerWaits
<1>6. CASE TimerTells
  BY <1>6 DEF TimerTells
<1>7. CASE TimerExits
  <2>1. app \in End
    BY <1>7 DEF TimerExits
  <2>2. timer' = ResultOf(app) /\ app' = app /\ told' = told /\ use' = use
    BY <1>7 DEF TimerExits
  <2>3. timer' = "success" => told
    BY <1>7, <2>1, <2>2, ResultOfEnd DEF TimerExits
  <2>4. timer' # "told"
    BY <2>1, <2>2, ResultOfEnd
  <2> QED
    BY <2>1, <2>2, <2>3, <2>4
<1>8. CASE Alarm
  BY <1>8 DEF Alarm, End
<1>9. CASE TimerKilled
  BY <1>9 DEF TimerKilled
<1>10. CASE Caller \/ Reader \/ UNCHANGED vars
  <2>1. UNCHANGED <<use, app, timer, told>>
    BY <1>10 DEF vars, Caller, CallerReadsTime, CallerWaitsForTimer, CallerWaitsForLimiter,
       CallerWaitsForComparer, Reader, LimiterCopies, LimiterEnds, ComparerReads, ComparerEnds
  <2> QED
    BY <2>1
<1> QED
  BY <1>1, <1>2, <1>3, <1>4, <1>5, <1>6, <1>7, <1>8, <1>9, <1>10 DEF Next, Program, Timer

LEMMA CallerKeepsKnowing ==
  ASSUME IInv, [Next]_vars
  PROVE  CallerKnows'
<1> USE DEF IInv, CallerKnows, TimerAlive
<1>1. CASE Program
  <2>1. UNCHANGED <<use, timer, told, caller, x, res, reader>>
    BY <1>1 DEF Program, AppAsks, AppWrites, AppCannotWrite, AppEnds
  <2> QED
    BY <2>1 DEF Answer
<1>2. CASE Timer \/ Alarm \/ TimerKilled
  <2>1. TimerAlive /\ UNCHANGED <<use, caller, x, res, reader>>
    BY <1>2 DEF Timer, TimerWaits, TimerTells, TimerExits, Alarm, TimerKilled
  <2>2. caller \in {"time", "timer"}
    BY <2>1
  <2>3. timer' = "success" => x \/ caller = "time"
    BY <2>1
  <2> QED
    BY <2>1, <2>2, <2>3 DEF Answer
<1>3. CASE CallerReadsTime
  BY <1>3 DEF CallerReadsTime, TimerKnows, Answer
<1>4. CASE CallerWaitsForTimer
  BY <1>4 DEF CallerWaitsForTimer, Returns, Answer, TimerKnows
<1>5. CASE CallerWaitsForLimiter
  BY <1>5 DEF CallerWaitsForLimiter, Returns, Answer
<1>6. CASE CallerWaitsForComparer
  BY <1>6 DEF CallerWaitsForComparer, Answer
<1>7. CASE Reader
  <2>1. reader = "reading" /\ UNCHANGED <<use, timer, caller, x, res>>
    BY <1>7 DEF Reader, LimiterCopies, LimiterEnds, ComparerReads, ComparerEnds, ReaderTakes
  <2>2. ~(caller = "done" /\ use = "import" /\ timer = "success")
    BY <2>1
  <2>3. caller \in {"comparer", "done"} /\ use = "import" => timer # "success"
    BY <2>1, <2>2
  <2>4. caller \in {"comparer", "done"} => Answer' = Answer
    BY <2>1, <2>3 DEF Answer
  <2>5. caller = "done" => use = "import" /\ timer # "success"
    BY <2>1
  <2> QED
    BY <2>1, <2>4, <2>5
<1>8. CASE UNCHANGED vars
  BY <1>8 DEF vars, Answer
<1> QED
  BY <1>1, <1>2, <1>3, <1>4, <1>5, <1>6, <1>7, <1>8 DEF Next, Caller

(***************************************************************************)
(* Who reads the pipe moves some of it to what was seen, or drops it and   *)
(* gives up, or finds its end.                                             *)
(***************************************************************************)
LEMMA ReaderStep ==
  ASSUME IInv, Reader
  PROVE  /\ reader = "reading"
         /\ UNCHANGED <<use, app, made, timer>>
         /\ \/ /\ seen' \o pipe' = seen \o pipe
               /\ pipe' \in Seq(Token) /\ seen' \in Seq(Token)
            \/ /\ use = "import" /\ reader' = "output_limit_exceeded"
               /\ pipe' \in Seq(Token) /\ UNCHANGED seen
<1> USE DEF IInv, OutputFlows
<1>1. CASE LimiterCopies
  <2>1. PICK n \in 1..PipeSize :
          /\ ReaderTakes(n)
          /\ IF Len(seen) + n > Limit
             THEN reader' = "output_limit_exceeded" /\ UNCHANGED seen
             ELSE seen' = seen \o SubSeq(pipe, 1, n) /\ UNCHANGED reader
    BY <1>1 DEF LimiterCopies
  <2>2. n \in 1..Len(pipe) /\ pipe' = SubSeq(pipe, n + 1, Len(pipe)) /\ reader = "reading"
    BY <2>1 DEF ReaderTakes
  <2>3. seen \in Seq(Token) /\ pipe \in Seq(Token)
    OBVIOUS
  <2>4. SubSeq(pipe, 1, n) \in Seq(Token) /\ pipe' \in Seq(Token)
    BY <2>2, <2>3, Cut
  <2>5. (seen \o SubSeq(pipe, 1, n)) \o pipe' = seen \o pipe
    BY <2>2, <2>3, ReadingMoves, Zenon
  <2>6. seen \o SubSeq(pipe, 1, n) \in Seq(Token)
    BY <2>3, <2>4
  <2>7. UNCHANGED <<use, app, made, timer>> /\ use = "import"
    BY <1>1 DEF LimiterCopies
  <2> QED
    BY <2>1, <2>2, <2>3, <2>4, <2>5, <2>6, <2>7, Zenon
<1>2. CASE ComparerReads
  <2>1. PICK n \in 1..PipeSize : ReaderTakes(n) /\ seen' = seen \o SubSeq(pipe, 1, n)
    BY <1>2 DEF ComparerReads
  <2>2. n \in 1..Len(pipe) /\ pipe' = SubSeq(pipe, n + 1, Len(pipe)) /\ reader = "reading"
    BY <2>1 DEF ReaderTakes
  <2>3. seen \in Seq(Token) /\ pipe \in Seq(Token)
    OBVIOUS
  <2>4. SubSeq(pipe, 1, n) \in Seq(Token) /\ pipe' \in Seq(Token)
    BY <2>2, <2>3, Cut
  <2>5. (seen \o SubSeq(pipe, 1, n)) \o pipe' = seen \o pipe
    BY <2>2, <2>3, ReadingMoves, Zenon
  <2>6. seen \o SubSeq(pipe, 1, n) \in Seq(Token)
    BY <2>3, <2>4
  <2>7. UNCHANGED <<use, app, made, timer>>
    BY <1>2 DEF ComparerReads
  <2> QED
    BY <2>1, <2>2, <2>4, <2>5, <2>6, <2>7, Zenon
<1>3. CASE LimiterEnds \/ ComparerEnds
  BY <1>3 DEF LimiterEnds, ComparerEnds
<1> QED
  BY <1>1, <1>2, <1>3 DEF Reader

LEMMA OutputKeepsFlowing ==
  ASSUME IInv, [Next]_vars
  PROVE  OutputFlows'
<1> USE DEF IInv, OutputFlows, Flows
<1>1. CASE AppAsks
  <2>1. PICK t \in Token : made' = Append(made, t)
    BY <1>1 DEF AppAsks
  <2>2. made' \in Seq(Token) /\ Last(made') = t
    BY <2>1 DEF Last
  <2>3. app = "running" /\ app' = "writing" /\ UNCHANGED <<use, pipe, seen, reader>>
    BY <1>1 DEF AppAsks
  <2>4. made = seen \o pipe => made' = Append(seen' \o pipe', Last(made'))
    BY <2>1, <2>2, <2>3
  <2> QED
    BY <2>2, <2>3, <2>4
<1>2. CASE AppWrites
  <2> DEFINE t == Last(made)
  <2>1. app = "writing" /\ app' = "running" /\ pipe' = Append(pipe, t)
        /\ UNCHANGED <<use, made, seen, reader>>
        /\ (use = "judge" \/ reader = "reading")
    BY <1>2 DEF AppWrites
  <2>2. made = Append(seen \o pipe, t)
    BY <2>1
  <2>3. made[Len(made)] \in Token /\ t = made[Len(made)]
    <3>1. made # <<>>
      BY <2>2
    <3> QED
      BY <3>1 DEF Last
  <2> HIDE DEF t
  <2>4. Append(seen \o pipe, t) = seen \o Append(pipe, t)
    BY <2>3
  <2> QED
    BY <2>1, <2>2, <2>3, <2>4
<1>3. CASE AppCannotWrite
  BY <1>3 DEF AppCannotWrite, LimiterKnows, Ended, End
<1>4. CASE AppEnds
  BY <1>4 DEF AppEnds, End
<1>5. CASE Alarm
  BY <1>5 DEF Alarm, Ended, End
<1>6. CASE Timer \/ TimerKilled \/ Caller \/ UNCHANGED vars
  <2>1. UNCHANGED <<use, app, made, pipe, reader, seen>>
    BY <1>6 DEF vars, Timer, TimerWaits, TimerTells, TimerExits, TimerKilled, Caller,
       CallerReadsTime, CallerWaitsForTimer, CallerWaitsForLimiter, CallerWaitsForComparer
  <2> QED
    BY <2>1
<1>7. CASE Reader
  <2>1. reader = "reading" /\ made' \in Seq(Token) /\ pipe' \in Seq(Token) /\ seen' \in Seq(Token)
    BY <1>7, ReaderStep
  <2>2. Flows
    BY <2>1
  <2> QED
    BY <1>7, <2>1, <2>2, ReaderStep
<1> QED
  BY <1>1, <1>2, <1>3, <1>4, <1>5, <1>6, <1>7 DEF Next, Program

LEMMA LimiterKeepsKnowing ==
  ASSUME IInv, [Next]_vars
  PROVE  LimiterKnows'
<1> USE DEF IInv, LimiterKnows, OutputFlows
<1>1. CASE Program \/ Timer \/ Alarm \/ TimerKilled \/ Caller \/ UNCHANGED vars
  <2>1. UNCHANGED <<use, reader, seen>>
    BY <1>1 DEF vars, Program, AppAsks, AppWrites, AppCannotWrite, AppEnds, Timer, TimerWaits,
       TimerTells, TimerExits, Alarm, TimerKilled, Caller, CallerReadsTime,
       CallerWaitsForTimer, CallerWaitsForLimiter, CallerWaitsForComparer
  <2>2. Ended => Ended' /\ UNCHANGED pipe
    BY <1>1 DEF vars, Program, AppAsks, AppWrites, AppCannotWrite, AppEnds, Timer, TimerWaits,
       TimerTells, TimerExits, Alarm, TimerKilled, Caller, CallerReadsTime,
       CallerWaitsForTimer, CallerWaitsForLimiter, CallerWaitsForComparer, Ended, End
  <2>3. Len(made') >= Len(made)
    <3>1. CASE AppAsks
      BY <3>1 DEF AppAsks
    <3>2. CASE UNCHANGED made
      BY <3>2
    <3> QED
      BY <1>1, <3>1, <3>2 DEF vars, Program, AppWrites, AppCannotWrite, AppEnds, Timer,
         TimerWaits, TimerTells, TimerExits, Alarm, TimerKilled, Caller, CallerReadsTime,
         CallerWaitsForTimer, CallerWaitsForLimiter, CallerWaitsForComparer
  <2>4. Len(made) \in Nat /\ Len(made') \in Nat /\ Limit \in Nat
    <3>1. made' \in Seq(Token)
      BY OutputKeepsFlowing
    <3> QED
      BY <3>1, SizesAssumption
  <2> QED
    BY <2>1, <2>2, <2>3, <2>4
<1>2. CASE LimiterCopies
  <2>1. PICK n \in 1..PipeSize :
          /\ ReaderTakes(n)
          /\ IF Len(seen) + n > Limit
             THEN reader' = "output_limit_exceeded" /\ UNCHANGED seen
             ELSE seen' = seen \o SubSeq(pipe, 1, n) /\ UNCHANGED reader
    BY <1>2 DEF LimiterCopies
  <2>2. n \in 1..Len(pipe) /\ reader = "reading"
    BY <2>1 DEF ReaderTakes
  <2>3. Len(made) >= Len(seen) + n
    BY <2>2 DEF Flows
  <2>4. SubSeq(pipe, 1, n) \in Seq(Token) /\ Len(SubSeq(pipe, 1, n)) = n
    BY <2>2, Cut
  <2>5. UNCHANGED <<use, made>>
    BY <1>2 DEF LimiterCopies
  <2>6. CASE Len(seen) + n > Limit
    BY <2>1, <2>2, <2>3, <2>5, <2>6, SizesAssumption
  <2>7. CASE ~(Len(seen) + n > Limit)
    <3>1. Len(seen') = Len(seen) + n
      BY <2>1, <2>4, <2>7
    <3> QED
      BY <2>1, <2>2, <2>5, <2>7, <3>1, SizesAssumption
  <2> QED
    BY <2>6, <2>7
<1>3. CASE LimiterEnds
  BY <1>3 DEF LimiterEnds, EndOfOutput, Ended
<1>4. CASE ComparerReads \/ ComparerEnds
  BY <1>4 DEF ComparerReads, ComparerEnds
<1> QED
  BY <1>1, <1>2, <1>3, <1>4 DEF Next, Reader

LEMMA ComparerKeepsKnowing ==
  ASSUME IInv, [Next]_vars
  PROVE  ComparerKnows'
<1> USE DEF IInv, ComparerKnows
<1>1. CASE Program \/ Timer \/ Alarm \/ TimerKilled \/ Caller \/ UNCHANGED vars
  <2>1. UNCHANGED <<use, reader, seen>>
    BY <1>1 DEF vars, Program, AppAsks, AppWrites, AppCannotWrite, AppEnds, Timer, TimerWaits,
       TimerTells, TimerExits, Alarm, TimerKilled, Caller, CallerReadsTime,
       CallerWaitsForTimer, CallerWaitsForLimiter, CallerWaitsForComparer
  <2>2. Ended => Ended' /\ UNCHANGED pipe
    BY <1>1 DEF vars, Program, AppAsks, AppWrites, AppCannotWrite, AppEnds, Timer, TimerWaits,
       TimerTells, TimerExits, Alarm, TimerKilled, Caller, CallerReadsTime,
       CallerWaitsForTimer, CallerWaitsForLimiter, CallerWaitsForComparer, Ended, End
  <2> QED
    BY <2>1, <2>2
<1>2. CASE ComparerReads
  BY <1>2 DEF ComparerReads
<1>3. CASE ComparerEnds
  BY <1>3 DEF ComparerEnds, EndOfOutput, Ended
<1>4. CASE LimiterCopies \/ LimiterEnds
  BY <1>4 DEF LimiterCopies, LimiterEnds
<1> QED
  BY <1>1, <1>2, <1>3, <1>4 DEF Next, Reader

THEOREM Invariance == Spec => []IInv
<1>1. IInv /\ [Next]_vars => IInv'
  BY TimerKeepsKnowing, CallerKeepsKnowing, OutputKeepsFlowing, LimiterKeepsKnowing,
     ComparerKeepsKnowing DEF IInv
<1> QED
  BY InvInit, <1>1, PTL DEF Spec

-----------------------------------------------------------------------------
(***************************************************************************)
(* NothingRunsOn: saferun returns after the timer's exit, and the timer    *)
(* does not exit before the program has ended or been killed.              *)
(***************************************************************************)
THEOREM ProgramsAreStopped == Spec => []NothingRunsOn
<1>1. IInv => NothingRunsOn
  BY DEF IInv, TimerKnows, CallerKnows, TimerAlive, NothingRunsOn
<1> QED
  BY Invariance, <1>1, PTL

(***************************************************************************)
(* When a program has exited with zero in time, and the pipe is empty, all *)
(* it has written was seen.                                                *)
(***************************************************************************)
LEMMA AllSeen ==
  ASSUME IInv, app = "exit_zero", pipe = <<>>, reader # "output_limit_exceeded"
  PROVE  seen = made
  BY DEF IInv, OutputFlows, Flows

(***************************************************************************)
(* VerdictIsDeserved, for an import and for a judge.                       *)
(***************************************************************************)
LEMMA ImportVerdict ==
  ASSUME IInv, use = "import", caller = "done", timer = "success"
  PROVE  /\ app = "exit_zero" /\ res = reader
         /\ res = IF Len(made) > Limit THEN "output_limit_exceeded" ELSE "success"
         /\ res = "success" => seen = made
<1>1. app = "exit_zero" /\ res = reader /\ reader # "reading"
  BY ResultOfEnd DEF IInv, TimerKnows, CallerKnows, TimerAlive, Answer, Ended
<1>2. CASE reader = "output_limit_exceeded"
  BY <1>1, <1>2 DEF IInv, LimiterKnows
<1>3. CASE reader = "success"
  <2>1. pipe = <<>> /\ Len(seen) <= Limit /\ made \in Seq(Token)
    BY <1>3 DEF IInv, LimiterKnows, OutputFlows
  <2>2. seen = made
    BY <1>1, <1>3, <2>1, AllSeen
  <2>3. ~(Len(made) > Limit)
    BY <2>1, <2>2, SizesAssumption
  <2> QED
    BY <1>1, <1>3, <2>2, <2>3
<1> QED
  BY <1>1, <1>2, <1>3 DEF IInv, LimiterKnows

LEMMA JudgeVerdict ==
  ASSUME IInv, use = "judge", caller = "done", app = "exit_zero"
  PROVE  /\ reader = IF Wrong(made) THEN "wrong_output" ELSE Compared(made)
         /\ reader = "success" => seen = made
<1>1. reader # "reading"
  BY DEF IInv, CallerKnows
<1>2. CASE reader = "wrong_output" /\ Wrong(seen)
  <2>1. seen \in Seq(Token) /\ pipe \in Seq(Token) /\ made = seen \o pipe
    BY <1>2 DEF IInv, OutputFlows, Flows
  <2>2. Wrong(made)
    BY <1>2, <2>1, WrongStays
  <2> QED
    BY <1>2, <2>2
<1>3. CASE reader = Compared(seen) /\ ~Wrong(seen) /\ pipe = <<>>
  <2>1. reader # "output_limit_exceeded"
    BY <1>3 DEF Compared
  <2>2. seen = made
    BY <1>3, <2>1, AllSeen
  <2> QED
    BY <1>3, <2>2
<1> QED
  BY <1>1, <1>2, <1>3 DEF IInv, ComparerKnows

LEMMA DoneVerdict ==
  ASSUME IInv, caller = "done"
  PROVE  /\ timer = "time_limit_exceeded" => Verdict = timer
         /\ timer = "killed" => Verdict = "internal_error"
         /\ timer \notin {"time_limit_exceeded", "killed"} => Verdict = Deserved
         /\ Verdict = "success" => x /\ seen = made
<1>1. ~TimerAlive /\ res = Answer /\ use \in {"judge", "import"}
  BY DEF IInv, TimerKnows, CallerKnows
<1>2. x \/ timer # "success"
  BY DEF IInv, CallerKnows
<1>3. CASE timer \in {"time_limit_exceeded", "killed"}
  BY <1>1, <1>3 DEF Answer, Verdict
<1>4. CASE timer \notin {"time_limit_exceeded", "killed"}
  <2>1. app \in End /\ timer = ResultOf(app)
    BY <1>1, <1>4 DEF IInv, TimerKnows, TimerAlive, Ended
  <2>2. timer = "success" <=> app = "exit_zero"
    BY <2>1, ResultOfEnd
  <2>3. CASE app # "exit_zero"
    <3>1. res = ResultOf(app) /\ res # "success"
      BY <1>1, <1>4, <2>1, <2>2, <2>3 DEF Answer
    <3> QED
      BY <1>4, <2>3, <3>1 DEF Verdict, Deserved
  <2>4. CASE app = "exit_zero" /\ use = "import"
    <3>1. Verdict = res
      BY <2>4 DEF Verdict
    <3>2. Verdict = Deserved
      BY <2>2, <2>4, <3>1, ImportVerdict DEF Deserved
    <3> QED
      BY <1>2, <1>4, <2>2, <2>4, <3>1, <3>2, ImportVerdict
  <2>5. CASE app = "exit_zero" /\ use = "judge"
    <3>1. res = "success"
      BY <1>1, <2>2, <2>5 DEF Answer
    <3>2. Verdict = reader
      BY <2>5, <3>1 DEF Verdict
    <3>3. Verdict = Deserved
      BY <2>5, <3>2, JudgeVerdict DEF Deserved
    <3> QED
      BY <1>2, <1>4, <2>2, <2>5, <3>2, <3>3, JudgeVerdict
  <2> QED
    BY <1>1, <2>3, <2>4, <2>5
<1> QED
  BY <1>3, <1>4

(***************************************************************************)
(* VerdictIsDeserved, for every program.                                   *)
(***************************************************************************)
THEOREM VerdictsAreDeserved == Spec => []VerdictIsDeserved
<1>1. IInv => VerdictIsDeserved
  BY DoneVerdict DEF VerdictIsDeserved
<1> QED
  BY Invariance, <1>1, PTL

(***************************************************************************)
(* OutputIsComplete: a success is told only when the reader has found the  *)
(* end of the output.                                                      *)
(***************************************************************************)
THEOREM OutputsAreComplete == Spec => []OutputIsComplete
<1>1. IInv => OutputIsComplete
  BY DoneVerdict DEF OutputIsComplete
<1> QED
  BY Invariance, <1>1, PTL

-----------------------------------------------------------------------------
(***************************************************************************)
(* TypeOK: what IInv leaves open are the bounds of the pipe and the output.*)
(***************************************************************************)
Bounds ==
    /\ use \in Uses
    /\ Len(pipe) <= PipeSize /\ Len(made) <= MaxOutput
    /\ told \in BOOLEAN /\ x \in BOOLEAN

LEMMA BoundsKept ==
  ASSUME IInv, IInv', Bounds, [Next]_vars
  PROVE  Bounds'
<1> USE DEF Bounds
<1>1. /\ made \in Seq(Token) /\ pipe \in Seq(Token)
      /\ MaxOutput \in Nat /\ PipeSize \in Nat
  BY SizesAssumption DEF IInv, OutputFlows
<1>2. CASE AppAsks
  BY <1>1, <1>2 DEF AppAsks
<1>3. CASE AppWrites
  BY <1>1, <1>3 DEF AppWrites
<1>4. CASE AppCannotWrite \/ AppEnds \/ Timer \/ Alarm \/ TimerKilled \/ UNCHANGED vars
  BY <1>4 DEF AppCannotWrite, AppEnds, Timer, TimerWaits, TimerTells, TimerExits, Alarm,
     TimerKilled, vars
<1>5. CASE Caller
  BY <1>5 DEF Caller, CallerReadsTime, CallerWaitsForTimer, CallerWaitsForLimiter,
     CallerWaitsForComparer
<1>6. CASE Reader
  <2>1. Len(pipe') <= Len(pipe) /\ UNCHANGED <<use, made, told, x>>
    <3>1. CASE LimiterEnds \/ ComparerEnds
      BY <1>1, <3>1 DEF LimiterEnds, ComparerEnds
    <3>2. CASE LimiterCopies \/ ComparerReads
      <4>1. PICK n \in 1..Len(pipe) : pipe' = SubSeq(pipe, n + 1, Len(pipe))
        BY <3>2 DEF LimiterCopies, ComparerReads, ReaderTakes
      <4>2. Len(pipe') <= Len(pipe)
        BY <1>1, <4>1
      <4> QED
        BY <3>2, <4>2 DEF LimiterCopies, ComparerReads
    <3> QED
      BY <1>6, <3>1, <3>2 DEF Reader
  <2>2. pipe' \in Seq(Token)
    BY DEF IInv, OutputFlows
  <2> QED
    BY <1>1, <2>1, <2>2
<1> QED
  BY <1>2, <1>3, <1>4, <1>5, <1>6 DEF Next, Program

LEMMA TypesFollow == ASSUME IInv, Bounds PROVE TypeOK
<1>1. /\ made \in Seq(Token) /\ pipe \in Seq(Token) /\ seen \in Seq(Token)
      /\ app \in {"running", "writing"} \cup End
      /\ caller \in {"time", "timer", "limiter", "comparer", "done"}
  BY DEF IInv, OutputFlows, TimerKnows, CallerKnows
<1>2. timer \in {"waiting", "reaped", "told", "killed"} \cup Result
  BY DEF IInv, TimerKnows, TimerAlive, Ended, Result
<1>3. reader \in {"reading"} \cup Result
  <2>1. "success" \in Result
    BY DEF Result, ResultOf, End
  <2>2. Compared(seen) \in Result
    BY <2>1 DEF Compared, Result
  <2> QED
    BY <2>1, <2>2 DEF IInv, TimerKnows, LimiterKnows, ComparerKnows, Result
<1>4. res \in {"none"} \cup Result
  <2>1. CASE caller \in {"time", "timer", "limiter"}
    BY <2>1 DEF IInv, CallerKnows
  <2>2. CASE caller \in {"comparer", "done"}
    <3>1. res = Answer /\ ~TimerAlive
      BY <2>2 DEF IInv, CallerKnows
    <3>2. timer = "killed" \/ timer \in Result
      BY <3>1 DEF IInv, TimerKnows, TimerAlive, Ended, Result
    <3>3. timer = "success" /\ use = "import" => reader # "reading"
      BY <2>2 DEF IInv, CallerKnows
    <3> QED
      BY <1>3, <3>1, <3>2, <3>3 DEF Answer, Result
  <2> QED
    BY <1>1, <2>1, <2>2
<1> QED
  BY <1>1, <1>2, <1>3, <1>4 DEF TypeOK, Bounds

THEOREM TypeCorrect == Spec => []TypeOK
<1>1. Init => Bounds
  <2> SUFFICES ASSUME Init PROVE Bounds
    OBVIOUS
  <2>1. Len(pipe) <= PipeSize /\ Len(made) <= MaxOutput
    BY SizesAssumption DEF Init
  <2>2. told \in BOOLEAN /\ x \in BOOLEAN /\ use \in Uses
    BY Zenon DEF Init
  <2> QED
    BY <2>1, <2>2 DEF Bounds
<1>2. IInv /\ IInv' /\ Bounds /\ [Next]_vars => Bounds'
  BY BoundsKept
<1>3. IInv /\ Bounds => TypeOK
  BY TypesFollow
<1> QED
  BY Invariance, <1>1, <1>2, <1>3, PTL DEF Spec

=============================================================================
