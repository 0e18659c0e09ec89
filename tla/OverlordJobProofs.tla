-------------------------- MODULE OverlordJobProofs --------------------------
(***************************************************************************)
(* What happens to one job: theorems about Overlord, for any set of        *)
(* drones, clients and entries and any bounds.                             *)
(***************************************************************************)
EXTENDS OverlordProofs, FiniteSetTheorems

-----------------------------------------------------------------------------
(***************************************************************************)
(* The elements of a sequence that has grown or shrunk at its end.         *)
(***************************************************************************)
LEMMA ToSetEmpty == ToSet(<<>>) = {}
  BY EmptySeq DEF ToSet

LEMMA ToSetMember ==
    ASSUME NEW S, NEW s \in Seq(S), NEW x
    PROVE  /\ x \in ToSet(s) <=> \E k \in DOMAIN s : s[k] = x
           /\ ToSet(s) \subseteq S
<1>1. DOMAIN s = 1..Len(s) /\ Len(s) \in Nat /\ \A k \in 1..Len(s) : s[k] \in S
  BY LenProperties, ElementOfSeq
<1> QED
  BY <1>1 DEF ToSet

LEMMA ToSetAppend ==
    ASSUME NEW S, NEW s \in Seq(S), NEW e \in S
    PROVE  ToSet(Append(s, e)) = ToSet(s) \cup {e}
<1> DEFINE t == Append(s, e)
<1>1. /\ t \in Seq(S) /\ Len(t) = Len(s) + 1
      /\ \A k \in 1..Len(s) : t[k] = s[k]
      /\ t[Len(s) + 1] = e
  BY AppendProperties
<1>2. DOMAIN s = 1..Len(s) /\ Len(s) \in Nat /\ DOMAIN t = 1..(Len(s) + 1)
  BY <1>1, LenProperties
<1> HIDE DEF t
<1>3. \A k \in 1..(Len(s) + 1) : k \in 1..Len(s) \/ k = Len(s) + 1
  BY <1>2
<1>4. 1..Len(s) \subseteq 1..(Len(s) + 1) /\ Len(s) + 1 \in 1..(Len(s) + 1)
  BY <1>2
<1>5. ToSet(t) = ToSet(s) \cup {e}
  BY <1>1, <1>2, <1>3, <1>4 DEF ToSet
<1> QED
  BY <1>5 DEF t

LEMMA ToSetFront ==
    ASSUME NEW S, NEW s \in Seq(S), s # <<>>
    PROVE  ToSet(s) = ToSet(Front(s)) \cup {Last(s)}
<1>1. /\ Len(s) \in Nat \ {0}
      /\ Front(s) \in Seq(S) /\ Len(Front(s)) = Len(s) - 1
      /\ \A k \in 1..(Len(s) - 1) : Front(s)[k] = s[k]
  BY FrontLast
<1>2. DOMAIN s = 1..Len(s) /\ DOMAIN Front(s) = 1..(Len(s) - 1)
  BY <1>1, LenProperties
<1>3. \A k \in 1..Len(s) : k \in 1..(Len(s) - 1) \/ k = Len(s)
  BY <1>1
<1>4. 1..(Len(s) - 1) \subseteq 1..Len(s) /\ Len(s) \in 1..Len(s)
  BY <1>1
<1>5. Last(s) = s[Len(s)]
  BY DEF Last
<1> QED
  BY <1>1, <1>2, <1>3, <1>4, <1>5 DEF ToSet

-----------------------------------------------------------------------------
(***************************************************************************)
(* The records of who has an entry: complete directories are known to the  *)
(* threads of the drones.                                                  *)
(***************************************************************************)
Known(d, files, pc, off, mine) ==
    \A e \in Entry : files[e] = "ready" /\ pc \notin {"off", "listing"} /\ ~off => e \in mine

LEMMA KnownOf ==
    ASSUME CopiesAreKnown, NEW d \in Drone,
           Known(d, disk'[d], dpc'[d], skew'[d], myEntries'[d]),
           \A x \in Drone \ {d} : /\ disk'[x] = disk[x] /\ dpc'[x] = dpc[x]
                                  /\ skew'[x] = skew[x] /\ myEntries'[x] = myEntries[x]
    PROVE  CopiesAreKnown'
  BY DEF CopiesAreKnown, Known

LEMMA KnownUnregister ==
    ASSUME TypeOK, CopiesAreKnown, NEW d \in Drone, NEW free, Unregister(d, free),
           \A x \in Drone \ {d} : disk'[x] = disk[x]
    PROVE  CopiesAreKnown'
<1>1. /\ dpc'[d] = "off"
      /\ \A x \in Drone \ {d} : /\ dpc'[x] = dpc[x] /\ skew'[x] = skew[x]
                                /\ myEntries'[x] = myEntries[x]
  BY DEF Unregister, TypeOK
<1>2. Known(d, disk'[d], dpc'[d], skew'[d], myEntries'[d])
  BY <1>1 DEF Known
<1> QED
  BY <1>1, <1>2, KnownOf

LEMMA KnownStay ==
    ASSUME TypeOK, CopiesAreKnown, NEW d \in Drone, NEW j, NEW q, NEW ok, NEW mine,
           NEW skewed, FinishAndStay(d, j, q, ok, mine, skewed),
           \A x \in Drone \ {d} : disk'[x] = disk[x],
           ~skewed => \A e \in Entry : disk'[d][e] = "ready" => e \in mine
    PROVE  CopiesAreKnown'
<1>1. /\ skew'[d] = skewed /\ myEntries'[d] = mine
      /\ \A x \in Drone \ {d} : /\ dpc'[x] = dpc[x] /\ skew'[x] = skew[x]
                                /\ myEntries'[x] = myEntries[x]
  BY DEF FinishAndStay, TypeOK
<1>2. Known(d, disk'[d], dpc'[d], skew'[d], myEntries'[d])
  BY <1>1 DEF Known
<1> QED
  BY <1>1, <1>2, KnownOf

LEMMA KnownFinish ==
    ASSUME TypeOK, CopiesAreKnown, NEW d \in Drone, NEW ok, NEW mine, NEW skewed,
           Finish(d, ok, mine, skewed),
           \A x \in Drone \ {d} : disk'[x] = disk[x],
           ~skewed => \A e \in Entry : disk'[d][e] = "ready" => e \in mine
    PROVE  CopiesAreKnown'
  BY KnownStay, KnownUnregister DEF Finish, FinishAndLeave

LEMMA KnownDrone ==
    ASSUME TypeOK, CopiesAreKnown, NEW d \in Drone,
           Connect(d) \/ DroneWorks(d) \/ DroneLeaves(d)
    PROVE  CopiesAreKnown'
<1>1. dpc[d] \notin {"off", "listing"} /\ ~skew[d]
      => \A e \in Entry : disk[d][e] = "ready" => e \in myEntries[d]
  BY DEF CopiesAreKnown
<1>2. CASE Connect(d)
  <2>1. /\ dpc'[d] = "listing"
        /\ \A x \in Drone \ {d} : /\ disk'[x] = disk[x] /\ dpc'[x] = dpc[x]
                                  /\ skew'[x] = skew[x] /\ myEntries'[x] = myEntries[x]
    BY <1>2 DEF Connect, TypeOK
  <2> QED
    BY <2>1, KnownOf DEF Known
<1>3. CASE Listed(d)
  <2>1. /\ disk' = disk /\ skew' = skew /\ myEntries'[d] = Directories(d)
        /\ \A x \in Drone \ {d} : dpc'[x] = dpc[x] /\ myEntries'[x] = myEntries[x]
    BY <1>3 DEF Listed, TypeOK
  <2>2. Known(d, disk'[d], dpc'[d], skew'[d], myEntries'[d])
    BY <2>1 DEF Known, Directories
  <2> QED
    BY <2>1, <2>2, KnownOf
<1>4. CASE Ping(d) \/ Pong(d) \/ Take(d) \/ OpenArchive(d) \/ SendSource(d)
  <2>1. /\ dpc[d] \notin {"off", "listing"}
        /\ disk' = disk /\ skew' = skew /\ myEntries' = myEntries
        /\ \A x \in Drone \ {d} : dpc'[x] = dpc[x]
    BY <1>4 DEF Ping, Pong, Take, OpenArchive, SendSource, TypeOK
  <2>2. Known(d, disk'[d], dpc'[d], skew'[d], myEntries'[d])
    BY <1>1, <2>1 DEF Known
  <2> QED
    BY <2>1, <2>2, KnownOf
<1>5. CASE WrongPong(d) \/ LeaveIdle(d) \/ SourceMissing(d)
  BY <1>5, KnownUnregister DEF WrongPong, LeaveIdle, SourceMissing, Fail
<1>6. CASE LinkBreaks(d)
  <2>1. \A x \in Drone \ {d} : disk'[x] = disk[x]
    BY <1>6 DEF LinkBreaks, TypeOK
  <2> QED
    BY <1>6, <2>1, KnownUnregister DEF LinkBreaks, Fail
<1>7. CASE SkipDispose(d)
  BY <1>1, <1>7, KnownStay DEF SkipDispose
<1>8. CASE NoArchive(d)
  BY <1>8, KnownStay DEF NoArchive
<1>9. ASSUME NEW ok, JudgeAnswer(d, ok)  PROVE CopiesAreKnown'
  <2>1. PICK skewed \in SkewAfter(d) : Finish(d, ok, myEntries[d], skewed)
    BY <1>9 DEF JudgeAnswer
  <2>2. ~skewed => ~skew[d]
    BY <2>1 DEF SkewAfter
  <2>3. dpc[d] = "judging" /\ disk' = disk
    BY <1>9 DEF JudgeAnswer
  <2> QED
    BY <1>1, <2>1, <2>2, <2>3, KnownFinish
<1>10. ASSUME NEW ok, NEW s, DestroyAnswer(d, ok, s)  PROVE CopiesAreKnown'
  <2> DEFINE e0 == cur[d].entry
  <2>1. /\ dpc[d] = "destroying" /\ disk' = [disk EXCEPT ![d][e0] = s]
        /\ Finish(d, ok, myEntries[d], skew[d])
        /\ ~skew[d] => s = "absent"
    BY <1>10 DEF DestroyAnswer
  <2> HIDE DEF e0
  <2>2. /\ \A x \in Drone \ {d} : disk'[x] = disk[x]
        /\ \A e \in Entry : disk'[d][e] = IF e = e0 THEN s ELSE disk[d][e]
    BY <2>1 DEF TypeOK
  <2>3. ~skew[d] => \A e \in Entry : disk'[d][e] = "ready" => e \in myEntries[d]
    BY <1>1, <2>1, <2>2
  <2> QED
    BY <2>1, <2>2, <2>3, KnownFinish
<1>11. ASSUME NEW ok, NEW s, ImportAnswer(d, ok, s)  PROVE CopiesAreKnown'
  <2> DEFINE e0 == cur[d].entry
             mine == IF ok THEN myEntries[d] \cup {e0} ELSE myEntries[d]
  <2>1. /\ dpc[d] = "importing" /\ disk' = [disk EXCEPT ![d][e0] = s]
        /\ ~skew[d] => (ok <=> s = "ready")
    BY <1>11 DEF ImportAnswer
  <2>2. \/ \E skewed \in SkewAfter(d) : Finish(d, ok, mine, skewed)
        \/ /\ myEntries' = [myEntries EXCEPT ![d] = mine]
           /\ dpc' = [dpc EXCEPT ![d] = "sending"]
           /\ \E skewed \in SkewAfter(d) : skew' = [skew EXCEPT ![d] = skewed]
    BY <1>11 DEF ImportAnswer
  <2> HIDE DEF e0
  <2>3. /\ \A x \in Drone \ {d} : disk'[x] = disk[x]
        /\ \A e \in Entry : disk'[d][e] = IF e = e0 THEN s ELSE disk[d][e]
    BY <2>1 DEF TypeOK
  <2>4. ~skew[d] => \A e \in Entry : disk'[d][e] = "ready" => e \in mine
    BY <1>1, <2>1, <2>3
  <2> HIDE DEF mine
  <2>5. \A skewed \in SkewAfter(d) : ~skewed => ~skew[d]
    BY DEF SkewAfter
  <2>6. ASSUME NEW skewed \in SkewAfter(d), Finish(d, ok, mine, skewed)
        PROVE  CopiesAreKnown'
    BY <2>3, <2>4, <2>5, <2>6, KnownFinish
  <2>7. ASSUME NEW skewed \in SkewAfter(d),
               myEntries' = [myEntries EXCEPT ![d] = mine],
               dpc' = [dpc EXCEPT ![d] = "sending"],
               skew' = [skew EXCEPT ![d] = skewed]
        PROVE  CopiesAreKnown'
    <3>1. /\ skew'[d] = skewed /\ myEntries'[d] = mine
          /\ \A x \in Drone \ {d} : /\ dpc'[x] = dpc[x] /\ skew'[x] = skew[x]
                                    /\ myEntries'[x] = myEntries[x]
      BY <2>7 DEF TypeOK
    <3>2. Known(d, disk'[d], dpc'[d], skew'[d], myEntries'[d])
      BY <2>4, <2>5, <3>1 DEF Known
    <3> QED
      BY <2>3, <3>1, <3>2, KnownOf
  <2> QED
    BY <2>2, <2>6, <2>7
<1> QED
  BY <1>2, <1>3, <1>4, <1>5, <1>6, <1>7, <1>8, <1>9, <1>10, <1>11 DEF DroneWorks, DroneLeaves

-----------------------------------------------------------------------------
(***************************************************************************)
(* A client has imports and judges, a broadcast has none; the manager      *)
(* handles jobs of clients only.                                           *)
(***************************************************************************)
GoodJob == {j \in Job : j.client # NoClient <=> j.type \in {"import", "judge"}}

ClientJob == {j \in GoodJob : j.client # NoClient}

JobsMade ==
    /\ jobQueue \in Seq(ClientJob)
    /\ held \in ClientJob \cup {NoJob}
    /\ queue \in [Drone -> Seq(GoodJob)]
    /\ cur \in [Drone -> GoodJob \cup {NoJob}]
    /\ \A d \in Drone : dpc[d] = "sending" => cur[d].type = "judge"

LEMMA ClientJobs ==
    /\ ClientJob \subseteq GoodJob /\ GoodJob \subseteq Job /\ NoJob \notin GoodJob
    /\ \A x \in GoodJob \cup {NoJob} : IsClientJob(x) <=> x \in ClientJob
    /\ \A x \in ClientJob : x.id \in Id /\ x.client \in Client /\ x.type \in {"import", "judge"}
  BY NoJobAssumption DEF ClientJob, GoodJob, Job, IsClientJob

LEMMA MadeManager == ASSUME TypeOK, JobsMade, Manager PROVE JobsMade'
<1>1. CASE MgrTake
  BY <1>1, HeadTailProperties DEF JobsMade, MgrTake, droneVars
<1>2. CASE MgrDispatch
  <2> DEFINE d == Head(freeDrones)
  <2>1. d \in Drone /\ held \in GoodJob
    BY <1>2, HeadTailProperties, ClientJobs DEF TypeOK, JobsMade, MgrDispatch
  <2>2. Append(queue[d], held) \in Seq(GoodJob)
    BY <2>1, AppendProperties DEF JobsMade
  <2> QED
    BY <1>2, <2>1, <2>2 DEF JobsMade, MgrDispatch
<1> QED
  BY <1>1, <1>2 DEF JobsMade, Manager, MgrSleepForJob, MgrSleepForDrone, MgrWake,
     droneVars

LEMMA SubmitMakes ==
    ASSUME TypeOK, NEW c \in Client, NEW type \in {"import", "judge"}, NEW e \in Entry,
           ReadsCommand(c)
    PROVE  [type |-> type, id |-> idc, client |-> c, entry |-> e] \in ClientJob
<1>1. idc \in Id
  BY BoundsAssumption DEF TypeOK, ReadsCommand, Id
<1> QED
  BY <1>1, ClientAssumption DEF ClientJob, GoodJob, Job, JobType, Client

LEMMA BroadcastMakes ==
    ASSUME NEW type \in {"push", "dispose"}, NEW e \in Entry
    PROVE  /\ [type |-> type, id |-> 0, client |-> NoClient, entry |-> e] \in GoodJob
           /\ [type |-> type, id |-> 0, client |-> NoClient, entry |-> e] \notin ClientJob
  BY BoundsAssumption DEF ClientJob, GoodJob, Job, JobType, Id

(* What a command of a client does, as far as jobs are concerned.          *)
LEMMA ClientMoves ==
    ASSUME NEW c \in Client, ClientStep(c)
    PROVE  \/ \E type \in {"import", "judge"}, e \in Entry :
                  ReadsCommand(c) /\ Submit(c, type, e)
           \/ \E type \in {"push", "dispose"}, e \in Entry :
                  ReadsCommand(c) /\ Broadcast(type, e)
           \/ c \in SyncClient /\ SyncReply(c)
           \/ c \in ASyncClient /\ PullResults(c)
  BY DEF ClientStep, Judge, Import, Push, Dispose

LEMMA MadeClient == ASSUME TypeOK, JobsMade, NEW c \in Client, ClientStep(c) PROVE JobsMade'
<1>1. ASSUME NEW type \in {"import", "judge"}, NEW e \in Entry, ReadsCommand(c),
             Submit(c, type, e)
      PROVE  JobsMade'
  BY <1>1, SubmitMakes, AppendProperties DEF Submit, JobsMade, poolVars, droneVars
<1>2. ASSUME NEW type \in {"push", "dispose"}, NEW e \in Entry, Broadcast(type, e)
      PROVE  JobsMade'
  <2> DEFINE j == [type |-> type, id |-> 0, client |-> NoClient, entry |-> e]
  <2>1. j \in GoodJob
    BY BroadcastMakes
  <2>2. \A d \in Drone : queue'[d] = Append(queue[d], j) \/ queue'[d] = queue[d]
    BY <1>2 DEF Broadcast
  <2>3. queue' = [d \in Drone |-> queue'[d]]
    BY <1>2 DEF Broadcast
  <2> HIDE DEF j
  <2>4. ASSUME NEW d \in Drone  PROVE queue'[d] \in Seq(GoodJob)
    <3>1. queue[d] \in Seq(GoodJob)
      BY DEF JobsMade
    <3>2. Append(queue[d], j) \in Seq(GoodJob)
      BY <2>1, <3>1, AppendProperties
    <3> QED
      BY <2>2, <3>1, <3>2
  <2>5. queue' \in [Drone -> Seq(GoodJob)]
    BY <2>3, <2>4
  <2> QED
    BY <1>2, <2>5 DEF Broadcast, JobsMade, mgrVars
<1>3. CASE (c \in SyncClient /\ SyncReply(c)) \/ (c \in ASyncClient /\ PullResults(c))
  BY <1>3 DEF SyncReply, PullResults, JobsMade, mgrVars, droneVars
<1> QED
  BY <1>1, <1>2, <1>3, ClientMoves

(* A step that touches the thread of d alone.                              *)
LEMMA MadeOf ==
    ASSUME TypeOK, JobsMade, NEW d \in Drone, NEW q \in Seq(GoodJob),
           NEW j \in GoodJob \cup {NoJob}, NEW p,
           queue' = [queue EXCEPT ![d] = q], cur' = [cur EXCEPT ![d] = j],
           dpc' = [dpc EXCEPT ![d] = p], p = "sending" => j.type = "judge",
           held' = held, jobQueue' \in Seq(ClientJob)
    PROVE  JobsMade'
<1>1. /\ cur'[d] = j /\ dpc'[d] = p
      /\ \A x \in Drone \ {d} : cur'[x] = cur[x] /\ dpc'[x] = dpc[x]
  BY DEF TypeOK
<1>2. \A x \in Drone : dpc'[x] = "sending" => cur'[x].type = "judge"
  BY <1>1 DEF JobsMade
<1> QED
  BY <1>2 DEF JobsMade

LEMMA MadeUnregister ==
    ASSUME TypeOK, JobsMade, NEW d \in Drone, NEW free, Unregister(d, free),
           held' = held, jobQueue' \in Seq(ClientJob)
    PROVE  JobsMade'
  BY MadeOf, EmptySeq DEF Unregister

LEMMA MadeStay ==
    ASSUME TypeOK, JobsMade, NEW d \in Drone, NEW j, NEW q \in Seq(GoodJob), NEW ok,
           NEW mine, NEW skewed, FinishAndStay(d, j, q, ok, mine, skewed)
    PROVE  JobsMade'
<1>1. /\ queue' = [queue EXCEPT ![d] = q] /\ cur' = [cur EXCEPT ![d] = NoJob]
      /\ dpc' = [dpc EXCEPT ![d] = "waiting"] /\ held' = held /\ jobQueue' = jobQueue
  BY DEF FinishAndStay
<1> QED
  BY <1>1, MadeOf DEF JobsMade

LEMMA MadeFinish ==
    ASSUME TypeOK, JobsMade, NEW d \in Drone, NEW ok, NEW mine, NEW skewed,
           Finish(d, ok, mine, skewed)
    PROVE  JobsMade'
<1>1. CASE FinishAndStay(d, cur[d], queue[d], ok, mine, skewed)
  BY <1>1, MadeStay DEF JobsMade
<1>2. CASE FinishAndLeave(d, cur[d], ok)
  BY <1>2, MadeUnregister DEF FinishAndLeave, JobsMade
<1> QED
  BY <1>1, <1>2 DEF Finish

LEMMA MadeDrone ==
    ASSUME TypeOK, ThreadsMatchJobs, JobsMade, NEW d \in Drone,
           Connect(d) \/ DroneWorks(d) \/ DroneLeaves(d)
    PROVE  JobsMade'
<1>1. /\ queue[d] \in Seq(GoodJob) /\ cur[d] \in GoodJob \cup {NoJob}
      /\ queue = [queue EXCEPT ![d] = queue[d]] /\ cur = [cur EXCEPT ![d] = cur[d]]
  BY DEF JobsMade
<1>2. ASSUME UNCHANGED <<jobQueue, held, queue, cur>>, NEW p,
             dpc' = [dpc EXCEPT ![d] = p], p = "sending" => cur[d].type = "judge"
      PROVE  JobsMade'
  BY <1>1, <1>2, MadeOf DEF JobsMade
<1>3. CASE Connect(d) \/ Listed(d) \/ Ping(d) \/ Pong(d) \/ OpenArchive(d) \/ SendSource(d)
  BY <1>2, <1>3 DEF Connect, Listed, Ping, Pong, OpenArchive, SendSource, mgrVars
<1>4. CASE WrongPong(d) \/ LeaveIdle(d)
  BY <1>4, MadeUnregister DEF WrongPong, LeaveIdle, mgrVars, JobsMade
<1>5. CASE Take(d)
  <2> DEFINE j == Last(queue[d])
  <2>1. /\ queue[d] # <<>> /\ UNCHANGED <<jobQueue, held>>
        /\ queue' = [queue EXCEPT ![d] = Front(queue[d])]
        /\ cur' = [cur EXCEPT ![d] = j]
        /\ dpc' = [dpc EXCEPT ![d] = StartsIn(d, j)]
    BY <1>5 DEF Take, mgrVars
  <2>2. j \in GoodJob /\ Front(queue[d]) \in Seq(GoodJob)
    BY <1>1, <2>1, FrontLast
  <2>3. StartsIn(d, j) = "sending" => j.type = "judge"
    <3>1. j.type \in JobType
      BY <2>2 DEF GoodJob, Job
    <3> QED
      BY <3>1 DEF StartsIn, JobType
  <2> HIDE DEF j
  <2> QED
    BY <2>1, <2>2, <2>3, MadeOf DEF JobsMade
<1>6. CASE SkipDispose(d)
  <2>1. Front(queue[d]) \in Seq(GoodJob)
    BY <1>1, <1>6, FrontLast DEF SkipDispose
  <2> QED
    BY <1>6, <2>1, MadeStay DEF SkipDispose
<1>7. CASE NoArchive(d)
  BY <1>1, <1>7, MadeStay DEF NoArchive
<1>8. CASE SourceMissing(d) \/ LinkBreaks(d)
  <2>1. Fail(d) /\ cur[d] \in GoodJob
    BY <1>1, <1>8, NoJobAssumption DEF SourceMissing, LinkBreaks, ThreadsMatchJobs, Working
  <2>2. cur[d].type \notin {"push", "dispose"} => cur[d] \in ClientJob
    BY <2>1 DEF GoodJob, ClientJob, Job, JobType
  <2>3. jobQueue' \in Seq(ClientJob)
    BY <2>1, <2>2, AppendProperties DEF Fail, JobsMade
  <2> QED
    BY <2>1, <2>3, MadeUnregister DEF Fail
<1>9. ASSUME NEW ok, NEW s, JudgeAnswer(d, ok) \/ DestroyAnswer(d, ok, s)
      PROVE  JobsMade'
  BY <1>9, MadeFinish DEF JudgeAnswer, DestroyAnswer
<1>10. ASSUME NEW ok, NEW s, ImportAnswer(d, ok, s)  PROVE JobsMade'
  <2>1. \/ \E mine, skewed : Finish(d, ok, mine, skewed)
        \/ /\ UNCHANGED <<jobQueue, held, queue, cur>>
           /\ dpc' = [dpc EXCEPT ![d] = "sending"] /\ cur[d].type = "judge"
    BY <1>10 DEF ImportAnswer, mgrVars
  <2> QED
    BY <1>2, <2>1, MadeFinish
<1> QED
  BY <1>3, <1>4, <1>5, <1>6, <1>7, <1>8, <1>9, <1>10 DEF DroneWorks, DroneLeaves

-----------------------------------------------------------------------------
(***************************************************************************)
(* The jobs of clients that a drone's thread has, in its hand or its queue *)
(* (there is one at most), and what a step of the thread does to them.     *)
(***************************************************************************)
ClientJobsOf(q, j) == {x \in ClientJob : x = j \/ x \in ToSet(q)}

Carried(d) == ClientJobsOf(queue[d], cur[d])

LEMMA CarriesOne ==
    ASSUME TypeOK, JobsMade, ClientJobAtBottom, NEW d \in Drone
    PROVE  /\ cur[d] \in ClientJob => Carried(d) = {cur[d]}
           /\ \A x \in Carried(d), y \in Carried(d) : x = y
<1>1. ASSUME NEW x \in ClientJob, x \in ToSet(queue[d])
      PROVE  cur[d] \notin ClientJob /\ x = queue[d][1]
  <2>1. PICK k \in DOMAIN queue[d] : queue[d][k] = x
    BY <1>1, ToSetMember DEF JobsMade
  <2>2. IsClientJob(queue[d][k]) /\ (IsClientJob(cur[d]) <=> cur[d] \in ClientJob)
    BY <2>1, ClientJobs DEF JobsMade
  <2>3. k = 1 /\ ~IsClientJob(cur[d])
    BY <2>1, <2>2 DEF ClientJobAtBottom
  <2> QED
    BY <2>1, <2>2, <2>3
<1> QED
  BY <1>1 DEF Carried, ClientJobsOf

LEMMA CarriedAfter ==
    ASSUME JobsMade, NEW d \in Drone, NEW q, NEW j,
           queue' = [queue EXCEPT ![d] = q], cur' = [cur EXCEPT ![d] = j]
    PROVE  /\ Carried(d)' = ClientJobsOf(q, j)
           /\ \A x \in Drone \ {d} : Carried(x)' = Carried(x)
  BY DEF JobsMade, Carried, ClientJobsOf

Apart(d) ==
    /\ UNCHANGED <<held, asked, idc, waitFor>>
    /\ \A x \in Drone \ {d} : Carried(x)' = Carried(x)

Keeps(d) ==
    /\ UNCHANGED <<jobQueue, answer, slot, results>>
    /\ Carried(d)' = Carried(d)

Answers(d) ==
    /\ cur[d] \in ClientJob /\ Carried(d) = {cur[d]}
    /\ Carried(d)' = {} /\ jobQueue' = jobQueue
    /\ \E ok \in BOOLEAN : JobDone(cur[d], ok)

Requeues(d) ==
    /\ cur[d] \in ClientJob /\ Carried(d) = {cur[d]}
    /\ Carried(d)' = {} /\ jobQueue' = Append(jobQueue, cur[d])
    /\ UNCHANGED <<answer, slot, results>>

Loses(d) ==
    /\ Carried(d)' = {}
    /\ UNCHANGED <<jobQueue, answer, slot, results>>
    /\ d \in drones /\ drones' = drones \ {d}

Moves(d) == Apart(d) /\ (Keeps(d) \/ Answers(d) \/ Requeues(d) \/ Loses(d))

(* A thread that ends leaves nothing behind. *)
LEMMA UnregisterMoves ==
    ASSUME JobsMade, NEW d \in Drone, NEW free, Unregister(d, free)
    PROVE  /\ Carried(d)' = {} /\ drones' = drones \ {d}
           /\ \A x \in Drone \ {d} : Carried(x)' = Carried(x)
<1>1. ClientJobsOf(<<>>, NoJob) = {}
  BY ToSetEmpty, ClientJobs DEF ClientJobsOf
<1> QED
  BY <1>1, CarriedAfter DEF Unregister

(* A broadcast that is done is no client's business. *)
LEMMA NobodyWaits ==
    ASSUME NEW j \in GoodJob \ ClientJob, NEW ok, JobDone(j, ok)
    PROVE  UNCHANGED <<answer, slot, results>>
<1>1. j.client = NoClient
  BY DEF ClientJob
<1> QED
  BY <1>1, ClientAssumption DEF JobDone

LEMMA FinishMoves ==
    ASSUME TypeOK, ThreadsMatchJobs, ClientJobAtBottom, JobsMade, NEW d \in Drone,
           dpc[d] \in Working, NEW ok \in BOOLEAN, NEW mine, NEW skewed,
           Finish(d, ok, mine, skewed)
    PROVE  Moves(d) /\ (cur[d] \in ClientJob => Answers(d))
<1>1. cur[d] \in GoodJob /\ d \in drones
  BY DEF JobsMade, ThreadsMatchJobs, Working
<1>2. Carried(d) = ClientJobsOf(queue[d], cur[d])
  BY DEF Carried
<1>3. cur[d] \in ClientJob => /\ Carried(d) = {cur[d]}
                              /\ ClientJobsOf(queue[d], NoJob) = {}
  <2>1. ASSUME cur[d] \in ClientJob, NEW x \in ClientJob, x \in ToSet(queue[d])
        PROVE  FALSE
    <3>1. PICK k \in DOMAIN queue[d] : queue[d][k] = x
      BY <2>1, ToSetMember DEF JobsMade
    <3>2. IsClientJob(queue[d][k]) /\ IsClientJob(cur[d])
      BY <2>1, <3>1, ClientJobs
    <3> QED
      BY <3>1, <3>2 DEF ClientJobAtBottom
  <2> QED
    BY <2>1, CarriesOne, ClientJobs DEF ClientJobsOf
<1>4. cur[d] \notin ClientJob => ClientJobsOf(queue[d], NoJob) = Carried(d)
  BY <1>2, ClientJobs DEF ClientJobsOf
<1>5. CASE FinishAndStay(d, cur[d], queue[d], ok, mine, skewed)
  <2>1. /\ Carried(d)' = ClientJobsOf(queue[d], NoJob)
        /\ \A x \in Drone \ {d} : Carried(x)' = Carried(x)
    BY <1>5, CarriedAfter DEF FinishAndStay
  <2>2. UNCHANGED <<jobQueue, held, waitFor, asked, idc>> /\ JobDone(cur[d], ok)
    BY <1>5 DEF FinishAndStay
  <2>3. CASE cur[d] \in ClientJob
    BY <1>3, <2>1, <2>2, <2>3 DEF Moves, Apart, Answers
  <2>4. CASE cur[d] \notin ClientJob
    BY <1>1, <1>4, <2>1, <2>2, <2>4, NobodyWaits DEF Moves, Apart, Keeps
  <2> QED
    BY <2>3, <2>4
<1>6. CASE FinishAndLeave(d, cur[d], ok)
  <2>1. /\ Carried(d)' = {} /\ drones' = drones \ {d}
        /\ \A x \in Drone \ {d} : Carried(x)' = Carried(x)
    BY <1>6, UnregisterMoves DEF FinishAndLeave
  <2>2. UNCHANGED <<jobQueue, held, waitFor, asked, idc>> /\ JobDone(cur[d], ok)
    BY <1>6 DEF FinishAndLeave
  <2>3. CASE cur[d] \in ClientJob
    BY <1>3, <2>1, <2>2, <2>3 DEF Moves, Apart, Answers
  <2>4. CASE cur[d] \notin ClientJob
    BY <1>1, <2>1, <2>2, <2>4, NobodyWaits DEF Moves, Apart, Loses
  <2> QED
    BY <2>3, <2>4
<1> QED
  BY <1>5, <1>6 DEF Finish

LEMMA DroneMoves ==
    ASSUME TypeOK, ThreadsMatchJobs, ClientJobAtBottom, JobsMade, NEW d \in Drone,
           Connect(d) \/ DroneWorks(d) \/ DroneLeaves(d)
    PROVE  Moves(d)
<1>1. CASE UNCHANGED <<jobQueue, held, queue, cur, asked, answer, idc, waitFor, slot, results>>
  BY <1>1 DEF Moves, Apart, Keeps, Carried
<1>2. CASE Connect(d) \/ Listed(d) \/ Ping(d) \/ Pong(d) \/ OpenArchive(d) \/ SendSource(d)
  BY <1>1, <1>2 DEF Connect, Listed, Ping, Pong, OpenArchive, SendSource, mgrVars,
     clientVars, historyVars
<1>3. CASE WrongPong(d) \/ LeaveIdle(d)
  <2>1. d \in drones
    BY <1>3 DEF WrongPong, LeaveIdle, ThreadsMatchJobs
  <2>2. /\ Carried(d)' = {} /\ drones' = drones \ {d}
        /\ \A x \in Drone \ {d} : Carried(x)' = Carried(x)
    BY <1>3, UnregisterMoves DEF WrongPong, LeaveIdle
  <2> QED
    BY <1>3, <2>1, <2>2
    DEF WrongPong, LeaveIdle, mgrVars, clientVars, historyVars, Moves, Apart, Loses
<1>4. CASE Take(d) \/ SkipDispose(d)
  <2> DEFINE j == Last(queue[d])
             q == Front(queue[d])
  <2>1. /\ queue[d] # <<>> /\ cur[d] = NoJob
        /\ queue' = [queue EXCEPT ![d] = q]
    BY <1>4 DEF Take, SkipDispose, FinishAndStay, ThreadsMatchJobs, Working
  <2>2. j \in GoodJob /\ ToSet(queue[d]) = ToSet(q) \cup {j}
    BY <2>1, FrontLast, ToSetFront DEF JobsMade
  <2>3. ClientJobsOf(q, j) = Carried(d)
    BY <2>1, <2>2, ClientJobs DEF Carried, ClientJobsOf
  <2>4. CASE Take(d)
    <3>1. cur' = [cur EXCEPT ![d] = j]
      BY <2>4 DEF Take
    <3> HIDE DEF j, q
    <3>2. Carried(d)' = Carried(d) /\ \A x \in Drone \ {d} : Carried(x)' = Carried(x)
      BY <2>1, <2>3, <3>1, CarriedAfter
    <3> QED
      BY <2>4, <3>2 DEF Take, mgrVars, clientVars, historyVars, Moves, Apart, Keeps
  <2>5. CASE SkipDispose(d)
    <3>1. cur' = [cur EXCEPT ![d] = NoJob] /\ JobDone(j, TRUE) /\ j.type = "dispose"
          /\ UNCHANGED <<jobQueue, held, waitFor, asked, idc>>
      BY <2>5 DEF SkipDispose, NothingToDispose, FinishAndStay
    <3>2. j \notin ClientJob
      BY <2>2, <3>1, ClientJobs
    <3> HIDE DEF j, q
    <3>3. ClientJobsOf(q, NoJob) = Carried(d)
      BY <2>3, <3>2, ClientJobs DEF ClientJobsOf
    <3>4. Carried(d)' = Carried(d) /\ \A x \in Drone \ {d} : Carried(x)' = Carried(x)
      BY <2>1, <3>1, <3>3, CarriedAfter
    <3> QED
      BY <2>2, <3>1, <3>2, <3>4, NobodyWaits DEF Moves, Apart, Keeps
  <2> QED
    BY <1>4, <2>4, <2>5
<1>5. CASE NoArchive(d)
  <2>1. Finish(d, FALSE, myEntries[d], TRUE) /\ dpc[d] \in Working
    BY <1>5 DEF NoArchive, Finish, Working
  <2> QED
    BY <2>1, FinishMoves
<1>6. CASE SourceMissing(d) \/ LinkBreaks(d)
  <2>1. Fail(d) /\ dpc[d] \in Working
    BY <1>6 DEF SourceMissing, LinkBreaks, Working
  <2>2. d \in drones /\ cur[d] \in GoodJob
    BY <2>1 DEF ThreadsMatchJobs, JobsMade, Working
  <2>3. /\ Carried(d)' = {} /\ drones' = drones \ {d}
        /\ \A x \in Drone \ {d} : Carried(x)' = Carried(x)
    BY <2>1, UnregisterMoves DEF Fail
  <2>4. UNCHANGED <<held, asked, idc, waitFor, answer, slot, results>>
    BY <2>1 DEF Fail, clientVars, historyVars
  <2>5. CASE cur[d] \in ClientJob
    <3>1. jobQueue' = Append(jobQueue, cur[d])
      BY <2>1, <2>5, ClientJobs DEF Fail
    <3> QED
      BY <2>3, <2>4, <2>5, <3>1, CarriesOne DEF Moves, Apart, Requeues
  <2>6. CASE cur[d] \notin ClientJob
    <3>1. cur[d].type \in {"push", "dispose"}
      BY <2>2, <2>6 DEF GoodJob, ClientJob, Job, JobType
    <3>2. jobQueue' = jobQueue
      BY <2>1, <3>1 DEF Fail
    <3> QED
      BY <2>2, <2>3, <2>4, <3>2 DEF Moves, Apart, Loses
  <2> QED
    BY <2>5, <2>6
<1>7. ASSUME NEW ok \in BOOLEAN, NEW s, JudgeAnswer(d, ok) \/ DestroyAnswer(d, ok, s)
      PROVE  Moves(d)
  <2>1. \E skewed : Finish(d, ok, myEntries[d], skewed)
    BY <1>7 DEF JudgeAnswer, DestroyAnswer
  <2>2. dpc[d] \in Working
    BY <1>7 DEF JudgeAnswer, DestroyAnswer, Working
  <2> QED
    BY <2>1, <2>2, FinishMoves
<1>8. ASSUME NEW ok \in BOOLEAN, NEW s, ImportAnswer(d, ok, s)  PROVE Moves(d)
  <2>1. \/ \E mine, skewed : Finish(d, ok, mine, skewed)
        \/ UNCHANGED <<jobQueue, held, queue, cur, asked, answer, idc, waitFor, slot, results>>
    BY <1>8 DEF ImportAnswer, mgrVars, clientVars, historyVars
  <2>2. dpc[d] \in Working
    BY <1>8 DEF ImportAnswer, Working
  <2> QED
    BY <1>1, <2>1, <2>2, FinishMoves
<1> QED
  BY <1>2, <1>3, <1>4, <1>5, <1>6, <1>7, <1>8 DEF DroneWorks, DroneLeaves

(* A broadcast changes nothing for the jobs of clients. *)
LEMMA BroadcastMoves ==
    ASSUME JobsMade, NEW type \in {"push", "dispose"}, NEW e \in Entry, Broadcast(type, e)
    PROVE  \A d \in Drone : Carried(d)' = Carried(d)
<1> DEFINE j == [type |-> type, id |-> 0, client |-> NoClient, entry |-> e]
<1>1. j \in GoodJob /\ j \notin ClientJob
  BY BroadcastMakes
<1>2. cur' = cur /\ \A d \in Drone : queue'[d] = Append(queue[d], j) \/ queue'[d] = queue[d]
  BY DEF Broadcast
<1> HIDE DEF j
<1>3. ASSUME NEW d \in Drone  PROVE Carried(d)' = Carried(d)
  <2>1. ToSet(Append(queue[d], j)) = ToSet(queue[d]) \cup {j}
    BY <1>1, ToSetAppend DEF JobsMade
  <2>2. ClientJobsOf(Append(queue[d], j), cur[d]) = ClientJobsOf(queue[d], cur[d])
    BY <1>1, <2>1 DEF ClientJobsOf
  <2>3. Carried(d)' = ClientJobsOf(queue'[d], cur[d])
    BY <1>2 DEF Carried, ClientJobsOf
  <2> QED
    BY <1>2, <2>2, <2>3 DEF Carried
<1> QED
  BY <1>3

(* A dispatch hands the manager's job to the thread at the head of the list. *)
LEMMA DispatchMoves ==
    ASSUME TypeOK, FreeListExact, JobsMade, MgrDispatch
    PROVE  \E d \in Drone :
              /\ Carried(d) = {} /\ Carried(d)' = {held} /\ held \in ClientJob
              /\ \A x \in Drone \ {d} : Carried(x)' = Carried(x)
<1> DEFINE d == Head(freeDrones)
<1>1. d \in ToSet(freeDrones) /\ held \in ClientJob
  BY TailUnique DEF MgrDispatch, TypeOK, FreeListExact, JobsMade
<1>2. d \in Drone /\ queue[d] = <<>> /\ cur[d] = NoJob
  BY <1>1 DEF FreeListExact, TypeOK
<1>3. cur' = cur /\ queue' = [queue EXCEPT ![d] = Append(queue[d], held)]
  BY DEF MgrDispatch
<1> HIDE DEF d
<1>4. cur' = [cur EXCEPT ![d] = cur[d]]
  BY <1>3 DEF JobsMade
<1>5. Carried(d) = {}
  BY <1>2, ToSetEmpty, ClientJobs DEF Carried, ClientJobsOf
<1>6. ToSet(Append(queue[d], held)) = {held}
  <2>1. queue[d] \in Seq(GoodJob) /\ held \in GoodJob
    BY <1>1, <1>2, ClientJobs DEF JobsMade
  <2>2. ToSet(Append(queue[d], held)) = ToSet(queue[d]) \cup {held}
    BY <2>1, ToSetAppend
  <2> QED
    BY <1>2, <2>2, ToSetEmpty
<1>7. ClientJobsOf(Append(queue[d], held), cur[d]) = {held}
  BY <1>1, <1>2, <1>6, ClientJobs DEF ClientJobsOf
<1> QED
  BY <1>1, <1>2, <1>3, <1>4, <1>5, <1>7, CarriedAfter

-----------------------------------------------------------------------------
(***************************************************************************)
(* A client's job is in one place at most: the manager's queue, its hand,  *)
(* or one drone's thread.  What is on its way has been asked for and has   *)
(* no answer yet; ids are given out once.                                  *)
(***************************************************************************)
OnePlace ==
    /\ IsInjective(jobQueue)
    /\ held \notin ToSet(jobQueue)
    /\ \A d \in Drone : \A x \in Carried(d) :
          /\ x \notin ToSet(jobQueue) /\ x # held
          /\ \A e \in Drone : x \in Carried(e) => e = d

OnTheirWay ==
    {x \in ClientJob : x \in ToSet(jobQueue) \/ x = held \/ \E d \in Drone : x \in Carried(d)}

AskedFor == \A x \in OnTheirWay : asked[x.id] = x /\ answer[x.id] = "none"

Given == \A i \in Id :
    /\ asked[i] # NoJob => asked[i] \in ClientJob /\ asked[i].id = i /\ i < idc
    /\ asked[i] = NoJob => answer[i] = "none"

(* The next id has not been used. *)
LEMMA Fresh ==
    ASSUME TypeOK, NEW c, ReadsCommand(c), Given
    PROVE  /\ idc \in Id /\ asked[idc] = NoJob /\ answer[idc] = "none"
           /\ \A i \in Id : asked[i] # NoJob => i # idc
<1>1. idc \in Id /\ idc \in Nat
  BY BoundsAssumption DEF TypeOK, ReadsCommand, Id
<1>2. ~(idc < idc)
  BY <1>1
<1> QED
  BY <1>1, <1>2 DEF Given

(* What jobDone does for a job of a client. *)
LEMMA DoneMoves ==
    ASSUME TypeOK, NEW j \in ClientJob, NEW ok \in BOOLEAN, JobDone(j, ok)
    PROVE  /\ answer'[j.id] # "none"
           /\ \A i \in Id \ {j.id} : answer'[i] = answer[i]
           /\ \A c \in SyncClient : slot'[c] = IF c = j.client THEN j ELSE slot[c]
           /\ \A c \in ASyncClient :
                 ToSet(results'[c]) = IF c = j.client THEN ToSet(results[c]) \cup {j}
                                                      ELSE ToSet(results[c])
<1>1. j.id \in Id /\ j.client \in Client /\ j.client # NoClient /\ j \in Job
  BY ClientJobs, ClientAssumption DEF Client
<1>2. answer' = [answer EXCEPT ![j.id] = IF ok THEN "ok" ELSE "failed"]
  BY <1>1 DEF JobDone
<1>3. \A c \in SyncClient : slot'[c] = IF c = j.client THEN j ELSE slot[c]
  BY DEF JobDone, TypeOK
<1>4. ASSUME NEW c \in ASyncClient
      PROVE  ToSet(results'[c]) = IF c = j.client THEN ToSet(results[c]) \cup {j}
                                                  ELSE ToSet(results[c])
  <2>1. results'[c] = IF c = j.client THEN Append(results[c], j) ELSE results[c]
    BY DEF JobDone, TypeOK
  <2>2. results[c] \in Seq(Job)
    BY DEF TypeOK
  <2>3. ToSet(Append(results[c], j)) = ToSet(results[c]) \cup {j}
    BY <1>1, <2>2, ToSetAppend
  <2> QED
    BY <2>1, <2>3
<1> QED
  BY <1>1, <1>2, <1>3, <1>4 DEF TypeOK

(* The places before and after each kind of step. *)
LEMMA PlaceTake ==
    ASSUME JobsMade, OnePlace, MgrTake
    PROVE  OnePlace' /\ OnTheirWay' = OnTheirWay
<1>1. /\ held = NoJob /\ held' = Head(jobQueue) /\ jobQueue' = Tail(jobQueue)
      /\ jobQueue # <<>> /\ UNCHANGED <<queue, cur>>
  BY DEF MgrTake, droneVars
<1>2. /\ held' \in ToSet(jobQueue) /\ IsInjective(jobQueue')
      /\ ToSet(jobQueue') = ToSet(jobQueue) \ {held'}
  BY <1>1, TailUnique DEF JobsMade, OnePlace
<1>3. \A d \in Drone : Carried(d)' = Carried(d)
  BY <1>1 DEF Carried, ClientJobsOf
<1>4. NoJob \notin ClientJob /\ \A d \in Drone : Carried(d) \subseteq ClientJob
  BY ClientJobs DEF Carried, ClientJobsOf
<1>5. OnePlace'
  BY <1>2, <1>3 DEF OnePlace
<1>6. OnTheirWay' = OnTheirWay
  BY <1>1, <1>2, <1>3, <1>4 DEF OnTheirWay
<1> QED
  BY <1>5, <1>6

LEMMA PlaceDispatch ==
    ASSUME TypeOK, FreeListExact, JobsMade, OnePlace, MgrDispatch
    PROVE  OnePlace' /\ OnTheirWay' = OnTheirWay
<1>1. held' = NoJob /\ jobQueue' = jobQueue
  BY DEF MgrDispatch
<1>2. PICK d \in Drone : /\ Carried(d) = {} /\ Carried(d)' = {held} /\ held \in ClientJob
                         /\ \A x \in Drone \ {d} : Carried(x)' = Carried(x)
  BY DispatchMoves
<1>3. /\ NoJob \notin ClientJob /\ ToSet(jobQueue) \subseteq ClientJob
      /\ \A x \in Drone : Carried(x) \subseteq ClientJob
  BY ClientJobs, ToSetMember DEF Carried, ClientJobsOf, JobsMade
<1>4. OnePlace'
  BY <1>1, <1>2, <1>3 DEF OnePlace
<1>5. OnTheirWay' = OnTheirWay
  BY <1>1, <1>2, <1>3 DEF OnTheirWay
<1> QED
  BY <1>4, <1>5

LEMMA PlaceSubmit ==
    ASSUME TypeOK, JobsMade, OnePlace, AskedFor, Given, NEW c \in Client,
           NEW type \in {"import", "judge"}, NEW e \in Entry, ReadsCommand(c),
           Submit(c, type, e)
    PROVE  /\ OnePlace'
           /\ OnTheirWay' = OnTheirWay
                 \cup {[type |-> type, id |-> idc, client |-> c, entry |-> e]}
<1> DEFINE j == [type |-> type, id |-> idc, client |-> c, entry |-> e]
<1>1. j \in ClientJob /\ j.id = idc /\ idc \in Id /\ asked[idc] = NoJob
  BY SubmitMakes, Fresh
<1>2. /\ jobQueue' = Append(jobQueue, j) /\ UNCHANGED <<held, queue, cur>>
  BY DEF Submit, droneVars
<1> HIDE DEF j
<1>3. j \notin OnTheirWay /\ NoJob \notin ClientJob
  BY <1>1, ClientJobs DEF AskedFor
<1>4. /\ j \notin ToSet(jobQueue) /\ j # held
      /\ \A d \in Drone : j \notin Carried(d)
  BY <1>1, <1>3 DEF OnTheirWay
<1>5. IsInjective(jobQueue') /\ ToSet(jobQueue') = ToSet(jobQueue) \cup {j}
  BY <1>1, <1>2, <1>4, AppendUnique DEF JobsMade, OnePlace
<1>6. \A d \in Drone : Carried(d)' = Carried(d)
  BY <1>2 DEF Carried, ClientJobsOf
<1>7. OnePlace'
  BY <1>2, <1>4, <1>5, <1>6 DEF OnePlace
<1>8. OnTheirWay' = OnTheirWay \cup {j}
  BY <1>1, <1>2, <1>5, <1>6 DEF OnTheirWay
<1> QED
  BY <1>7, <1>8 DEF j

LEMMA PlaceDrone ==
    ASSUME JobsMade, OnePlace, NEW d \in Drone, Moves(d)
    PROVE  /\ OnePlace'
           /\ Keeps(d) \/ Requeues(d) => OnTheirWay' = OnTheirWay
           /\ Answers(d) => cur[d] \in OnTheirWay /\ OnTheirWay' = OnTheirWay \ {cur[d]}
           /\ Loses(d) => OnTheirWay' = OnTheirWay \ Carried(d)
<1>1. held' = held /\ \A x \in Drone \ {d} : Carried(x)' = Carried(x)
  BY DEF Moves, Apart
<1>2. Keeps(d) => OnePlace' /\ OnTheirWay' = OnTheirWay
  <2>1. Keeps(d) => jobQueue' = jobQueue /\ \A x \in Drone : Carried(x)' = Carried(x)
    BY <1>1 DEF Keeps
  <2> QED
    BY <1>1, <2>1 DEF OnePlace, OnTheirWay
<1>3. /\ \A x \in Drone : Carried(x) \subseteq ClientJob
      /\ \A x \in Carried(d) : /\ x \notin ToSet(jobQueue) /\ x # held
                               /\ \A y \in Drone \ {d} : x \notin Carried(y)
  BY DEF OnePlace, Carried, ClientJobsOf
<1>4. ASSUME Carried(d)' = {}, jobQueue' = jobQueue
      PROVE  OnePlace' /\ OnTheirWay' = OnTheirWay \ Carried(d)
  <2>1. OnePlace'
    BY <1>1, <1>4 DEF OnePlace
  <2>2. OnTheirWay' = OnTheirWay \ Carried(d)
    BY <1>1, <1>3, <1>4 DEF OnTheirWay
  <2> QED
    BY <2>1, <2>2
<1>5. ASSUME Requeues(d)
      PROVE  OnePlace' /\ OnTheirWay' = OnTheirWay
  <2>1. /\ cur[d] \in ClientJob /\ Carried(d) = {cur[d]}
        /\ Carried(d)' = {} /\ jobQueue' = Append(jobQueue, cur[d])
    BY <1>5 DEF Requeues
  <2>2. /\ IsInjective(jobQueue')
        /\ ToSet(jobQueue') = ToSet(jobQueue) \cup {cur[d]}
    BY <1>3, <2>1, AppendUnique DEF JobsMade, OnePlace
  <2>3. OnePlace'
    BY <1>1, <1>3, <2>1, <2>2 DEF OnePlace
  <2>4. OnTheirWay' = OnTheirWay
    BY <1>1, <1>3, <2>1, <2>2 DEF OnTheirWay
  <2> QED
    BY <2>3, <2>4
<1>6. Answers(d) => cur[d] \in OnTheirWay /\ Carried(d) = {cur[d]}
  BY DEF Answers, OnTheirWay
<1>7. Answers(d) \/ Loses(d) => Carried(d)' = {} /\ jobQueue' = jobQueue
  BY DEF Answers, Loses
<1> QED
  BY <1>2, <1>4, <1>5, <1>6, <1>7 DEF Moves

LEMMA PlaceManager ==
    ASSUME TypeOK, FreeListExact, JobsMade, OnePlace, Manager
    PROVE  OnePlace' /\ OnTheirWay' = OnTheirWay
<1>1. CASE UNCHANGED <<jobQueue, held, queue, cur>>
  BY <1>1 DEF OnePlace, OnTheirWay, Carried, ClientJobsOf
<1> QED
  BY <1>1, PlaceTake, PlaceDispatch
  DEF Manager, MgrSleepForJob, MgrSleepForDrone, MgrWake, droneVars

LEMMA PlaceClient ==
    ASSUME TypeOK, JobsMade, OnePlace, AskedFor, Given, NEW c \in Client, ClientStep(c)
    PROVE  /\ OnePlace'
           /\ \/ \E type \in {"import", "judge"}, e \in Entry :
                    ReadsCommand(c) /\ Submit(c, type, e)
              \/ OnTheirWay' = OnTheirWay
<1>1. CASE UNCHANGED <<jobQueue, held, queue, cur>>
  BY <1>1 DEF OnePlace, OnTheirWay, Carried, ClientJobsOf
<1>2. ASSUME NEW type \in {"push", "dispose"}, NEW e \in Entry, Broadcast(type, e)
      PROVE  OnePlace' /\ OnTheirWay' = OnTheirWay
  <2>1. \A d \in Drone : Carried(d)' = Carried(d)
    BY <1>2, BroadcastMoves
  <2>2. UNCHANGED <<jobQueue, held>>
    BY <1>2 DEF Broadcast, mgrVars
  <2> QED
    BY <2>1, <2>2 DEF OnePlace, OnTheirWay
<1>3. CASE (c \in SyncClient /\ SyncReply(c)) \/ (c \in ASyncClient /\ PullResults(c))
  BY <1>1, <1>3 DEF SyncReply, PullResults, mgrVars, droneVars
<1> QED
  BY <1>2, <1>3, PlaceSubmit, ClientMoves

(* What was asked for and what was answered. *)
LEMMA AskedSubmit ==
    ASSUME TypeOK, JobsMade, OnePlace, AskedFor, Given, NEW c \in Client,
           NEW type \in {"import", "judge"}, NEW e \in Entry, ReadsCommand(c),
           Submit(c, type, e)
    PROVE  AskedFor' /\ Given'
<1> DEFINE j == [type |-> type, id |-> idc, client |-> c, entry |-> e]
<1>1. /\ j \in ClientJob /\ j.id = idc /\ idc \in Id /\ idc \in Nat
      /\ asked[idc] = NoJob /\ answer[idc] = "none"
  BY SubmitMakes, Fresh DEF TypeOK
<1>2. /\ asked' = [asked EXCEPT ![idc] = j] /\ answer' = answer /\ idc' = idc + 1
      /\ OnTheirWay' = OnTheirWay \cup {j}
  BY PlaceSubmit DEF Submit
<1> HIDE DEF j
<1>3. asked'[idc] = j /\ \A i \in Id \ {idc} : asked'[i] = asked[i]
  BY <1>1, <1>2 DEF TypeOK
<1>4. \A x \in OnTheirWay : x.id \in Id /\ x.id # idc
  BY <1>1, ClientJobs DEF AskedFor, OnTheirWay
<1>5. AskedFor'
  BY <1>1, <1>2, <1>3, <1>4 DEF AskedFor
<1>6. ASSUME NEW i \in Id
      PROVE  /\ asked'[i] # NoJob => asked'[i] \in ClientJob /\ asked'[i].id = i /\ i < idc'
             /\ asked'[i] = NoJob => answer'[i] = "none"
  <2>1. CASE i = idc
    BY <1>1, <1>2, <1>3, <2>1
  <2>2. CASE i # idc
    <3>1. i \in Nat /\ (i < idc => i < idc + 1)
      BY <1>1, BoundsAssumption DEF Id
    <3> QED
      BY <1>2, <1>3, <2>2, <3>1 DEF Given
  <2> QED
    BY <2>1, <2>2
<1> QED
  BY <1>5, <1>6 DEF Given

LEMMA GivenStep ==
    ASSUME TypeOK, Given, UNCHANGED asked, idc' = idc \/ idc' = idc + 1,
           \A i \in Id : asked[i] = NoJob => answer'[i] = "none"
    PROVE  Given'
<1>1. idc \in Nat /\ \A i \in Id : i \in Nat /\ (i < idc => i < idc')
  BY BoundsAssumption DEF TypeOK, Id
<1> QED
  BY <1>1 DEF Given

LEMMA AskedDrone ==
    ASSUME TypeOK, JobsMade, OnePlace, AskedFor, Given, NEW d \in Drone, Moves(d)
    PROVE  AskedFor' /\ Given'
<1>1. UNCHANGED <<asked, idc>>
  BY DEF Moves, Apart
<1>2. CASE Keeps(d) \/ Requeues(d) \/ Loses(d)
  <2>1. answer' = answer /\ OnTheirWay' \subseteq OnTheirWay
    BY <1>2, PlaceDrone DEF Keeps, Requeues, Loses
  <2>2. AskedFor'
    BY <1>1, <2>1 DEF AskedFor
  <2> QED
    BY <1>1, <2>1, <2>2, GivenStep DEF Given
<1>3. CASE Answers(d)
  <2> DEFINE j == cur[d]
  <2>1. j \in ClientJob /\ j \in OnTheirWay /\ OnTheirWay' = OnTheirWay \ {j}
    BY <1>3, PlaceDrone DEF Answers
  <2>2. PICK ok \in BOOLEAN : JobDone(j, ok)
    BY <1>3 DEF Answers
  <2> HIDE DEF j
  <2>3. \A i \in Id \ {j.id} : answer'[i] = answer[i]
    BY <2>1, <2>2, DoneMoves
  <2>4. asked[j.id] = j /\ j # NoJob
    BY <2>1, ClientJobs DEF AskedFor
  <2>5. \A x \in OnTheirWay : x.id \in Id /\ asked[x.id] = x /\ (x.id = j.id => x = j)
    BY <2>4, ClientJobs DEF AskedFor, OnTheirWay
  <2>6. AskedFor'
    BY <1>1, <2>1, <2>3, <2>5 DEF AskedFor
  <2>7. \A i \in Id : asked[i] = NoJob => answer'[i] = "none"
    BY <2>3, <2>4 DEF Given
  <2> QED
    BY <1>1, <2>6, <2>7, GivenStep
<1> QED
  BY <1>2, <1>3 DEF Moves

Located == JobsMade /\ OnePlace /\ AskedFor /\ Given

LEMMA LocatedInit == Init => Located
<1> SUFFICES ASSUME Init PROVE Located
  OBVIOUS
<1>1. /\ jobQueue = <<>> /\ held = NoJob
      /\ queue = [d \in Drone |-> <<>>] /\ cur = [d \in Drone |-> NoJob]
      /\ \A d \in Drone : dpc[d] = "off"
      /\ asked = [i \in Id |-> NoJob] /\ answer = [i \in Id |-> "none"]
  BY DEF Init
<1>2. JobsMade
  BY <1>1, EmptySeq DEF JobsMade
<1>3. OnTheirWay = {} /\ \A d \in Drone : Carried(d) = {}
  BY <1>1, ToSetEmpty, ClientJobs DEF OnTheirWay, Carried, ClientJobsOf
<1>4. IsInjective(jobQueue)
  BY <1>1, EmptySeq DEF IsInjective
<1>5. OnePlace
  BY <1>1, <1>3, <1>4, ToSetEmpty DEF OnePlace
<1> QED
  BY <1>1, <1>2, <1>3, <1>5 DEF Located, AskedFor, Given

LEMMA LocatedNext ==
    ASSUME IInv, ClientJobAtBottom, Located, [Next]_vars
    PROVE  Located'
<1> USE DEF IInv, Located
<1>1. CASE UNCHANGED vars
  BY <1>1 DEF vars, mgrVars, droneVars, historyVars, JobsMade, OnePlace, AskedFor, Given,
     OnTheirWay, Carried, ClientJobsOf
<1>2. CASE Manager
  <2>1. UNCHANGED <<asked, answer, idc>>
    BY <1>2 DEF Manager, MgrSleepForJob, MgrTake, MgrSleepForDrone, MgrDispatch, MgrWake,
       historyVars
  <2> QED
    BY <1>2, <2>1, MadeManager, PlaceManager DEF AskedFor, Given
<1>3. ASSUME NEW c \in Client, ClientStep(c)  PROVE Located'
  <2>1. JobsMade' /\ OnePlace'
    BY <1>3, MadeClient, PlaceClient
  <2>2. CASE \E type \in {"import", "judge"}, e \in Entry :
                ReadsCommand(c) /\ Submit(c, type, e)
    BY <2>1, <2>2, AskedSubmit
  <2>3. CASE ~ \E type \in {"import", "judge"}, e \in Entry :
                ReadsCommand(c) /\ Submit(c, type, e)
    <3>1. OnTheirWay' = OnTheirWay
      BY <1>3, <2>3, PlaceClient
    <3>2. UNCHANGED <<asked, answer>> /\ (idc' = idc \/ idc' = idc + 1)
      BY <1>3, <2>3, ClientMoves DEF Broadcast, SyncReply, PullResults, historyVars
    <3>3. Given'
      BY <3>2, GivenStep DEF Given
    <3> QED
      BY <2>1, <3>1, <3>2, <3>3 DEF AskedFor
  <2> QED
    BY <2>2, <2>3
<1>4. ASSUME NEW d \in Drone, Connect(d) \/ DroneWorks(d) \/ DroneLeaves(d)
      PROVE  Located'
  BY <1>4, MadeDrone, DroneMoves, PlaceDrone, AskedDrone
<1> QED
  BY <1>1, <1>2, <1>3, <1>4 DEF Next

-----------------------------------------------------------------------------
(***************************************************************************)
(* The places of Overlord, as positions in queues and hands.               *)
(***************************************************************************)
LEMMA PlaceForms ==
    ASSUME NEW i, NEW p
    PROVE  p \in Places(i) <=>
              \/ \E k \in DOMAIN jobQueue : p = <<"queued", k>> /\ IsJob(jobQueue[k], i)
              \/ p = <<"held", 0>> /\ IsJob(held, i)
              \/ \E d \in Drone : \E k \in DOMAIN queue[d] :
                    p = <<d, k>> /\ IsJob(queue[d][k], i)
              \/ \E d \in Drone : p = <<d, 0>> /\ IsJob(cur[d], i)
<1>1. p \in {<<"queued", k>> : k \in {n \in DOMAIN jobQueue : IsJob(jobQueue[n], i)}}
      <=> \E k \in DOMAIN jobQueue : p = <<"queued", k>> /\ IsJob(jobQueue[k], i)
  OBVIOUS
<1>2. p \in {<<"held", k>> : k \in {n \in {0} : IsJob(held, i)}}
      <=> p = <<"held", 0>> /\ IsJob(held, i)
  OBVIOUS
<1>3. p \in UNION {{<<d, k>> : k \in {n \in DOMAIN queue[d] : IsJob(queue[d][n], i)}}
                    : d \in Drone}
      <=> \E d \in Drone : \E k \in DOMAIN queue[d] : p = <<d, k>> /\ IsJob(queue[d][k], i)
  <2> DEFINE At(d) == {<<d, k>> : k \in {n \in DOMAIN queue[d] : IsJob(queue[d][n], i)}}
  <2>1. \A d : p \in At(d) <=> \E k \in DOMAIN queue[d] : p = <<d, k>> /\ IsJob(queue[d][k], i)
    OBVIOUS
  <2> HIDE DEF At
  <2>2. p \in UNION {At(d) : d \in Drone} <=> \E d \in Drone : p \in At(d)
    OBVIOUS
  <2> QED
    BY <2>1, <2>2 DEF At
<1>4. p \in {<<d, 0>> : d \in {x \in Drone : IsJob(cur[x], i)}}
      <=> \E d \in Drone : p = <<d, 0>> /\ IsJob(cur[d], i)
  OBVIOUS
<1> QED
  BY <1>1, <1>2, <1>3, <1>4 DEF Places

LEMMA JobsHere ==
    ASSUME TypeOK, Located, NEW i \in Id
    PROVE  /\ \A k \in DOMAIN jobQueue :
                 IsJob(jobQueue[k], i) <=> asked[i] \in ClientJob /\ jobQueue[k] = asked[i]
           /\ IsJob(held, i) <=> asked[i] \in ClientJob /\ held = asked[i]
           /\ \A d \in Drone :
                 /\ IsJob(cur[d], i) <=> asked[i] \in ClientJob /\ cur[d] = asked[i]
                 /\ \A k \in DOMAIN queue[d] :
                       IsJob(queue[d][k], i)
                          <=> asked[i] \in ClientJob /\ queue[d][k] = asked[i]
<1> USE DEF Located
<1>1. ASSUME NEW x \in GoodJob \cup {NoJob}, x \in ClientJob => x \in OnTheirWay
      PROVE  IsJob(x, i) <=> asked[i] \in ClientJob /\ x = asked[i]
  <2>1. x \in OnTheirWay => asked[x.id] = x
    BY DEF AskedFor
  <2>2. asked[i] \in ClientJob => asked[i].id = i
    BY ClientJobs DEF Given
  <2> QED
    BY <1>1, <2>1, <2>2, ClientJobs DEF IsJob
<1>2. ASSUME NEW k \in DOMAIN jobQueue
      PROVE  jobQueue[k] \in ClientJob /\ jobQueue[k] \in OnTheirWay
  BY <1>2, ToSetMember DEF JobsMade, OnTheirWay
<1>3. held \in GoodJob \cup {NoJob} /\ (held \in ClientJob => held \in OnTheirWay)
  BY ClientJobs DEF JobsMade, OnTheirWay
<1>4. ASSUME NEW d \in Drone
      PROVE  cur[d] \in GoodJob \cup {NoJob} /\ (cur[d] \in ClientJob => cur[d] \in OnTheirWay)
  BY <1>4 DEF JobsMade, OnTheirWay, Carried, ClientJobsOf
<1>5. ASSUME NEW d \in Drone, NEW k \in DOMAIN queue[d]
      PROVE  /\ queue[d][k] \in GoodJob
             /\ queue[d][k] \in ClientJob => queue[d][k] \in OnTheirWay
  <2>1. queue[d] \in Seq(GoodJob)
    BY <1>5 DEF JobsMade
  <2>2. queue[d][k] \in ToSet(queue[d]) /\ ToSet(queue[d]) \subseteq GoodJob
    BY <2>1, <1>5, ToSetMember
  <2> QED
    BY <1>5, <2>2 DEF OnTheirWay, Carried, ClientJobsOf
<1> QED
  BY <1>1, <1>2, <1>3, <1>4, <1>5, ClientJobs

LEMMA PlacesAre ==
    ASSUME TypeOK, ClientJobAtBottom, Located, NEW i \in Id
    PROVE  /\ Places(i) # {} <=> asked[i] \in OnTheirWay
           /\ \E p : Places(i) \subseteq {p}
<1> DEFINE a == asked[i]
<1> USE DEF Located
<1>1. \A p : p \in Places(i) <=>
          /\ a \in ClientJob
          /\ \/ \E k \in DOMAIN jobQueue : p = <<"queued", k>> /\ jobQueue[k] = a
             \/ p = <<"held", 0>> /\ held = a
             \/ \E d \in Drone : \E k \in DOMAIN queue[d] : p = <<d, k>> /\ queue[d][k] = a
             \/ \E d \in Drone : p = <<d, 0>> /\ cur[d] = a
  BY PlaceForms, JobsHere
<1>2. a \in ToSet(jobQueue) <=> \E k \in DOMAIN jobQueue : jobQueue[k] = a
  BY ToSetMember DEF JobsMade
<1>3. \A d \in Drone : a \in ClientJob =>
          (a \in Carried(d) <=> cur[d] = a \/ \E k \in DOMAIN queue[d] : queue[d][k] = a)
  BY ToSetMember DEF JobsMade, Carried, ClientJobsOf
<1>4. ASSUME a \in ClientJob, NEW d \in Drone, NEW k \in DOMAIN queue[d], queue[d][k] = a
      PROVE  k = 1 /\ cur[d] # a
  <2>1. IsClientJob(queue[d][k]) /\ IsClientJob(a)
    BY <1>4, ClientJobs
  <2> QED
    BY <1>4, <2>1 DEF ClientJobAtBottom
<1> HIDE DEF a
<1>5. Places(i) # {} <=> a \in OnTheirWay
  <2>1. ASSUME NEW p \in Places(i)  PROVE a \in OnTheirWay
    BY <1>1, <1>2, <1>3, <2>1 DEF OnTheirWay
  <2>2. ASSUME a \in OnTheirWay  PROVE Places(i) # {}
    <3>1. a \in ClientJob
      BY <2>2 DEF OnTheirWay
    <3>2. CASE a \in ToSet(jobQueue)
      <4>1. PICK k \in DOMAIN jobQueue : jobQueue[k] = a
        BY <1>2, <3>2
      <4>2. <<"queued", k>> \in Places(i)
        BY <1>1, <3>1, <4>1
      <4> QED
        BY <4>2
    <3>3. CASE a = held
      <4>1. <<"held", 0>> \in Places(i)
        BY <1>1, <3>1, <3>3
      <4> QED
        BY <4>1
    <3>4. ASSUME NEW d \in Drone, a \in Carried(d)  PROVE Places(i) # {}
      <4>1. CASE cur[d] = a
        <5>1. <<d, 0>> \in Places(i)
          BY <1>1, <3>1, <3>4, <4>1
        <5> QED
          BY <5>1
      <4>2. ASSUME NEW k \in DOMAIN queue[d], queue[d][k] = a  PROVE Places(i) # {}
        <5>1. <<d, k>> \in Places(i)
          BY <1>1, <3>1, <3>4, <4>2
        <5> QED
          BY <5>1
      <4> QED
        BY <1>3, <3>1, <3>4, <4>1, <4>2
    <3> QED
      BY <2>2, <3>2, <3>3, <3>4 DEF OnTheirWay
  <2> QED
    BY <2>1, <2>2
<1>6. ASSUME a \in ToSet(jobQueue), a \in ClientJob
      PROVE  \E p : Places(i) \subseteq {p}
  <2>1. PICK n \in DOMAIN jobQueue : jobQueue[n] = a
    BY <1>2, <1>6
  <2>2. \A k \in DOMAIN jobQueue : jobQueue[k] = a => k = n
    BY <2>1 DEF OnePlace, IsInjective
  <2>3. held # a /\ \A d \in Drone : a \notin Carried(d)
    BY <1>6 DEF OnePlace
  <2>4. Places(i) \subseteq {<<"queued", n>>}
    BY <1>1, <1>3, <1>6, <2>2, <2>3
  <2> QED
    BY <2>4
<1>7. ASSUME a \notin ToSet(jobQueue), held = a, a \in ClientJob
      PROVE  \E p : Places(i) \subseteq {p}
  <2>1. \A d \in Drone : a \notin Carried(d)
    BY <1>7 DEF OnePlace
  <2>2. Places(i) \subseteq {<<"held", 0>>}
    BY <1>1, <1>2, <1>3, <1>7, <2>1
  <2> QED
    BY <2>2
<1>8. ASSUME a \notin ToSet(jobQueue), held # a, NEW d \in Drone, a \in Carried(d),
             a \in ClientJob
      PROVE  \E p : Places(i) \subseteq {p}
  <2>1. \A x \in Drone : a \in Carried(x) => x = d
    BY <1>8 DEF OnePlace
  <2>2. CASE cur[d] = a
    <3>1. \A k \in DOMAIN queue[d] : queue[d][k] # a
      BY <1>4, <1>8, <2>2
    <3>2. Places(i) \subseteq {<<d, 0>>}
      BY <1>1, <1>2, <1>3, <1>8, <2>1, <3>1
    <3> QED
      BY <3>2
  <2>3. CASE cur[d] # a
    <3>1. \A k \in DOMAIN queue[d] : queue[d][k] = a => k = 1
      BY <1>4, <1>8
    <3>2. Places(i) \subseteq {<<d, 1>>}
      BY <1>1, <1>2, <1>3, <1>8, <2>1, <2>3, <3>1
    <3> QED
      BY <3>2
  <2> QED
    BY <2>2, <2>3
<1>9. ASSUME a \notin OnTheirWay  PROVE \E p : Places(i) \subseteq {p}
  <2>1. Places(i) \subseteq {0}
    BY <1>5, <1>9
  <2> QED
    BY <2>1
<1> QED
  BY <1>5, <1>6, <1>7, <1>8, <1>9 DEF OnTheirWay, a

LEMMA CopiesCounted ==
    ASSUME TypeOK, ClientJobAtBottom, Located
    PROVE  OneCopy
<1>1. ASSUME NEW i \in Id
      PROVE  Cardinality(Places(i)) <= (IF Open(i) THEN 1 ELSE 0)
  <2>1. PICK p : Places(i) \subseteq {p}
    BY PlacesAre
  <2>2. CASE Places(i) = {}
    <3>1. Cardinality(Places(i)) = 0
      BY <2>2, FS_EmptySet
    <3> QED
      BY <3>1
  <2>3. CASE Places(i) # {}
    <3>1. Places(i) = {p}
      BY <2>1, <2>3
    <3>2. Cardinality(Places(i)) = 1
      BY <3>1, FS_Singleton
    <3>3. asked[i] \in OnTheirWay
      BY <2>3, PlacesAre
    <3>4. asked[i] \in ClientJob /\ asked[i] # NoJob
      BY <3>3, ClientJobs DEF OnTheirWay
    <3>5. answer[i] = "none"
      BY <3>3, <3>4 DEF Located, Given, AskedFor
    <3> QED
      BY <3>2, <3>4, <3>5 DEF Open
  <2> QED
    BY <2>2, <2>3
<1> QED
  BY <1>1 DEF OneCopy

-----------------------------------------------------------------------------
(***************************************************************************)
(* Clients: a sync client has one open job at most, the one its thread     *)
(* waits for; results wait for the client that asked.                      *)
(***************************************************************************)
OpenIn(who, what, i) == who[i] # NoJob /\ what[i] = "none"

WaitsRight(c, w, s, who, what) ==
    IF w = NoJob
    THEN s = NoJob /\ \A i \in Id : OpenIn(who, what, i) => who[i].client # c
    ELSE /\ w.client = c /\ who[w.id] = w
         /\ \A i \in Id : OpenIn(who, what, i) /\ who[i].client = c => i = w.id
         /\ s = IF OpenIn(who, what, w.id) THEN NoJob ELSE w

Waits == \A c \in SyncClient : WaitsRight(c, waitFor[c], slot[c], asked, answer)

ResultsOwn == \A c \in ASyncClient : \A x \in ToSet(results[c]) :
    x.client = c /\ asked[x.id] = x /\ answer[x.id] # "none"

LEMMA WaitsManager ==
    ASSUME Waits, ResultsOwn, Manager
    PROVE  Waits' /\ ResultsOwn'
  BY DEF Manager, MgrSleepForJob, MgrTake, MgrSleepForDrone, MgrDispatch, MgrWake, clientVars,
     historyVars, Waits, ResultsOwn

LEMMA WaitsSubmit ==
    ASSUME TypeOK, Given, Waits, ResultsOwn, NEW c \in Client,
           NEW type \in {"import", "judge"}, NEW e \in Entry, ReadsCommand(c),
           Submit(c, type, e)
    PROVE  Waits' /\ ResultsOwn'
<1> DEFINE j == [type |-> type, id |-> idc, client |-> c, entry |-> e]
<1>1. /\ j \in ClientJob /\ j # NoJob /\ j.id = idc /\ j.client = c
      /\ idc \in Id /\ asked[idc] = NoJob /\ answer[idc] = "none"
  BY SubmitMakes, Fresh, ClientJobs
<1>2. /\ asked' = [asked EXCEPT ![idc] = j] /\ UNCHANGED <<answer, slot, results>>
      /\ waitFor' = IF c \in SyncClient THEN [waitFor EXCEPT ![c] = j] ELSE waitFor
      /\ c \in SyncClient => waitFor[c] = NoJob
  BY DEF Submit, ReadsCommand
<1> HIDE DEF j
<1>3. asked'[idc] = j /\ \A i \in Id \ {idc} : asked'[i] = asked[i]
  BY <1>1, <1>2 DEF TypeOK
<1>4. /\ OpenIn(asked', answer', idc)
      /\ \A i \in Id \ {idc} : OpenIn(asked', answer', i) <=> OpenIn(asked, answer, i)
  BY <1>1, <1>2, <1>3 DEF OpenIn
<1>5. ASSUME NEW x \in SyncClient
      PROVE  WaitsRight(x, waitFor'[x], slot'[x], asked', answer')
  <2>1. CASE x = c
    <3>1. waitFor'[x] = j /\ waitFor[x] = NoJob
      BY <1>2, <1>5, <2>1 DEF TypeOK
    <3>2. slot[x] = NoJob /\ \A i \in Id : OpenIn(asked, answer, i) => asked[i].client # x
      BY <1>5, <3>1 DEF Waits, WaitsRight
    <3> QED
      BY <1>1, <1>2, <1>3, <1>4, <2>1, <3>1, <3>2 DEF WaitsRight
  <2>2. CASE x # c /\ waitFor[x] = NoJob
    <3>1. waitFor'[x] = NoJob
      BY <1>2, <1>5, <2>2 DEF TypeOK
    <3>2. slot[x] = NoJob /\ \A i \in Id : OpenIn(asked, answer, i) => asked[i].client # x
      BY <1>5, <2>2 DEF Waits, WaitsRight
    <3> QED
      BY <1>1, <1>2, <1>3, <1>4, <2>2, <3>1, <3>2 DEF WaitsRight
  <2>3. CASE x # c /\ waitFor[x] # NoJob
    <3>1. waitFor'[x] = waitFor[x] /\ waitFor[x].id \in Id
      BY <1>2, <1>5, <2>3 DEF TypeOK, Job
    <3>2. /\ waitFor[x].client = x /\ asked[waitFor[x].id] = waitFor[x]
          /\ \A i \in Id : OpenIn(asked, answer, i) /\ asked[i].client = x => i = waitFor[x].id
          /\ slot[x] = IF OpenIn(asked, answer, waitFor[x].id) THEN NoJob ELSE waitFor[x]
      BY <1>5, <2>3 DEF Waits, WaitsRight
    <3>3. waitFor[x].id # idc
      BY <1>1, <2>3, <3>2
    <3> QED
      BY <1>1, <1>2, <1>3, <1>4, <2>3, <3>1, <3>2, <3>3 DEF WaitsRight
  <2> QED
    BY <2>1, <2>2, <2>3
<1>6. Waits'
  BY <1>5 DEF Waits
<1>7. ASSUME NEW x \in ASyncClient, NEW r \in ToSet(results'[x])
      PROVE  r.client = x /\ asked'[r.id] = r /\ answer'[r.id] # "none"
  <2>1. r \in ToSet(results[x]) /\ r \in Job
    BY <1>2, <1>7, ToSetMember DEF TypeOK
  <2>2. r.client = x /\ asked[r.id] = r /\ answer[r.id] # "none" /\ r.id \in Id
    BY <1>7, <2>1 DEF ResultsOwn, Job
  <2> QED
    BY <1>1, <1>2, <1>3, <2>2
<1> QED
  BY <1>6, <1>7 DEF ResultsOwn

LEMMA WaitsClient ==
    ASSUME TypeOK, Given, Waits, ResultsOwn, NEW c \in Client, ClientStep(c)
    PROVE  Waits' /\ ResultsOwn'
<1>1. ASSUME NEW type, NEW e, Broadcast(type, e)  PROVE Waits' /\ ResultsOwn'
  BY <1>1 DEF Broadcast, clientVars, historyVars, Waits, ResultsOwn
<1>2. CASE c \in SyncClient /\ SyncReply(c)
  <2>1. /\ slot' = [slot EXCEPT ![c] = NoJob] /\ waitFor' = [waitFor EXCEPT ![c] = NoJob]
        /\ waitFor[c] # NoJob /\ slot[c] # NoJob /\ UNCHANGED <<asked, answer, results>>
    BY <1>2 DEF SyncReply, historyVars
  <2>2. \A i \in Id : OpenIn(asked, answer, i) => asked[i].client # c
    BY <1>2, <2>1 DEF Waits, WaitsRight
  <2>3. ResultsOwn'
    BY <2>1 DEF ResultsOwn
  <2>4. /\ slot'[c] = NoJob /\ waitFor'[c] = NoJob
        /\ \A x \in SyncClient \ {c} : slot'[x] = slot[x] /\ waitFor'[x] = waitFor[x]
    BY <1>2, <2>1 DEF TypeOK
  <2>5. \A x \in SyncClient \ {c} : WaitsRight(x, waitFor'[x], slot'[x], asked', answer')
    BY <2>1, <2>4 DEF Waits
  <2>6. WaitsRight(c, waitFor'[c], slot'[c], asked', answer')
    BY <2>1, <2>2, <2>4 DEF WaitsRight, OpenIn
  <2> QED
    BY <2>3, <2>5, <2>6 DEF Waits
<1>3. CASE c \in ASyncClient /\ PullResults(c)
  <2>1. /\ results' = [results EXCEPT ![c] = <<>>]
        /\ UNCHANGED <<waitFor, slot, asked, answer>>
    BY <1>3 DEF PullResults, historyVars
  <2>2. \A x \in ASyncClient : ToSet(results'[x]) \subseteq ToSet(results[x])
    BY <1>3, <2>1, ToSetEmpty DEF TypeOK
  <2>3. ResultsOwn'
    BY <2>1, <2>2 DEF ResultsOwn
  <2> QED
    BY <2>1, <2>3 DEF Waits
<1> QED
  BY <1>1, <1>2, <1>3, ClientMoves, WaitsSubmit

LEMMA WaitsDrone ==
    ASSUME TypeOK, JobsMade, OnePlace, AskedFor, Waits, ResultsOwn, NEW d \in Drone, Moves(d)
    PROVE  Waits' /\ ResultsOwn'
<1>1. UNCHANGED <<asked, waitFor>>
  BY DEF Moves, Apart
<1>2. CASE UNCHANGED <<answer, slot, results>>
  BY <1>1, <1>2 DEF Waits, ResultsOwn
<1>3. CASE Answers(d)
  <2> DEFINE j == cur[d]
  <2>1. j \in ClientJob /\ j \in OnTheirWay /\ j.id \in Id /\ j # NoJob
    BY <1>3, PlaceDrone, ClientJobs DEF Answers
  <2>2. PICK ok \in BOOLEAN : JobDone(j, ok)
    BY <1>3 DEF Answers
  <2> HIDE DEF j
  <2>3. asked[j.id] = j /\ OpenIn(asked, answer, j.id)
    BY <2>1 DEF AskedFor, OpenIn
  <2>4. /\ answer'[j.id] # "none"
        /\ \A i \in Id \ {j.id} : answer'[i] = answer[i]
        /\ \A c \in SyncClient : slot'[c] = IF c = j.client THEN j ELSE slot[c]
        /\ \A c \in ASyncClient :
              ToSet(results'[c]) = IF c = j.client THEN ToSet(results[c]) \cup {j}
                                                   ELSE ToSet(results[c])
    BY <2>1, <2>2, DoneMoves
  <2>5. /\ ~OpenIn(asked', answer', j.id)
        /\ \A i \in Id \ {j.id} : OpenIn(asked', answer', i) <=> OpenIn(asked, answer, i)
    BY <1>1, <2>1, <2>4 DEF OpenIn
  <2>6. ASSUME NEW x \in SyncClient
        PROVE  WaitsRight(x, waitFor'[x], slot'[x], asked', answer')
    <3>1. CASE waitFor[x] = NoJob
      <4>1. slot[x] = NoJob /\ \A i \in Id : OpenIn(asked, answer, i) => asked[i].client # x
        BY <2>6, <3>1 DEF Waits, WaitsRight
      <4>2. j.client # x
        BY <2>1, <2>3, <4>1
      <4> QED
        BY <1>1, <2>4, <2>5, <2>6, <3>1, <4>1, <4>2 DEF WaitsRight
    <3>2. CASE waitFor[x] # NoJob
      <4>1. /\ waitFor[x].client = x /\ asked[waitFor[x].id] = waitFor[x]
            /\ \A i \in Id : OpenIn(asked, answer, i) /\ asked[i].client = x => i = waitFor[x].id
            /\ slot[x] = IF OpenIn(asked, answer, waitFor[x].id) THEN NoJob ELSE waitFor[x]
        BY <2>6, <3>2 DEF Waits, WaitsRight
      <4>2. waitFor[x].id \in Id
        BY <2>6, <3>2 DEF TypeOK, Job
      <4>3. CASE x = j.client
        <5>1. waitFor[x] = j
          BY <2>1, <2>3, <4>1, <4>3
        <5> QED
          BY <1>1, <2>4, <2>5, <2>6, <3>2, <4>1, <4>3, <5>1 DEF WaitsRight
      <4>4. CASE x # j.client
        <5>1. waitFor[x].id # j.id
          BY <2>3, <4>1, <4>4
        <5> QED
          BY <1>1, <2>4, <2>5, <2>6, <3>2, <4>1, <4>2, <4>4, <5>1 DEF WaitsRight
      <4> QED
        BY <4>3, <4>4
    <3> QED
      BY <3>1, <3>2
  <2>7. ASSUME NEW x \in ASyncClient, NEW r \in ToSet(results'[x])
        PROVE  r.client = x /\ asked'[r.id] = r /\ answer'[r.id] # "none"
    <3>1. CASE r = j /\ x = j.client
      BY <1>1, <2>3, <2>4, <3>1
    <3>2. CASE r \in ToSet(results[x])
      <4>1. r \in Job
        BY <2>7, <3>2, ToSetMember DEF TypeOK
      <4>2. r.client = x /\ asked[r.id] = r /\ answer[r.id] # "none" /\ r.id \in Id
        BY <2>7, <3>2, <4>1 DEF ResultsOwn, Job
      <4> QED
        BY <1>1, <2>4, <4>2
    <3>3. ToSet(results'[x]) = IF x = j.client THEN ToSet(results[x]) \cup {j}
                                               ELSE ToSet(results[x])
      BY <2>4, <2>7
    <3>4. (r = j /\ x = j.client) \/ r \in ToSet(results[x])
      BY <2>7, <3>3
    <3> QED
      BY <3>1, <3>2, <3>4
  <2> QED
    BY <2>6, <2>7 DEF Waits, ResultsOwn
<1> QED
  BY <1>2, <1>3 DEF Moves, Keeps, Requeues, Loses

-----------------------------------------------------------------------------
(***************************************************************************)
(* Temporary files: that of an import is deleted together with its answer, *)
(* that of a judge once it is sent.                                        *)
(***************************************************************************)
LEMMA RetrySubmit ==
    ASSUME TypeOK, Given, ImportRetryable, NEW c, NEW type, NEW e, ReadsCommand(c),
           Submit(c, type, e)
    PROVE  ImportRetryable'
<1>1. /\ tmp' = tmp \cup {idc} /\ answer' = answer
      /\ \A i \in Id \ {idc} : asked'[i] = asked[i]
  BY DEF Submit, TypeOK
<1> QED
  BY <1>1 DEF ImportRetryable, Open

LEMMA RetryClient ==
    ASSUME TypeOK, Given, ImportRetryable, NEW c \in Client, ClientStep(c)
    PROVE  ImportRetryable'
<1>1. CASE UNCHANGED <<tmp, asked, answer>>
  BY <1>1 DEF ImportRetryable, Open
<1> QED
  BY <1>1, RetrySubmit, ClientMoves
  DEF Broadcast, SyncReply, PullResults, historyVars, fileVars

LEMMA RetryDrone ==
    ASSUME TypeOK, ThreadsMatchJobs, ClientJobAtBottom, Located, ImportRetryable,
           NEW d \in Drone, Connect(d) \/ DroneWorks(d) \/ DroneLeaves(d)
    PROVE  ImportRetryable'
<1> USE DEF Located
<1> DEFINE j == cur[d]
<1>1. Moves(d)
  BY DroneMoves
<1>2. /\ asked' = asked
      /\ \A i \in Id : answer'[i] = "none" => answer[i] = "none"
  <2>1. CASE Answers(d)
    BY <1>1, <2>1, DoneMoves DEF Moves, Apart, Answers
  <2>2. CASE ~Answers(d)
    BY <1>1, <2>2 DEF Moves, Apart, Keeps, Requeues, Loses
  <2> QED
    BY <2>1, <2>2
<1>3. CASE tmp' = tmp
  BY <1>2, <1>3 DEF ImportRetryable, Open
<1>4. ASSUME j \in ClientJob, tmp' = tmp \ {j.id}, j.type = "judge" \/ Answers(d)
      PROVE  ImportRetryable'
  <2>1. j \in OnTheirWay
    BY <1>4 DEF OnTheirWay, Carried, ClientJobsOf
  <2>2. asked[j.id] = j /\ j.type # "judge" => answer'[j.id] # "none"
    BY <1>4, DoneMoves DEF Answers
  <2>3. asked[j.id] = j
    BY <2>1 DEF AskedFor
  <2> QED
    BY <1>2, <1>4, <2>2, <2>3 DEF ImportRetryable, Open
<1>5. j # NoJob => j \in GoodJob /\ (j.type \in {"import", "judge"} => j \in ClientJob)
  BY DEF JobsMade, GoodJob, ClientJob
<1>6. CASE SendSource(d)
  <2>1. j \in ClientJob /\ j.type = "judge" /\ tmp' = tmp \ {j.id}
    BY <1>5, <1>6 DEF SendSource, JobsMade, ThreadsMatchJobs, Working
  <2> QED
    BY <1>4, <2>1
<1>7. ASSUME dpc[d] \in Working, NEW ok \in BOOLEAN, NEW mine, NEW skewed,
             Finish(d, ok, mine, skewed),
             tmp' = IF j.type = "import" THEN tmp \ {j.id} ELSE tmp
      PROVE  ImportRetryable'
  <2>1. CASE j.type = "import"
    <3>1. j \in ClientJob
      BY <1>5, <1>7, <2>1 DEF ThreadsMatchJobs
    <3>2. Answers(d)
      BY <1>7, <3>1, FinishMoves
    <3> QED
      BY <1>4, <1>7, <2>1, <3>1, <3>2
  <2> QED
    BY <1>3, <1>7, <2>1
<1>8. CASE NoArchive(d)
  <2>1. Finish(d, FALSE, myEntries[d], TRUE) /\ dpc[d] \in Working
        /\ tmp' = IF j.type = "import" THEN tmp \ {j.id} ELSE tmp
    BY <1>8 DEF NoArchive, Finish, Working
  <2> QED
    BY <1>7, <2>1
<1>9. ASSUME NEW ok \in BOOLEAN, NEW s, ImportAnswer(d, ok, s)  PROVE ImportRetryable'
  <2>1. \/ \E mine, skewed : Finish(d, ok, mine, skewed)
        \/ tmp' = tmp
    BY <1>9 DEF ImportAnswer, fileVars
  <2>2. dpc[d] \in Working /\ tmp' = IF j.type = "import" THEN tmp \ {j.id} ELSE tmp
    BY <1>9 DEF ImportAnswer, Working, fileVars
  <2> QED
    BY <1>3, <1>7, <2>1, <2>2
<1>10. CASE Connect(d) \/ Listed(d) \/ Ping(d) \/ Pong(d) \/ WrongPong(d) \/ LeaveIdle(d)
            \/ Take(d) \/ SkipDispose(d) \/ OpenArchive(d) \/ SourceMissing(d) \/ LinkBreaks(d)
  BY <1>3, <1>10 DEF Connect, Listed, Ping, Pong, WrongPong, LeaveIdle, Take, SkipDispose,
     OpenArchive, SourceMissing, LinkBreaks, Fail, TmpAfterFailure, fileVars
<1>11. ASSUME NEW ok, NEW s, JudgeAnswer(d, ok) \/ DestroyAnswer(d, ok, s)
       PROVE  ImportRetryable'
  BY <1>3, <1>11 DEF JudgeAnswer, DestroyAnswer, fileVars
<1> QED
  BY <1>6, <1>8, <1>9, <1>10, <1>11 DEF DroneWorks, DroneLeaves

-----------------------------------------------------------------------------
(***************************************************************************)
(* Where jobs are, who waits for them, and what is known of them, together.*)
(***************************************************************************)
JInv == IInv /\ ClientJobAtBottom /\ Located /\ Waits /\ ResultsOwn /\ ImportRetryable

LEMMA JobsInit == Init => Waits /\ ResultsOwn /\ ImportRetryable
<1> SUFFICES ASSUME Init PROVE Waits /\ ResultsOwn /\ ImportRetryable
  OBVIOUS
<1>1. /\ waitFor = [c \in SyncClient |-> NoJob] /\ slot = [c \in SyncClient |-> NoJob]
      /\ results = [c \in ASyncClient |-> <<>>] /\ asked = [i \in Id |-> NoJob]
  BY DEF Init
<1>2. Waits
  BY <1>1 DEF Waits, WaitsRight, OpenIn
<1>3. ResultsOwn
  BY <1>1, ToSetEmpty DEF ResultsOwn
<1> QED
  BY <1>1, <1>2, <1>3 DEF ImportRetryable, Open

LEMMA JobsNext ==
    ASSUME JInv, [Next]_vars
    PROVE  Waits' /\ ResultsOwn' /\ ImportRetryable'
<1> USE DEF JInv, IInv, Located
<1>1. CASE UNCHANGED vars
  BY <1>1 DEF vars, clientVars, fileVars, historyVars, Waits, ResultsOwn, ImportRetryable, Open
<1>2. CASE Manager
  <2>1. UNCHANGED <<asked, answer, tmp>>
    BY <1>2 DEF Manager, MgrSleepForJob, MgrTake, MgrSleepForDrone, MgrDispatch, MgrWake,
       historyVars, fileVars
  <2> QED
    BY <1>2, <2>1, WaitsManager DEF ImportRetryable, Open
<1>3. ASSUME NEW c \in Client, ClientStep(c)
      PROVE  Waits' /\ ResultsOwn' /\ ImportRetryable'
  BY <1>3, WaitsClient, RetryClient
<1>4. ASSUME NEW d \in Drone, Connect(d) \/ DroneWorks(d) \/ DroneLeaves(d)
      PROVE  Waits' /\ ResultsOwn' /\ ImportRetryable'
  BY <1>4, DroneMoves, WaitsDrone, RetryDrone
<1> QED
  BY <1>1, <1>2, <1>3, <1>4 DEF Next

LEMMA JobsInvariant == Spec => []JInv
<1>1. Init => Located /\ Waits /\ ResultsOwn /\ ImportRetryable
  BY LocatedInit, JobsInit
<1>2. /\ IInv /\ ClientJobAtBottom
      /\ Located /\ Waits /\ ResultsOwn /\ ImportRetryable
      /\ [Next]_vars
      => Located' /\ Waits' /\ ResultsOwn' /\ ImportRetryable'
  BY LocatedNext, JobsNext DEF JInv
<1> QED
  BY <1>1, <1>2, Invariance, ClientJobsAtBottom, PTL DEF Spec, JInv

-----------------------------------------------------------------------------
(***************************************************************************)
(* In every behaviour a complete directory on a listed drone's disk is     *)
(* known to the drone's thread, across imports, judges that import,        *)
(* destroys and links that break (Drone::run_), unless the link is out of  *)
(* step: a dispose of the entry reaches every copy.                        *)
(***************************************************************************)
THEOREM CopiesKnown == Spec => []CopiesAreKnown
<1>1. Init => CopiesAreKnown
  BY DEF Init, CopiesAreKnown
<1>2. TypeOK /\ CopiesAreKnown /\ [Next]_vars => CopiesAreKnown'
  <2> SUFFICES ASSUME TypeOK, CopiesAreKnown, [Next]_vars PROVE CopiesAreKnown'
    OBVIOUS
  <2>1. CASE UNCHANGED <<disk, dpc, skew, myEntries>>
    BY <2>1 DEF CopiesAreKnown
  <2>2. CASE Manager
    BY <2>1, <2>2 DEF Manager, MgrSleepForJob, MgrTake, MgrSleepForDrone, MgrDispatch,
       MgrWake, droneVars
  <2>3. ASSUME NEW c \in Client, ClientStep(c)  PROVE CopiesAreKnown'
    BY <2>1, <2>3, ClientMoves DEF Submit, Broadcast, SyncReply, PullResults, droneVars
  <2> QED
    BY <2>1, <2>2, <2>3, KnownDrone DEF Next, vars, droneVars
<1> QED
  BY <1>1, <1>2, TypeCorrect, PTL DEF Spec

(***************************************************************************)
(* In every behaviour a job a client was promised an answer to is in one   *)
(* place at most until jobDone and in none afterwards, across dispatch,    *)
(* requeueing and retries (JobManager::run, Drone::run): no job is         *)
(* answered twice.                                                         *)
(***************************************************************************)
THEOREM JobsOnce == Spec => []OneCopy
<1>1. JInv => OneCopy
  BY CopiesCounted DEF JInv, IInv
<1> QED
  BY <1>1, JobsInvariant, PTL

(***************************************************************************)
(* In every behaviour the job SyncClient::jobHook finds in its slot is the *)
(* one its client waits for, from jobDone until the reply.                 *)
(***************************************************************************)
THEOREM SlotsAreOwn == Spec => []SlotIsOwnAnswer
<1>1. JInv => SlotIsOwnAnswer
  BY DEF JInv, Waits, WaitsRight, OpenIn, SlotIsOwnAnswer, Open
<1> QED
  BY <1>1, JobsInvariant, PTL

(***************************************************************************)
(* In every behaviour the temporary file of an import is there until the   *)
(* import is answered, whichever drones have tried it (Drone::run_ removes *)
(* it on its way to jobDone only).                                         *)
(***************************************************************************)
THEOREM ImportsRetryable == Spec => []ImportRetryable
<1>1. JInv => ImportRetryable
  BY DEF JInv
<1> QED
  BY <1>1, JobsInvariant, PTL

-----------------------------------------------------------------------------
(***************************************************************************)
(* A job leaves all its places without an answer only with a thread.       *)
(***************************************************************************)
PlacesOnWay == \A i \in Id : Places(i) # {} <=> asked[i] \in OnTheirWay

LEMMA PlacesOnWayAlways == Spec => []PlacesOnWay
<1>1. JInv => PlacesOnWay
  BY PlacesAre DEF JInv, IInv, PlacesOnWay
<1> QED
  BY <1>1, JobsInvariant, PTL

(* What a step does to the jobs on their way. *)
LEMMA WayNext ==
    ASSUME JInv, [Next]_vars
    PROVE  \/ UNCHANGED <<asked, answer, OnTheirWay, slot, results>>
           \/ \E c \in Client, type \in {"import", "judge"}, e \in Entry :
                  ReadsCommand(c) /\ Submit(c, type, e)
           \/ \E c \in SyncClient : SyncReply(c) /\ UNCHANGED OnTheirWay
           \/ \E c \in ASyncClient : PullResults(c) /\ UNCHANGED OnTheirWay
           \/ \E d \in Drone : Moves(d) /\ (Answers(d) \/ Loses(d))
<1> USE DEF JInv, IInv, Located
<1>1. CASE UNCHANGED vars
  BY <1>1 DEF vars, mgrVars, droneVars, clientVars, historyVars, OnTheirWay, Carried,
     ClientJobsOf
<1>2. CASE Manager
  <2>1. UNCHANGED <<asked, answer, slot, results>>
    BY <1>2 DEF Manager, MgrSleepForJob, MgrTake, MgrSleepForDrone, MgrDispatch, MgrWake,
       historyVars, clientVars
  <2> QED
    BY <1>2, <2>1, PlaceManager
<1>3. ASSUME NEW c \in Client, ClientStep(c),
             ~ \E type \in {"import", "judge"}, e \in Entry :
                   ReadsCommand(c) /\ Submit(c, type, e)
      PROVE  /\ OnTheirWay' = OnTheirWay
             /\ \/ UNCHANGED <<asked, answer, slot, results>>
                \/ c \in SyncClient /\ SyncReply(c)
                \/ c \in ASyncClient /\ PullResults(c)
  <2>1. OnTheirWay' = OnTheirWay
    BY <1>3, PlaceClient
  <2>2. ASSUME NEW type, NEW e, Broadcast(type, e)
        PROVE  UNCHANGED <<asked, answer, slot, results>>
    BY <2>2 DEF Broadcast, clientVars, historyVars
  <2> QED
    BY <1>3, <2>1, <2>2, ClientMoves
<1>4. ASSUME NEW d \in Drone, Connect(d) \/ DroneWorks(d) \/ DroneLeaves(d)
      PROVE  /\ Moves(d)
             /\ \/ UNCHANGED <<asked, answer, OnTheirWay, slot, results>>
                \/ Answers(d) \/ Loses(d)
  <2>1. Moves(d)
    BY <1>4, DroneMoves
  <2> QED
    BY <2>1, PlaceDrone DEF Moves, Apart, Keeps, Requeues
<1> QED
  BY <1>1, <1>2, <1>3, <1>4 DEF Next

(***************************************************************************)
(* A step that drops a job of a client without an answer is one in which a *)
(* registered drone's thread ends (the destructor of Drone): neither the   *)
(* manager nor a client, a broadcast or a retry loses one.                 *)
(***************************************************************************)
THEOREM LostWithDrones == Spec => LostOnlyWithDrone
<1>1. ASSUME JInv, PlacesOnWay, PlacesOnWay', [Next]_vars, NEW i \in Id,
             Places(i) # {}, Places(i)' = {}, answer'[i] = "none"
      PROVE  drones' # drones /\ drones' \subseteq drones
  <2> DEFINE a == asked[i]
  <2>1. a \in OnTheirWay /\ asked'[i] \notin OnTheirWay'
    BY <1>1 DEF PlacesOnWay
  <2>2. ASSUME NEW c \in Client, NEW type \in {"import", "judge"}, NEW e \in Entry,
               ReadsCommand(c), Submit(c, type, e)
        PROVE  FALSE
    <3> USE DEF JInv, IInv, Located
    <3>1. OnTheirWay \subseteq OnTheirWay'
      BY <1>1, <2>2, PlaceSubmit
    <3>2. asked[i] # NoJob
      BY <2>1, ClientJobs DEF OnTheirWay
    <3>3. idc # i
      BY <1>1, <2>2, <3>2, Fresh
    <3>4. asked'[i] = asked[i]
      BY <1>1, <2>2, <3>3 DEF Submit, TypeOK
    <3> QED
      BY <2>1, <3>1, <3>4
  <2>3. ASSUME NEW d \in Drone, Moves(d), Answers(d)  PROVE FALSE
    <3> USE DEF JInv, IInv, Located
    <3>1. asked' = asked /\ OnTheirWay' = OnTheirWay \ {cur[d]} /\ cur[d] \in ClientJob
      BY <1>1, <2>3, PlaceDrone DEF Moves, Apart, Answers
    <3>2. a = cur[d]
      BY <2>1, <3>1
    <3>3. a.id = i
      BY <1>1, <2>1, ClientJobs DEF Given, OnTheirWay
    <3>4. answer'[cur[d].id] # "none"
      BY <1>1, <2>3, <3>1, DoneMoves DEF Answers
    <3> QED
      BY <1>1, <3>2, <3>3, <3>4
  <2>4. ASSUME NEW d \in Drone, Loses(d)
        PROVE  drones' # drones /\ drones' \subseteq drones
    BY <2>4 DEF Loses
  <2>5. \/ UNCHANGED <<asked, OnTheirWay>>
        \/ \E c \in Client, type \in {"import", "judge"}, e \in Entry :
              ReadsCommand(c) /\ Submit(c, type, e)
        \/ \E d \in Drone : Moves(d) /\ (Answers(d) \/ Loses(d))
    BY <1>1, WayNext DEF SyncReply, PullResults, historyVars
  <2> QED
    BY <2>1, <2>2, <2>3, <2>4, <2>5
<1>2. JInv /\ PlacesOnWay /\ PlacesOnWay' /\ [Next]_vars
      => [\A i \in Id : Places(i) # {} /\ Places(i)' = {} /\ answer'[i] = "none"
                        => drones' # drones /\ drones' \subseteq drones]_vars
  BY <1>1
<1> QED
  BY <1>2, JobsInvariant, PlacesOnWayAlways, PTL DEF Spec, LostOnlyWithDrone

-----------------------------------------------------------------------------
(***************************************************************************)
(* The status of a job, from what was asked and answered, what is on its   *)
(* way and what its client has not been handed yet.                        *)
(***************************************************************************)
Owed == {x \in ClientJob : \/ \E c \in SyncClient : slot[c] = x
                           \/ \E c \in ASyncClient : x \in ToSet(results[c])}

Stage(a, w, way, owed) ==
    IF a = NoJob THEN "free"
    ELSE IF w = "none" THEN IF a \in way THEN "pending" ELSE "lost"
    ELSE IF a \in owed THEN "answered" ELSE "delivered"

StageAt(i) == Stage(asked[i], answer[i], OnTheirWay, Owed)

Staged == Status = [i \in Id |-> StageAt(i)]

(* Every job that waits for its client is the one that was asked for. *)
LEMMA OwedAsked ==
    ASSUME JInv
    PROVE  /\ \A c \in SyncClient : slot[c] # NoJob =>
                 /\ slot[c] = waitFor[c] /\ slot[c].client = c /\ slot[c] \in ClientJob
                 /\ asked[slot[c].id] = slot[c] /\ answer[slot[c].id] # "none"
           /\ \A c \in ASyncClient : \A x \in ToSet(results[c]) :
                 /\ x.client = c /\ x \in ClientJob
                 /\ asked[x.id] = x /\ answer[x.id] # "none"
<1> USE DEF JInv, IInv, Located
<1>1. ASSUME NEW c \in SyncClient, slot[c] # NoJob
      PROVE  /\ slot[c] = waitFor[c] /\ slot[c].client = c /\ slot[c] \in ClientJob
             /\ asked[slot[c].id] = slot[c] /\ answer[slot[c].id] # "none"
  <2>1. /\ waitFor[c] # NoJob /\ slot[c] = waitFor[c]
        /\ waitFor[c].client = c /\ asked[waitFor[c].id] = waitFor[c]
        /\ ~OpenIn(asked, answer, waitFor[c].id)
    BY <1>1 DEF Waits, WaitsRight
  <2>2. waitFor[c].id \in Id
    BY <1>1, <2>1 DEF TypeOK, Job
  <2> QED
    BY <2>1, <2>2 DEF OpenIn, Given
<1>2. ASSUME NEW c \in ASyncClient, NEW x \in ToSet(results[c])
      PROVE  /\ x.client = c /\ x \in ClientJob
             /\ asked[x.id] = x /\ answer[x.id] # "none"
  <2>1. x \in Job
    BY <1>2, ToSetMember DEF TypeOK
  <2>2. x.client = c /\ asked[x.id] = x /\ answer[x.id] # "none" /\ x.id \in Id
    BY <1>2, <2>1 DEF ResultsOwn, Job
  <2>3. x # NoJob
    BY <2>1, NoJobAssumption
  <2> QED
    BY <2>2, <2>3 DEF Given
<1> QED
  BY <1>1, <1>2

LEMMA StatusStaged == ASSUME JInv, PlacesOnWay PROVE Staged
<1> USE DEF JInv, IInv, Located
<1>1. ASSUME NEW i \in Id, asked[i] # NoJob
      PROVE  Undelivered(i) <=> asked[i] \in Owed
  <2>1. asked[i] \in ClientJob /\ asked[i].id = i
    BY <1>1 DEF Given
  <2>2. ASSUME NEW c \in SyncClient
        PROVE  IsJob(slot[c], i) <=> slot[c] = asked[i]
    BY <2>1, <2>2, OwedAsked, ClientJobs DEF IsJob, IsClientJob
  <2>3. ASSUME NEW c \in ASyncClient
        PROVE  (\E k \in DOMAIN results[c] : IsJob(results[c][k], i))
               <=> asked[i] \in ToSet(results[c])
    <3>1. results[c] \in Seq(Job)
      BY DEF TypeOK
    <3>2. \A x \in ToSet(results[c]) : IsJob(x, i) <=> x = asked[i]
      BY <2>1, OwedAsked, ClientJobs DEF IsJob, IsClientJob
    <3> QED
      BY <3>1, <3>2, ToSetMember
  <2> QED
    BY <2>1, <2>2, <2>3 DEF Undelivered, Owed
<1>2. ASSUME NEW i \in Id
      PROVE  (CASE asked[i] = NoJob -> "free"
                [] Lost(i) -> "lost"
                [] Open(i) /\ ~Lost(i) -> "pending"
                [] ~Open(i) /\ asked[i] # NoJob /\ Undelivered(i) -> "answered"
                [] OTHER -> "delivered") = StageAt(i)
  <2>1. Lost(i) <=> asked[i] # NoJob /\ answer[i] = "none" /\ asked[i] \notin OnTheirWay
    BY DEF Lost, Open, PlacesOnWay
  <2>2. Open(i) <=> asked[i] # NoJob /\ answer[i] = "none"
    BY DEF Open
  <2> QED
    BY <1>1, <2>1, <2>2 DEF StageAt, Stage
<1> QED
  BY <1>2 DEF Status, Staged

LEMMA StagedAlways == Spec => []Staged
<1>1. JInv /\ PlacesOnWay => Staged
  BY StatusStaged
<1> QED
  BY <1>1, JobsInvariant, PlacesOnWayAlways, PTL

(* One job moves, the others stay. *)
LEMMA OneMoves ==
    ASSUME Staged, Staged', NEW i \in Id, NEW to, StageAt(i)' = to,
           \A k \in Id \ {i} : StageAt(k)' = StageAt(k)
    PROVE  Status' = [Status EXCEPT ![i] = to] /\ Status[i] = StageAt(i)
<1>1. Status = [k \in Id |-> StageAt(k)] /\ Status' = [k \in Id |-> StageAt(k)']
  BY DEF Staged
<1> QED
  BY <1>1

LEMMA AcceptStep ==
    ASSUME JInv, Staged, Staged', NEW c \in Client, NEW type \in {"import", "judge"},
           NEW e \in Entry, ReadsCommand(c), Submit(c, type, e)
    PROVE  Service!Next
<1> USE DEF JInv, IInv, Located
<1> DEFINE j == [type |-> type, id |-> idc, client |-> c, entry |-> e]
<1>1. /\ j \in ClientJob /\ j # NoJob /\ j.id = idc
      /\ idc \in Id /\ asked[idc] = NoJob /\ answer[idc] = "none"
  BY SubmitMakes, Fresh, ClientJobs
<1>2. /\ asked' = [asked EXCEPT ![idc] = j] /\ UNCHANGED <<answer, slot, results>>
      /\ OnTheirWay' = OnTheirWay \cup {j}
  BY PlaceSubmit DEF Submit
<1> HIDE DEF j
<1>3. Owed' = Owed
  BY <1>2 DEF Owed
<1>4. PICK i \in Id : i = idc
  BY <1>1
<1>5. asked'[i] = j /\ \A k \in Id \ {i} : asked'[k] = asked[k]
  BY <1>2, <1>4 DEF TypeOK
<1>6. StageAt(i) = "free" /\ StageAt(i)' = "pending"
  BY <1>1, <1>2, <1>4, <1>5 DEF StageAt, Stage
<1>7. ASSUME NEW k \in Id \ {i}  PROVE StageAt(k)' = StageAt(k)
  <2>1. asked[k] # NoJob => asked[k] # j
    BY <1>1, <1>4 DEF Given
  <2> QED
    BY <1>2, <1>3, <1>5, <2>1 DEF StageAt, Stage
<1>8. Service!Accept(i)
  BY <1>6, <1>7, OneMoves DEF Service!Accept, Service!Move
<1> QED
  BY <1>8 DEF Service!Next

(* What clients are handed. *)
LEMMA DeliverStep ==
    ASSUME JInv, Staged, Staged', NEW S \in SUBSET Owed, Owed' = Owed \ S,
           UNCHANGED <<asked, answer, OnTheirWay>>,
           \A x \in S : asked[x.id] = x /\ answer[x.id] # "none"
    PROVE  Service!Next
<1> USE DEF JInv, IInv, Located
<1> DEFINE I == {i \in Id : asked[i] \in S}
<1>1. ASSUME NEW i \in I  PROVE Status[i] = "answered" /\ StageAt(i)' = "delivered"
  <2>1. i \in Id /\ asked[i] \in S /\ asked[i] \in ClientJob /\ asked[i] # NoJob
    BY <1>1, ClientJobs DEF Owed
  <2>2. asked[i].id = i
    BY <2>1 DEF Given
  <2>3. answer[i] # "none"
    BY <2>1, <2>2
  <2> QED
    BY <2>1, <2>3 DEF Staged, StageAt, Stage
<1>2. ASSUME NEW i \in Id \ I  PROVE StageAt(i)' = Status[i]
  BY <1>2 DEF Staged, StageAt, Stage
<1>3. Service!Deliver(I)
  <2>1. Status' = [i \in Id |-> IF i \in I THEN "delivered" ELSE Status[i]]
    <3>1. Status' = [i \in Id |-> StageAt(i)']
      BY DEF Staged
    <3> QED
      BY <1>1, <1>2, <3>1
  <2> QED
    BY <1>1, <2>1 DEF Service!Deliver
<1> QED
  BY <1>3 DEF Service!Next

LEMMA ReplyStep ==
    ASSUME JInv, Staged, Staged', NEW c \in SyncClient, SyncReply(c), UNCHANGED OnTheirWay
    PROVE  Service!Next
<1>1. /\ slot[c] # NoJob /\ slot' = [slot EXCEPT ![c] = NoJob]
      /\ UNCHANGED <<asked, answer, results>> /\ slot \in [SyncClient -> Job \cup {NoJob}]
  BY DEF SyncReply, historyVars, JInv, IInv, TypeOK
<1>2. /\ slot[c] \in Owed /\ asked[slot[c].id] = slot[c] /\ answer[slot[c].id] # "none"
  BY <1>1, OwedAsked DEF Owed
<1> DEFINE S == {slot[c]}
<1>3. Owed' = Owed \ {slot[c]}
  <2>1. \A x \in SyncClient \ {c} : slot[x] # slot[c]
    BY <1>1, OwedAsked
  <2>2. \A x \in ASyncClient : slot[c] \notin ToSet(results[x])
    BY <1>1, OwedAsked, ClientAssumption
  <2>3. \A x \in SyncClient : slot'[x] = IF x = c THEN NoJob ELSE slot[x]
    BY <1>1
  <2>4. NoJob \notin ClientJob
    BY ClientJobs
  <2> QED
    BY <1>1, <2>1, <2>2, <2>3, <2>4 DEF Owed
<1>4. S \in SUBSET Owed /\ Owed' = Owed \ S
  BY <1>2, <1>3
<1>5. \A x \in S : asked[x.id] = x /\ answer[x.id] # "none"
  BY <1>2
<1> HIDE DEF S
<1> QED
  BY <1>1, <1>4, <1>5, DeliverStep

LEMMA PullStep ==
    ASSUME JInv, Staged, Staged', NEW c \in ASyncClient, PullResults(c), UNCHANGED OnTheirWay
    PROVE  Service!Next
<1> DEFINE S == ToSet(results[c])
<1>1. /\ results' = [results EXCEPT ![c] = <<>>] /\ UNCHANGED <<asked, answer, slot>>
      /\ results \in [ASyncClient -> Seq(Job)]
  BY DEF PullResults, historyVars, JInv, IInv, TypeOK
<1>2. S \subseteq Owed /\ \A x \in S : asked[x.id] = x /\ answer[x.id] # "none"
  BY OwedAsked DEF Owed
<1>3. Owed' = Owed \ S
  <2>1. \A y \in ASyncClient \ {c} : \A x \in ToSet(results[y]) : x \notin S
    BY OwedAsked
  <2>2. \A y \in SyncClient : slot[y] \notin S
    BY OwedAsked, ClientAssumption, ClientJobs
  <2>3. \A y \in ASyncClient : ToSet(results'[y]) = IF y = c THEN {} ELSE ToSet(results[y])
    BY <1>1, ToSetEmpty
  <2> QED
    BY <1>1, <2>1, <2>2, <2>3 DEF Owed
<1> QED
  BY <1>1, <1>2, <1>3, DeliverStep

LEMMA AnswerStep ==
    ASSUME JInv, Staged, Staged', NEW d \in Drone, Moves(d), Answers(d)
    PROVE  Service!Next
<1> USE DEF JInv, IInv, Located
<1> DEFINE j == cur[d]
<1>1. /\ asked' = asked /\ OnTheirWay' = OnTheirWay \ {j} /\ j \in OnTheirWay
      /\ j \in ClientJob
  BY PlaceDrone DEF Moves, Apart, Answers
<1>2. PICK ok \in BOOLEAN : JobDone(j, ok)
  BY DEF Answers
<1> HIDE DEF j
<1>3. j.id \in Id /\ j.client \in Client /\ j # NoJob /\ asked[j.id] = j /\ answer[j.id] = "none"
  BY <1>1, ClientJobs DEF AskedFor
<1>4. /\ answer'[j.id] # "none"
      /\ \A i \in Id \ {j.id} : answer'[i] = answer[i]
      /\ \A c \in SyncClient : slot'[c] = IF c = j.client THEN j ELSE slot[c]
      /\ \A c \in ASyncClient :
            ToSet(results'[c]) = IF c = j.client THEN ToSet(results[c]) \cup {j}
                                                 ELSE ToSet(results[c])
  BY <1>1, <1>2, DoneMoves
<1>5. j.client \in SyncClient => slot[j.client] = NoJob
  <2>1. ASSUME j.client \in SyncClient, slot[j.client] # NoJob  PROVE FALSE
    <3>1. /\ waitFor[j.client] # NoJob /\ slot[j.client] = waitFor[j.client]
          /\ \A i \in Id : OpenIn(asked, answer, i) /\ asked[i].client = j.client
                           => i = waitFor[j.client].id
      BY <2>1, OwedAsked DEF Waits, WaitsRight
    <3>2. j.id = slot[j.client].id
      BY <1>3, <3>1 DEF OpenIn
    <3> QED
      BY <1>3, <2>1, <3>2, OwedAsked
  <2> QED
    BY <2>1
<1>6. Owed' = Owed \cup {j}
  <2>1. ASSUME NEW x \in ClientJob, x # j
        PROVE  (\E c \in SyncClient : slot'[c] = x) <=> (\E c \in SyncClient : slot[c] = x)
    <3>1. x # NoJob
      BY <2>1, ClientJobs
    <3> QED
      BY <1>4, <1>5, <2>1, <3>1
  <2>2. ASSUME NEW x \in ClientJob, x # j
        PROVE  (\E c \in ASyncClient : x \in ToSet(results'[c]))
               <=> (\E c \in ASyncClient : x \in ToSet(results[c]))
    <3>1. ASSUME NEW c \in ASyncClient
          PROVE  x \in ToSet(results'[c]) <=> x \in ToSet(results[c])
      <4>1. ToSet(results'[c]) = ToSet(results[c]) \cup {j}
            \/ ToSet(results'[c]) = ToSet(results[c])
        BY <1>4
      <4> QED
        BY <2>2, <4>1
    <3> QED
      BY <3>1
  <2>3. \/ \E c \in SyncClient : slot'[c] = j
        \/ \E c \in ASyncClient : j \in ToSet(results'[c])
    BY <1>3, <1>4 DEF Client
  <2> QED
    BY <1>1, <2>1, <2>2, <2>3 DEF Owed
<1>7. PICK i \in Id : i = j.id
  BY <1>3
<1>8. StageAt(i) = "pending" /\ StageAt(i)' = "answered"
  BY <1>1, <1>3, <1>4, <1>6, <1>7 DEF StageAt, Stage
<1>9. ASSUME NEW k \in Id \ {i}  PROVE StageAt(k)' = StageAt(k)
  <2>1. asked[k] # j
    BY <1>3, <1>7 DEF Given
  <2> QED
    BY <1>1, <1>4, <1>6, <1>7, <2>1 DEF StageAt, Stage
<1>10. Service!Answer(i)
  BY <1>8, <1>9, OneMoves DEF Service!Answer, Service!Move
<1> QED
  BY <1>10 DEF Service!Next

LEMMA LoseStep ==
    ASSUME JInv, Staged, Staged', NEW d \in Drone, Moves(d), Loses(d)
    PROVE  [Service!Next]_Status
<1> USE DEF JInv, IInv, Located
<1>1. /\ UNCHANGED <<asked, answer, slot, results>>
      /\ OnTheirWay' = OnTheirWay \ Carried(d)
  BY PlaceDrone DEF Moves, Apart, Loses
<1>2. Owed' = Owed
  BY <1>1 DEF Owed
<1>3. CASE Carried(d) = {}
  <2>1. \A i \in Id : StageAt(i)' = StageAt(i)
    BY <1>1, <1>2, <1>3 DEF StageAt
  <2> QED
    BY <2>1 DEF Staged
<1>4. ASSUME NEW x \in Carried(d)  PROVE Service!Next
  <2>1. Carried(d) = {x}
    BY <1>4, CarriesOne
  <2>2. x \in OnTheirWay /\ x \in ClientJob
    BY <1>4 DEF OnTheirWay, Carried, ClientJobsOf
  <2>3. x.id \in Id /\ x # NoJob /\ asked[x.id] = x /\ answer[x.id] = "none"
    BY <2>2, ClientJobs DEF AskedFor
  <2>4. StageAt(x.id) = "pending" /\ StageAt(x.id)' = "lost"
    BY <1>1, <2>1, <2>2, <2>3 DEF StageAt, Stage
  <2>5. ASSUME NEW k \in Id \ {x.id}  PROVE StageAt(k)' = StageAt(k)
    <3>1. asked[k] # x
      BY <2>3 DEF Given
    <3> QED
      BY <1>1, <1>2, <2>1, <3>1 DEF StageAt, Stage
  <2>6. Service!Lose(x.id)
    BY <2>3, <2>4, <2>5, OneMoves DEF Service!Lose, Service!Move
  <2> QED
    BY <2>3, <2>6 DEF Service!Next
<1> QED
  BY <1>3, <1>4

(***************************************************************************)
(* Every behaviour of the overlord is one of the job service: each job is  *)
(* accepted once, then answered once or lost once, and its answer handed   *)
(* to its client once, whatever happens to drones, links and queues in     *)
(* between (JobManager, Drone::run, SyncClient and ASyncClient).           *)
(***************************************************************************)
THEOREM ImplementsService == Spec => ServiceSpec
<1>1. Init /\ Staged => Service!Init
  <2> SUFFICES ASSUME Init, Staged PROVE Service!Init
    OBVIOUS
  <2>1. \A i \in Id : asked[i] = NoJob
    BY DEF Init
  <2> QED
    BY <2>1 DEF Staged, StageAt, Stage, Service!Init
<1>2. JInv /\ Staged /\ Staged' /\ [Next]_vars => [Service!Next]_Status
  <2> SUFFICES ASSUME JInv, Staged, Staged', [Next]_vars PROVE [Service!Next]_Status
    OBVIOUS
  <2>1. CASE UNCHANGED <<asked, answer, OnTheirWay, slot, results>>
    <3>1. Owed' = Owed
      BY <2>1 DEF Owed
    <3>2. \A i \in Id : StageAt(i)' = StageAt(i)
      BY <2>1, <3>1 DEF StageAt
    <3> QED
      BY <3>2 DEF Staged
  <2> QED
    BY <2>1, WayNext, AcceptStep, ReplyStep, PullStep, AnswerStep, LoseStep
<1> QED
  BY <1>1, <1>2, JobsInvariant, StagedAlways, PTL DEF Spec, ServiceSpec, Service!Spec

=============================================================================
