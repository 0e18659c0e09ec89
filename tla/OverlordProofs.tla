--------------------------- MODULE OverlordProofs ---------------------------
(***************************************************************************)
(* Theorems about Overlord, for any set of drones, clients and entries and *)
(* any bounds.                                                             *)
(***************************************************************************)
EXTENDS Overlord, TLAPS, SequenceTheorems

-----------------------------------------------------------------------------
(***************************************************************************)
(* The sequence operators the model uses.                                  *)
(***************************************************************************)

(* SubSeq with its bounds inside the sequence. *)
LEMMA SubSeqInside ==
    ASSUME NEW S, NEW s \in Seq(S), NEW m \in Nat \ {0}, NEW n \in 0..Len(s),
           m <= n + 1
    PROVE  /\ SubSeq(s, m, n) \in Seq(S)
           /\ Len(SubSeq(s, m, n)) = n - m + 1
           /\ \A i \in 1..(n - m + 1) : SubSeq(s, m, n)[i] = s[m + i - 1]
  OBVIOUS

(* Front and Last of a nonempty sequence. *)
LEMMA FrontLast ==
    ASSUME NEW S, NEW s \in Seq(S), s # <<>>
    PROVE  /\ Len(s) \in Nat \ {0}
           /\ Last(s) \in S
           /\ Front(s) \in Seq(S)
           /\ Len(Front(s)) = Len(s) - 1
           /\ \A k \in 1..(Len(s) - 1) : Front(s)[k] = s[k]
<1>1. Len(s) \in Nat \ {0} /\ \A k \in 1..Len(s) : s[k] \in S
  BY EmptySeq, ElementOfSeq
<1>2. Last(s) \in S
  BY <1>1 DEF Last
<1> DEFINE n == Len(s) - 1
<1>3. n \in 0..Len(s) /\ 1 \in Nat \ {0} /\ 1 <= n + 1
  BY <1>1
<1> HIDE DEF n
<1>4. /\ SubSeq(s, 1, n) \in Seq(S)
      /\ Len(SubSeq(s, 1, n)) = n - 1 + 1
      /\ \A k \in 1..(n - 1 + 1) : SubSeq(s, 1, n)[k] = s[1 + k - 1]
  BY <1>3, SubSeqInside
<1>5. Len(SubSeq(s, 1, n)) = n /\ \A k \in 1..n : SubSeq(s, 1, n)[k] = s[k]
  BY <1>1, <1>3, <1>4
<1> QED
  BY <1>1, <1>2, <1>4, <1>5 DEF Front, n

(* RemoveFirst takes e, and nothing else, out of a sequence without          *)
(* duplicates, which stays one.                                              *)
LEMMA RemoveFirstUnique ==
    ASSUME NEW S, NEW s \in Seq(S), IsInjective(s), NEW e
    PROVE  /\ RemoveFirst(s, e) \in Seq(S)
           /\ IsInjective(RemoveFirst(s, e))
           /\ ToSet(RemoveFirst(s, e)) = ToSet(s) \ {e}
<1>1. Len(s) \in Nat /\ DOMAIN s = 1..Len(s) /\ \A k \in 1..Len(s) : s[k] \in S
  BY LenProperties, ElementOfSeq
<1>2. CASE ~ \E i \in 1..Len(s) : s[i] = e
  <2>1. RemoveFirst(s, e) = s
    BY <1>2 DEF RemoveFirst
  <2> QED
    BY <2>1, <1>1, <1>2 DEF ToSet
<1>3. CASE \E i \in 1..Len(s) : s[i] = e
  <2>1. PICK k \in 1..Len(s) : s[k] = e
    BY <1>3
  <2> DEFINE a == SubSeq(s, 1, k - 1)
             b == SubSeq(s, k + 1, Len(s))
             t == a \o b
  <2>2. {i \in 1..Len(s) : s[i] = e} = {k}
    BY <2>1, <1>1 DEF IsInjective
  <2>3. Min({k}) = k
    BY <1>1, <2>1 DEF Min
  <2>4. RemoveFirst(s, e) = t
    BY <1>3, <2>2, <2>3 DEF RemoveFirst, RemoveAt, SelectInSeq
  <2>5. a \in Seq(S) /\ Len(a) = k - 1 /\ \A i \in 1..(k - 1) : a[i] = s[i]
    <3>1. k - 1 \in 0..Len(s)
      BY <1>1
    <3>2. a \in Seq(S) /\ Len(a) = k - 1 - 1 + 1
          /\ \A i \in 1..(k - 1 - 1 + 1) : a[i] = s[1 + i - 1]
      BY <1>1, <3>1, SubSeqInside
    <3> QED
      BY <3>2
  <2>6. /\ b \in Seq(S) /\ Len(b) = Len(s) - k
        /\ \A i \in 1..(Len(s) - k) : b[i] = s[k + i]
    <3>1. k + 1 \in Nat \ {0} /\ Len(s) \in 0..Len(s) /\ k + 1 <= Len(s) + 1
      BY <1>1
    <3>2. /\ b \in Seq(S)
          /\ Len(b) = Len(s) - (k + 1) + 1
          /\ \A i \in 1..(Len(s) - (k + 1) + 1) : b[i] = s[k + 1 + i - 1]
      BY <1>1, <3>1, SubSeqInside
    <3>3. Len(s) - (k + 1) + 1 = Len(s) - k /\ \A i \in Int : k + 1 + i - 1 = k + i
      BY <1>1
    <3> HIDE DEF b
    <3> QED
      BY <1>1, <3>2, <3>3
  <2> HIDE DEF a, b
  <2>7. /\ t \in Seq(S) /\ Len(t) = Len(s) - 1
        /\ \A i \in 1..(Len(s) - 1) : t[i] = IF i < k THEN s[i] ELSE s[i + 1]
    <3>1. /\ t \in Seq(S)
          /\ Len(t) = Len(a) + Len(b)
          /\ \A i \in 1..(Len(a) + Len(b)) :
                t[i] = IF i <= Len(a) THEN a[i] ELSE b[i - Len(a)]
      BY <2>5, <2>6, ConcatProperties
    <3> HIDE DEF t
    <3>2. Len(t) = Len(s) - 1
      BY <3>1, <2>5, <2>6, <1>1
    <3>3. ASSUME NEW i \in 1..(Len(s) - 1)
          PROVE  t[i] = IF i < k THEN s[i] ELSE s[i + 1]
      <4>1. CASE i < k
        <5>1. i \in 1..(k - 1) /\ i \in 1..(Len(a) + Len(b)) /\ i <= Len(a)
          BY <4>1, <2>5, <2>6, <1>1
        <5>2. t[i] = a[i]
          BY <3>1, <5>1
        <5> QED
          BY <4>1, <5>1, <5>2, <2>5
      <4>2. CASE i >= k
        <5>1. i - (k - 1) \in 1..(Len(s) - k) /\ k + (i - (k - 1)) = i + 1
          BY <4>2, <1>1
        <5>2. i \in 1..(Len(a) + Len(b)) /\ ~ (i <= Len(a)) /\ Len(a) = k - 1
          BY <4>2, <2>5, <2>6, <1>1
        <5>3. t[i] = b[i - (k - 1)]
          BY <3>1, <5>2
        <5>4. t[i] = s[k + (i - (k - 1))]
          BY <5>1, <5>3, <2>6
        <5> QED
          BY <4>2, <5>1, <5>4
      <4>3. i < k \/ i >= k
        BY <1>1
      <4> QED
        BY <4>1, <4>2, <4>3
    <3> QED
      BY <3>1, <3>2, <3>3
  <2> HIDE DEF t
  <2>8. DOMAIN t = 1..(Len(s) - 1)
    BY <2>7, LenProperties
  <2>9. IsInjective(t)
    BY <1>1, <2>7, <2>8 DEF IsInjective
  <2>10. ToSet(t) = ToSet(s) \ {e}
    <3>1. ToSet(t) \subseteq ToSet(s) \ {e}
      BY <1>1, <2>1, <2>7, <2>8 DEF ToSet, IsInjective
    <3>2. ASSUME NEW x \in ToSet(s) \ {e}  PROVE x \in ToSet(t)
      <4>1. PICK i \in 1..Len(s) : s[i] = x /\ i # k
        BY <3>2, <1>1, <2>1 DEF ToSet
      <4>2. CASE i < k
        BY <4>1, <4>2, <1>1, <2>7, <2>8 DEF ToSet
      <4>3. CASE i > k
        <5>1. i - 1 \in 1..(Len(s) - 1) /\ t[i - 1] = x
          BY <4>1, <4>3, <1>1, <2>7
        <5> QED
          BY <5>1, <2>8 DEF ToSet
      <4> QED
        BY <4>1, <4>2, <4>3, <1>1
    <3> QED
      BY <3>1, <3>2
  <2> QED
    BY <2>4, <2>7, <2>9, <2>10
<1> QED
  BY <1>2, <1>3

(* Append puts a new element, and Tail takes the first one, out of a sequence *)
(* without duplicates, which stays one.                                       *)
LEMMA AppendUnique ==
    ASSUME NEW S, NEW s \in Seq(S), IsInjective(s), NEW e \in S, e \notin ToSet(s)
    PROVE  /\ Append(s, e) \in Seq(S)
           /\ IsInjective(Append(s, e))
           /\ ToSet(Append(s, e)) = ToSet(s) \cup {e}
<1> DEFINE t == Append(s, e)
<1>1. DOMAIN s = 1..Len(s) /\ Len(s) \in Nat
  BY LenProperties
<1>2. /\ t \in Seq(S) /\ Len(t) = Len(s) + 1
      /\ \A k \in 1..Len(s) : t[k] = s[k]
      /\ t[Len(s) + 1] = e
  BY AppendProperties
<1>3. DOMAIN t = 1..(Len(s) + 1)
  BY <1>2, LenProperties
<1> HIDE DEF t
<1>4. IsInjective(t)
  <2>1. \A k \in 1..Len(s) : t[k] # e
    BY <1>1, <1>2 DEF ToSet
  <2>2. SUFFICES ASSUME NEW a \in 1..(Len(s) + 1), NEW b \in 1..(Len(s) + 1), t[a] = t[b]
                 PROVE  a = b
    BY <1>3 DEF IsInjective
  <2>3. CASE a \in 1..Len(s) /\ b \in 1..Len(s)
    <3>1. s[a] = s[b]
      BY <1>2, <2>2, <2>3
    <3> QED
      BY <1>1, <2>3, <3>1 DEF IsInjective
  <2>4. CASE a = Len(s) + 1 \/ b = Len(s) + 1
    BY <1>1, <1>2, <2>1, <2>2, <2>4
  <2> QED
    BY <1>1, <2>3, <2>4
<1>5. ToSet(t) = ToSet(s) \cup {e}
  <2>1. ToSet(t) \subseteq ToSet(s) \cup {e}
    BY <1>1, <1>2, <1>3 DEF ToSet
  <2>2. ToSet(s) \subseteq ToSet(t) /\ e \in ToSet(t)
    BY <1>1, <1>2, <1>3 DEF ToSet
  <2> QED
    BY <2>1, <2>2
<1> QED
  BY <1>2, <1>4, <1>5 DEF t

LEMMA TailUnique ==
    ASSUME NEW S, NEW s \in Seq(S), IsInjective(s), s # <<>>
    PROVE  /\ Head(s) \in ToSet(s)
           /\ IsInjective(Tail(s))
           /\ ToSet(Tail(s)) = ToSet(s) \ {Head(s)}
<1> DEFINE t == Tail(s)
<1>1. DOMAIN s = 1..Len(s) /\ Len(s) \in Nat \ {0} /\ Head(s) = s[1]
  BY LenProperties, EmptySeq
<1>2. /\ t \in Seq(S) /\ Len(t) = Len(s) - 1
      /\ \A k \in 1..Len(t) : t[k] = s[k + 1]
  BY HeadTailProperties
<1>3. DOMAIN t = 1..(Len(s) - 1)
  BY <1>2, LenProperties
<1> HIDE DEF t
<1>4. IsInjective(t)
  <2>1. SUFFICES ASSUME NEW a \in 1..(Len(s) - 1), NEW b \in 1..(Len(s) - 1), t[a] = t[b]
                 PROVE  a = b
    BY <1>3 DEF IsInjective
  <2>2. s[a + 1] = s[b + 1]
    BY <1>1, <1>2, <2>1
  <2>3. a + 1 = b + 1
    BY <1>1, <2>2 DEF IsInjective
  <2> QED
    BY <1>1, <2>3
<1>5. ToSet(t) \subseteq ToSet(s) \ {Head(s)}
  BY <1>1, <1>2, <1>3 DEF ToSet, IsInjective
<1>6. ASSUME NEW x \in ToSet(s) \ {Head(s)}  PROVE x \in ToSet(t)
  <2>1. PICK k \in 1..Len(s) : s[k] = x /\ k # 1
    BY <1>1, <1>6 DEF ToSet
  <2>2. k - 1 \in 1..(Len(s) - 1) /\ t[k - 1] = x
    BY <1>1, <1>2, <2>1
  <2> QED
    BY <1>3, <2>2 DEF ToSet
<1>7. Head(s) \in ToSet(s)
  BY <1>1 DEF ToSet
<1> QED
  BY <1>4, <1>5, <1>6, <1>7 DEF t

-----------------------------------------------------------------------------
(***************************************************************************)
(* Type correctness.  The free list needs FreeListExact (it is a sequence  *)
(* without duplicates, so that taking a drone off it is well defined) and  *)
(* a drone thread's job needs ThreadsMatchJobs (it has one while it works).*)
(***************************************************************************)
USE DEF vars, mgrVars, poolVars, droneVars, clientVars, fileVars, historyVars

LEMMA InitType == Init => TypeOK
<1> SUFFICES ASSUME Init PROVE TypeOK
  OBVIOUS
<1>1. disk \in [Drone -> [Entry -> DiskState]]
  BY DEF Init, DiskState
<1>2. idc \in 0..MaxJobs /\ connects \in 0..MaxConnects
  BY BoundsAssumption DEF Init
<1>3. /\ repo \in SUBSET Entry /\ entries \in SUBSET Entry
      /\ answer \in [Id -> {"none", "ok", "failed"}]
      /\ asked \in [Id -> Job \cup {NoJob}]
      /\ myEntries \in [Drone -> SUBSET Entry]
      /\ skew \in [Drone -> BOOLEAN]
  BY DEF Init
<1>4. queue \in [Drone -> Seq(Job)] /\ results \in [ASyncClient -> Seq(Job)]
  BY DEF Init
<1>5. jobQueue \in Seq(Job) /\ freeDrones \in Seq(Drone) /\ drones \in SUBSET Drone
  BY DEF Init
<1>6. /\ cur \in [Drone -> Job \cup {NoJob}] /\ dpc \in [Drone -> DroneState]
      /\ waitFor \in [SyncClient -> Job \cup {NoJob}]
      /\ slot \in [SyncClient -> Job \cup {NoJob}]
  BY DEF Init, DroneState
<1>7. /\ mgr \in {"run", "jobWait", "droneWait"} /\ woken \in BOOLEAN
      /\ held \in Job \cup {NoJob} /\ tmp \in SUBSET Id
  BY DEF Init
<1> QED
  BY <1>1, <1>2, <1>3, <1>4, <1>5, <1>6, <1>7 DEF TypeOK

LEMMA ManagerType ==
    ASSUME TypeOK, Manager
    PROVE  TypeOK'
<1>1. CASE MgrSleepForJob
  BY <1>1 DEF TypeOK, MgrSleepForJob
<1>2. CASE MgrTake
  BY <1>2, HeadTailProperties DEF TypeOK, MgrTake
<1>3. CASE MgrSleepForDrone
  BY <1>3 DEF TypeOK, MgrSleepForDrone
<1>4. CASE MgrDispatch
  BY <1>4, HeadTailProperties DEF TypeOK, MgrDispatch
<1>5. CASE MgrWake
  BY <1>5 DEF TypeOK, MgrWake
<1> QED
  BY <1>1, <1>2, <1>3, <1>4, <1>5 DEF Manager

LEMMA ClientType ==
    ASSUME TypeOK, NEW c \in Client, ClientStep(c)
    PROVE  TypeOK'
<1>1. ASSUME NEW type \in JobType, NEW e \in Entry, ReadsCommand(c), Submit(c, type, e)
      PROVE  TypeOK'
  <2> DEFINE j == [type |-> type, id |-> idc, client |-> c, entry |-> e]
  <2>1. idc \in Id /\ idc + 1 \in 0..MaxJobs
    BY <1>1, BoundsAssumption DEF TypeOK, ReadsCommand, Id
  <2>2. j \in Job
    BY <2>1 DEF Job
  <2>3. jobQueue' \in Seq(Job) /\ asked' \in [Id -> Job \cup {NoJob}]
    BY <1>1, <2>1, <2>2 DEF TypeOK, Submit
  <2>4. waitFor' \in [SyncClient -> Job \cup {NoJob}] /\ tmp' \in SUBSET Id
    BY <1>1, <2>1, <2>2 DEF TypeOK, Submit
  <2>5. woken' \in BOOLEAN /\ idc' \in 0..MaxJobs
    BY <1>1, <2>1 DEF TypeOK, Submit, Signalled
  <2> QED
    BY <1>1, <2>3, <2>4, <2>5 DEF TypeOK, Submit
<1>2. ASSUME NEW type \in JobType, NEW e \in Entry, ReadsCommand(c), Broadcast(type, e),
             entries' \in SUBSET Entry, repo' \in SUBSET Entry
      PROVE  TypeOK'
  <2> DEFINE j == [type |-> type, id |-> 0, client |-> NoClient, entry |-> e]
  <2>1. j \in Job
    BY BoundsAssumption DEF Job, Id
  <2>2. queue' \in [Drone -> Seq(Job)]
    BY <1>2, <2>1 DEF TypeOK, Broadcast
  <2>3. idc' \in 0..MaxJobs
    BY <1>2, BoundsAssumption DEF TypeOK, Broadcast, ReadsCommand
  <2> QED
    BY <1>2, <2>2, <2>3 DEF TypeOK, Broadcast, FreeAfterBroadcast
<1>3. ASSUME NEW e \in Entry, Judge(c, e) \/ Import(c, e)
      PROVE  TypeOK'
  BY <1>1, <1>3 DEF Judge, Import, JobType
<1>4. ASSUME NEW e \in Entry, Push(c, e) \/ Dispose(c, e)
      PROVE  TypeOK'
  BY <1>2, <1>4 DEF Push, Dispose, JobType, TypeOK
<1>5. CASE c \in SyncClient /\ SyncReply(c)
  BY <1>5 DEF TypeOK, SyncReply
<1>6. CASE c \in ASyncClient /\ PullResults(c)
  BY <1>6 DEF TypeOK, PullResults
<1> QED
  BY <1>3, <1>4, <1>5, <1>6 DEF ClientStep

(* What a drone's thread leaves behind when it ends. *)
LEMMA UnregisterType ==
    ASSUME TypeOK, NEW d \in Drone, NEW free \in Seq(Drone), IsInjective(free),
           Unregister(d, free)
    PROVE  /\ drones' \in SUBSET Drone
           /\ freeDrones' \in Seq(Drone)
           /\ queue' \in [Drone -> Seq(Job)]
           /\ cur' \in [Drone -> Job \cup {NoJob}]
           /\ dpc' \in [Drone -> DroneState]
           /\ myEntries' \in [Drone -> SUBSET Entry]
           /\ skew' \in [Drone -> BOOLEAN]
<1>1. RemoveFirst(free, d) \in Seq(Drone)
  BY RemoveFirstUnique
<1> QED
  BY <1>1 DEF TypeOK, Unregister, FreeWithout, DroneState

(* What jobDone leaves with the client. *)
LEMMA JobDoneType ==
    ASSUME TypeOK, NEW j \in Job, NEW ok \in BOOLEAN, JobDone(j, ok)
    PROVE  /\ slot' \in [SyncClient -> Job \cup {NoJob}]
           /\ results' \in [ASyncClient -> Seq(Job)]
           /\ answer' \in [Id -> {"none", "ok", "failed"}]
<1>1. slot' \in [SyncClient -> Job \cup {NoJob}]
  BY DEF TypeOK, JobDone
<1>2. results' \in [ASyncClient -> Seq(Job)]
  BY DEF TypeOK, JobDone
<1>3. answer' \in [Id -> {"none", "ok", "failed"}]
  BY DEF TypeOK, JobDone, Job
<1> QED
  BY <1>1, <1>2, <1>3

(* A drone in the middle of a job is on no free list: freeing it adds it once. *)
LEMMA FreedDronesType ==
    ASSUME TypeOK, FreeListExact, NEW d \in Drone, NEW q,
           (dpc[d] \in Working /\ ThreadsMatchJobs) \/ queue[d] # <<>>
    PROVE  FreedDrones(d, q) \in Seq(Drone) /\ IsInjective(FreedDrones(d, q))
<1>1. d \notin ToSet(freeDrones)
  BY DEF FreeListExact, ThreadsMatchJobs
<1>2. freeDrones \in Seq(Drone) /\ IsInjective(freeDrones)
  BY DEF TypeOK, FreeListExact
<1> QED
  BY <1>1, <1>2, AppendUnique DEF FreedDrones

(* The end of a job, whatever becomes of the files. *)
FilesType ==
    /\ disk \in [Drone -> [Entry -> DiskState]]
    /\ entries \in SUBSET Entry
    /\ repo \in SUBSET Entry
    /\ tmp \in SUBSET Id

LEMMA StayType ==
    ASSUME TypeOK, FreeListExact, NEW d \in Drone, NEW j \in Job, NEW q \in Seq(Job),
           NEW ok \in BOOLEAN, NEW mine \in SUBSET Entry, NEW skewed \in BOOLEAN,
           (dpc[d] \in Working /\ ThreadsMatchJobs) \/ queue[d] # <<>>,
           FinishAndStay(d, j, q, ok, mine, skewed), FilesType'
    PROVE  TypeOK'
<1>1. /\ slot' \in [SyncClient -> Job \cup {NoJob}]
      /\ results' \in [ASyncClient -> Seq(Job)]
      /\ answer' \in [Id -> {"none", "ok", "failed"}]
  BY JobDoneType DEF FinishAndStay
<1>2. freeDrones' \in Seq(Drone)
  BY FreedDronesType DEF FinishAndStay
<1>3. woken' \in BOOLEAN
  BY DEF FinishAndStay, FreeSignal, Signalled, TypeOK
<1>4. /\ cur' \in [Drone -> Job \cup {NoJob}] /\ queue' \in [Drone -> Seq(Job)]
      /\ dpc' \in [Drone -> DroneState] /\ skew' \in [Drone -> BOOLEAN]
      /\ myEntries' \in [Drone -> SUBSET Entry]
  BY DEF FinishAndStay, TypeOK, DroneState
<1> QED
  BY <1>1, <1>2, <1>3, <1>4 DEF FinishAndStay, TypeOK, FilesType

LEMMA FinishType ==
    ASSUME TypeOK, ThreadsMatchJobs, FreeListExact, NEW d \in Drone, dpc[d] \in Working,
           NEW ok \in BOOLEAN, NEW mine \in SUBSET Entry, NEW skewed \in BOOLEAN,
           Finish(d, ok, mine, skewed), FilesType'
    PROVE  TypeOK'
<1>1. cur[d] \in Job /\ queue[d] \in Seq(Job)
  BY DEF TypeOK, ThreadsMatchJobs
<1>2. CASE FinishAndStay(d, cur[d], queue[d], ok, mine, skewed)
  BY <1>1, <1>2, StayType
<1>3. CASE FinishAndLeave(d, cur[d], ok)
  <2> DEFINE free == FreedDrones(d, queue[d])
  <2>1. free \in Seq(Drone) /\ IsInjective(free)
    BY FreedDronesType
  <2>2. Unregister(d, free) /\ JobDone(cur[d], ok)
    BY <1>3 DEF FinishAndLeave
  <2> HIDE DEF free
  <2>3. /\ drones' \in SUBSET Drone /\ freeDrones' \in Seq(Drone)
        /\ queue' \in [Drone -> Seq(Job)] /\ cur' \in [Drone -> Job \cup {NoJob}]
        /\ dpc' \in [Drone -> DroneState] /\ myEntries' \in [Drone -> SUBSET Entry]
        /\ skew' \in [Drone -> BOOLEAN]
    BY <2>1, <2>2, UnregisterType
  <2>4. /\ slot' \in [SyncClient -> Job \cup {NoJob}]
        /\ results' \in [ASyncClient -> Seq(Job)]
        /\ answer' \in [Id -> {"none", "ok", "failed"}]
    BY <1>1, <2>2, JobDoneType
  <2>5. woken' \in BOOLEAN
    BY <1>3 DEF FinishAndLeave, FreeSignal, Signalled, TypeOK
  <2> QED
    BY <1>3, <2>3, <2>4, <2>5 DEF FinishAndLeave, TypeOK, FilesType
<1> QED
  BY <1>2, <1>3 DEF Finish

LEMMA FailType ==
    ASSUME TypeOK, ThreadsMatchJobs, FreeListExact, NEW d \in Drone, dpc[d] \in Working,
           Fail(d), disk' \in [Drone -> [Entry -> DiskState]]
    PROVE  TypeOK'
<1>1. cur[d] \in Job
  BY DEF TypeOK, ThreadsMatchJobs
<1>2. Unregister(d, freeDrones) /\ freeDrones \in Seq(Drone) /\ IsInjective(freeDrones)
  BY DEF Fail, TypeOK, FreeListExact
<1>3. /\ drones' \in SUBSET Drone /\ freeDrones' \in Seq(Drone)
      /\ queue' \in [Drone -> Seq(Job)] /\ cur' \in [Drone -> Job \cup {NoJob}]
      /\ dpc' \in [Drone -> DroneState] /\ myEntries' \in [Drone -> SUBSET Entry]
      /\ skew' \in [Drone -> BOOLEAN]
  BY <1>2, UnregisterType
<1>4. jobQueue' \in Seq(Job)
  <2>1. Append(jobQueue, cur[d]) \in Seq(Job) /\ jobQueue \in Seq(Job)
    BY <1>1, AppendProperties DEF TypeOK
  <2> QED
    BY <2>1 DEF Fail
<1>5. woken' \in BOOLEAN
  BY DEF Fail, TypeOK, Signalled
<1> QED
  BY <1>3, <1>4, <1>5 DEF Fail, TypeOK, TmpAfterFailure

LEMMA DroneType ==
    ASSUME TypeOK, ThreadsMatchJobs, FreeListExact, NEW d \in Drone,
           Connect(d) \/ DroneWorks(d) \/ DroneLeaves(d)
    PROVE  TypeOK'
<1>1. CASE Connect(d)
  <2>1. connects' \in 0..MaxConnects
    BY <1>1, BoundsAssumption DEF Connect, TypeOK
  <2>2. freeDrones' \in Seq(Drone)
    BY <1>1, AppendProperties DEF Connect, TypeOK
  <2>3. dpc' \in [Drone -> DroneState] /\ woken' \in BOOLEAN /\ drones' \in SUBSET Drone
    BY <1>1 DEF Connect, TypeOK, DroneState, Signalled
  <2>4. disk' \in [Drone -> [Entry -> DiskState]] /\ skew' \in [Drone -> BOOLEAN]
    BY <1>1 DEF Connect, FoundOnDisk, TypeOK
  <2> QED
    BY <1>1, <2>1, <2>2, <2>3, <2>4 DEF Connect, TypeOK
<1>2. CASE Listed(d)
  BY <1>2 DEF Listed, TypeOK, DroneState, Directories
<1>3. CASE Ping(d) \/ Pong(d)
  BY <1>3 DEF Ping, Pong, TypeOK, DroneState
<1>4. CASE WrongPong(d) \/ LeaveIdle(d)
  <2>1. Unregister(d, freeDrones) /\ freeDrones \in Seq(Drone) /\ IsInjective(freeDrones)
    BY <1>4 DEF WrongPong, LeaveIdle, TypeOK, FreeListExact
  <2>2. /\ drones' \in SUBSET Drone /\ freeDrones' \in Seq(Drone)
        /\ queue' \in [Drone -> Seq(Job)] /\ cur' \in [Drone -> Job \cup {NoJob}]
        /\ dpc' \in [Drone -> DroneState] /\ myEntries' \in [Drone -> SUBSET Entry]
        /\ skew' \in [Drone -> BOOLEAN]
    BY <2>1, UnregisterType
  <2> QED
    BY <1>4, <2>2 DEF WrongPong, LeaveIdle, TypeOK
<1>5. CASE Take(d)
  <2>1. Last(queue[d]) \in Job /\ Front(queue[d]) \in Seq(Job)
    BY <1>5, FrontLast DEF Take, TypeOK
  <2>2. StartsIn(d, Last(queue[d])) \in DroneState
    BY <2>1 DEF StartsIn, DroneState, Job, JobType
  <2> QED
    BY <1>5, <2>1, <2>2 DEF Take, TypeOK
<1>6. CASE SkipDispose(d)
  <2>1. Last(queue[d]) \in Job /\ Front(queue[d]) \in Seq(Job)
    BY <1>6, FrontLast DEF SkipDispose, TypeOK
  <2>2. FilesType'
    BY <1>6 DEF SkipDispose, TypeOK, FilesType
  <2>3. /\ FinishAndStay(d, Last(queue[d]), Front(queue[d]), TRUE, myEntries[d], skew[d])
        /\ queue[d] # <<>> /\ myEntries[d] \in SUBSET Entry /\ skew[d] \in BOOLEAN
    BY <1>6 DEF SkipDispose, TypeOK
  <2> QED
    BY <2>1, <2>2, <2>3, StayType
<1>7. CASE OpenArchive(d)
  BY <1>7 DEF OpenArchive, TypeOK, DroneState
<1>8. CASE NoArchive(d)
  <2>1. dpc[d] \in Working /\ cur[d] \in Job /\ queue[d] \in Seq(Job)
    BY <1>8 DEF NoArchive, Working, ThreadsMatchJobs, TypeOK
  <2>2. FilesType'
    BY <1>8, <2>1 DEF NoArchive, TypeOK, FilesType
  <2>3. /\ FinishAndStay(d, cur[d], queue[d], FALSE, myEntries[d], TRUE)
        /\ myEntries[d] \in SUBSET Entry
    BY <1>8 DEF NoArchive, TypeOK
  <2> QED
    BY <2>1, <2>2, <2>3, StayType
<1>9. CASE SendSource(d)
  BY <1>9 DEF SendSource, TypeOK, DroneState
<1>10. CASE SourceMissing(d) \/ LinkBreaks(d)
  <2>1. dpc[d] \in Working /\ Fail(d)
    BY <1>10 DEF SourceMissing, LinkBreaks, Working
  <2>2. disk' \in [Drone -> [Entry -> DiskState]]
    <3>1. cur[d] \in Job /\ cur[d].entry \in Entry
      BY <2>1 DEF TypeOK, ThreadsMatchJobs, Job
    <3>2. LeftOnDisk(d) \subseteq DiskState
      BY <3>1 DEF LeftOnDisk, DiskState, TypeOK
    <3>3. CASE SourceMissing(d)
      BY <3>3 DEF SourceMissing, TypeOK
    <3>4. CASE LinkBreaks(d)
      <4>1. PICK s \in DiskState : disk' = [disk EXCEPT ![d][cur[d].entry] = s]
        BY <3>2, <3>4 DEF LinkBreaks
      <4> QED
        BY <3>1, <4>1 DEF TypeOK
    <3> QED
      BY <1>10, <3>3, <3>4
  <2> QED
    BY <2>1, <2>2, FailType
<1>11. ASSUME NEW ok \in BOOLEAN, JudgeAnswer(d, ok)  PROVE TypeOK'
  <2>1. dpc[d] \in Working /\ myEntries[d] \in SUBSET Entry
    BY <1>11 DEF JudgeAnswer, Working, TypeOK
  <2>2. PICK skewed \in BOOLEAN : Finish(d, ok, myEntries[d], skewed)
    BY <1>11 DEF JudgeAnswer, SkewAfter, TypeOK
  <2>3. FilesType'
    BY <1>11 DEF JudgeAnswer, TypeOK, FilesType
  <2> QED
    BY <2>1, <2>2, <2>3, FinishType
<1>12. ASSUME NEW ok \in BOOLEAN, NEW s \in DiskState, DestroyAnswer(d, ok, s)
       PROVE TypeOK'
  <2>1. /\ dpc[d] \in Working /\ myEntries[d] \in SUBSET Entry /\ skew[d] \in BOOLEAN
        /\ Finish(d, ok, myEntries[d], skew[d])
    BY <1>12 DEF DestroyAnswer, Working, TypeOK
  <2>2. FilesType'
    BY <1>12 DEF DestroyAnswer, TypeOK, FilesType
  <2> QED
    BY <2>1, <2>2, FinishType
<1>13. ASSUME NEW ok \in BOOLEAN, NEW s \in DiskState, ImportAnswer(d, ok, s)
       PROVE TypeOK'
  <2> DEFINE mine == IF ok THEN myEntries[d] \cup {cur[d].entry} ELSE myEntries[d]
  <2>1. dpc[d] \in Working /\ cur[d] \in Job
    BY <1>13 DEF ImportAnswer, Working, TypeOK, ThreadsMatchJobs
  <2>2. mine \in SUBSET Entry
    BY <2>1 DEF TypeOK, Job
  <2>3. FilesType'
    BY <1>13, <2>1 DEF ImportAnswer, TypeOK, FilesType, Job
  <2>4. ASSUME NEW skewed \in BOOLEAN, Finish(d, ok, mine, skewed)  PROVE TypeOK'
    BY <2>1, <2>2, <2>3, <2>4, FinishType
  <2>5. CASE ~ \E skewed \in BOOLEAN : Finish(d, ok, mine, skewed)
    <3>1. /\ myEntries' = [myEntries EXCEPT ![d] = mine]
          /\ dpc' = [dpc EXCEPT ![d] = "sending"]
          /\ skew' \in [Drone -> BOOLEAN]
          /\ UNCHANGED <<mgrVars, poolVars, queue, cur, clientVars, historyVars,
                         idc, connects>>
      BY <1>13, <2>5 DEF ImportAnswer, SkewAfter, TypeOK
    <3>2. dpc' \in [Drone -> DroneState] /\ myEntries' \in [Drone -> SUBSET Entry]
      BY <2>2, <3>1 DEF TypeOK, DroneState
    <3> QED
      BY <2>3, <3>1, <3>2 DEF TypeOK, FilesType
  <2> QED
    BY <2>4, <2>5
<1> QED
  BY <1>1, <1>2, <1>3, <1>4, <1>5, <1>6, <1>7, <1>8, <1>9, <1>10, <1>11, <1>12, <1>13
  DEF DroneWorks, DroneLeaves

LEMMA NextType ==
    ASSUME TypeOK, ThreadsMatchJobs, FreeListExact, [Next]_vars
    PROVE  TypeOK'
<1>1. CASE UNCHANGED vars
  BY <1>1 DEF TypeOK
<1> QED
  BY <1>1, ManagerType, ClientType, DroneType DEF Next

-----------------------------------------------------------------------------
(***************************************************************************)
(* The drones' threads and their jobs.                                     *)
(***************************************************************************)
LEMMA ThreadsInit == Init => ThreadsMatchJobs
  BY DEF Init, ThreadsMatchJobs, Working

(* A step that changes the thread of d alone, and keeps it right.          *)
LEMMA ThreadsOf ==
    ASSUME TypeOK, ThreadsMatchJobs, NEW d \in Drone,
           drones' = IF dpc'[d] = "off" THEN drones \ {d} ELSE drones \cup {d},
           NEW p, NEW j, NEW q,
           dpc' = [dpc EXCEPT ![d] = p],
           cur' = [cur EXCEPT ![d] = j],
           queue' = [queue EXCEPT ![d] = q],
           j # NoJob <=> p \in Working,
           p = "off" => q = <<>>
    PROVE  ThreadsMatchJobs'
<1>1. dpc'[d] = p /\ cur'[d] = j /\ queue'[d] = q
  BY DEF TypeOK
<1>2. \A x \in Drone \ {d} : dpc'[x] = dpc[x] /\ cur'[x] = cur[x] /\ queue'[x] = queue[x]
  BY DEF TypeOK
<1>3. drones' = {x \in Drone : dpc'[x] # "off"}
  BY <1>1, <1>2 DEF ThreadsMatchJobs
<1> QED
  BY <1>1, <1>2, <1>3 DEF ThreadsMatchJobs

LEMMA ThreadsUnregister ==
    ASSUME TypeOK, ThreadsMatchJobs, NEW d \in Drone, NEW free, Unregister(d, free)
    PROVE  ThreadsMatchJobs'
<1>1. dpc'[d] = "off" /\ "off" \notin Working
  BY DEF Unregister, TypeOK, Working
<1> QED
  BY <1>1, ThreadsOf DEF Unregister

LEMMA ThreadsStay ==
    ASSUME TypeOK, ThreadsMatchJobs, NEW d \in Drone, d \in drones, NEW j, NEW q, NEW ok,
           NEW mine, NEW skewed, FinishAndStay(d, j, q, ok, mine, skewed)
    PROVE  ThreadsMatchJobs'
<1>1. dpc'[d] = "waiting" /\ "waiting" \notin Working /\ drones \cup {d} = drones
  BY DEF FinishAndStay, TypeOK, Working
<1> QED
  BY <1>1, ThreadsOf DEF FinishAndStay

LEMMA ThreadsFinish ==
    ASSUME TypeOK, ThreadsMatchJobs, NEW d \in Drone, d \in drones, NEW ok, NEW mine,
           NEW skewed, Finish(d, ok, mine, skewed)
    PROVE  ThreadsMatchJobs'
  BY ThreadsStay, ThreadsUnregister DEF Finish, FinishAndLeave

LEMMA ThreadsManager ==
    ASSUME TypeOK, ThreadsMatchJobs, FreeListExact, Manager
    PROVE  ThreadsMatchJobs'
<1>1. CASE MgrDispatch
  <2> DEFINE d == Head(freeDrones)
  <2>1. d \in ToSet(freeDrones)
    BY <1>1, TailUnique DEF MgrDispatch, TypeOK, FreeListExact
  <2>2. d \in Drone /\ d \in drones /\ dpc[d] # "off"
    BY <2>1 DEF FreeListExact, ThreadsMatchJobs
  <2> HIDE DEF d
  <2>3. \A x \in Drone : x # d => queue'[x] = queue[x]
    BY <1>1 DEF MgrDispatch, TypeOK, d
  <2> QED
    BY <1>1, <2>2, <2>3 DEF MgrDispatch, ThreadsMatchJobs
<1>2. CASE ~MgrDispatch
  <2>1. UNCHANGED <<drones, dpc, cur, queue>>
    BY <1>2 DEF Manager, MgrSleepForJob, MgrTake, MgrSleepForDrone, MgrWake
  <2> QED
    BY <2>1 DEF ThreadsMatchJobs
<1> QED
  BY <1>1, <1>2

LEMMA ThreadsClient ==
    ASSUME TypeOK, ThreadsMatchJobs, NEW c \in Client, ClientStep(c)
    PROVE  ThreadsMatchJobs'
<1>1. ASSUME NEW type, NEW e, Broadcast(type, e)
      PROVE  ThreadsMatchJobs'
  <2>1. \A d \in Drone : dpc[d] = "off" => queue'[d] = queue[d]
    BY <1>1 DEF Broadcast, Recipients, ThreadsMatchJobs
  <2> QED
    BY <1>1, <2>1 DEF Broadcast, ThreadsMatchJobs
<1>2. CASE UNCHANGED <<drones, dpc, cur, queue>>
  BY <1>2 DEF ThreadsMatchJobs
<1>3. \/ UNCHANGED <<drones, dpc, cur, queue>>
      \/ \E type \in JobType, e \in Entry : Broadcast(type, e)
  BY DEF ClientStep, Judge, Import, Submit, Push, Dispose, SyncReply, PullResults, JobType
<1> QED
  BY <1>1, <1>2, <1>3

LEMMA ThreadsDrone ==
    ASSUME TypeOK, ThreadsMatchJobs, NEW d \in Drone,
           Connect(d) \/ DroneWorks(d) \/ DroneLeaves(d)
    PROVE  ThreadsMatchJobs'
<1>1. CASE Connect(d)
  <2>1. dpc' = [dpc EXCEPT ![d] = "listing"] /\ dpc'[d] = "listing"
    BY <1>1 DEF Connect, TypeOK
  <2>2. cur' = [cur EXCEPT ![d] = NoJob] /\ queue' = [queue EXCEPT ![d] = queue[d]]
    BY <1>1 DEF Connect, TypeOK, ThreadsMatchJobs, Working
  <2>3. drones' = IF dpc'[d] = "off" THEN drones \ {d} ELSE drones \cup {d}
    BY <1>1, <2>1 DEF Connect
  <2> QED
    BY <2>1, <2>2, <2>3, ThreadsOf DEF Working
<1>2. ASSUME d \in drones, drones' = drones, cur' = cur, queue' = queue,
             NEW p, p # "off", p \in Working <=> dpc[d] \in Working,
             dpc' = [dpc EXCEPT ![d] = p]
      PROVE  ThreadsMatchJobs'
  <2>1. dpc'[d] = p /\ \A x \in Drone \ {d} : dpc'[x] = dpc[x]
    BY <1>2 DEF TypeOK
  <2> QED
    BY <1>2, <2>1 DEF ThreadsMatchJobs
<1>3. CASE Listed(d) \/ Ping(d) \/ Pong(d)
  BY <1>2, <1>3 DEF Listed, Ping, Pong, Working, ThreadsMatchJobs
<1>4. CASE WrongPong(d) \/ LeaveIdle(d)
  BY <1>4, ThreadsUnregister DEF WrongPong, LeaveIdle
<1>5. CASE Take(d)
  <2>1. Last(queue[d]) \in Job /\ dpc[d] # "off" /\ d \in drones
    BY <1>5, FrontLast DEF Take, TypeOK, ThreadsMatchJobs
  <2>2. StartsIn(d, Last(queue[d])) \in Working /\ Last(queue[d]) # NoJob
    BY <2>1, NoJobAssumption DEF StartsIn, Working, Job, JobType
  <2>3. StartsIn(d, Last(queue[d])) # "off"
    BY <2>2 DEF Working
  <2>4. /\ dpc' = [dpc EXCEPT ![d] = StartsIn(d, Last(queue[d]))]
        /\ cur' = [cur EXCEPT ![d] = Last(queue[d])]
        /\ queue' = [queue EXCEPT ![d] = Front(queue[d])]
        /\ drones' = drones
    BY <1>5 DEF Take, TypeOK
  <2>5. drones' = IF dpc'[d] = "off" THEN drones \ {d} ELSE drones \cup {d}
    BY <2>1, <2>3, <2>4 DEF TypeOK
  <2> QED
    BY <2>2, <2>3, <2>4, <2>5, ThreadsOf
<1>6. CASE SkipDispose(d) \/ NoArchive(d)
  <2>1. d \in drones
    BY <1>6 DEF SkipDispose, NoArchive, ThreadsMatchJobs
  <2> QED
    BY <1>6, <2>1, ThreadsStay DEF SkipDispose, NoArchive
<1>7. CASE OpenArchive(d) \/ SendSource(d)
  BY <1>2, <1>7 DEF OpenArchive, SendSource, Working, ThreadsMatchJobs
<1>8. CASE SourceMissing(d) \/ LinkBreaks(d)
  BY <1>8, ThreadsUnregister DEF SourceMissing, LinkBreaks, Fail
<1>9. ASSUME NEW ok \in BOOLEAN, JudgeAnswer(d, ok)  PROVE ThreadsMatchJobs'
  BY <1>9, ThreadsFinish DEF JudgeAnswer, ThreadsMatchJobs
<1>10. ASSUME NEW ok \in BOOLEAN, NEW s \in DiskState, DestroyAnswer(d, ok, s)
       PROVE  ThreadsMatchJobs'
  BY <1>10, ThreadsFinish DEF DestroyAnswer, ThreadsMatchJobs
<1>11. ASSUME NEW ok \in BOOLEAN, NEW s \in DiskState, ImportAnswer(d, ok, s)
       PROVE  ThreadsMatchJobs'
  <2> DEFINE mine == IF ok THEN myEntries[d] \cup {cur[d].entry} ELSE myEntries[d]
  <2>1. d \in drones /\ dpc[d] = "importing"
    BY <1>11 DEF ImportAnswer, ThreadsMatchJobs
  <2>2. ASSUME NEW skewed, Finish(d, ok, mine, skewed)  PROVE ThreadsMatchJobs'
    BY <2>1, <2>2, ThreadsFinish
  <2>3. CASE ~\E skewed \in SkewAfter(d) : Finish(d, ok, mine, skewed)
    <3>1. /\ dpc' = [dpc EXCEPT ![d] = "sending"]
          /\ drones' = drones /\ queue' = queue /\ cur' = cur
      BY <1>11, <2>3 DEF ImportAnswer
    <3> QED
      BY <1>2, <2>1, <3>1 DEF Working
  <2> QED
    BY <2>2, <2>3
<1> QED
  BY <1>1, <1>3, <1>4, <1>5, <1>6, <1>7, <1>8, <1>9, <1>10, <1>11
  DEF DroneWorks, DroneLeaves

LEMMA NextThreads ==
    ASSUME TypeOK, ThreadsMatchJobs, FreeListExact, [Next]_vars
    PROVE  ThreadsMatchJobs'
<1>1. CASE UNCHANGED vars
  BY <1>1 DEF ThreadsMatchJobs
<1> QED
  BY <1>1, ThreadsManager, ThreadsClient, ThreadsDrone DEF Next

-----------------------------------------------------------------------------
(***************************************************************************)
(* The free list.  A step that leaves a drone's queue, its hand and its    *)
(* registration alone leaves it as idle as it was.                         *)
(***************************************************************************)
Idle == {d \in drones : queue[d] = <<>> /\ cur[d] = NoJob}

LEMMA FreeInit == Init => FreeListExact
<1>1. ToSet(<<>>) = {}
  BY EmptySeq DEF ToSet
<1>2. IsInjective(<<>>)
  BY EmptySeq DEF IsInjective
<1> QED
  BY <1>1, <1>2 DEF Init, FreeListExact

(* A sequence that has been appended to is not empty.                      *)
LEMMA AppendNotEmpty ==
    ASSUME NEW S, NEW s \in Seq(S), NEW e \in S
    PROVE  Append(s, e) # <<>>
<1>1. Len(Append(s, e)) = Len(s) + 1 /\ Len(s) \in Nat
  BY AppendProperties, LenProperties
<1>2. Len(<<>>) = 0
  BY EmptySeq
<1> QED
  BY <1>1, <1>2

LEMMA FreeManager ==
    ASSUME TypeOK, FreeListExact, Manager
    PROVE  FreeListExact'
<1>1. CASE MgrDispatch
  <2> DEFINE d == Head(freeDrones)
  <2>1. /\ d \in ToSet(freeDrones)
        /\ IsInjective(freeDrones')
        /\ ToSet(freeDrones') = ToSet(freeDrones) \ {d}
    BY <1>1, TailUnique DEF MgrDispatch, TypeOK, FreeListExact
  <2>2. d \in Drone /\ queue[d] \in Seq(Job) /\ held \in Job
    BY <1>1, <2>1 DEF FreeListExact, TypeOK, MgrDispatch
  <2>3. Append(queue[d], held) # <<>>
    BY <2>2, AppendNotEmpty
  <2> HIDE DEF d
  <2>4. queue' = [queue EXCEPT ![d] = Append(queue[d], held)]
    BY <1>1 DEF MgrDispatch, d
  <2>5. queue'[d] # <<>> /\ \A x \in Drone \ {d} : queue'[x] = queue[x]
    BY <2>2, <2>3, <2>4 DEF TypeOK
  <2>6. drones' = drones /\ cur' = cur /\ drones \subseteq Drone
    BY <1>1 DEF MgrDispatch, TypeOK
  <2>7. Idle' = Idle \ {d}
    BY <2>5, <2>6 DEF Idle
  <2> QED
    BY <2>1, <2>7 DEF FreeListExact, Idle
<1>2. CASE ~MgrDispatch
  <2>1. UNCHANGED <<freeDrones, drones, cur, queue>>
    BY <1>2 DEF Manager, MgrSleepForJob, MgrTake, MgrSleepForDrone, MgrWake
  <2> QED
    BY <2>1 DEF FreeListExact
<1> QED
  BY <1>1, <1>2

LEMMA FreeClient ==
    ASSUME TypeOK, FreeListExact, NEW c \in Client, ClientStep(c)
    PROVE  FreeListExact'
<1>1. ASSUME NEW type \in JobType, NEW e \in Entry, Broadcast(type, e)
      PROVE  FreeListExact'
  <2> DEFINE j == [type |-> type, id |-> 0, client |-> NoClient, entry |-> e]
  <2>1. j \in Job
    BY BoundsAssumption DEF Job, Id
  <2> HIDE DEF j
  <2>2. \A d \in drones : queue'[d] = Append(queue[d], j)
    BY <1>1 DEF Broadcast, Recipients, TypeOK, j
  <2>3. \A d \in drones : queue'[d] # <<>>
    BY <2>1, <2>2, AppendNotEmpty DEF TypeOK
  <2>4. Idle' = {}
    BY <1>1, <2>3 DEF Idle, Broadcast
  <2>5. ToSet(<<>>) = {} /\ IsInjective(<<>>)
    BY EmptySeq DEF ToSet, IsInjective
  <2> QED
    BY <1>1, <2>4, <2>5 DEF FreeListExact, Idle, Broadcast, FreeAfterBroadcast
<1>2. CASE UNCHANGED <<freeDrones, drones, cur, queue>>
  BY <1>2 DEF FreeListExact
<1>3. \/ UNCHANGED <<freeDrones, drones, cur, queue>>
      \/ \E type \in JobType, e \in Entry : Broadcast(type, e)
  BY DEF ClientStep, Judge, Import, Submit, Push, Dispose, SyncReply, PullResults, JobType
<1> QED
  BY <1>1, <1>2, <1>3

LEMMA FreeUnregister ==
    ASSUME TypeOK, FreeListExact, NEW d \in Drone, NEW free \in Seq(Drone),
           IsInjective(free), ToSet(free) \ {d} = ToSet(freeDrones) \ {d},
           Unregister(d, free)
    PROVE  FreeListExact'
<1>1. IsInjective(freeDrones') /\ ToSet(freeDrones') = ToSet(free) \ {d}
  BY RemoveFirstUnique DEF Unregister, FreeWithout
<1>2. \A x \in Drone \ {d} : queue'[x] = queue[x] /\ cur'[x] = cur[x]
  BY DEF Unregister, TypeOK
<1>3. Idle' = Idle \ {d}
  BY <1>2 DEF Idle, Unregister, TypeOK
<1> QED
  BY <1>1, <1>3 DEF FreeListExact, Idle

LEMMA FreeStay ==
    ASSUME TypeOK, FreeListExact, NEW d \in drones, d \notin ToSet(freeDrones),
           NEW j, NEW q, NEW ok, NEW mine, NEW skewed,
           FinishAndStay(d, j, q, ok, mine, skewed)
    PROVE  FreeListExact'
<1>1. d \in Drone /\ freeDrones \in Seq(Drone) /\ IsInjective(freeDrones)
  BY DEF TypeOK, FreeListExact
<1>2. /\ queue'[d] = q /\ cur'[d] = NoJob /\ drones' = drones
      /\ \A x \in Drone \ {d} : queue'[x] = queue[x] /\ cur'[x] = cur[x]
  BY <1>1 DEF FinishAndStay, TypeOK
<1>3. d \notin Idle
  BY DEF FreeListExact, Idle
<1>4. CASE q = <<>>
  <2>1. Idle' = Idle \cup {d}
    BY <1>2, <1>4 DEF Idle, TypeOK
  <2>2. freeDrones' = Append(freeDrones, d)
    BY <1>4 DEF FinishAndStay, FreedDrones
  <2> QED
    BY <1>1, <2>1, <2>2, AppendUnique DEF FreeListExact, Idle
<1>5. CASE q # <<>>
  <2>1. Idle' = Idle
    BY <1>2, <1>3, <1>5 DEF Idle, TypeOK
  <2>2. freeDrones' = freeDrones
    BY <1>5 DEF FinishAndStay, FreedDrones
  <2> QED
    BY <2>1, <2>2 DEF FreeListExact, Idle
<1> QED
  BY <1>4, <1>5

LEMMA FreeFinish ==
    ASSUME TypeOK, FreeListExact, NEW d \in drones, d \notin ToSet(freeDrones),
           NEW ok, NEW mine, NEW skewed, Finish(d, ok, mine, skewed)
    PROVE  FreeListExact'
<1>1. CASE FinishAndStay(d, cur[d], queue[d], ok, mine, skewed)
  BY <1>1, FreeStay
<1>2. CASE FinishAndLeave(d, cur[d], ok)
  <2> DEFINE free == FreedDrones(d, queue[d])
  <2>1. d \in Drone /\ freeDrones \in Seq(Drone) /\ IsInjective(freeDrones)
    BY DEF TypeOK, FreeListExact
  <2>2. free \in Seq(Drone) /\ IsInjective(free) /\ ToSet(free) \ {d} = ToSet(freeDrones) \ {d}
    BY <2>1, AppendUnique DEF FreedDrones
  <2>3. Unregister(d, free)
    BY <1>2 DEF FinishAndLeave
  <2> HIDE DEF free
  <2> QED
    BY <2>1, <2>2, <2>3, FreeUnregister
<1> QED
  BY <1>1, <1>2 DEF Finish

LEMMA FreeDrone ==
    ASSUME TypeOK, ThreadsMatchJobs, FreeListExact, NEW d \in Drone,
           Connect(d) \/ DroneWorks(d) \/ DroneLeaves(d)
    PROVE  FreeListExact'
<1>1. dpc[d] \in Working => d \in drones /\ d \notin ToSet(freeDrones)
  BY DEF ThreadsMatchJobs, FreeListExact, Working
<1>2. freeDrones \in Seq(Drone) /\ IsInjective(freeDrones)
  BY DEF TypeOK, FreeListExact
<1>3. CASE Connect(d)
  <2>1. d \notin drones /\ queue[d] = <<>> /\ cur[d] = NoJob
    BY <1>3 DEF Connect, ThreadsMatchJobs, Working
  <2>2. d \notin ToSet(freeDrones)
    BY <2>1 DEF FreeListExact
  <2>3. Idle' = Idle \cup {d}
    BY <1>3, <2>1 DEF Connect, Idle
  <2>4. /\ IsInjective(freeDrones')
        /\ ToSet(freeDrones') = ToSet(freeDrones) \cup {d}
    BY <1>2, <1>3, <2>2, AppendUnique DEF Connect
  <2> QED
    BY <2>3, <2>4 DEF FreeListExact, Idle
<1>4. CASE UNCHANGED <<freeDrones, drones, cur, queue>>
  BY <1>4 DEF FreeListExact
<1>5. CASE Unregister(d, freeDrones)
  BY <1>2, <1>5, FreeUnregister
<1>6. CASE Take(d)
  <2>1. d \notin Idle
    BY <1>6 DEF Take, Idle
  <2>2. Last(queue[d]) # NoJob
    BY <1>6, FrontLast, NoJobAssumption DEF Take, TypeOK
  <2>3. cur'[d] # NoJob /\ \A x \in Drone \ {d} : queue'[x] = queue[x] /\ cur'[x] = cur[x]
    BY <1>6, <2>2 DEF Take, TypeOK
  <2>4. Idle' = Idle
    BY <1>6, <2>1, <2>3 DEF Take, Idle, TypeOK
  <2> QED
    BY <1>6, <2>4 DEF Take, FreeListExact, Idle
<1>7. CASE SkipDispose(d)
  <2>1. d \in drones /\ d \notin ToSet(freeDrones)
    BY <1>7 DEF SkipDispose, ThreadsMatchJobs, FreeListExact
  <2> QED
    BY <1>7, <2>1, FreeStay DEF SkipDispose
<1>8. CASE NoArchive(d)
  <2>1. dpc[d] \in Working
    BY <1>8 DEF NoArchive, Working
  <2> QED
    BY <1>1, <1>8, <2>1, FreeStay DEF NoArchive
<1>9. ASSUME NEW ok, NEW mine, NEW skewed, dpc[d] \in Working,
             Finish(d, ok, mine, skewed)
      PROVE  FreeListExact'
  BY <1>1, <1>9, FreeFinish
<1>10. CASE Listed(d) \/ Ping(d) \/ Pong(d) \/ OpenArchive(d) \/ SendSource(d)
  BY <1>4, <1>10 DEF Listed, Ping, Pong, OpenArchive, SendSource
<1>11. CASE WrongPong(d) \/ LeaveIdle(d) \/ SourceMissing(d) \/ LinkBreaks(d)
  BY <1>5, <1>11 DEF WrongPong, LeaveIdle, SourceMissing, LinkBreaks, Fail
<1>12. ASSUME NEW ok \in BOOLEAN, JudgeAnswer(d, ok)  PROVE FreeListExact'
  BY <1>9, <1>12 DEF JudgeAnswer, Working
<1>13. ASSUME NEW ok \in BOOLEAN, NEW s \in DiskState, DestroyAnswer(d, ok, s)
       PROVE  FreeListExact'
  BY <1>9, <1>13 DEF DestroyAnswer, Working
<1>14. ASSUME NEW ok \in BOOLEAN, NEW s \in DiskState, ImportAnswer(d, ok, s)
       PROVE  FreeListExact'
  <2> DEFINE mine == IF ok THEN myEntries[d] \cup {cur[d].entry} ELSE myEntries[d]
  <2>1. dpc[d] \in Working
    BY <1>14 DEF ImportAnswer, Working
  <2>2. \/ \E skewed \in SkewAfter(d) : Finish(d, ok, mine, skewed)
        \/ UNCHANGED <<freeDrones, drones, cur, queue>>
    BY <1>14 DEF ImportAnswer
  <2> QED
    BY <1>4, <1>9, <2>1, <2>2
<1> QED
  BY <1>3, <1>6, <1>7, <1>8, <1>10, <1>11, <1>12, <1>13, <1>14 DEF DroneWorks, DroneLeaves

LEMMA NextFree ==
    ASSUME TypeOK, ThreadsMatchJobs, FreeListExact, [Next]_vars
    PROVE  FreeListExact'
<1>1. CASE UNCHANGED vars
  BY <1>1 DEF FreeListExact
<1> QED
  BY <1>1, FreeManager, FreeClient, FreeDrone DEF Next

-----------------------------------------------------------------------------
(***************************************************************************)
(* The queue of a drone: at the bottom, and nowhere else, there may be the *)
(* job of a client, and then there is none in the thread's hand.           *)
(***************************************************************************)
AtBottom(q, j) == \A k \in DOMAIN q : IsClientJob(q[k]) => k = 1 /\ ~IsClientJob(j)

LEMMA BottomEmpty == ASSUME NEW j PROVE AtBottom(<<>>, j)
  BY EmptySeq DEF AtBottom

(* A thread that is done with its job has no client's job in hand.         *)
LEMMA BottomFree ==
    ASSUME NEW q, NEW j, AtBottom(q, j)
    PROVE  AtBottom(q, NoJob)
  BY DEF AtBottom, IsClientJob

(* A broadcast is put on top of what is there; a dispatch on nothing.      *)
LEMMA BottomAppend ==
    ASSUME NEW q \in Seq(Job), NEW j, NEW x \in Job, AtBottom(q, j),
           ~IsClientJob(x) \/ (q = <<>> /\ j = NoJob)
    PROVE  AtBottom(Append(q, x), j)
<1>1. /\ Append(q, x) \in Seq(Job)
      /\ Len(Append(q, x)) = Len(q) + 1
      /\ \A k \in 1..Len(q) : Append(q, x)[k] = q[k]
      /\ Append(q, x)[Len(q) + 1] = x
  BY AppendProperties
<1>2. /\ DOMAIN q = 1..Len(q) /\ Len(q) \in Nat
      /\ DOMAIN Append(q, x) = 1..(Len(q) + 1)
  BY <1>1, LenProperties
<1> DEFINE t == Append(q, x)
<1> HIDE DEF t
<1>3. \A k \in 1..(Len(q) + 1) : (k \in 1..Len(q) /\ t[k] = q[k]) \/ (k = Len(q) + 1 /\ t[k] = x)
  BY <1>1, <1>2 DEF t
<1>4. q = <<>> => Len(q) + 1 = 1
  BY EmptySeq
<1>5. ~IsClientJob(NoJob)
  BY DEF IsClientJob
<1> QED
  BY <1>2, <1>3, <1>4, <1>5 DEF AtBottom, t

(* The thread takes the newest job.                                        *)
LEMMA BottomFront ==
    ASSUME NEW q \in Seq(Job), q # <<>>, NEW j, AtBottom(q, j)
    PROVE  AtBottom(Front(q), Last(q))
<1>1. /\ Len(q) \in Nat \ {0}
      /\ Front(q) \in Seq(Job) /\ Len(Front(q)) = Len(q) - 1
      /\ \A k \in 1..(Len(q) - 1) : Front(q)[k] = q[k]
  BY FrontLast
<1>2. DOMAIN q = 1..Len(q) /\ DOMAIN Front(q) = 1..(Len(q) - 1)
  BY <1>1, LenProperties
<1>3. Last(q) = q[Len(q)]
  BY DEF Last
<1>4. ASSUME NEW k \in 1..(Len(q) - 1), IsClientJob(Front(q)[k])
      PROVE  k = 1 /\ ~IsClientJob(Last(q))
  <2>1. k \in 1..Len(q) /\ Len(q) \in 1..Len(q) /\ k # Len(q)
    BY <1>1
  <2>2. IsClientJob(q[k])
    BY <1>1, <1>4
  <2>3. k = 1 /\ (IsClientJob(q[Len(q)]) => Len(q) = 1)
    BY <1>2, <2>1, <2>2 DEF AtBottom
  <2> QED
    BY <1>3, <2>1, <2>3
<1> QED
  BY <1>2, <1>4 DEF AtBottom

(* A step that touches one drone's queue and hand at most.                 *)
LEMMA BottomOf ==
    ASSUME TypeOK, ClientJobAtBottom, NEW d \in Drone, NEW q, NEW j,
           queue' = [queue EXCEPT ![d] = q], cur' = [cur EXCEPT ![d] = j],
           AtBottom(q, j)
    PROVE  ClientJobAtBottom'
<1>1. queue'[d] = q /\ cur'[d] = j
  BY DEF TypeOK
<1>2. \A x \in Drone \ {d} : queue'[x] = queue[x] /\ cur'[x] = cur[x]
  BY DEF TypeOK
<1> QED
  BY <1>1, <1>2 DEF ClientJobAtBottom, AtBottom

LEMMA BottomManager ==
    ASSUME TypeOK, FreeListExact, ClientJobAtBottom, Manager
    PROVE  ClientJobAtBottom'
<1>1. CASE MgrDispatch
  <2> DEFINE d == Head(freeDrones)
  <2>1. d \in ToSet(freeDrones) /\ held \in Job
    BY <1>1, TailUnique DEF MgrDispatch, TypeOK, FreeListExact
  <2>2. d \in Drone /\ queue[d] = <<>> /\ cur[d] = NoJob
    BY <2>1 DEF FreeListExact, TypeOK
  <2> HIDE DEF d
  <2>3. /\ queue' = [queue EXCEPT ![d] = Append(queue[d], held)]
        /\ cur' = [cur EXCEPT ![d] = cur[d]]
    BY <1>1 DEF MgrDispatch, d, TypeOK
  <2>4. AtBottom(Append(queue[d], held), cur[d])
    BY <2>1, <2>2, BottomEmpty, BottomAppend DEF TypeOK
  <2> QED
    BY <2>2, <2>3, <2>4, BottomOf
<1>2. CASE ~MgrDispatch
  BY <1>2 DEF Manager, MgrSleepForJob, MgrTake, MgrSleepForDrone, MgrWake, ClientJobAtBottom
<1> QED
  BY <1>1, <1>2

LEMMA BottomClient ==
    ASSUME TypeOK, ClientJobAtBottom, NEW c \in Client, ClientStep(c)
    PROVE  ClientJobAtBottom'
<1>1. ASSUME NEW type \in JobType, NEW e \in Entry, Broadcast(type, e)
      PROVE  ClientJobAtBottom'
  <2> DEFINE j == [type |-> type, id |-> 0, client |-> NoClient, entry |-> e]
  <2>1. j \in Job /\ ~IsClientJob(j)
    BY BoundsAssumption DEF Job, Id, IsClientJob
  <2> HIDE DEF j
  <2>2. ASSUME NEW d \in Drone  PROVE AtBottom(queue'[d], cur'[d])
    <3>1. AtBottom(queue[d], cur[d]) /\ queue[d] \in Seq(Job)
      BY DEF ClientJobAtBottom, AtBottom, TypeOK
    <3>2. AtBottom(Append(queue[d], j), cur[d])
      BY <2>1, <3>1, BottomAppend
    <3>3. queue'[d] = queue[d] \/ queue'[d] = Append(queue[d], j)
      BY <1>1 DEF Broadcast, j
    <3>4. cur' = cur
      BY <1>1 DEF Broadcast
    <3> QED
      BY <3>1, <3>2, <3>3, <3>4
  <2> QED
    BY <2>2 DEF ClientJobAtBottom, AtBottom
<1>2. CASE UNCHANGED <<cur, queue>>
  BY <1>2 DEF ClientJobAtBottom
<1>3. \/ UNCHANGED <<cur, queue>>
      \/ \E type \in JobType, e \in Entry : Broadcast(type, e)
  BY DEF ClientStep, Judge, Import, Submit, Push, Dispose, SyncReply, PullResults, JobType
<1> QED
  BY <1>1, <1>2, <1>3

LEMMA BottomDrone ==
    ASSUME TypeOK, ClientJobAtBottom, NEW d \in Drone,
           Connect(d) \/ DroneWorks(d) \/ DroneLeaves(d)
    PROVE  ClientJobAtBottom'
<1>1. AtBottom(queue[d], cur[d]) /\ queue[d] \in Seq(Job)
  BY DEF ClientJobAtBottom, AtBottom, TypeOK
<1>2. CASE UNCHANGED <<cur, queue>>
  BY <1>2 DEF ClientJobAtBottom
<1>3. ASSUME NEW free, Unregister(d, free)  PROVE ClientJobAtBottom'
  BY <1>3, BottomOf, BottomEmpty DEF Unregister
<1>4. ASSUME NEW q, NEW j, NEW ok, NEW mine, NEW skewed, AtBottom(q, NoJob),
             FinishAndStay(d, j, q, ok, mine, skewed)
      PROVE  ClientJobAtBottom'
  BY <1>4, BottomOf DEF FinishAndStay
<1>5. AtBottom(queue[d], NoJob)
  BY <1>1, BottomFree
<1>6. ASSUME NEW ok, NEW mine, NEW skewed, Finish(d, ok, mine, skewed)
      PROVE  ClientJobAtBottom'
  BY <1>3, <1>4, <1>5, <1>6 DEF Finish, FinishAndLeave
<1>7. queue[d] # <<>> => AtBottom(Front(queue[d]), Last(queue[d]))
  BY <1>1, BottomFront
<1>8. CASE Take(d)
  <2>1. /\ queue' = [queue EXCEPT ![d] = Front(queue[d])]
        /\ cur' = [cur EXCEPT ![d] = Last(queue[d])]
        /\ queue[d] # <<>>
    BY <1>8 DEF Take, TypeOK
  <2> QED
    BY <1>7, <2>1, BottomOf
<1>9. CASE SkipDispose(d)
  BY <1>4, <1>7, <1>9, BottomFree DEF SkipDispose
<1>10. CASE NoArchive(d)
  BY <1>4, <1>5, <1>10 DEF NoArchive
<1>11. CASE Connect(d) \/ Listed(d) \/ Ping(d) \/ Pong(d) \/ OpenArchive(d) \/ SendSource(d)
  BY <1>2, <1>11 DEF Connect, Listed, Ping, Pong, OpenArchive, SendSource
<1>12. CASE WrongPong(d) \/ LeaveIdle(d) \/ SourceMissing(d) \/ LinkBreaks(d)
  BY <1>3, <1>12 DEF WrongPong, LeaveIdle, SourceMissing, LinkBreaks, Fail
<1>13. ASSUME NEW ok, NEW s, JudgeAnswer(d, ok) \/ DestroyAnswer(d, ok, s)
       PROVE  ClientJobAtBottom'
  BY <1>6, <1>13 DEF JudgeAnswer, DestroyAnswer
<1>14. ASSUME NEW ok, NEW s, ImportAnswer(d, ok, s)  PROVE ClientJobAtBottom'
  BY <1>2, <1>6, <1>14 DEF ImportAnswer
<1> QED
  BY <1>8, <1>9, <1>10, <1>11, <1>12, <1>13, <1>14 DEF DroneWorks, DroneLeaves

-----------------------------------------------------------------------------
(***************************************************************************)
(* The manager's sleep.  A step of another thread that leaves more in a    *)
(* list than there was signals the condition of that list.                 *)
(***************************************************************************)
LEMMA RemoveFirstEmpty == ASSUME NEW e PROVE RemoveFirst(<<>>, e) = <<>>
<1>1. Len(<<>>) = 0
  BY EmptySeq
<1> QED
  BY <1>1 DEF RemoveFirst

LEMMA SleepsOn ==
    ASSUME NoLostWakeup, mgr' = mgr, woken => woken',
           jobQueue' = jobQueue \/ (mgr = "jobWait" => woken'),
           (freeDrones = <<>> => freeDrones' = <<>>) \/ (mgr = "droneWait" => woken')
    PROVE  NoLostWakeup'
  BY DEF NoLostWakeup

LEMMA WakeManager ==
    ASSUME NoLostWakeup, Manager
    PROVE  NoLostWakeup'
  BY DEF NoLostWakeup, Manager, MgrSleepForJob, MgrTake, MgrSleepForDrone, MgrDispatch, MgrWake

LEMMA WakeClient ==
    ASSUME NoLostWakeup, NEW c \in Client, ClientStep(c)
    PROVE  NoLostWakeup'
<1>1. ASSUME NEW type, NEW e, Submit(c, type, e)  PROVE NoLostWakeup'
  BY <1>1, SleepsOn DEF Submit, Signalled
<1>2. ASSUME NEW type, NEW e, Broadcast(type, e)  PROVE NoLostWakeup'
  BY <1>2, SleepsOn DEF Broadcast, FreeAfterBroadcast
<1>3. CASE (c \in SyncClient /\ SyncReply(c)) \/ (c \in ASyncClient /\ PullResults(c))
  BY <1>3, SleepsOn DEF SyncReply, PullResults
<1> QED
  BY <1>1, <1>2, <1>3 DEF ClientStep, Judge, Import, Push, Dispose

LEMMA WakeDrone ==
    ASSUME NoLostWakeup, NEW d \in Drone, Connect(d) \/ DroneWorks(d) \/ DroneLeaves(d)
    PROVE  NoLostWakeup'
<1>1. CASE UNCHANGED <<mgrVars, freeDrones>>
  BY <1>1, SleepsOn
<1>2. CASE Connect(d)
  BY <1>2, SleepsOn DEF Connect, Signalled
<1>3. ASSUME Unregister(d, freeDrones), mgr' = mgr, woken => woken',
             jobQueue' = jobQueue \/ (mgr = "jobWait" => woken')
      PROVE  NoLostWakeup'
  BY <1>3, SleepsOn, RemoveFirstEmpty DEF Unregister, FreeWithout
<1>4. CASE WrongPong(d) \/ LeaveIdle(d)
  BY <1>3, <1>4 DEF WrongPong, LeaveIdle
<1>5. CASE Fail(d)
  BY <1>3, <1>5 DEF Fail, Signalled
<1>6. ASSUME NEW j, NEW q, NEW ok, NEW mine, NEW skewed,
             FinishAndStay(d, j, q, ok, mine, skewed)
      PROVE  NoLostWakeup'
  BY <1>6, SleepsOn DEF FinishAndStay, FreedDrones, FreeSignal, Signalled
<1>7. ASSUME NEW j, NEW ok, FinishAndLeave(d, j, ok)  PROVE NoLostWakeup'
  BY <1>7, SleepsOn, RemoveFirstEmpty
  DEF FinishAndLeave, Unregister, FreeWithout, FreedDrones, FreeSignal, Signalled
<1>8. ASSUME NEW ok, NEW mine, NEW skewed, Finish(d, ok, mine, skewed)
      PROVE  NoLostWakeup'
  BY <1>6, <1>7, <1>8 DEF Finish
<1>9. CASE Listed(d) \/ Ping(d) \/ Pong(d) \/ Take(d) \/ OpenArchive(d) \/ SendSource(d)
  BY <1>1, <1>9 DEF Listed, Ping, Pong, Take, OpenArchive, SendSource
<1>10. CASE SkipDispose(d) \/ NoArchive(d)
  BY <1>6, <1>10 DEF SkipDispose, NoArchive
<1>11. CASE SourceMissing(d) \/ LinkBreaks(d)
  BY <1>5, <1>11 DEF SourceMissing, LinkBreaks
<1>12. ASSUME NEW ok, NEW s, JudgeAnswer(d, ok) \/ DestroyAnswer(d, ok, s)
       PROVE  NoLostWakeup'
  BY <1>8, <1>12 DEF JudgeAnswer, DestroyAnswer
<1>13. ASSUME NEW ok, NEW s, ImportAnswer(d, ok, s)  PROVE NoLostWakeup'
  BY <1>1, <1>8, <1>13 DEF ImportAnswer
<1> QED
  BY <1>2, <1>4, <1>9, <1>10, <1>11, <1>12, <1>13 DEF DroneWorks, DroneLeaves

-----------------------------------------------------------------------------
(***************************************************************************)
(* The entries and their archives: only a dispose removes an archive, and  *)
(* it removes the entry in the same critical section.                      *)
(***************************************************************************)
LEMMA ArchivesClient ==
    ASSUME EntriesHaveArchive, NEW c \in Client, ClientStep(c)
    PROVE  EntriesHaveArchive'
<1>1. CASE UNCHANGED <<entries, repo>>
  BY <1>1 DEF EntriesHaveArchive
<1>2. ASSUME NEW e, Dispose(c, e)  PROVE EntriesHaveArchive'
  BY <1>2 DEF Dispose, EntriesHaveArchive
<1> QED
  BY <1>1, <1>2 DEF ClientStep, Judge, Import, Submit, Push, SyncReply, PullResults

LEMMA ArchivesDrone ==
    ASSUME EntriesHaveArchive, NEW d \in Drone,
           Connect(d) \/ DroneWorks(d) \/ DroneLeaves(d)
    PROVE  EntriesHaveArchive'
<1>1. CASE UNCHANGED <<entries, repo>>
  BY <1>1 DEF EntriesHaveArchive
<1>2. ASSUME NEW ok, NEW s, ImportAnswer(d, ok, s)  PROVE EntriesHaveArchive'
  BY <1>2 DEF ImportAnswer, EntriesHaveArchive
<1>3. ASSUME NEW ok, NEW s, DestroyAnswer(d, ok, s)  PROVE EntriesHaveArchive'
  BY <1>3 DEF DestroyAnswer, EntriesHaveArchive
<1>4. CASE Connect(d) \/ Listed(d) \/ Ping(d) \/ Pong(d) \/ WrongPong(d) \/ LeaveIdle(d)
           \/ Take(d) \/ SkipDispose(d) \/ OpenArchive(d) \/ NoArchive(d) \/ SendSource(d)
  BY <1>1, <1>4 DEF Connect, Listed, Ping, Pong, WrongPong, LeaveIdle, Take, SkipDispose,
     OpenArchive, NoArchive, SendSource
<1>5. CASE SourceMissing(d) \/ LinkBreaks(d)
  BY <1>1, <1>5 DEF SourceMissing, LinkBreaks, Fail
<1>6. ASSUME NEW ok, JudgeAnswer(d, ok)  PROVE EntriesHaveArchive'
  BY <1>1, <1>6 DEF JudgeAnswer
<1> QED
  BY <1>2, <1>3, <1>4, <1>5, <1>6 DEF DroneWorks, DroneLeaves

-----------------------------------------------------------------------------
(***************************************************************************)
(* The three facts are inductive together, and not apart.                  *)
(***************************************************************************)
IInv == TypeOK /\ ThreadsMatchJobs /\ FreeListExact

LEMMA Invariance == Spec => []IInv
<1>1. Init => IInv
  BY InitType, ThreadsInit, FreeInit DEF IInv
<1>2. IInv /\ [Next]_vars => IInv'
  BY NextType, NextThreads, NextFree DEF IInv
<1> QED
  BY <1>1, <1>2, PTL DEF Spec

(***************************************************************************)
(* Whatever the drones, clients, entries and bounds, the overlord's state  *)
(* keeps its types: in particular a drone's thread that works has a job,   *)
(* and the job manager hands out no job it has not taken.                  *)
(***************************************************************************)
THEOREM TypeCorrect == Spec => []TypeOK
  BY Invariance, PTL DEF IInv

(***************************************************************************)
(* In every behaviour the registered drones are those whose threads run,   *)
(* each with a job in hand exactly while it works, and no job lies in the  *)
(* queue of a thread that has ended, in spite of broadcasts, exceptions    *)
(* and reconnections (JobManager::addJob, run, unregisterDrone).           *)
(***************************************************************************)
THEOREM ThreadsCorrect == Spec => []ThreadsMatchJobs
  BY Invariance, PTL DEF IInv

(***************************************************************************)
(* In every behaviour JobManager::freeDrones holds each registered drone   *)
(* without work exactly once and no other: the dispatcher gives no job to  *)
(* a busy drone or to one that has left.                                   *)
(***************************************************************************)
THEOREM FreeListCorrect == Spec => []FreeListExact
  BY Invariance, PTL DEF IInv

(***************************************************************************)
(* In every behaviour a client's job lies at the bottom of a drone's queue *)
(* or in the thread's hand and never in both, under everything a push or   *)
(* a dispose has put on top of it (JobManager::run and addJob, and the     *)
(* back of the list that Drone::run_ takes).                               *)
(***************************************************************************)
THEOREM ClientJobsAtBottom == Spec => []ClientJobAtBottom
<1>1. Init => ClientJobAtBottom
  BY EmptySeq DEF Init, ClientJobAtBottom
<1>2. IInv /\ ClientJobAtBottom /\ [Next]_vars => ClientJobAtBottom'
  <2>1. CASE UNCHANGED vars
    BY <2>1 DEF ClientJobAtBottom
  <2> QED
    BY <2>1, BottomManager, BottomClient, BottomDrone DEF IInv, Next
<1> QED
  BY <1>1, <1>2, Invariance, PTL DEF Spec

(***************************************************************************)
(* In every behaviour the manager sleeps unsignalled on a condition only   *)
(* while the list it waits for is empty: no job is added and no drone is   *)
(* freed without a signal it would need (JobManager::addJob, freeDrone,    *)
(* registerDrone and run).                                                 *)
(***************************************************************************)
THEOREM WakeupsKept == Spec => []NoLostWakeup
<1>1. Init => NoLostWakeup
  BY DEF Init, NoLostWakeup
<1>2. NoLostWakeup /\ [Next]_vars => NoLostWakeup'
  <2>1. CASE UNCHANGED vars
    BY <2>1 DEF NoLostWakeup
  <2> QED
    BY <2>1, WakeManager, WakeClient, WakeDrone DEF Next
<1> QED
  BY <1>1, <1>2, PTL DEF Spec

(***************************************************************************)
(* In every behaviour an entry judges are accepted for has its archive in  *)
(* the repository, from which a drone without the entry is sent it         *)
(* (Client::handleCommand, Drone::run_).                                   *)
(***************************************************************************)
THEOREM ArchivesKept == Spec => []EntriesHaveArchive
<1>1. Init => EntriesHaveArchive
  BY DEF Init, EntriesHaveArchive
<1>2. EntriesHaveArchive /\ [Next]_vars => EntriesHaveArchive'
  <2>1. CASE UNCHANGED vars \/ Manager
    BY <2>1 DEF EntriesHaveArchive, Manager, MgrSleepForJob, MgrTake, MgrSleepForDrone,
       MgrDispatch, MgrWake
  <2> QED
    BY <2>1, ArchivesClient, ArchivesDrone DEF Next
<1> QED
  BY <1>1, <1>2, PTL DEF Spec

=============================================================================
