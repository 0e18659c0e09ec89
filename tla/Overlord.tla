------------------------------ MODULE Overlord ------------------------------
(***************************************************************************)
(* The overlord process: the job manager, one thread per connected client, *)
(* one thread per connected drone and the state they share under the big   *)
(* lock, together with the disk of each drone as far as the overlord's     *)
(* requests change it.                                                     *)
(*                                                                         *)
(* Every action is one critical section of the big lock (what a thread     *)
(* does between two releases of it) or one step taken with the lock        *)
(* released.  The job manager's critical section is cut into the steps of  *)
(* its loop; while it runs it holds the lock and no other thread enters    *)
(* (LockFree).  A message, a file's content, a language are abstracted     *)
(* away; what is kept of an answer is whether its run code is zero.        *)
(***************************************************************************)
EXTENDS Integers, FiniteSets, SequencesExt

CONSTANTS
    Drone,        \* drone programs, each with a disk of its own
    SyncClient,   \* connections of type "syncclient"
    ASyncClient,  \* cookies of "asyncclient" connections (they share an object)
    Entry,        \* names that pass validateEntryName
    MaxJobs,      \* bound: job ids handed out (the code's counter is 64 bits)
    MaxConnects,  \* bound: connections made by drones
    NoJob,        \* NULL job
    NoClient      \* NULL client

ASSUME BoundsAssumption == MaxJobs \in Nat \ {0} /\ MaxConnects \in Nat
ASSUME ClientAssumption ==
    /\ SyncClient \cap ASyncClient = {}
    /\ NoClient \notin SyncClient \cup ASyncClient

Client == SyncClient \cup ASyncClient

Id == 0..(MaxJobs - 1)

JobType == {"import", "judge", "dispose", "push"}

Job == [type : JobType, id : Id, client : Client \cup {NoClient}, entry : Entry]

ASSUME NoJobAssumption == NoJob \notin Job

VARIABLES
    jobQueue,    \* JobManager::jobQueue
    freeDrones,  \* JobManager::freeDrones
    drones,      \* JobManager::drones
    idc,         \* JobManager::idc
    mgr,         \* where the manager thread is: running, or asleep on a Cond
    woken,       \* the Cond the manager sleeps on has been signalled
    held,        \* the job popped from jobQueue, a local of JobManager::run
    queue,       \* queue[d]: Drone::jobQueue
    cur,         \* cur[d]: the job d's thread is processing
    dpc,         \* dpc[d]: where d's thread is
    myEntries,   \* Drone::myEntries
    skew,        \* skew[d]: requests and answers on d's last link are out of step
    disk,        \* disk[d][e]: e's directory on the drone's machine
    waitFor,     \* waitFor[c]: the job a sync client's thread waits for
    slot,        \* slot[c]: SyncClient::job
    results,     \* results[c]: ASyncClient::results
    entries,     \* the overlord's set of entries
    repo,        \* the names with an archive in overlordEntries/
    tmp,         \* the ids of jobs whose temporary file exists
    asked,       \* history: asked[i] is the client's job with id i
    answer,      \* history: answer[i] is what jobDone gave the client
    connects     \* drone connections so far

mgrVars == <<jobQueue, mgr, woken, held>>
poolVars == <<freeDrones, drones>>
droneVars == <<queue, cur, dpc, myEntries, skew>>
clientVars == <<waitFor, slot, results>>
fileVars == <<entries, repo, tmp>>
historyVars == <<asked, answer>>
vars == <<mgrVars, poolVars, droneVars, disk, clientVars, fileVars,
          historyVars, idc, connects>>

DiskState == {"absent", "broken", "ready"}

DroneState == {"off", "listing", "waiting", "pinging", "opening", "noArchive",
               "importing", "sending", "judging", "destroying"}

(***************************************************************************)
(* The big lock is free for a thread that wants it: the manager sleeps.    *)
(***************************************************************************)
LockFree == mgr # "run"

(***************************************************************************)
(* Cond::signal, for the two conditions only the manager waits on.         *)
(***************************************************************************)
Signalled(cond) == woken \/ mgr = cond

-----------------------------------------------------------------------------
(***************************************************************************)
(* JobManager::run                                                         *)
(***************************************************************************)
MgrSleepForJob ==
    /\ mgr = "run" /\ held = NoJob /\ jobQueue = <<>>
    /\ mgr' = "jobWait"
    /\ UNCHANGED <<jobQueue, woken, held, poolVars, droneVars, disk, clientVars,
                   fileVars, historyVars, idc, connects>>

MgrTake ==
    /\ mgr = "run" /\ held = NoJob /\ jobQueue # <<>>
    /\ held' = Head(jobQueue)
    /\ jobQueue' = Tail(jobQueue)
    /\ UNCHANGED <<mgr, woken, poolVars, droneVars, disk, clientVars, fileVars,
                   historyVars, idc, connects>>

MgrSleepForDrone ==
    /\ mgr = "run" /\ held # NoJob /\ freeDrones = <<>>
    /\ mgr' = "droneWait"
    /\ UNCHANGED <<jobQueue, woken, held, poolVars, droneVars, disk, clientVars,
                   fileVars, historyVars, idc, connects>>

\* Mutant: a free drone is popped and served without a job having been taken.
MgrDispatchNothing ==
    /\ mgr = "run" /\ freeDrones # <<>>
    /\ queue' = [queue EXCEPT ![Head(freeDrones)] = Append(@, held)]
    /\ freeDrones' = Tail(freeDrones)
    /\ held' = NoJob
    /\ UNCHANGED <<jobQueue, mgr, woken, drones, cur, dpc, myEntries, skew, disk,
                   clientVars, fileVars, historyVars, idc, connects>>

MgrDispatch ==
    /\ mgr = "run" /\ held # NoJob /\ freeDrones # <<>>
    /\ queue' = [queue EXCEPT ![Head(freeDrones)] = Append(@, held)]
    /\ freeDrones' = Tail(freeDrones)
    /\ held' = NoJob
    /\ UNCHANGED <<jobQueue, mgr, woken, drones, cur, dpc, myEntries, skew, disk,
                   clientVars, fileVars, historyVars, idc, connects>>

MgrWake ==
    /\ mgr # "run" /\ woken
    /\ mgr' = "run"
    /\ woken' = FALSE
    /\ UNCHANGED <<jobQueue, held, poolVars, droneVars, disk, clientVars, fileVars,
                   historyVars, idc, connects>>

Manager == MgrSleepForJob \/ MgrTake \/ MgrSleepForDrone \/ MgrDispatch \/ MgrWake

-----------------------------------------------------------------------------
\* Mutant: a sync client's connection goes on reading commands while it waits.
ReadsAhead(c) == LockFree /\ c \in Client /\ idc < MaxJobs

(***************************************************************************)
(* Client::handleCommand.  A command that is refused (an invalid or        *)
(* unknown entry, a name in use, a bad command) and "status", "list" and   *)
(* "identify" leave the shared state alone, so they are no step.  A sync   *)
(* client's connection is served by one thread, which does not read the    *)
(* next command while it waits in jobHook.                                 *)
(***************************************************************************)
ReadsCommand(c) ==
    /\ LockFree
    /\ c \in SyncClient => waitFor[c] = NoJob
    /\ idc < MaxJobs

(***************************************************************************)
(* JobManager::addJob for an import or a judge, then the client's jobHook: *)
(* a sync client starts waiting, an async one has its answer "pending".    *)
(***************************************************************************)
Submit(c, type, e) ==
    LET j == [type |-> type, id |-> idc, client |-> c, entry |-> e]
    IN /\ idc' = idc + 1
       /\ jobQueue' = Append(jobQueue, j)
       /\ woken' = Signalled("jobWait")
       /\ tmp' = tmp \cup {idc}
       /\ asked' = [asked EXCEPT ![idc] = j]
       /\ waitFor' = IF c \in SyncClient THEN [waitFor EXCEPT ![c] = j] ELSE waitFor
       /\ UNCHANGED <<mgr, held, poolVars, droneVars, disk, slot, results, entries,
                      repo, answer, connects>>

Judge(c, e) == ReadsCommand(c) /\ e \in entries /\ Submit(c, "judge", e)

Import(c, e) == ReadsCommand(c) /\ e \notin entries /\ Submit(c, "import", e)

(***************************************************************************)
(* JobManager::addJob for a push or a dispose: a copy without a client for *)
(* every registered drone, and no drone is free any more.                  *)
(***************************************************************************)
Everyone == Drone  \* mutant: objects whose thread has ended still get a copy
Recipients == drones

NoClear == freeDrones  \* mutant: the call of freeDrones.clear() is missing
FreeAfterBroadcast == <<>>

Broadcast(type, e) ==
    LET j == [type |-> type, id |-> 0, client |-> NoClient, entry |-> e]
    IN /\ idc' = idc + 1
       /\ queue' = [d \in Drone |->
                       IF d \in Recipients THEN Append(queue[d], j) ELSE queue[d]]
       /\ freeDrones' = FreeAfterBroadcast
       /\ UNCHANGED <<mgrVars, drones, cur, dpc, myEntries, skew, disk, clientVars,
                      tmp, historyVars, connects>>

Push(c, e) ==
    /\ ReadsCommand(c)
    /\ e \in entries
    /\ Broadcast("push", e)
    /\ UNCHANGED <<entries, repo>>

\* Mutant: the entry leaves the overlord's set only when a drone has destroyed it.
DisposeErasesLate(c, e) ==
    /\ ReadsCommand(c)
    /\ Broadcast("dispose", e)
    /\ repo' = repo \ {e}
    /\ UNCHANGED entries

Dispose(c, e) ==
    /\ ReadsCommand(c)
    /\ Broadcast("dispose", e)
    /\ entries' = entries \ {e}
    /\ repo' = repo \ {e}

(***************************************************************************)
(* The rest of SyncClient::jobHook, once jobDone has filled the slot.      *)
(***************************************************************************)
SyncReply(c) ==
    /\ LockFree
    /\ waitFor[c] # NoJob /\ slot[c] # NoJob
    /\ slot' = [slot EXCEPT ![c] = NoJob]
    /\ waitFor' = [waitFor EXCEPT ![c] = NoJob]
    /\ UNCHANGED <<mgrVars, poolVars, droneVars, disk, results, fileVars, historyVars,
                   idc, connects>>

(***************************************************************************)
(* "pullresults": the results are copied and cleared under the lock, then  *)
(* written without it.                                                     *)
(***************************************************************************)
PullResults(c) ==
    /\ LockFree
    /\ results' = [results EXCEPT ![c] = <<>>]
    /\ UNCHANGED <<mgrVars, poolVars, droneVars, disk, waitFor, slot, fileVars,
                   historyVars, idc, connects>>

ClientStep(c) ==
    \/ \E e \in Entry : Judge(c, e) \/ Import(c, e) \/ Push(c, e) \/ Dispose(c, e)
    \/ c \in SyncClient /\ SyncReply(c)
    \/ c \in ASyncClient /\ PullResults(c)

-----------------------------------------------------------------------------
(***************************************************************************)
(* What is on the disk of a drone that connects.  On a link out of step    *)
(* the drone is behind or ahead of the overlord, and what it did to a      *)
(* directory, before it noticed that the link had ended, is not tied to    *)
(* the answers that were read.                                             *)
(***************************************************************************)
FoundOnDisk(d) == IF skew[d] THEN [Entry -> DiskState] ELSE {disk[d]}

(***************************************************************************)
(* Drone::run: a new Drone object is registered, and free, before it has   *)
(* asked its drone for the list of entries.                                *)
(***************************************************************************)
Connect(d) ==
    /\ LockFree
    /\ dpc[d] = "off" /\ connects < MaxConnects
    /\ connects' = connects + 1
    /\ drones' = drones \cup {d}
    /\ freeDrones' = Append(freeDrones, d)
    /\ woken' = Signalled("droneWait")
    /\ dpc' = [dpc EXCEPT ![d] = "listing"]
    /\ skew' = [skew EXCEPT ![d] = FALSE]
    /\ \E found \in FoundOnDisk(d) : disk' = [disk EXCEPT ![d] = found]
    /\ UNCHANGED <<jobQueue, mgr, held, queue, cur, myEntries, clientVars, fileVars,
                   historyVars, idc>>

(***************************************************************************)
(* The thread ends: Drone::run unregisters the object, which is destroyed  *)
(* with its job queue and its myEntries.                                   *)
(***************************************************************************)
StaysFree(d, free) == free  \* mutant: the drone is not taken off the free list
FreeWithout(d, free) == RemoveFirst(free, d)

Unregister(d, free) ==
    /\ drones' = drones \ {d}
    /\ freeDrones' = FreeWithout(d, free)
    /\ queue' = [queue EXCEPT ![d] = <<>>]
    /\ cur' = [cur EXCEPT ![d] = NoJob]
    /\ dpc' = [dpc EXCEPT ![d] = "off"]
    /\ myEntries' = [myEntries EXCEPT ![d] = {}]
    /\ UNCHANGED skew

(***************************************************************************)
(* The answer to "list" has been read: every directory the drone has.      *)
(***************************************************************************)
Unreadable(d) == {}  \* mutant: the drone cannot open its directory of entries
Directories(d) == {e \in Entry : disk[d][e] # "absent"}

Listed(d) ==
    /\ LockFree
    /\ dpc[d] = "listing"
    /\ myEntries' = [myEntries EXCEPT ![d] = Directories(d)]
    /\ dpc' = [dpc EXCEPT ![d] = "waiting"]
    /\ UNCHANGED <<mgrVars, poolVars, queue, cur, skew, disk, clientVars, fileVars,
                   historyVars, idc, connects>>

(***************************************************************************)
(* The wait for a job ends, by a signal or after ten seconds, with nothing *)
(* in the queue: a ping is sent.                                           *)
(***************************************************************************)
Ping(d) ==
    /\ LockFree
    /\ dpc[d] = "waiting" /\ queue[d] = <<>>
    /\ dpc' = [dpc EXCEPT ![d] = "pinging"]
    /\ UNCHANGED <<mgrVars, poolVars, queue, cur, myEntries, skew, disk, clientVars,
                   fileVars, historyVars, idc, connects>>

Pong(d) ==
    /\ LockFree
    /\ dpc[d] = "pinging" /\ ~skew[d]
    /\ dpc' = [dpc EXCEPT ![d] = "waiting"]
    /\ UNCHANGED <<mgrVars, poolVars, queue, cur, myEntries, skew, disk, clientVars,
                   fileVars, historyVars, idc, connects>>

(***************************************************************************)
(* The answer to the ping is not "pong": on a link out of step it belongs  *)
(* to an earlier request.                                                  *)
(***************************************************************************)
WrongPong(d) ==
    /\ LockFree
    /\ dpc[d] = "pinging" /\ skew[d]
    /\ Unregister(d, freeDrones)
    /\ UNCHANGED <<mgrVars, disk, clientVars, fileVars, historyVars, idc, connects>>

(***************************************************************************)
(* The link breaks while the thread has no job in hand.                    *)
(***************************************************************************)
LeaveIdle(d) ==
    /\ LockFree
    /\ dpc[d] \in {"listing", "pinging"}
    /\ Unregister(d, freeDrones)
    /\ UNCHANGED <<mgrVars, disk, clientVars, fileVars, historyVars, idc, connects>>

-----------------------------------------------------------------------------
(***************************************************************************)
(* Drone::run_ takes the newest job of its queue.  An import, a push, and  *)
(* a judge of an entry the drone is not known to have, start by sending an *)
(* archive; a dispose of such an entry is finished at once.                *)
(***************************************************************************)
StartsIn(d, j) ==
    CASE j.type \in {"import", "push"} -> "opening"
      [] j.type = "judge" -> IF j.entry \in myEntries[d] THEN "sending" ELSE "opening"
      [] j.type = "dispose" -> "destroying"

NothingToDispose(d, j) == j.type = "dispose" /\ j.entry \notin myEntries[d]

Take(d) ==
    LET j == Last(queue[d])
    IN /\ LockFree
       /\ dpc[d] = "waiting" /\ queue[d] # <<>> /\ ~NothingToDispose(d, j)
       /\ queue' = [queue EXCEPT ![d] = Front(@)]
       /\ cur' = [cur EXCEPT ![d] = j]
       /\ dpc' = [dpc EXCEPT ![d] = StartsIn(d, j)]
       /\ UNCHANGED <<mgrVars, poolVars, myEntries, skew, disk, clientVars, fileVars,
                      historyVars, idc, connects>>

\* Mutant: jobDone is called for a run code of zero only.
JobDoneOnlyGood(j, ok) ==
    /\ slot' = IF ok /\ j.client \in SyncClient
               THEN [slot EXCEPT ![j.client] = j] ELSE slot
    /\ results' = IF ok /\ j.client \in ASyncClient
                  THEN [results EXCEPT ![j.client] = Append(@, j)] ELSE results
    /\ answer' = IF ok /\ j.client # NoClient
                 THEN [answer EXCEPT ![j.id] = "ok"] ELSE answer

(***************************************************************************)
(* Client::jobDone, for a job that has a client.                           *)
(***************************************************************************)
JobDone(j, ok) ==
    /\ slot' = IF j.client \in SyncClient THEN [slot EXCEPT ![j.client] = j] ELSE slot
    /\ results' = IF j.client \in ASyncClient
                  THEN [results EXCEPT ![j.client] = Append(@, j)] ELSE results
    /\ answer' = IF j.client # NoClient
                 THEN [answer EXCEPT ![j.id] = IF ok THEN "ok" ELSE "failed"] ELSE answer

(***************************************************************************)
(* JobManager::freeDrone, called when q, what is left of the queue, is     *)
(* empty.                                                                  *)
(***************************************************************************)
NotFreed(d, q) == freeDrones  \* mutant: the drone is not freed after a job
FreedDrones(d, q) == IF q = <<>> THEN Append(freeDrones, d) ELSE freeDrones

NoSignal(q) == woken  \* mutant: droneCond is not signalled
FreeSignal(q) == IF q = <<>> THEN Signalled("droneWait") ELSE woken

(***************************************************************************)
(* The end of the loop body after job j: the thread waits for the next     *)
(* job.                                                                    *)
(***************************************************************************)
FinishAndStay(d, j, q, ok, mine, skewed) ==
    /\ JobDone(j, ok)
    /\ cur' = [cur EXCEPT ![d] = NoJob]
    /\ queue' = [queue EXCEPT ![d] = q]
    /\ dpc' = [dpc EXCEPT ![d] = "waiting"]
    /\ myEntries' = [myEntries EXCEPT ![d] = mine]
    /\ skew' = [skew EXCEPT ![d] = skewed]
    /\ freeDrones' = FreedDrones(d, q)
    /\ woken' = FreeSignal(q)
    /\ UNCHANGED <<jobQueue, mgr, held, drones, waitFor, asked, idc, connects>>

\* Mutant: the end of the link after the run code is taken for an exception, so
\* that a job that is done is queued again.
FinishAndRequeue(d, j, ok) ==
    /\ JobDone(j, ok)
    /\ Unregister(d, FreedDrones(d, queue[d]))
    /\ jobQueue' = IF j.client # NoClient THEN Append(jobQueue, j) ELSE jobQueue
    /\ woken' = TRUE
    /\ UNCHANGED <<mgr, held, waitFor, asked, idc, connects>>

(***************************************************************************)
(* The same when the answer's run code was read but the link then ended:   *)
(* the job counts as done, and the loop's condition ends the thread.       *)
(***************************************************************************)
FinishAndLeave(d, j, ok) ==
    /\ JobDone(j, ok)
    /\ Unregister(d, FreedDrones(d, queue[d]))
    /\ woken' = FreeSignal(queue[d])
    /\ UNCHANGED <<jobQueue, mgr, held, waitFor, asked, idc, connects>>

Finish(d, ok, mine, skewed) ==
    \/ FinishAndStay(d, cur[d], queue[d], ok, mine, skewed)
    \/ FinishAndLeave(d, cur[d], ok)

SkipDispose(d) ==
    LET j == Last(queue[d])
    IN /\ LockFree
       /\ dpc[d] = "waiting" /\ queue[d] # <<>> /\ NothingToDispose(d, j)
       /\ FinishAndStay(d, j, Front(queue[d]), TRUE, myEntries[d], skew[d])
       /\ UNCHANGED <<disk, fileVars>>

(***************************************************************************)
(* Drone::import opens the archive, with the lock released, after it has   *)
(* sent the request and the name: the temporary file of an import, the     *)
(* repository's file otherwise.                                            *)
(***************************************************************************)
HasArchive(j) == IF j.type = "import" THEN j.id \in tmp ELSE j.entry \in repo

OpenArchive(d) ==
    /\ dpc[d] = "opening"
    /\ dpc' = [dpc EXCEPT ![d] = IF HasArchive(cur[d]) THEN "importing" ELSE "noArchive"]
    /\ UNCHANGED <<mgrVars, poolVars, queue, cur, myEntries, skew, disk, clientVars,
                   fileVars, historyVars, idc, connects>>

(***************************************************************************)
(* Without an archive the job ends with an internal error while the drone  *)
(* still waits for the archive: from here on the link is out of step.      *)
(***************************************************************************)
NoArchive(d) ==
    /\ LockFree
    /\ dpc[d] = "noArchive"
    /\ FinishAndStay(d, cur[d], queue[d], FALSE, myEntries[d], TRUE)
    /\ tmp' = IF cur[d].type = "import" THEN tmp \ {cur[d].id} ELSE tmp
    /\ UNCHANGED <<disk, entries, repo>>

(***************************************************************************)
(* A drone that answers before it has read all of the request takes the    *)
(* rest for its next command: an archive that tar gives up on, a source in *)
(* a language it does not know, a file of 128 kilobytes or more.           *)
(***************************************************************************)
SkewAfter(d) == {skew[d], TRUE}

(***************************************************************************)
(* The answer to "import": zero says the directory is complete, anything   *)
(* else that it was removed or left half done.  On a link out of step the  *)
(* answer read belongs to another request.  An import then moves its       *)
(* archive into the repository, or deletes it; a judge goes on to send its *)
(* source, or fails.                                                       *)
(***************************************************************************)
ImportAnswer(d, ok, s) ==
    LET j == cur[d]
        mine == IF ok THEN myEntries[d] \cup {j.entry} ELSE myEntries[d]
    IN /\ LockFree
       /\ dpc[d] = "importing"
       /\ IF skew[d] THEN s = disk[d][j.entry] ELSE ok <=> s = "ready"
       /\ disk' = [disk EXCEPT ![d][j.entry] = s]
       /\ \/ /\ j.type # "judge" \/ ~ok
             /\ \E skewed \in SkewAfter(d) : Finish(d, ok, mine, skewed)
          \/ /\ j.type = "judge" /\ ok
             /\ myEntries' = [myEntries EXCEPT ![d] = mine]
             /\ dpc' = [dpc EXCEPT ![d] = "sending"]
             /\ \E skewed \in SkewAfter(d) : skew' = [skew EXCEPT ![d] = skewed]
             /\ UNCHANGED <<mgrVars, poolVars, queue, cur, clientVars, historyVars,
                            idc, connects>>
       /\ IF j.type = "import"
          THEN /\ tmp' = tmp \ {j.id}
               /\ entries' = IF ok THEN entries \cup {j.entry} ELSE entries
               /\ repo' = IF ok THEN repo \cup {j.entry} ELSE repo
          ELSE UNCHANGED fileVars

(***************************************************************************)
(* A judge sends its source, which is deleted as soon as it is sent.       *)
(***************************************************************************)
SendSource(d) ==
    /\ dpc[d] = "sending" /\ cur[d].id \in tmp
    /\ dpc' = [dpc EXCEPT ![d] = "judging"]
    /\ tmp' = tmp \ {cur[d].id}
    /\ UNCHANGED <<mgrVars, poolVars, queue, cur, myEntries, skew, disk, clientVars,
                   entries, repo, historyVars, idc, connects>>

(***************************************************************************)
(* The answer to "judge".                                                  *)
(***************************************************************************)
JudgeAnswer(d, ok) ==
    /\ LockFree
    /\ dpc[d] = "judging"
    /\ ok => skew[d] \/ disk[d][cur[d].entry] # "absent"
    /\ \E skewed \in SkewAfter(d) : Finish(d, ok, myEntries[d], skewed)
    /\ UNCHANGED <<disk, fileVars>>

(***************************************************************************)
(* The answer to "destroy": the entry leaves the overlord's set a second   *)
(* time, and stays in myEntries.                                           *)
(***************************************************************************)
DestroyAnswer(d, ok, s) ==
    /\ LockFree
    /\ dpc[d] = "destroying"
    /\ IF skew[d] THEN s = disk[d][cur[d].entry] ELSE ok /\ s = "absent"
    /\ disk' = [disk EXCEPT ![d][cur[d].entry] = s]
    /\ entries' = IF ok THEN entries \ {cur[d].entry} ELSE entries
    /\ Finish(d, ok, myEntries[d], skew[d])
    /\ UNCHANGED <<repo, tmp>>

(***************************************************************************)
(* An exception while a job is processed: the job of a client goes back to *)
(* the end of the manager's queue, a broadcast is dropped, and the thread  *)
(* ends with the rest of its own queue.                                    *)
(***************************************************************************)
AllUnlinked(j) == tmp \ {j.id}  \* mutant: its temporary file is deleted
TmpAfterFailure(j) == tmp

Fail(d) ==
    LET j == cur[d]
        again == j.type \notin {"push", "dispose"}
    IN /\ LockFree
       /\ jobQueue' = IF again THEN Append(jobQueue, j) ELSE jobQueue
       /\ woken' = IF again THEN Signalled("jobWait") ELSE woken
       /\ tmp' = TmpAfterFailure(j)
       /\ Unregister(d, freeDrones)
       /\ UNCHANGED <<mgr, held, clientVars, entries, repo, historyVars, idc,
                      connects>>

(***************************************************************************)
(* What the drone may leave on its disk when its link breaks: anything,    *)
(* once it has the archive; a partly or wholly removed directory, when it  *)
(* was destroying it or got the request to import it without an archive.   *)
(***************************************************************************)
LeftOnDisk(d) ==
    LET now == disk[d][cur[d].entry]
    IN CASE dpc[d] = "importing" -> DiskState
         [] dpc[d] \in {"opening", "destroying"} -> {now, "absent", "broken"}
         [] OTHER -> {now}

LinkBreaks(d) ==
    /\ dpc[d] \in {"opening", "importing", "sending", "judging", "destroying"}
    /\ \E s \in LeftOnDisk(d) : disk' = [disk EXCEPT ![d][cur[d].entry] = s]
    /\ Fail(d)

(***************************************************************************)
(* The source of a judge that was sent before is gone: open() fails.       *)
(***************************************************************************)
SourceMissing(d) ==
    /\ dpc[d] = "sending" /\ cur[d].id \notin tmp
    /\ Fail(d)
    /\ UNCHANGED disk

DroneWorks(d) ==
    \/ Listed(d) \/ Ping(d) \/ Pong(d) \/ WrongPong(d) \/ Take(d) \/ SkipDispose(d)
    \/ OpenArchive(d) \/ NoArchive(d)
    \/ SendSource(d) \/ SourceMissing(d)
    \/ \E ok \in BOOLEAN : JudgeAnswer(d, ok)
    \/ \E ok \in BOOLEAN, s \in DiskState : ImportAnswer(d, ok, s) \/ DestroyAnswer(d, ok, s)

DroneLeaves(d) == LeaveIdle(d) \/ LinkBreaks(d)

-----------------------------------------------------------------------------
(***************************************************************************)
(* main: the entries are the files of the repository; nothing else of an   *)
(* earlier run is known, while the drones keep their disks.                *)
(***************************************************************************)
Init ==
    /\ repo \in SUBSET Entry
    /\ entries = repo
    /\ disk \in [Drone -> [Entry -> {"absent", "ready"}]]
    /\ jobQueue = <<>> /\ freeDrones = <<>> /\ drones = {}
    /\ idc = 0 /\ connects = 0
    /\ mgr = "run" /\ woken = FALSE /\ held = NoJob
    /\ queue = [d \in Drone |-> <<>>]
    /\ cur = [d \in Drone |-> NoJob]
    /\ dpc = [d \in Drone |-> "off"]
    /\ myEntries = [d \in Drone |-> {}]
    /\ skew = [d \in Drone |-> FALSE]
    /\ waitFor = [c \in SyncClient |-> NoJob]
    /\ slot = [c \in SyncClient |-> NoJob]
    /\ results = [c \in ASyncClient |-> <<>>]
    /\ tmp = {}
    /\ asked = [i \in Id |-> NoJob]
    /\ answer = [i \in Id |-> "none"]

Next ==
    \/ Manager
    \/ \E c \in Client : ClientStep(c)
    \/ \E d \in Drone : Connect(d) \/ DroneWorks(d) \/ DroneLeaves(d)

Spec == Init /\ [][Next]_vars

(***************************************************************************)
(* Fairness: the manager is scheduled; on each machine the drone program   *)
(* and its thread in the overlord go on, connecting when they are not      *)
(* connected, and their calls return; a woken sync client runs.  Leaving a *)
(* connection is never required.                                           *)
(***************************************************************************)
Fairness ==
    /\ WF_vars(Manager)
    /\ \A d \in Drone : WF_vars(DroneWorks(d) \/ Connect(d))
    /\ \A c \in SyncClient : WF_vars(SyncReply(c))

FairSpec == Spec /\ Fairness

-----------------------------------------------------------------------------
(***************************************************************************)
(* Type correctness of the shared state and of every thread's locals.      *)
(***************************************************************************)
TypeOK ==
    /\ jobQueue \in Seq(Job)
    /\ freeDrones \in Seq(Drone)
    /\ drones \in SUBSET Drone
    /\ idc \in 0..MaxJobs
    /\ mgr \in {"run", "jobWait", "droneWait"}
    /\ woken \in BOOLEAN
    /\ held \in Job \cup {NoJob}
    /\ queue \in [Drone -> Seq(Job)]
    /\ cur \in [Drone -> Job \cup {NoJob}]
    /\ dpc \in [Drone -> DroneState]
    /\ myEntries \in [Drone -> SUBSET Entry]
    /\ skew \in [Drone -> BOOLEAN]
    /\ disk \in [Drone -> [Entry -> DiskState]]
    /\ waitFor \in [SyncClient -> Job \cup {NoJob}]
    /\ slot \in [SyncClient -> Job \cup {NoJob}]
    /\ results \in [ASyncClient -> Seq(Job)]
    /\ entries \in SUBSET Entry
    /\ repo \in SUBSET Entry
    /\ tmp \in SUBSET Id
    /\ asked \in [Id -> Job \cup {NoJob}]
    /\ answer \in [Id -> {"none", "ok", "failed"}]
    /\ connects \in 0..MaxConnects

(***************************************************************************)
(* The places that hold the client job with id i: positions of the         *)
(* manager's queue, the manager's hand, positions of a drone's queue and a *)
(* drone thread's hand (position 0).                                       *)
(***************************************************************************)
IsClientJob(j) == j # NoJob /\ j.client # NoClient

IsJob(j, i) == IsClientJob(j) /\ j.id = i

Places(i) ==
    {<<"queued", k>> : k \in {n \in DOMAIN jobQueue : IsJob(jobQueue[n], i)}}
    \cup {<<"held", k>> : k \in {n \in {0} : IsJob(held, i)}}
    \cup {<<d, 0>> : d \in {x \in Drone : IsJob(cur[x], i)}}
    \cup UNION {{<<d, k>> : k \in {n \in DOMAIN queue[d] : IsJob(queue[d][n], i)}}
                 : d \in Drone}

Open(i) == asked[i] # NoJob /\ answer[i] = "none"

Lost(i) == Open(i) /\ Places(i) = {}

(***************************************************************************)
(* A drone is registered while its thread runs, has a job in hand exactly  *)
(* while it works on one, and no job is left in the queue of a thread that *)
(* has ended, where no one would take it: broadcasts and dispatches reach  *)
(* live threads only.                                                      *)
(***************************************************************************)
Working == {"opening", "noArchive", "importing", "sending", "judging", "destroying"}

ThreadsMatchJobs ==
    /\ drones = {d \in Drone : dpc[d] # "off"}
    /\ \A d \in Drone :
          /\ cur[d] # NoJob <=> dpc[d] \in Working
          /\ dpc[d] = "off" => queue[d] = <<>>

(***************************************************************************)
(* freeDrones is exactly the registered drones without a job in hand or in *)
(* their queue, each once: the code keeps it so across registration,       *)
(* dispatch, broadcasts (which clear it) and threads that leave.           *)
(***************************************************************************)
FreeListExact ==
    /\ ToSet(freeDrones) = {d \in drones : queue[d] = <<>> /\ cur[d] = NoJob}
    /\ IsInjective(freeDrones)

(***************************************************************************)
(* The manager never piles work on a busy drone: a client's job lies at    *)
(* the bottom of a drone's queue or in the thread's hand, never both, and  *)
(* everything above it is a broadcast.                                     *)
(***************************************************************************)
ClientJobAtBottom ==
    \A d \in Drone : \A k \in DOMAIN queue[d] :
        IsClientJob(queue[d][k]) => k = 1 /\ ~IsClientJob(cur[d])

(***************************************************************************)
(* A job a client was promised an answer to is in one place at most until  *)
(* jobDone, across dispatch, requeueing after an exception and retries,    *)
(* and in none afterwards: it cannot be answered twice.                    *)
(***************************************************************************)
OneCopy ==
    \A i \in Id : Cardinality(Places(i)) <= (IF Open(i) THEN 1 ELSE 0)

(***************************************************************************)
(* SyncClient::jobHook ignores the job id it is given and takes whatever   *)
(* job is in the slot: it is always the job the client waits for, and it   *)
(* is there from jobDone until the reply.                                  *)
(***************************************************************************)
SlotIsOwnAnswer ==
    \A c \in SyncClient :
        IF waitFor[c] = NoJob
        THEN slot[c] = NoJob /\ \A i \in Id : Open(i) => asked[i].client # c
        ELSE /\ asked[waitFor[c].id] = waitFor[c]
             /\ slot[c] = IF Open(waitFor[c].id) THEN NoJob ELSE waitFor[c]

(***************************************************************************)
(* JobManager::run is never asleep over work it could do: when it waits    *)
(* unsignalled, the list it waits for is empty.                            *)
(***************************************************************************)
NoLostWakeup ==
    /\ mgr = "jobWait" /\ ~woken => jobQueue = <<>>
    /\ mgr = "droneWait" /\ ~woken => freeDrones = <<>>

(***************************************************************************)
(* An import can be retried on another drone for as long as it is not      *)
(* answered: its temporary file is there.                                  *)
(***************************************************************************)
ImportRetryable ==
    \A i \in Id : Open(i) /\ asked[i].type = "import" => i \in tmp

(***************************************************************************)
(* An entry a judge is accepted for has its archive in the repository, so  *)
(* that a drone without it can be sent it.                                 *)
(***************************************************************************)
EntriesHaveArchive == entries \subseteq repo

(***************************************************************************)
(* A complete directory on the disk of a drone that has been listed is in  *)
(* myEntries, so that a dispose of it is passed on.                        *)
(***************************************************************************)
CopiesAreKnown ==
    \A d \in Drone, e \in Entry :
        /\ disk[d][e] = "ready"
        /\ dpc[d] \notin {"off", "listing"} /\ ~skew[d]
        => e \in myEntries[d]

(***************************************************************************)
(* A step that leaves an open job without a place, neither queued nor      *)
(* answered, is one in which a drone's thread ends.                        *)
(***************************************************************************)
LostOnlyWithDrone ==
    [][\A i \in Id : Places(i) # {} /\ Places(i)' = {} /\ answer'[i] = "none"
                     => drones' # drones /\ drones' \subseteq drones]_vars

-----------------------------------------------------------------------------
(***************************************************************************)
(* What the overlord implements: the life of each client job.  A job is    *)
(* lost when it is open and in no place.                                   *)
(***************************************************************************)
Undelivered(i) ==
    \/ \E c \in SyncClient : IsJob(slot[c], i)
    \/ \E c \in ASyncClient : \E k \in DOMAIN results[c] : IsJob(results[c][k], i)

Status == [i \in Id |->
    CASE asked[i] = NoJob -> "free"
      [] Lost(i) -> "lost"
      [] Open(i) /\ ~Lost(i) -> "pending"
      [] ~Open(i) /\ asked[i] # NoJob /\ Undelivered(i) -> "answered"
      [] OTHER -> "delivered"]

Service == INSTANCE JobService WITH status <- Status

(***************************************************************************)
(* Every behaviour of the overlord is one of the job service: each job is  *)
(* accepted once, then answered once or lost once, and its answer handed   *)
(* to the client once.                                                     *)
(***************************************************************************)
ServiceSpec == Service!Spec

-----------------------------------------------------------------------------
(***************************************************************************)
(* A job that was accepted is answered, or lost with a drone, and a sync   *)
(* client that waits for one that is not lost is woken with its answer,    *)
(* across reconnections: unless there is no drone and none will connect.   *)
(***************************************************************************)
Unserved == drones = {} /\ connects = MaxConnects

JobsAnswered == \A i \in Id : Open(i) ~> (answer[i] # "none" \/ Lost(i) \/ Unserved)

SyncWaitsEnd == \A c \in SyncClient :
    (waitFor[c] # NoJob) ~> (waitFor[c] = NoJob \/ Lost(waitFor[c].id) \/ Unserved)

-----------------------------------------------------------------------------
(***************************************************************************)
(* What the documentation and the test say, and the code does not do.      *)
(*                                                                         *)
(* documentation.org:69-73: a judge (or import) is forwarded to a drone    *)
(* and "return[s] a Run Code".  An accepted job is thus always on its way. *)
(***************************************************************************)
NoJobStranded == \A i \in Id : Open(i) => Places(i) # {}

(***************************************************************************)
(* The same passage: the overlord "forwards this information to a drone    *)
(* that judges the program".  A judge waiting for a drone has its source.  *)
(***************************************************************************)
JudgeHasSource ==
    /\ \A k \in DOMAIN jobQueue : jobQueue[k].type = "judge" => jobQueue[k].id \in tmp
    /\ held # NoJob /\ held.type = "judge" => held.id \in tmp

(***************************************************************************)
(* test/test.sh:27-29 disposes of an entry, imports it again and expects a *)
(* judge to succeed: after a dispose and an import that succeeded, with no *)
(* dispose or push since, a drone that judges the entry has at least a     *)
(* directory of it.  An id that no client's job has was given to a dispose *)
(* or a push; one given out before the import of the only entry was a      *)
(* dispose's, as an import is refused while the name is in use.            *)
(***************************************************************************)
DisposedBefore(i) == \E h \in 0..(i - 1) : asked[h] = NoJob

ImportedBefore(i, j) ==
    /\ i < j.id /\ answer[i] = "ok"
    /\ asked[i].type = "import" /\ asked[i].entry = j.entry
    /\ \A k \in i..(idc - 1) : asked[k] # NoJob

JudgeOnlyWhereImported ==
    \A d \in Drone :
        /\ dpc[d] = "judging" /\ ~skew[d]
        /\ \E i \in Id : DisposedBefore(i) /\ ImportedBefore(i, cur[d])
        => disk[d][cur[d].entry] # "absent"

=============================================================================
