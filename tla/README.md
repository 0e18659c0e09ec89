# Verification of djudge

TLA+ models of the judge's overlord and of what it talks to, the TLC runs that
check them on small instances, and TLAPS proofs for all instances.  Paths below
are relative to the repository.

## The system

Clients (a command line program, the web interface) connect to the *overlord*
and give commands about *entries* (problems: an archive with inputs and a
reference solution).  The overlord forwards the work to *drones*, programs on
other machines that keep a directory per entry, compile and run.

| component | state | operations | interacts by |
|---|---|---|---|
| big lock, conditions (`common/biglock.*`) | one mutex, one condition per waiter | `LOCK`, `UNLOCK`, `wait`, `timedWait`, `signal` | every overlord thread holds it except in `UNLOCK`/`ULCALL` and waits |
| job manager (`overlord/jobmanager.*`) | `jobQueue`, `freeDrones`, `drones`, `idc` | `addJob`, `registerDrone`, `unregisterDrone`, `freeDrone`, `run` | called by the client and drone threads; its own thread dispatches |
| drone thread (`overlord/drone.*`) | `jobQueue`, `myEntries`, the job in hand | `run`, `run_`, `import`, `addJob` | requests and answers with its drone; `jobDone` of the client |
| client thread (`overlord/client.*`) | sync: one `job` slot; async: `results` per cookie | `handleCommand`, `jobHook`, `jobDone`, `pullresults` | commands from outside; `addJob` |
| overlord main (`overlord/main.cc`) | `entries`, the files of `overlordEntries/` | accept, one thread per connection | |
| package socket (`common/packagesocket.*`) | read and write buffers, `eot`, escape | `read`, `write`, `readString`, `readFD`, `writeFD` | all traffic |
| drone program (`drone/main.cc`, handlers) | directories of entries: configuration, inputs, outputs, programs | `list`, `ping`, `import`, `judge`, `destroy` | one request loop |
| running programs (`common/saferun.*`, language support) | child processes of one call | `saferun`, `compile`, `run` | called by the handlers |
| web interface (`www/*.py`) | submissions in a database, each with a job id | `submit`, `pull` | requests in processes of their own, all one async client with one cookie |

What is hard here: every thread gives up the lock around each read and write,
so anything read before is stale after; the manager sleeps with a job in its
hand; links break in the middle of a request, after which the job is queued
again and the drone may come back; broadcasts (`push`, `dispose`) enter the
drones' queues behind the manager's back; three records of who has an entry
(the drone's disk, `myEntries`, the overlord's `entries` and its files) change
at different times; when one side of a link sends more or less than the other
reads, requests and answers stay out of step; an import that is broken off leaves
files that the next one finds; and results wait in the overlord, without the
submission they belong to, for whichever process of the web server pulls them.

What makes the components correct:
* job manager: each free drone is on the free list exactly once, no job is
  given to a busy or departed drone, no wake-up is missed, no job is in two
  places or answered twice;
* drone thread: a job is answered or queued again, and can be done again; a
  drone is judged on only what it has;
* client: an answer goes to whoever waits for it, once;
* package socket: what is written is what is read, whatever the chunks;
* drone: the answer says what happened to the directory, and a judge compares
  with complete outputs of the entry's own reference;
* comparison: the verdict depends on the two outputs and not on how they are cut;
* web interface: a verdict reaches the row of its own submission, once, and a
  result is lost only for a cause one can name.

## Modules

### Overlord
The overlord process, and the disk of each drone as far as requests change it.
An action is one critical section of the big lock (what a thread does between
two releases), or a step taken without it (`OpenArchive`, `SendSource`).  The
manager's critical section is cut into the steps of `JobManager::run`; while it
runs, `LockFree` keeps everyone else out.

| variables | in the code |
|---|---|
| `jobQueue`, `freeDrones`, `drones`, `idc` | the members of `JobManager` |
| `mgr`, `woken`, `held` | the manager's thread: where it is, whether its condition was signalled, the local `j` |
| `queue[d]`, `cur[d]`, `dpc[d]`, `myEntries[d]` | a `Drone` object and its thread |
| `skew[d]` | requests and answers of its last link are out of step |
| `disk[d][e]` | the directory of entry `e`: absent, broken (incomplete), ready |
| `waitFor[c]`, `slot[c]`, `results[c]` | the clients' threads and objects |
| `entries`, `repo`, `tmp` | the set of names, the files of `overlordEntries/`, the temporary files of jobs |
| `asked`, `answer` | history of the jobs accepted and what `jobDone` delivered |

Of an answer only "run code zero or not" is kept.  `skew[d]` becomes true where
the two ends read different amounts: the archive cannot be opened after the
request is sent (`drone.cc:45`), the language is unknown (`judgehandler.cc:87`),
the drone gives up on an archive before its end, or a file does not fit into
one buffer of `readFD` (`packagesocket.cc:151`).  From then on answers are
arbitrary until a ping shows it, and what the drone did to its disk is unknown
until it connects again (`FoundOnDisk`).  Commands that are refused, and
`status`, `list`, `identify`, change no shared state and are no step.

### JobService
What the overlord promises about one job: accepted, answered once or lost once,
and the answer delivered once.  `Overlord!Status` is the refinement mapping,
`ServiceSpec` the property.

### DroneLink
One drone's link, package by package: its thread in the overlord (`at`,
`entry`, `code`, `known`), the packages on the way (`o2d`, `d2o`), the drone's
program (`dpc`, `name`, `disk`).  An action is one package read, one group of
packages written, or the end of what a handler runs.  `link` tells who has
closed the connection; whatever is written to a link that is down is lost.  A
thread reads a run code and then a message (`ReadCode`, `ReadText`); `CodeOf` is
`atoi`, for which most texts are zero.  The drone's program takes the next
package for whatever it expects, so a link out of step is not assumed but comes
about: by `NoArchive`, by `JudgeLang`, by `ReadFile`.  The thread, the program
or the connection may end at every step (`OverlordKilled`, `Killed`, `Reset`).
`skew` and `seen` are history: whether something was left on the link after an
answer, and what answers and lists have told of the directories.

### DroneCall
What `Overlord` takes a link to be, with one step per request and answer.  Its
steps are those of `Overlord`'s drones (`ImportAnswer`, `JudgeAnswer`,
`DestroyAnswer`, `NoArchive`, `LinkBreaks`, `Connect` with `FoundOnDisk`), with
the requests of any job; `DroneLink!CallSpec` shows that the link behaves so.
It has one more, `AfterKill`: when the overlord is killed between "import" and
the name, the drone removes all its entries (`importhandler.cc:186`).

### PackageSocket
One direction of a connection, byte by byte.  The writer (`wpc`, `todo`,
`wbuf`, `sent`) is `PackageSocket::write` with its loop around `send`; `wire`
is what the kernel holds; the reader (`kind`, `reading`, `rbuf`, `escape`, `b`,
`eot`) is a call of `readString`, of `readFD` or of the web interface's `read`.
An action puts one byte into a buffer or takes one from it, is one `send` or
`recv`, or ends a call.  The writer may be killed anywhere (`Close`).
`written` and `got` are history.  Of the bytes, those that escaping treats
differently are kept apart.  `documentation.org:35` describes the escape of a
newline as a backslash and a newline; the code, and the model, write a
backslash and an `n`.

`readString` asks `read` for 1023 bytes (`StringSize`) whatever room it has:
`maxlen + 1` bytes (`CallerRoom`), with a `maxlen` (`MaxLens`) between 10 and
1024*128 in its callers.  The model follows a call to the first byte, or
terminator, that would be stored outside (`Overrun`, `ReadPastEnd`), records it
in `overrun` and lets the reader stop: what the program does from there on is
undefined.

### SafeRun
One run of a program, from the forks in `saferun` to the handler's verdict.

| variables | in the code |
|---|---|
| `app` | the program: running, in `write`, or how it ended |
| `pipe` | the pipe its output goes to |
| `timer`, `told` | the process that waits for it, by state or by exit status; the pipe on which it tells the time |
| `reader`, `seen` | the output limiter (import) or `judgemain` (judge), and what it has read |
| `caller`, `x`, `res` | `saferun` and then the handler: what it waits for, whether it has a time, the return value |
| `use`, `made` | which handler calls; history of what the program wrote |

The program may write anything, end in any way, or do nothing for ever.  The
drone ignores `SIGPIPE` (`main.cc:86`), and so do the programs: a write that
nobody will read fails (`AppCannotWrite`).  In a judge it does not fail,
because the handler itself keeps the pipe open.  `Alarm` is possible in every
state of the timer, also after `waitpid` has returned.  Bytes are tokens that
match the reference, differ in white space, or differ otherwise; how the
comparer finds that out is `JudgeCompare`.

### DroneEntry
The directory of one entry on a drone, file by file, and the drone's handlers.

| variables | in the code |
|---|---|
| `pc` | the handler the drone's program is in, and where |
| `dir` | `config.ini`, `inputs/`, `outputs/`, and the programs `inputgenerator` and `reference` of each language |
| `langs`, `todo` | the loops over `langByRank` and over `inputs/` |
| `known` | the thread's `myEntries` |
| `whole`, `blind`, `seen` | history: the directory is as a successful import left it; inputs a judge agreed on without a complete expected output; what answers and lists told |

An output is absent, truncated or complete, and carries who wrote it (a language's
reference or the archive) and whether the last import did.  `Unpack` writes any
file, so an archive is whatever tar makes of it; `ImportFails` is any exception or
early return that removes the directory, `CompileFails` the two that do not.
`RemoveFile` is one step of `rmrf`, which in `rmrf(".")` cannot remove the
directory itself (`importhandler.cc:166`).  The program may be killed at every
step.  Of an output's content, and of the run of a program, only the outcome is
kept: they are `JudgeCompare` and `SafeRun`.  `DroneEntry!CallSpec` shows that the
handlers do to the directory what `DroneCall`, and with it `Overlord`, takes them
to do.

### JudgeCompare
`judgemain`, the comparison of two outputs, one action per branch of its loop.
`a` and `b` are the streams as the buffers give them, `ra` and `rb` how much of
them has been read, `al` and `bl` the lengths of the last pieces, `pa` and `pb`
how much has been compared (`au` and `bu`, counted from the start).  A piece that
fills its buffer is ended by a zero one byte behind it; `layout` is where the
compiler has put the two arrays, and the zero changes the first character of the
other one if that lies there (gcc does either, with and without optimisation).
`Signed` makes the character 255 compare equal to the end of a file.

### WebQueue
The web interface's requests and rows, and of the overlord what its async client
sees: ids, jobs under way, results.

| variables | in the code |
|---|---|
| `life`, `idc`, `working`, `results` | restarts of the overlord; `JobManager::idc`; jobs accepted and not done; `ASyncClient::results` of the cookie |
| `at[w]` | where a process of the web server is in `submit` or `pull` |
| `sub[w]`, `told[w]` | the submission it sends, the overlord's answer |
| `got[w]`, `found[w]` | the list it has pulled, the codes it has put into its session |
| `code[s]`, `jobid[s]` | the row of a submission |
| `given[s]` | history: the job that was made for it |

An action is one read or write of a connection or one query or commit, after each
of which other processes run.  A result knows its id only, so a row is found by it
(`Rows`), and `one()` raises unless there is exactly one (`MatchFails`).
Connections break (`SubmitFails`, `PullBreaks`), commits fail, and the overlord is
restarted with ids from zero (`Restart`).

### The proof modules
`OverlordProofs`, `OverlordJobProofs`, `DroneLinkProofs`, `PackageSocketProofs`,
`SafeRunProofs`, `DroneEntryProofs`, `JudgeCompareProofs` and `WebQueueProofs` hold the theorems
(below).

### MCOverlord, MCDroneLink, MCPackageSocket, MCDroneEntry, MCJudgeCompare, MCWebQueue
Model values, packages, texts and the symmetry for TLC.

## Runs

| run | what it shows |
|---|---|
| `jobs` | Two drones, a sync and an async client, one entry, two jobs or broadcasts, two connections: the bookkeeping invariants; a job that may be retried keeps its archive, an entry that is listed has its archive, a complete directory is known to the thread; a job is lost only when a drone's thread ends; and the overlord implements `JobService`. |
| `live` | A sync and an async client, two jobs that compete for one drone, which connects three times: under fairness a job that is not lost with the drone is answered and the waiting client woken, unless no drone is left and none will connect. |
| `link` | Two entries, two requests: answers mean what `Overlord` takes them to mean, also when either end is killed or the connection breaks; a link out of step stays so until a ping shows it, and no command, language or file is ever read as the name of an entry; under fairness no request waits for ever, even out of step. |
| `packages` | Two packages, shorter and longer than a piece, to each of the three readers, received in any cut, the writer killed anywhere: what exactly is read of them, that no byte stays in a buffer, that the socket's own buffers do not overflow, and when `readString` writes past its caller's. |
| `saferun` | Programs of up to four tokens with a pipe of two, for a judge and for an import: the verdict is the one deserved however the processes interleave, a success has all the output, no program runs on, and every run ends. |
| `entry` | One entry, two inputs, both languages, any sequence of imports, judges and destroys that fail or are killed anywhere: what a successful import has left, what a judge compares with, and the refinement of `DroneCall`. |
| `compare` | All pairs of texts of up to three characters, all cuts, all layouts: accepted are exactly equal texts, presentation errors exactly those equal without white space. |
| `web` | Two submissions, two processes, two restarts: verdicts reach their own rows, a result is in one place, what loses one has a cause, and under fairness none stays on its way for ever. |
| `stranded`, `source`, `stale_entry` | Three statements of the documentation and the test script about jobs and entries that the code does not keep.  In the last an entry is disposed of, a drone removes its directory and keeps the name, another drone imports the entry anew, and the judge goes to the first; one client and three ids are enough for that. |
| `long_file` | An archive larger than `readFD`'s buffer is read as two packages.  All four are findings in `PROJECT.json`. |

Bounds.  `MaxJobs` caps the ids handed out, `MaxConnects` the connections made by drones;
nothing else is bounded.  Two drones are enough for a job to move from one to another and
for a broadcast to find one busy and one free; two jobs let one overtake the other or a
broadcast meet a job; two connections let both drones work, or one leave with its job and
come back.  `live` looks at what the safety run cannot, one drone that serves both clients
and comes back twice: with a second drone or a third job the search for fair cycles takes
too long.  The theorems below hold for any number of them. One entry suffices for the
invariants, which relate records of the same name.

For a link, the number of requests counts (`MaxCalls`): one that leaves it out
of step, and one that reads what is left before the next ping.  Names of entries
are assumed to differ from command words: an entry called `judge` can, on a link
out of step, make a handler wait for packages that do not come.  A file's
content is likewise no command.

For a connection, a buffer of four bytes stands for 128 kilobytes, a piece of
three for the 1023 bytes of `readString` and one of two for the 128 kilobytes of
`readFD`.  A `maxlen` of one stands for those below 1023 (10 to 128), and one of
three for those above: packages of two bytes are then too long for the first by
their terminator, longer ones by their bytes, and none is for the second.  The
writer has to empty its buffer in the middle of a package, and an escape falls
on either side of every cut.  Two packages (`MaxPackages`) show whether
something of one is left for the next.  The packages are all that fit one piece
and some that end inside a second or fill two.  `ShortSends` is false: a
blocking socket without signal handlers takes everything.  Would it not, the
loop in `write` sends the start of the buffer again (`packagesocket.cc:114`).

For a run of a program, four tokens and a pipe of two (`MaxOutput`,
`PipeSize`) let it fill the pipe and wait, and exceed the limit of two; one
expected token (`Expected`) makes too few, enough and too many possible.  The
theorems need none of these bounds.

Fairness (`packages`): the writer finishes what it has begun unless it is
killed, and the reader asks for the next package, unless it has written past the
end of its buffer.

Fairness (`saferun`): time passes, and the drone's processes are scheduled.
Nothing is asked of the program.

For an entry, two inputs show that the loop over them may stop in between and that
one is left from an earlier import, and two languages (rank 1 compiled, rank 99
not, as in the code) show which reference writes last.  Nothing else is bounded.

For a comparison, a buffer of two bytes stands for 10240, and texts of three
characters (`MaxLength`) for longer ones: they fill a buffer and go on behind it.
The characters are those the code treats differently: two others, one white
space, and 255.  `AcceptsExactly` is proved without these bounds.

For the web interface, two processes let a pull run while another pulls or
submits, two submissions let a pull carry results of both, and two restarts
(`MaxLives`) give an id out again while a result of either life is on its way.

Fairness (`web`): processes run on and get their answers or an error, and jobs
end.  Of the users it is assumed that they ask for the list of submissions again
and again (strong fairness of `Pull`), with the Update button or a new page: the
timer of the page does nothing (`www/main.py:460-462`).  When every process is
caught in the loop of `www/client.py:57`, no one is left to pull.

Fairness (`link`): both ends are scheduled, and what a handler runs ends
(`saferun` and the compilers have time limits).  Nothing is required to break.

Fairness (`live`): the manager, the drones' threads and a woken sync client are
scheduled (threads of one process; the mutex is released in every loop), calls
to a drone return, and a drone that is not connected connects.  No link is
required to break, and when one does, the drone may take its job with it
(`Lost`, and see `stranded`).  The promise ends where no drone is left and the
bound lets none connect (`Unserved`).

## Proofs

`OverlordProofs` proves, for any sets of drones, clients and entries and any
bounds, that the specification keeps `TypeOK`, `ThreadsMatchJobs` and
`FreeListExact`.  The assumptions are those on the constants in `Overlord`: the
two kinds of client are disjoint, NULL is not a job or a client, the bounds are
numbers.

None of the three is inductive alone.  `TypeOK` needs that a working thread has
a job (`ThreadsMatchJobs`) and that erasing a drone from the free list is well
defined (`FreeListExact`); a job dispatched to the head of the free list keeps
`ThreadsMatchJobs` only because the head is registered; and freeing a drone
keeps the list without duplicates only because a working thread's drone is not
on it.  Their conjunction `IInv` is inductive: the module has one lemma per
group of actions and conjunct, over lemmas about sequences without duplicates
(`AppendUnique`, `TailUnique`, `RemoveFirstUnique`, `FrontLast`).

Three more invariants of `Overlord` are proved.  `ClientJobAtBottom` relative to
`IInv`: the manager dispatches to the head of the free list, whose queue and
hand are empty by `FreeListExact`; a broadcast goes on top, and taking the
newest job brings a client's job into the hand only when the queue is empty
(`BottomAppend`, `BottomFront`).  `NoLostWakeup` and `EntriesHaveArchive` are
inductive alone: a step that puts something in a list signals its condition in
the same critical section, even when the drone is erased from the list right
after (`SleepsOn`), and only `Dispose` removes an archive.

`OverlordJobProofs` follows one job, for any sets and bounds, on top of `IInv` and
`ClientJobAtBottom`.  It proves `OneCopy`, `SlotIsOwnAnswer`, `ImportRetryable`,
`CopiesAreKnown`, `LostOnlyWithDrone` and the refinement of `JobService`.  The
invariant is `JInv`:
* the manager handles only jobs of clients, which are imports and judges
  (`JobsMade`);
* a job is in the manager's queue once, in its hand, or with one drone
  (`OnePlace`), where a drone carries one client job at most (`CarriesOne`, by
  `ClientJobAtBottom`);
* what is on its way has been asked for under its id and has no answer
  (`AskedFor`), and ids are given out in order (`Given`);
* a sync client has no open job but the one its thread waits for (`Waits`), and
  results belong to the client that has them (`ResultsOwn`).

Every step of a drone's thread does one of four things to the job it carries
(`DroneMoves`): it keeps it, answers it, queues it again, or loses it with the
thread; so the invariants are proved for four kinds of step instead of sixteen
actions.  `SlotIsOwnAnswer` is not inductive without the part of `Waits` that no
other job of the client is open, and `OneCopy`, which counts positions, follows
from `OnePlace` (`PlacesAre`, `CopiesCounted`).  For the refinement a job's status
is read off what was asked and answered, what is on its way and what is owed to
clients (`StatusStaged`); then a submission is `Accept`, an answer `Answer`, a
thread that ends with a job `Lose`, a reply or a pull `Deliver`, and all else a
stutter.

`DroneLinkProofs` proves `TypeOK` and `NamesAreNames` of `DroneLink` for any
number of requests and finitely many entries (a directory has finitely many).
Handlers take the next package for whatever they expect, so the invariant `LInv`
speaks of the packages on their way.  `Named`: behind a request comes a name, unless
the request is the last package; `Whole`: on a link that is up it is not the last,
since the thread writes a request with its name in one go.  Both survive what puts
the link out of step: a file read as two packages, a source left behind, an archive
that does not come (`NamedTail`, `NamedConcat`, `NamedPrefix`).  `Listing`: while the
list is read nothing else is on the link, so the texts that `known` collects are
names of entries and the end; this is so because the list is asked for first.

`OutOfStepStays` needs a count of the answers that are still due.  How many there
are depends on how the program will cut what is on its way into commands, names
and files, so `Parse` labels the packages with where the program will be and what it
will owe by then; the labels are said to exist, which takes no recursion, and they
are kept by a package that comes or goes (`Parses`).  `Due` is the invariant: the answers on
their way, those the handler at work owes and those owed for the packages
ahead are at least what the thread waits for (`Awaited`), and one more when the
link is out of step (`Surplus`).

The refinement of `DroneCall` rests on what holds as long as the link is in step
(`InStep`; each part was model-checked before it was proved).  `Route`: the names on
their way are the one of the request under way.  `Kind`: the handler at work is that of
the request.  `Disk`: the disk is as was told, but for the entry of the
request.  `Left`: a request that the thread has left behind is whole.
`Listen`: the end of the list comes when all was told.  `Answered` counts the
answers (`Told`): none while the request is being read, two at the end.  `Truth`:
the first of them says what became of the entry.  `Pings` holds out of step too, where
`Due` puts something else ahead of the pong, so that the ping ends the link.  Then
a step of the program is a stutter or, once the thread has gone, its
departure; a step of the thread is the step of `DroneCall` of the same place.

`PackageSocketProofs` proves `TypeOK` of `PackageSocket`, with the bounds of the
socket's own two buffers, for buffers larger than two bytes and packages and pieces
of any size, short sends included.  (Of the caller's buffer it says nothing: see
`OverrunsHaveCauses` below.)  The invariant `Room` says that the writer goes into its loop
with one byte to spare and is idle with an empty buffer: room for one byte more than
an escape (`+2 >=`) is what leaves space for the newline at the end.  That the web
interface reads bytes is shown of `Replace` from its last byte to its first
(`FromDown`, `FromIs`).

It proves `PiecesArrive` too, of sends that take what they are given
(`~ShortSends`; the code needs it, since it sends the wrong bytes after a short one).
A `Place` is a package, the bytes of it that are behind, and whether a backslash is
pending; `Move` says which bytes lead from which place to which.  The invariant
(`Inv`) is that the bytes in `read_buff`, on the wire and, until the writer is killed,
in `write_buff` are one `Path` from the reader's place to the writer's (`OnTheWay`),
and that what the reader has is what a place like its own allows (`Reader`): the
buffer holds the bytes just behind the place, and the packages returned are the
last pieces (`Strings`), the pieces (`Files`) or the plain packages (`Pythons`)
of what lies before it.  `PiecesArrive` is not inductive without it: nothing in
it says what is still to come.  A step of the writer makes the path longer at its end
(`EscapedMoves`), a step of the reader takes its first byte (`TookByte`) or cuts it
elsewhere (`PathCut`).  A newline on the path is at the end of a package, so that what
is in the buffer is the rest that division leaves (`NewlineKeeps`); the web
interface's two replacements undo the escapes of a plain package because after the
first of them every backslash is there twice (`FirstPass`, `SecondPass`).

`OverrunsHaveCauses` is proved from the same invariant: when `readString` is about
to leave its buffer, the buffer holds `maxlen + 1` bytes, which lie before the
reader's place in a package that is not yet returned, so that this package is
longer than `maxlen` (`OverrunIsLong`).  Hence a caller that knows its packages
to be at most `maxlen` long, and does not call after the end of the stream, is safe.

`SafeRunProofs` proves all the safety of `SafeRun` that its run checks, for
pipes, limits and outputs of any size: `NothingRunsOn`, `VerdictIsDeserved`,
`OutputIsComplete`; and `TypeOK`, which is in no run.  The verdict speaks of the whole output,
of which the limiter or the comparer may have seen the beginning, so `IInv` says
where the rest is: what was written is what was seen, what is in the pipe, and
at most one token in a write (`OutputFlows`); and what the reader's exit says of
what it saw (`LimiterKnows`, `ComparerKnows`).  A wrong beginning makes the whole
wrong (`WrongStays`, over the cardinality of the matching tokens), and an empty
pipe after the program's and the timer's exit makes what was seen the whole.
`TimerKnows` and `CallerKnows` carry the exit status from process to process.

`DroneEntryProofs` proves, for any languages and inputs, the invariants of `DroneEntry`
and that it implements `DroneCall`.  That a successful import has written every output
(`ImportedIsWhole`) rests on what the loops have done so far: `ImportProgress` says that
of the references that have finished the last has written the outputs of all inputs
(`Outputs`), that the one at work has written those it is through with (`OutputsOf`), and
that languages are finished by rank.  An old source of an earlier import counts as a
reference: it is run, and by rank, like any other.  The refinement needs that the answer
tells the truth about the directory (`Truthful`), and goes through the steps of the
handlers: most are stutters, since `DroneCall` sees only what was answered.

`JudgeCompareProofs` proves `TypeOK`, `AcceptsExactly` and `PresentationErrors` for
outputs and buffers of any length.  `Progress`: without a presentation error the two are at the same
character, or the one that is behind has ended, and what was passed is the same;
with one, they differ somewhere.  `Buffers` has a character to compare wherever
the code takes one, or the end.  No character is overwritten where both
outputs are shorter than a buffer, since then no piece fills one.

`PresentationErrors` speaks of the texts without their white space (`Kept`, a
recursive function).  What it gives for every length is proved from the least
length for which it would not (`Least`, from the well-foundedness of the naturals):
`KeptIs` is its recursion, and `KeptGrows` says that what is kept of a beginning is
a beginning of what is kept.  The invariant is `Skipping`: apart from white space
what was passed is the same, and the one that is behind has ended; a character that
is compared and not white is the next one kept (`SqueezedHeads`).

`WebQueueProofs` proves `TypeOK`, `VerdictIsOwn`, `ResultsFindTheirRow`,
`ResultInOnePlace` and `LossesHaveCauses` for any number of processes,
submissions and restarts.  The invariant says that a job on its way is the one made
for its submission (`JobsAreGiven`), that a process has a submission to itself
until its row is stored (`Sending`), that a row has the id of its own job
(`RowsHaveIds`), that codes about to be committed are results just pulled, for rows
with their id (`Matched`), and that a verdict that is stored is nowhere else
(`Stored`).

Only model-checked: liveness (out of the prover's reach).  `PackagesArrive`,
`JudgeHasSource`, `JudgeOnlyWhereImported` and `NoJobStranded` do not hold
(see the findings).

## What is not promised

Besides the findings, modelling showed the following, which the properties of
the runs allow for.
* Two imports of one name in flight both succeed, and the later archive replaces
  the earlier: the name is looked up when an import is accepted
  (`client.cc:139`) and taken when a drone has imported it.  Likewise a dispose
  that overlaps an import erases the name a second time (`drone.cc:108`) and
  leaves the archive.
* A judge in an unknown language leaves its source on the link, to be read as a
  command; until the next ping other requests get its answers (`skew`).
* `readString` asks for 1023 bytes into a buffer of `maxlen + 1`
  (`packagesocket.cc:81-83`): where `maxlen` is 10, 12, 20, 32 or 128, a longer
  package is written past the end of the caller's buffer, and so is the terminator
  of a call made after the end of the stream, which stores it at 1023
  (`packagesocket.cc:84`; the overlord makes such a call for the language of a judge
  when the connection has ended before the entry's name, `client.cc:104`).  `OverrunsHaveCauses` says that nothing else does it.
  The other modules do not contain it: on a link out of step a long message read
  as a run code (`drone.cc:52`), or a source or the rest of a file read as a
  command (`drone/main.cc:63`), is followed in `DroneLink` as if it fitted, or as
  the end of the program.
* `readString` returns the last piece of a longer message, and the web
  interface reads a backslash before an `n` as a newline (`PiecesArrive` says
  for each reader what holds).
* A program that ends just before the alarm can be told that its time was up,
  and when something kills the timer the program runs on without one.
* A program with more wrong output than fits the pipe waits for a reader that has
  exited, because the handler keeps the pipe open (`judgehandler.cc:124`), and is
  told that its time is up; `test/test.sh:31` tests a short one.
* The comparison writes a zero behind a buffer that `read` has filled
  (`judgehandler.cc:58-59`).  When the other buffer lies there, a program with the
  expected output of 10240 bytes or more is told that its output is wrong:
  `AcceptsExactly` leaves out the runs in which a character was overwritten.
* A judge gives every program ten seconds (`judgehandler.cc:135`): the limits of
  the configuration are read by no one, and `timescale` would be stored as the
  base (`config.cc:89`).
* A file that an earlier import left stays in the directory, and an old generator
  or reference is compiled and run with the next import.
* An import without a reference succeeds, and one without inputs accepts every
  program; where an output is missing or incomplete the comparison is with what
  there is (`AcceptedIsCompared`).
* The character 255 at the end of an output is not seen (`SameText`).
* A submission whose row cannot be stored leaves a job behind, whose result makes
  the pull that gets it fail, with all results it has got; and a restart of the
  overlord may give a row the verdict on another source (`VerdictIsOwn`).

## Not modelled

Sockets and accept, option parsing, logging, the text of answers, failures of
`mkstemp`/`rename`/`fork`, spurious wake-ups (every wait re-tests its
condition, `drone.cc:73` tolerates them).  The command line client sends one
request and reads one answer; its traffic is the sync client of `Overlord`.  The
sandbox (AppArmor profiles, user ids) and the experiments with it (`runc.cc`,
`esc.py`) have no state of their own beyond one run.  Of the web interface, users,
sessions, uploads and the pages are left out: single queries, without anything
that runs beside them but the database.
