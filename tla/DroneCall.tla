----------------------------- MODULE DroneCall ------------------------------
(***************************************************************************)
(* What the overlord relies on when it talks to one drone: a request in    *)
(* step with its answer tells what became of the entry's directory; on a   *)
(* link out of step an answer tells nothing, nothing puts the link back in *)
(* step, and the next ping ends it.                                        *)
(***************************************************************************)
CONSTANT Entry

VARIABLES
    at,     \* where the overlord's thread for the drone is
    entry,  \* the entry of the request under way
    skew,   \* the answers are not those of the requests
    dir,    \* the drone's directories, as far as answers and lists told
    known   \* the entries the overlord believes the drone to have

vars == <<at, entry, skew, dir, known>>

DirState == {"absent", "broken", "ready"}

Calls == {"opening", "importing", "sending", "judging", "destroying"}

Connect ==
    /\ at = "off"
    /\ at' = "listing"
    /\ skew' = FALSE
    /\ known' = {}
    /\ dir' \in (IF skew THEN [Entry -> DirState] ELSE {dir})
    /\ UNCHANGED entry

Listed ==
    /\ at = "listing"
    /\ at' = "waiting"
    /\ known' = {e \in Entry : dir[e] # "absent"}
    /\ UNCHANGED <<entry, skew, dir>>

Ping == at = "waiting" /\ at' = "pinging" /\ UNCHANGED <<entry, skew, dir, known>>

Pong ==
    /\ at = "pinging" /\ ~skew
    /\ at' = "waiting"
    /\ UNCHANGED <<entry, skew, dir, known>>

Request(e, call) ==
    /\ at = "waiting"
    /\ at' = call
    /\ entry' = e
    /\ UNCHANGED <<skew, dir, known>>

Sent(from, to) == at = from /\ at' = to /\ UNCHANGED <<entry, skew, dir, known>>

(***************************************************************************)
(* The archive to import cannot be opened: the call returns at once.       *)
(***************************************************************************)
NoArchive ==
    /\ at = "opening"
    /\ at' = "waiting"
    /\ skew' = TRUE
    /\ UNCHANGED <<entry, dir, known>>

Become(s) == dir' = [dir EXCEPT ![entry] = s]

(***************************************************************************)
(* An answer, after which the link is still there or has ended.            *)
(***************************************************************************)
Answered ==
    /\ at' \in {"waiting", "off"}
    /\ UNCHANGED entry

Imported(ok, s) ==
    /\ at = "importing"
    /\ Answered
    /\ IF skew THEN s = dir[entry] ELSE ok <=> s = "ready"
    /\ Become(s)
    /\ skew' \in {skew, TRUE}
    /\ known' = IF ok THEN known \cup {entry} ELSE known

Judged(ok) ==
    /\ at = "judging"
    /\ Answered
    /\ ok => skew \/ dir[entry] # "absent"
    /\ skew' \in {skew, TRUE}
    /\ UNCHANGED <<dir, known>>

Destroyed(ok, s) ==
    /\ at = "destroying"
    /\ Answered
    /\ IF skew THEN s = dir[entry] ELSE ok /\ s = "absent"
    /\ Become(s)
    /\ UNCHANGED <<skew, known>>

(***************************************************************************)
(* The link ends without an answer.                                        *)
(***************************************************************************)
LeftAs ==
    IF at = "importing" THEN DirState
    ELSE IF at \in {"opening", "destroying"} THEN {dir[entry], "absent", "broken"}
    ELSE {dir[entry]}

Leave ==
    /\ at \notin {"off", "waiting", "killed"}
    /\ at' = "off"
    /\ \E s \in LeftAs : Become(s)
    /\ UNCHANGED <<entry, skew, known>>

(***************************************************************************)
(* The overlord is killed.  The drone may lose any of its directories; what*)
(* it did to that of the request under way is not known.                   *)
(***************************************************************************)
Kill ==
    /\ at \notin {"off", "killed"}
    /\ \/ at' = "killed" /\ UNCHANGED dir
       \/ at' = "off" /\ \E s \in LeftAs : Become(s)
    /\ known' = {}
    /\ UNCHANGED <<entry, skew>>

AfterKill ==
    /\ at = "killed"
    /\ at' = "off"
    /\ dir' \in [Entry -> DirState]
    /\ \A e \in Entry \ {entry} : dir'[e] \in {dir[e], "absent"}
    /\ UNCHANGED <<entry, skew, known>>

Init ==
    /\ at = "off"
    /\ entry \in Entry
    /\ skew = FALSE
    /\ dir \in [Entry -> {"absent", "ready"}]
    /\ known = {}

Next ==
    \/ Connect \/ Listed \/ Ping \/ Pong
    \/ \E e \in Entry, call \in {"opening", "sending", "destroying"} : Request(e, call)
    \/ Sent("opening", "importing") \/ Sent("sending", "judging") \/ NoArchive
    \/ \E ok \in BOOLEAN :
          Judged(ok) \/ \E s \in DirState : Imported(ok, s) \/ Destroyed(ok, s)
    \/ Leave \/ Kill \/ AfterKill

Spec == Init /\ [][Next]_vars

=============================================================================
