-------------------------- MODULE SchedulerControl --------------------------
(***************************************************************************)
(* Starting and stopping a scheduler from another process.                 *)
(*                                                                         *)
(* An API server or a session, the REQUESTER, serves start requests, one   *)
(* at a time (_START_LOCK), and stop requests (scheduler/control.py) over  *)
(* the processes of SchedulerOwnership.  A start launches a child and      *)
(* polls the status until the marker names a running scheduler; a stop     *)
(* signals the process the marker names and polls until it is gone         *)
(* (scheduler/status.py, process_identity.py).                             *)
(*                                                                         *)
(* A child that has died keeps its pid until the requester reaps it.       *)
(***************************************************************************)
EXTENDS SchedulerOwnership

CONSTANTS
    Overlap,  \* bound: may a start and a stop request be in progress together?
    Casts     \* bound: the sets of instances that may exist while it serves requests

ASSUME ControlAssumption == Overlap \in BOOLEAN /\ Casts \subseteq SUBSET Proc

VARIABLES
    (* the start request in progress *)
    at,       \* where it is, or its answer
    round,    \* what it queries the status for
    child,    \* the process it has launched
    record,   \* the marker its query has read
    (* the stop request in progress *)
    stopAt, owner,
    handle,   \* the process behind its pidfd or process handle
    (* the requester *)
    kids,     \* the children it has not reaped
    reaper,   \* the ones a thread of _reap_in_background() waits for
    (* history *)
    quiet     \* the requests during which, at some instant, nobody was the owner

startVars == <<at, round, child, record>>
stopVars  == <<stopAt, owner, handle>>
family    == <<kids, reaper>>
ctl       == <<startVars, stopVars, family>>
allVars   == <<vars, ctl, quiet>>

StartAnswers == {"already", "started", "failed", "unverified", "timeout"}
StopAnswers  == {"stopped", "uncertain", "not_running", "unverified", "unavailable"}

ControlInit ==
    /\ Init
    /\ at = "idle" /\ round = "initial" /\ child = Nobody /\ record = Absent
    /\ stopAt = "idle" /\ owner = Absent /\ handle = Nobody
    /\ kids = {} /\ reaper = {} /\ quiet = {}

Bounded == \E cast \in Casts : {p \in Proc : pc[p] # "unborn"} \subseteq cast
Serving == at # "idle" \/ stopAt # "idle" \/ kids # {}

-----------------------------------------------------------------------------
(* Processes seen from outside *)

HoldsPid(p) == Live(p) \/ p \in kids

Holders(p) == {q \in Proc : HoldsPid(q) /\ PidOf[q] = PidOf[p]}

\* psutil finds a dead child with its creation time as long as it is not reaped.
Observed(p) == OwnerStatus(p) \cup (IF ~Live(p) /\ p \in kids THEN {"matching"} ELSE {})

\* Mutant: a process that cannot be identified is taken for a dead one.
Status_UnknownIsDead(m) ==
    IF m \in Proc
    THEN {IF s = "matching" THEN "running" ELSE "not_running" : s \in Observed(m)}
    ELSE {IF m # Legacy /\ marker = Absent THEN "not_running" ELSE "unknown"}

\* query_scheduler_status() after it has read m.  Of a marker that could not be
\* read it asks whether the file exists.
Status(m) ==
    IF m \in Proc
    THEN {CASE s = "matching" -> "running"
            [] s \in Recoverable -> "not_running"
            [] OTHER -> "unknown" : s \in Observed(m)}
    ELSE {IF m # Legacy /\ marker = Absent THEN "not_running" ELSE "unknown"}

\* The effect of a termination: TerminateProcess() kills, and so does SIGTERM
\* before the handlers are installed; they set the stop event.
Terminate(p) ==
    \/ Crash(p) \/ Signal(p)
    \/ pc[p] \in {"release", "unlink_own", "unlock"} /\ UNCHANGED vars

-----------------------------------------------------------------------------
(* start_scheduler_process() *)

RequestStart ==
    /\ at = "idle" /\ at' = "read"
    /\ Bounded /\ (Overlap \/ stopAt = "idle")
    /\ UNCHANGED <<vars, round, child, record, stopVars, family>>

ReadStatus ==
    /\ at = "read" /\ at' = "identify" /\ record' = marker
    /\ UNCHANGED <<vars, round, child, stopVars, family>>

\* Mutant: a living child is a started scheduler.
Verdict_TrustsChild(state) ==
    IF state = "running"
    THEN IF round \in {"initial", "exited"} THEN "already"
         ELSE IF PidOf[record] = PidOf[child] THEN "started" ELSE "wait"
    ELSE CASE round = "initial" -> IF state = "unknown" THEN "unverified" ELSE "launch"
           [] round = "loop" -> IF Live(child) THEN "started" ELSE "poll"
           [] round = "exited" -> "failed"
           [] round = "expired" -> "abort"

\* Where a status leads.
Verdict(state) ==
    IF state = "running"
    THEN IF round \in {"initial", "exited"} THEN "already"
         ELSE IF PidOf[record] = PidOf[child] THEN "started" ELSE "wait"
    ELSE CASE round = "initial" -> IF state = "unknown" THEN "unverified" ELSE "launch"
           [] round = "loop" -> "poll"
           [] round = "exited" -> "failed"
           [] round = "expired" -> "abort"

\* Mutant: a started child is left to nobody.
Identified_Unreaped ==
    /\ at = "identify"
    /\ \E state \in Status(record) : at' = Verdict(state)
    /\ UNCHANGED <<vars, round, child, record, stopVars, family>>

Identified ==
    /\ at = "identify"
    /\ \E state \in Status(record) : at' = Verdict(state)
    /\ reaper' = IF at' = "started" THEN reaper \cup {child} ELSE reaper
    /\ UNCHANGED <<vars, round, child, record, stopVars, kids>>

\* The fork fails, or it gives a process on a pid nobody holds.  Popen first
\* reaps the dead children that nobody waits for any more.
Launch ==
    /\ at = "launch"
    /\ \/ at' = "failed" /\ UNCHANGED <<vars, round, child, family>>
       \/ \E p \in Proc :
            /\ Spawn(p) /\ pc'[p] = "identify" /\ Holders(p) = {} /\ Bounded'
            /\ child' = p
            /\ kids' = {k \in kids : Live(k) \/ k \in reaper} \cup {p}
            /\ at' = "read" /\ round' = "loop"
            /\ UNCHANGED reaper
    /\ UNCHANGED <<record, stopVars>>

\* Mutant: only a dead child ends the wait for the marker.
Deadline_ChildOnly ==
    /\ at = "read" /\ round = "loop" /\ ~Live(child) /\ round' = "expired"
    /\ UNCHANGED <<vars, at, child, record, stopVars, family>>

\* `while monotonic() < deadline` fails; the status is queried a last time.
Deadline ==
    /\ at = "read" /\ round = "loop" /\ round' = "expired"
    /\ UNCHANGED <<vars, at, child, record, stopVars, family>>

\* child.poll() reaps a dead child.
PollChild ==
    /\ at = "poll" /\ at' = "read"
    /\ IF Live(child)
       THEN UNCHANGED <<round, kids>>
       ELSE round' = "exited" /\ kids' = kids \ {child}
    /\ UNCHANGED <<vars, child, record, stopVars, reaper>>

\* _child_remains_running(): the marker names another pid, that of a foreign
\* scheduler or of the interpreter that a Windows launcher wraps.
AwaitChild ==
    /\ at = "wait"
    /\ IF Live(child)
       THEN at' = "started" /\ reaper' = reaper \cup {child} /\ UNCHANGED kids
       ELSE at' = "already" /\ kids' = kids \ {child} /\ UNCHANGED reaper
    /\ UNCHANGED <<vars, round, child, record, stopVars>>

\* Mutant: the child of a start that timed out is left running.
Abort_Spares ==
    /\ at = "abort" /\ at' = "drain"
    /\ UNCHANGED <<vars, round, child, record, stopVars, family>>

\* child.terminate(), which reaps a dead child first.
Abort ==
    /\ at = "abort" /\ at' = "drain"
    /\ IF Live(child)
       THEN Terminate(child) /\ UNCHANGED kids
       ELSE kids' = kids \ {child} /\ UNCHANGED vars
    /\ UNCHANGED <<round, child, record, stopVars, reaper>>

\* child.wait(2.0); a child that takes longer is left to nobody.
Drain ==
    /\ at = "drain" /\ at' = "timeout"
    /\ kids' = IF Live(child) THEN kids ELSE kids \ {child}
    /\ UNCHANGED <<vars, round, child, record, stopVars, reaper>>

AnswerStart ==
    /\ at \in StartAnswers /\ at' = "idle"
    /\ round' = "initial" /\ child' = Nobody /\ record' = Absent
    /\ UNCHANGED <<vars, stopVars, family>>

StartStep ==
    \/ ReadStatus \/ Identified \/ Launch \/ PollChild \/ AwaitChild
    \/ Abort \/ Drain \/ AnswerStart

-----------------------------------------------------------------------------
(* stop_scheduler_process() *)

RequestStop ==
    /\ stopAt = "idle" /\ stopAt' = "read"
    /\ Bounded /\ (Overlap \/ at = "idle")
    /\ UNCHANGED <<vars, startVars, owner, handle, family>>

ReadRecord ==
    /\ stopAt = "read" /\ stopAt' = "query" /\ owner' = marker
    /\ UNCHANGED <<vars, startVars, handle, family>>

\* The same question as a status query, on the marker that was read.
QueryOwner ==
    /\ stopAt = "query"
    /\ \E state \in Status(owner) :
         stopAt' = CASE state = "running" -> "open"
                     [] state = "not_running" -> "not_running"
                     [] state = "unknown" -> "unverified"
    /\ UNCHANGED <<vars, startVars, owner, handle, family>>

\* pidfd_open() or OpenProcess() of the pid: whoever has it now.
OpenHandle ==
    /\ stopAt = "open"
    /\ \/ stopAt' = "unavailable" /\ UNCHANGED handle
       \/ Holders(owner) = {} /\ stopAt' = "not_running" /\ UNCHANGED handle
       \/ \E p \in Holders(owner) : stopAt' = "check" /\ handle' = p
    /\ UNCHANGED <<vars, startVars, owner, family>>

\* Mutant: the pid alone is compared.
CheckHandle_PidOnly ==
    /\ stopAt = "check"
    /\ \/ stopAt' = "unavailable"
       \/ stopAt' = "send"
    /\ UNCHANGED <<vars, startVars, owner, handle, family>>

\* The identity is read again, of the pid on Linux, of the handle on Windows.
CheckHandle ==
    /\ stopAt = "check"
    /\ \/ stopAt' = "unavailable"
       \/ Holders(owner) = {} /\ stopAt' = "not_running"
       \/ \E p \in Holders(owner) \cup {handle} :
            stopAt' = IF p = owner THEN "send" ELSE "not_running"
    /\ UNCHANGED <<vars, startVars, owner, handle, family>>

\* The signal goes to the process behind the handle; a zombie accepts it.
Send ==
    /\ stopAt = "send"
    /\ \/ stopAt' = "unavailable" /\ UNCHANGED vars
       \/ ~HoldsPid(handle) /\ stopAt' = "not_running" /\ UNCHANGED vars
       \/ ~Live(handle) /\ HoldsPid(handle) /\ stopAt' = "poll" /\ UNCHANGED vars
       \/ Live(handle) /\ stopAt' = "poll" /\ Terminate(handle)
    /\ UNCHANGED <<startVars, owner, handle, family>>

\* Twenty polls and a last one; the answer depends on the one that ends them.
PollOwner ==
    /\ stopAt = "poll"
    /\ \E status \in Observed(owner) :
         stopAt' = IF status \in Recoverable THEN "stopped" ELSE "uncertain"
    /\ UNCHANGED <<vars, startVars, owner, handle, family>>

AnswerStop ==
    /\ stopAt \in StopAnswers /\ stopAt' = "idle"
    /\ owner' = Absent /\ handle' = Nobody
    /\ UNCHANGED <<vars, startVars, family>>

StopStep ==
    \/ ReadRecord \/ QueryOwner \/ OpenHandle \/ CheckHandle \/ Send
    \/ PollOwner \/ AnswerStop

-----------------------------------------------------------------------------
(* The requester, and the processes around it *)

\* The thread that waits for p gets its exit code.
Reap(p) ==
    /\ p \in reaper \cap kids /\ ~Live(p)
    /\ kids' = kids \ {p} /\ reaper' = reaper \ {p}
    /\ UNCHANGED <<vars, startVars, stopVars>>

\* The requester is killed and started again; init adopts its children.
RequesterDies ==
    /\ at' = "idle" /\ round' = "initial" /\ child' = Nobody /\ record' = Absent
    /\ stopAt' = "idle" /\ owner' = Absent /\ handle' = Nobody
    /\ kids' = {} /\ reaper' = {}
    /\ UNCHANGED vars

\* A step of the schedulers themselves; no pid of a zombie is given again.
OwnershipStep ==
    /\ Next
    /\ \A p \in Proc : pc[p] = "unborn" /\ pc'[p] # "unborn" => Holders(p) = {}
    /\ Serving => Bounded'
    /\ UNCHANGED ctl

Vacant == \A p \in Proc : pc[p] \notin Advertised

\* The requests that still rest on what they find before they act.
Asking == (IF at \in {"read", "identify", "launch"} /\ round = "initial" THEN {"start"} ELSE {})
          \cup (IF stopAt \in {"read", "query", "open", "check", "send", "not_running"}
                THEN {"stop"} ELSE {})

Record == quiet' = IF Vacant' THEN Asking' ELSE quiet \cap Asking'

Control ==
    \/ RequestStart \/ StartStep \/ Deadline
    \/ RequestStop \/ StopStep
    \/ \E p \in Proc : Reap(p)
    \/ RequesterDies

ControlNext == (OwnershipStep \/ Control) /\ Record

ControlFairness ==
    /\ Fairness
    /\ WF_at(StartStep) /\ SF_round(Deadline) /\ WF_stopAt(StopStep)
    /\ WF_family(\E p \in Proc : Reap(p))

ControlSpec     == ControlInit /\ [][ControlNext]_allVars
ControlFairSpec == ControlSpec /\ ControlFairness

-----------------------------------------------------------------------------
(* Properties *)

ControlTypeOK ==
    /\ TypeOK
    /\ at \in {"idle", "read", "identify", "launch", "poll", "wait", "abort", "drain"}
              \cup StartAnswers
    /\ round \in {"initial", "loop", "exited", "expired"}
    /\ child \in Proc \cup {Nobody} /\ record \in Marker
    /\ stopAt \in {"idle", "read", "query", "open", "check", "send", "poll"} \cup StopAnswers
    /\ owner \in Marker /\ handle \in Proc \cup {Nobody}
    /\ kids \subseteq Proc /\ reaper \subseteq Proc
    /\ quiet \subseteq {"start", "stop"}

\* The pid a start answers with is that of a process that has claimed the
\* marker, and never of one that was refused; when it is the pid of the child
\* launched, that process is the child, though only the pids are compared.
AnswersNameOwner ==
    at \in {"started", "already"} =>
        /\ record \in Proc
        /\ pc[record] \in Owning \cup {"gone"}
        /\ child \in Proc /\ PidOf[record] = PidOf[child] /\ at = "started" => record = child

\* A child is launched, and a stop answers NOT_RUNNING, only if at some instant
\* of that request no scheduler held the marker: status, marker and handle are
\* read at different times, and still no running scheduler is reported gone.
NotRunningWasTrue ==
    /\ at = "launch" => "start" \in quiet
    /\ stopAt = "not_running" => "stop" \in quiet

\* Only the very process the marker named is signalled, whatever has happened to
\* its pid since the marker was read, and STOPPED is said of a dead one.
StopIsExact ==
    /\ stopAt = "send" => handle = owner
    /\ stopAt = "stopped" => pc[owner] = "gone"

\* The child of a start that timed out does not go on to run as a scheduler.
TimedOutChildEnds ==
    \A p \in Proc : at = "drain" /\ child = p ~> pc[p] = "gone"

\* Start and stop requests are answered, whatever the schedulers do meanwhile.
RequestsReturn ==
    /\ at = "read" ~> at = "idle"
    /\ stopAt = "read" ~> stopAt = "idle"

\* A child that a start has answered for does not stay a zombie, whenever it
\* dies, at once or long after the answer: it would keep its pid, by which a
\* status query still finds it.  (Drain's child is nobody's, see there.)
NoLastingZombie ==
    \A p \in Proc :
        (at = "started" /\ child = p) ~> [](pc[p] = "gone" => p \notin kids)

=============================================================================
