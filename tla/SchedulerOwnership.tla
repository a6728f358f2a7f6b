------------------------- MODULE SchedulerOwnership -------------------------
(***************************************************************************)
(* Who may run the scheduler daemon.                                       *)
(*                                                                         *)
(* `nexolith scheduler start` (cli/app.py) claims two things before it     *)
(* enters Scheduler.run(): an operating-system lock on a companion file,   *)
(* the LEASE, and a MARKER file `scheduler.pid` naming its process         *)
(* (scheduler/pidfile.py).  It gives both back in a `finally`.  The OS     *)
(* drops the lease of a process that dies; the marker stays on disk.       *)
(*                                                                         *)
(* A member of Proc is one process INSTANCE: what process_identity.py      *)
(* calls an identity, a pid plus a creation time.  PidOf gives its pid; a  *)
(* pid is used by one live instance at a time and reused after its death.  *)
(***************************************************************************)

CONSTANTS
    Proc,        \* process instances, schedulers and strangers alike
    PidOf,       \* [Proc -> pid], the number the OS gave the instance
    Nobody,      \* the lease is free
    Absent,      \* no marker file
    Corrupt,     \* a marker read_pidfile() cannot parse, an empty one included
    Legacy       \* a marker without a creation time, from an older version

ASSUME OwnershipAssumption ==
    /\ Nobody \notin Proc
    /\ Proc \cap {Absent, Corrupt, Legacy} = {}
    /\ Absent # Corrupt /\ Absent # Legacy /\ Corrupt # Legacy

VARIABLES
    pc,      \* pc[p]: where instance p is in scheduler_start()
    lease,   \* the holder of the lock on scheduler.pid.lock
    marker,  \* the content of scheduler.pid
    seen,    \* seen[p]: the marker p read while it held the lease
    stop     \* stop[p]: Scheduler._stop_event of p

vars == <<pc, lease, marker, seen, stop>>

-----------------------------------------------------------------------------
(* Processes and their identities *)

Claiming == {"create", "write", "inspect", "verify", "unlink", "recreate", "yield"}
Owning   == {"boot", "install", "run", "release", "unlink_own", "unlock"}
Labels   == {"unborn", "stranger", "identify", "lock", "gone"} \cup Claiming \cup Owning

Live(p) == pc[p] \notin {"unborn", "gone"}

\* The marker still names p from its write to its own unlink.
Advertised == Owning \ {"unlock"}

Marker == Proc \cup {Absent, Corrupt, Legacy}

\* pidfile_owner_status() of a marker naming q.  psutil may refuse or fail.
OwnerStatus(q) ==
    IF Live(q) THEN {"matching", "access_denied", "unavailable"}
    ELSE IF \E r \in Proc : Live(r) /\ PidOf[r] = PidOf[q]
         THEN {"reused", "access_denied", "unavailable"}
         ELSE {"dead", "unavailable"}

Recoverable == {"dead", "reused"}

Goto(p, label) == pc' = [pc EXCEPT ![p] = label]

\* p ends, or dies: the OS takes back a lease it holds, the marker stays.
Perish(p) ==
    /\ Goto(p, "gone")
    /\ lease' = IF lease = p THEN Nobody ELSE lease

Init ==
    /\ pc = [p \in Proc |-> "unborn"]
    /\ lease = Nobody
    /\ marker \in {Absent, Corrupt, Legacy}
    /\ seen = [p \in Proc |-> Absent]
    /\ stop = [p \in Proc |-> FALSE]

\* The OS creates p, a scheduler or any other process, on a pid not in use.
Spawn(p) ==
    /\ pc[p] = "unborn"
    /\ \A q \in Proc : Live(q) => PidOf[q] # PidOf[p]
    /\ \E label \in {"identify", "stranger"} : Goto(p, label)
    /\ UNCHANGED <<lease, marker, seen, stop>>

-----------------------------------------------------------------------------
(* acquire_pidfile() *)

\* It looks its own identity up; anything but FOUND raises and ends the start.
Identify(p) ==
    /\ pc[p] = "identify"
    /\ \E status \in {"matching", "access_denied", "unavailable"} :
         Goto(p, IF status = "matching" THEN "lock" ELSE "gone")
    /\ UNCHANGED <<lease, marker, seen, stop>>

\* Mutant: the marker alone guards the start, a busy lease is ignored.
TryLock_IgnoresBusyLease(p) ==
    /\ pc[p] = "lock"
    /\ lease' = IF lease = Nobody THEN p ELSE lease
    /\ Goto(p, "create")
    /\ UNCHANGED <<marker, seen, stop>>

\* Mutant: the lock is taken without LOCK_NB.
TryLock_Waits(p) ==
    /\ pc[p] = "lock"
    /\ lease = Nobody
    /\ lease' = p
    /\ Goto(p, "create")
    /\ UNCHANGED <<marker, seen, stop>>

\* A non-blocking lock of the companion file; a busy one refuses the start.
TryLock(p) ==
    /\ pc[p] = "lock"
    /\ IF lease = Nobody
       THEN lease' = p /\ Goto(p, "create")
       ELSE Goto(p, "gone") /\ UNCHANGED lease
    /\ UNCHANGED <<marker, seen, stop>>

\* open("x"): an existing file is inspected, a new one is empty until written.
Create(p) ==
    /\ pc[p] = "create"
    /\ IF marker = Absent
       THEN marker' = Corrupt /\ Goto(p, "write")
       ELSE Goto(p, "inspect") /\ UNCHANGED marker
    /\ UNCHANGED <<lease, seen, stop>>

Write(p) ==
    /\ pc[p] = "write"
    /\ marker' = p
    /\ Goto(p, "boot")
    /\ UNCHANGED <<lease, seen, stop>>

\* The write raises (a full disk): the `finally` gives the lease back.
WriteFails(p) ==
    /\ pc[p] = "write"
    /\ Goto(p, "yield")
    /\ UNCHANGED <<lease, marker, seen, stop>>

\* Mutant: a marker that cannot be parsed is taken for a dead one.
Inspect_RecoversCorrupt(p) ==
    /\ pc[p] = "inspect"
    /\ seen' = [seen EXCEPT ![p] = marker]
    /\ Goto(p, IF marker = Corrupt THEN "unlink" ELSE "verify")
    /\ UNCHANGED <<lease, marker, stop>>

\* Mutant: the record kept is the one of the lease, free or not.
Inspect_KeepsHolder(p) ==
    /\ pc[p] = "inspect"
    /\ seen' = [seen EXCEPT ![p] = IF marker \in Proc THEN marker ELSE Nobody]
    /\ Goto(p, IF marker \in {Absent, Corrupt} THEN "yield" ELSE "verify")
    /\ UNCHANGED <<lease, marker, stop>>

\* read_pidfile() of the marker found; an unreadable one refuses the start.
Inspect(p) ==
    /\ pc[p] = "inspect"
    /\ seen' = [seen EXCEPT ![p] = marker]
    /\ Goto(p, IF marker \in {Absent, Corrupt} THEN "yield" ELSE "verify")
    /\ UNCHANGED <<lease, marker, stop>>

\* Only the marker of a process proven dead, or replaced, is recovered.
Verify(p) ==
    /\ pc[p] = "verify"
    /\ \E status \in IF seen[p] = Legacy THEN {"legacy"} ELSE OwnerStatus(seen[p]) :
         Goto(p, IF status \in Recoverable THEN "unlink" ELSE "yield")
    /\ UNCHANGED <<lease, marker, seen, stop>>

Unlink(p) ==
    /\ pc[p] = "unlink"
    /\ IF marker = Absent
       THEN Goto(p, "yield") /\ UNCHANGED marker
       ELSE Goto(p, "recreate") /\ marker' = Absent
    /\ UNCHANGED <<lease, seen, stop>>

Recreate(p) ==
    /\ pc[p] = "recreate"
    /\ IF marker = Absent
       THEN marker' = Corrupt /\ Goto(p, "write")
       ELSE Goto(p, "yield") /\ UNCHANGED marker
    /\ UNCHANGED <<lease, seen, stop>>

\* `finally: lease.release()` of a claim that was refused, then exit code 1.
Yield(p) ==
    /\ pc[p] = "yield"
    /\ lease' = Nobody
    /\ Goto(p, "gone")
    /\ UNCHANGED <<marker, seen, stop>>

-----------------------------------------------------------------------------
(* scheduler_start() with the claim, and Scheduler.run() *)

\* StateStore() and run() up to `_stop_event.clear()`; either may raise.
Boot(p) ==
    /\ pc[p] = "boot"
    /\ \/ Goto(p, "install") /\ stop' = [stop EXCEPT ![p] = FALSE]
       \/ Goto(p, "release") /\ UNCHANGED stop
    /\ UNCHANGED <<lease, marker, seen>>

InstallHandlers(p) ==
    /\ pc[p] = "install"
    /\ Goto(p, "run")
    /\ UNCHANGED <<lease, marker, seen, stop>>

\* `while not stop_event.is_set()`: the tick in progress ends first, and it may
\* run the whole due list; a tick changes nothing here.
LeaveLoop(p) ==
    /\ pc[p] = "run"
    /\ stop[p]
    /\ Goto(p, "release")
    /\ UNCHANGED <<lease, marker, seen, stop>>

\* An exception of tick() leaves the loop through the same `finally`.
TickRaises(p) ==
    /\ pc[p] = "run"
    /\ Goto(p, "release")
    /\ UNCHANGED <<lease, marker, seen, stop>>

\* Mutant: the handlers are installed before the stop event is cleared.
Signal_BeforeClear(p) ==
    /\ pc[p] \in {"boot", "install", "run"}
    /\ stop' = [stop EXCEPT ![p] = TRUE]
    /\ UNCHANGED <<pc, lease, marker, seen>>

\* SIGINT or SIGTERM once the handlers are in place.  Before that it kills.
Signal(p) ==
    /\ pc[p] = "run"
    /\ stop' = [stop EXCEPT ![p] = TRUE]
    /\ UNCHANGED <<pc, lease, marker, seen>>

\* release_pidfile(): the marker is removed only if it is the claim's own.
ReadOwn(p) ==
    /\ pc[p] = "release"
    /\ Goto(p, IF marker = p THEN "unlink_own" ELSE "unlock")
    /\ UNCHANGED <<lease, marker, seen, stop>>

UnlinkOwn(p) ==
    /\ pc[p] = "unlink_own"
    /\ marker' = Absent
    /\ Goto(p, "unlock")
    /\ UNCHANGED <<lease, seen, stop>>

Unlock(p) ==
    /\ pc[p] = "unlock"
    /\ Perish(p)
    /\ UNCHANGED <<marker, seen, stop>>

\* SIGKILL, a default SIGTERM, TerminateProcess, a power cut for that process.
Crash(p) ==
    /\ Live(p)
    /\ Perish(p)
    /\ UNCHANGED <<marker, seen, stop>>

-----------------------------------------------------------------------------
\* Every step of p's own program; a scheduled process takes it eventually.
Program(p) ==
    \/ Identify(p) \/ TryLock(p)
    \/ Create(p) \/ Write(p) \/ WriteFails(p)
    \/ Inspect(p) \/ Verify(p) \/ Unlink(p) \/ Recreate(p) \/ Yield(p)
    \/ Boot(p) \/ InstallHandlers(p) \/ LeaveLoop(p)
    \/ ReadOwn(p) \/ UnlinkOwn(p) \/ Unlock(p)

Next == \E p \in Proc :
    Spawn(p) \/ Program(p) \/ TickRaises(p) \/ Signal(p) \/ Crash(p)

Fairness == \A p \in Proc : WF_vars(Program(p))

Spec     == Init /\ [][Next]_vars
FairSpec == Spec /\ Fairness

-----------------------------------------------------------------------------
(* Properties *)

\* Every variable stays in its range.
TypeOK ==
    /\ pc \in [Proc -> Labels]
    /\ lease \in Proc \cup {Nobody}
    /\ marker \in Marker
    /\ seen \in [Proc -> Marker]
    /\ stop \in [Proc -> BOOLEAN]

\* At most one process is past acquire_pidfile() and before the end of
\* release_pidfile(): two schedulers never tick over one state store.
AtMostOneScheduler ==
    \A p, q \in Proc : pc[p] \in Owning /\ pc[q] \in Owning => p = q

\* While a scheduler runs, the marker is its own record: status and stop,
\* which only read the marker, find it and not another process.
MarkerNamesOwner ==
    \A p \in Proc : pc[p] \in Advertised => marker = p

\* A marker that names a live process disappears only by that process's own
\* release: no observer and no competing start ever removes or replaces it.
OnlyOwnerWithdraws ==
    [][\A p \in Proc :
         marker = p /\ Live(p) /\ marker' # p => pc[p] = "unlink_own"]_vars

\* A marker whose owner cannot be verified is never touched (fail closed),
\* except for the one the process holding the lease has itself just opened.
UnverifiableKept ==
    [][/\ marker = Legacy => marker' = Legacy
       /\ marker = Corrupt /\ marker' # Corrupt =>
            \E p \in Proc : pc[p] = "write" /\ marker' = p]_vars

\* A start never waits: it runs, is refused, fails, or dies.
StartResolves ==
    \A p \in Proc : pc[p] = "identify" ~> pc[p] \in {"run", "gone"}

\* A stop request that reached the handlers ends the scheduler, however many
\* ticks it is in, and the lease is free for the next start.
StopHonoured ==
    \A p \in Proc : stop[p] ~> (pc[p] = "gone" /\ lease # p)

=============================================================================
