----------------------- MODULE SchedulerControl_proofs -----------------------
(***************************************************************************)
(* For any processes and any reuse of pids: one scheduler at a time, and a *)
(* marker that always names it; and for any overlap of requests: what      *)
(* start and stop requests answer was true, and a stop reaches its owner.  *)
(***************************************************************************)
EXTENDS SchedulerControl, TLAPS

USE OwnershipAssumption

-----------------------------------------------------------------------------
(* The schedulers: the lease, the marker and the processes *)

\* Whoever is between the lock and its release holds the lease.
LeaseHeld ==
    \A p \in Proc : pc[p] \in Claiming \cup Owning => lease = p

\* What a place in the program of p knows about the marker.  The last two
\* conjuncts keep the marker of a live process apart from one left behind.
MarkerKnown(p) ==
    /\ pc[p] = "write" => marker = Corrupt
    /\ pc[p] = "verify" => seen[p] = marker /\ marker \in Proc \cup {Legacy}
    /\ pc[p] = "unlink" =>
         seen[p] = marker /\ marker \in Proc /\ pc[marker] = "gone"
    /\ pc[p] = "recreate" => marker = Absent
    /\ pc[p] \in Advertised => marker = p
    /\ pc[p] \notin Advertised \cup {"gone"} => marker # p

IInv == TypeOK /\ LeaseHeld /\ \A p \in Proc : MarkerKnown(p)

\* The initial states satisfy the type invariant and the invariant: no process
\* has started and no marker names one.
LEMMA InitIInv == Init => IInv
  BY DEF Init, IInv, TypeOK, LeaseHeld, MarkerKnown, Labels, Marker, Claiming, Owning, Advertised

\* Each step leaves every variable in its range.
LEMMA TypeStep == TypeOK /\ [Next]_vars => TypeOK'
<1> SUFFICES ASSUME TypeOK, [Next]_vars PROVE TypeOK'
  OBVIOUS
<1> USE DEF TypeOK, Labels, Marker, Claiming, Owning, Goto, Perish
<1>1. CASE UNCHANGED vars
  BY <1>1 DEF vars
<1>2. ASSUME NEW p \in Proc, Spawn(p) \/ Identify(p) \/ TryLock(p) PROVE TypeOK'
  BY <1>2 DEF Spawn, Identify, TryLock
<1>3. ASSUME NEW p \in Proc, Create(p) \/ Write(p) \/ WriteFails(p) PROVE TypeOK'
  BY <1>3 DEF Create, Write, WriteFails
<1>4. ASSUME NEW p \in Proc, Inspect(p) \/ Verify(p) PROVE TypeOK'
  BY <1>4 DEF Inspect, Verify
<1>5. ASSUME NEW p \in Proc, Unlink(p) \/ Recreate(p) \/ Yield(p) PROVE TypeOK'
  BY <1>5 DEF Unlink, Recreate, Yield
<1>6. ASSUME NEW p \in Proc, Boot(p) \/ InstallHandlers(p) \/ LeaveLoop(p) \/ TickRaises(p)
      PROVE TypeOK'
  BY <1>6 DEF Boot, InstallHandlers, LeaveLoop, TickRaises
<1>7. ASSUME NEW p \in Proc, Signal(p) \/ Crash(p) PROVE TypeOK'
  BY <1>7 DEF Signal, Crash
<1>8. ASSUME NEW p \in Proc, ReadOwn(p) \/ UnlinkOwn(p) \/ Unlock(p) PROVE TypeOK'
  BY <1>8 DEF ReadOwn, UnlinkOwn, Unlock
<1> QED
  BY <1>1, <1>2, <1>3, <1>4, <1>5, <1>6, <1>7, <1>8 DEF Next, Program

\* The lease changes hands only through a process that is at the lock, gives it
\* back, or dies: nobody else's place in the program is disturbed.
LEMMA LeaseStep == TypeOK /\ LeaseHeld /\ [Next]_vars => LeaseHeld'
<1> SUFFICES ASSUME TypeOK, LeaseHeld, [Next]_vars,
                    NEW q \in Proc, pc'[q] \in Claiming \cup Owning
             PROVE lease' = q
  BY DEF LeaseHeld
<1> USE DEF TypeOK, LeaseHeld, Claiming, Owning, Goto, Perish
<1>1. CASE UNCHANGED vars
  BY <1>1 DEF vars
<1>2. ASSUME NEW p \in Proc, Spawn(p) \/ Identify(p) \/ TryLock(p) PROVE lease' = q
  BY <1>2 DEF Spawn, Identify, TryLock
<1>3. ASSUME NEW p \in Proc, Create(p) \/ Write(p) \/ WriteFails(p) PROVE lease' = q
  BY <1>3 DEF Create, Write, WriteFails
<1>4. ASSUME NEW p \in Proc, Inspect(p) \/ Verify(p) PROVE lease' = q
  BY <1>4 DEF Inspect, Verify
<1>5. ASSUME NEW p \in Proc, Unlink(p) \/ Recreate(p) \/ Yield(p) PROVE lease' = q
  BY <1>5 DEF Unlink, Recreate, Yield
<1>6. ASSUME NEW p \in Proc, Boot(p) \/ InstallHandlers(p) \/ LeaveLoop(p) \/ TickRaises(p)
      PROVE lease' = q
  BY <1>6 DEF Boot, InstallHandlers, LeaveLoop, TickRaises
<1>7. ASSUME NEW p \in Proc, Signal(p) \/ Crash(p) PROVE lease' = q
  BY <1>7 DEF Signal, Crash
<1>8. ASSUME NEW p \in Proc, ReadOwn(p) \/ UnlinkOwn(p) \/ Unlock(p) PROVE lease' = q
  BY <1>8 DEF ReadOwn, UnlinkOwn, Unlock
<1> QED
  BY <1>1, <1>2, <1>3, <1>4, <1>5, <1>6, <1>7, <1>8 DEF Next, Program

\* Two processes that both hold the lease are the same process.
LEMMA SoleHolder ==
  ASSUME LeaseHeld, NEW p \in Proc, NEW q \in Proc,
         pc[p] \in Claiming \cup Owning, pc[q] \in Claiming \cup Owning
  PROVE  p = q
  BY DEF LeaseHeld

\* The marker moves only under the lease, so what one process knows of it no
\* other process can upset; a dead process stays dead, so what it left behind
\* can be recovered at any later moment.
LEMMA MarkerStep ==
  TypeOK /\ LeaseHeld /\ (\A p \in Proc : MarkerKnown(p)) /\ [Next]_vars
    => \A p \in Proc : MarkerKnown(p)'
<1> SUFFICES ASSUME TypeOK, LeaseHeld, \A p \in Proc : MarkerKnown(p), [Next]_vars,
                    NEW q \in Proc
             PROVE MarkerKnown(q)'
  OBVIOUS
<1> USE DEF TypeOK, LeaseHeld, MarkerKnown, Claiming, Owning, Advertised, Marker, Goto, Perish
<1>1. CASE UNCHANGED vars
  BY <1>1 DEF vars
<1>2. ASSUME NEW p \in Proc, Spawn(p) \/ Identify(p) \/ TryLock(p) PROVE MarkerKnown(q)'
  BY <1>2 DEF Spawn, Identify, TryLock
<1>3. ASSUME NEW p \in Proc, Create(p) \/ WriteFails(p) PROVE MarkerKnown(q)'
  BY <1>3 DEF Create, WriteFails
<1>4. ASSUME NEW p \in Proc, Write(p) PROVE MarkerKnown(q)'
  BY <1>4 DEF Write
<1>5. ASSUME NEW p \in Proc, Inspect(p) PROVE MarkerKnown(q)'
  BY <1>5 DEF Inspect
<1>6. ASSUME NEW p \in Proc, Verify(p) PROVE MarkerKnown(q)'
  <2>1. CASE seen[p] = Legacy
    BY <1>6, <2>1 DEF Verify, Recoverable
  <2>2. CASE seen[p] # Legacy
    <3>1. seen[p] = marker /\ marker \in Proc
      BY <1>6, <2>2 DEF Verify
    <3>2. PICK status \in OwnerStatus(seen[p]) :
            Goto(p, IF status \in Recoverable THEN "unlink" ELSE "yield")
      BY <1>6, <2>2 DEF Verify
    <3>3. status \in Recoverable => pc[marker] = "gone"
      BY <3>1 DEF OwnerStatus, Recoverable, Live
    <3> QED
      BY <1>6, <3>1, <3>2, <3>3 DEF Verify
  <2> QED
    BY <2>1, <2>2
<1>7. ASSUME NEW p \in Proc, Unlink(p) PROVE MarkerKnown(q)'
  BY <1>7 DEF Unlink
<1>8. ASSUME NEW p \in Proc, Recreate(p) \/ Yield(p) PROVE MarkerKnown(q)'
  BY <1>8 DEF Recreate, Yield
<1>9. ASSUME NEW p \in Proc, Boot(p) \/ InstallHandlers(p) \/ LeaveLoop(p) \/ TickRaises(p)
      PROVE MarkerKnown(q)'
  BY <1>9 DEF Boot, InstallHandlers, LeaveLoop, TickRaises
<1>10. ASSUME NEW p \in Proc, Signal(p) \/ Crash(p) PROVE MarkerKnown(q)'
  BY <1>10 DEF Signal, Crash
<1>11. ASSUME NEW p \in Proc, ReadOwn(p) \/ UnlinkOwn(p) \/ Unlock(p) PROVE MarkerKnown(q)'
  BY <1>11 DEF ReadOwn, UnlinkOwn, Unlock
<1> QED
  BY <1>1, <1>2, <1>3, <1>4, <1>5, <1>6, <1>7, <1>8, <1>9, <1>10, <1>11 DEF Next, Program

\* The invariant holds in every reachable state, whatever the processes, their
\* pids and the marker a past version left behind.
THEOREM Invariance == Spec => []IInv
<1>1. IInv /\ [Next]_vars => IInv'
  BY TypeStep, LeaseStep, MarkerStep DEF IInv
<1> QED
  BY InitIInv, <1>1, PTL DEF Spec

\* scheduler_start() keeps its variables in their ranges.
THEOREM TypeCorrect == Spec => []TypeOK
<1>1. IInv => TypeOK
  BY DEF IInv
<1> QED
  BY Invariance, <1>1, PTL

\* At most one process is ever between acquire_pidfile() and the end of
\* release_pidfile().
THEOREM Exclusion == Spec => []AtMostOneScheduler
<1>1. IInv => AtMostOneScheduler
  BY SoleHolder DEF IInv, AtMostOneScheduler
<1> QED
  BY Invariance, <1>1, PTL

\* The marker a running scheduler wrote stays until it unlinks it itself.
THEOREM Advertisement == Spec => []MarkerNamesOwner
<1>1. IInv => MarkerNamesOwner
  BY DEF IInv, MarkerKnown, MarkerNamesOwner
<1> QED
  BY Invariance, <1>1, PTL

\* Nobody but its owner removes or replaces the marker of a live process.
THEOREM Withdrawal == Spec => OnlyOwnerWithdraws
<1>1. IInv /\ [Next]_vars =>
        [\A p \in Proc : marker = p /\ Live(p) /\ marker' # p => pc[p] = "unlink_own"]_vars
  <2> SUFFICES ASSUME IInv, [Next]_vars,
                      NEW p \in Proc, marker = p, Live(p), marker' # p
               PROVE pc[p] = "unlink_own"
    OBVIOUS
  <2> USE DEF IInv, LeaseHeld, MarkerKnown, Claiming, Owning, Advertised, Live
  <2>1. PICK q \in Proc : Create(q) \/ Write(q) \/ Unlink(q) \/ Recreate(q) \/ UnlinkOwn(q)
    BY DEF Next, Program, vars, Spawn, Identify, TryLock, WriteFails, Inspect, Verify, Yield,
           Boot, InstallHandlers, LeaveLoop, TickRaises, Signal, Crash, ReadOwn, Unlock
  <2>2. pc[p] \in Advertised
    OBVIOUS
  <2>3. pc[q] \in Claiming \cup Owning
    BY <2>1 DEF Create, Write, Unlink, Recreate, UnlinkOwn
  <2>4. p = q
    BY <2>2, <2>3, SoleHolder
  <2> QED
    BY <2>1, <2>2, <2>4 DEF Create, Write, Unlink, Recreate, UnlinkOwn
<1> QED
  BY Invariance, <1>1, PTL DEF Spec, OnlyOwnerWithdraws

\* A marker that names nobody verifiable is never recovered by a guess.
THEOREM FailClosed == Spec => UnverifiableKept
<1>1. IInv /\ [Next]_vars =>
        [/\ marker = Legacy => marker' = Legacy
         /\ marker = Corrupt /\ marker' # Corrupt =>
              \E p \in Proc : pc[p] = "write" /\ marker' = p]_vars
  <2> SUFFICES ASSUME IInv, [Next]_vars, marker' # marker, marker \in {Legacy, Corrupt}
               PROVE /\ marker # Legacy
                     /\ \E p \in Proc : pc[p] = "write" /\ marker' = p
    OBVIOUS
  <2>1. PICK q \in Proc : Create(q) \/ Write(q) \/ Unlink(q) \/ Recreate(q) \/ UnlinkOwn(q)
    BY DEF Next, Program, vars, Spawn, Identify, TryLock, WriteFails, Inspect, Verify, Yield,
           Boot, InstallHandlers, LeaveLoop, TickRaises, Signal, Crash, ReadOwn, Unlock
  <2>2. marker \notin Proc
    OBVIOUS
  <2>3. ~Unlink(q) /\ ~UnlinkOwn(q)
    BY <2>2 DEF IInv, MarkerKnown, Advertised, Owning, Unlink, UnlinkOwn
  <2> QED
    BY <2>1, <2>3 DEF IInv, MarkerKnown, Create, Write, Recreate
<1> QED
  BY Invariance, <1>1, PTL DEF Spec, UnverifiableKept

-----------------------------------------------------------------------------
(* The requests: what they answer, launch and stop *)

\* A marker once read names a process that had claimed it.
Claimed(m) == m \in Proc => pc[m] \in Owning \cup {"gone"}

\* A pid has one holder, the unreaped children included.
PidsHeldOnce ==
    \A p, q \in Proc : HoldsPid(p) /\ HoldsPid(q) /\ PidOf[p] = PidOf[q] => p = q

\* The family of the requester was born; so stays the child, while the request
\* that launched it polls it, a child that no thread waits for.
FamilyKnown ==
    /\ \A p \in kids \cup reaper : pc[p] # "unborn"
    /\ at \in {"idle", "launch"} => round = "initial"
    /\ at \in {"poll", "wait", "abort", "drain", "timeout"} => round \in {"loop", "expired"}
    /\ at = "started" => round \in {"loop", "expired"}
    /\ round = "initial" => child = Nobody
    /\ round # "initial" => child \in Proc
    /\ round \in {"loop", "expired"} /\ at \in {"read", "identify", "poll", "wait", "abort"} =>
         child \in kids \ reaper

\* What the answers of a start are about.
StartKnown ==
    /\ Claimed(record)
    /\ at \in {"wait", "started", "already"} => record \in Proc
    /\ at = "wait" => PidOf[record] # PidOf[child]
    /\ at = "started" /\ PidOf[record] = PidOf[child] => record = child

\* What a stop knows of the process it has a handle of.
StopKnown ==
    /\ Claimed(owner)
    /\ stopAt \in {"open", "check", "send", "poll", "stopped"} => owner \in Proc
    /\ stopAt \in {"check", "send"} => handle \in Proc
    /\ stopAt = "check" /\ handle # owner => pc[owner] = "gone" /\ owner \notin kids
    /\ StopIsExact

\* The marker m was read in request x: unless nobody was the owner at some
\* instant since then, the process it names still is.
Founded(x, m) == x \in quiet \/ (m \in Proc /\ pc[m] \in Advertised)

QuietKnown ==
    /\ at = "identify" /\ round = "initial" => Founded("start", record)
    /\ at = "launch" => "start" \in quiet
    /\ stopAt \in {"query", "open", "check", "send"} => Founded("stop", owner)
    /\ stopAt = "not_running" => "stop" \in quiet

CInv == /\ IInv /\ ControlTypeOK
        /\ PidsHeldOnce /\ FamilyKnown /\ StartKnown /\ StopKnown /\ QuietKnown

-----------------------------------------------------------------------------

\* One process moves at a time, forward in its life.
LEMMA PcStep ==
  TypeOK /\ [Next]_vars =>
    \A q \in Proc :
      /\ pc[q] = "gone" => pc'[q] = "gone"
      /\ pc[q] \in Owning => pc'[q] \in Owning \cup {"gone"}
      /\ pc[q] # "unborn" => pc'[q] # "unborn"
      /\ \A r \in Proc : pc'[q] # pc[q] /\ pc'[r] # pc[r] => q = r
<1> SUFFICES ASSUME TypeOK, [Next]_vars, NEW q \in Proc
             PROVE /\ pc[q] = "gone" => pc'[q] = "gone"
                   /\ pc[q] \in Owning => pc'[q] \in Owning \cup {"gone"}
                   /\ pc[q] # "unborn" => pc'[q] # "unborn"
                   /\ \A r \in Proc : pc'[q] # pc[q] /\ pc'[r] # pc[r] => q = r
  OBVIOUS
<1> USE DEF TypeOK, Owning, Goto, Perish, Live
<1>1. CASE UNCHANGED vars
  BY <1>1 DEF vars
<1>2. ASSUME NEW p \in Proc, Spawn(p) \/ Program(p) \/ TickRaises(p) \/ Signal(p) \/ Crash(p)
      PROVE  \E label : /\ pc' = [pc EXCEPT ![p] = label]
                        /\ pc[p] = "gone" => label = "gone"
                        /\ pc[p] \in Owning => label \in Owning \cup {"gone"}
                        /\ pc[p] # "unborn" => label # "unborn"
  <2>1. CASE Signal(p)
    BY <2>1 DEF Signal
  <2>2. CASE Spawn(p) \/ Identify(p) \/ TryLock(p)
    BY <2>2 DEF Spawn, Identify, TryLock
  <2>3. CASE Create(p) \/ Write(p) \/ WriteFails(p) \/ Inspect(p) \/ Verify(p)
    BY <2>3 DEF Create, Write, WriteFails, Inspect, Verify
  <2>4. CASE Unlink(p) \/ Recreate(p) \/ Yield(p)
    BY <2>4 DEF Unlink, Recreate, Yield
  <2>5. CASE Boot(p) \/ InstallHandlers(p) \/ LeaveLoop(p) \/ TickRaises(p)
    BY <2>5 DEF Boot, InstallHandlers, LeaveLoop, TickRaises
  <2>6. CASE ReadOwn(p) \/ UnlinkOwn(p) \/ Unlock(p) \/ Crash(p)
    BY <2>6 DEF ReadOwn, UnlinkOwn, Unlock, Crash
  <2> QED
    BY <1>2, <2>1, <2>2, <2>3, <2>4, <2>5, <2>6 DEF Program
<1> QED
  BY <1>1, <1>2 DEF Next

\* Everything the requester does to the schedulers is a step of theirs: it
\* launches one, signals one, or leaves them alone.
LEMMA StepOfSchedulers == CInv /\ [ControlNext]_allVars => [Next]_vars
<1> SUFFICES ASSUME CInv, [ControlNext]_allVars PROVE [Next]_vars
  OBVIOUS
<1>1. CASE UNCHANGED allVars
  BY <1>1 DEF allVars
<1>2. ASSUME NEW p \in Proc, Terminate(p) PROVE [Next]_vars
  BY <1>2 DEF Terminate, Next
<1>3. CASE OwnershipStep
  BY <1>3 DEF OwnershipStep
<1>4. CASE RequestStart \/ ReadStatus \/ Identified \/ PollChild \/ AwaitChild \/ Drain
           \/ AnswerStart \/ Deadline
  BY <1>4 DEF RequestStart, ReadStatus, Identified, PollChild, AwaitChild, Drain, AnswerStart,
              Deadline
<1>5. CASE Launch
  BY <1>5 DEF Launch, Next
<1>6. CASE Abort
  BY <1>6, <1>2 DEF Abort, CInv, FamilyKnown
<1>7. CASE RequestStop \/ ReadRecord \/ QueryOwner \/ OpenHandle \/ CheckHandle \/ PollOwner
           \/ AnswerStop \/ RequesterDies \/ \E p \in Proc : Reap(p)
  BY <1>7 DEF RequestStop, ReadRecord, QueryOwner, OpenHandle, CheckHandle, PollOwner, AnswerStop,
              RequesterDies, Reap
<1>8. CASE Send
  BY <1>8, <1>2 DEF Send, CInv, StopKnown
<1> QED
  BY <1>1, <1>3, <1>4, <1>5, <1>6, <1>7, <1>8 DEF ControlNext, Control, StartStep, StopStep

\* What the schedulers know of one another they keep knowing.
LEMMA SchedulersStep == CInv /\ [ControlNext]_allVars => IInv'
  BY StepOfSchedulers, TypeStep, LeaseStep, MarkerStep DEF CInv, IInv

\* Each step of a request leaves its variables in their ranges.
LEMMA ControlTypeStep == CInv /\ [ControlNext]_allVars => ControlTypeOK'
<1> SUFFICES ASSUME CInv, [ControlNext]_allVars PROVE ControlTypeOK'
  OBVIOUS
<1>1. TypeOK'
  BY SchedulersStep DEF IInv
<1>2. marker \in Marker
  BY DEF CInv, IInv, TypeOK
<1>3. quiet' \subseteq {"start", "stop"}
  BY DEF ControlNext, Record, Asking, CInv, ControlTypeOK, allVars
<1> USE <1>1, <1>2, <1>3 DEF CInv, ControlTypeOK, StartAnswers, StopAnswers
<1>4. CASE UNCHANGED allVars
  BY <1>4 DEF allVars, startVars, stopVars, family, ctl
<1>5. CASE OwnershipStep
  BY <1>5 DEF OwnershipStep, startVars, stopVars, family, ctl
<1>6. CASE RequestStart \/ ReadStatus \/ Deadline \/ AnswerStart
  BY <1>6 DEF RequestStart, ReadStatus, Deadline, AnswerStart, startVars, stopVars, family, Marker
<1>7. CASE Identified
  <2>1. PICK state \in Status(record) : at' = Verdict(state)
    BY <1>7 DEF Identified
  <2>2. state \in {"running", "not_running", "unknown"}
    BY <2>1 DEF Status
  <2>3. at' \in {"already", "started", "wait", "unverified", "launch", "poll", "failed", "abort"}
    BY <2>1, <2>2 DEF Verdict
  <2>4. child \in Proc \/ reaper' = reaper
    BY <1>7, <2>1, <2>2 DEF Identified, Verdict, FamilyKnown
  <2> QED
    BY <1>7, <2>3, <2>4 DEF Identified, stopVars
<1>8. CASE Launch
  BY <1>8 DEF Launch, stopVars, family
<1>9. CASE PollChild \/ AwaitChild \/ Abort \/ Drain
  BY <1>9 DEF PollChild, AwaitChild, Abort, Drain, stopVars, FamilyKnown
<1>10. CASE RequestStop \/ ReadRecord \/ OpenHandle \/ AnswerStop
  BY <1>10 DEF RequestStop, ReadRecord, OpenHandle, AnswerStop, startVars, family, Holders, Marker
<1>11. CASE QueryOwner
  <2>1. \A state \in Status(owner) : state \in {"running", "not_running", "unknown"}
    BY DEF Status
  <2> QED
    BY <1>11, <2>1 DEF QueryOwner, startVars, family
<1>12. CASE CheckHandle \/ Send \/ PollOwner
  BY <1>12 DEF CheckHandle, Send, PollOwner, startVars, family
<1>13. CASE RequesterDies \/ \E p \in Proc : Reap(p)
  BY <1>13 DEF RequesterDies, Reap, startVars, stopVars, Marker
<1> QED
  BY <1>4, <1>5, <1>6, <1>7, <1>8, <1>9, <1>10, <1>11, <1>12, <1>13
     DEF ControlNext, Control, StartStep, StopStep

\* What a pid's holder is turns only on births, deaths and reaping.
LEMMA PidsStep == CInv /\ [ControlNext]_allVars => PidsHeldOnce'
<1> SUFFICES ASSUME CInv, [ControlNext]_allVars,
                    NEW p \in Proc, NEW q \in Proc, HoldsPid(p)', HoldsPid(q)',
                    PidOf[p] = PidOf[q], p # q
             PROVE FALSE
  BY DEF PidsHeldOnce
<1>1. [Next]_vars /\ TypeOK
  BY StepOfSchedulers DEF CInv, IInv
<1>2. CASE (\A r \in Proc : HoldsPid(r)' => HoldsPid(r))
  BY <1>2 DEF CInv, PidsHeldOnce
<1>3. CASE \E r \in Proc : HoldsPid(r)' /\ ~HoldsPid(r)
  <2>1. PICK r \in Proc : HoldsPid(r)' /\ ~HoldsPid(r)
    BY <1>3
  <2>2. pc[r] = "unborn" /\ pc'[r] # "unborn" /\ Holders(r) = {} /\ kids' \subseteq kids \cup {r}
    <3>1. CASE OwnershipStep
      <4>1. kids' = kids
        BY <3>1 DEF OwnershipStep, ctl, family
      <4>2. pc[r] \in {"unborn", "gone"} /\ pc'[r] \notin {"unborn", "gone"}
        BY <2>1, <4>1 DEF HoldsPid, Live
      <4> QED
        BY <3>1, <4>1, <4>2, <1>1, PcStep DEF OwnershipStep
    <3>2. CASE Launch
      BY <3>2, <2>1 DEF Launch, Spawn, Goto, HoldsPid, Live, CInv, IInv, TypeOK, family, vars
    <3>3. CASE UNCHANGED allVars
      BY <3>3, <2>1 DEF allVars, vars, ctl, family, HoldsPid, Live
    <3>4. (kids' \subseteq kids /\ (Live(r)' => Live(r))) \/ OwnershipStep \/ Launch \/ UNCHANGED allVars
      <4>1. ASSUME NEW t \in Proc, Terminate(t) PROVE Live(r)' => Live(r)
        BY <4>1 DEF Terminate, Crash, Signal, Perish, Goto, Live, CInv, IInv, TypeOK, vars
      <4>2. CASE RequestStart \/ ReadStatus \/ Identified \/ PollChild \/ AwaitChild \/ Drain
                 \/ AnswerStart \/ Deadline
        BY <4>2 DEF RequestStart, ReadStatus, Identified, PollChild, AwaitChild, Drain, AnswerStart,
                    Deadline, family, Live, vars
      <4>3. CASE Abort
        BY <4>3, <4>1 DEF Abort, CInv, FamilyKnown, Live, vars
      <4>4. CASE RequestStop \/ ReadRecord \/ QueryOwner \/ OpenHandle \/ CheckHandle
                 \/ PollOwner \/ AnswerStop \/ RequesterDies \/ \E t \in Proc : Reap(t)
        BY <4>4 DEF RequestStop, ReadRecord, QueryOwner, OpenHandle, CheckHandle, PollOwner,
                    AnswerStop, RequesterDies, Reap, family, Live, vars
      <4>5. CASE Send
        BY <4>5, <4>1 DEF Send, CInv, StopKnown, family, Live, vars
      <4> QED
        BY <4>2, <4>3, <4>4, <4>5 DEF ControlNext, Control, StartStep, StopStep
    <3> QED
      BY <3>1, <3>2, <3>3, <3>4, <2>1 DEF HoldsPid
  <2>3. \A t \in Proc : HoldsPid(t)' /\ t # r => HoldsPid(t)
    <3>1. SUFFICES ASSUME NEW t \in Proc, HoldsPid(t)', t # r PROVE HoldsPid(t)
      OBVIOUS
    <3>2. pc'[t] = pc[t]
      BY <1>1, <2>2, <3>1, PcStep
    <3>3. kids' \subseteq kids \cup {r}
      BY <2>2
    <3> QED
      BY <3>1, <3>2, <3>3 DEF HoldsPid, Live
  <2> QED
    BY <2>2, <2>3 DEF Holders, CInv, PidsHeldOnce
<1> QED
  BY <1>2, <1>3

\* A child that is being polled stays the requester's own.
LEMMA FamilyStep == CInv /\ [ControlNext]_allVars => FamilyKnown'
<1> SUFFICES ASSUME CInv, [ControlNext]_allVars PROVE FamilyKnown'
  OBVIOUS
<1>1. [Next]_vars /\ TypeOK
  BY StepOfSchedulers DEF CInv, IInv
<1>2. \A p \in Proc : pc[p] # "unborn" => pc'[p] # "unborn"
  BY <1>1, PcStep
<1> USE <1>2 DEF CInv, ControlTypeOK, FamilyKnown, StartAnswers
<1>3. CASE UNCHANGED allVars
  BY <1>3 DEF allVars, startVars, family, ctl
<1>4. CASE OwnershipStep
  BY <1>4 DEF OwnershipStep, startVars, family, ctl
<1>5. CASE RequestStart \/ ReadStatus \/ Deadline \/ AnswerStart
  BY <1>5 DEF RequestStart, ReadStatus, Deadline, AnswerStart, family
<1>6. CASE Identified
  <2>1. PICK state \in Status(record) : at' = Verdict(state)
    BY <1>6 DEF Identified
  <2>2. state \in {"running", "not_running", "unknown"}
    BY <2>1 DEF Status
  <2>3. /\ at' \in {"already", "started", "wait", "unverified", "launch", "poll", "failed", "abort"}
        /\ at' = "launch" => round = "initial"
        /\ at' \in {"poll", "wait", "abort", "started"} => round \in {"loop", "expired"}
    BY <2>1, <2>2 DEF Verdict
  <2> QED
    BY <1>6, <2>3 DEF Identified
<1>7. CASE Launch
  BY <1>7, <1>1 DEF Launch, Spawn, Goto, family, TypeOK
<1>8. CASE PollChild \/ AwaitChild \/ Drain
  BY <1>8 DEF PollChild, AwaitChild, Drain
<1>9. CASE Abort
  BY <1>9 DEF Abort
<1>10. CASE RequestStop \/ StopStep
  BY <1>10 DEF RequestStop, StopStep, ReadRecord, QueryOwner, OpenHandle, CheckHandle, Send,
               PollOwner, AnswerStop, startVars, family
<1>11. CASE RequesterDies \/ \E p \in Proc : Reap(p)
  BY <1>11 DEF RequesterDies, Reap, startVars
<1> QED
  BY <1>3, <1>4, <1>5, <1>6, <1>7, <1>8, <1>9, <1>10, <1>11
     DEF ControlNext, Control, StartStep

\* The marker names a process that has claimed it, now and when it is recalled.
LEMMA ClaimedStep ==
  ASSUME CInv, [ControlNext]_allVars, NEW m, Claimed(m) PROVE m \in Proc => pc'[m] \in Owning \cup {"gone"}
<1>1. [Next]_vars /\ TypeOK
  BY StepOfSchedulers DEF CInv, IInv
<1> QED
  BY <1>1, PcStep DEF Claimed

\* A status query that finds a scheduler running has read who it is; if that is
\* the pid of the child, it is the child.
LEMMA RunningIsHolder ==
  ASSUME CInv, NEW m \in Marker, "running" \in Status(m) PROVE m \in Proc /\ HoldsPid(m)
<1>1. m \in Proc
  BY DEF Status
<1>2. "matching" \in Observed(m)
  BY <1>1 DEF Status, Recoverable, Observed, OwnerStatus
<1> QED
  BY <1>1, <1>2 DEF Observed, OwnerStatus, HoldsPid

\* What a start knows of the marker it has read stays true until it answers.
LEMMA StartStepKnown == CInv /\ [ControlNext]_allVars => StartKnown'
<1> SUFFICES ASSUME CInv, [ControlNext]_allVars PROVE StartKnown'
  OBVIOUS
<1>1. TypeOK /\ record \in Marker
  BY DEF CInv, IInv, ControlTypeOK
<1>2. Claimed(marker)
  BY DEF CInv, IInv, MarkerKnown, Claimed, Advertised, Owning
<1>3. \A m \in {record, marker} : m \in Proc => pc'[m] \in Owning \cup {"gone"}
  BY <1>2, ClaimedStep DEF CInv, StartKnown
<1>4. Absent \notin Proc
  BY OwnershipAssumption
<1> USE <1>3, <1>4 DEF CInv, StartKnown, Claimed
<1>5. CASE UNCHANGED allVars
  BY <1>5 DEF allVars, startVars, ctl
<1>6. CASE OwnershipStep
  BY <1>6 DEF OwnershipStep, startVars, ctl
<1>7. CASE RequestStart \/ ReadStatus \/ Deadline \/ AnswerStart
  BY <1>7 DEF RequestStart, ReadStatus, Deadline, AnswerStart, StartAnswers
<1>8. CASE Identified
  <2>1. PICK state \in Status(record) : at' = Verdict(state)
    BY <1>8 DEF Identified
  <2>2. state \in {"running", "not_running", "unknown"}
    BY <2>1 DEF Status
  <2>3. at' \in {"wait", "started", "already"} => state = "running"
    BY <2>1, <2>2 DEF Verdict, FamilyKnown, ControlTypeOK
  <2>4. state = "running" => record \in Proc /\ HoldsPid(record)
    BY <2>1, <1>1, RunningIsHolder
  <2>5. at' = "wait" => PidOf[record] # PidOf[child]
    BY <2>1, <2>2, <2>3 DEF Verdict
  <2>6. at' = "started" => round \in {"loop", "expired"}
    BY <2>1, <2>2 DEF Verdict, FamilyKnown, ControlTypeOK
  <2>7. at' = "started" /\ PidOf[record] = PidOf[child] => record = child
    BY <1>8, <2>3, <2>4, <2>6 DEF Identified, FamilyKnown, PidsHeldOnce, HoldsPid
  <2> QED
    BY <1>8, <2>3, <2>4, <2>5, <2>7 DEF Identified
<1>9. CASE Launch
  BY <1>9 DEF Launch
<1>10. CASE PollChild \/ AwaitChild \/ Abort \/ Drain
  BY <1>10 DEF PollChild, AwaitChild, Abort, Drain
<1>11. CASE RequestStop \/ StopStep
  BY <1>11 DEF RequestStop, StopStep, ReadRecord, QueryOwner, OpenHandle, CheckHandle, Send,
               PollOwner, AnswerStop, startVars
<1>12. CASE RequesterDies \/ \E p \in Proc : Reap(p)
  BY <1>12 DEF RequesterDies, Reap, startVars
<1> QED
  BY <1>5, <1>6, <1>7, <1>8, <1>9, <1>10, <1>11, <1>12 DEF ControlNext, Control, StartStep

\* A process that the handle of a stop does not belong to is dead for good, and
\* no child of the requester.
LEMMA OtherHolder ==
  ASSUME CInv, NEW q \in Proc, owner \in Proc, q # owner, HoldsPid(q), PidOf[q] = PidOf[owner]
  PROVE  pc[owner] = "gone" /\ owner \notin kids
<1>1. ~HoldsPid(owner)
  BY DEF CInv, PidsHeldOnce
<1>2. pc[owner] \in Owning \cup {"gone"}
  BY DEF CInv, StopKnown, Claimed
<1> QED
  BY <1>1, <1>2 DEF HoldsPid, Live, Owning

\* The handle, the identity read through it and the signal are about one process.
LEMMA StopStepKnown == CInv /\ [ControlNext]_allVars => StopKnown'
<1> SUFFICES ASSUME CInv, [ControlNext]_allVars PROVE StopKnown'
  OBVIOUS
<1>1. TypeOK /\ owner \in Marker
  BY DEF CInv, IInv, ControlTypeOK
<1>2. Claimed(marker)
  BY DEF CInv, IInv, MarkerKnown, Claimed, Advertised, Owning
<1>3. \A m \in {owner, marker} : m \in Proc => pc'[m] \in Owning \cup {"gone"}
  BY <1>2, ClaimedStep DEF CInv, StopKnown
<1>4. Absent \notin Proc
  BY OwnershipAssumption
<1>5. [Next]_vars
  BY StepOfSchedulers
<1>6. owner \in Proc /\ pc[owner] = "gone" => pc'[owner] = "gone"
  BY <1>1, <1>5, PcStep
<1>7. owner \in Proc /\ pc[owner] = "gone" /\ owner \notin kids => owner \notin kids'
  BY DEF ControlNext, Control, StartStep, StopStep, allVars, ctl, family, OwnershipStep,
         RequestStart, ReadStatus, Identified, Launch, Spawn, PollChild, AwaitChild, Abort, Drain,
         AnswerStart, Deadline, RequestStop, ReadRecord, QueryOwner, OpenHandle, CheckHandle, Send,
         PollOwner, AnswerStop, RequesterDies, Reap
<1> USE <1>3, <1>4, <1>6, <1>7 DEF CInv, StopKnown, StopIsExact, Claimed
<1>8. CASE UNCHANGED allVars
  BY <1>8 DEF allVars, stopVars, ctl
<1>9. CASE OwnershipStep
  BY <1>9 DEF OwnershipStep, stopVars, ctl
<1>10. CASE RequestStart \/ ReadStatus \/ Identified \/ Launch \/ PollChild \/ AwaitChild
            \/ Abort \/ Drain \/ AnswerStart \/ Deadline
  BY <1>10 DEF RequestStart, ReadStatus, Identified, Launch, PollChild, AwaitChild, Abort, Drain,
               AnswerStart, Deadline, stopVars
<1>11. CASE RequestStop \/ ReadRecord \/ AnswerStop
  BY <1>11 DEF RequestStop, ReadRecord, AnswerStop, StopAnswers
<1>12. CASE QueryOwner
  <2>1. PICK state \in Status(owner) :
          stopAt' = CASE state = "running" -> "open"
                      [] state = "not_running" -> "not_running"
                      [] state = "unknown" -> "unverified"
    BY <1>12 DEF QueryOwner
  <2>2. state \in {"running", "not_running", "unknown"}
    BY <2>1 DEF Status
  <2>3. state = "running" => owner \in Proc
    BY <2>1, <1>1, RunningIsHolder
  <2> QED
    BY <1>12, <2>1, <2>2, <2>3 DEF QueryOwner
<1>13. CASE OpenHandle
  <2>1. \A p \in Holders(owner) : p # owner => pc[owner] = "gone" /\ owner \notin kids
    BY <1>13, OtherHolder DEF OpenHandle, Holders
  <2> QED
    BY <1>13, <2>1 DEF OpenHandle, Holders, family
<1>14. CASE CheckHandle
  <2>1. owner \in Holders(owner) => owner = handle
    BY <1>14 DEF CheckHandle, Holders, HoldsPid, Live
  <2> QED
    BY <1>14, <2>1 DEF CheckHandle
<1>15. CASE Send
  BY <1>15 DEF Send
<1>16. CASE PollOwner
  <2>1. \A status \in Observed(owner) \cap Recoverable : ~Live(owner)
    BY DEF Observed, OwnerStatus, Recoverable
  <2>2. pc[owner] \in Owning \cup {"gone"}
    BY <1>16 DEF PollOwner
  <2>3. ~Live(owner) => pc[owner] = "gone"
    BY <2>2 DEF Live, Owning
  <2> QED
    BY <1>16, <2>1, <2>3 DEF PollOwner
<1>17. CASE RequesterDies \/ \E p \in Proc : Reap(p)
  BY <1>17 DEF RequesterDies, Reap, stopVars
<1> QED
  BY <1>8, <1>9, <1>10, <1>11, <1>12, <1>13, <1>14, <1>15, <1>16, <1>17
     DEF ControlNext, Control, StartStep, StopStep

\* When the owner withdraws its marker or dies nobody is the owner for an instant.
LEMMA VacantAfter ==
  ASSUME CInv, [ControlNext]_allVars,
         NEW p \in Proc, pc[p] \in Advertised, pc'[p] \notin Advertised
  PROVE  Vacant'
<1>1. [Next]_vars /\ TypeOK /\ LeaseHeld
  BY StepOfSchedulers DEF CInv, IInv
<1>2. SUFFICES ASSUME NEW q \in Proc, pc'[q] \in Advertised PROVE FALSE
  BY DEF Vacant
<1>3. q # p /\ pc'[q] = pc[q]
  BY <1>1, <1>2, PcStep
<1> QED
  BY <1>1, <1>2, <1>3, SoleHolder DEF Advertised

\* A foundation gives way only at an instant without an owner, which is recorded.
LEMMA FoundedStep ==
  ASSUME CInv, [ControlNext]_allVars, NEW x, NEW m, Founded(x, m), x \in Asking'
  PROVE  x \in quiet' \/ (m \in Proc /\ pc'[m] \in Advertised)
<1>1. CASE UNCHANGED allVars
  BY <1>1 DEF allVars, vars, Founded
<1>2. CASE Record
  BY <1>2, VacantAfter DEF Record, Founded
<1> QED
  BY <1>1, <1>2 DEF ControlNext

\* A marker just read is a foundation.
LEMMA ReadFounded ==
  ASSUME CInv, Record, UNCHANGED vars, NEW x, x \in Asking'
  PROVE  x \in quiet' \/ (marker \in Proc /\ pc'[marker] \in Advertised)
<1>1. CASE Vacant
  BY <1>1 DEF Record, Vacant, vars
<1>2. ASSUME NEW p \in Proc, pc[p] \in Advertised PROVE marker = p
  BY <1>2 DEF CInv, IInv, MarkerKnown
<1> QED
  BY <1>1, <1>2 DEF Vacant, vars

\* An answer that no scheduler runs rests on an instant when none did.
LEMMA NotRunningFounded ==
  ASSUME CInv, Record, UNCHANGED vars, NEW x, x \in Asking', NEW m \in Marker, Founded(x, m),
         "not_running" \in Status(m)
  PROVE  x \in quiet'
<1>1. CASE m \in Proc
  <2>1. ~Live(m)
    BY <1>1 DEF Status, Observed, OwnerStatus, Recoverable
  <2> QED
    BY <2>1 DEF Founded, Live, Advertised, Owning, Record
<1>2. CASE m \notin Proc
  <2>1. marker = Absent
    BY <1>2 DEF Status
  <2>2. Vacant
    BY <2>1, OwnershipAssumption DEF CInv, IInv, MarkerKnown, Vacant
  <2> QED
    BY <2>2 DEF Record, Vacant, vars
<1> QED
  BY <1>1, <1>2

\* What the requests rest on survives every step.
LEMMA QuietStep == CInv /\ [ControlNext]_allVars => QuietKnown'
<1> SUFFICES ASSUME CInv, [ControlNext]_allVars PROVE QuietKnown'
  OBVIOUS
<1>1. record \in Marker /\ owner \in Marker
  BY DEF CInv, ControlTypeOK
<1>2. CASE UNCHANGED allVars
  BY <1>2 DEF CInv, QuietKnown, Founded, allVars, vars, ctl, startVars, stopVars
<1>3. CASE ControlNext
  <2> USE <1>3 DEF CInv, ControlNext
  <2>1. /\ at' = "identify" /\ round' = "initial" => Founded("start", record)'
        /\ at' = "launch" => "start" \in quiet'
    <3>1. SUFFICES ASSUME at' \in {"identify", "launch"}, round' = "initial" \/ at' = "launch"
                   PROVE IF at' = "launch" THEN "start" \in quiet' ELSE Founded("start", record)'
      BY <3>1
    <3>2. round' = "initial"
      BY <3>1, FamilyStep DEF FamilyKnown
    <3>3. "start" \in Asking'
      BY <3>1, <3>2 DEF Asking
    <3>4. CASE UNCHANGED startVars
      <4>1. Founded("start", record)
        BY <3>1, <3>2, <3>4 DEF QuietKnown, Founded, startVars
      <4>2. at' = "launch" => "start" \in quiet'
        BY <3>3, <3>4 DEF QuietKnown, startVars, Record
      <4> QED
        BY <3>3, <3>4, <4>1, <4>2, FoundedStep DEF Founded, startVars
    <3>5. CASE ReadStatus
      BY <3>3, <3>5, ReadFounded DEF ReadStatus, Founded
    <3>6. CASE Identified
      <4>1. PICK state \in Status(record) : at' = Verdict(state)
        BY <3>6 DEF Identified
      <4>2. state \in {"running", "not_running", "unknown"}
        BY <4>1 DEF Status
      <4>3. at' = "launch" /\ state = "not_running" /\ round = "initial"
        BY <3>1, <3>2, <3>6, <4>1, <4>2 DEF Verdict, Identified, ControlTypeOK
      <4>4. Founded("start", record)
        BY <3>6, <4>3 DEF Identified, QuietKnown
      <4> QED
        BY <1>1, <3>3, <3>6, <4>1, <4>3, <4>4, NotRunningFounded DEF Identified
    <3> QED
      BY <3>1, <3>2, <3>4, <3>5, <3>6
         DEF Control, StartStep, StopStep, OwnershipStep, ctl, StartAnswers,
             RequestStart, Launch, PollChild, AwaitChild, Abort, Drain, AnswerStart, Deadline,
             RequestStop, ReadRecord, QueryOwner, OpenHandle, CheckHandle, Send, PollOwner,
             AnswerStop, Reap, RequesterDies
  <2>2. /\ stopAt' \in {"query", "open", "check", "send"} => Founded("stop", owner)'
        /\ stopAt' = "not_running" => "stop" \in quiet'
    <3>1. SUFFICES ASSUME stopAt' \in {"query", "open", "check", "send", "not_running"}
                   PROVE IF stopAt' = "not_running" THEN "stop" \in quiet'
                         ELSE Founded("stop", owner)'
      BY <3>1
    <3>2. "stop" \in Asking'
      BY <3>1 DEF Asking
    <3>3. CASE UNCHANGED stopVars
      <4>1. stopAt = "not_running" => "stop" \in quiet'
        BY <3>2 DEF QuietKnown, Record
      <4> QED
        BY <3>1, <3>2, <3>3, <4>1, FoundedStep DEF QuietKnown, Founded, stopVars
    <3>4. CASE ReadRecord
      BY <3>2, <3>4, ReadFounded DEF ReadRecord, Founded
    <3>5. CASE QueryOwner
      <4>1. Founded("stop", owner) /\ owner' = owner
        BY <3>5 DEF QueryOwner, QuietKnown
      <4>2. PICK state \in Status(owner) :
              stopAt' = CASE state = "running" -> "open"
                          [] state = "not_running" -> "not_running"
                          [] state = "unknown" -> "unverified"
        BY <3>5 DEF QueryOwner
      <4>3. state \in {"running", "not_running", "unknown"}
        BY <4>2 DEF Status
      <4>4. stopAt' = "not_running" => state = "not_running"
        BY <4>2, <4>3
      <4>5. stopAt' = "not_running" => "stop" \in quiet'
        BY <1>1, <3>2, <3>5, <4>1, <4>2, <4>4, NotRunningFounded DEF QueryOwner
      <4> QED
        BY <3>2, <4>1, <4>5, FoundedStep DEF Founded
    <3>6. CASE OpenHandle \/ CheckHandle \/ Send
      <4>1. Founded("stop", owner) /\ owner' = owner /\ owner \in Proc
        BY <3>6 DEF OpenHandle, CheckHandle, Send, QuietKnown, StopKnown
      <4>2. stopAt' = "not_running" => ~Live(owner)
        <5>1. CASE OpenHandle
          BY <4>1, <5>1, <3>1 DEF OpenHandle, Holders, HoldsPid
        <5>2. CASE CheckHandle
          <6>1. \A p \in Holders(owner) : p # owner => ~Live(owner)
            BY <4>1, OtherHolder DEF Holders, Live
          <6>2. handle # owner => ~Live(owner)
            BY <5>2 DEF CheckHandle, StopKnown, Live
          <6> QED
            BY <4>1, <5>2, <6>1, <6>2 DEF CheckHandle, Holders, HoldsPid
        <5>3. CASE Send
          BY <5>3, <3>1 DEF Send, StopKnown, StopIsExact, HoldsPid
        <5> QED
          BY <3>6, <5>1, <5>2, <5>3
      <4>3. stopAt' = "not_running" => "stop" \in quiet'
        BY <3>2, <4>1, <4>2 DEF Founded, Live, Advertised, Owning, Record
      <4> QED
        BY <3>2, <4>1, <4>3, FoundedStep DEF Founded
    <3> QED
      BY <3>1, <3>3, <3>4, <3>5, <3>6
         DEF Control, StartStep, StopStep, OwnershipStep, ctl, StopAnswers,
             RequestStart, ReadStatus, Identified, Launch, PollChild, AwaitChild, Abort, Drain,
             AnswerStart, Deadline, RequestStop, PollOwner, AnswerStop, Reap, RequesterDies
  <2> QED
    BY <2>1, <2>2 DEF QuietKnown
<1> QED
  BY <1>2, <1>3

-----------------------------------------------------------------------------

\* At first nobody has started, and no request is in progress.
LEMMA InitCInv == ControlInit => CInv
<1> SUFFICES ASSUME ControlInit PROVE CInv
  OBVIOUS
<1>1. IInv
  BY InitIInv DEF ControlInit
<1> QED
  BY <1>1, OwnershipAssumption
     DEF ControlInit, Init, CInv, IInv, TypeOK, ControlTypeOK, Marker, PidsHeldOnce, HoldsPid, Live,
         FamilyKnown, StartKnown, StopKnown, StopIsExact, QuietKnown, Claimed, StartAnswers,
         StopAnswers

\* Requests and schedulers together keep what each of them relies on.
THEOREM ControlInvariance == ControlSpec => []CInv
<1>1. CInv /\ [ControlNext]_allVars => CInv'
  BY SchedulersStep, ControlTypeStep, PidsStep, FamilyStep, StartStepKnown, StopStepKnown,
     QuietStep DEF CInv
<1> QED
  BY InitCInv, <1>1, PTL DEF ControlSpec

\* Processes that start and stop schedulers from outside, whatever they do,
\* leave them what SchedulerOwnership says they are: its theorems hold here too.
THEOREM ControlImplements == ControlSpec => Spec
<1>1. ControlInit => Init
  BY DEF ControlInit
<1> QED
  BY ControlInvariance, StepOfSchedulers, <1>1, PTL DEF ControlSpec, Spec

\* The variables of the requests stay in their ranges.
THEOREM ControlTypeCorrect == ControlSpec => []ControlTypeOK
<1>1. CInv => ControlTypeOK
  BY DEF CInv
<1> QED
  BY ControlInvariance, <1>1, PTL

\* A start answers with the pid of a process that had claimed the marker, and
\* with the child's pid only if that process is the child.
THEOREM TruthfulStart == ControlSpec => []AnswersNameOwner
<1>1. CInv => AnswersNameOwner
  BY DEF CInv, StartKnown, Claimed, AnswersNameOwner
<1> QED
  BY ControlInvariance, <1>1, PTL

\* NOT_RUNNING was true at some instant of the request, and so was the absence
\* of an owner on which a child is launched.
THEOREM TruthfulNotRunning == ControlSpec => []NotRunningWasTrue
<1>1. CInv => NotRunningWasTrue
  BY DEF CInv, QuietKnown, NotRunningWasTrue
<1> QED
  BY ControlInvariance, <1>1, PTL

\* No reuse of a pid makes a stop signal another process than the owner it read.
THEOREM ExactStop == ControlSpec => []StopIsExact
<1>1. CInv => StopIsExact
  BY DEF CInv, StopKnown
<1> QED
  BY ControlInvariance, <1>1, PTL

==============================================================================
