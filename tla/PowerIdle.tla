----------------------------- MODULE PowerIdle -----------------------------
(***************************************************************************)
(* rocket_rk3576_power_idle(): the power cycle that clears the RK3576's    *)
(* "next submit writes nothing" hazard.  A process finds the bound NPU     *)
(* devices in sysfs once, sizes a blind idle from their autosuspend delay, *)
(* and, if the delay is writable, drives the cycle itself: write zero to   *)
(* every device, poll until every device reads "suspended", write the old  *)
(* delay back.  sysfs is shared by every process and every file is read or *)
(* written by a system call of its own, which is one step here.            *)
(***************************************************************************)
EXTENDS Integers, FiniteSets

CONSTANTS Proc,      \* the processes (a process makes one call at a time)
          NDev,      \* NPU cores bound at the start, named 1 .. NDev
          Policy,    \* the autosuspend delay the system is configured with
          Default,   \* R76_PM_DELAY_DEFAULT_MS
          MaxFaults  \* bound on cores unbound and processes killed, together

ASSUME PowerAssumption ==
    /\ NDev \in Nat \ {0} /\ Policy \in Nat \ {0} /\ Default \in Nat \ {0}
    /\ MaxFaults \in Nat

Dev == 1 .. NDev
Unavailable == -1   \* no delay could be read

VARIABLES
    bound,    \* sysfs: the devices of the rocket driver now
    delay,    \* sysfs: delay[d] = power/autosuspend_delay_ms
    active,   \* sysfs: the devices whose runtime_status is not "suspended"
    pc,       \* pc[p]: where p is
    devs,     \* devs[p]: r76_pm_dir, filled once
    idleMs,   \* idleMs[p]: r76_idle_ms
    kickMs,   \* kickMs[p]: r76_kick_ms, Unavailable until resolved
    todo,     \* todo[p]: devices the current write or poll loop still visits
    ok,       \* ok[p]: that loop's verdict so far
    done,     \* done[p]: the answer of r76_pm_wait_suspended
    cycled    \* ghost: the shared domain collapsed since p's call began

sysfs == <<bound, delay, active>>
locals == <<pc, devs, idleMs, kickMs, todo, ok, done>>
vars == <<sysfs, locals, cycled>>

Label == {"new", "idle?", "kick?", "probe-write", "ready", "write0", "poll",
          "restore", "sleep", "ret1", "ret0", "dead", "absent"}
Gone == {"dead", "absent"}

Init ==
    /\ bound = Dev
    /\ delay = [d \in Dev |-> Policy]
    /\ active = Dev
    /\ pc \in [Proc -> {"new", "absent"}] /\ \E p \in Proc : pc[p] = "new"
    /\ devs = [p \in Proc |-> {}]
    /\ idleMs = [p \in Proc |-> 150]
    /\ kickMs = [p \in Proc |-> Unavailable]
    /\ todo = [p \in Proc |-> {}]
    /\ ok = [p \in Proc |-> FALSE]
    /\ done = [p \in Proc |-> FALSE]
    /\ cycled = [p \in Proc |-> FALSE]

Goto(p, l) == pc' = [pc EXCEPT ![p] = l]
First(S) == CHOOSE d \in S : \A e \in S : d <= e

\* r76_autosuspend_ms: the delay of the first device found, if it is there.
AutosuspendMs(p) ==
    IF devs[p] # {} /\ First(devs[p]) \in bound THEN delay[First(devs[p])]
                                                ELSE Unavailable

\* The domain the devices share collapses when the last one suspends.
Collapse(still) ==
    cycled' = IF still = {} THEN [p \in Proc |-> TRUE] ELSE cycled

(***************************************************************************)
(* The kernel: an idle device suspends, and a core can be unbound.         *)
(***************************************************************************)
Suspend(d) ==
    /\ d \in active
    /\ active' = active \ {d}
    /\ Collapse(active')
    /\ UNCHANGED <<bound, delay, locals>>

FaultAllowed ==
    Cardinality(Dev \ bound) + Cardinality({p \in Proc : pc[p] = "dead"}) < MaxFaults

Unbind(d) ==
    /\ FaultAllowed /\ d \in bound /\ bound # {d}
    /\ bound' = bound \ {d}
    /\ active' = active \ {d}
    /\ Collapse(active')
    /\ UNCHANGED <<delay, locals>>

\* A process's next job resumes a device.
Submit(p) ==
    /\ pc[p] \in {"new", "ready"}
    /\ \E d \in bound : active' = active \cup {d}
    /\ UNCHANGED <<bound, delay, locals, cycled>>

Kill(p) ==
    /\ FaultAllowed /\ pc[p] \notin Gone /\ \E q \in Proc \ {p} : pc[q] \notin Gone
    /\ Goto(p, "dead")
    /\ UNCHANGED <<sysfs, devs, idleMs, kickMs, todo, ok, done, cycled>>

(***************************************************************************)
(* The pthread_once resolutions, made by the first call.                   *)
(***************************************************************************)
CallBegins(p, l) ==
    /\ Goto(p, l)
    /\ cycled' = [cycled EXCEPT ![p] = active = {}]

\* r76_pm_probe
Probe(p) ==
    /\ pc[p] = "new"
    /\ devs' = [devs EXCEPT ![p] = bound]
    /\ CallBegins(p, "idle?")
    /\ UNCHANGED <<sysfs, idleMs, kickMs, todo, ok, done>>

\* Twice the delay and five, in 5 .. 300.
IdleFor(d) == IF d = Unavailable THEN 150
              ELSE IF 2 * d + 5 > 300 THEN 300 ELSE 2 * d + 5

\* r76_idle_resolve
IdleResolve(p) ==
    /\ pc[p] = "idle?"
    /\ idleMs' = [idleMs EXCEPT ![p] = IdleFor(AutosuspendMs(p))]
    /\ Goto(p, "kick?")
    /\ UNCHANGED <<sysfs, devs, kickMs, todo, ok, done, cycled>>

\* The delay to restore: a zero is an interrupted kick, not a policy.
\* (Seeded fault: the zero is adopted.)
AdoptedDelay(d) == d
HealedDelay(d) == IF d = 0 THEN Default ELSE d

\* r76_kick_resolve: read the delay, then see whether every device takes it.
KickResolve(p) ==
    /\ pc[p] = "kick?"
    /\ IF AutosuspendMs(p) = Unavailable
       THEN Goto(p, "sleep") /\ UNCHANGED <<kickMs, todo, ok>>
       ELSE /\ kickMs' = [kickMs EXCEPT ![p] = HealedDelay(AutosuspendMs(p))]
            /\ todo' = [todo EXCEPT ![p] = devs[p]]
            /\ ok' = [ok EXCEPT ![p] = TRUE]
            /\ Goto(p, "probe-write")
    /\ UNCHANGED <<sysfs, devs, idleMs, done, cycled>>

(***************************************************************************)
(* r76_pm_write_delay: one device after the other; it goes on past one     *)
(* that is gone and reports success only if every device took the value.   *)
(***************************************************************************)
WriteOne(p, ms) ==
    LET d == First(todo[p])
    IN  /\ todo[p] # {}
        /\ delay' = IF d \in bound THEN [delay EXCEPT ![d] = ms] ELSE delay
        /\ ok' = [ok EXCEPT ![p] = @ /\ d \in bound]
        /\ todo' = [todo EXCEPT ![p] = @ \ {d}]
        /\ UNCHANGED <<bound, active, pc, devs, idleMs, kickMs, done, cycled>>

ProbeWrite(p) == pc[p] = "probe-write" /\ WriteOne(p, kickMs[p])

ProbeWritten(p) ==
    /\ pc[p] = "probe-write" /\ todo[p] = {}
    /\ IF ok[p] THEN Goto(p, "write0") /\ UNCHANGED kickMs
                ELSE Goto(p, "sleep") /\ kickMs' = [kickMs EXCEPT ![p] = Unavailable]
    /\ todo' = [todo EXCEPT ![p] = IF ok[p] THEN devs[p] ELSE {}]
    /\ UNCHANGED <<sysfs, devs, idleMs, ok, done, cycled>>

(***************************************************************************)
(* rocket_rk3576_power_idle, every call                                    *)
(***************************************************************************)
Call(p) ==
    /\ pc[p] = "ready"
    /\ IF kickMs[p] # Unavailable
       THEN /\ CallBegins(p, "write0")
            /\ todo' = [todo EXCEPT ![p] = devs[p]]
            /\ ok' = [ok EXCEPT ![p] = TRUE]
       ELSE CallBegins(p, "sleep") /\ UNCHANGED <<todo, ok>>
    /\ UNCHANGED <<sysfs, devs, idleMs, kickMs, done>>

WriteZero(p) == pc[p] = "write0" /\ WriteOne(p, 0)

ZeroWritten(p) ==
    /\ pc[p] = "write0" /\ todo[p] = {}
    /\ IF ok[p] THEN Goto(p, "poll") /\ todo' = [todo EXCEPT ![p] = devs[p]]
                ELSE Goto(p, "sleep") /\ UNCHANGED todo
    /\ UNCHANGED <<sysfs, devs, idleMs, kickMs, ok, done, cycled>>

\* What a poll reads of one device.  (Seeded fault: only the first device is
\* waited for, the other core holds the domain up.)
FirstReadsSuspended(p, d) == d # First(devs[p]) \/ d \in bound \ active
ReadsSuspended(p, d) == d \in bound \ active

\* r76_pm_wait_suspended: a scan reads the devices in turn and stops at the
\* first that is not suspended; then it sleeps and scans again, or the
\* budget is used up.
StartRestore(p, verdict) ==
    /\ done' = [done EXCEPT ![p] = verdict]
    /\ todo' = [todo EXCEPT ![p] = devs[p]]
    /\ Goto(p, "restore")

PollOne(p) ==
    /\ pc[p] = "poll" /\ todo[p] # {}
    /\ LET d == First(todo[p])
       IN  \/ /\ ReadsSuspended(p, d)
              /\ todo' = [todo EXCEPT ![p] = @ \ {d}]
              /\ UNCHANGED <<pc, done>>
           \/ /\ ~ReadsSuspended(p, d)                    \* scan again
              /\ todo' = [todo EXCEPT ![p] = devs[p]]
              /\ UNCHANGED <<pc, done>>
           \/ /\ ~ReadsSuspended(p, d)                    \* out of budget
              /\ StartRestore(p, FALSE)
    /\ UNCHANGED <<sysfs, devs, idleMs, kickMs, ok, cycled>>

PollDone(p) ==
    /\ pc[p] = "poll" /\ todo[p] = {}
    /\ StartRestore(p, TRUE)
    /\ UNCHANGED <<sysfs, devs, idleMs, kickMs, ok, cycled>>

\* (Seeded fault: the delay is put back only when the devices suspended.)
RestoreIfDone(p) == IF done[p] THEN kickMs[p] ELSE 0
RestoreValue(p) == kickMs[p]

Restore(p) == pc[p] = "restore" /\ WriteOne(p, RestoreValue(p))

Restored(p) ==
    /\ pc[p] = "restore" /\ todo[p] = {}
    /\ Goto(p, IF done[p] THEN "ret1" ELSE "sleep")
    /\ UNCHANGED <<sysfs, devs, idleMs, kickMs, todo, ok, done, cycled>>

Sleep(p) ==
    /\ pc[p] = "sleep"
    /\ Goto(p, "ret0")
    /\ UNCHANGED <<sysfs, devs, idleMs, kickMs, todo, ok, done, cycled>>

Return(p) ==
    /\ pc[p] \in {"ret0", "ret1"}
    /\ Goto(p, "ready")
    /\ done' = [done EXCEPT ![p] = FALSE]
    /\ ok' = [ok EXCEPT ![p] = FALSE]
    /\ UNCHANGED <<sysfs, devs, idleMs, kickMs, todo, cycled>>

Inside(p) == \/ IdleResolve(p) \/ KickResolve(p) \/ ProbeWrite(p) \/ ProbeWritten(p)
             \/ WriteZero(p) \/ ZeroWritten(p) \/ PollOne(p) \/ PollDone(p)
             \/ Restore(p) \/ Restored(p) \/ Sleep(p) \/ Return(p)

Next == \/ \E d \in Dev : Suspend(d) \/ Unbind(d)
        \/ \E p \in Proc : Submit(p) \/ Kill(p) \/ Probe(p) \/ Call(p) \/ Inside(p)

\* A call runs on; an idle device suspends once its delay has passed.  The
\* poll's budget is finite, so a scan that keeps failing does run out.
Fairness == /\ \A p \in Proc : WF_vars(Inside(p)) /\ SF_vars(PollOne(p) /\ pc'[p] # "poll")
            /\ \A d \in Dev : WF_vars(Suspend(d))

Spec == Init /\ [][Next]_vars /\ Fairness

-----------------------------------------------------------------------------
TypeOK ==
    /\ bound \subseteq Dev /\ active \subseteq Dev
    /\ delay \in [Dev -> Nat]
    /\ pc \in [Proc -> Label]
    /\ devs \in [Proc -> SUBSET Dev]
    /\ idleMs \in [Proc -> 5 .. 300]
    /\ kickMs \in [Proc -> Nat \cup {Unavailable}]
    /\ todo \in [Proc -> SUBSET Dev]
    /\ ok \in [Proc -> BOOLEAN] /\ done \in [Proc -> BOOLEAN]
    /\ cycled \in [Proc -> BOOLEAN]

\* One process uses the part from the start; no core was unbound yet.
OneClient == \E p \in Proc : \A q \in Proc \ {p} : pc[q] = "absent"
AllBound == bound = Dev

\* "Returns 1 when the domain was OBSERVED to reach `suspended`": a call that
\* returns 1 saw every core of the shared domain suspended at one moment of
\* the call, so the hazard is cleared.
ObservedMeansCycled == \A p \in Proc : pc[p] = "ret1" => cycled[p]

\* That holds of a process that has the part to itself, whatever cores are
\* unbound under it.
ObservedByOne == OneClient => ObservedMeansCycled

\* "The steady-state policy every other consumer of this NPU sees is
\* unchanged": while no process is inside a call, every bound device has the
\* delay the system was configured with.
PolicyUnchanged ==
    (\A p \in Proc : pc[p] \in {"new", "ready", "absent"}) =>
        \A d \in bound : delay[d] = Policy

\* That holds of one process and cores that stay bound, whichever way the
\* wait for the suspend ends.
PolicyKeptByOne == OneClient /\ AllBound => PolicyUnchanged

\* A kill inside the window leaves a zero behind, and that is self-healing:
\* a zero is never adopted as the value to restore, so a call of the process
\* that is left, whether it probed before or after the kill, ends with no
\* bound device at zero.
SurvivorHeals ==
    \A p \in Proc :
        (AllBound /\ pc[p] \in {"idle?", "write0"} /\ \A q \in Proc \ {p} : pc[q] \in Gone)
            ~> (~AllBound \/ (pc[p] \in {"ret0", "ret1"} /\ \A d \in bound : delay[d] # 0))
=============================================================================
