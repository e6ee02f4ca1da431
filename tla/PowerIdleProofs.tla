-------------------------- MODULE PowerIdleProofs --------------------------
(***************************************************************************)
(* What a process that has the part to itself can rely on when it drives   *)
(* the RK3576 power cycle, for any number of cores, whatever the delay the *)
(* system is configured with.                                              *)
(*                                                                         *)
(* Observed: a device that a scan has passed stays suspended until the     *)
(* call is over, for only a job of this process could resume it; so a scan *)
(* that passes every device has seen them suspended all at once, although  *)
(* it read them one after the other.                                       *)
(*                                                                         *)
(* Policy: with every core bound no write fails, so the call that wrote    *)
(* zeros also reaches the loop that puts the old delay back, and what that *)
(* loop has passed carries it.                                             *)
(***************************************************************************)
EXTENDS PowerIdle, WellOrder

\* The device a loop visits next is one it still has to visit.
LEMMA FirstVisited ==
    ASSUME NEW S \in SUBSET Dev, S # {}
    PROVE  First(S) \in S
<1>1. S \subseteq Nat
  BY PowerAssumption DEF Dev
<1>2. \E d \in S : \A e \in S : d <= e
  BY <1>1, LeastNumber
<1> QED BY <1>2 DEF First

-----------------------------------------------------------------------------
\* A process that writes or waits knows the delay it has to put back.
KickKnown ==
    \A p \in Proc : pc[p] \in {"probe-write", "write0", "poll", "restore"} =>
                        kickMs[p] # Unavailable

\* The inductive invariant of the types.
TypeInv == TypeOK /\ KickKnown

\* The initial state has its types.
LEMMA TypeInit == Init => TypeInv
BY PowerAssumption DEF Init, TypeInv, TypeOK, KickKnown, Label, Dev, Unavailable

\* The delay a process reads is one it can write back.
LEMMA AutosuspendType ==
    ASSUME TypeOK, NEW p \in Proc, AutosuspendMs(p) # Unavailable
    PROVE  AutosuspendMs(p) \in Nat /\ \E d \in bound : AutosuspendMs(p) = delay[d]
BY DEF TypeOK, AutosuspendMs

\* One device of a loop is written and no longer to visit.
LEMMA WriteOneType ==
    ASSUME TypeInv, NEW p \in Proc, NEW ms \in Nat, WriteOne(p, ms)
    PROVE  TypeInv'
<1>1. First(todo[p]) \in Dev
  BY FirstVisited DEF TypeInv, TypeOK, WriteOne
<1>2. TypeOK'
  BY <1>1 DEF TypeInv, TypeOK, WriteOne
<1>3. KickKnown'
  BY DEF TypeInv, KickKnown, WriteOne
<1> QED BY <1>2, <1>3 DEF TypeInv

\* A call begins with a verdict on whether the domain is down already.
LEMMA CallBeginsType ==
    ASSUME TypeOK, NEW p \in Proc, NEW l \in Label, CallBegins(p, l)
    PROVE  pc' \in [Proc -> Label] /\ pc'[p] = l /\ cycled' \in [Proc -> BOOLEAN]
<1>1. (active = {}) \in BOOLEAN
  OBVIOUS
<1> QED BY <1>1 DEF TypeOK, CallBegins, Goto

\* Every step keeps the types.
LEMMA TypeNext == TypeInv /\ [Next]_vars => TypeInv'
<1> SUFFICES ASSUME TypeInv, [Next]_vars PROVE TypeInv'
  OBVIOUS
<1> USE DEF Goto, Label, sysfs, locals, TypeInv, KickKnown
<1>1. CASE UNCHANGED vars
  BY <1>1 DEF vars, TypeOK
<1>2. ASSUME NEW d \in Dev, Suspend(d) \/ Unbind(d) PROVE TypeInv'
  BY <1>2 DEF TypeOK, Suspend, Unbind, Collapse
<1>3. ASSUME NEW p \in Proc, Submit(p) \/ Kill(p) \/ Probe(p) \/ Call(p) PROVE TypeInv'
  <2>1. CASE Submit(p) \/ Kill(p)
    BY <2>1, <1>3 DEF TypeOK, Submit, Kill
  <2>2. CASE Probe(p)
    <3>1. CallBegins(p, "idle?")
      BY <2>2 DEF Probe
    <3> QED BY <2>2, <3>1, CallBeginsType DEF TypeOK, Probe, CallBegins
  <2>3. CASE Call(p)
    <3>1. \E l \in Label : CallBegins(p, l)
      BY <2>3 DEF Call
    <3>2. pc' \in [Proc -> Label] /\ cycled' \in [Proc -> BOOLEAN]
      BY <3>1, CallBeginsType
    <3>3. todo' \in [Proc -> SUBSET Dev] /\ ok' \in [Proc -> BOOLEAN]
      <4>1. CASE kickMs[p] # Unavailable
        <5>1. devs[p] \in SUBSET Dev /\ todo' = [todo EXCEPT ![p] = devs[p]]
              /\ ok' = [ok EXCEPT ![p] = TRUE]
          BY <2>3, <4>1 DEF TypeOK, Call
        <5> QED BY <5>1 DEF TypeOK
      <4>2. CASE kickMs[p] = Unavailable
        BY <2>3, <4>2 DEF TypeOK, Call
      <4> QED BY <4>1, <4>2
    <3>a. TypeOK'
      BY <2>3, <3>2, <3>3 DEF TypeOK, Call
    <3>4. KickKnown'
      BY <2>3 DEF TypeOK, Call, CallBegins
    <3> QED BY <3>a, <3>4
  <2> QED BY <1>3, <2>1, <2>2, <2>3
<1>4. ASSUME NEW p \in Proc, Inside(p) PROVE TypeInv'
  <2>1. CASE IdleResolve(p)
    <3>1. IdleFor(AutosuspendMs(p)) \in 5 .. 300
      BY AutosuspendType DEF IdleFor
    <3> QED BY <2>1, <3>1 DEF TypeOK, IdleResolve
  <2>2. CASE KickResolve(p)
    <3>1. CASE AutosuspendMs(p) = Unavailable
      BY <2>2, <3>1 DEF TypeOK, KickResolve
    <3>2. CASE AutosuspendMs(p) # Unavailable
      <4>1. HealedDelay(AutosuspendMs(p)) \in Nat
        BY <3>2, AutosuspendType, PowerAssumption DEF HealedDelay
      <4>2. TypeOK'
        BY <2>2, <3>2, <4>1 DEF TypeOK, KickResolve
      <4>3. kickMs'[p] # Unavailable
        BY <2>2, <3>2, <4>1 DEF TypeOK, KickResolve, Unavailable
      <4>4. KickKnown'
        BY <2>2, <3>2, <4>3 DEF TypeOK, KickResolve
      <4> QED BY <4>2, <4>4
    <3> QED BY <3>1, <3>2
  <2>3. CASE ProbeWrite(p) \/ Restore(p)
    <3>1. kickMs[p] \in Nat
      BY <2>3 DEF TypeOK, ProbeWrite, Restore
    <3> QED BY <2>3, <3>1, WriteOneType DEF ProbeWrite, Restore, RestoreValue
  <2>4. CASE WriteZero(p)
    BY <2>4, WriteOneType DEF WriteZero
  <2>5. CASE ProbeWritten(p) \/ ZeroWritten(p)
    BY <2>5 DEF TypeOK, ProbeWritten, ZeroWritten
  <2>6. CASE PollOne(p) \/ PollDone(p)
    <3>a. todo' \in [Proc -> SUBSET Dev] /\ done' \in [Proc -> BOOLEAN]
      <4>1. PICK S \in SUBSET Dev : todo' = [todo EXCEPT ![p] = S]
        <5>1. todo[p] \in SUBSET Dev /\ devs[p] \in SUBSET Dev
          BY DEF TypeOK
        <5>2. \/ todo' = [todo EXCEPT ![p] = @ \ {First(todo[p])}]
              \/ todo' = [todo EXCEPT ![p] = devs[p]]
          BY <2>6 DEF PollOne, PollDone, StartRestore
        <5> QED BY <5>1, <5>2
      <4>2. done' = done \/ \E v \in BOOLEAN : done' = [done EXCEPT ![p] = v]
        BY <2>6 DEF PollOne, PollDone, StartRestore
      <4> QED BY <4>1, <4>2 DEF TypeOK
    <3>b. pc' \in [Proc -> Label]
      BY <2>6 DEF TypeOK, PollOne, PollDone, StartRestore
    <3>1. TypeOK'
      BY <2>6, <3>a, <3>b DEF TypeOK, PollOne, PollDone
    <3>2. KickKnown'
      BY <2>6 DEF TypeOK, PollOne, PollDone, StartRestore
    <3> QED BY <3>1, <3>2
  <2>7. CASE Restored(p) \/ Sleep(p) \/ Return(p)
    <3>1. TypeOK'
      BY <2>7 DEF TypeOK, Restored, Sleep, Return
    <3>2. KickKnown'
      BY <2>7 DEF TypeOK, Restored, Sleep, Return
    <3> QED BY <3>1, <3>2
  <2> QED BY <1>4, <2>1, <2>2, <2>3, <2>4, <2>5, <2>6, <2>7 DEF Inside
<1> QED BY <1>1, <1>2, <1>3, <1>4 DEF Next

\* TypeOK of the power cycle.
THEOREM PowerTypes == Spec => []TypeOK
<1>1. TypeInv => TypeOK
  BY DEF TypeInv
<1> QED BY <1>1, TypeInit, TypeNext, PTL DEF Spec

-----------------------------------------------------------------------------
\* p has the part to itself.
Lone(p) == \A q \in Proc \ {p} : pc[q] = "absent"

\* The steps of process p, as opposed to the devices'.
ProcStep(p) == Submit(p) \/ Kill(p) \/ Probe(p) \/ Call(p) \/ Inside(p)

\* A process that is not there stays so, and takes no step.
LEMMA AbsentStays ==
    ASSUME TypeInv, NEW q \in Proc, ProcStep(q)
    PROVE  /\ pc[q] # "absent" /\ pc'[q] # "absent"
           /\ \A r \in Proc \ {q} : pc'[r] = pc[r]
<1> USE DEF TypeInv, TypeOK, Goto, locals
<1>1. CASE Submit(q) \/ Kill(q) \/ Probe(q) \/ Call(q)
  BY <1>1 DEF Submit, Kill, Gone, Probe, Call, CallBegins
<1>2. CASE IdleResolve(q) \/ KickResolve(q) \/ ProbeWritten(q) \/ ZeroWritten(q)
  BY <1>2 DEF IdleResolve, KickResolve, ProbeWritten, ZeroWritten
<1>3. CASE ProbeWrite(q) \/ WriteZero(q) \/ Restore(q)
  BY <1>3 DEF ProbeWrite, WriteZero, Restore, WriteOne
<1>4. CASE PollOne(q) \/ PollDone(q)
  BY <1>4 DEF PollOne, PollDone, StartRestore
<1>5. CASE Restored(q) \/ Sleep(q) \/ Return(q)
  BY <1>5 DEF Restored, Sleep, Return
<1> QED BY <1>1, <1>2, <1>3, <1>4, <1>5 DEF ProcStep, Inside

\* So whoever is alone was alone before, and every step of a process is its.
LEMMA LoneStays ==
    ASSUME TypeInv, [Next]_vars, NEW p \in Proc, Lone(p)'
    PROVE  /\ Lone(p)
           /\ \/ UNCHANGED vars
              \/ \E d \in Dev : Suspend(d) \/ Unbind(d)
              \/ ProcStep(p)
<1>1. CASE UNCHANGED vars
  BY <1>1 DEF vars, locals, Lone
<1>2. ASSUME NEW d \in Dev, Suspend(d) \/ Unbind(d) PROVE Lone(p)
  BY <1>2 DEF Suspend, Unbind, locals, Lone
<1>3. ASSUME NEW q \in Proc, ProcStep(q) PROVE q = p /\ Lone(p)
  BY <1>3, AbsentStays DEF Lone
<1> QED BY <1>1, <1>2, <1>3 DEF Next, ProcStep

-----------------------------------------------------------------------------
(***************************************************************************)
(* What a lone process observes.                                           *)
(***************************************************************************)
\* Process p has begun, and is inside a call.
Started(p) == pc[p] \notin {"new"} \cup Gone
InCall(p) == Started(p) /\ pc[p] # "ready"

\* Every bound device is waited for; a collapse during the call is on record;
\* a device the scan has passed is still suspended; and the verdict is true.
Observed(p) ==
    /\ Started(p) => bound \subseteq devs[p]
    /\ InCall(p) /\ active = {} => cycled[p]
    /\ pc[p] = "poll" => (devs[p] \ todo[p]) \cap active = {}
    /\ pc[p] = "ret1" \/ (pc[p] = "restore" /\ done[p]) => cycled[p]

\* The inductive invariant of what a lone process observes.
ObservedInv == active \subseteq bound /\ \A p \in Proc : Lone(p) => Observed(p)

\* No call has begun.
LEMMA ObservedInit == Init => ObservedInv
BY DEF Init, ObservedInv, Observed, Started, InCall, Gone

\* Only a bound device can be active.
LEMMA ActiveBound ==
    ASSUME TypeInv, active \subseteq bound, [Next]_vars
    PROVE  active' \subseteq bound'
<1>1. CASE UNCHANGED vars
  BY <1>1 DEF vars, sysfs
<1>2. ASSUME NEW d \in Dev, Suspend(d) \/ Unbind(d) PROVE active' \subseteq bound'
  BY <1>2 DEF Suspend, Unbind
<1>3. ASSUME NEW p \in Proc, ProcStep(p) PROVE active' \subseteq bound'
  BY <1>3 DEF ProcStep, Submit, Kill, Probe, Call, Inside, IdleResolve, KickResolve,
              ProbeWrite, ProbeWritten, WriteZero, ZeroWritten, PollOne, PollDone, Restore,
              Restored, Sleep, Return, WriteOne, sysfs
<1> QED BY <1>1, <1>2, <1>3 DEF Next, ProcStep

\* What one step does to what a lone process knows.
LEMMA ObservedNext == TypeInv /\ ObservedInv /\ [Next]_vars => ObservedInv'
<1> SUFFICES ASSUME TypeInv, ObservedInv, [Next]_vars, NEW p \in Proc, Lone(p)'
             PROVE  Observed(p)'
  BY ActiveBound DEF ObservedInv
<1>0. Observed(p) /\ active \subseteq bound
  BY LoneStays DEF ObservedInv
<1> USE <1>0 DEF Observed, Started, InCall, Gone, Goto, sysfs, locals
<1>1. CASE UNCHANGED vars
  BY <1>1 DEF vars
<1>2. ASSUME NEW d \in Dev, Suspend(d) \/ Unbind(d) PROVE Observed(p)'
  BY <1>2 DEF Suspend, Unbind, Collapse
<1> USE DEF TypeInv, TypeOK
<1>3. CASE Submit(p) \/ Kill(p)
  BY <1>3 DEF Submit, Kill
<1>4. CASE Probe(p) \/ Call(p)
  <2>1. PICK l \in {"idle?", "write0", "sleep"} : CallBegins(p, l)
    BY <1>4 DEF Probe, Call
  <2>2. pc'[p] = l /\ cycled'[p] = (active = {})
    BY <2>1 DEF CallBegins
  <2>3. bound' \subseteq devs'[p]
    BY <1>4 DEF Probe, Call
  <2> QED BY <1>4, <2>2, <2>3 DEF Probe, Call
<1>5. CASE IdleResolve(p) \/ KickResolve(p) \/ ProbeWritten(p)
  BY <1>5 DEF IdleResolve, KickResolve, ProbeWritten
<1>6. CASE ProbeWrite(p) \/ WriteZero(p) \/ Restore(p)
  BY <1>6 DEF ProbeWrite, WriteZero, Restore, WriteOne
<1>7. CASE ZeroWritten(p)
  BY <1>7 DEF ZeroWritten
<1>8. CASE PollOne(p)
  BY <1>8 DEF PollOne, ReadsSuspended, StartRestore
<1>9. CASE PollDone(p)
  BY <1>9 DEF PollDone, StartRestore
<1>10. CASE Restored(p) \/ Sleep(p) \/ Return(p)
  BY <1>10 DEF Restored, Sleep, Return
<1> QED BY <1>1, <1>2, <1>3, <1>4, <1>5, <1>6, <1>7, <1>8, <1>9, <1>10, LoneStays
        DEF ProcStep, Inside

\* "Returns 1 when the domain was OBSERVED to reach `suspended'": of a process
\* that has the part to itself, a 1 means every core of the shared domain was
\* suspended at one moment of the call, whatever is unbound meanwhile.
THEOREM ObservedCorrect == Spec => []ObservedByOne
<1>1. ObservedInv => ObservedByOne
  <2> SUFFICES ASSUME ObservedInv, NEW p \in Proc, Lone(p), NEW r \in Proc, pc[r] = "ret1"
               PROVE  cycled[r]
    BY DEF ObservedByOne, OneClient, ObservedMeansCycled, Lone
  <2>1. r = p
    BY DEF Lone
  <2> QED BY <2>1 DEF ObservedInv, Observed
<1> QED BY <1>1, TypeInit, TypeNext, ObservedInit, ObservedNext, PTL DEF Spec

-----------------------------------------------------------------------------
(***************************************************************************)
(* What a lone process restores.                                           *)
(***************************************************************************)
\* Outside the window every delay is the configured one; inside it the process
\* knows it, every write so far went well, and what the restoring loop has
\* passed carries it again.
Kept(p) ==
    /\ Started(p) => devs[p] = Dev
    /\ kickMs[p] \in {Unavailable, Policy}
    /\ pc[p] \in {"probe-write", "write0"} => ok[p]
    /\ pc[p] = "restore" => \A d \in Dev \ todo[p] : delay[d] = Policy
    /\ pc[p] \notin {"write0", "poll", "restore", "dead"} => \A d \in Dev : delay[d] = Policy

\* The inductive invariant of the delays a lone process leaves behind.
KeptInv == AllBound => \A p \in Proc : Lone(p) => Kept(p)

\* The delays start as configured.
LEMMA KeptInit == Init => KeptInv
BY DEF Init, KeptInv, Kept, Started, Gone

\* A core that is bound now always was.
LEMMA BoundBefore ==
    ASSUME TypeInv, [Next]_vars, AllBound'
    PROVE  AllBound
<1> USE DEF TypeInv, TypeOK, AllBound, sysfs
<1>1. CASE UNCHANGED vars
  BY <1>1 DEF vars
<1>2. ASSUME NEW d \in Dev, Suspend(d) \/ Unbind(d) PROVE AllBound
  BY <1>2 DEF Suspend, Unbind
<1>3. ASSUME NEW p \in Proc, ProcStep(p) PROVE bound' = bound
  BY <1>3 DEF ProcStep, Submit, Kill, Probe, Call, Inside, IdleResolve, KickResolve,
              ProbeWrite, ProbeWritten, WriteZero, ZeroWritten, PollOne, PollDone, Restore,
              Restored, Sleep, Return, WriteOne
<1> QED BY <1>1, <1>2, <1>3 DEF Next, ProcStep

\* With every core bound a write takes, and the device is passed.
LEMMA WriteTakes ==
    ASSUME TypeInv, AllBound, NEW p \in Proc, NEW ms \in Nat, WriteOne(p, ms)
    PROVE  \E d \in todo[p] :
               /\ delay' = [delay EXCEPT ![d] = ms]
               /\ todo' = [todo EXCEPT ![p] = @ \ {d}]
               /\ ok[p] => ok'[p]
               /\ UNCHANGED <<bound, pc, devs, kickMs>>
<1>1. First(todo[p]) \in todo[p] /\ todo[p] \subseteq Dev
  BY FirstVisited DEF TypeInv, TypeOK, WriteOne
<1> QED BY <1>1 DEF WriteOne, AllBound, TypeInv, TypeOK

\* A lone process reads the configured delay and adopts it.
LEMMA AdoptsPolicy ==
    ASSUME TypeInv, AllBound, NEW p \in Proc, \A d \in Dev : delay[d] = Policy,
           AutosuspendMs(p) # Unavailable
    PROVE  HealedDelay(AutosuspendMs(p)) = Policy
<1>1. AutosuspendMs(p) = Policy
  BY AutosuspendType DEF TypeInv, AllBound
<1> QED BY <1>1, PowerAssumption DEF HealedDelay

\* Each step of a lone process, or of the kernel beside it, keeps this up.
LEMMA KeptNext == TypeInv /\ KeptInv /\ [Next]_vars => KeptInv'
<1> SUFFICES ASSUME TypeInv, KeptInv, [Next]_vars, AllBound', NEW p \in Proc, Lone(p)'
             PROVE  Kept(p)'
  BY DEF KeptInv
<1>0. Kept(p) /\ AllBound
  BY LoneStays, BoundBefore DEF KeptInv
<1> USE <1>0 DEF Kept, Started, Gone, Goto, sysfs, locals, TypeInv, TypeOK
<1>1. CASE UNCHANGED vars
  BY <1>1 DEF vars
<1>2. ASSUME NEW d \in Dev, Suspend(d) \/ Unbind(d) PROVE Kept(p)'
  BY <1>2 DEF Suspend, Unbind
<1>3. CASE Submit(p) \/ Kill(p)
  BY <1>3 DEF Submit, Kill
<1>4. CASE Probe(p) \/ Call(p)
  <2>1. PICK l \in {"idle?", "write0", "sleep"} : CallBegins(p, l)
    BY <1>4 DEF Probe, Call
  <2>2. pc'[p] = l
    BY <2>1 DEF CallBegins
  <2>3. devs'[p] = Dev
    BY <1>4 DEF Probe, Call, AllBound
  <2>4. l = "write0" => ok'[p]
    BY <1>4, <2>2 DEF Probe, Call, CallBegins
  <2> QED BY <1>4, <2>2, <2>3, <2>4 DEF Probe, Call
<1>5. CASE IdleResolve(p)
  BY <1>5 DEF IdleResolve
<1>6. CASE KickResolve(p)
  <2>1. CASE AutosuspendMs(p) = Unavailable
    BY <1>6, <2>1 DEF KickResolve
  <2>2. CASE AutosuspendMs(p) # Unavailable
    BY <1>6, <2>2, AdoptsPolicy DEF KickResolve
  <2> QED BY <2>1, <2>2
<1>7. CASE ProbeWrite(p) \/ WriteZero(p) \/ Restore(p)
  <2>1. pc[p] # "write0" => kickMs[p] = Policy
    BY <1>7 DEF KickKnown, ProbeWrite, WriteZero, Restore
  <2>2. PICK ms \in {0, Policy} : WriteOne(p, ms) /\ (pc[p] # "write0" => ms = Policy)
    BY <1>7, <2>1 DEF ProbeWrite, WriteZero, Restore, RestoreValue
  <2>3. ms \in Nat
    BY PowerAssumption
  <2>4. PICK d \in todo[p] :
          /\ delay' = [delay EXCEPT ![d] = ms]
          /\ todo' = [todo EXCEPT ![p] = @ \ {d}]
          /\ ok[p] => ok'[p]
          /\ UNCHANGED <<bound, pc, devs, kickMs>>
    BY <2>2, <2>3, WriteTakes
  <2> QED BY <1>7, <2>2, <2>4 DEF ProbeWrite, WriteZero, Restore
<1>8. CASE ProbeWritten(p) \/ ZeroWritten(p)
  BY <1>8 DEF ProbeWritten, ZeroWritten
<1>9. CASE PollOne(p) \/ PollDone(p)
  BY <1>9 DEF PollOne, PollDone, StartRestore
<1>10. CASE Restored(p) \/ Sleep(p) \/ Return(p)
  BY <1>10 DEF Restored, Sleep, Return
<1> QED BY <1>1, <1>2, <1>3, <1>4, <1>5, <1>6, <1>7, <1>8, <1>9, <1>10, LoneStays
        DEF ProcStep, Inside

\* "The steady-state policy every other consumer of this NPU sees is
\* unchanged": of one process and cores that stay bound, whichever way the
\* wait for the suspend ends, the delay is the configured one between calls.
THEOREM PolicyCorrect == Spec => []PolicyKeptByOne
<1>1. KeptInv => PolicyKeptByOne
  <2> SUFFICES ASSUME KeptInv, NEW p \in Proc, Lone(p), AllBound,
                      \A r \in Proc : pc[r] \in {"new", "ready", "absent"}
               PROVE  \A d \in bound : delay[d] = Policy
    BY DEF PolicyKeptByOne, OneClient, PolicyUnchanged, Lone
  <2> QED BY DEF KeptInv, Kept, AllBound
<1> QED BY <1>1, TypeInit, TypeNext, KeptInit, KeptNext, PTL DEF Spec
=============================================================================
