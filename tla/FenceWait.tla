----------------------------- MODULE FenceWait -----------------------------
(***************************************************************************)
(* rocket_bo_prep as a wait for a job (rocket_npu.c): the optional spin,   *)
(* whose budget is a setting of the process resolved on first use          *)
(* (rocket_busy_poll.c), the blocking PREP_BO up to an absolute deadline,  *)
(* and the counters every timed wait is noted in (rocket_fence_watch.c).   *)
(* Several threads wait at once; one may set the budget meanwhile.  Each   *)
(* access to shared state is a step.                                       *)
(***************************************************************************)
EXTENDS Integers, FiniteSets, FiniteSetsExt

CONSTANTS
    Waiters,      \* threads, each of which waits once
    Timeouts,     \* relative timeouts, up to UINT64_MAX = 2 * MaxInt + 1
    MaxInt,       \* INT64_MAX
    MaxNow,       \* the clock stops here, well below MaxInt
    EnvBudget,    \* ROCKET_BUSY_POLL
    SetBudgets,   \* what rocket_busy_poll_set_us may be called with
    SlowMark      \* how long a wait is slow

ASSUME ClockAssumption == MaxNow \in Nat /\ MaxInt \in Nat /\ MaxNow < MaxInt
ASSUME WaitersAssumption == IsFiniteSet(Waiters) /\ Timeouts \subseteq Nat
ASSUME SettingsAssumption ==
    EnvBudget \in Int /\ SetBudgets \subseteq Int /\ SlowMark \in Int

VARIABLES
    clock,      \* CLOCK_MONOTONIC
    fenced,     \* has the job's fence signalled?
    budget,     \* g_busy_poll_us, -1 while unresolved
    setTo,      \* ghost: the value set explicitly, -1 if none was; set once
    at,         \* where each waiter is
    timeout,    \* what it asked for
    began,      \* when
    limit,      \* its spin deadline, then its deadline
    answer,     \* what its wait came to
    took,       \* how long that took
    seen,       \* the maximum it compares its own wait with
    waits, slow, longest    \* the counters

waiterVars == <<at, timeout, began, limit, answer, took, seen>>
counterVars == <<waits, slow, longest>>
waitVars == <<clock, fenced, budget, setTo, waiterVars, counterVars>>

WaitInit ==
    /\ clock = 0 /\ fenced = FALSE
    /\ budget = -1 /\ setTo = -1
    /\ at = [w \in Waiters |-> "out"]
    /\ timeout \in [Waiters -> Timeouts]
    /\ began = [w \in Waiters |-> 0]
    /\ limit = [w \in Waiters |-> 0]
    /\ answer = [w \in Waiters |-> "none"]
    /\ took = [w \in Waiters |-> 0]
    /\ seen = [w \in Waiters |-> 0]
    /\ waits = 0 /\ slow = 0 /\ longest = 0

Go(w, from, to) == at[w] = from /\ at' = [at EXCEPT ![w] = to]

-----------------------------------------------------------------------------
(* The budget.                                                             *)

AtLeastZero(v) == Max({v, 0})

\* rocket_busy_poll_set_us, by a thread that does not wait.
SetBudget ==
    /\ setTo = -1
    /\ \E v \in SetBudgets : budget' = AtLeastZero(v) /\ setTo' = AtLeastZero(v)
    /\ UNCHANGED <<clock, fenced, waiterVars, counterVars>>

\* rkt_busy_poll_us: the test, the store of the environment's value and the
\* load it returns are three accesses.
TestBudget(w) ==
    /\ Go(w, "test", IF budget < 0 THEN "resolve" ELSE "read")
    /\ UNCHANGED <<clock, fenced, budget, setTo, timeout, began, limit, answer, took, seen,
                   counterVars>>

ResolveBudget(w) ==
    /\ Go(w, "resolve", "read")
    /\ budget' = AtLeastZero(EnvBudget)
    /\ UNCHANGED <<clock, fenced, setTo, timeout, began, limit, answer, took, seen, counterVars>>

ReadBudget(w) ==
    /\ Go(w, "read", IF budget > 0 THEN "poll" ELSE "arm")
    /\ limit' = [limit EXCEPT ![w] = clock + budget]
    /\ UNCHANGED <<clock, fenced, budget, setTo, timeout, began, answer, took, seen, counterVars>>

-----------------------------------------------------------------------------
(* The wait.                                                               *)

\* A timeout of 0 is a cache sync and neither spins nor is counted.
Begin(w) ==
    /\ Go(w, "out", IF timeout[w] = 0 THEN "wait" ELSE "test")
    /\ began' = [began EXCEPT ![w] = clock]
    /\ UNCHANGED <<clock, fenced, budget, setTo, timeout, limit, answer, took, seen, counterVars>>

Answer(w, from, a) ==
    /\ Go(w, from, IF timeout[w] = 0 THEN "back" ELSE "note")
    /\ answer' = [answer EXCEPT ![w] = a]
    /\ took' = [took EXCEPT ![w] = clock - began[w]]
    /\ began' = [began EXCEPT ![w] = 0]
    /\ limit' = [limit EXCEPT ![w] = 0]
    /\ UNCHANGED <<clock, fenced, budget, setTo, timeout, seen, counterVars>>

\* PREP_BO with a deadline of 0: busy, or the answer.
PollBusy(w) ==
    /\ ~fenced /\ Go(w, "poll", "spin")
    /\ UNCHANGED <<clock, fenced, budget, setTo, timeout, began, limit, answer, took, seen,
                   counterVars>>

Spin(w) ==
    /\ Go(w, "spin", IF clock >= limit[w] THEN "arm" ELSE "poll")
    /\ UNCHANGED <<clock, fenced, budget, setTo, timeout, began, limit, answer, took, seen,
                   counterVars>>

\* The absolute deadline, saturated.
\* (Seeded fault: the sum of two 64-bit numbers, read as a signed one.)
DeadlineWrapped(now, t) == ((now + t + MaxInt + 1) % (2 * MaxInt + 2)) - (MaxInt + 1)
Deadline(now, t) == IF t > MaxInt - now THEN MaxInt ELSE now + t

Arm(w) ==
    /\ Go(w, "arm", "wait")
    /\ limit' = [limit EXCEPT ![w] = Deadline(clock, timeout[w])]
    /\ UNCHANGED <<clock, fenced, budget, setTo, timeout, began, answer, took, seen, counterVars>>

\* The blocking PREP_BO: the fence, the deadline, a failure, or a signal,
\* after which the same request is made again.
Fenced(w) == fenced /\ \E from \in {"poll", "wait"} : Answer(w, from, "done")
TimedOut(w) == ~fenced /\ clock >= limit[w] /\ Answer(w, "wait", "busy")
Failed(w) == \E from \in {"poll", "wait"} : Answer(w, from, "error")
Interrupted(w) ==
    /\ Go(w, "wait", "again")
    /\ UNCHANGED <<clock, fenced, budget, setTo, timeout, began, limit, answer, took, seen,
                   counterVars>>
Again(w) ==
    /\ Go(w, "again", "wait")
    /\ UNCHANGED <<clock, fenced, budget, setTo, timeout, began, limit, answer, took, seen,
                   counterVars>>

-----------------------------------------------------------------------------
(* rkt_fence_wait_note.                                                    *)

CountWait(w) ==
    /\ Go(w, "note", "load")
    /\ waits' = waits + 1
    /\ UNCHANGED <<clock, fenced, budget, setTo, timeout, began, limit, answer, took, seen, slow,
                   longest>>

LoadLongest(w) ==
    /\ Go(w, "load", "raise")
    /\ seen' = [seen EXCEPT ![w] = longest]
    /\ UNCHANGED <<clock, fenced, budget, setTo, timeout, began, limit, answer, took, counterVars>>

\* A compare-and-exchange; a failed one reloads and compares again.
\* (Seeded fault: a plain store.)
ExchangedBlindly(w) == TRUE
Exchanged(w) == longest = seen[w]
Raise(w) ==
    /\ IF took[w] <= seen[w]
       THEN Go(w, "raise", "mark") /\ UNCHANGED <<longest, seen>>
       ELSE IF Exchanged(w)
       THEN Go(w, "raise", "mark") /\ longest' = took[w] /\ UNCHANGED seen
       ELSE Go(w, "raise", "raise") /\ seen' = [seen EXCEPT ![w] = longest] /\ UNCHANGED longest
    /\ UNCHANGED <<clock, fenced, budget, setTo, timeout, began, limit, answer, took, waits, slow>>

Mark(w) ==
    /\ Go(w, "mark", "back")
    /\ seen' = [seen EXCEPT ![w] = 0]
    /\ slow' = slow + (IF took[w] >= SlowMark THEN 1 ELSE 0)
    /\ UNCHANGED <<clock, fenced, budget, setTo, timeout, began, limit, answer, took, waits, longest>>

-----------------------------------------------------------------------------
Tick ==
    /\ clock < MaxNow /\ clock' = clock + 1
    /\ UNCHANGED <<fenced, budget, setTo, waiterVars, counterVars>>

Signal ==
    /\ ~fenced /\ fenced' = TRUE
    /\ UNCHANGED <<clock, budget, setTo, waiterVars, counterVars>>

WaiterStep(w) ==
    \/ Begin(w) \/ TestBudget(w) \/ ResolveBudget(w) \/ ReadBudget(w)
    \/ PollBusy(w) \/ Spin(w) \/ Arm(w)
    \/ Fenced(w) \/ TimedOut(w) \/ Failed(w) \/ Interrupted(w) \/ Again(w)
    \/ CountWait(w) \/ LoadLongest(w) \/ Raise(w) \/ Mark(w)

WaitNext == (\E w \in Waiters : WaiterStep(w)) \/ SetBudget \/ Tick \/ Signal

WaitSpec == WaitInit /\ [][WaitNext]_waitVars

-----------------------------------------------------------------------------
\* A wait reports success only for a job whose fence has signalled, and a
\* time-out only when all of the timeout it was given has passed, however
\* large it is and whatever signals arrive.
WaitHonest ==
    \A w \in Waiters :
        /\ answer[w] = "done" => fenced
        /\ answer[w] = "busy" => took[w] >= timeout[w]

Noting(w) == at[w] \in {"note", "load", "raise", "mark"}
Noted == {w \in Waiters : at[w] = "back" /\ timeout[w] > 0}

\* When no wait is being noted, the counters are exactly those of the timed
\* waits so far: two waits that end at once lose neither a count nor the
\* longer of their times.
CountersExact ==
    (\A w \in Waiters : ~Noting(w)) =>
        /\ waits = Cardinality(Noted)
        /\ slow = Cardinality({w \in Noted : took[w] >= SlowMark})
        /\ longest = Max({0} \cup {took[w] : w \in Noted})

=============================================================================
