---------------------------- MODULE SubmitGuard ----------------------------
(***************************************************************************)
(* The write guard of one RK3576 int8 convolution tile                     *)
(* (rocket_conv2d_rk3576.c, r76_int8_exec and r76_submit_ops).  The output *)
(* surface is stamped with a sentinel; each job is submitted, waited for   *)
(* and then asked two questions: did every row task write, and did the job *)
(* complete rather than being retired at the driver's backstop (which      *)
(* signals the fence like a completion).  A job that fails either is       *)
(* redone after a power cycle.  The surface survives the call, with a flag *)
(* saying whether it already carries the sentinel for the next one.  So    *)
(* does a job whose wait ran into its two seconds: it is still queued, and *)
(* its rows land whenever the part gets to it.  Jobs that share the output *)
(* run in the order of their submits (the driver's implicit fences).       *)
(***************************************************************************)
EXTENDS Naturals, FiniteSets

CONSTANTS NTask,      \* row tasks of the tile
          Resident,   \* the handle and its surface outlive the call
          CubeOut,    \* the surface is left for the next layer to read
          Sentinel,   \* ROCKET_RK3576_I32_SENTINEL is not 0
          Drain,      \* ROCKET_RK3576_DRAIN_US is set
          Attempts    \* ROCKET_RK3576_TASK_ATTEMPTS

ASSUME GuardAssumption ==
    /\ NTask \in Nat \ {0} /\ Attempts \in Nat \ {0}
    /\ {Resident, CubeOut, Sentinel, Drain} \subseteq BOOLEAN

Task == 1 .. NTask

(***************************************************************************)
(* The rows of a task: the sentinel, the rows of an earlier input, part of *)
(* this input's rows, or all of them.                                      *)
(***************************************************************************)
Rows == {"stamp", "stale", "part", "good"}

VARIABLES
    multi,     \* one job carries every row task of this handle's tile
    rows,      \* rows[t]: what the surface holds for task t
    stamped,   \* s->stamped
    blank,     \* tasks whose correct rows equal the sentinel
    poisoned,  \* the part's next job completes and writes nothing
    pc,        \* where the call is
    cur,       \* first task of the job being driven
    attempt,   \* r76_submit_ops's attempt
    past,      \* the job took at least the backstop from submit to fence
    late,      \* ghost: the rows of the job land after the fence
    left,      \* jobs of calls whose wait timed out are still queued
    crossed,   \* ghost: such a job wrote behind this call's stamp
    healthy,   \* ghost: every job of the call completed and wrote its rows
    answer     \* what the last call returned, and the rows it delivered

vars == <<multi, rows, stamped, blank, poisoned, pc, cur, attempt, past, late,
          left, crossed, healthy, answer>>

Job == IF multi THEN Task ELSE {cur}
None == [rc |-> "none", rows |-> [t \in Task |-> "stamp"]]

Init ==
    /\ multi \in BOOLEAN
    /\ rows = [t \in Task |-> "stale"]
    /\ stamped = FALSE
    /\ blank = {}
    /\ poisoned \in BOOLEAN
    /\ pc = "idle"
    /\ cur = 1 /\ attempt = 0
    /\ past = FALSE /\ late = FALSE
    /\ left = FALSE /\ crossed = FALSE
    /\ healthy = TRUE
    /\ answer = None

\* r76_task_wrote: some byte of the task's rows is not the sentinel.
Wrote(t) == rows[t] # "stamp" /\ ~(t \in blank /\ rows[t] \in {"part", "good"})
AllWrote == \A t \in Job : Wrote(t)

Stamp(S) == [t \in Task |-> IF t \in S THEN "stamp" ELSE rows[t]]

\* The call returns; one that fails delivers no rows.
Return(rc) ==
    /\ answer' = [rc |-> rc, rows |-> IF rc = "ok" THEN rows ELSE None.rows]
    /\ pc' = "idle"

(***************************************************************************)
(* r76_int8_exec: stamp the surface unless it already carries the          *)
(* sentinel, and drop the flag before the first submit.                    *)
(***************************************************************************)
\* (Seeded fault: the flag outlives the submit, as if it were never cleared.)
FlagKept == stamped
FlagAtSubmit == FALSE

BeginCall ==
    /\ pc = "idle"
    /\ rows' = IF Sentinel /\ ~stamped THEN [t \in Task |-> "stamp"]
               ELSE [t \in Task |-> IF rows[t] = "stamp" THEN "stamp" ELSE "stale"]
    /\ stamped' = FlagAtSubmit
    /\ blank' \in SUBSET Task
    /\ cur' = 1 /\ attempt' = 0 /\ past' = FALSE /\ late' = FALSE
    /\ crossed' = FALSE
    /\ healthy' = TRUE
    /\ pc' = "submit"
    /\ answer' = None
    /\ UNCHANGED <<multi, poisoned, left>>

(***************************************************************************)
(* The part and its driver                                                 *)
(***************************************************************************)
\* Another process's wide-output job poisons the next submit of anyone.
ForeignPoison ==
    /\ ~poisoned
    /\ poisoned' = TRUE
    /\ UNCHANGED <<multi, rows, stamped, blank, pc, cur, attempt, past, late,
                   left, crossed, healthy, answer>>

\* A job left queued runs at last, whatever the call is at.  It runs the
\* programs the register-command BO holds by now on the input the feature BO
\* holds by now, so the rows it writes may be any task's and of either input.
LeftRuns ==
    /\ left
    /\ \E new \in [Task -> Rows] :
          /\ \A t \in Task : new[t] = "stamp" => rows[t] = "stamp"
          /\ rows' = new
    /\ left' \in BOOLEAN
    /\ crossed' = TRUE
    /\ UNCHANGED <<multi, stamped, blank, poisoned, pc, cur, attempt, past, late,
                   healthy, answer>>

\* The job ran, after every job left before it: `full` are the tasks written in full, `partly` in part.
Ran(full, partly, isPast, isLate) ==
    /\ pc = "wait" /\ ~left
    /\ rows' = [t \in Task |-> IF t \in full THEN "good"
                               ELSE IF t \in partly THEN "part" ELSE rows[t]]
    /\ past' = isPast
    /\ late' = isLate
    /\ healthy' = (healthy /\ full = Job /\ ~isPast)
    /\ pc' = "fence"
    /\ UNCHANGED <<multi, stamped, blank, poisoned, cur, attempt, left, crossed, answer>>

\* Completed; a host that was descheduled may still see the backstop passed.
JobCompletes == ~poisoned /\ \E p \in BOOLEAN : Ran(Job, {}, p, FALSE)
JobPoisoned == poisoned /\ \E p \in BOOLEAN : Ran({}, {}, p, FALSE)
JobRetired == \E S \in SUBSET Job : Ran({}, S, TRUE, FALSE)
\* Some programs of the job died, the others completed.
JobTaskDies == ~poisoned /\ \E S \in SUBSET Job : S # Job /\ Ran(S, {}, FALSE, FALSE)
\* The fence came before the writes.
JobFencesEarly == ~poisoned /\ Ran({}, {}, FALSE, TRUE)

(***************************************************************************)
(* r76_submit_ops                                                          *)
(***************************************************************************)
Submit ==
    /\ pc = "submit"
    /\ past' = FALSE /\ late' = FALSE
    /\ pc' = "wait"
    /\ UNCHANGED <<multi, rows, stamped, blank, poisoned, cur, attempt, left, crossed,
                   healthy, answer>>

SubmitFails ==
    /\ pc = "submit"
    /\ Return("device")
    /\ healthy' = FALSE
    /\ UNCHANGED <<multi, rows, stamped, blank, poisoned, cur, attempt, past, late,
                   left, crossed>>

\* PREP_BO ran into its two seconds: the call gives up and the job stays queued.
WaitTimesOut ==
    /\ pc = "wait"
    /\ Return("device")
    /\ left' = TRUE
    /\ healthy' = FALSE
    /\ UNCHANGED <<multi, rows, stamped, blank, poisoned, cur, attempt, past, late,
                   crossed>>

\* A job is good if it was not retired and, against the sentinel, every task
\* wrote.  (Seeded fault: the whole tile is asked instead of the job's rows.)
JobGoodByTile == ~past /\ (Sentinel => \A t \in Task : Wrote(t))
JobGood == ~past /\ (Sentinel => AllWrote)

\* A retired job's extents go back to the sentinel.  (Seeded fault: they
\* keep the bytes the retired job left.)
NoRestamp == rows
AfterRetired == IF past /\ Sentinel THEN Stamp(Job) ELSE rows

Advance ==
    IF ~multi /\ cur < NTask
    THEN cur' = cur + 1 /\ attempt' = 0 /\ pc' = "submit"
    ELSE pc' = "descatter" /\ UNCHANGED <<cur, attempt>>

ScoreGood ==
    /\ pc = "fence" /\ JobGood
    /\ Advance
    /\ UNCHANGED <<multi, rows, stamped, blank, poisoned, past, late, left, crossed,
                   healthy, answer>>

\* r76_task_wrote_late: not retired, but the rows arrive after a settle.
ScoreLate ==
    /\ pc = "fence" /\ ~JobGood /\ ~past /\ Drain /\ late
    /\ rows' = [t \in Task |-> IF t \in Job THEN "good" ELSE rows[t]]
    /\ \A t \in Job : t \notin blank
    /\ Advance
    /\ UNCHANGED <<multi, stamped, blank, poisoned, past, late, left, crossed,
                   healthy, answer>>

\* (Seeded fault: a redo is not counted.)
RedoUncounted == attempt
RedoCount == attempt + 1
LastAttempt(a) == a = Attempts

\* Cycle the power domain and redo the job; it does not always clear.  Rows
\* that were late may land meanwhile.
ScoreRedo ==
    /\ pc = "fence" /\ ~JobGood
    /\ past \/ ~Drain \/ ~late \/ \E t \in Job : t \in blank
    /\ \E S \in SUBSET Job :
          /\ S = {} \/ late
          /\ rows' = [t \in Task |-> IF t \in S THEN "good" ELSE AfterRetired[t]]
    /\ attempt' = RedoCount
    /\ poisoned' \in BOOLEAN
    /\ IF LastAttempt(attempt') THEN Return("device")
                              ELSE pc' = "submit" /\ UNCHANGED answer
    /\ UNCHANGED <<multi, stamped, blank, cur, past, late, left, crossed, healthy>>

\* The rows go to the caller (or stay for the next layer), and the next
\* call's sentinel rides the same bracket.
Descatter ==
    /\ pc = "descatter"
    /\ Return("ok")
    /\ LET restamp == Sentinel /\ Resident /\ ~CubeOut
       IN  /\ rows' = IF restamp THEN Stamp(Task) ELSE rows
           /\ stamped' = restamp
    /\ UNCHANGED <<multi, blank, poisoned, cur, attempt, past, late, left, crossed,
                   healthy>>

Hardware == JobCompletes \/ JobPoisoned \/ JobRetired \/ JobTaskDies \/ JobFencesEarly
Guard == \/ Submit \/ SubmitFails \/ WaitTimesOut
         \/ ScoreGood \/ ScoreLate \/ ScoreRedo \/ Descatter

Next == BeginCall \/ ForeignPoison \/ LeftRuns \/ Hardware \/ Guard

\* The calling thread runs on, and its wait has a deadline of its own; nothing
\* is asked of the part.
Fairness == WF_vars(Guard)

Spec == Init /\ [][Next]_vars /\ Fairness

-----------------------------------------------------------------------------
TypeOK ==
    /\ multi \in BOOLEAN
    /\ rows \in [Task -> Rows]
    /\ stamped \in BOOLEAN /\ blank \subseteq Task /\ poisoned \in BOOLEAN
    /\ pc \in {"idle", "submit", "wait", "fence", "descatter"}
    /\ cur \in Task /\ attempt \in 0 .. Attempts
    /\ past \in BOOLEAN /\ late \in BOOLEAN
    /\ left \in BOOLEAN /\ crossed \in BOOLEAN /\ healthy \in BOOLEAN
    /\ answer \in [rc : {"none", "ok", "device"}, rows : [Task -> Rows]]

\* A surface handed to the caller as computed holds the rows of THIS input
\* for every task: no poisoned, retired or half-dead job passes the guard,
\* not through bytes an earlier attempt left and not through bytes an
\* earlier call left behind a stale "already stamped" flag.  One thing is not
\* covered, and is the condition here: a job left queued by a wait that timed
\* out (rocket_conv2d_rk3576.c:663-666) writes behind this call's stamp
\* (2814-2818) AND a job of this call does not itself write all of its rows.
DeliversThisCall ==
    (Sentinel /\ answer.rc = "ok" /\ (crossed => healthy)) =>
        \A t \in Task : answer.rows[t] = "good"

\* While the flag says the surface carries the sentinel, it does: this is
\* what lets a call skip the stamp.
FlagIsTrue == stamped => \A t \in Task : rows[t] = "stamp"

\* A call whose jobs all completed and wrote their rows succeeds: the guard
\* refuses nothing that was computed, unless the rows of a task are the
\* sentinel in every byte (those read as unwritten after every redo).
HealthyCallSucceeds == (blank = {} /\ answer.rc = "device") => ~healthy

\* A call returns, whatever the part does: the attempts are bounded.
CallReturns == pc = "submit" ~> pc = "idle"
=============================================================================
