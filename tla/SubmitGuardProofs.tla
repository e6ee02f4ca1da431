------------------------- MODULE SubmitGuardProofs -------------------------
(***************************************************************************)
(* The write guard of an int8 tile, proved for any number of row tasks and *)
(* attempts and for every setting of the switches.                         *)
(*                                                                         *)
(* The argument: between the stamp and the descatter a row holds either    *)
(* the sentinel or this input's bytes, except in the extents of a job that *)
(* was retired, which are restamped before the redo.  So a row that is not *)
(* the sentinel when a job passes is a row of this input.  A job left by a *)
(* call that timed out breaks that, and can do so only before the first    *)
(* job of this call has fenced; jobs of this call that all complete write  *)
(* over whatever it left.                                                  *)
(***************************************************************************)
EXTENDS SubmitGuard, TLAPS

\* Task t's cells hold the sentinel or this call's answer.
Clean(t) == rows[t] \in {"stamp", "good"}

\* No job of an earlier call wrote behind the stamp.
Unmixed == Sentinel /\ ~crossed

\* What the surface holds while a call is under way: whose rows are certain is
\* certain by the stamp, or by every job so far having written.
RowsInv ==
    /\ Unmixed =>
          /\ pc \in {"submit", "wait"} => \A t \in Task : Clean(t)
          /\ pc = "fence" => \A t \in Task : (past /\ t \in Job) \/ Clean(t)
    /\ healthy /\ pc = "fence" => ~past /\ \A t \in Job : rows[t] = "good"
    /\ Unmixed \/ healthy =>
          /\ pc \in {"submit", "wait", "fence"} /\ ~multi =>
                \A t \in Task : t < cur => rows[t] = "good"
          /\ pc = "descatter" => \A t \in Task : rows[t] = "good"

\* The flag is up only between calls.
FlagInv == FlagIsTrue /\ (stamped => pc = "idle")

\* An attempt is left for every job under way.
AttemptInv == pc \in {"submit", "wait", "fence"} => attempt < Attempts

\* A job left queued runs before the first job of a call fences, and the
\* surface it is to write carries no flag.
LeftInv == left => \/ pc = "idle" /\ ~stamped
                   \/ pc \in {"submit", "wait"} /\ cur = 1 /\ attempt = 0

\* The inductive invariant of the guard.
IInv == TypeOK /\ AttemptInv /\ FlagInv /\ LeftInv /\ RowsInv /\ DeliversThisCall

\* The constants have the types GuardAssumption gives them.
LEMMA ConstTypes == /\ NTask \in Nat /\ NTask # 0 /\ Attempts \in Nat /\ Attempts # 0
                    /\ Sentinel \in BOOLEAN /\ Resident \in BOOLEAN
                    /\ CubeOut \in BOOLEAN
BY GuardAssumption

\* Facts about the tasks every step below uses.
LEMMA TaskFacts == /\ Task \subseteq Nat /\ 1 \in Task
                   /\ NTask \in Task /\ \A t \in Task : 1 <= t /\ t <= NTask
                   /\ \A t \in Task : t < NTask => t + 1 \in Task
BY GuardAssumption DEF Task

\* The first call finds a surface that was never stamped.
LEMMA GuardInit == Init => IInv
<1> SUFFICES ASSUME Init PROVE IInv
  OBVIOUS
<1> USE ConstTypes, TaskFacts DEF Init
<1>1. rows \in [Task -> Rows] /\ answer \in [rc : {"none", "ok", "device"}, rows : [Task -> Rows]]
  BY DEF Rows, None
<1>2. cur \in Task /\ attempt \in 0 .. Attempts
  OBVIOUS
<1>3. TypeOK
  BY <1>1, <1>2 DEF TypeOK
<1>4. AttemptInv /\ FlagInv /\ LeftInv /\ RowsInv
  BY DEF AttemptInv, FlagInv, FlagIsTrue, LeftInv, RowsInv
<1>5. DeliversThisCall
  BY DEF DeliversThisCall, None
<1> QED BY <1>3, <1>4, <1>5 DEF IInv

\* A call starts from the sentinel everywhere, stamped now or by the last one.
LEMMA BeginStep == IInv /\ BeginCall => IInv'
<1> SUFFICES ASSUME IInv, BeginCall PROVE IInv'
  OBVIOUS
<1> USE ConstTypes, TaskFacts DEF IInv, TypeOK
<1>a. pc' = "submit" /\ cur' = 1 /\ attempt' = 0 /\ stamped' = FALSE
      /\ answer' = None /\ past' = FALSE /\ late' = FALSE
  BY DEF BeginCall, FlagAtSubmit
<1>b. rows' \in [Task -> Rows] /\ answer' \in [rc : {"none", "ok", "device"}, rows : [Task -> Rows]]
  BY <1>a DEF BeginCall, Rows, None
<1>c. blank' \subseteq Task /\ UNCHANGED <<multi, poisoned, left>>
      /\ healthy' = TRUE /\ crossed' = FALSE
  BY DEF BeginCall
<1>1. TypeOK' /\ AttemptInv'
  <2>1. 1 \in Task /\ 0 \in 0 .. Attempts /\ 0 < Attempts
    OBVIOUS
  <2>2. TypeOK'
    BY <1>a, <1>b, <1>c, <2>1
  <2>3. AttemptInv'
    BY <1>a, <2>1 DEF AttemptInv
  <2> QED BY <2>2, <2>3
<1>2. FlagInv'
  BY DEF BeginCall, FlagInv, FlagIsTrue, FlagAtSubmit
<1>3. Sentinel => \A t \in Task : rows'[t] = "stamp"
  BY DEF BeginCall, FlagInv, FlagIsTrue
<1>4. RowsInv'
  <2>1. \A t \in Task : ~(t < cur')
    BY <1>a
  <2> QED BY <1>a, <1>3, <2>1 DEF RowsInv, Unmixed, Clean
<1>5. DeliversThisCall'
  BY <1>a DEF DeliversThisCall, None
<1>6. LeftInv'
  BY <1>a DEF LeftInv
<1> QED BY <1>1, <1>2, <1>4, <1>5, <1>6

\* Whatever the part did to a job, a row outside this input's bytes is the
\* sentinel unless the job took the backstop.
LEMMA HardwareStep == IInv /\ Hardware => IInv'
<1> SUFFICES ASSUME IInv, Hardware PROVE IInv'
  OBVIOUS
<1> USE ConstTypes, TaskFacts DEF IInv, TypeOK
<1>1. PICK full \in SUBSET Job, partly \in SUBSET Job, p \in BOOLEAN, l \in BOOLEAN :
        Ran(full, partly, p, l) /\ (partly # {} => p)
  <2>1. ASSUME JobCompletes PROVE \E p \in BOOLEAN : Ran(Job, {}, p, FALSE)
    BY <2>1 DEF JobCompletes
  <2>2. ASSUME JobPoisoned PROVE \E p \in BOOLEAN : Ran({}, {}, p, FALSE)
    BY <2>2 DEF JobPoisoned
  <2>3. ASSUME JobRetired PROVE \E S \in SUBSET Job : Ran({}, S, TRUE, FALSE)
    BY <2>3 DEF JobRetired
  <2>4. ASSUME JobTaskDies PROVE \E S \in SUBSET Job : Ran(S, {}, FALSE, FALSE)
    BY <2>4 DEF JobTaskDies
  <2>5. ASSUME JobFencesEarly PROVE Ran({}, {}, FALSE, TRUE)
    BY <2>5 DEF JobFencesEarly
  <2> QED BY <2>1, <2>2, <2>3, <2>4, <2>5 DEF Hardware
<1>2. Job \subseteq Task
  BY DEF Job
<1>3. TypeOK' /\ AttemptInv'
  BY <1>1, <1>2 DEF Ran, Rows, AttemptInv
<1>4. FlagInv' /\ LeftInv'
  BY <1>1 DEF Ran, FlagInv, FlagIsTrue, LeftInv
<1>5. RowsInv'
  <2>1. Job' = Job
    BY <1>1 DEF Ran, Job
  <2>2. Unmixed => \A t \in Task : (past' /\ t \in Job') \/ Clean(t)'
    BY <1>1, <2>1 DEF Ran, RowsInv, Clean
  <2>3. ASSUME Unmixed \/ healthy, ~multi PROVE \A t \in Task : t < cur' => rows'[t] = "good"
    BY <1>1, <2>3 DEF Ran, RowsInv, Job
  <2>4. healthy' => healthy /\ ~past' /\ \A t \in Job' : rows'[t] = "good"
    BY <1>1, <1>2, <2>1 DEF Ran
  <2>5. pc' = "fence" /\ (Unmixed' <=> Unmixed) /\ multi' = multi
    BY <1>1 DEF Ran, Unmixed
  <2> QED BY <2>2, <2>3, <2>4, <2>5 DEF RowsInv
<1>6. DeliversThisCall'
  BY <1>1 DEF Ran, DeliversThisCall
<1> QED BY <1>3, <1>4, <1>5, <1>6

\* A job left by an earlier call disturbs a surface whose flag is down, before
\* any row of this call was accepted.
LEMMA LeftStep == IInv /\ LeftRuns => IInv'
<1> SUFFICES ASSUME IInv, LeftRuns PROVE IInv'
  OBVIOUS
<1> USE ConstTypes, TaskFacts DEF IInv, TypeOK
<1>1. /\ left /\ rows' \in [Task -> Rows] /\ left' \in BOOLEAN /\ crossed' = TRUE
      /\ UNCHANGED <<multi, stamped, blank, poisoned, pc, cur, attempt, past, late,
                     healthy, answer>>
  BY DEF LeftRuns
<1>2. TypeOK' /\ AttemptInv'
  BY <1>1 DEF AttemptInv
<1>3. FlagInv' /\ LeftInv'
  BY <1>1 DEF FlagInv, FlagIsTrue, LeftInv
<1>4. RowsInv'
  <2>1. \A t \in Task : ~(t < 1)
    OBVIOUS
  <2> QED BY <1>1, <2>1 DEF RowsInv, Unmixed, LeftInv
<1>5. DeliversThisCall'
  BY <1>1 DEF DeliversThisCall
<1> QED BY <1>2, <1>3, <1>4, <1>5

\* A job that is queued leaves the surface as it is.
LEMMA SubmitStep == IInv /\ Submit => IInv'
<1> SUFFICES ASSUME IInv, Submit PROVE IInv'
  OBVIOUS
<1> USE ConstTypes, TaskFacts DEF IInv, TypeOK, Submit
<1>1. TypeOK' /\ AttemptInv' /\ FlagInv' /\ LeftInv'
  BY DEF AttemptInv, FlagInv, FlagIsTrue, LeftInv
<1>2. RowsInv' /\ DeliversThisCall'
  BY DEF RowsInv, Unmixed, Clean, DeliversThisCall
<1> QED BY <1>1, <1>2

\* A submit that is refused, or a wait that times out, returns an error and
\* leaves the flag down.
LEMMA ErrorStep == IInv /\ (SubmitFails \/ WaitTimesOut) => IInv'
<1> SUFFICES ASSUME IInv, SubmitFails \/ WaitTimesOut PROVE IInv'
  OBVIOUS
<1> USE ConstTypes, TaskFacts DEF IInv, TypeOK, SubmitFails, WaitTimesOut, Return
<1>1. answer' \in [rc : {"none", "ok", "device"}, rows : [Task -> Rows]]
  BY DEF None, Rows
<1>a. TypeOK' /\ AttemptInv'
  BY <1>1 DEF AttemptInv
<1>2. FlagInv' /\ LeftInv' /\ RowsInv' /\ DeliversThisCall'
  BY DEF FlagInv, FlagIsTrue, LeftInv, RowsInv, DeliversThisCall
<1> QED BY <1>a, <1>2

\* A job that passed leaves this input's bytes in all of its rows, so the
\* next job, or the descatter, finds every row before it good.
LEMMA AdvanceStep ==
    ASSUME IInv, pc = "fence", Advance, TypeOK',
           UNCHANGED <<multi, stamped, blank, past, left, crossed, healthy, answer>>,
           Unmixed => \A t \in Task : Clean(t)',
           Unmixed \/ healthy => \A t \in Job : rows'[t] = "good",
           (Unmixed \/ healthy) /\ ~multi => \A t \in Task : t < cur => rows'[t] = "good"
    PROVE  IInv'
<1> USE ConstTypes, TaskFacts DEF IInv, TypeOK
<1>1. AttemptInv'
  BY DEF Advance, AttemptInv
<1>2. FlagInv' /\ LeftInv'
  BY DEF FlagInv, FlagIsTrue, LeftInv
<1>3. RowsInv'
  <2> USE DEF Unmixed
  <2>1. CASE ~multi /\ cur < NTask
    BY <2>1 DEF Advance, RowsInv, Job
  <2>2. CASE multi
    BY <2>2 DEF Advance, RowsInv, Job
  <2>3. CASE ~multi /\ ~(cur < NTask)
    <3>1. \A t \in Task : t < cur \/ t = cur
      BY <2>3
    <3> QED BY <2>3, <3>1 DEF Advance, RowsInv, Job
  <2> QED BY <2>1, <2>2, <2>3
<1>4. DeliversThisCall'
  BY DEF DeliversThisCall
<1> QED BY <1>1, <1>2, <1>3, <1>4

\* A good job advances: none of its rows is the sentinel, and none was left
\* by a retired job, so all are this input's.
LEMMA ScoreGoodStep == IInv /\ ScoreGood => IInv'
<1> SUFFICES ASSUME IInv, ScoreGood PROVE IInv'
  OBVIOUS
<1> USE ConstTypes, TaskFacts DEF IInv, TypeOK
<1>1. /\ pc = "fence" /\ Advance /\ ~past /\ (Sentinel => AllWrote)
      /\ UNCHANGED <<multi, rows, stamped, blank, poisoned, past, late, left, crossed,
                     healthy, answer>>
  BY DEF ScoreGood, JobGood
<1>2. Unmixed => \A t \in Task : Clean(t)
  BY <1>1 DEF RowsInv
<1>3. Unmixed \/ healthy => \A t \in Job : rows[t] = "good"
  <2>1. Unmixed => \A t \in Job : rows[t] = "good"
    BY <1>1, <1>2 DEF AllWrote, Wrote, Clean, Job, Unmixed
  <2>2. healthy => \A t \in Job : rows[t] = "good"
    BY <1>1 DEF RowsInv
  <2> QED BY <2>1, <2>2
<1>4. (Unmixed \/ healthy) /\ ~multi => \A t \in Task : t < cur => rows[t] = "good"
  BY <1>1 DEF RowsInv
<1>5. TypeOK'
  BY <1>1 DEF Advance
<1> QED BY <1>1, <1>2, <1>3, <1>4, <1>5, AdvanceStep DEF Clean

\* Rows that land during the settle are this input's.
LEMMA ScoreLateStep == IInv /\ ScoreLate => IInv'
<1> SUFFICES ASSUME IInv, ScoreLate PROVE IInv'
  OBVIOUS
<1> USE ConstTypes, TaskFacts DEF IInv, TypeOK
<1>1. /\ pc = "fence" /\ Advance /\ ~past
      /\ rows' = [t \in Task |-> IF t \in Job THEN "good" ELSE rows[t]]
      /\ UNCHANGED <<multi, stamped, blank, poisoned, past, late, left, crossed,
                     healthy, answer>>
  BY DEF ScoreLate
<1>2. Unmixed => \A t \in Task : Clean(t)'
  BY <1>1 DEF RowsInv, Clean
<1>3. \A t \in Job : rows'[t] = "good"
  BY <1>1 DEF Job
<1>4. (Unmixed \/ healthy) /\ ~multi => \A t \in Task : t < cur => rows'[t] = "good"
  BY <1>1 DEF RowsInv
<1>5. TypeOK'
  BY <1>1 DEF Advance, Rows
<1> QED BY <1>1, <1>2, <1>3, <1>4, <1>5, AdvanceStep

\* A redo starts from clean rows: a retired job's extents are restamped.
LEMMA ScoreRedoStep == IInv /\ ScoreRedo => IInv'
<1> SUFFICES ASSUME IInv, ScoreRedo PROVE IInv'
  OBVIOUS
<1> USE ConstTypes, TaskFacts DEF IInv, TypeOK
<1>1. /\ pc = "fence" /\ attempt' = attempt + 1
      /\ poisoned' \in BOOLEAN
      /\ UNCHANGED <<multi, stamped, blank, cur, past, late, left, crossed, healthy>>
  BY DEF ScoreRedo, RedoCount
<1>a. PICK S \in SUBSET Job :
        rows' = [t \in Task |-> IF t \in S THEN "good" ELSE AfterRetired[t]]
  BY DEF ScoreRedo
<1>2. \/ (pc' = "idle" /\ answer' = [rc |-> "device", rows |-> None.rows])
      \/ attempt' # Attempts /\ pc' = "submit" /\ UNCHANGED answer
  BY DEF ScoreRedo, LastAttempt, Return
<1>3. attempt < Attempts /\ attempt' \in 0 .. Attempts
  BY <1>1 DEF AttemptInv
<1>4. rows' \in [Task -> Rows]
  BY <1>a DEF AfterRetired, Stamp, Rows
<1>5. answer' \in [rc : {"none", "ok", "device"}, rows : [Task -> Rows]]
  BY <1>2 DEF None, Rows
<1>6. TypeOK' /\ AttemptInv'
  BY <1>1, <1>2, <1>3, <1>4, <1>5 DEF AttemptInv
<1>7. FlagInv' /\ LeftInv'
  BY <1>1 DEF FlagInv, FlagIsTrue, LeftInv
<1>8. RowsInv'
  <2>1. Unmixed => \A t \in Task : Clean(t)'
    BY <1>1, <1>a DEF RowsInv, Clean, AfterRetired, Stamp, Unmixed
  <2>2. (Unmixed \/ healthy) /\ ~multi => \A t \in Task : t < cur => rows'[t] = "good"
    BY <1>1, <1>a DEF RowsInv, AfterRetired, Stamp, Job
  <2>3. Unmixed' <=> Unmixed
    BY <1>1 DEF Unmixed
  <2> QED BY <1>1, <1>2, <2>1, <2>2, <2>3 DEF RowsInv
<1>9. DeliversThisCall'
  BY <1>1, <1>2 DEF DeliversThisCall
<1> QED BY <1>6, <1>7, <1>8, <1>9

\* The descatter delivers good rows and stamps for the next call.
LEMMA DescatterStep == IInv /\ Descatter => IInv'
<1> SUFFICES ASSUME IInv, Descatter PROVE IInv'
  OBVIOUS
<1> USE ConstTypes, TaskFacts DEF IInv, TypeOK
<1> DEFINE restamp == Sentinel /\ Resident /\ ~CubeOut
<1>1. /\ pc = "descatter" /\ pc' = "idle"
      /\ answer' = [rc |-> "ok", rows |-> rows]
      /\ rows' = IF restamp THEN Stamp(Task) ELSE rows
      /\ stamped' = restamp
      /\ UNCHANGED <<multi, blank, poisoned, cur, attempt, past, late, left, crossed,
                     healthy>>
  BY DEF Descatter, Return
<1>2. rows' \in [Task -> Rows]
      /\ answer' \in [rc : {"none", "ok", "device"}, rows : [Task -> Rows]]
  BY <1>1 DEF Stamp, Rows
<1>3. TypeOK' /\ AttemptInv'
  BY <1>1, <1>2 DEF AttemptInv
<1>4. FlagInv' /\ LeftInv'
  BY <1>1 DEF FlagInv, FlagIsTrue, Stamp, LeftInv
<1>5. RowsInv'
  BY <1>1 DEF RowsInv
<1>6. DeliversThisCall'
  BY <1>1 DEF DeliversThisCall, RowsInv, Unmixed
<1> QED BY <1>3, <1>4, <1>5, <1>6

\* The invariant is inductive.
LEMMA GuardNext == IInv /\ [Next]_vars => IInv'
<1> SUFFICES ASSUME IInv, [Next]_vars PROVE IInv'
  OBVIOUS
<1>1. CASE UNCHANGED vars \/ ForeignPoison
  <2>1. /\ UNCHANGED <<multi, rows, stamped, blank, pc, cur, attempt, past, late,
                       left, crossed, healthy, answer>>
        /\ poisoned' \in BOOLEAN
    BY <1>1 DEF vars, ForeignPoison, IInv, TypeOK
  <2>2. TypeOK' /\ AttemptInv' /\ FlagInv' /\ LeftInv'
    BY <2>1 DEF IInv, TypeOK, AttemptInv, FlagInv, FlagIsTrue, LeftInv
  <2>3. RowsInv' /\ DeliversThisCall'
    BY <2>1 DEF IInv, RowsInv, Unmixed, Clean, Job, DeliversThisCall
  <2> QED BY <2>2, <2>3 DEF IInv
<1> QED BY <1>1, BeginStep, HardwareStep, LeftStep, SubmitStep, ErrorStep, ScoreGoodStep,
           ScoreLateStep, ScoreRedoStep, DescatterStep DEF Next, Guard

\* IInv holds in every reachable state.
LEMMA GuardAlways == Spec => []IInv
BY GuardInit, GuardNext, PTL DEF Spec

\* Type correctness of the write guard.
THEOREM GuardTypes == Spec => []TypeOK
<1>1. IInv => TypeOK
  BY DEF IInv
<1> QED BY <1>1, GuardAlways, PTL

\* A surface delivered as computed holds this call's rows for every task:
\* no retired, poisoned or half-dead job passes r76_submit_ops, unless a job
\* left by an earlier call's time-out wrote behind the stamp; and even then
\* not, if the jobs of this call all completed.
THEOREM DeliveryCorrect == Spec => []DeliversThisCall
<1>1. IInv => DeliversThisCall
  BY DEF IInv
<1> QED BY <1>1, GuardAlways, PTL

\* The "already stamped" flag is never up on a surface that lost its stamp.
THEOREM FlagCorrect == Spec => []FlagIsTrue
<1>1. IInv => FlagIsTrue
  BY DEF IInv, FlagInv
<1> QED BY <1>1, GuardAlways, PTL

-----------------------------------------------------------------------------
(***************************************************************************)
(* The other direction: the guard refuses nothing that was computed.  This *)
(* needs no fact about what earlier calls left, only what the ghost        *)
(* `healthy' says about the job just fenced.                               *)
(***************************************************************************)

\* A job that completed and wrote its rows is scored good, unless its rows are
\* the sentinel in every byte.
LEMMA HealthyIsGood ==
    ASSUME RowsInv, pc = "fence", healthy, blank = {}
    PROVE  JobGood
BY DEF RowsInv, JobGood, AllWrote, Wrote

\* Only a redo of the last attempt can turn a healthy call away, and a healthy
\* job is never redone.
LEMMA HealthNext == HealthyCallSucceeds /\ IInv /\ [Next]_vars => HealthyCallSucceeds'
<1> SUFFICES ASSUME HealthyCallSucceeds, IInv, [Next]_vars PROVE HealthyCallSucceeds'
  OBVIOUS
<1> USE DEF HealthyCallSucceeds
<1>1. CASE UNCHANGED vars \/ ForeignPoison \/ LeftRuns \/ Submit
  BY <1>1 DEF vars, ForeignPoison, LeftRuns, Submit
<1>2. CASE BeginCall
  BY <1>2 DEF BeginCall, None
<1>3. CASE Hardware
  <2>1. PICK full \in SUBSET Job, partly \in SUBSET Job, p \in BOOLEAN, l \in BOOLEAN :
          Ran(full, partly, p, l)
    BY <1>3 DEF Hardware, JobCompletes, JobPoisoned, JobRetired, JobTaskDies, JobFencesEarly
  <2> QED BY <2>1 DEF Ran
<1>4. CASE SubmitFails \/ WaitTimesOut
  BY <1>4 DEF SubmitFails, WaitTimesOut, Return
<1>5. CASE ScoreGood \/ ScoreLate
  BY <1>5 DEF ScoreGood, ScoreLate, Advance
<1>6. CASE ScoreRedo
  <2>1. ~(healthy /\ blank = {})
    BY <1>6, HealthyIsGood DEF ScoreRedo, IInv
  <2> QED BY <1>6, <2>1 DEF ScoreRedo, Return
<1>7. CASE Descatter
  BY <1>7 DEF Descatter, Return
<1> QED BY <1>1, <1>2, <1>3, <1>4, <1>5, <1>6, <1>7 DEF Next, Guard

\* A call whose jobs all completed and wrote their rows returns OK: the guard
\* asks of a job only what the job was to write.
THEOREM HealthyCorrect == Spec => []HealthyCallSucceeds
<1>1. Init => HealthyCallSucceeds
  BY DEF Init, HealthyCallSucceeds, None
<1> QED BY <1>1, HealthNext, GuardAlways, PTL DEF Spec
=============================================================================
