------------------------------ MODULE ChainRun ------------------------------
(***************************************************************************)
(* One kick per run of linked int8 layers                                  *)
(* (rocket_conv2d_int8_chain_run_rk3576, rocket_conv2d_rk3576.c).  The     *)
(* programs of all the layers go out as one submit, each layer reading the *)
(* surface an earlier one wrote.  After the fence the guard asks three     *)
(* things: did a padded average pool divide by the wrong tap count, did    *)
(* every layer write over its sentinel, and did the job complete rather    *)
(* than being retired at the backstop.  A "no" redoes the whole kick.  A   *)
(* surface the chain rewrites before anyone reads it takes the next call's *)
(* sentinel inside the check, and a flag on its handle remembers that.     *)
(*                                                                         *)
(* The early returns before the stamp (a foreign fd, a missing tensor, no  *)
(* memory for the feature cube) change nothing and are left out.  The      *)
(* brackets around CPU accesses are bookkeeping and are left out too.      *)
(***************************************************************************)
EXTENDS Naturals, FiniteSets

CONSTANTS Run,          \* the runs of linked layers to look at
          Attempts,     \* ROCKET_RK3576_TASK_ATTEMPTS
          LagAttempts   \* the redo budget of the divisor lag

(***************************************************************************)
(* A run: its program-carrying layers 1 .. n, the layer whose surface each *)
(* reads (0 = the input), the convs whose surface is out_ext or declared   *)
(* shared, the pooling layers (no flag) and those of them whose divisor    *)
(* can lag (padded average pools); whether the last layer leaves a cube    *)
(* instead of rows; ROCKET_RK3576_I32_SENTINEL, ROCKET_RK3576_GUARD_PER_   *)
(* KICK; and whether one program of a kick may die while others run.       *)
(***************************************************************************)
IsRun(r) ==
    LET L == 1 .. r.n
    IN  /\ r.n \in Nat /\ r.n >= 2
        /\ r.feed \in [L -> 0 .. r.n] /\ \A i \in L : r.feed[i] < i
        /\ r.shared \subseteq L /\ r.lagPool \subseteq r.pool
        /\ r.pool \subseteq L \ ({1, r.n} \cup r.shared)
        /\ {r.lastCubeOut, r.sentinel, r.perKick, r.programsDie} \subseteq BOOLEAN

ASSUME ChainAssumption ==
    /\ \A r \in Run : IsRun(r)
    /\ Attempts \in Nat \ {0} /\ LagAttempts \in Nat \ {0}

(***************************************************************************)
(* A surface holds the sentinel, bytes of an earlier call, a part of a     *)
(* retired program's output, a lagged division, a full output computed     *)
(* from something that was not this call's, or this call's output.         *)
(***************************************************************************)
Bytes == {"stamp", "stale", "part", "lag", "wrong", "good"}

VARIABLES
    run,       \* the run this chain was built for
    surf,      \* surf[i]: what layer i's surface holds
    stamped,   \* stamped[i]: the flag on layer i's handle (never on a pool's)
    poisoned,  \* the part's next job completes and writes nothing
    pc,        \* where the call is
    attempt,   \* redos charged to the poisoning
    lagged,    \* redos charged to the divisor lag
    late,      \* the kick took at least the backstop
    clean,     \* ghost: no call returned an error after a kick had run
    answer     \* what the last call returned, and the surfaces at that moment

vars == <<run, surf, stamped, poisoned, pc, attempt, lagged, late, clean, answer>>

N == run.n
Layer == 1 .. N
Feed == run.feed
Shared == run.shared
Pool == run.pool
LagPool == run.lagPool
LastCubeOut == run.lastCubeOut
Sentinel == run.sentinel
PerKick == run.perKick

None == [rc |-> "none", surf |-> [i \in Layer |-> "stamp"]]

Init ==
    /\ run \in Run
    /\ surf = [i \in Layer |-> "stale"]
    /\ stamped = [i \in Layer |-> FALSE]
    /\ poisoned \in BOOLEAN
    /\ pc = "idle"
    /\ attempt = 0 /\ lagged = 0
    /\ late = FALSE
    /\ clean = TRUE
    /\ answer = None

\* The layers the guard stamps, checks and restamps: all, or the last alone.
Checked == IF PerKick THEN {N} ELSE Layer

Stamp(S) == [i \in Layer |-> IF i \in S THEN "stamp" ELSE surf[i]]

Return(rc) ==
    /\ answer' = [rc |-> rc, surf |-> surf]
    /\ pc' = "idle"

(***************************************************************************)
(* The start of a call: the sentinel goes on every checked surface that is *)
(* not flagged as carrying it already.                                     *)
(***************************************************************************)
BeginCall ==
    /\ pc = "idle"
    /\ surf' = [i \in Layer |->
                  IF Sentinel /\ i \in Checked /\ ~stamped[i] THEN "stamp"
                  ELSE IF surf[i] = "stamp" THEN "stamp" ELSE "stale"]
    /\ attempt' = 0 /\ lagged' = 0
    /\ answer' = None
    /\ pc' = "submit"
    /\ UNCHANGED <<run, stamped, poisoned, late, clean>>

(***************************************************************************)
(* The part.  It runs the programs in array order, so a layer reads what   *)
(* its feeder left in this kick.                                           *)
(***************************************************************************)
\* The surfaces after a kick in which the layers of `wrote` wrote in full, the
\* pools of `slow` with a lagging divisor, and those of `cut` in part.
AfterKick(wrote, slow, cut) ==
    LET new[i \in Layer] ==
          IF i \in cut THEN "part"
          ELSE IF i \notin wrote THEN surf[i]
          ELSE IF i \in slow THEN "lag"
          ELSE IF Feed[i] = 0 THEN "good"
          ELSE IF new[Feed[i]] = "good" THEN "good" ELSE "wrong"
    IN  new

Ran(wrote, slow, cut, isLate) ==
    /\ pc = "submit"
    /\ surf' = AfterKick(wrote, slow, cut)
    /\ late' = isLate
    /\ pc' = "fence"
    /\ UNCHANGED <<run, stamped, poisoned, attempt, lagged, clean, answer>>

\* A host that was descheduled may see the backstop passed in the first two.
KickCompletes == ~poisoned /\ \E p \in BOOLEAN, S \in SUBSET LagPool :
                                  Ran(Layer, S, {}, p)
KickPoisoned == poisoned /\ \E p \in BOOLEAN : Ran({}, {}, {}, p)
\* Retired by the driver while layer k was running.
KickRetired == ~poisoned /\ \E k \in Layer : Ran(1 .. k - 1, {}, {k}, TRUE)
KickLayersDie == /\ run.programsDie /\ ~poisoned
                 /\ \E S \in SUBSET Layer : S # Layer /\ Ran(S, {}, {}, FALSE)

\* Another process's wide-output job poisons the next submit of anyone.
ForeignPoison ==
    /\ ~poisoned
    /\ poisoned' = TRUE
    /\ UNCHANGED <<run, surf, stamped, pc, attempt, lagged, late, clean, answer>>

(***************************************************************************)
(* The errors                                                              *)
(***************************************************************************)
SubmitFails ==
    /\ pc = "submit"
    /\ Return("device")
    /\ UNCHANGED <<run, surf, stamped, poisoned, attempt, lagged, late, clean>>

\* PREP_BO on the last surface ran into its two seconds.
WaitTimesOut ==
    /\ pc = "fence"
    /\ Return("device")
    /\ clean' = FALSE
    /\ UNCHANGED <<run, surf, stamped, poisoned, attempt, lagged, late>>

(***************************************************************************)
(* The divisor lag, asked first and not of a retired kick.  A redo for it  *)
(* spends no power cycle and has its own budget.                           *)
(***************************************************************************)
LagSeen == {i \in LagPool : surf[i] = "lag"}
LagBad == ~late /\ LagSeen # {}

\* (Seeded fault: a redo for the lag is not counted.)
LagUncounted == lagged
LagCount == lagged + 1

RestampChecked == surf' = IF Sentinel THEN Stamp(Checked) ELSE surf

LagRedo ==
    /\ pc = "fence" /\ LagBad
    /\ lagged' = LagCount
    /\ IF lagged' >= LagAttempts
       THEN Return("device") /\ clean' = FALSE /\ UNCHANGED surf
       ELSE pc' = "submit" /\ RestampChecked /\ UNCHANGED <<answer, clean>>
    /\ UNCHANGED <<run, stamped, poisoned, attempt, late>>

(***************************************************************************)
(* The write check, up to the first layer that wrote nothing.              *)
(***************************************************************************)
Silent == {i \in Checked : surf[i] = "stamp"}
Passed == {i \in Checked : \A j \in Silent : i < j}

\* r76_layer_restamp_ok.  (Seeded fault: a shared surface is restamped too.)
AnyConvRestampOk(i) == i \notin Pool
RestampOk(i) == i \notin Pool \cup Shared

\* Checked layers but the last: the flag goes up with the new sentinel, and
\* down on a surface something outside the stream still reads.
Flags == [i \in Layer |-> IF i \in Passed \ ({N} \cup Pool) THEN RestampOk(i)
                          ELSE stamped[i]]
Restamped == {i \in Passed \ {N} : RestampOk(i)}

KickGood == Silent = {} /\ ~late

VerifyGood ==
    /\ Sentinel /\ pc = "fence" /\ ~LagBad /\ KickGood
    /\ surf' = Stamp(Restamped)
    /\ stamped' = Flags
    /\ pc' = "descatter"
    /\ UNCHANGED <<run, poisoned, attempt, lagged, late, clean, answer>>

RedoCount == attempt + 1

\* Cycle the power domain and redo the whole chain; it does not always clear.
VerifyRedo ==
    /\ Sentinel /\ pc = "fence" /\ ~LagBad /\ ~KickGood
    /\ stamped' = Flags
    /\ attempt' = RedoCount
    /\ poisoned' \in BOOLEAN
    /\ surf' = Stamp(Checked)
    /\ IF attempt' = Attempts THEN Return("device")
                              ELSE pc' = "submit" /\ UNCHANGED answer
    /\ UNCHANGED <<run, lagged, late, clean>>

\* With the sentinel off only completion is scored.
UncheckedGood ==
    /\ ~Sentinel /\ pc = "fence" /\ ~LagBad /\ ~late
    /\ pc' = "descatter"
    /\ UNCHANGED <<run, surf, stamped, poisoned, attempt, lagged, late, clean, answer>>

UncheckedRedo ==
    /\ ~Sentinel /\ pc = "fence" /\ ~LagBad /\ late
    /\ attempt' = RedoCount
    /\ poisoned' \in BOOLEAN
    /\ IF attempt' = Attempts THEN Return("device")
                              ELSE pc' = "submit" /\ UNCHANGED answer
    /\ UNCHANGED <<run, surf, stamped, lagged, late, clean>>

(***************************************************************************)
(* The de-scatter reads the last surface and stamps it for the next call,  *)
(* unless it stays for a consumer outside the chain.                       *)
(***************************************************************************)
\* (Seeded fault: the flag goes up on a cube left for a consumer, too.)
LastStampedAlways == [stamped EXCEPT ![N] = TRUE]
LastStamped == [stamped EXCEPT ![N] = ~LastCubeOut]

Descatter ==
    /\ pc = "descatter"
    /\ Return("ok")
    /\ surf' = IF Sentinel /\ ~LastCubeOut THEN Stamp({N}) ELSE surf
    /\ stamped' = IF Sentinel THEN LastStamped ELSE stamped
    /\ UNCHANGED <<run, poisoned, attempt, lagged, late, clean>>

Hardware == KickCompletes \/ KickPoisoned \/ KickRetired \/ KickLayersDie
Guard == \/ SubmitFails \/ WaitTimesOut \/ LagRedo \/ VerifyGood \/ VerifyRedo
         \/ UncheckedGood \/ UncheckedRedo \/ Descatter

Next == BeginCall \/ ForeignPoison \/ Hardware \/ Guard

\* A submitted kick ends (the driver retires it at the backstop at the
\* latest), and the calling thread runs on.
Fairness == WF_vars(Hardware) /\ WF_vars(Guard)

Spec == Init /\ [][Next]_vars /\ Fairness

-----------------------------------------------------------------------------
\* The surfaces someone outside the stream reads after the call.
ReadOutside == {N} \cup Shared

\* What the guard's coverage promises: with every layer asked, or with the
\* last alone on a part whose programs do not die one by one.
Covered == Sentinel /\ (PerKick => ~run.programsDie)

\* A chain that returns OK leaves this call's output on its last surface and
\* on every shared one: no poisoned, retired or half-dead kick and no lagged
\* divisor passes, nothing an earlier attempt or call left is taken for this
\* call's, and no surface with a reader outside is restamped early.
DeliversThisCall ==
    (Covered /\ clean /\ answer.rc = "ok") =>
        \A i \in ReadOutside : answer.surf[i] = "good"

\* The same without the proviso that no earlier call failed after its kick.
DeliversAlways ==
    (Covered /\ answer.rc = "ok") => \A i \in ReadOutside : answer.surf[i] = "good"

\* Before a kick and between calls, a flag that is up is on a surface that
\* carries the sentinel.
FlagIsTrue ==
    (clean /\ pc \in {"idle", "submit"}) =>
        \A i \in Layer : stamped[i] => surf[i] = "stamp"

\* A call returns, whatever the part does: both redo budgets are finite and
\* their sum bounds the kicks.
CallReturns == pc = "submit" ~> pc = "idle"
=============================================================================
