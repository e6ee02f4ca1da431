-------------------------- MODULE ChainRunProofs --------------------------
(***************************************************************************)
(* What one kick per run of linked layers delivers, for runs of any        *)
(* length and any wiring, and any redo budgets.                            *)
(*                                                                         *)
(* The argument follows the sentinel round.  Before a kick every checked   *)
(* surface carries it, by a fresh stamp or by one a flag vouches for.  A   *)
(* kick that passes the guard therefore wrote every layer, none of them    *)
(* with a lagging divisor; and since a layer reads an earlier one, the     *)
(* first layer whose output is not this call's would have had nothing but  *)
(* this call's to read.  What is restamped then has no reader outside, and *)
(* a flag goes up on nothing else.                                         *)
(***************************************************************************)
EXTENDS ChainRun, WellOrder

\* The types of the variables.
Label == {"idle", "submit", "fence", "descatter"}

TypeOK ==
    /\ run \in Run
    /\ surf \in [Layer -> Bytes]
    /\ stamped \in [Layer -> BOOLEAN]
    /\ poisoned \in BOOLEAN /\ late \in BOOLEAN /\ clean \in BOOLEAN
    /\ pc \in Label
    /\ attempt \in 0 .. Attempts /\ lagged \in 0 .. LagAttempts
    /\ answer.rc \in {"none", "device", "ok"}

\* A call that still runs has a redo of either kind to spend.
Budgeted == pc # "idle" => attempt < Attempts /\ lagged < LagAttempts

\* The two together are inductive.
TypeInv == TypeOK /\ Budgeted

\* What is known of a run.
LEMMA RunShape ==
    ASSUME run \in Run
    PROVE  /\ N \in Nat /\ N >= 2 /\ Layer \subseteq Nat
           /\ Feed \in [Layer -> 0 .. N] /\ \A i \in Layer : Feed[i] < i
           /\ LagPool \subseteq Pool /\ Shared \subseteq Layer
           /\ Pool \subseteq Layer \ ({1, N} \cup Shared)
           /\ Sentinel \in BOOLEAN /\ LastCubeOut \in BOOLEAN /\ PerKick \in BOOLEAN
           /\ N \in Checked /\ Checked \subseteq Layer
BY ChainAssumption DEF IsRun, Layer, N, Feed, LagPool, Shared, Pool, Sentinel, LastCubeOut,
                       PerKick, Checked

-----------------------------------------------------------------------------
(* The part.                                                               *)

\* What layer i leaves when its feeder left new[Feed[i]].
Left(new, i, wrote, slow, cut) ==
    IF i \in cut THEN "part"
    ELSE IF i \notin wrote THEN surf[i]
    ELSE IF i \in slow THEN "lag"
    ELSE IF Feed[i] = 0 THEN "good"
    ELSE IF new[Feed[i]] = "good" THEN "good" ELSE "wrong"

\* The surfaces are well defined because a layer reads an earlier one.
LEMMA KickDefined ==
    ASSUME TypeOK, NEW wrote, NEW slow, NEW cut
    PROVE  \E f \in [Layer -> Bytes] : \A i \in Layer : f[i] = Left(f, i, wrote, slow, cut)
<1> DEFINE Upto(k) == \E f \in [Layer -> Bytes] :
                         \A i \in 1 .. k : f[i] = Left(f, i, wrote, slow, cut)
           Short == {k \in 0 .. N : ~Upto(k)}
<1>r. /\ N \in Nat /\ Feed \in [Layer -> 0 .. N] /\ \A i \in Layer : Feed[i] < i
      /\ surf \in [Layer -> Bytes] /\ Layer = 1 .. N
  BY RunShape DEF TypeOK, Layer
<1>1. Short = {}
  <2> SUFFICES ASSUME Short # {} PROVE FALSE
    OBVIOUS
  <2>1. Short \subseteq Nat
    BY <1>r
  <2>2. PICK k \in Short : \A j \in Short : k <= j
    <3> HIDE DEF Short
    <3> QED BY <2>1, LeastNumber
  <2>3. k \in 0 .. N /\ ~Upto(k)
    BY <2>2
  <2>4. k # 0
    <3> SUFFICES ASSUME k = 0 PROVE Upto(k)
      BY <2>3
    <3>1. 1 .. k = {}
      OBVIOUS
    <3> QED BY <3>1, <1>r
  <2>5. k - 1 \in 0 .. N /\ k \in Layer /\ k - 1 < k
    BY <2>3, <2>4, <1>r
  <2>6. Upto(k - 1)
    <3>1. k - 1 \in Short => k <= k - 1
      BY <2>2
    <3>2. k - 1 \notin Short
      <4>1. k \in Int /\ ~(k <= k - 1)
        BY <2>3, <1>r
      <4> QED BY <3>1, <4>1
    <3> HIDE DEF Upto
    <3> QED BY <3>2, <2>5
  <2>7. PICK f \in [Layer -> Bytes] :
            \A i \in 1 .. k - 1 : f[i] = Left(f, i, wrote, slow, cut)
    BY <2>6
  <2> DEFINE g == [f EXCEPT ![k] = Left(f, k, wrote, slow, cut)]
  <2>8. Left(f, k, wrote, slow, cut) \in Bytes
    BY <2>5, <1>r DEF Left, Bytes
  <2>9. g \in [Layer -> Bytes]
    BY <2>8
  <2>10. ASSUME NEW i \in 1 .. k PROVE g[i] = Left(g, i, wrote, slow, cut)
    <3>1. i \in Layer /\ Feed[i] \in 0 .. N /\ Feed[i] < i /\ Feed[i] # k
      BY <2>5, <1>r
    <3>2. Feed[i] # 0 => g[Feed[i]] = f[Feed[i]]
      BY <3>1, <1>r
    <3>3. Left(g, i, wrote, slow, cut) = Left(f, i, wrote, slow, cut)
      BY <3>2 DEF Left
    <3>4. CASE i = k
      BY <3>3, <3>4, <2>5
    <3>5. CASE i # k
      <4>1. i \in 1 .. k - 1 /\ g[i] = f[i]
        BY <3>5, <3>1, <2>5, <1>r
      <4> QED BY <4>1, <3>3, <2>7
    <3> QED BY <3>4, <3>5
  <2> HIDE DEF g
  <2>11. Upto(k)
    BY <2>9, <2>10
  <2> QED BY <2>11, <2>3
<1>2. N \in 0 .. N
  BY <1>r
<1>3. Upto(N)
  BY <1>1, <1>2
<1> QED BY <1>3, <1>r

\* AfterKick is those surfaces.
LEMMA KickLeaves ==
    ASSUME TypeOK, NEW wrote, NEW slow, NEW cut, NEW new, new = AfterKick(wrote, slow, cut)
    PROVE  /\ new \in [Layer -> Bytes]
           /\ \A i \in Layer : new[i] = Left(new, i, wrote, slow, cut)
<1>1. PICK f \in [Layer -> Bytes] : \A i \in Layer : f[i] = Left(f, i, wrote, slow, cut)
  BY KickDefined
<1>2. f = [i \in Layer |-> Left(f, i, wrote, slow, cut)]
  BY <1>1
<1>3. new = [i \in Layer |-> Left(new, i, wrote, slow, cut)]
  BY <1>2 DEF AfterKick, Left
<1>4. ASSUME NEW i \in Layer PROVE Left(new, i, wrote, slow, cut) \in Bytes
  BY DEF TypeOK, Left, Bytes
<1> QED BY <1>3, <1>4

-----------------------------------------------------------------------------
(* The types.                                                              *)

\* The initial state has its types.
LEMMA TypeInit == Init => TypeInv
<1> SUFFICES ASSUME Init PROVE TypeInv
  OBVIOUS
<1>1. run \in Run /\ answer.rc = "none"
  BY DEF Init, None
<1>2. surf \in [Layer -> Bytes] /\ stamped \in [Layer -> BOOLEAN]
  BY DEF Init, Bytes
<1>3. late \in BOOLEAN /\ clean \in BOOLEAN /\ poisoned \in BOOLEAN
  BY DEF Init
<1>4. attempt \in 0 .. Attempts /\ lagged \in 0 .. LagAttempts /\ pc \in Label /\ pc = "idle"
  BY ChainAssumption DEF Init, Label
<1> QED BY <1>1, <1>2, <1>3, <1>4 DEF TypeInv, TypeOK, Budgeted

\* Stamping leaves surfaces.
LEMMA StampType ==
    ASSUME TypeOK, NEW S
    PROVE  /\ Stamp(S) \in [Layer -> Bytes]
           /\ \A i \in Layer : Stamp(S)[i] = IF i \in S THEN "stamp" ELSE surf[i]
BY DEF TypeOK, Stamp, Bytes

\* The flags of a check are flags.
LEMMA FlagsType ==
    ASSUME TypeOK
    PROVE  /\ Flags \in [Layer -> BOOLEAN]
           /\ \A i \in Layer : Flags[i] = IF i \in Passed \ ({N} \cup Pool) THEN RestampOk(i)
                                          ELSE stamped[i]
BY DEF TypeOK, Flags, RestampOk

\* One more redo is within the budget, or the last.
LEMMA OneMoreRedo ==
    ASSUME TypeInv, pc # "idle"
    PROVE  /\ RedoCount \in 0 .. Attempts /\ (RedoCount # Attempts => RedoCount < Attempts)
           /\ LagCount \in 0 .. LagAttempts
           /\ (~(LagCount >= LagAttempts) => LagCount < LagAttempts)
BY ChainAssumption DEF TypeInv, TypeOK, Budgeted, RedoCount, LagCount

\* Every step keeps the types, and the redo budgets bound the kicks.
LEMMA TypeNext == TypeInv /\ [Next]_vars => TypeInv'
<1> SUFFICES ASSUME TypeInv, [Next]_vars PROVE TypeInv'
  OBVIOUS
<1> USE DEF TypeInv
<1>l. run' = run => Layer' = Layer
  BY DEF Layer, N
<1>1. CASE UNCHANGED vars
  BY <1>1, <1>l DEF vars, TypeOK, Budgeted
<1>2. CASE BeginCall
  <2>1. surf' \in [Layer -> Bytes]
    BY <1>2 DEF BeginCall, Bytes
  <2>2. answer'.rc = "none"
    BY <1>2 DEF BeginCall, None
  <2>3. attempt' \in 0 .. Attempts /\ lagged' \in 0 .. LagAttempts
        /\ attempt' < Attempts /\ lagged' < LagAttempts
    BY <1>2, ChainAssumption DEF BeginCall
  <2> QED BY <1>2, <1>l, <2>1, <2>2, <2>3 DEF BeginCall, TypeOK, Budgeted, Label
<1>3. CASE ForeignPoison
  BY <1>3, <1>l DEF ForeignPoison, TypeOK, Budgeted
<1>4. ASSUME NEW wrote, NEW slow, NEW cut, NEW p \in BOOLEAN, Ran(wrote, slow, cut, p)
      PROVE  TypeInv'
  <2>1. surf' \in [Layer -> Bytes]
    BY <1>4, KickLeaves DEF Ran
  <2> QED BY <1>4, <1>l, <2>1 DEF Ran, TypeOK, Budgeted, Label
<1>5. CASE Hardware
  BY <1>5, <1>4 DEF Hardware, KickCompletes, KickPoisoned, KickRetired, KickLayersDie
<1>6. ASSUME NEW rc \in {"device", "ok"}, Return(rc)
      PROVE  answer'.rc \in {"none", "device", "ok"} /\ pc' = "idle"
  BY <1>6 DEF Return
<1>7. CASE SubmitFails \/ WaitTimesOut
  BY <1>7, <1>6, <1>l DEF SubmitFails, WaitTimesOut, TypeOK, Budgeted, Label
<1>8. CASE LagRedo
  <2>1. surf' \in [Layer -> Bytes]
    BY <1>8, StampType DEF LagRedo, RestampChecked, TypeOK
  <2>2. /\ run' = run /\ stamped' = stamped /\ poisoned' = poisoned /\ attempt' = attempt
        /\ late' = late /\ pc # "idle" /\ clean' \in BOOLEAN
    BY <1>8 DEF LagRedo, TypeOK
  <2>3. lagged' \in 0 .. LagAttempts
    BY <1>8, OneMoreRedo DEF LagRedo
  <2>4. \/ answer'.rc \in {"none", "device", "ok"} /\ pc' = "idle"
        \/ answer' = answer /\ pc' = "submit" /\ lagged' < LagAttempts
    BY <1>8, <1>6, OneMoreRedo DEF LagRedo
  <2> QED BY <1>l, <2>1, <2>2, <2>3, <2>4 DEF TypeOK, Budgeted, Label
<1>9. CASE VerifyGood \/ UncheckedGood
  BY <1>9, <1>l, StampType, FlagsType DEF VerifyGood, UncheckedGood, TypeOK, Budgeted, Label
<1>10. CASE VerifyRedo \/ UncheckedRedo
  <2>1. surf' \in [Layer -> Bytes] /\ stamped' \in [Layer -> BOOLEAN]
    BY <1>10, StampType, FlagsType DEF VerifyRedo, UncheckedRedo, TypeOK
  <2>2. /\ run' = run /\ poisoned' \in BOOLEAN /\ attempt' = RedoCount /\ lagged' = lagged
        /\ late' = late /\ pc # "idle" /\ clean' = clean
    BY <1>10 DEF VerifyRedo, UncheckedRedo
  <2>3. \/ answer'.rc \in {"none", "device", "ok"} /\ pc' = "idle"
        \/ answer' = answer /\ pc' = "submit" /\ attempt' < Attempts
    BY <1>10, <1>6, OneMoreRedo DEF VerifyRedo, UncheckedRedo
  <2> QED BY <1>l, <2>1, <2>2, <2>3, OneMoreRedo DEF TypeOK, Budgeted, Label
<1>11. CASE Descatter
  <2>1. surf' \in [Layer -> Bytes] /\ stamped' \in [Layer -> BOOLEAN]
    BY <1>11, StampType DEF Descatter, LastStamped, TypeOK
  <2> QED BY <1>11, <1>6, <1>l, <2>1 DEF Descatter, TypeOK, Budgeted, Label
<1> QED BY <1>1, <1>2, <1>3, <1>5, <1>7, <1>8, <1>9, <1>10, <1>11 DEF Next, Guard

-----------------------------------------------------------------------------
(* The sentinel round.                                                     *)

\* A flag is on a checked convolution, and only while the sentinel is used.
FlagsChecked == \A i \in Layer : stamped[i] => Sentinel /\ i \in Checked \ Pool

\* Before a kick every checked surface carries the sentinel.
StampedBefore == clean /\ Sentinel /\ pc = "submit" => \A i \in Checked : surf[i] = "stamp"

\* What the guard would let pass after a kick is this call's on every layer.
PassedIsGood ==
    clean /\ Covered /\ pc = "fence" /\ ~LagBad /\ KickGood => \A i \in Layer : surf[i] = "good"

\* So it is, where someone outside reads, until the rows are read out; the
\* flags raised meanwhile are true, but for the last layer's.
DeliveredSoFar ==
    clean /\ pc = "descatter" =>
        /\ Covered => \A i \in ReadOutside : surf[i] = "good"
        /\ \A i \in Layer \ {N} : stamped[i] => surf[i] = "stamp"

\* The inductive invariant of the sentinel round.
RoundInv ==
    /\ TypeInv /\ FlagsChecked /\ StampedBefore /\ FlagIsTrue
    /\ PassedIsGood /\ DeliveredSoFar /\ DeliversThisCall

\* Nothing of a run changes while its chain lives.
LEMMA RunKept ==
    ASSUME run' = run
    PROVE  /\ Layer' = Layer /\ N' = N /\ Sentinel' = Sentinel /\ Checked' = Checked
           /\ Pool' = Pool /\ LagPool' = LagPool /\ Shared' = Shared
           /\ ReadOutside' = ReadOutside /\ LastCubeOut' = LastCubeOut
           /\ PerKick' = PerKick /\ Covered' = Covered
BY DEF Layer, N, Sentinel, Checked, Pool, LagPool, Shared, ReadOutside, LastCubeOut, PerKick,
       Covered

\* A kick in which every layer wrote, no divisor lagging, is good throughout.
LEMMA WholeKickGood ==
    ASSUME TypeOK, NEW slow, NEW new, new = AfterKick(Layer, slow, {}),
           slow \subseteq LagPool, \A i \in LagPool : new[i] # "lag"
    PROVE  \A i \in Layer : new[i] = "good"
<1> DEFINE Bad == {i \in Layer : new[i] # "good"}
<1>r. /\ Layer \subseteq Nat /\ \A i \in Layer : Feed[i] < i /\ Feed[i] \in 0 .. N
      /\ Layer = 1 .. N /\ N \in Nat
  BY RunShape DEF TypeOK, Layer
<1>1. \A i \in Layer : new[i] = Left(new, i, Layer, slow, {})
  BY KickLeaves
<1>2. \A i \in Layer : i \notin slow
  BY <1>1, RunShape DEF Left, TypeOK
<1>3. \A i \in Layer : new[i] = IF Feed[i] = 0 THEN "good"
                                ELSE IF new[Feed[i]] = "good" THEN "good" ELSE "wrong"
  BY <1>1, <1>2 DEF Left
<1> SUFFICES ASSUME Bad # {} PROVE FALSE
  OBVIOUS
<1>4. Bad \subseteq Nat
  BY <1>r
<1>5. PICK k \in Bad : \A j \in Bad : k <= j
  <2> HIDE DEF Bad
  <2> QED BY <1>4, LeastNumber
<1>6. k \in Layer /\ Feed[k] # 0 /\ new[Feed[k]] # "good"
  BY <1>3, <1>5
<1>7. Feed[k] \in Bad /\ Feed[k] < k
  BY <1>6, <1>r
<1> QED BY <1>5, <1>7, <1>r, <1>6

\* What a kick leaves behind passes the guard only if it is this call's.
LEMMA KickPasses ==
    ASSUME RoundInv, Hardware
    PROVE  PassedIsGood'
<1> SUFFICES ASSUME clean', Covered', ~LagBad', KickGood'
             PROVE  \A i \in Layer' : surf'[i] = "good"
  BY DEF PassedIsGood
<1>r. TypeOK /\ Layer' = Layer /\ N' = N /\ Checked' = Checked /\ LagPool' = LagPool
      /\ Covered /\ clean /\ pc = "submit"
  BY RunKept DEF Hardware, KickCompletes, KickPoisoned, KickRetired, KickLayersDie, Ran,
                 RoundInv, TypeInv
<1>s. /\ N \in Checked /\ Checked \subseteq Layer /\ \A i \in Checked : surf[i] = "stamp"
  BY <1>r, RunShape DEF RoundInv, StampedBefore, Covered, TypeOK
<1>g. ~late' /\ (\A i \in LagPool : surf'[i] # "lag") /\ \A i \in Checked : surf'[i] # "stamp"
  BY <1>r DEF KickGood, LagBad, LagSeen, Silent
<1>1. CASE KickCompletes
  <2>1. PICK S \in SUBSET LagPool : surf' = AfterKick(Layer, S, {})
    BY <1>1 DEF KickCompletes, Ran
  <2> QED BY <1>r, <1>g, <2>1, WholeKickGood
<1>2. CASE KickPoisoned
  <2>1. surf' = AfterKick({}, {}, {})
    BY <1>2 DEF KickPoisoned, Ran
  <2>2. surf'[N] = surf[N]
    BY <1>r, <1>s, <2>1, KickLeaves DEF Left
  <2> QED BY <2>2, <1>s, <1>g
<1>3. CASE KickRetired
  BY <1>3, <1>g DEF KickRetired, Ran
<1>4. CASE KickLayersDie
  <2>1. PICK S \in SUBSET Layer : S # Layer /\ surf' = AfterKick(S, {}, {})
    BY <1>4 DEF KickLayersDie, Ran
  <2>2. PICK i \in Layer : i \notin S
    BY <2>1
  <2>3. surf'[i] = surf[i]
    BY <1>r, <2>1, <2>2, KickLeaves DEF Left
  <2>4. Checked = Layer
    BY <1>4, <1>r DEF KickLayersDie, Covered, Checked
  <2> QED BY <2>2, <2>3, <2>4, <1>s, <1>g
<1> QED BY <1>1, <1>2, <1>3, <1>4 DEF Hardware

\* Steps that leave surfaces, flags and answer alone and start no new stage.
LEMMA QuietStep ==
    ASSUME RoundInv, UNCHANGED <<run, surf, stamped, pc, late, answer>>, clean' => clean, TypeInv'
    PROVE  RoundInv'
<1>r. /\ Layer' = Layer /\ N' = N /\ Sentinel' = Sentinel /\ Checked' = Checked
      /\ Pool' = Pool /\ LagPool' = LagPool /\ ReadOutside' = ReadOutside /\ Covered' = Covered
  BY RunKept
<1>1. FlagsChecked' /\ StampedBefore' /\ FlagIsTrue'
  BY <1>r DEF RoundInv, FlagsChecked, StampedBefore, FlagIsTrue
<1>2. LagBad' = LagBad /\ KickGood' = KickGood
  BY <1>r DEF LagBad, LagSeen, KickGood, Silent
<1>3. PassedIsGood' /\ DeliveredSoFar' /\ DeliversThisCall'
  BY <1>r, <1>2 DEF RoundInv, PassedIsGood, DeliveredSoFar, DeliversThisCall
<1> QED BY <1>1, <1>3 DEF RoundInv

\* Every step keeps the round.
LEMMA RoundNext == RoundInv /\ [Next]_vars => RoundInv'
<1> SUFFICES ASSUME RoundInv, [Next]_vars PROVE RoundInv'
  OBVIOUS
<1>t. TypeOK /\ TypeInv'
  BY TypeNext DEF RoundInv, TypeInv
<1>k. /\ run' = run /\ Layer' = Layer /\ N' = N /\ Sentinel' = Sentinel /\ Checked' = Checked
      /\ Pool' = Pool /\ LagPool' = LagPool /\ Shared' = Shared
      /\ ReadOutside' = ReadOutside /\ LastCubeOut' = LastCubeOut /\ Covered' = Covered
  <2>1. run' = run
    BY DEF Next, vars, BeginCall, ForeignPoison, Hardware, KickCompletes, KickPoisoned,
           KickRetired, KickLayersDie, Ran, Guard, SubmitFails, WaitTimesOut, LagRedo,
           VerifyGood, VerifyRedo, UncheckedGood, UncheckedRedo, Descatter
  <2> QED BY <2>1, RunKept
<1>r. /\ N \in Checked /\ Checked \subseteq Layer /\ N \in Layer /\ N \notin Pool
      /\ Sentinel \in BOOLEAN /\ LastCubeOut \in BOOLEAN
  BY <1>t, RunShape DEF TypeOK
<1>1. CASE UNCHANGED vars \/ ForeignPoison
  BY <1>1, <1>t, QuietStep DEF vars, ForeignPoison
<1>2. CASE BeginCall
  <2>1. /\ stamped' = stamped /\ clean' = clean /\ pc = "idle" /\ pc' = "submit"
        /\ \A i \in Layer : surf'[i] = IF Sentinel /\ i \in Checked /\ ~stamped[i] THEN "stamp"
                                       ELSE IF surf[i] = "stamp" THEN "stamp" ELSE "stale"
        /\ answer'.rc = "none"
    BY <1>2 DEF BeginCall, None
  <2>2. FlagsChecked'
    BY <1>k, <2>1 DEF RoundInv, FlagsChecked
  <2>3. clean => \A i \in Layer : stamped[i] => surf'[i] = "stamp"
    BY <2>1 DEF RoundInv, FlagIsTrue
  <2>4. StampedBefore' /\ FlagIsTrue'
    BY <1>k, <1>r, <2>1, <2>3 DEF StampedBefore, FlagIsTrue
  <2>5. PassedIsGood' /\ DeliveredSoFar' /\ DeliversThisCall'
    BY <2>1 DEF PassedIsGood, DeliveredSoFar, DeliversThisCall
  <2> QED BY <1>t, <2>2, <2>4, <2>5 DEF RoundInv
<1>3. CASE Hardware
  <2>1. UNCHANGED <<stamped, clean, answer>> /\ pc' = "fence"
    BY <1>3 DEF Hardware, KickCompletes, KickPoisoned, KickRetired, KickLayersDie, Ran
  <2>2. FlagsChecked' /\ StampedBefore' /\ FlagIsTrue' /\ DeliveredSoFar'
    BY <1>k, <2>1 DEF RoundInv, FlagsChecked, StampedBefore, FlagIsTrue, DeliveredSoFar
  <2>3. DeliversThisCall'
    BY <1>k, <2>1 DEF RoundInv, DeliversThisCall
  <2> QED BY <1>t, <1>3, <2>2, <2>3, KickPasses DEF RoundInv
<1>e. ASSUME Return("device"), FlagsChecked', FlagIsTrue' PROVE RoundInv'
  <2>1. pc' = "idle" /\ answer'.rc = "device"
    BY <1>e DEF Return
  <2> QED BY <1>t, <1>e, <2>1 DEF RoundInv, StampedBefore, PassedIsGood, DeliveredSoFar,
                                  DeliversThisCall
<1>a. ASSUME pc' = "submit", UNCHANGED <<answer, clean>>, FlagsChecked', FlagIsTrue',
             StampedBefore'
      PROVE  RoundInv'
  BY <1>t, <1>k, <1>a DEF RoundInv, PassedIsGood, DeliveredSoFar, DeliversThisCall
<1>4. CASE SubmitFails
  <2>1. UNCHANGED <<stamped, surf, clean>> /\ pc = "submit"
    BY <1>4 DEF SubmitFails
  <2>2. FlagsChecked' /\ FlagIsTrue'
    BY <1>k, <2>1 DEF RoundInv, FlagsChecked, FlagIsTrue
  <2> QED BY <1>4, <1>e, <2>2 DEF SubmitFails
<1>5. CASE WaitTimesOut
  <2>1. FlagsChecked' /\ FlagIsTrue'
    BY <1>5, <1>k DEF WaitTimesOut, RoundInv, FlagsChecked, FlagIsTrue
  <2> QED BY <1>5, <1>e, <2>1 DEF WaitTimesOut
<1>6. CASE LagRedo
  <2>1. FlagsChecked'
    BY <1>6, <1>k DEF LagRedo, RoundInv, FlagsChecked
  <2>2. CASE Return("device") /\ clean' = FALSE
    <3>1. FlagIsTrue'
      BY <2>2 DEF FlagIsTrue
    <3> QED BY <2>1, <2>2, <3>1, <1>e
  <2>3. CASE pc' = "submit" /\ RestampChecked /\ UNCHANGED <<answer, clean>>
    <3>1. Sentinel => \A i \in Checked : surf'[i] = "stamp"
      BY <2>3, <1>t, <1>r, StampType DEF RestampChecked
    <3>2. StampedBefore' /\ FlagIsTrue'
      BY <3>1, <2>1, <1>k DEF StampedBefore, FlagIsTrue, FlagsChecked
    <3> QED BY <2>1, <2>3, <3>2, <1>a
  <2> QED BY <1>6, <2>2, <2>3 DEF LagRedo
<1>p. Sentinel => /\ \A i \in Layer : Flags[i] => i \in Checked \ Pool
                  /\ \A i \in Layer \ {N} : Flags[i] => i \in Restamped \/ stamped[i]
                  /\ \A i \in Passed \ ({N} \cup Pool) : Flags[i] => i \in Restamped
  BY <1>t, <1>r, FlagsType DEF RoundInv, FlagsChecked, Passed, Restamped, RestampOk
<1>7. CASE VerifyGood
  <2>1. /\ Sentinel /\ ~LagBad /\ KickGood /\ pc = "fence" /\ pc' = "descatter"
        /\ stamped' = Flags /\ surf' = Stamp(Restamped) /\ UNCHANGED <<clean, answer>>
    BY <1>7 DEF VerifyGood
  <2>2. FlagsChecked'
    BY <2>1, <1>p, <1>k DEF FlagsChecked
  <2>3. Passed = Checked
    BY <2>1 DEF Passed, KickGood
  <2>4. \A i \in Layer \ {N} : stamped'[i] => surf'[i] = "stamp"
    BY <2>1, <2>3, <1>p, <1>t, StampType
  <2>5. ReadOutside \cap Restamped = {} /\ ReadOutside \subseteq Layer
    BY <1>t, <1>r, RunShape DEF ReadOutside, Restamped, RestampOk, TypeOK
  <2>6. clean /\ Covered => \A i \in ReadOutside : surf'[i] = "good"
    BY <2>1, <2>5, <1>t, StampType DEF RoundInv, PassedIsGood
  <2>7. StampedBefore' /\ FlagIsTrue' /\ PassedIsGood' /\ DeliveredSoFar'
    BY <2>1, <2>4, <2>6, <1>k DEF StampedBefore, FlagIsTrue, PassedIsGood, DeliveredSoFar
  <2>8. DeliversThisCall'
    BY <2>1, <1>k DEF RoundInv, DeliversThisCall
  <2> QED BY <1>t, <2>2, <2>7, <2>8 DEF RoundInv
<1>8. CASE VerifyRedo
  <2>1. /\ Sentinel /\ stamped' = Flags /\ surf' = Stamp(Checked) /\ clean' = clean
    BY <1>8 DEF VerifyRedo
  <2>2. FlagsChecked'
    BY <2>1, <1>p, <1>k DEF FlagsChecked
  <2>3. \A i \in Checked : surf'[i] = "stamp"
    BY <2>1, <1>t, <1>r, StampType
  <2>4. StampedBefore' /\ FlagIsTrue'
    BY <2>2, <2>3, <1>k DEF StampedBefore, FlagIsTrue, FlagsChecked
  <2> QED BY <1>8, <2>1, <2>2, <2>4, <1>e, <1>a DEF VerifyRedo
<1>9. CASE UncheckedGood
  <2>1. /\ ~Sentinel /\ pc' = "descatter" /\ UNCHANGED <<stamped, surf, clean, answer>>
    BY <1>9 DEF UncheckedGood
  <2>2. FlagsChecked'
    BY <2>1, <1>k DEF RoundInv, FlagsChecked
  <2>3. StampedBefore' /\ FlagIsTrue' /\ PassedIsGood' /\ DeliveredSoFar'
    BY <2>1, <2>2, <1>k DEF StampedBefore, FlagIsTrue, PassedIsGood, DeliveredSoFar, Covered,
                            FlagsChecked
  <2>4. DeliversThisCall'
    BY <2>1, <1>k DEF RoundInv, DeliversThisCall
  <2> QED BY <1>t, <2>2, <2>3, <2>4 DEF RoundInv
<1>10. CASE UncheckedRedo
  <2>1. /\ ~Sentinel /\ UNCHANGED <<stamped, clean>>
    BY <1>10 DEF UncheckedRedo
  <2>2. FlagsChecked'
    BY <2>1, <1>k DEF RoundInv, FlagsChecked
  <2>3. StampedBefore' /\ FlagIsTrue'
    BY <2>1, <2>2, <1>k DEF StampedBefore, FlagIsTrue, FlagsChecked
  <2> QED BY <1>10, <2>1, <2>2, <2>3, <1>e, <1>a DEF UncheckedRedo
<1>11. CASE Descatter
  <2>1. /\ pc = "descatter" /\ pc' = "idle" /\ clean' = clean
        /\ answer' = [rc |-> "ok", surf |-> surf]
        /\ surf' = IF Sentinel /\ ~LastCubeOut THEN Stamp({N}) ELSE surf
        /\ stamped' = IF Sentinel THEN LastStamped ELSE stamped
    BY <1>11 DEF Descatter, Return
  <2>2. \A i \in Layer : stamped'[i] = IF Sentinel /\ i = N THEN ~LastCubeOut ELSE stamped[i]
    BY <2>1, <1>t DEF LastStamped, TypeOK
  <2>3. \A i \in Layer : surf'[i] = IF Sentinel /\ ~LastCubeOut /\ i = N THEN "stamp" ELSE surf[i]
    BY <2>1, <1>t, StampType
  <2>4. FlagsChecked'
    BY <2>2, <1>k, <1>r DEF RoundInv, FlagsChecked
  <2>5. FlagIsTrue'
    BY <2>1, <2>2, <2>3, <1>k, <1>r DEF RoundInv, FlagsChecked, FlagIsTrue, DeliveredSoFar
  <2>6. DeliversThisCall'
    BY <2>1, <1>k DEF RoundInv, DeliveredSoFar, DeliversThisCall
  <2>7. StampedBefore' /\ PassedIsGood' /\ DeliveredSoFar'
    BY <2>1 DEF StampedBefore, PassedIsGood, DeliveredSoFar
  <2> QED BY <1>t, <2>4, <2>5, <2>6, <2>7 DEF RoundInv
<1> QED BY <1>1, <1>2, <1>3, <1>4, <1>5, <1>6, <1>7, <1>8, <1>9, <1>10, <1>11 DEF Next, Guard

\* A chain is built with no flag up.
LEMMA RoundInit == Init => RoundInv
<1> SUFFICES ASSUME Init PROVE RoundInv
  OBVIOUS
<1>1. pc = "idle" /\ answer.rc = "none" /\ \A i \in Layer : ~stamped[i]
  BY DEF Init, None
<1> QED BY <1>1, TypeInit DEF RoundInv, FlagsChecked, StampedBefore, FlagIsTrue, PassedIsGood,
                              DeliveredSoFar, DeliversThisCall

\* The types of every run; with them, that neither redo budget of
\* rocket_conv2d_int8_chain_run_rk3576 is exceeded.
THEOREM TypesCorrect == Spec => []TypeInv
BY TypeInit, TypeNext, PTL DEF Spec

\* DeliversThisCall of every run, for any layers, wiring and budgets: an OK of
\* rocket_conv2d_int8_chain_run_rk3576 is this call's output.
THEOREM DeliveryCorrect == Spec => []DeliversThisCall
<1>1. RoundInv => DeliversThisCall
  BY DEF RoundInv
<1> QED BY <1>1, RoundInit, RoundNext, PTL DEF Spec

\* FlagIsTrue of every run: a handle's flag never vouches for a surface that
\* does not carry the sentinel.
THEOREM FlagsCorrect == Spec => []FlagIsTrue
<1>1. RoundInv => FlagIsTrue
  BY DEF RoundInv
<1> QED BY <1>1, RoundInit, RoundNext, PTL DEF Spec
=============================================================================
