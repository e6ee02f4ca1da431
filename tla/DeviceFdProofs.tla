-------------------------- MODULE DeviceFdProofs --------------------------
(***************************************************************************)
(* What rocket_open / rocket_close and the transient-BO pool guarantee for *)
(* every number of threads, file descriptors, buffer objects and cores.    *)
(*                                                                         *)
(* The two halves of the state have an inductive invariant each: CountInv  *)
(* for the shared count of open fds, OwnInv for who owns which fd and      *)
(* which BO.  Both rest on the type invariant and on nothing of each       *)
(* other, so each is proved by itself.  The pool's byte count (BytesInv)   *)
(* rests on OwnInv, and on what a fold over a set adds up to.              *)
(***************************************************************************)
EXTENDS DeviceFd, WellOrder

\* From the open() to the close() a thread has an fd.
Opened == {"version", "claim", "refused", "held", "drained"}
HasFd == \A t \in Thread : pc[t] \in Opened => fd[t] \in Fd

\* A thread that opened the node itself never runs rocket_open.
NotInOpen == \A t \in Foreign : pc[t] \notin {"version", "claim", "refused"}

\* The inductive invariant of the types.
TypeInv == TypeOK /\ HasFd /\ NotInOpen

\* The initial state has its types.
LEMMA TypeInit == Init => TypeInv
BY ThreadAssumption DEF Init, TypeOK, Label, TypeInv, HasFd, NotInOpen, Opened

\* Every step keeps them: a pooled BO is filed under the fd of the thread
\* that put it, which is an fd because that thread still has it open.
LEMMA TypeNext == TypeInv /\ [Next]_vars => TypeInv'
<1> USE ThreadAssumption DEF Label, Claimed, Goto, Opened
<1> SUFFICES ASSUME TypeInv, [Next]_vars PROVE TypeInv'
  OBVIOUS
<1>1. CASE UNCHANGED vars
  BY <1>1 DEF TypeInv, HasFd, NotInOpen, TypeOK, vars, kernel, poolvars, locals
<1>2. CASE RebindCores
  BY <1>2 DEF TypeInv, HasFd, NotInOpen, TypeOK, RebindCores, poolvars, locals
<1>3. ASSUME NEW t \in Thread, OpenStep(t) PROVE TypeInv'
  <2>1. CASE OpenNode(t)
    BY <2>1 DEF TypeInv, HasFd, NotInOpen, TypeOK, OpenNode, KernelOpen, poolvars
  <2>2. CASE OpenWrongDriver(t)
    BY <2>2 DEF TypeInv, HasFd, NotInOpen, TypeOK, OpenWrongDriver, KernelClose, poolvars
  <2>3. CASE OpenDecide(t)
    BY <2>3, GuardAssumption, CoresAssumption
    DEF TypeInv, HasFd, NotInOpen, TypeOK, OpenDecide, kernel, poolvars
  <2>4. CASE OpenClaim(t)
    BY <2>4 DEF TypeInv, HasFd, NotInOpen, TypeOK, OpenClaim, kernel, poolvars
  <2>5. CASE OpenRefused(t)
    BY <2>5 DEF TypeInv, HasFd, NotInOpen, TypeOK, OpenRefused, KernelClose, poolvars
  <2>6. CASE OpenForeign(t)
    BY <2>6 DEF TypeInv, HasFd, NotInOpen, TypeOK, OpenForeign, KernelOpen, poolvars
  <2> QED BY <1>3, <2>1, <2>2, <2>3, <2>4, <2>5, <2>6 DEF OpenStep
<1>4. ASSUME NEW t \in Thread, BoStep(t) PROVE TypeInv'
  <2>1. ASSUME NEW s \in Size, BoGetPooled(t, s) PROVE TypeInv'
    BY <2>1 DEF TypeInv, HasFd, NotInOpen, TypeOK, BoGetPooled, Fits, kernel
  <2>2. ASSUME NEW s \in Size, BoGetFresh(t, s) PROVE TypeInv'
    <3>1. pc[t] = "held" /\ fd[t] \in Fd \cup {None} /\ s \in Nat
      BY <2>2, SizeAssumption DEF BoGetFresh, TypeInv, TypeOK
    <3> QED BY <2>2, <3>1 DEF TypeInv, HasFd, NotInOpen, TypeOK, BoGetFresh, poolvars
  <2>3. ASSUME NEW b \in Bo, BoPut(t, b) PROVE TypeInv'
    BY <2>3 DEF TypeInv, HasFd, NotInOpen, TypeOK, BoPut, Freed, poolvars
  <2> QED BY <1>4, <2>1, <2>2, <2>3 DEF BoStep
<1>5. ASSUME NEW t \in Thread, CloseStep(t) PROVE TypeInv'
  <2>1. CASE CloseDrain(t)
    BY <2>1 DEF TypeInv, HasFd, NotInOpen, TypeOK, CloseDrain
  <2>2. CASE CloseNode(t)
    BY <2>2 DEF TypeInv, HasFd, NotInOpen, TypeOK, CloseNode, KernelClose, poolvars
  <2>3. CASE ReleaseLoad(t)
    BY <2>3 DEF TypeInv, HasFd, NotInOpen, TypeOK, ReleaseLoad, kernel, poolvars
  <2>4. CASE ReleaseStop(t)
    BY <2>4 DEF TypeInv, HasFd, NotInOpen, TypeOK, ReleaseStop, ReleaseDone, kernel, poolvars
  <2>5. CASE ReleaseSwap(t)
    BY <2>5 DEF TypeInv, HasFd, NotInOpen, TypeOK, ReleaseSwap, ReleaseDone, AtFloor, kernel, poolvars
  <2>6. CASE ReleaseRetry(t)
    BY <2>6 DEF TypeInv, HasFd, NotInOpen, TypeOK, ReleaseRetry, Reload, kernel, poolvars
  <2> QED BY <1>5, <2>1, <2>2, <2>3, <2>4, <2>5, <2>6 DEF CloseStep
<1> QED BY <1>1, <1>2, <1>3, <1>4, <1>5 DEF Next

\* TypeOK is an invariant of rocket_open / rocket_close and the BO pool.
THEOREM TypeCorrect == Spec => []TypeOK
<1>1. TypeInv => TypeOK
  BY DEF TypeInv
<1> QED BY <1>1, TypeInit, TypeNext, PTL DEF Spec

-----------------------------------------------------------------------------
(***************************************************************************)
(* The count of open fds.  CountMatches is not inductive: a closer that    *)
(* loaded a zero leaves without giving anything back, even if the count    *)
(* has grown since its load.  Such a closer is owed nothing, so what       *)
(* bounds the count is the number of the other claimants.                  *)
(***************************************************************************)
Owed == {t \in Claimants : ~(pc[t] = "relcas" /\ relN[t] = 0)}

\* The count never exceeds what is owed and, with no foreign opener, equals it.
CountInv == /\ count <= Cardinality(Owed)
            /\ Foreign = {} => Owed = Claimants /\ count = Cardinality(Owed)

\* The sets counted are finite, and their sizes are numbers.
LEMMA OwedFinite == /\ IsFiniteSet(Owed) /\ Cardinality(Owed) \in Nat
                    /\ IsFiniteSet(Claimants) /\ Cardinality(Claimants) \in Nat
                    /\ Cardinality(Owed) <= Cardinality(Claimants)
<1>1. Claimants \subseteq Thread /\ Owed \subseteq Claimants
  BY DEF Owed, Claimants
<1> QED BY <1>1, ThreadAssumption, FS_Subset, FS_CardinalityType

\* No fd is open at the start.
LEMMA CountInit == Init => CountInv
<1> SUFFICES ASSUME Init PROVE CountInv
  OBVIOUS
<1>1. Claimants = {} /\ Owed = {} /\ count = 0
  BY DEF Init, Claimants, Owed, Claimed
<1> QED BY <1>1, FS_EmptySet DEF CountInv

\* A step that moves nobody into or out of the two sets keeps CountInv.
LEMMA CountQuiet ==
    ASSUME CountInv, UNCHANGED count, TypeOK, TypeOK',
           \A t \in Thread : /\ pc'[t] \in Claimed <=> pc[t] \in Claimed
                             /\ pc'[t] = "relcas" <=> pc[t] = "relcas"
                             /\ pc'[t] = "relcas" => relN'[t] = relN[t]
    PROVE  CountInv'
<1>1. Claimants' = Claimants
  BY DEF Claimants
<1>2. Owed' = Owed
  BY <1>1 DEF Owed, Claimants
<1> QED BY <1>1, <1>2 DEF CountInv

\* A granted open adds itself to both sets and one to the count.
LEMMA CountClaim ==
    ASSUME TypeInv, TypeInv', CountInv, NEW t \in Thread \ Foreign, OpenClaim(t)
    PROVE  CountInv'
<1> USE DEF Claimed, Goto
<1>1. CASE guarded[t] /\ ~SlotFree
  <2>1. pc' = [pc EXCEPT ![t] = "refused"] /\ pc[t] = "claim"
        /\ relN' = relN /\ count' = count
    BY <1>1 DEF OpenClaim
  <2> QED BY <2>1, CountQuiet DEF TypeInv, TypeOK
<1>2. CASE ~guarded[t] \/ SlotFree
  <2>1. /\ pc' = [pc EXCEPT ![t] = "held"] /\ pc[t] = "claim"
        /\ relN' = relN /\ count' = count + 1
    BY <1>2 DEF OpenClaim, SlotFree
  <2>2. t \notin Claimants /\ t \notin Owed
    BY <2>1 DEF Claimants, Owed
  <2>3. Claimants' = Claimants \cup {t}
    BY <2>1 DEF Claimants, TypeInv, TypeOK
  <2>4. Owed' = Owed \cup {t}
    BY <2>1, <2>3 DEF Owed, Claimants, TypeInv, TypeOK
  <2>5. Cardinality(Owed') = Cardinality(Owed) + 1
    BY <2>2, <2>4, OwedFinite, FS_AddElement
  <2> QED BY <2>1, <2>3, <2>4, <2>5, OwedFinite DEF CountInv, TypeInv, TypeOK
<1> QED BY <1>1, <1>2

\* Loading the count, at first or again, can only take a thread out of the
\* owed ones, and only when there is nothing left to give back.
LEMMA CountReload ==
    ASSUME TypeInv, TypeInv', CountInv, NEW t \in Thread,
           ReleaseLoad(t) \/ ReleaseRetry(t)
    PROVE  CountInv'
<1> USE DEF Claimed, Goto
<1>1. /\ pc' = [pc EXCEPT ![t] = "relcas"] /\ pc[t] \in {"closed", "relcas"}
      /\ relN' = [relN EXCEPT ![t] = count] /\ count' = count
  BY DEF ReleaseLoad, ReleaseRetry, Reload, TypeInv, TypeOK
<1>2. Claimants' = Claimants
  BY <1>1 DEF Claimants, TypeInv, TypeOK
<1>3. CASE count = 0
  <2>1. 0 <= Cardinality(Owed')
    BY OwedFinite, <1>2, ThreadAssumption, FS_Subset, FS_CardinalityType
    DEF Owed, Claimants
  <2>2. ASSUME Foreign = {} PROVE FALSE
    <3>1. t \in Claimants
      BY <1>1, <2>2 DEF Claimants
    <3>2. Cardinality(Claimants) = 0 /\ IsFiniteSet(Claimants)
      BY <1>3, <2>2, OwedFinite DEF CountInv
    <3> QED BY <3>1, <3>2, FS_EmptySet
  <2> QED BY <1>1, <1>3, <2>1, <2>2 DEF CountInv
<1>4. CASE count # 0
  <2>1. \A u \in Claimants : u \in Owed => u \in Owed'
    BY <1>1, <1>2, <1>4 DEF Owed, Claimants, TypeInv, TypeOK
  <2>2. Owed \subseteq Owed' /\ Owed' \subseteq Claimants
    BY <1>2, <2>1 DEF Owed
  <2>3. Cardinality(Owed) <= Cardinality(Owed')
        /\ Cardinality(Owed') \in Nat
    BY <2>2, OwedFinite, FS_Subset, FS_CardinalityType
  <2>4. ASSUME Foreign = {} PROVE Owed' = Claimants /\ Owed' = Owed
    BY <2>2, <2>4 DEF CountInv
  <2> QED BY <1>1, <1>2, <2>3, <2>4, OwedFinite DEF CountInv, TypeInv, TypeOK
<1> QED BY <1>3, <1>4

\* A closer that read zero leaves without touching the count.
LEMMA CountStop ==
    ASSUME TypeInv, TypeInv', CountInv, NEW t \in Thread, ReleaseStop(t)
    PROVE  CountInv'
<1> USE DEF Claimed, Goto
<1>1. /\ pc' = [pc EXCEPT ![t] = "idle"] /\ pc[t] = "relcas" /\ relN[t] = 0
      /\ relN' = [relN EXCEPT ![t] = 0] /\ count' = count
  BY DEF ReleaseStop, ReleaseDone, AtFloor
<1>2. Owed' = Owed
  BY <1>1 DEF Owed, Claimants, TypeInv, TypeOK
<1>3. ASSUME Foreign = {} PROVE FALSE
  BY <1>1, <1>3 DEF CountInv, Owed, Claimants
<1> QED BY <1>1, <1>2, <1>3 DEF CountInv

\* A successful exchange takes one from the count and, unless the fd was
\* foreign, its thread out of both sets.
LEMMA CountSwap ==
    ASSUME TypeInv, TypeInv', CountInv, NEW t \in Thread, ReleaseSwap(t)
    PROVE  CountInv'
<1> USE DEF Claimed, Goto
<1>1. /\ pc' = [pc EXCEPT ![t] = "idle"] /\ pc[t] = "relcas" /\ relN[t] # 0
      /\ relN' = [relN EXCEPT ![t] = 0] /\ count' = count - 1 /\ count \in Nat
  BY DEF ReleaseSwap, ReleaseDone, AtFloor, TypeInv, TypeOK
<1>2. Claimants' = Claimants \ {t} /\ Owed' = Owed \ {t}
  BY <1>1 DEF Owed, Claimants, TypeInv, TypeOK
<1>3. CASE t \in Foreign
  <2>1. t \notin Owed
    BY <1>3 DEF Owed, Claimants
  <2>2. Owed' = Owed
    BY <1>2, <2>1
  <2> QED BY <1>1, <1>3, <2>2, OwedFinite DEF CountInv
<1>4. CASE t \notin Foreign
  <2>1. t \in Owed
    BY <1>1, <1>4 DEF Owed, Claimants
  <2>2. Cardinality(Owed') = Cardinality(Owed) - 1
    BY <1>2, <2>1, OwedFinite, FS_RemoveElement
  <2> QED BY <1>1, <1>2, <2>2, OwedFinite DEF CountInv
<1> QED BY <1>3, <1>4

\* Every step keeps CountInv.
LEMMA CountNext == TypeInv /\ TypeInv' /\ CountInv /\ [Next]_vars => CountInv'
<1> USE DEF Claimed, Goto
<1> SUFFICES ASSUME TypeInv, TypeInv', CountInv, [Next]_vars PROVE CountInv'
  OBVIOUS
<1> USE DEF TypeInv
<1>1. CASE UNCHANGED vars
  BY <1>1, CountQuiet DEF vars, locals
<1>2. CASE RebindCores
  BY <1>2, CountQuiet DEF RebindCores, locals
<1>3. ASSUME NEW t \in Thread, OpenStep(t) PROVE CountInv'
  <2>1. CASE OpenClaim(t)
    <3>1. t \notin Foreign
      BY <2>1 DEF OpenClaim, NotInOpen
    <3> QED BY <2>1, <3>1, CountClaim
  <2>2. CASE OpenForeign(t)
    <3>1. /\ pc' = [pc EXCEPT ![t] = "held"] /\ pc[t] = "idle" /\ t \in Foreign
          /\ relN' = relN /\ count' = count
      BY <2>2 DEF OpenForeign
    <3>2. Claimants' = Claimants /\ Owed' = Owed
      BY <3>1 DEF Claimants, Owed, TypeOK
    <3> QED BY <3>1, <3>2 DEF CountInv
  <2>3. CASE OpenNode(t) \/ OpenWrongDriver(t) \/ OpenDecide(t) \/ OpenRefused(t)
    <3>1. /\ \E l \in {"version", "claim", "idle"} : pc' = [pc EXCEPT ![t] = l]
          /\ pc[t] \in {"idle", "version", "refused"}
          /\ relN' = relN /\ count' = count
      BY <2>3 DEF OpenNode, OpenWrongDriver, OpenDecide, OpenRefused
    <3> QED BY <3>1, CountQuiet DEF TypeOK
  <2> QED BY <1>3, <2>1, <2>2, <2>3 DEF OpenStep
<1>4. ASSUME NEW t \in Thread, BoStep(t) PROVE CountInv'
  <2>1. pc' = pc /\ relN' = relN /\ count' = count
    BY <1>4 DEF BoStep, BoGetPooled, BoGetFresh, BoPut
  <2> QED BY <2>1, CountQuiet
<1>5. ASSUME NEW t \in Thread, CloseStep(t) PROVE CountInv'
  <2>1. CASE CloseDrain(t) \/ CloseNode(t)
    <3>1. /\ \E l \in {"drained", "closed"} : pc' = [pc EXCEPT ![t] = l]
          /\ pc[t] \in {"held", "drained"}
          /\ relN' = relN /\ count' = count
      BY <2>1 DEF CloseDrain, CloseNode
    <3> QED BY <3>1, CountQuiet DEF TypeOK
  <2> QED BY <1>5, <2>1, CountReload, CountStop, CountSwap DEF CloseStep
<1> QED BY <1>1, <1>2, <1>3, <1>4, <1>5 DEF Next

\* CountInv holds in every reachable state.
LEMMA CountAlways == Spec => [](TypeInv /\ CountInv)
BY TypeInit, TypeNext, CountInit, CountNext, PTL DEF Spec

\* The count of open fds never exceeds the fds the library granted, and is
\* their number when only the library opens fds: each rocket_open that
\* returns an fd takes one count and each rocket_close gives back one.
THEOREM CountCorrect == Spec => []CountMatches
<1>1. TypeInv /\ CountInv => CountMatches
  BY OwedFinite DEF TypeInv, TypeOK, CountInv, CountMatches
<1> QED BY <1>1, CountAlways, PTL

\* With no foreign fds a zero count means that nobody holds one.
LEMMA ZeroMeansAlone ==
    ASSUME Foreign = {}, CountInv, count = 0
    PROVE  Claimants = {} /\ \A u \in Thread : pc[u] \notin Claimed
<1>1. IsFiniteSet(Claimants) /\ Cardinality(Claimants) = 0
  BY OwedFinite DEF CountInv
<1> QED BY <1>1, FS_EmptySet DEF Claimants

\* rocket_open under the two-core guard succeeds only for a process that
\* holds no other fd of the device, whatever its threads are doing.
THEOREM GuardCorrect == ASSUME Foreign = {} PROVE Spec => GuardedGrantIsAlone
<1>1. TypeInv /\ CountInv /\ [Next]_vars =>
        [\A t \in Thread :
           (pc[t] = "claim" /\ guarded[t] /\ pc'[t] = "held") =>
              \A u \in Thread \ {t} : pc[u] \notin Claimed]_vars
  <2> SUFFICES ASSUME TypeInv, CountInv, Next, NEW t \in Thread,
                      pc[t] = "claim", guarded[t], pc'[t] = "held"
               PROVE  count = 0
    BY ZeroMeansAlone
  <2> USE DEF Goto, TypeInv, TypeOK
  <2>1. pc' # pc
    OBVIOUS
  <2>2. PICK u \in Thread : OpenStep(u) \/ CloseStep(u)
    BY <2>1 DEF Next, RebindCores, locals, BoStep, BoGetPooled, BoGetFresh, BoPut
  <2>3. u = t
    BY <2>2 DEF OpenStep, CloseStep, OpenNode, OpenWrongDriver, OpenDecide,
       OpenClaim, OpenRefused, OpenForeign, CloseDrain, CloseNode, ReleaseLoad,
       ReleaseStop, ReleaseSwap, ReleaseRetry, ReleaseDone
  <2>4. OpenClaim(t)
    BY <2>2, <2>3 DEF OpenStep, CloseStep, OpenNode, OpenWrongDriver, OpenDecide,
       OpenRefused, OpenForeign, CloseDrain, CloseNode, ReleaseLoad,
       ReleaseStop, ReleaseSwap, ReleaseRetry
  <2> QED BY <2>4 DEF OpenClaim, SlotFree
<1> QED BY <1>1, CountAlways, PTL DEF Spec, GuardedGrantIsAlone

-----------------------------------------------------------------------------
(***************************************************************************)
(* The refinement of OpenGuard.                                            *)
(***************************************************************************)
\* A thread that is not the subject of a step keeps its place.
LEMMA OthersStay ==
    ASSUME TypeInv, NEW t \in Thread, OpenStep(t) \/ CloseStep(t)
    PROVE  \A u \in Thread \ {t} : pc'[u] = pc[u] /\ guarded'[u] = guarded[u]
BY DEF TypeInv, TypeOK, Goto, OpenStep, CloseStep, OpenNode, OpenWrongDriver,
   OpenDecide, OpenClaim, OpenRefused, OpenForeign, CloseDrain, CloseNode,
   ReleaseLoad, ReleaseStop, ReleaseSwap, ReleaseRetry, ReleaseDone

\* Every step of the code is a step of the guard or leaves it alone.
LEMMA GuardStep ==
    ASSUME Foreign = {}, TypeInv, CountInv, [Next]_vars
    PROVE  [Guard!Next]_(Guard!gvars)
<1> USE DEF Guard!gvars, Claimed, Goto, TypeInv, TypeOK
<1>1. CASE UNCHANGED <<pc, guarded>>
  BY <1>1 DEF Claimants
<1>2. ASSUME NEW t \in Thread, OpenStep(t) \/ CloseStep(t),
             (pc[t] \in Claimed <=> pc'[t] \in Claimed),
             pc[t] \in Claimed => guarded'[t] = guarded[t]
      PROVE  UNCHANGED Guard!gvars
  <2>1. Claimants' = Claimants
    BY <1>2, OthersStay DEF Claimants
  <2>2. \A u \in Claimants : guarded'[u] = guarded[u]
    BY <1>2, OthersStay DEF Claimants
  <2> QED BY <2>1, <2>2
<1>3. ASSUME NEW t \in Thread, OpenClaim(t) PROVE [Guard!Next]_(Guard!gvars)
  <2>1. CASE guarded[t] /\ SlotFree
    <3>1. Claimants = {}
      BY <2>1, ZeroMeansAlone DEF SlotFree
    <3>2. /\ pc' = [pc EXCEPT ![t] = "held"] /\ guarded' = guarded
      BY <1>3, <2>1 DEF OpenClaim
    <3>3. Claimants' = {t}
      BY <3>1, <3>2 DEF Claimants
    <3>4. {u \in Claimants : guarded[u]}' = {t}
      BY <3>2, <3>3, <2>1
    <3>5. Guard!GrantExclusive(t)
      BY <3>1, <3>3, <3>4 DEF Guard!GrantExclusive
    <3> QED BY <3>5 DEF Guard!Next
  <2>2. CASE guarded[t] /\ ~SlotFree
    <3>1. pc' = [pc EXCEPT ![t] = "refused"] /\ guarded' = guarded /\ pc[t] = "claim"
      BY <1>3, <2>2 DEF OpenClaim
    <3>2. OpenStep(t)
      BY <1>3 DEF OpenStep
    <3> QED BY <1>2, <3>1, <3>2
  <2>3. CASE ~guarded[t]
    <3>1. pc' = [pc EXCEPT ![t] = "held"] /\ guarded' = guarded /\ pc[t] = "claim"
      BY <1>3, <2>3 DEF OpenClaim
    <3>2. t \notin Claimants /\ Claimants' = Claimants \cup {t}
      BY <3>1 DEF Claimants
    <3>3. {u \in Claimants : guarded[u]}' = {u \in Claimants : guarded[u]}
      BY <2>3, <3>1, <3>2
    <3>4. Guard!GrantShared(t)
      BY <3>2, <3>3 DEF Guard!GrantShared
    <3> QED BY <3>4 DEF Guard!Next
  <2> QED BY <2>1, <2>2, <2>3
<1>4. ASSUME NEW t \in Thread, ReleaseStop(t) \/ ReleaseSwap(t)
      PROVE  [Guard!Next]_(Guard!gvars)
  <2>1. /\ pc' = [pc EXCEPT ![t] = "idle"] /\ pc[t] = "relcas"
        /\ guarded' = [guarded EXCEPT ![t] = FALSE]
    BY <1>4 DEF ReleaseStop, ReleaseSwap, ReleaseDone
  <2>2. t \in Claimants /\ Claimants' = Claimants \ {t}
    BY <2>1 DEF Claimants
  <2>3. {u \in Claimants : guarded[u]}' = {u \in Claimants : guarded[u]} \ {t}
    BY <2>1, <2>2 DEF Claimants
  <2>4. Guard!Return(t)
    BY <2>2, <2>3 DEF Guard!Return
  <2> QED BY <2>4 DEF Guard!Next
<1>5. ASSUME NEW t \in Thread,
             OpenNode(t) \/ OpenWrongDriver(t) \/ OpenDecide(t) \/ OpenRefused(t)
      PROVE  UNCHANGED Guard!gvars
  <2>1. /\ pc[t] \in {"idle", "version", "refused"}
        /\ \E l \in {"version", "claim", "idle"} : pc' = [pc EXCEPT ![t] = l]
    BY <1>5 DEF OpenNode, OpenWrongDriver, OpenDecide, OpenRefused
  <2>2. pc[t] \notin Claimed /\ pc'[t] \notin Claimed
    BY <2>1
  <2>3. OpenStep(t)
    BY <1>5 DEF OpenStep
  <2> QED BY <1>2, <2>2, <2>3
<1>6. ASSUME NEW t \in Thread,
             CloseDrain(t) \/ CloseNode(t) \/ ReleaseLoad(t) \/ ReleaseRetry(t)
      PROVE  UNCHANGED Guard!gvars
  <2>1. /\ pc[t] \in Claimed /\ guarded' = guarded
        /\ pc' = pc \/ \E l \in Claimed : pc' = [pc EXCEPT ![t] = l]
    BY <1>6 DEF CloseDrain, CloseNode, ReleaseLoad, ReleaseRetry
  <2>2. pc'[t] \in Claimed
    BY <2>1
  <2>3. CloseStep(t)
    BY <1>6 DEF CloseStep
  <2> QED BY <1>2, <2>1, <2>2, <2>3
<1>7. ASSUME NEW t \in Thread, OpenStep(t) PROVE [Guard!Next]_(Guard!gvars)
  BY <1>3, <1>5, <1>7 DEF OpenStep, OpenForeign
<1>8. ASSUME NEW t \in Thread, CloseStep(t) PROVE [Guard!Next]_(Guard!gvars)
  BY <1>4, <1>6, <1>8 DEF CloseStep
<1>9. ASSUME NEW t \in Thread, BoStep(t) PROVE UNCHANGED <<pc, guarded>>
  BY <1>9 DEF BoStep, BoGetPooled, BoGetFresh, BoPut
<1>10. ASSUME UNCHANGED vars \/ RebindCores PROVE UNCHANGED <<pc, guarded>>
  BY <1>10 DEF vars, RebindCores, locals
<1> QED BY <1>1, <1>7, <1>8, <1>9, <1>10 DEF Next

\* The open/close code implements the guard it documents, for every number
\* of threads, whenever only the library opens fds of the device.
THEOREM GuardImplemented == ASSUME Foreign = {} PROVE Spec => ImplementsGuard
<1>1. Init => Guard!Init
  BY DEF Init, Guard!Init, Claimants, Claimed
<1>2. TypeInv /\ CountInv /\ [Next]_vars => [Guard!Next]_(Guard!gvars)
  BY GuardStep
<1> QED BY <1>1, <1>2, CountAlways, PTL DEF Spec, ImplementsGuard, Guard!Spec

-----------------------------------------------------------------------------
(***************************************************************************)
(* Who owns what.  PoolSound needs to know why an fd with pooled BOs is    *)
(* open: some thread is between its open and its drain with it, and no     *)
(* other thread has the number.  So whoever closes an fd closes one whose  *)
(* pooled BOs are gone.                                                    *)
(***************************************************************************)
FdsOwned ==
    /\ \A t \in Thread : pc[t] \in Opened => fd[t] \in openFds
    /\ \A t, u \in Thread :
          pc[t] \in Opened /\ pc[u] \in Opened /\ t # u => fd[t] # fd[u]

\* A BO in hand or in the pool is one of a thread that holds its fd, and is in one
\* place only.
BosOwned ==
    /\ \A t \in Thread : \A b \in held[t] : pc[t] = "held" /\ gem[b] = fd[t]
    /\ \A e \in pool : /\ \E t \in Thread : pc[t] = "held" /\ fd[t] = e.fd
                       /\ gem[e.bo] = e.fd
                       /\ \A t \in Thread : e.bo \notin held[t]
    /\ \A e, f \in pool : e.bo = f.bo => e = f

\* The inductive invariant of who owns what.
OwnInv == FdsOwned /\ BosOwned /\ NoBoLost

\* Nothing is owned at the start.
LEMMA OwnInit == Init => OwnInv
BY DEF Init, OwnInv, FdsOwned, BosOwned, NoBoLost, Opened

\* A step that leaves the fds and the BOs alone, and takes nobody into or
\* out of the stretch where they may be used, keeps the invariant.
LEMMA OwnQuiet ==
    ASSUME TypeInv, OwnInv, UNCHANGED <<openFds, gem, pool, fd, held>>,
           \A t \in Thread : /\ pc'[t] \in Opened => pc[t] \in Opened
                             /\ pc[t] = "held" => pc'[t] = "held"
    PROVE  OwnInv'
<1>1. FdsOwned'
  BY DEF OwnInv, FdsOwned
<1>2. BosOwned'
  BY DEF OwnInv, BosOwned
<1>3. NoBoLost'
  BY DEF OwnInv, NoBoLost
<1> QED BY <1>1, <1>2, <1>3 DEF OwnInv

\* An open hands out a number nobody has.
LEMMA OwnOpen ==
    ASSUME TypeInv, OwnInv, NEW t \in Thread, pc[t] = "idle", KernelOpen(t),
           NEW l \in {"version", "held"}, pc' = [pc EXCEPT ![t] = l],
           UNCHANGED <<gem, pool, held>>
    PROVE  OwnInv'
<1> USE DEF TypeInv, TypeOK, Opened
<1>1. PICK n \in Fd \ openFds : openFds' = openFds \cup {n} /\ fd' = [fd EXCEPT ![t] = n]
  BY DEF KernelOpen
<1>2. FdsOwned'
  BY <1>1 DEF OwnInv, FdsOwned
<1>3. BosOwned'
  <2>1. \A u \in Thread : \A b \in held[u] :
           u # t /\ pc'[u] = "held" /\ gem[b] = fd'[u]
    BY <1>1 DEF OwnInv, BosOwned
  <2>2. \A e \in pool : \E u \in Thread : pc'[u] = "held" /\ fd'[u] = e.fd
    <3> SUFFICES ASSUME NEW e \in pool
                 PROVE  \E u \in Thread : pc'[u] = "held" /\ fd'[u] = e.fd
      OBVIOUS
    <3>1. PICK u \in Thread : pc[u] = "held" /\ fd[u] = e.fd
      BY DEF OwnInv, BosOwned
    <3> QED BY <1>1, <3>1
  <2> QED BY <2>1, <2>2 DEF OwnInv, BosOwned
<1>4. NoBoLost'
  BY DEF OwnInv, NoBoLost
<1> QED BY <1>2, <1>3, <1>4 DEF OwnInv

\* A close of an fd that holds no pooled BO destroys nobody's GEM object:
\* its thread holds none, and another fd's are another file's.
LEMMA OwnClose ==
    ASSUME TypeInv, OwnInv, NEW t \in Thread, pc[t] \in Opened \ {"held"},
           KernelClose(t), NEW l \in {"idle", "closed"},
           pc' = [pc EXCEPT ![t] = l], UNCHANGED <<pool, held>>
    PROVE  OwnInv'
<1> USE DEF TypeInv, TypeOK, Opened
<1>1. /\ openFds' = openFds \ {fd[t]}
      /\ gem' = [b \in Bo |-> IF gem[b] = fd[t] THEN None ELSE gem[b]]
      /\ fd' = [fd EXCEPT ![t] = None]
  BY DEF KernelClose
<1>2. \A u \in Thread \ {t} : pc'[u] = pc[u] /\ fd'[u] = fd[u]
  BY <1>1
<1>3. FdsOwned'
  BY <1>1, <1>2 DEF OwnInv, FdsOwned
<1>4. \A u \in Thread : pc[u] = "held" => u # t /\ fd[u] # fd[t]
  BY DEF OwnInv, FdsOwned
<1>5. BosOwned'
  <2>1. \A u \in Thread : \A b \in held[u] :
           b \in Bo /\ pc'[u] = "held" /\ gem'[b] = fd'[u]
    BY <1>1, <1>2, <1>4 DEF OwnInv, BosOwned
  <2>2. \A e \in pool : \E u \in Thread : pc'[u] = "held" /\ fd'[u] = e.fd
    BY <1>2, <1>4 DEF OwnInv, BosOwned
  <2>3. \A e \in pool : gem'[e.bo] = e.fd
    <3> SUFFICES ASSUME NEW e \in pool PROVE gem'[e.bo] = e.fd
      OBVIOUS
    <3>1. PICK u \in Thread : pc[u] = "held" /\ fd[u] = e.fd
      BY DEF OwnInv, BosOwned
    <3>2. e.bo \in Bo /\ gem[e.bo] = e.fd
      BY DEF OwnInv, BosOwned
    <3> QED BY <1>1, <1>4, <3>1, <3>2
  <2> QED BY <2>1, <2>2, <2>3 DEF OwnInv, BosOwned
<1>6. NoBoLost'
  <2>1. \A b \in Bo : gem'[b] # None => gem[b] # None
    BY <1>1
  <2> QED BY <2>1 DEF OwnInv, NoBoLost
<1> QED BY <1>3, <1>5, <1>6 DEF OwnInv

\* Taking a BO out of the pool moves it from the pool to one thread.
LEMMA OwnGetPooled ==
    ASSUME TypeInv, OwnInv, NEW t \in Thread, NEW s \in Size, BoGetPooled(t, s)
    PROVE  OwnInv'
<1> USE DEF TypeInv, TypeOK
<1>1. PICK e \in Fits(t, s) : held' = [held EXCEPT ![t] = @ \cup {e.bo}]
                             /\ pool' = pool \ {e}
  BY DEF BoGetPooled
<1>2. /\ pc[t] = "held" /\ pc' = pc /\ fd' = fd /\ gem' = gem /\ openFds' = openFds
      /\ e \in pool /\ e.fd = fd[t]
  BY DEF BoGetPooled, Fits, kernel
<1>3. FdsOwned'
  BY <1>2 DEF OwnInv, FdsOwned
<1>4. BosOwned'
  <2>1. \A u \in Thread : \A b \in held'[u] : pc[u] = "held" /\ gem[b] = fd[u]
    BY <1>1, <1>2 DEF OwnInv, BosOwned
  <2>2. \A f \in pool' : f.bo # e.bo
    BY <1>1, <1>2 DEF OwnInv, BosOwned
  <2>3. \A f \in pool' : \A u \in Thread : f.bo \notin held'[u]
    BY <1>1, <2>2 DEF OwnInv, BosOwned
  <2> QED BY <1>1, <1>2, <2>1, <2>3 DEF OwnInv, BosOwned
<1>5. NoBoLost'
  <2>1. \A b \in Bo : gem'[b] # None =>
           (\E u \in Thread : b \in held'[u]) \/ (\E f \in pool' : f.bo = b)
    BY <1>1, <1>2 DEF OwnInv, NoBoLost
  <2>2. \A u \in Thread : e.bo \notin held[u]
    BY <1>2 DEF OwnInv, BosOwned
  <2>3. \A u, v \in Thread : u # v => held'[u] \cap held'[v] = {}
    BY <1>1, <2>2 DEF OwnInv, NoBoLost
  <2> QED BY <2>1, <2>3 DEF NoBoLost
<1> QED BY <1>3, <1>4, <1>5 DEF OwnInv

\* A fresh BO is one no thread and no pool entry knew.
LEMMA OwnGetFresh ==
    ASSUME TypeInv, OwnInv, NEW t \in Thread, NEW s \in Size, BoGetFresh(t, s)
    PROVE  OwnInv'
<1> USE DEF TypeInv, TypeOK
<1>1. PICK b \in Bo : /\ gem[b] = None
                      /\ gem' = [gem EXCEPT ![b] = fd[t]]
                      /\ held' = [held EXCEPT ![t] = @ \cup {b}]
  BY DEF BoGetFresh
<1>2. /\ pc[t] = "held" /\ pc' = pc /\ fd' = fd /\ pool' = pool
      /\ openFds' = openFds
  BY DEF BoGetFresh, poolvars
<1>3. FdsOwned'
  BY <1>2 DEF OwnInv, FdsOwned
<1>4. /\ \A u \in Thread : b \notin held[u]
      /\ \A e \in pool : e.bo # b
  <2>1. \A u \in Thread : pc[u] = "held" => fd[u] # None
    BY FdAssumption DEF HasFd, Opened
  <2> QED BY <1>1, <2>1, FdAssumption DEF OwnInv, BosOwned
<1>5. BosOwned'
  <2>1. \A u \in Thread : \A c \in held'[u] : pc[u] = "held" /\ gem'[c] = fd[u]
    BY <1>1, <1>2, <1>4 DEF OwnInv, BosOwned
  <2>2. \A e \in pool : gem'[e.bo] = gem[e.bo]
    BY <1>1, <1>4
  <2>3. \A e \in pool : \A u \in Thread : e.bo \notin held'[u]
    BY <1>1, <1>4 DEF OwnInv, BosOwned
  <2> QED BY <1>2, <2>1, <2>2, <2>3 DEF OwnInv, BosOwned
<1>6. NoBoLost'
  <2>1. \A c \in Bo : gem'[c] # None =>
           (\E u \in Thread : c \in held'[u]) \/ (\E e \in pool' : e.bo = c)
    BY <1>1, <1>2 DEF OwnInv, NoBoLost
  <2>2. \A u, v \in Thread : u # v => held'[u] \cap held'[v] = {}
    BY <1>1, <1>4 DEF OwnInv, NoBoLost
  <2> QED BY <2>1, <2>2 DEF NoBoLost
<1> QED BY <1>3, <1>5, <1>6 DEF OwnInv

\* A put files the BO in the pool or frees it.
LEMMA OwnPut ==
    ASSUME TypeInv, OwnInv, NEW t \in Thread, NEW b \in Bo, BoPut(t, b)
    PROVE  OwnInv'
<1> USE DEF TypeInv, TypeOK
<1>1. /\ pc[t] = "held" /\ b \in held[t] /\ pc' = pc /\ fd' = fd
      /\ openFds' = openFds /\ held' = [held EXCEPT ![t] = @ \ {b}]
  BY DEF BoPut
<1>2. /\ gem[b] = fd[t] /\ \A e \in pool : e.bo # b
      /\ \A u \in Thread : b \notin held'[u]
      /\ \A u \in Thread : held'[u] \subseteq held[u]
  BY <1>1 DEF OwnInv, BosOwned, NoBoLost
<1>3. FdsOwned'
  BY <1>1 DEF OwnInv, FdsOwned
<1>4. CASE PoolTakes(b)
  <2>1. pool' = pool \cup {[fd |-> fd[t], bo |-> b]} /\ gem' = gem
    BY <1>4 DEF BoPut
  <2>2. BosOwned'
    <3>1. \A e \in pool' : \A u \in Thread : e.bo \notin held'[u]
      BY <1>2, <2>1 DEF OwnInv, BosOwned
    <3>2. \A e \in pool' : \E u \in Thread : pc[u] = "held" /\ fd[u] = e.fd
      BY <1>1, <2>1 DEF OwnInv, BosOwned
    <3>3. \A e \in pool' : gem[e.bo] = e.fd
      BY <1>2, <2>1 DEF OwnInv, BosOwned
    <3>4. \A e, f \in pool' : e.bo = f.bo => e = f
      BY <1>2, <2>1 DEF OwnInv, BosOwned
    <3> QED BY <1>1, <1>2, <2>1, <3>1, <3>2, <3>3, <3>4 DEF OwnInv, BosOwned
  <2>3. NoBoLost'
    <3>1. ASSUME NEW c \in Bo, gem'[c] # None
          PROVE  (\E u \in Thread : c \in held'[u]) \/ (\E e \in pool' : e.bo = c)
      <4>1. CASE c = b
        <5>1. [fd |-> fd[t], bo |-> b] \in pool' /\ [fd |-> fd[t], bo |-> b].bo = c
          BY <2>1, <4>1
        <5> QED BY <5>1
      <4>2. CASE c # b
        <5>1. gem[c] # None /\ \A u \in Thread : c \in held[u] => c \in held'[u]
          BY <1>1, <2>1, <3>1, <4>2
        <5> QED BY <2>1, <5>1 DEF OwnInv, NoBoLost
      <4> QED BY <4>1, <4>2
    <3> QED BY <1>2, <3>1 DEF OwnInv, NoBoLost
  <2> QED BY <1>3, <2>2, <2>3 DEF OwnInv
<1>5. CASE ~PoolTakes(b)
  <2>1. pool' = pool /\ gem' = [gem EXCEPT ![b] = None]
    BY <1>5 DEF BoPut, Freed, poolvars
  <2>2. BosOwned'
    BY <1>1, <1>2, <2>1 DEF OwnInv, BosOwned
  <2>3. NoBoLost'
    <3>1. ASSUME NEW c \in Bo, gem'[c] # None
          PROVE  (\E u \in Thread : c \in held'[u]) \/ (\E e \in pool' : e.bo = c)
      <4>1. CASE c = b
        BY <2>1, <3>1, <4>1
      <4>2. CASE c # b
        <5>1. gem[c] # None /\ \A u \in Thread : c \in held[u] => c \in held'[u]
          BY <1>1, <2>1, <3>1, <4>2
        <5> QED BY <2>1, <5>1 DEF OwnInv, NoBoLost
      <4> QED BY <4>1, <4>2
    <3> QED BY <1>2, <3>1 DEF OwnInv, NoBoLost
  <2> QED BY <1>3, <2>2, <2>3 DEF OwnInv
<1> QED BY <1>4, <1>5

\* The drain frees exactly the pooled BOs of the fd about to be closed.
LEMMA OwnDrain ==
    ASSUME TypeInv, OwnInv, NEW t \in Thread, CloseDrain(t)
    PROVE  OwnInv'
<1> USE DEF TypeInv, TypeOK, Opened
<1>1. /\ pc[t] = "held" /\ held[t] = {} /\ pc' = [pc EXCEPT ![t] = "drained"]
      /\ fd' = fd /\ openFds' = openFds /\ held' = held
      /\ pool' = {e \in pool : e.fd # fd[t]}
      /\ gem' = [b \in Bo |-> IF \E e \in Pooled(fd[t]) : e.bo = b
                              THEN None ELSE gem[b]]
  BY DEF CloseDrain, Pooled, Goto
<1>2. FdsOwned'
  BY <1>1 DEF OwnInv, FdsOwned
<1>3. \A e \in pool' : gem'[e.bo] = e.fd
  <2> SUFFICES ASSUME NEW e \in pool' PROVE gem'[e.bo] = e.fd
    OBVIOUS
  <2>1. e \in pool /\ e.fd # fd[t] /\ e.bo \in Bo /\ gem[e.bo] = e.fd
    BY <1>1 DEF OwnInv, BosOwned
  <2>2. \A f \in Pooled(fd[t]) : f.bo # e.bo
    BY <2>1 DEF OwnInv, BosOwned, Pooled
  <2> QED BY <1>1, <2>1, <2>2
<1>4. \A u \in Thread : \A b \in held[u] : u # t /\ gem'[b] = gem[b]
  <2> SUFFICES ASSUME NEW u \in Thread, NEW b \in held[u]
               PROVE  u # t /\ gem'[b] = gem[b]
    OBVIOUS
  <2>1. \A e \in Pooled(fd[t]) : e.bo # b
    BY DEF OwnInv, BosOwned, Pooled
  <2> QED BY <1>1, <2>1
<1>5. \A e \in pool' : \E u \in Thread : pc'[u] = "held" /\ fd'[u] = e.fd
  <2> SUFFICES ASSUME NEW e \in pool'
               PROVE  \E u \in Thread : pc'[u] = "held" /\ fd'[u] = e.fd
    OBVIOUS
  <2>1. PICK u \in Thread : pc[u] = "held" /\ fd[u] = e.fd
    BY <1>1 DEF OwnInv, BosOwned
  <2> QED BY <1>1, <2>1
<1>6. BosOwned'
  <2>1. \A u \in Thread : \A b \in held'[u] : pc'[u] = "held" /\ gem'[b] = fd'[u]
    BY <1>1, <1>4 DEF OwnInv, BosOwned
  <2>2. pool' \subseteq pool
    BY <1>1
  <2>3. \A e \in pool' : \A u \in Thread : e.bo \notin held'[u]
    BY <1>1, <2>2 DEF OwnInv, BosOwned
  <2>4. \A e, f \in pool' : e.bo = f.bo => e = f
    BY <2>2 DEF OwnInv, BosOwned
  <2> QED BY <1>3, <1>5, <2>1, <2>3, <2>4 DEF BosOwned
<1>7. NoBoLost'
  <2>1. ASSUME NEW b \in Bo, gem'[b] # None
        PROVE  (\E u \in Thread : b \in held'[u]) \/ (\E e \in pool' : e.bo = b)
    <3>1. gem[b] # None /\ \A e \in Pooled(fd[t]) : e.bo # b
      BY <1>1, <2>1
    <3>2. \A e \in pool : e.bo = b => e \in pool'
      BY <1>1, <3>1 DEF Pooled
    <3> QED BY <1>1, <3>1, <3>2 DEF OwnInv, NoBoLost
  <2> QED BY <1>1, <2>1 DEF OwnInv, NoBoLost
<1> QED BY <1>2, <1>6, <1>7 DEF OwnInv

\* Every step keeps OwnInv.
LEMMA OwnNext == TypeInv /\ OwnInv /\ [Next]_vars => OwnInv'
<1> SUFFICES ASSUME TypeInv, OwnInv, [Next]_vars PROVE OwnInv'
  OBVIOUS
<1> USE DEF Opened, Goto
<1>1. CASE UNCHANGED vars
  BY <1>1, OwnQuiet DEF vars, kernel, poolvars, locals
<1>2. CASE RebindCores
  BY <1>2, OwnQuiet DEF RebindCores, poolvars, locals
<1>3. ASSUME NEW t \in Thread, OpenStep(t) PROVE OwnInv'
  <2>1. CASE OpenNode(t)
    BY <2>1, OwnOpen DEF OpenNode, poolvars
  <2>2. CASE OpenForeign(t)
    BY <2>2, OwnOpen DEF OpenForeign, poolvars
  <2>3. CASE OpenWrongDriver(t)
    BY <2>3, OwnClose DEF OpenWrongDriver, poolvars
  <2>4. CASE OpenRefused(t)
    BY <2>4, OwnClose DEF OpenRefused, poolvars
  <2>5. CASE OpenDecide(t) \/ OpenClaim(t)
    <3>1. /\ pc[t] \in {"version", "claim"}
          /\ \E l \in {"claim", "held", "refused"} : pc' = [pc EXCEPT ![t] = l]
          /\ UNCHANGED <<openFds, gem, pool, fd, held>>
      BY <2>5 DEF OpenDecide, OpenClaim, kernel, poolvars
    <3> QED BY <3>1, OwnQuiet DEF TypeInv, TypeOK
  <2> QED BY <1>3, <2>1, <2>2, <2>3, <2>4, <2>5 DEF OpenStep
<1>4. ASSUME NEW t \in Thread, BoStep(t) PROVE OwnInv'
  BY <1>4, OwnGetPooled, OwnGetFresh, OwnPut DEF BoStep
<1>5. ASSUME NEW t \in Thread, CloseStep(t) PROVE OwnInv'
  <2>1. CASE CloseDrain(t)
    BY <2>1, OwnDrain
  <2>2. CASE CloseNode(t)
    BY <2>2, OwnClose DEF CloseNode, poolvars
  <2>3. CASE ReleaseLoad(t) \/ ReleaseStop(t) \/ ReleaseSwap(t) \/ ReleaseRetry(t)
    <3>1. /\ pc[t] \in {"closed", "relcas"}
          /\ pc' = pc \/ \E l \in {"relcas", "idle"} : pc' = [pc EXCEPT ![t] = l]
          /\ UNCHANGED <<openFds, gem, pool, fd, held>>
      BY <2>3 DEF ReleaseLoad, ReleaseStop, ReleaseSwap, ReleaseRetry, ReleaseDone,
         kernel, poolvars
    <3> QED BY <3>1, OwnQuiet DEF TypeInv, TypeOK
  <2> QED BY <1>5, <2>1, <2>2, <2>3 DEF CloseStep
<1> QED BY <1>1, <1>2, <1>3, <1>4, <1>5 DEF Next

\* OwnInv holds in every reachable state.
LEMMA OwnAlways == Spec => []OwnInv
BY TypeInit, TypeNext, OwnInit, OwnNext, PTL DEF Spec

\* Every pooled BO is a live GEM object of the file open under the fd number
\* it is filed under, held by nobody and filed once: reusing an fd number
\* never hands out a dead handle.
THEOREM PoolCorrect == Spec => []PoolSound
<1>1. OwnInv => PoolSound
  BY DEF OwnInv, FdsOwned, BosOwned, PoolSound, Opened
<1> QED BY <1>1, OwnAlways, PTL

\* Every live GEM object is held by exactly one thread or is in the pool.
THEOREM NoBoLostCorrect == Spec => []NoBoLost
<1>1. OwnInv => NoBoLost
  BY DEF OwnInv
<1> QED BY <1>1, OwnAlways, PTL

(***************************************************************************)
(* The pool's byte count.                                                  *)
(***************************************************************************)
\* The bytes of S where z has the sizes of the BOs.
BytesOf(S, z) == MapThenSumSet(LAMBDA e : z[e.bo], S)

\* It is what any fold over a larger set makes of S.
LEMMA BytesAreSum ==
    ASSUME NEW T, IsFiniteSet(T), NEW z, \A e \in T : z[e.bo] \in Nat,
           NEW w, \A e \in T : w[e] = z[e.bo], NEW g, AddsUp(g, T, w), NEW S \in SUBSET T
    PROVE  BytesOf(S, z) = g[S]
<1> DEFINE Fold(f) == f = [s \in SUBSET S |-> IF s = {} THEN 0
                             ELSE z[Chosen(s).bo] + f[s \ {Chosen(s)}]]
           v == [e \in S |-> z[e.bo]]
<1>1. BytesOf(S, z) = (CHOOSE f : Fold(f))[S]
  BY DEF BytesOf, MapThenSumSet, MapThenFoldSet, Chosen
<1>2. IsFiniteSet(S) /\ \A e \in S : v[e] \in Nat /\ v[e] = w[e]
  BY FS_Subset
<1>3. ASSUME NEW f PROVE Fold(f) <=> AddsUp(f, S, v)
  <2>1. ASSUME NEW s \in SUBSET S, s # {} PROVE v[Chosen(s)] = z[Chosen(s).bo]
    BY <2>1, ChosenIn
  <2> HIDE DEF v
  <2> QED BY <2>1 DEF AddsUp
<1>4. \E f : AddsUp(f, S, v)
  <2> HIDE DEF v
  <2> QED BY <1>2, SumExists
<1> DEFINE h == CHOOSE f : Fold(f)
<1>5. Fold(h)
  <2> HIDE DEF Fold
  <2> QED BY <1>3, <1>4
<1>6. AddsUp(h, S, v)
  <2> HIDE DEF h
  <2> QED BY <1>3, <1>5
<1> HIDE DEF h, v
<1>7. h[S] = g[S]
  BY <1>2, <1>6, SumUnique
<1> QED BY <1>1, <1>7 DEF h

\* A fold of the bytes of T, to compare the bytes of its subsets by.
LEMMA BytesFold ==
    ASSUME NEW T, IsFiniteSet(T), NEW z, \A e \in T : z[e.bo] \in Nat
    PROVE  \E w, g : /\ \A e \in T : w[e] = z[e.bo] /\ w[e] \in Nat
                     /\ AddsUp(g, T, w)
<1> DEFINE w == [e \in T |-> z[e.bo]]
<1>1. \A e \in T : w[e] = z[e.bo] /\ w[e] \in Nat
  OBVIOUS
<1> HIDE DEF w
<1>2. \E g : AddsUp(g, T, w)
  BY <1>1, SumExists
<1> QED BY <1>1, <1>2

\* A part and the rest add up to the whole.
LEMMA BytesApart ==
    ASSUME NEW T, IsFiniteSet(T), NEW z, \A e \in T : z[e.bo] \in Nat, NEW S \in SUBSET T
    PROVE  /\ BytesOf(T, z) \in Nat /\ BytesOf(S, z) \in Nat /\ BytesOf(T \ S, z) \in Nat
           /\ BytesOf(T, z) = BytesOf(T \ S, z) + BytesOf(S, z)
<1>1. PICK w, g : /\ \A e \in T : w[e] = z[e.bo] /\ w[e] \in Nat
                  /\ AddsUp(g, T, w)
  BY BytesFold
<1>2. \A R \in SUBSET T : BytesOf(R, z) = g[R] /\ g[R] \in Nat
  BY <1>1, BytesAreSum, SumType
<1>3. g[(T \ S) \cup S] = g[T \ S] + g[S]
  <2>1. T \ S \in SUBSET (T \ S)
    OBVIOUS
  <2> QED BY <1>1, <2>1, SumUnion
<1>4. (T \ S) \cup S = T /\ T \in SUBSET T /\ T \ S \in SUBSET T
  OBVIOUS
<1> QED BY <1>2, <1>3, <1>4

\* One BO has the bytes of its size.
LEMMA BytesOne ==
    ASSUME NEW z, NEW e, z[e.bo] \in Nat
    PROVE  BytesOf({e}, z) = z[e.bo]
<1> DEFINE T == {e}
<1>1. IsFiniteSet(T) /\ \A x \in T : z[x.bo] \in Nat
  BY FS_Singleton
<1>2. e \in T /\ T \ {e} = {} /\ T \in SUBSET T /\ {} \in SUBSET T
  OBVIOUS
<1> HIDE DEF T
<1>3. PICK w, g : /\ \A x \in T : w[x] = z[x.bo] /\ w[x] \in Nat
                  /\ AddsUp(g, T, w)
  BY <1>1, BytesFold
<1>4. BytesOf(T, z) = g[T]
  BY <1>1, <1>2, <1>3, BytesAreSum
<1> DEFINE rest == T \ {e}
<1>5. g[T] = w[e] + g[rest]
  <2>1. \A x \in T : w[x] \in Nat
    BY <1>3
  <2>2. AddsUp(g, T, w) /\ IsFiniteSet(T)
    BY <1>1, <1>3
  <2> HIDE DEF rest
  <2>3. \A s \in SUBSET T : \A x \in s : g[s] = w[x] + g[s \ {x}]
    <3> SUFFICES ASSUME NEW s \in SUBSET T, NEW x \in s PROVE g[s] = w[x] + g[s \ {x}]
      OBVIOUS
    <3> QED BY <2>1, <2>2, SumSplit
  <2> QED BY <1>2, <2>3 DEF rest
<1>6. g[rest] = 0
  <2>1. rest = {} /\ rest \in SUBSET T
    BY <1>2
  <2> HIDE DEF rest
  <2> QED BY <1>3, <2>1, SumStep
<1> HIDE DEF rest
<1>7. w[e] = z[e.bo]
  BY <1>2, <1>3
<1>8. BytesOf(T, z) = z[e.bo]
  BY <1>1, <1>2, <1>4, <1>5, <1>6, <1>7
<1> QED BY <1>8 DEF T

\* The sizes of other BOs do not matter.
LEMMA BytesSame ==
    ASSUME NEW T, IsFiniteSet(T), NEW z, NEW y,
           \A e \in T : z[e.bo] \in Nat /\ y[e.bo] = z[e.bo]
    PROVE  BytesOf(T, y) = BytesOf(T, z)
<1>1. PICK w, g : /\ \A e \in T : w[e] = z[e.bo] /\ w[e] \in Nat
                  /\ AddsUp(g, T, w)
  BY BytesFold
<1>2. BytesOf(T, z) = g[T]
  BY <1>1, BytesAreSum
<1>3. (\A e \in T : y[e.bo] \in Nat) /\ (\A e \in T : w[e] = y[e.bo])
  BY <1>1
<1>4. BytesOf(T, y) = g[T]
  BY <1>1, <1>3, BytesAreSum
<1> QED BY <1>2, <1>4

\* The pool is finite, its count is what it holds, and the cap holds.
BytesInv ==
    /\ IsFiniteSet(pool)
    /\ bytes = BytesOf(pool, bosize) /\ bytes \in Nat
    /\ bytes <= PoolCap

\* The pool starts empty.
LEMMA BytesInit == Init => BytesInv
<1> SUFFICES ASSUME Init PROVE BytesInv
  OBVIOUS
<1>1. pool = {} /\ bytes = 0
  BY DEF Init
<1>2. IsFiniteSet(pool)
  BY <1>1, FS_EmptySet
<1>3. \A e \in pool : bosize[e.bo] \in Nat
  BY <1>1
<1>4. pool \in SUBSET pool /\ pool \ pool = pool
  BY <1>1
<1>5. BytesOf(pool, bosize) \in Nat
      /\ BytesOf(pool, bosize) = BytesOf(pool, bosize) + BytesOf(pool, bosize)
  BY <1>2, <1>3, <1>4, BytesApart
<1>6. BytesOf(pool, bosize) = 0
  <2> DEFINE x == BytesOf(pool, bosize)
  <2>1. x \in Nat /\ x = x + x
    BY <1>5
  <2> HIDE DEF x
  <2>2. x = 0
    BY <2>1
  <2> QED BY <2>2 DEF x
<1> QED BY <1>1, <1>2, <1>6, PoolAssumption DEF BytesInv

\* A step that changes neither the pool nor the size of a pooled BO.
LEMMA BytesQuiet ==
    ASSUME TypeInv, BytesInv, UNCHANGED poolvars,
           \A e \in pool : bosize'[e.bo] = bosize[e.bo]
    PROVE  BytesInv'
<1>1. pool' = pool /\ bytes' = bytes
  BY DEF poolvars
<1>2. \A e \in pool : bosize[e.bo] \in Nat
  BY DEF TypeInv, TypeOK
<1>3. BytesOf(pool, bosize') = BytesOf(pool, bosize)
  BY <1>2, BytesSame DEF BytesInv
<1> QED BY <1>1, <1>3 DEF BytesInv

\* A get takes one BO's bytes off the count.
LEMMA BytesGetPooled ==
    ASSUME TypeInv, BytesInv, NEW t \in Thread, NEW s \in Size, BoGetPooled(t, s)
    PROVE  BytesInv'
<1>1. PICK e \in Fits(t, s) : pool' = pool \ {e} /\ bytes' = Discharged(e.bo)
  BY DEF BoGetPooled
<1>2. bosize' = bosize /\ e \in pool /\ bytes' = bytes - bosize[e.bo]
  BY <1>1 DEF BoGetPooled, Fits, kernel, Discharged
<1>3. \A x \in pool : bosize[x.bo] \in Nat
  BY DEF TypeInv, TypeOK
<1>4. /\ BytesOf(pool, bosize) = BytesOf(pool \ {e}, bosize) + BytesOf({e}, bosize)
      /\ BytesOf(pool \ {e}, bosize) \in Nat
  <2>1. {e} \in SUBSET pool
    BY <1>2
  <2> QED BY <1>3, <2>1, BytesApart DEF BytesInv
<1>5. BytesOf({e}, bosize) = bosize[e.bo]
  BY <1>2, <1>3, BytesOne
<1>6. IsFiniteSet(pool')
  BY <1>1, FS_Subset DEF BytesInv
<1>7. bytes' = BytesOf(pool', bosize')
  BY <1>1, <1>2, <1>3, <1>4, <1>5 DEF BytesInv
<1>8. bytes' \in Nat /\ bytes' <= PoolCap
  BY <1>1, <1>2, <1>3, <1>4, <1>5, PoolAssumption DEF BytesInv
<1> QED BY <1>6, <1>7, <1>8 DEF BytesInv

\* A fresh BO is none of the pool's, so its new size changes nothing there.
LEMMA BytesGetFresh ==
    ASSUME TypeInv, OwnInv, BytesInv, NEW t \in Thread, NEW s \in Size, BoGetFresh(t, s)
    PROVE  BytesInv'
<1>1. PICK b \in Bo : gem[b] = None /\ bosize' = [bosize EXCEPT ![b] = s]
  BY DEF BoGetFresh
<1>2. UNCHANGED poolvars
  BY DEF BoGetFresh
<1>3. \A e \in pool : e.bo \in Bo /\ e.bo # b
  BY <1>1, FdAssumption DEF TypeInv, TypeOK, OwnInv, BosOwned
<1>4. \A e \in pool : bosize'[e.bo] = bosize[e.bo]
  BY <1>1, <1>3 DEF TypeInv, TypeOK
<1> QED BY <1>2, <1>4, BytesQuiet

\* A put adds one BO's bytes, when they fit under the cap.
LEMMA BytesPut ==
    ASSUME TypeInv, OwnInv, BytesInv, NEW t \in Thread, NEW b \in Bo, BoPut(t, b)
    PROVE  BytesInv'
<1>1. bosize' = bosize /\ \A e \in pool : bosize[e.bo] \in Nat
  BY DEF BoPut, TypeInv, TypeOK
<1>2. CASE PoolTakes(b)
  <2> DEFINE e == [fd |-> fd[t], bo |-> b]
  <2>1. pool' = pool \cup {e} /\ bytes' = bytes + bosize[b]
    BY <1>2 DEF BoPut
  <2>2. e \notin pool /\ e.bo = b /\ bosize[b] \in Nat
    BY DEF BoPut, TypeInv, TypeOK, OwnInv, BosOwned
  <2> HIDE DEF e
  <2>3. IsFiniteSet(pool')
    BY <2>1, FS_AddElement DEF BytesInv
  <2>4. {e} \in SUBSET pool' /\ pool' \ {e} = pool /\ \A x \in pool' : bosize[x.bo] \in Nat
    BY <1>1, <2>1, <2>2
  <2>5. BytesOf(pool', bosize) = BytesOf(pool, bosize) + BytesOf({e}, bosize)
    BY <2>3, <2>4, BytesApart
  <2>6. BytesOf({e}, bosize) = bosize[b]
    BY <2>2, BytesOne
  <2>7. bytes' = BytesOf(pool', bosize')
    BY <1>1, <2>1, <2>5, <2>6 DEF BytesInv
  <2>8. bytes' \in Nat /\ bytes' <= PoolCap
    BY <1>2, <2>1, <2>2 DEF BytesInv, PoolTakes
  <2> QED BY <2>3, <2>7, <2>8 DEF BytesInv
<1>3. CASE ~PoolTakes(b)
  <2>1. UNCHANGED poolvars
    BY <1>3 DEF BoPut
  <2> QED BY <1>1, <2>1, BytesQuiet
<1> QED BY <1>2, <1>3

\* The drain takes off the bytes of the BOs it frees, all of them at once.
LEMMA BytesDrain ==
    ASSUME TypeInv, BytesInv, NEW t \in Thread, CloseDrain(t)
    PROVE  BytesInv'
<1> DEFINE S == Pooled(fd[t])
<1>1. pool' = pool \ S /\ bosize' = bosize /\ S \in SUBSET pool
  BY DEF CloseDrain, Pooled
<1>2. bytes' = bytes - BytesOf(S, bosize)
  BY DEF CloseDrain, PoolBytes, BytesOf
<1>3. \A x \in pool : bosize[x.bo] \in Nat
  BY DEF TypeInv, TypeOK
<1> HIDE DEF S
<1>4. /\ BytesOf(pool, bosize) = BytesOf(pool \ S, bosize) + BytesOf(S, bosize)
      /\ BytesOf(pool \ S, bosize) \in Nat /\ BytesOf(S, bosize) \in Nat
  BY <1>1, <1>3, BytesApart DEF BytesInv
<1>5. IsFiniteSet(pool')
  BY <1>1, FS_Subset DEF BytesInv
<1>6. bytes' = BytesOf(pool', bosize')
  BY <1>1, <1>2, <1>4 DEF BytesInv
<1>7. bytes' \in Nat /\ bytes' <= PoolCap
  BY <1>2, <1>4, PoolAssumption DEF BytesInv
<1> QED BY <1>5, <1>6, <1>7 DEF BytesInv

\* Every step keeps BytesInv.
LEMMA BytesNext == TypeInv /\ OwnInv /\ BytesInv /\ [Next]_vars => BytesInv'
<1> SUFFICES ASSUME TypeInv, OwnInv, BytesInv, [Next]_vars PROVE BytesInv'
  OBVIOUS
<1>1. CASE UNCHANGED vars \/ RebindCores
  <2>1. UNCHANGED poolvars /\ bosize' = bosize
    BY <1>1 DEF vars, kernel, RebindCores
  <2> QED BY <2>1, BytesQuiet
<1>2. ASSUME NEW t \in Thread, OpenStep(t) PROVE BytesInv'
  <2>1. UNCHANGED poolvars /\ bosize' = bosize
    BY <1>2 DEF OpenStep, OpenNode, OpenWrongDriver, OpenDecide, OpenClaim, OpenRefused,
       OpenForeign, kernel
  <2> QED BY <2>1, BytesQuiet
<1>3. ASSUME NEW t \in Thread, BoStep(t) PROVE BytesInv'
  BY <1>3, BytesGetPooled, BytesGetFresh, BytesPut DEF BoStep
<1>4. ASSUME NEW t \in Thread, CloseStep(t) PROVE BytesInv'
  <2>1. CASE CloseDrain(t)
    BY <2>1, BytesDrain
  <2>2. CASE CloseNode(t) \/ ReleaseLoad(t) \/ ReleaseStop(t) \/ ReleaseSwap(t)
             \/ ReleaseRetry(t)
    <3>1. UNCHANGED poolvars /\ bosize' = bosize
      BY <2>2 DEF CloseNode, ReleaseLoad, ReleaseStop, ReleaseSwap, ReleaseRetry, ReleaseDone,
         kernel
    <3> QED BY <3>1, BytesQuiet
  <2> QED BY <1>4, <2>1, <2>2 DEF CloseStep
<1> QED BY <1>1, <1>2, <1>3, <1>4 DEF Next

\* The byte count is the sum of the sizes the pool holds, through every get,
\* put and drain, so ROCKET_RK3576_BO_POOL_MB caps the pooled memory.
THEOREM PoolAccountedCorrect == Spec => []PoolAccounted
<1>1. BytesInv => PoolAccounted
  BY DEF BytesInv, PoolAccounted, PoolBytes, BytesOf
<1> QED BY <1>1, TypeInit, TypeNext, OwnInit, OwnNext, BytesInit, BytesNext, PTL DEF Spec
=============================================================================
