------------------------------ MODULE DeviceFd ------------------------------
(***************************************************************************)
(* The device file descriptors of one process and what hangs off them:     *)
(* rocket_open / rocket_close with the RK3576 two-core guard               *)
(* (rocket_npu.c), and the transient-BO pool that keeps freed buffer       *)
(* objects on a free list keyed by fd NUMBER and size                      *)
(* (rocket_matmul_rk3576.c).  Every thread runs its own open ... close     *)
(* sequence; each step below is one atomic operation of the C code, one    *)
(* system call, or one critical section of the pool's mutex.               *)
(***************************************************************************)
EXTENDS Integers, FiniteSets, FiniteSetsExt

CONSTANTS Thread,     \* threads of the process
          Foreign,    \* threads that close an fd the library did not open
          Fd,         \* fd numbers the kernel may hand out (a subset of Nat)
          Bo,         \* GEM objects that can exist at a time
          Size,       \* BO sizes (a subset of Nat)
          Cores,      \* core counts sysfs may report as bound
          Guardable,  \* RK3576 without ROCKET_RK3576_ALLOW_MULTI_FD
          PoolSlots,  \* R76_BO_POOL_SLOTS, 0 when the pool is switched off
          PoolCap,    \* ROCKET_RK3576_BO_POOL_MB in bytes
          None

ASSUME ThreadAssumption == IsFiniteSet(Thread) /\ Foreign \subseteq Thread
ASSUME FdAssumption == Fd \subseteq Nat /\ None \notin Fd
ASSUME SizeAssumption == Size \subseteq Nat \ {0}
ASSUME CoresAssumption == Cores \subseteq Nat
ASSUME PoolAssumption == PoolSlots \in Nat /\ PoolCap \in Nat
ASSUME GuardAssumption == Guardable \in BOOLEAN

VARIABLES
    cores,    \* what rocket_sysfs_bound_core_count() reads now
    openFds,  \* kernel: fd numbers with the device open
    gem,      \* kernel: gem[b] = the fd whose file owns b, None if b is free
    bosize,   \* bosize[b] = the size b was created with
    count,    \* rocket_open_fds
    pool,     \* g_r76_bo_pool: the occupied slots
    bytes,    \* g_r76_bo_pool_bytes
    pc,       \* pc[t]: where t is in its open ... close sequence
    fd,       \* fd[t]: the fd t is working on
    guarded,  \* guarded[t]: rocket_open's local of that name
    relN,     \* relN[t]: the count rocket_open_fds_release() last loaded
    held      \* held[t]: BOs t got and has not put back

kernel == <<cores, openFds, gem, bosize>>
poolvars == <<pool, bytes>>
locals == <<pc, fd, guarded, relN, held>>
vars == <<kernel, count, poolvars, locals>>

\* An fd is usable from the grant to the close(); its count is given back
\* only after that.
Claimed == {"held", "drained", "closed", "relcas"}
Label == {"idle", "version", "claim", "refused"} \cup Claimed

Init ==
    /\ cores \in Cores
    /\ openFds = {}
    /\ gem = [b \in Bo |-> None]
    /\ bosize = [b \in Bo |-> 0]
    /\ count = 0
    /\ pool = {}
    /\ bytes = 0
    /\ pc = [t \in Thread |-> "idle"]
    /\ fd = [t \in Thread |-> None]
    /\ guarded = [t \in Thread |-> FALSE]
    /\ relN = [t \in Thread |-> 0]
    /\ held = [t \in Thread |-> {}]

Goto(t, l) == pc' = [pc EXCEPT ![t] = l]

(***************************************************************************)
(* The kernel: an open takes the lowest free number, a close destroys the  *)
(* GEM objects of the file, and a core can be bound or unbound through     *)
(* sysfs at any time.                                                      *)
(***************************************************************************)
KernelOpen(t) ==
    \E n \in Fd \ openFds :
        /\ \A m \in Fd \ openFds : n <= m
        /\ openFds' = openFds \cup {n}
        /\ fd' = [fd EXCEPT ![t] = n]

KernelClose(t) ==
    /\ openFds' = openFds \ {fd[t]}
    /\ gem' = [b \in Bo |-> IF gem[b] = fd[t] THEN None ELSE gem[b]]
    /\ fd' = [fd EXCEPT ![t] = None]

RebindCores ==
    /\ cores' \in Cores \ {cores}
    /\ UNCHANGED <<openFds, gem, bosize, count, poolvars, locals>>

(***************************************************************************)
(* rocket_open                                                             *)
(***************************************************************************)
OpenNode(t) ==
    /\ pc[t] = "idle" /\ t \notin Foreign
    /\ KernelOpen(t)
    /\ Goto(t, "version")
    /\ UNCHANGED <<cores, gem, bosize, count, poolvars, guarded, relN, held>>

\* DRM_IOCTL_VERSION failed, or the driver is not "rocket": close and return.
OpenWrongDriver(t) ==
    /\ pc[t] = "version"
    /\ KernelClose(t)
    /\ Goto(t, "idle")
    /\ UNCHANGED <<cores, bosize, count, poolvars, guarded, relN, held>>

\* The bound cores are counted here, and the answer used one step later.
OpenDecide(t) ==
    /\ pc[t] = "version"
    /\ guarded' = [guarded EXCEPT ![t] = Guardable /\ cores > 1]
    /\ Goto(t, "claim")
    /\ UNCHANGED <<kernel, count, poolvars, fd, relN, held>>

\* atomic_compare_exchange_strong(&rocket_open_fds, 0, 1) under the guard,
\* atomic_fetch_add otherwise.  (Seeded fault: one fd too many passes.)
SlotFreeOffByOne == count <= 1
SlotFree == count = 0

OpenClaim(t) ==
    /\ pc[t] = "claim"
    /\ \/ /\ guarded[t] /\ SlotFree
          /\ count' = 1
          /\ Goto(t, "held")
       \/ /\ guarded[t] /\ ~SlotFree
          /\ Goto(t, "refused")
          /\ UNCHANGED count
       \/ /\ ~guarded[t]
          /\ count' = count + 1
          /\ Goto(t, "held")
    /\ UNCHANGED <<kernel, poolvars, fd, guarded, relN, held>>

\* The refused open closes its fd and returns -EBUSY.
OpenRefused(t) ==
    /\ pc[t] = "refused"
    /\ KernelClose(t)
    /\ Goto(t, "idle")
    /\ guarded' = [guarded EXCEPT ![t] = FALSE]
    /\ UNCHANGED <<cores, bosize, count, poolvars, relN, held>>

\* A caller that opened the node itself and will hand the fd to rocket_close.
OpenForeign(t) ==
    /\ pc[t] = "idle" /\ t \in Foreign
    /\ KernelOpen(t)
    /\ Goto(t, "held")
    /\ UNCHANGED <<cores, gem, bosize, count, poolvars, guarded, relN, held>>

(***************************************************************************)
(* The transient-BO pool: r76_bo_get, r76_bo_put, the drain                *)
(***************************************************************************)
Fits(t, s) == {e \in pool : e.fd = fd[t] /\ bosize[e.bo] >= s}

\* The pool's byte count without b.  (Seeded fault: it is not given back.)
NotDischarged(b) == bytes
Discharged(b) == bytes - bosize[b]

\* The smallest pooled BO of this fd that covers the request.
BoGetPooled(t, s) ==
    /\ pc[t] = "held"
    /\ \E e \in Fits(t, s) :
        /\ \A f \in Fits(t, s) : bosize[e.bo] <= bosize[f.bo]
        /\ held' = [held EXCEPT ![t] = @ \cup {e.bo}]
        /\ pool' = pool \ {e}
        /\ bytes' = Discharged(e.bo)
    /\ UNCHANGED <<kernel, count, pc, fd, guarded, relN>>

\* A miss falls through to rocket_bo_alloc32 on the caller's own file, which
\* reads nothing the pool's mutex protects.
BoGetFresh(t, s) ==
    /\ pc[t] = "held"
    /\ Fits(t, s) = {}
    /\ \E b \in Bo :
        /\ gem[b] = None
        /\ gem' = [gem EXCEPT ![b] = fd[t]]
        /\ bosize' = [bosize EXCEPT ![b] = s]
        /\ held' = [held EXCEPT ![t] = @ \cup {b}]
    /\ UNCHANGED <<cores, openFds, count, poolvars, pc, fd, guarded, relN>>

PoolTakes(b) == bytes + bosize[b] <= PoolCap /\ Cardinality(pool) < PoolSlots

\* rocket_bo_free.  (Seeded fault: a BO the pool does not take is dropped.)
NotFreed(b) == [gem EXCEPT ![b] = gem[b]]
Freed(b) == [gem EXCEPT ![b] = None]

BoPut(t, b) ==
    /\ pc[t] = "held" /\ b \in held[t]
    /\ held' = [held EXCEPT ![t] = @ \ {b}]
    /\ \/ /\ PoolTakes(b)
          /\ pool' = pool \cup {[fd |-> fd[t], bo |-> b]}
          /\ bytes' = bytes + bosize[b]
          /\ UNCHANGED gem
       \/ /\ ~PoolTakes(b)
          /\ gem' = Freed(b)
          /\ UNCHANGED poolvars
    /\ UNCHANGED <<cores, openFds, bosize, count, pc, fd, guarded, relN>>

\* What the drain takes out.  (Seeded fault: rocket_close does not drain.)
NothingPooled(n) == {e \in pool : e.fd = n /\ e.fd \notin Fd}
Pooled(n) == {e \in pool : e.fd = n}
PoolBytes(S) == MapThenSumSet(LAMBDA e : bosize[e.bo], S)

(***************************************************************************)
(* rocket_close: drain the pool of this fd, close it, give the count back. *)
(* A caller closes only after it put its BOs back.                         *)
(***************************************************************************)
CloseDrain(t) ==
    /\ pc[t] = "held" /\ held[t] = {}
    /\ pool' = pool \ Pooled(fd[t])
    /\ bytes' = bytes - PoolBytes(Pooled(fd[t]))
    /\ gem' = [b \in Bo |-> IF \E e \in Pooled(fd[t]) : e.bo = b
                            THEN None ELSE gem[b]]
    /\ Goto(t, "drained")
    /\ UNCHANGED <<cores, openFds, bosize, count, fd, guarded, relN, held>>

CloseNode(t) ==
    /\ pc[t] = "drained"
    /\ KernelClose(t)
    /\ Goto(t, "closed")
    /\ UNCHANGED <<cores, bosize, count, poolvars, guarded, relN, held>>

\* (Seeded faults: the loop does not stop at zero; a failed exchange does
\* not reload.)
NoFloor(n) == n < 0
AtFloor(n) == n = 0
StaleReload(t) == relN
Reload(t) == [relN EXCEPT ![t] = count]

\* rocket_open_fds_release: load, then a compare-and-exchange loop that
\* stops at zero.  A failed exchange (a spurious one too) reloads.
ReleaseLoad(t) ==
    /\ pc[t] = "closed"
    /\ relN' = [relN EXCEPT ![t] = count]
    /\ Goto(t, "relcas")
    /\ UNCHANGED <<kernel, count, poolvars, fd, guarded, held>>

ReleaseDone(t) ==
    /\ Goto(t, "idle")
    /\ guarded' = [guarded EXCEPT ![t] = FALSE]
    /\ relN' = [relN EXCEPT ![t] = 0]
    /\ UNCHANGED <<kernel, poolvars, fd, held>>

ReleaseStop(t) ==
    /\ pc[t] = "relcas" /\ AtFloor(relN[t])
    /\ UNCHANGED count
    /\ ReleaseDone(t)

ReleaseSwap(t) ==
    /\ pc[t] = "relcas" /\ ~AtFloor(relN[t]) /\ count = relN[t]
    /\ count' = relN[t] - 1
    /\ ReleaseDone(t)

ReleaseRetry(t) ==
    /\ pc[t] = "relcas" /\ ~AtFloor(relN[t])
    /\ relN' = Reload(t)
    /\ UNCHANGED <<kernel, count, poolvars, pc, fd, guarded, held>>

OpenStep(t) == \/ OpenNode(t) \/ OpenWrongDriver(t) \/ OpenDecide(t)
               \/ OpenClaim(t) \/ OpenRefused(t) \/ OpenForeign(t)
BoStep(t) == \/ \E s \in Size : BoGetPooled(t, s) \/ BoGetFresh(t, s)
             \/ \E b \in Bo : BoPut(t, b)
CloseStep(t) == \/ CloseDrain(t) \/ CloseNode(t) \/ ReleaseLoad(t)
                \/ ReleaseStop(t) \/ ReleaseSwap(t) \/ ReleaseRetry(t)

Next == RebindCores \/ \E t \in Thread : OpenStep(t) \/ BoStep(t) \/ CloseStep(t)

\* A thread inside rocket_open or rocket_close runs on; the retry of the
\* release loop needs strong fairness of the successful exchange, because
\* other threads may change the count between its load and its exchange.
Fairness ==
    \A t \in Thread :
        /\ WF_vars(OpenWrongDriver(t) \/ OpenDecide(t))
        /\ WF_vars(OpenClaim(t)) /\ WF_vars(OpenRefused(t))
        /\ WF_vars(CloseNode(t)) /\ WF_vars(ReleaseLoad(t))
        /\ WF_vars(ReleaseStop(t)) /\ WF_vars(ReleaseRetry(t))
        /\ SF_vars(ReleaseSwap(t))

Spec == Init /\ [][Next]_vars /\ Fairness

-----------------------------------------------------------------------------
\* The types of the state; what bytes counts is PoolAccounted.
TypeOK ==
    /\ cores \in Cores
    /\ openFds \subseteq Fd
    /\ gem \in [Bo -> Fd \cup {None}]
    /\ bosize \in [Bo -> Nat]
    /\ count \in Nat
    /\ pool \subseteq [fd : Fd, bo : Bo]
    /\ pc \in [Thread -> Label]
    /\ fd \in [Thread -> Fd \cup {None}]
    /\ guarded \in [Thread -> BOOLEAN]
    /\ relN \in [Thread -> Nat]
    /\ held \in [Thread -> SUBSET Bo]

Claimants == {t \in Thread \ Foreign : pc[t] \in Claimed}

\* "Every fd this returns holds exactly one count, and rocket_close() gives
\* back exactly one."  A close of an fd the library did not open can only
\* take the count below the number of fds held, never below zero and never
\* above it: once every fd is closed the count is zero and the next guarded
\* open is granted.
CountMatches ==
    /\ 0 <= count /\ count <= Cardinality(Claimants)
    /\ Foreign = {} => count = Cardinality(Claimants)

\* A guarded open is granted only while no other thread can use an fd of the
\* device: the load and the increment are one step, so two racing opens
\* cannot both see zero.
GuardedGrantIsAlone ==
    [][\A t \in Thread :
         (pc[t] = "claim" /\ guarded[t] /\ pc'[t] = "held") =>
             \A u \in Thread \ {t} : pc[u] \notin Claimed]_vars

\* Every BO in the pool is a live GEM object of the file open under the fd
\* number it is filed under, and nobody else holds it: the pool is drained
\* before close() destroys the handles, so the next fd that lands on the
\* number is never handed a dead one.
PoolSound ==
    /\ \A e \in pool : /\ e.fd \in openFds
                       /\ gem[e.bo] = e.fd
                       /\ \A t \in Thread : e.bo \notin held[t]
    /\ \A e, f \in pool : e.bo = f.bo => e = f

\* The byte count is what the pool holds, through every get, put and drain,
\* so the cap ROCKET_RK3576_BO_POOL_MB sets is a cap on pooled memory.
PoolAccounted ==
    /\ bytes = PoolBytes(pool)
    /\ bytes <= PoolCap

\* No GEM object is lost: a live one is in the hands of exactly one thread
\* or in the pool.
NoBoLost ==
    /\ \A b \in Bo : gem[b] # None =>
           (\E t \in Thread : b \in held[t]) \/ (\E e \in pool : e.bo = b)
    /\ \A t, u \in Thread : t # u => held[t] \cap held[u] = {}

\* rocket_close returns: a thread that started giving its count back gets
\* out of the exchange loop.
CloseReturns == \A t \in Thread : pc[t] = "drained" ~> pc[t] = "idle"

Guard == INSTANCE OpenGuard WITH
             holders <- Claimants,
             exclusive <- {t \in Claimants : guarded[t]}

\* The open/close code implements the guard it documents.
ImplementsGuard == Guard!Spec
=============================================================================
