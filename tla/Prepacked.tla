----------------------------- MODULE Prepacked -----------------------------
(***************************************************************************)
(* Resident and streamed fp16 weights (rocket_prepacked.c) over the shared *)
(* per-shape scratch cache and the worker fan-out (rocket_fanout.c).       *)
(*                                                                         *)
(* A context owns one fd per worker and a cache of scratches, one per      *)
(* (M, N, split).  A resident weight owns one buffer per worker and        *)
(* borrows the scratch of the call it serves: each worker points the       *)
(* scratch's wt_all at the weight, computes and puts its own buffer back.  *)
(* A scratch may be recycled while weights packed against it live on.      *)
(*                                                                         *)
(* Rows are counted in units of 4 and columns in units of 16, the slice    *)
(* granularities; K is fixed.  Of the many buffers of a scratch only       *)
(* wt_all is kept, the others live and die with it (mm_bos_alloc,          *)
(* mm_bos_free).  A buffer's content is the matrix scattered into it and   *)
(* the signature of the layout it was scattered by.                        *)
(***************************************************************************)
EXTENDS SlotCache, FiniteSets, FiniteSetsExt

CONSTANTS Name,       \* weight matrices the caller holds
          NThreads,   \* worker fds of the context
          Key,        \* shapes the caller uses: [m, n, split]
          MaxTile,    \* hw->max_tile, in row units
          KtAt,       \* KtAt[mt][nsub]: the K tile the planner picks
          MaxUses     \* bound on the cache clock

ASSUME PrepackedAssumption ==
    /\ NThreads \in Nat \ {0} /\ MaxTile \in Nat \ {0} /\ MaxUses \in Nat
    /\ Key \subseteq [m : Nat \ {0}, n : Nat \ {0}, split : BOOLEAN]
    /\ \A mt \in 1 .. MaxTile : \A k \in Key : \A s \in 1 .. k.n : KtAt[mt][s] \in Nat

Worker == 1 .. NThreads
NoCall == [op |-> "none"]
NoWeight == [nt |-> 0]
Zero == [src |-> "zero", sig |-> <<>>]
Zeroed(T) == [t \in T |-> Zero]

VARIABLES
    fds,      \* worker fds that are open
    canon,    \* ROCKET_CTX_TILING_CANONICAL
    heap,     \* heap[t]: the live buffers on fd t, handle -> content
    cache, clock,   \* the slot cache
    lastUse,  \* history: when each key was last asked for
    wts,      \* wts[a]: the resident weight packed from a, or NoWeight
    call,     \* the one call in flight
    pc,       \* the calling thread
    at,       \* cache entry the call resolved, or is filling
    next,     \* fan-out: worker to spawn, or to run inline
    wpc,      \* wpc[t]: where worker t of the call is
    saved,    \* saved[t]: the scratch's own wt_all while it is swapped out
    ret,      \* ret[t]: worker t's result
    C         \* C[<<row, column>>]: the matrix that cell was computed from

ctxvars == <<fds, canon>>
cachevars == <<cache, clock, lastUse>>
fanvars == <<next, wpc, saved, ret, C>>
vars == <<ctxvars, heap, cachevars, wts, call, pc, at, fanvars>>

Cells(k) == (1 .. k.m) \X (1 .. k.n)

--------------------------------------------------------------------------
\* Buffers.  The kernel hands out the lowest free handle of an fd.
LowFree(h, t) == Min((1 .. Cardinality(DOMAIN h[t]) + 1) \ DOMAIN h[t])
AllocOn(h, c) ==
    [t \in Worker |->
        IF t \in DOMAIN c
        THEN [x \in DOMAIN h[t] \cup {LowFree(h, t)} |->
                 IF x = LowFree(h, t) THEN c[t] ELSE h[t][x]]
        ELSE h[t]]
FreeOn(h, T, b) ==
    [t \in Worker |-> IF t \in T THEN [x \in DOMAIN h[t] \ {b[t]} |-> h[t][x]] ELSE h[t]]
Fresh(h) == [t \in Worker |-> LowFree(h, t)]

--------------------------------------------------------------------------
NStep(n) == (n + NThreads - 1) \div NThreads

\* Worker t's slice of a scratch for k, and the K tile it plans.
Slice(k, t) ==
    LET step == NStep(IF k.split THEN k.m ELSE k.n)
        lo   == (t - 1) * step
        len(x) == IF lo + step > x THEN x - lo ELSE step
        m    == IF k.split THEN len(k.m) ELSE k.m
        n    == IF k.split THEN k.n ELSE len(k.n)
        tile == IF (canon /\ ~k.split) \/ m > MaxTile THEN MaxTile ELSE m
    IN  [n0 |-> IF k.split THEN 0 ELSE lo, nsub |-> n,
         m0 |-> IF k.split THEN lo ELSE 0, msub |-> m, kt |-> KtAt[tile][n]]

Slices(k) ==
    LET dim == IF k.split THEN k.m ELSE k.n
    IN  Cardinality({t \in Worker : (t - 1) * NStep(dim) < dim})

Scratch(k, h) ==
    [key |-> k, nt |-> Slices(k),
     w |-> [t \in 1 .. Slices(k) |-> Slice(k, t)], wt |-> [t \in 1 .. Slices(k) |-> Fresh(h)[t]]]

Sig(s, t) == <<s.w[t].n0, s.w[t].nsub, s.w[t].kt>>
Sc == cache[at].slot
CallKey == [m |-> call.m, n |-> call.n, split |-> call.split]

\* (Seeded fault: only the shape is compared, not the tiling.)
FitsShape(w, s) == w.n = s.key.n /\ w.nt = s.nt
\* weights_fit_scratch
Fits(w, s) == /\ w.n = s.key.n /\ w.nt = s.nt
              /\ \A t \in 1 .. s.nt : w.sig[t] = Sig(s, t)

--------------------------------------------------------------------------
Init ==
    /\ fds = {} /\ canon \in BOOLEAN
    /\ heap = [t \in Worker |-> <<>>]
    /\ cache = <<>> /\ clock = 0 /\ lastUse = [k \in Key |-> 0]
    /\ wts = [a \in Name |-> NoWeight]
    /\ call = NoCall /\ pc = "down" /\ at = 0
    /\ next = 1 /\ wpc = [t \in Worker |-> "none"] /\ saved = [t \in Worker |-> 0]
    /\ ret = [t \in Worker |-> 0] /\ C = <<>>

\* What rocket_ctx_create_ex closes, and scratch_alloc frees, when worker t fails.
Unwound(t) == 1 .. t - 1

\* rocket_ctx_create_ex: when worker t does not open, the fds before it close.
CtxCreate ==
    /\ pc = "down"
    /\ \/ fds' = Worker /\ pc' = "idle"
       \/ \E t \in Worker : fds' = (1 .. t - 1) \ Unwound(t) /\ UNCHANGED pc
    /\ UNCHANGED <<canon, heap, cachevars, wts, call, at, fanvars>>

\* rocket_ctx_free, once every weight is freed: the scratches, then the fds.
CtxFree ==
    /\ pc = "idle" /\ \A a \in Name : wts[a] = NoWeight
    /\ heap' = [t \in Worker |->
                  [x \in DOMAIN heap[t] \ {cache[j].slot.wt[t] : j \in
                       {h \in DOMAIN cache : t <= cache[h].slot.nt}} |-> heap[t][x]]]
    /\ cache' = <<>> /\ fds' = {} /\ pc' = "freed"
    /\ UNCHANGED <<canon, clock, lastUse, wts, call, at, fanvars>>

\* A call returns, and what it kept on its stack is gone.
Leave == /\ pc' = "idle" /\ call' = NoCall /\ at' = 0
         /\ next' = 1 /\ wpc' = [t \in Worker |-> "none"] /\ saved' = [t \in Worker |-> 0]
         /\ ret' = [t \in Worker |-> 0] /\ C' = <<>>

Begin(op, a, k) ==
    /\ pc = "idle" /\ clock < MaxUses
    /\ call' = [op |-> op, src |-> a, m |-> k.m, n |-> k.n, split |-> k.split]
    /\ pc' = "resolve" /\ C' = [x \in Cells(k) |-> "none"]
    /\ UNCHANGED <<ctxvars, heap, cachevars, wts, at, next, wpc, saved, ret>>

CallPack(a, k) == wts[a] = NoWeight /\ Begin("pack", a, k)

\* The row-major entry takes no M-split weight; the planes entry takes one at
\* its own M only.
CallRun(a, k) ==
    /\ wts[a] # NoWeight
    /\ k.n = wts[a].n /\ k.split = wts[a].split
    /\ k.split => k.m = wts[a].m
    /\ Begin("run", a, k)

CallStream(a, k) == ~k.split /\ Begin("stream", a, k)

--------------------------------------------------------------------------
\* rocket_slot_get, for the scratch of the call.
Hit ==
    LET j == Found(cache, CallKey)
    IN  /\ pc = "resolve" /\ j # 0
        /\ clock' = clock + 1
        /\ cache' = Touched(cache, j, clock + 1)
        /\ lastUse' = [lastUse EXCEPT ![CallKey] = clock + 1]
        /\ at' = j /\ pc' = "have"
        /\ UNCHANGED <<ctxvars, heap, wts, call, fanvars>>

Miss ==
    /\ pc = "resolve" /\ Found(cache, CallKey) = 0 /\ ~Full(cache)
    /\ at' = Len(cache) + 1 /\ pc' = "build"
    /\ UNCHANGED <<ctxvars, heap, cachevars, wts, call, fanvars>>

\* A full cache releases its victim before the new scratch is built.
Recycle ==
    LET j == Victim(cache)
    IN  /\ pc = "resolve" /\ Found(cache, CallKey) = 0 /\ Full(cache)
        /\ heap' = FreeOn(heap, 1 .. cache[j].slot.nt, cache[j].slot.wt)
        /\ at' = j /\ pc' = "build"
        /\ UNCHANGED <<ctxvars, cachevars, wts, call, fanvars>>

Build ==
    LET s == Scratch(CallKey, heap)
    IN  /\ pc = "build"
        /\ heap' = AllocOn(heap, Zeroed(1 .. s.nt))
        /\ clock' = clock + 1
        /\ cache' = Filled(cache, at, Entry(CallKey, s, clock + 1))
        /\ lastUse' = [lastUse EXCEPT ![CallKey] = clock + 1]
        /\ pc' = "have"
        /\ UNCHANGED <<ctxvars, wts, call, at, fanvars>>

BuildFails ==
    /\ pc = "build"
    /\ \E t \in 1 .. Slices(CallKey) :
          heap' = FreeOn(AllocOn(heap, Zeroed(1 .. t - 1)), Unwound(t), Fresh(heap))
    /\ cache' = Compacted(cache, at)
    /\ Leave
    /\ UNCHANGED <<ctxvars, clock, lastUse, wts>>

--------------------------------------------------------------------------
\* rkw_weights_pack: the buffer of every worker is allocated, cleared and
\* scattered into through the scratch, whose wt_all is put back each time.
Pack ==
    /\ pc = "have" /\ call.op = "pack"
    /\ heap' = AllocOn(heap, [t \in 1 .. Sc.nt |-> [src |-> call.src, sig |-> Sig(Sc, t)]])
    /\ wts' = [wts EXCEPT ![call.src] =
                 [m |-> call.m, n |-> call.n, split |-> call.split, nt |-> Sc.nt,
                  wt |-> [t \in 1 .. Sc.nt |-> Fresh(heap)[t]],
                  sig |-> [t \in 1 .. Sc.nt |-> Sig(Sc, t)]]]
    /\ Leave
    /\ UNCHANGED <<ctxvars, cachevars>>

\* (Seeded fault: the worker whose sync failed keeps its buffer.)
PackUnwoundShort(t, held) == 1 .. t - 1
PackUnwound(t, held) == held

\* The alloc, the sync or the scatter of worker t fails; the last two fail
\* with t's own buffer already allocated.
PackFails ==
    /\ pc = "have" /\ call.op = "pack"
    /\ \E t \in 1 .. Sc.nt : \E held \in {1 .. t - 1, 1 .. t} :
          heap' = FreeOn(AllocOn(heap, Zeroed(held)), PackUnwound(t, held), Fresh(heap))
    /\ Leave
    /\ UNCHANGED <<ctxvars, cachevars, wts>>

WeightsFree(a) ==
    /\ pc = "idle" /\ wts[a] # NoWeight
    /\ heap' = FreeOn(heap, 1 .. wts[a].nt, wts[a].wt)
    /\ wts' = [wts EXCEPT ![a] = NoWeight]
    /\ UNCHANGED <<ctxvars, cachevars, call, pc, at, fanvars>>

\* A resident weight meets a scratch that tiles differently: re-pack needed.
Refuse ==
    /\ pc = "have" /\ call.op = "run" /\ ~Fits(wts[call.src], Sc)
    /\ Leave
    /\ UNCHANGED <<ctxvars, heap, cachevars, wts>>

Go ==
    /\ pc = "have" /\ call.op # "pack"
    /\ call.op = "run" => Fits(wts[call.src], Sc)
    /\ pc' = "spawn"
    /\ UNCHANGED <<ctxvars, heap, cachevars, wts, call, at, fanvars>>

--------------------------------------------------------------------------
\* rocket_fanout_run: start every worker; the ones that would not start run
\* on the calling thread, after the loop; join.
Spawn(ok) ==
    /\ pc = "spawn" /\ next <= Sc.nt
    /\ wpc' = [wpc EXCEPT ![next] = IF ok THEN "start" ELSE "failed"]
    /\ next' = next + 1
    /\ UNCHANGED <<ctxvars, heap, cachevars, wts, call, pc, at, saved, ret, C>>

Inline ==
    /\ pc = "spawn" /\ next > Sc.nt
    /\ pc' = "inline" /\ next' = 1
    /\ UNCHANGED <<ctxvars, heap, cachevars, wts, call, at, wpc, saved, ret, C>>

\* (Seeded fault: a worker that would not start is left out.)
RunInlineNot ==
    /\ pc = "inline" /\ next <= Sc.nt
    /\ next' = next + 1
    /\ UNCHANGED <<ctxvars, heap, cachevars, wts, call, pc, at, wpc, saved, ret, C>>
RunInline ==
    /\ pc = "inline" /\ next <= Sc.nt
    /\ IF wpc[next] = "failed"
       THEN wpc' = [wpc EXCEPT ![next] = "start"] /\ pc' = "inside" /\ UNCHANGED next
       ELSE next' = next + 1 /\ UNCHANGED <<wpc, pc>>
    /\ UNCHANGED <<ctxvars, heap, cachevars, wts, call, at, saved, ret, C>>

InlineDone ==
    /\ pc = "inside" /\ wpc[next] = "done"
    /\ pc' = "inline" /\ next' = next + 1
    /\ UNCHANGED <<ctxvars, heap, cachevars, wts, call, at, wpc, saved, ret, C>>

Join ==
    /\ pc = "inline" /\ next > Sc.nt
    /\ \A t \in 1 .. Sc.nt : wpc[t] = "done"
    /\ pc' = "joined"
    /\ UNCHANGED <<ctxvars, heap, cachevars, wts, call, at, fanvars>>

Return ==
    /\ pc = "joined"
    /\ Leave
    /\ UNCHANGED <<ctxvars, heap, cachevars, wts>>

--------------------------------------------------------------------------
\* rkw_thread (and rkw_thread_planes, which has no staging buffer to fail).
SetWt(t, x) == cache' = [cache EXCEPT ![at].slot.wt[t] = x]

Restore(t) == IF call.op = "run" THEN SetWt(t, saved[t]) ELSE UNCHANGED cache

Exit(t, r) == wpc' = [wpc EXCEPT ![t] = "done"] /\ ret' = [ret EXCEPT ![t] = r]

\* The staging buffer, then the swap.
Start(t) ==
    /\ wpc[t] = "start"
    /\ \/ Exit(t, -1) /\ UNCHANGED <<cache, saved>>
       \/ /\ wpc' = [wpc EXCEPT ![t] = "swapped"] /\ UNCHANGED ret
          /\ saved' = [saved EXCEPT ![t] = Sc.wt[t]]
          /\ IF call.op = "run" THEN SetWt(t, wts[call.src].wt[t]) ELSE UNCHANGED cache
    /\ UNCHANGED <<ctxvars, heap, clock, lastUse, wts, call, pc, at, next, C>>

\* A streamed weight is scattered into the scratch's own buffer.
PackB(t) ==
    /\ wpc[t] = "swapped" /\ call.op = "stream"
    /\ \/ Exit(t, -1) /\ Restore(t) /\ UNCHANGED heap
       \/ /\ heap' = [heap EXCEPT ![t][Sc.wt[t]] = [src |-> call.src, sig |-> Sig(Sc, t)]]
          /\ wpc' = [wpc EXCEPT ![t] = "packed"] /\ UNCHANGED <<ret, cache>>
    /\ UNCHANGED <<ctxvars, clock, lastUse, wts, call, pc, at, next, saved, C>>

\* The input is loaded.
LoadA(t) ==
    /\ wpc[t] = IF call.op = "stream" THEN "packed" ELSE "swapped"
    /\ \/ Exit(t, -1) /\ Restore(t)
       \/ wpc' = [wpc EXCEPT ![t] = "loaded"] /\ UNCHANGED <<ret, cache>>
    /\ UNCHANGED <<ctxvars, heap, clock, lastUse, wts, call, pc, at, next, saved, C>>

\* The compute and the copy of the slice into C; either way the scratch gets
\* its own buffer back.
Computed(t) ==
    IF /\ Sc.wt[t] \in DOMAIN heap[t]
       /\ heap[t][Sc.wt[t]].sig = Sig(Sc, t)
    THEN heap[t][Sc.wt[t]].src ELSE "garbage"

InSlice(x, s) == /\ x[1] > s.m0 /\ x[1] <= s.m0 + s.msub
                 /\ x[2] > s.n0 /\ x[2] <= s.n0 + s.nsub

Compute(t) ==
    /\ wpc[t] = "loaded"
    /\ Restore(t)
    /\ \/ Exit(t, -1) /\ UNCHANGED C
       \/ /\ Exit(t, 0)
          /\ C' = [x \in DOMAIN C |-> IF InSlice(x, Sc.w[t]) THEN Computed(t) ELSE C[x]]
    /\ UNCHANGED <<ctxvars, heap, clock, lastUse, wts, call, pc, at, next, saved>>

--------------------------------------------------------------------------
Main == \/ CtxCreate \/ CtxFree
        \/ Hit \/ Miss \/ Recycle \/ Build \/ BuildFails
        \/ Pack \/ PackFails \/ Refuse \/ Go
        \/ \E ok \in BOOLEAN : Spawn(ok)
        \/ Inline \/ RunInline \/ InlineDone \/ Join \/ Return
        \/ \E a \in Name : \/ WeightsFree(a)
                           \/ \E k \in Key : CallPack(a, k) \/ CallRun(a, k) \/ CallStream(a, k)
WorkerStep(t) == Start(t) \/ PackB(t) \/ LoadA(t) \/ Compute(t)

Next == Main \/ \E t \in Worker : WorkerStep(t)

\* A call in flight is executed: its thread and its workers keep running (a
\* compute is bounded by the fence deadline).  Nothing makes the caller start
\* a call or free what it holds.
InCall == \/ Hit \/ Miss \/ Recycle \/ Build \/ BuildFails
          \/ Pack \/ PackFails \/ Refuse \/ Go
          \/ \E ok \in BOOLEAN : Spawn(ok)
          \/ Inline \/ RunInline \/ InlineDone \/ Join \/ Return
Fairness == WF_vars(InCall) /\ \A t \in Worker : WF_vars(WorkerStep(t))

Spec == Init /\ [][Next]_vars
LiveSpec == Spec /\ Fairness

--------------------------------------------------------------------------
TypeOK ==
    /\ fds \in {{}, Worker} /\ canon \in BOOLEAN
    /\ pc \in {"down", "idle", "resolve", "build", "have", "spawn", "inline", "inside",
               "joined", "freed"}
    /\ \A t \in Worker : wpc[t] \in {"none", "failed", "start", "swapped", "packed",
                                     "loaded", "done"}
    /\ at \in 0 .. MaxSlots /\ clock \in 0 .. MaxUses /\ next \in 1 .. NThreads + 1
    /\ \A j \in DOMAIN cache : cache[j].key \in Key /\ cache[j].slot.nt \in Worker

\* A call that reports success has computed every cell of C, from the matrix
\* the caller named: no slice of it missing, read through another weight's
\* buffer, or out of a buffer tiled for another plan (rkw_run,
\* weights_fit_scratch, rocket_wsig_eq).
AnswerIsProduct ==
    pc = "joined" /\ (\A t \in 1 .. Sc.nt : ret[t] = 0)
        => \A x \in DOMAIN C : C[x] = call.src

\* Between calls every live buffer of an fd belongs to exactly one cached
\* scratch or one resident weight, and each of those owns a live one: no path
\* through a failed build, a failed pack, a failed worker or a recycled slot
\* leaks a buffer or an fd, frees one twice or leaves the scratch holding a weight's.
ScratchBos(t) == {<<"scratch", j, cache[j].slot.wt[t]>> :
                    j \in {h \in DOMAIN cache : t <= cache[h].slot.nt}}
WeightBos(t) == {<<"weight", a, wts[a].wt[t]>> : a \in {b \in Name : t <= wts[b].nt}}
BosOwned ==
    /\ pc \in {"down", "freed"} => fds = {}
    /\ pc \in {"idle", "freed"} =>
        \A t \in Worker :
            LET owned == ScratchBos(t) \cup WeightBos(t)
            IN  /\ {o[3] : o \in owned} = DOMAIN heap[t]
                /\ Cardinality(owned) = Cardinality(DOMAIN heap[t])

\* Between calls every entry holds a scratch built for its own key, no key has
\* two, and the cache is within its slots (rocket_slot_get, the compaction of
\* a slot whose rebuild failed included).
CacheSound ==
    pc = "idle" =>
        /\ Len(cache) <= MaxSlots
        /\ \A j \in DOMAIN cache : cache[j].slot.key = cache[j].key
        /\ \A j, h \in DOMAIN cache : cache[j].key = cache[h].key => j = h

\* What a step recycles to make room was asked for longest ago: no scratch
\* used since is given up while it stays.
LeastRecentlyUsed ==
    [][pc = "resolve" /\ pc' = "build" /\ at' <= Len(cache)
         => \A j \in DOMAIN cache : lastUse[cache[at'].key] <= lastUse[cache[j].key]]_vars

\* Every call returns, whatever fails in it.
CallReturns == pc = "resolve" ~> pc = "idle"
=============================================================================
