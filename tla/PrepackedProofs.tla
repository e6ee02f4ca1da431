-------------------------- MODULE PrepackedProofs --------------------------
(***************************************************************************)
(* What the resident and streamed weights promise, for any number of       *)
(* workers and shapes, any cache size and any tiling.                      *)
(*                                                                         *)
(* The argument has three layers.  The cache: no key is in it twice, so    *)
(* the slot a call resolved stays its own while the workers run, and every *)
(* worker step touches one place of that slot only (WorkerFrame).  The     *)
(* buffers: on each fd the scratches and the weights divide the live       *)
(* handles among them, where a scratch whose place a run has lent to a     *)
(* weight still owns the handle the worker saved.  The contents: a         *)
(* weight's buffer is written once, a streamed one is packed into the      *)
(* scratch's own buffer and hence over no resident weight, so each worker  *)
(* reads the matrix the caller named; and the slices of the workers a      *)
(* shape uses cover C.                                                     *)
(***************************************************************************)
EXTENDS Prepacked, WellOrder

\* Where a worker is, and where the call is: in its fan-out, with a scratch, in
\* flight at all.
Phase == {"none", "failed", "start", "swapped", "packed", "loaded", "done"}
Fan == {"spawn", "inline", "inside", "joined"}
Resolved == Fan \cup {"have"}
Busy == Resolved \cup {"resolve", "build"}

\* The scratches, cache entries and resident weights of key k, whatever their
\* buffers.
SlotOf(k) ==
    [key : {k}, nt : {Slices(k)}, w : {[t \in 1 .. Slices(k) |-> Slice(k, t)]},
     wt : [1 .. Slices(k) -> Nat]]
EntryOf(k) == [key : {k}, slot : SlotOf(k), stamp : Nat]
Entries == UNION {EntryOf(k) : k \in Key}

SigOf(k, t) == <<Slice(k, t).n0, Slice(k, t).nsub, Slice(k, t).kt>>
WeightOf(k) ==
    [m : {k.m}, n : {k.n}, split : {k.split}, nt : {Slices(k)},
     wt : [1 .. Slices(k) -> Nat], sig : {[t \in 1 .. Slices(k) |-> SigOf(k, t)]}]
Weights == UNION {WeightOf(k) : k \in Key}

\* The heap of every fd is finite.
Finite(h) == \A t \in Worker : IsFiniteSet(DOMAIN h[t]) /\ DOMAIN h[t] \subseteq Nat

\* Every variable has its type, and the cache its bound.
Types ==
    /\ fds \in {{}, Worker} /\ canon \in BOOLEAN
    /\ pc \in Busy \cup {"down", "idle", "freed"}
    /\ wpc \in [Worker -> Phase] /\ saved \in [Worker -> Nat] /\ ret \in [Worker -> Int]
    /\ at \in 0 .. MaxSlots /\ clock \in 0 .. MaxUses /\ next \in 1 .. NThreads + 1
    /\ cache \in Seq(Entries) /\ Len(cache) <= MaxSlots
    /\ lastUse \in [Key -> Nat]
    /\ wts \in [Name -> Weights \cup {NoWeight}]
    /\ DOMAIN heap = Worker /\ Finite(heap)

\* What the code between two steps of a call may rely on: the slot it resolved
\* is in the cache, under its key, and a weight that runs fits that slot.
Calls ==
    /\ pc \in Busy => /\ call.op \in {"pack", "run", "stream"} /\ call.src \in Name
                      /\ CallKey \in Key /\ DOMAIN C = Cells(CallKey)
                      /\ call.op = "pack" => wts[call.src] = NoWeight
    /\ pc \in {"resolve", "build"} => clock < MaxUses
    /\ pc = "build" => /\ at \in 1 .. Len(cache) + 1
                       /\ \A j \in DOMAIN cache : cache[j].key # CallKey
    /\ pc \in Resolved => at \in DOMAIN cache /\ cache[at].key = CallKey
    /\ pc \in Fan => /\ call.op # "pack"
                     /\ call.op = "run" => Fits(wts[call.src], Sc)

\* Workers run only in a fan-out, only for slices the call has, and only once
\* started.
Fans ==
    /\ pc \notin Fan => wpc = [t \in Worker |-> "none"] /\ next = 1
    /\ pc \in Fan => \A t \in Worker : t > Sc.nt => wpc[t] = "none"
    /\ pc = "spawn" => \A t \in Worker : t >= next => wpc[t] = "none"
    /\ pc = "inside" => next <= Sc.nt
    /\ pc = "joined" => \A t \in Worker : t <= Sc.nt => wpc[t] = "done"
    /\ pc = "down" \/ pc = "freed" => fds = {}

\* No key is cached twice, and a stamp tells when its key was last used.
Keys ==
    /\ \A j, h \in DOMAIN cache : cache[j].key = cache[h].key => j = h
    /\ \A j \in DOMAIN cache : cache[j].stamp = lastUse[cache[j].key]

\* The buffer scratch j owns on worker t's fd (a run borrows its place for the
\* resident weight's), the scratches and the weights that own one there.
Own(j, t) ==
    IF j = at /\ call.op = "run" /\ wpc[t] \in {"swapped", "loaded"}
    THEN saved[t] ELSE cache[j].slot.wt[t]
Held(t) == {j \in DOMAIN cache : t <= cache[j].slot.nt /\ ~(pc = "build" /\ j = at)}
Kept(t) == {a \in Name : t <= wts[a].nt}

\* The owners on worker t's fd, with their buffers.
Scratches(t) == [j \in Held(t) |-> Own(j, t)]
Residents(t) == [a \in Kept(t) |-> wts[a].wt[t]]

\* Each buffer of D has one owner, and each owner a buffer of D.
Partition(D, own, kept) ==
    /\ \A j \in DOMAIN own : own[j] \in D
    /\ \A a \in DOMAIN kept : kept[a] \in D
    /\ \A j, h \in DOMAIN own : own[j] = own[h] => j = h
    /\ \A a, b \in DOMAIN kept : kept[a] = kept[b] => a = b
    /\ \A j \in DOMAIN own, a \in DOMAIN kept : own[j] # kept[a]
    /\ \A x \in D : (\E j \in DOMAIN own : x = own[j]) \/ (\E a \in DOMAIN kept : x = kept[a])

\* Every live buffer is one scratch's or one weight's: nothing leaks and nothing
\* is freed twice.
Owners == \A t \in Worker : Partition(DOMAIN heap[t], Scratches(t), Residents(t))

\* The buffers of the weights hold what was packed into them.
Written(t) == \A a \in Kept(t) : heap[t][wts[a].wt[t]] = [src |-> a, sig |-> wts[a].sig[t]]

\* Worker t of the call is about to read the matrix the caller named.
Reading(t) ==
    /\ wpc[t] \in {"swapped", "loaded"} /\ call.op = "run"
          => Sc.wt[t] = wts[call.src].wt[t]
    /\ wpc[t] \in {"packed", "loaded"} /\ call.op = "stream"
          => heap[t][Sc.wt[t]] = [src |-> call.src, sig |-> Sig(Sc, t)]

\* The buffers hold what their owners believe.
Contents == \A t \in Worker : Written(t) /\ Reading(t)

\* A worker that succeeded has written its slice of C.
Answered(t) ==
    wpc[t] = "done" /\ ret[t] = 0
        => \A x \in DOMAIN C : InSlice(x, Sc.w[t]) => C[x] = call.src

\* What the answer rests on: the buffers' contents and the slices already written.
AnswerInv == Contents /\ \A t \in Worker : Answered(t)

-----------------------------------------------------------------------------
(* The operators.                                                          *)

\* A product grows with its first factor.
LEMMA ProductGrows ==
    ASSUME NEW a \in Nat, NEW b \in Nat, a <= b, NEW c \in Nat
    PROVE  a * c <= b * c
OBVIOUS

\* Rounding up to a multiple loses nothing.
LEMMA RoundUp ==
    ASSUME NEW n \in Nat, NEW b \in Nat \ {0}
    PROVE  n <= b * ((n + b - 1) \div b)
OBVIOUS

\* Every shape uses at least one worker.
LEMMA SlicesRange == \A k \in Key : Slices(k) \in Worker
<1> SUFFICES ASSUME NEW k \in Key PROVE Slices(k) \in Worker
  OBVIOUS
<1> DEFINE dim == IF k.split THEN k.m ELSE k.n
           used == {t \in Worker : (t - 1) * NStep(dim) < dim}
<1>1. dim \in Nat \ {0} /\ NThreads \in Nat \ {0}
  BY PrepackedAssumption
<1>2. IsFiniteSet(1 .. NThreads) /\ Cardinality(1 .. NThreads) = NThreads
  BY <1>1, FS_Interval
<1>3. IsFiniteSet(used) /\ Cardinality(used) <= NThreads /\ Cardinality(used) \in Nat
  BY <1>2, FS_Subset, FS_CardinalityType DEF Worker
<1>4. NStep(dim) \in Nat
  <2> HIDE DEF dim
  <2> QED BY <1>1 DEF NStep
<1>5. 1 \in used
  <2>1. (1 - 1) * NStep(dim) = 0
    BY <1>4
  <2> QED BY <1>1, <2>1 DEF Worker
<1>6. Cardinality(used) # 0
  BY <1>3, <1>5, FS_EmptySet
<1> QED BY <1>3, <1>6, <1>1 DEF Slices, Worker

\* What a cache entry is.
LEMMA EntryShape ==
    ASSUME NEW e \in Entries
    PROVE  /\ e.key \in Key /\ e \in EntryOf(e.key) /\ e.stamp \in Nat
           /\ e.slot.key = e.key /\ e.slot.nt = Slices(e.key) /\ e.slot.nt \in Worker
           /\ e.slot.w = [t \in 1 .. Slices(e.key) |-> Slice(e.key, t)]
           /\ e.slot.wt \in [1 .. Slices(e.key) -> Nat]
<1>1. PICK k \in Key : e \in EntryOf(k)
  BY DEF Entries
<1>2. e.key = k /\ e.stamp \in Nat /\ e.slot \in SlotOf(k)
  BY <1>1 DEF EntryOf
<1>3. e.slot.key = k /\ e.slot.nt = Slices(k) /\ e.slot.wt \in [1 .. Slices(k) -> Nat]
  BY <1>2 DEF SlotOf
<1>4. e.slot.w = [t \in 1 .. Slices(k) |-> Slice(k, t)]
  BY <1>2 DEF SlotOf
<1> QED BY <1>1, <1>2, <1>3, <1>4, SlicesRange

\* What a resident weight is.
LEMMA WeightShape ==
    ASSUME NEW w \in Weights
    PROVE  /\ w.nt \in Worker /\ w.wt \in [1 .. w.nt -> Nat] /\ w # NoWeight
<1>1. PICK k \in Key : w \in WeightOf(k)
  BY DEF Weights
<1>2. w.nt = Slices(k) /\ w.wt \in [1 .. Slices(k) -> Nat]
  BY <1>1 DEF WeightOf
<1> QED BY <1>2, SlicesRange DEF Worker, NoWeight

\* A lookup finds an entry of its key when there is one.
LEMMA FoundSound ==
    ASSUME NEW S, NEW c \in Seq(S), NEW k
    PROVE  /\ Found(c, k) # 0 => Found(c, k) \in DOMAIN c /\ c[Found(c, k)].key = k
           /\ Found(c, k) = 0 => \A j \in DOMAIN c : c[j].key # k
<1>1. CASE \E j \in DOMAIN c : c[j].key = k
  <2>1. 0 \notin DOMAIN c
    OBVIOUS
  <2>2. \E j : j \in DOMAIN c /\ c[j].key = k
    BY <1>1
  <2>3. Found(c, k) \in DOMAIN c /\ c[Found(c, k)].key = k
    BY <1>1 DEF Found
  <2> QED BY <2>1, <2>3
<1>2. CASE ~\E j \in DOMAIN c : c[j].key = k
  BY <1>2 DEF Found
<1> QED BY <1>1, <1>2

\* The victim is an entry that no other was used before.
LEMMA VictimLeast ==
    ASSUME NEW c \in Seq(Entries), Len(c) > 0
    PROVE  /\ Victim(c) \in DOMAIN c
           /\ \A h \in DOMAIN c : c[Victim(c)].stamp <= c[h].stamp
<1> DEFINE stamps == {c[j].stamp : j \in DOMAIN c}
<1>1. \A j \in DOMAIN c : c[j].stamp \in Nat
  <2>1. \A j \in DOMAIN c : c[j] \in Entries
    OBVIOUS
  <2> QED BY <2>1, EntryShape
<1>2. stamps \subseteq Nat /\ stamps # {}
  <2>1. 1 \in DOMAIN c
    OBVIOUS
  <2> QED BY <1>1, <2>1
<1>3. PICK x \in stamps : \A y \in stamps : x <= y
  <2> HIDE DEF stamps
  <2> QED BY <1>2, LeastNumber
<1>4. PICK j \in DOMAIN c : c[j].stamp = x
  BY <1>3
<1>5. \A h \in DOMAIN c : c[j].stamp <= c[h].stamp
  BY <1>3, <1>4
<1> QED BY <1>4, <1>5 DEF Victim

\* A function on 1 .. n is a sequence of length n.
LEMMA SeqOf ==
    ASSUME NEW S, NEW n \in Nat, NEW f \in [1 .. n -> S]
    PROVE  f \in Seq(S) /\ Len(f) = n /\ DOMAIN f = 1 .. n
OBVIOUS

\* A hit changes a stamp.
LEMMA TouchedShape ==
    ASSUME NEW c \in Seq(Entries), NEW j \in DOMAIN c, NEW now \in Nat
    PROVE  /\ Touched(c, j, now) \in Seq(Entries) /\ Len(Touched(c, j, now)) = Len(c)
           /\ DOMAIN Touched(c, j, now) = DOMAIN c
           /\ \A h \in DOMAIN c : /\ Touched(c, j, now)[h].key = c[h].key
                                  /\ Touched(c, j, now)[h].slot = c[h].slot
                                  /\ h # j => Touched(c, j, now)[h] = c[h]
           /\ Touched(c, j, now)[j].stamp = now
<1> DEFINE d == Touched(c, j, now)
           e == [c[j] EXCEPT !.stamp = now]
<1>1. c[j] \in EntryOf(c[j].key) /\ c[j].key \in Key
  <2>1. c[j] \in Entries
    OBVIOUS
  <2> QED BY <2>1, EntryShape
<1>2. e \in EntryOf(c[j].key) /\ e.key = c[j].key /\ e.slot = c[j].slot /\ e.stamp = now
  BY <1>1 DEF EntryOf
<1>3. e \in Entries
  BY <1>1, <1>2 DEF Entries
<1>4. d = [c EXCEPT ![j] = e]
  BY DEF Touched
<1> HIDE DEF d, e
<1>5. d \in Seq(Entries) /\ Len(d) = Len(c) /\ DOMAIN d = DOMAIN c
  BY <1>3, <1>4
<1>6. \A h \in DOMAIN c : d[h] = IF h = j THEN e ELSE c[h]
  BY <1>4
<1>7. \A h \in DOMAIN c : d[h].key = c[h].key /\ d[h].slot = c[h].slot /\ (h # j => d[h] = c[h])
  BY <1>2, <1>6
<1>8. d[j].stamp = now
  BY <1>2, <1>6
<1> QED BY <1>5, <1>7, <1>8 DEF d

\* A new scratch takes its place.
LEMMA FilledShape ==
    ASSUME NEW c \in Seq(Entries), NEW j \in 1 .. Len(c) + 1, NEW e \in Entries
    PROVE  /\ Filled(c, j, e) \in Seq(Entries)
           /\ DOMAIN Filled(c, j, e) = DOMAIN c \cup {j}
           /\ j > Len(c) => Len(Filled(c, j, e)) = Len(c) + 1
           /\ j <= Len(c) => Len(Filled(c, j, e)) = Len(c)
           /\ Filled(c, j, e)[j] = e
           /\ \A h \in DOMAIN c : h # j => Filled(c, j, e)[h] = c[h]
<1>1. CASE j > Len(c)
  <2>1. j = Len(c) + 1 /\ Filled(c, j, e) = Append(c, e)
    BY <1>1 DEF Filled
  <2>2. /\ Append(c, e) \in Seq(Entries) /\ Len(Append(c, e)) = Len(c) + 1
        /\ \A h \in 1 .. Len(c) : Append(c, e)[h] = c[h]
        /\ Append(c, e)[Len(c) + 1] = e
    OBVIOUS
  <2>3. DOMAIN c = 1 .. Len(c) /\ DOMAIN Append(c, e) = 1 .. Len(c) + 1 /\ Len(c) \in Nat
    BY <2>2
  <2>4. 1 .. Len(c) + 1 = (1 .. Len(c)) \cup {j}
    BY <2>1, <2>3
  <2>5. ~(j <= Len(c))
    BY <2>1, <2>3
  <2> QED BY <1>1, <2>1, <2>2, <2>3, <2>4, <2>5
<1>2. CASE ~(j > Len(c))
  <2>1. j \in DOMAIN c /\ Filled(c, j, e) = [c EXCEPT ![j] = e]
    BY <1>2 DEF Filled
  <2>2. DOMAIN c \cup {j} = DOMAIN c
    BY <2>1
  <2>3. /\ [c EXCEPT ![j] = e] \in Seq(Entries) /\ Len([c EXCEPT ![j] = e]) = Len(c)
        /\ DOMAIN [c EXCEPT ![j] = e] = DOMAIN c
        /\ [c EXCEPT ![j] = e][j] = e
        /\ \A h \in DOMAIN c : h # j => [c EXCEPT ![j] = e][h] = c[h]
    BY <2>1
  <2> QED BY <1>2, <2>1, <2>2, <2>3
<1> QED BY <1>1, <1>2

\* Where entry h of the compacted cache was.
Moved(c, j, h) == IF h = j THEN Len(c) ELSE h

\* A failed rebuild leaves every other entry, each in one place.
LEMMA CompactedShape ==
    ASSUME NEW S, NEW c \in Seq(S), NEW j \in 1 .. Len(c) + 1
    PROVE  /\ Compacted(c, j) \in Seq(S) /\ Len(Compacted(c, j)) <= Len(c)
           /\ \A h \in DOMAIN Compacted(c, j) :
                 /\ Moved(c, j, h) \in DOMAIN c \ {j}
                 /\ Compacted(c, j)[h] = c[Moved(c, j, h)]
           /\ \A h, i \in DOMAIN Compacted(c, j) : Moved(c, j, h) = Moved(c, j, i) => h = i
           /\ \A i \in DOMAIN c \ {j} : \E h \in DOMAIN Compacted(c, j) : Moved(c, j, h) = i
<1>1. CASE j > Len(c)
  <2>1. Compacted(c, j) = c /\ j \notin DOMAIN c
    BY <1>1 DEF Compacted
  <2>2. \A h \in DOMAIN c : Moved(c, j, h) = h
    BY <2>1 DEF Moved
  <2> QED BY <2>1, <2>2
<1>2. CASE ~(j > Len(c))
  <2> DEFINE f == [h \in 1 .. Len(c) - 1 |-> IF h = j THEN c[Len(c)] ELSE c[h]]
  <2>1. j \in DOMAIN c /\ Compacted(c, j) = f /\ Len(c) \in DOMAIN c
        /\ Len(c) - 1 \in Nat /\ DOMAIN c = 1 .. Len(c)
    BY <1>2 DEF Compacted
  <2>2. f \in [1 .. Len(c) - 1 -> S]
    BY <2>1
  <2>3. f \in Seq(S) /\ Len(f) = Len(c) - 1 /\ DOMAIN f = 1 .. Len(c) - 1
    <3> HIDE DEF f
    <3> QED BY <2>1, <2>2, SeqOf
  <2>4. \A h \in DOMAIN f : /\ Moved(c, j, h) \in DOMAIN c \ {j}
                            /\ f[h] = c[Moved(c, j, h)]
    BY <2>1, <2>3 DEF Moved
  <2>5. \A h, i \in DOMAIN f : Moved(c, j, h) = Moved(c, j, i) => h = i
    <3> HIDE DEF f
    <3> QED BY <2>1, <2>3 DEF Moved
  <2>6. \A i \in DOMAIN c \ {j} : \E h \in DOMAIN f : Moved(c, j, h) = i
    <3> HIDE DEF f
    <3> SUFFICES ASSUME NEW i \in DOMAIN c \ {j} PROVE \E h \in DOMAIN f : Moved(c, j, h) = i
      OBVIOUS
    <3>1. CASE i = Len(c)
      <4>1. j \in DOMAIN f
        BY <3>1, <2>1, <2>3
      <4> QED BY <4>1, <3>1 DEF Moved
    <3>2. CASE i # Len(c)
      <4>1. i \in DOMAIN f
        BY <3>2, <2>1, <2>3
      <4> QED BY <4>1 DEF Moved
    <3> QED BY <3>1, <3>2
  <2> HIDE DEF f
  <2> QED BY <2>1, <2>3, <2>4, <2>5, <2>6
<1> QED BY <1>1, <1>2

\* A new handle is a free one.
LEMMA FreshIsFree ==
    ASSUME NEW h, Finite(h), NEW t \in Worker
    PROVE  /\ Fresh(h)[t] \in Nat /\ Fresh(h)[t] \notin DOMAIN h[t]
           /\ Fresh(h)[t] = LowFree(h, t)
<1> DEFINE D == DOMAIN h[t]
           n == Cardinality(D)
           free == (1 .. n + 1) \ D
<1>1. IsFiniteSet(D) /\ n \in Nat
  BY FS_CardinalityType DEF Finite
<1>2. IsFiniteSet(1 .. n + 1) /\ Cardinality(1 .. n + 1) = n + 1
  <2> HIDE DEF n
  <2>1. n + 1 \in Int /\ 1 \in Int /\ 1 <= n + 1
    BY <1>1
  <2> QED BY <2>1, <1>1, FS_Interval
<1>3. free # {}
  <2> SUFFICES ASSUME 1 .. n + 1 \subseteq D PROVE FALSE
    OBVIOUS
  <2>1. Cardinality(1 .. n + 1) <= n
    BY <1>1, FS_Subset
  <2> HIDE DEF n
  <2> QED BY <2>1, <1>1, <1>2
<1>4. free \subseteq Nat
  <2> HIDE DEF D
  <2> QED BY <1>1
<1>5. \E x \in free : \A y \in free : x =< y
  <2> HIDE DEF free
  <2> QED BY <1>3, <1>4, LeastNumber
<1>6. Min(free) \in free
  <2> HIDE DEF free
  <2> QED BY <1>5 DEF Min
<1>7. LowFree(h, t) = Min(free)
  BY DEF LowFree
<1>8. Fresh(h)[t] = LowFree(h, t)
  BY DEF Fresh
<1> HIDE DEF free
<1>9. Min(free) \in Nat
  BY <1>4, <1>6
<1> QED BY <1>6, <1>7, <1>8, <1>9 DEF free

\* One buffer on each fd of c, with its content.
LEMMA AllocShape ==
    ASSUME NEW h, Finite(h), NEW c
    PROVE  /\ DOMAIN AllocOn(h, c) = Worker /\ Finite(AllocOn(h, c))
           /\ \A t \in Worker :
                 /\ t \in DOMAIN c =>
                       /\ DOMAIN AllocOn(h, c)[t] = DOMAIN h[t] \cup {Fresh(h)[t]}
                       /\ AllocOn(h, c)[t][Fresh(h)[t]] = c[t]
                       /\ \A x \in DOMAIN h[t] : AllocOn(h, c)[t][x] = h[t][x]
                 /\ t \notin DOMAIN c => AllocOn(h, c)[t] = h[t]
<1> DEFINE g == AllocOn(h, c)
<1>1. DOMAIN g = Worker
  BY DEF AllocOn
<1>2. ASSUME NEW t \in Worker, t \in DOMAIN c
      PROVE  /\ DOMAIN g[t] = DOMAIN h[t] \cup {Fresh(h)[t]}
             /\ g[t][Fresh(h)[t]] = c[t]
             /\ \A x \in DOMAIN h[t] : g[t][x] = h[t][x]
  <2>1. g[t] = [x \in DOMAIN h[t] \cup {Fresh(h)[t]} |->
                   IF x = Fresh(h)[t] THEN c[t] ELSE h[t][x]]
    BY <1>2, FreshIsFree DEF AllocOn
  <2>2. Fresh(h)[t] \notin DOMAIN h[t]
    BY FreshIsFree
  <2> HIDE DEF g
  <2> QED BY <2>1, <2>2
<1>3. ASSUME NEW t \in Worker, t \notin DOMAIN c PROVE g[t] = h[t]
  BY <1>3 DEF AllocOn
<1>4. ASSUME NEW t \in Worker PROVE IsFiniteSet(DOMAIN g[t]) /\ DOMAIN g[t] \subseteq Nat
  <2>1. IsFiniteSet(DOMAIN h[t]) /\ DOMAIN h[t] \subseteq Nat /\ Fresh(h)[t] \in Nat
    BY FreshIsFree DEF Finite
  <2>2. IsFiniteSet(DOMAIN h[t] \cup {Fresh(h)[t]})
    BY <2>1, FS_AddElement
  <2> HIDE DEF g
  <2>3. DOMAIN g[t] = DOMAIN h[t] \cup {Fresh(h)[t]} \/ g[t] = h[t]
    BY <1>2, <1>3
  <2> QED BY <2>1, <2>2, <2>3
<1>5. Finite(g)
  BY <1>4 DEF Finite
<1> QED BY <1>1, <1>2, <1>3, <1>5

\* Buffer b[t] of each fd of T is gone.
LEMMA FreeShape ==
    ASSUME NEW h, NEW T, NEW b
    PROVE  /\ DOMAIN FreeOn(h, T, b) = Worker
           /\ Finite(h) => Finite(FreeOn(h, T, b))
           /\ \A t \in Worker :
                 /\ t \in T =>
                       /\ DOMAIN FreeOn(h, T, b)[t] = DOMAIN h[t] \ {b[t]}
                       /\ \A x \in DOMAIN h[t] \ {b[t]} : FreeOn(h, T, b)[t][x] = h[t][x]
                 /\ t \notin T => FreeOn(h, T, b)[t] = h[t]
<1> DEFINE g == FreeOn(h, T, b)
<1>1. DOMAIN g = Worker
  BY DEF FreeOn
<1>2. ASSUME NEW t \in Worker, t \in T
      PROVE  /\ DOMAIN g[t] = DOMAIN h[t] \ {b[t]}
             /\ \A x \in DOMAIN h[t] \ {b[t]} : g[t][x] = h[t][x]
  <2>1. g[t] = [x \in DOMAIN h[t] \ {b[t]} |-> h[t][x]]
    BY <1>2 DEF FreeOn
  <2> HIDE DEF g
  <2> QED BY <2>1
<1>3. ASSUME NEW t \in Worker, t \notin T PROVE g[t] = h[t]
  BY <1>3 DEF FreeOn
<1>4. ASSUME Finite(h), NEW t \in Worker
      PROVE  IsFiniteSet(DOMAIN g[t]) /\ DOMAIN g[t] \subseteq Nat
  <2>1. IsFiniteSet(DOMAIN h[t]) /\ DOMAIN h[t] \subseteq Nat
    BY <1>4 DEF Finite
  <2>2. IsFiniteSet(DOMAIN h[t] \ {b[t]})
    BY <2>1, FS_Subset
  <2> HIDE DEF g
  <2>3. DOMAIN g[t] = DOMAIN h[t] \ {b[t]} \/ g[t] = h[t]
    BY <1>2, <1>3
  <2> QED BY <2>1, <2>2, <2>3
<1>5. Finite(h) => Finite(g)
  BY <1>4 DEF Finite
<1> QED BY <1>1, <1>2, <1>3, <1>5

\* The same for one fd: with a new buffer, without, with one fewer.
LEMMA AllocAt ==
    ASSUME NEW h, Finite(h), NEW c, NEW t \in Worker, t \in DOMAIN c
    PROVE  /\ DOMAIN AllocOn(h, c)[t] = DOMAIN h[t] \cup {Fresh(h)[t]}
           /\ AllocOn(h, c)[t][Fresh(h)[t]] = c[t]
           /\ \A x \in DOMAIN h[t] : AllocOn(h, c)[t][x] = h[t][x]
           /\ Fresh(h)[t] \notin DOMAIN h[t]
BY AllocShape, FreshIsFree

\* An fd no buffer is allocated on keeps what it has.
LEMMA AllocOff ==
    ASSUME NEW h, Finite(h), NEW c, NEW t \in Worker, t \notin DOMAIN c
    PROVE  AllocOn(h, c)[t] = h[t]
BY AllocShape

\* An fd of T loses one buffer.
LEMMA FreeAt ==
    ASSUME NEW h, NEW T, NEW b, NEW t \in Worker, t \in T
    PROVE  /\ DOMAIN FreeOn(h, T, b)[t] = DOMAIN h[t] \ {b[t]}
           /\ \A x \in DOMAIN h[t] \ {b[t]} : FreeOn(h, T, b)[t][x] = h[t][x]
BY FreeShape

\* An fd outside T loses none.
LEMMA FreeOff ==
    ASSUME NEW h, NEW T, NEW b, NEW t \in Worker, t \notin T
    PROVE  FreeOn(h, T, b)[t] = h[t]
BY FreeShape

\* The same buffers with the same content.
SameHeap(g, h) ==
    /\ DOMAIN g = Worker
    /\ \A t \in Worker : /\ DOMAIN g[t] = DOMAIN h[t]
                         /\ \A x \in DOMAIN h[t] : g[t][x] = h[t][x]

\* What is allocated and freed again leaves nothing.
LEMMA UndoneShape ==
    ASSUME NEW h, Finite(h), NEW T
    PROVE  /\ Finite(FreeOn(AllocOn(h, Zeroed(T)), T, Fresh(h)))
           /\ SameHeap(FreeOn(AllocOn(h, Zeroed(T)), T, Fresh(h)), h)
<1> DEFINE a == AllocOn(h, Zeroed(T))
           g == FreeOn(a, T, Fresh(h))
<1>1. DOMAIN Zeroed(T) = T
  BY DEF Zeroed
<1>2. /\ Finite(a)
      /\ \A t \in Worker :
            /\ t \in T => /\ DOMAIN a[t] = DOMAIN h[t] \cup {Fresh(h)[t]}
                          /\ \A x \in DOMAIN h[t] : a[t][x] = h[t][x]
            /\ t \notin T => a[t] = h[t]
  BY <1>1, AllocShape
<1> HIDE DEF a
<1>3. /\ DOMAIN g = Worker /\ Finite(g)
      /\ \A t \in Worker :
            /\ t \in T => /\ DOMAIN g[t] = DOMAIN a[t] \ {Fresh(h)[t]}
                          /\ \A x \in DOMAIN a[t] \ {Fresh(h)[t]} : g[t][x] = a[t][x]
            /\ t \notin T => g[t] = a[t]
  BY <1>2, FreeShape
<1>4. \A t \in Worker : Fresh(h)[t] \notin DOMAIN h[t]
  BY FreshIsFree
<1> HIDE DEF g
<1>5. ASSUME NEW t \in Worker
      PROVE  DOMAIN g[t] = DOMAIN h[t] /\ \A x \in DOMAIN h[t] : g[t][x] = h[t][x]
  <2>1. CASE t \in T
    <3>1. DOMAIN g[t] = (DOMAIN h[t] \cup {Fresh(h)[t]}) \ {Fresh(h)[t]}
      BY <1>2, <1>3, <2>1
    <3> QED BY <1>2, <1>3, <1>4, <2>1, <3>1
  <2>2. CASE t \notin T
    BY <1>2, <1>3, <2>2
  <2> QED BY <2>1, <2>2
<1>6. SameHeap(g, h)
  BY <1>3, <1>5 DEF SameHeap
<1> QED BY <1>3, <1>6 DEF g, a

\* A new scratch is one of its key, with the new buffers.
LEMMA ScratchShape ==
    ASSUME NEW h, Finite(h), NEW k \in Key, NEW now \in Nat
    PROVE  /\ Entry(k, Scratch(k, h), now) \in Entries
           /\ Entry(k, Scratch(k, h), now).key = k
           /\ Entry(k, Scratch(k, h), now).stamp = now
           /\ Entry(k, Scratch(k, h), now).slot = Scratch(k, h)
           /\ Scratch(k, h).nt = Slices(k)
           /\ \A t \in 1 .. Slices(k) : Scratch(k, h).wt[t] = Fresh(h)[t]
<1> DEFINE s == Scratch(k, h)
           e == Entry(k, s, now)
<1>1. Slices(k) \in Worker /\ 1 .. Slices(k) \subseteq Worker
  BY SlicesRange, PrepackedAssumption DEF Worker
<1>2. \A t \in 1 .. Slices(k) : Fresh(h)[t] \in Nat
  BY <1>1, FreshIsFree
<1>3. /\ s \in SlotOf(k) /\ s.nt = Slices(k)
      /\ \A t \in 1 .. Slices(k) : s.wt[t] = Fresh(h)[t]
  BY <1>2 DEF Scratch, SlotOf
<1> HIDE DEF s
<1>4. e \in EntryOf(k) /\ e.key = k /\ e.stamp = now /\ e.slot = s
  BY <1>3 DEF Entry, EntryOf
<1> HIDE DEF e
<1>5. e \in Entries
  BY <1>4 DEF Entries
<1> QED BY <1>3, <1>4, <1>5 DEF s, e

-----------------------------------------------------------------------------
(* The state.                                                              *)

\* The tiling is the context's, and the context does not change it.
LEMMA SameTiling ==
    ASSUME canon' = canon
    PROVE  /\ Entries' = Entries /\ Weights' = Weights
           /\ \A k : Slices(k)' = Slices(k)
           /\ \A k, t : Slice(k, t)' = Slice(k, t)
<1>1. \A k, t : Slice(k, t)' = Slice(k, t)
  BY DEF Slice
<1>2. \A k : Slices(k)' = Slices(k)
  BY DEF Slices
<1>3. \A k, t : SigOf(k, t)' = SigOf(k, t)
  BY <1>1 DEF SigOf
<1>4. Entries' = Entries
  BY <1>1, <1>2 DEF Entries, EntryOf, SlotOf
<1>5. Weights' = Weights
  BY <1>1, <1>2, <1>3 DEF Weights, WeightOf
<1> QED BY <1>1, <1>2, <1>4, <1>5

\* What a cached scratch is.
LEMMA CachedShape ==
    ASSUME cache \in Seq(Entries), NEW j \in DOMAIN cache
    PROVE  /\ cache[j] \in Entries /\ cache[j].key \in Key /\ cache[j].stamp \in Nat
           /\ cache[j].slot.key = cache[j].key
           /\ cache[j].slot.nt = Slices(cache[j].key)
           /\ cache[j].slot.nt \in Worker /\ 1 .. cache[j].slot.nt \subseteq Worker
           /\ cache[j].slot.w = [t \in 1 .. cache[j].slot.nt |-> Slice(cache[j].key, t)]
           /\ cache[j].slot.wt \in [1 .. cache[j].slot.nt -> Nat]
<1>1. cache[j] \in Entries
  OBVIOUS
<1>2. \A n \in Worker : 1 .. n \subseteq Worker
  BY PrepackedAssumption DEF Worker
<1> QED BY <1>1, <1>2, EntryShape

\* The two caches hold the same scratches, but for their buffers.
SameSlots(d, c) ==
    /\ Len(d) = Len(c) /\ DOMAIN d = DOMAIN c
    /\ \A j \in DOMAIN c : /\ d[j].key = c[j].key /\ d[j].stamp = c[j].stamp
                           /\ d[j].slot.key = c[j].slot.key
                           /\ d[j].slot.nt = c[j].slot.nt /\ d[j].slot.w = c[j].slot.w

\* A swap changes one buffer of one scratch.
LEMMA SwapShape ==
    ASSUME cache \in Seq(Entries), at \in DOMAIN cache, NEW t \in 1 .. Sc.nt, NEW x \in Nat,
           SetWt(t, x)
    PROVE  /\ cache' \in Seq(Entries) /\ SameSlots(cache', cache)
           /\ cache'[at].slot.wt[t] = x
           /\ \A j \in DOMAIN cache : \A u \in 1 .. cache[j].slot.nt :
                 ~(j = at /\ u = t) => cache'[j].slot.wt[u] = cache[j].slot.wt[u]
<1> DEFINE k == cache[at].key
           b == [Sc.wt EXCEPT ![t] = x]
           s == [Sc EXCEPT !.wt = b]
           e == [cache[at] EXCEPT !.slot = s]
<1>1. cache' = [cache EXCEPT ![at] = e]
  BY DEF SetWt, Sc
<1>2. cache[at] \in EntryOf(k) /\ k \in Key /\ Sc \in SlotOf(k) /\ Sc.nt = Slices(k)
  <2>1. cache[at] \in Entries
    OBVIOUS
  <2>2. cache[at] \in EntryOf(k) /\ k \in Key
    BY <2>1, EntryShape
  <2>3. Sc \in SlotOf(k)
    BY <2>2 DEF EntryOf, Sc
  <2> QED BY <2>2, <2>3 DEF SlotOf
<1>3. Sc.wt \in [1 .. Sc.nt -> Nat]
  BY <1>2 DEF SlotOf
<1>4. b \in [1 .. Sc.nt -> Nat] /\ b[t] = x /\ \A u \in 1 .. Sc.nt : u # t => b[u] = Sc.wt[u]
  BY <1>3
<1> HIDE DEF b
<1>5. /\ s \in SlotOf(k) /\ s.key = Sc.key /\ s.nt = Sc.nt /\ s.w = Sc.w /\ s.wt = b
  BY <1>2, <1>4 DEF SlotOf
<1> HIDE DEF s
<1>6. e \in EntryOf(k) /\ e.key = k /\ e.stamp = cache[at].stamp /\ e.slot = s
  BY <1>2, <1>5 DEF EntryOf
<1> HIDE DEF e
<1>7. e \in Entries
  BY <1>2, <1>6 DEF Entries
<1>8. cache' \in Seq(Entries) /\ Len(cache') = Len(cache) /\ DOMAIN cache' = DOMAIN cache
  BY <1>1, <1>7
<1>9. \A j \in DOMAIN cache : cache'[j] = IF j = at THEN e ELSE cache[j]
  BY <1>1
<1>10. SameSlots(cache', cache)
  BY <1>5, <1>6, <1>8, <1>9 DEF SameSlots, Sc
<1>11. cache'[at].slot.wt = b
  BY <1>5, <1>6, <1>9
<1>12. \A j \in DOMAIN cache : \A u \in 1 .. cache[j].slot.nt :
          ~(j = at /\ u = t) => cache'[j].slot.wt[u] = cache[j].slot.wt[u]
  BY <1>4, <1>9, <1>11 DEF Sc
<1> QED BY <1>4, <1>8, <1>10, <1>11, <1>12

-----------------------------------------------------------------------------
(* The cache.                                                              *)

\* The invariant of the cache and the call in flight.
CacheInv == Types /\ Calls /\ Fans /\ Keys

\* It holds when the context is not created yet.
LEMMA InitCache == Init => CacheInv
<1> SUFFICES ASSUME Init PROVE CacheInv
  OBVIOUS
<1> USE DEF Init
<1>1. NThreads \in Nat \ {0} /\ MaxUses \in Nat /\ MaxSlots \in Nat \ {0}
  BY PrepackedAssumption, SlotAssumption
<1>2. \A t \in Worker : heap[t] = <<>>
  OBVIOUS
<1>3. DOMAIN <<>> = {}
  OBVIOUS
<1>4. Finite(heap)
  BY <1>2, <1>3, FS_EmptySet DEF Finite
<1>5. cache \in Seq(Entries) /\ Len(cache) = 0 /\ DOMAIN cache = {}
  BY <1>3
<1>6. pc = "down" /\ pc \notin Busy /\ pc \notin Fan /\ pc \notin Resolved
  BY DEF Busy, Resolved, Fan
<1>7. Types
  BY <1>1, <1>4, <1>5 DEF Types, Phase
<1>8. Calls
  BY <1>6 DEF Calls
<1>9. Fans
  BY <1>6 DEF Fans
<1>10. Keys
  BY <1>5 DEF Keys
<1> QED BY <1>7, <1>8, <1>9, <1>10 DEF CacheInv

\* A step between calls.
LEMMA BetweenCalls ==
    ASSUME CacheInv,
           pc \notin Busy, pc' \in {"down", "idle", "freed"},
           fds' \in {{}, Worker}, pc' \in {"down", "freed"} => fds' = {},
           UNCHANGED <<canon, clock, lastUse, call, at, fanvars>>,
           cache' \in Seq(Entries), Len(cache') <= MaxSlots, Keys',
           wts' \in [Name -> Weights \cup {NoWeight}],
           DOMAIN heap' = Worker, Finite(heap')
    PROVE  CacheInv'
<1> USE DEF CacheInv, fanvars
<1>1. pc \notin Fan /\ pc' \notin Fan /\ pc' \notin Busy /\ pc' \notin Resolved
      /\ pc' \notin {"resolve", "build", "spawn", "inside", "joined"}
  BY DEF Busy, Resolved, Fan
<1>2. Types'
  BY SameTiling DEF Types
<1>3. Calls'
  BY <1>1 DEF Calls
<1>4. Fans'
  BY <1>1 DEF Fans
<1> QED BY <1>2, <1>3, <1>4

\* A call that returns.
LEMMA LeaveCache ==
    ASSUME CacheInv, pc \in Busy, Leave,
           UNCHANGED <<fds, canon, clock, lastUse>>,
           cache' \in Seq(Entries), Len(cache') <= MaxSlots, Keys',
           wts' \in [Name -> Weights \cup {NoWeight}],
           DOMAIN heap' = Worker, Finite(heap')
    PROVE  CacheInv'
<1> USE DEF CacheInv, Leave
<1>1. pc' = "idle" /\ pc' \notin Fan /\ pc' \notin Busy /\ pc' \notin Resolved
  BY DEF Busy, Resolved, Fan
<1>2. NThreads \in Nat \ {0} /\ MaxSlots \in Nat \ {0}
  BY PrepackedAssumption, SlotAssumption
<1>3. Types'
  BY <1>2, SameTiling DEF Types, Phase
<1>4. Calls'
  BY <1>1 DEF Calls
<1>5. Fans'
  BY <1>1 DEF Fans
<1> QED BY <1>3, <1>4, <1>5

\* Creating the context keeps it.
LEMMA CtxCreateCache == ASSUME CacheInv, CtxCreate PROVE CacheInv'
<1>1. pc = "down" /\ pc \notin Busy
  BY DEF CtxCreate, Busy, Resolved, Fan
<1>2. /\ fds' \in {{}, Worker} /\ pc' \in {"down", "idle"}
      /\ pc' = "down" => fds' = {}
  <2>1. \A t \in Worker : (1 .. t - 1) \ Unwound(t) = {}
    BY DEF Unwound
  <2> QED BY <1>1, <2>1 DEF CtxCreate
<1>3. UNCHANGED <<canon, heap, clock, lastUse, cache, wts, call, at, fanvars>>
  BY DEF CtxCreate, cachevars
<1>4. Finite(heap') /\ DOMAIN heap' = Worker
  BY <1>3 DEF CacheInv, Types, Finite
<1>5. Keys'
  BY <1>3 DEF CacheInv, Keys
<1> QED BY <1>1, <1>2, <1>3, <1>4, <1>5, BetweenCalls DEF CacheInv, Types

\* So does freeing it, which empties the cache.
LEMMA CtxFreeCache == ASSUME CacheInv, CtxFree PROVE CacheInv'
<1>1. pc = "idle" /\ pc \notin Busy
  BY DEF CtxFree, Busy, Resolved, Fan
<1>2. cache' = <<>> /\ fds' = {} /\ pc' = "freed"
      /\ UNCHANGED <<canon, clock, lastUse, wts, call, at, fanvars>>
  BY DEF CtxFree
<1>3. \A t \in Worker : DOMAIN heap'[t] \subseteq DOMAIN heap[t]
  BY DEF CtxFree
<1>4. DOMAIN heap' = Worker
  BY DEF CtxFree
<1>5. Finite(heap')
  BY <1>3, FS_Subset DEF CacheInv, Types, Finite
<1>6. cache' \in Seq(Entries) /\ Len(cache') = 0 /\ DOMAIN cache' = {}
  BY <1>2
<1>7. Keys'
  BY <1>6 DEF Keys
<1> QED BY <1>1, <1>2, <1>4, <1>5, <1>6, <1>7, BetweenCalls, SlotAssumption DEF CacheInv, Types

\* A call that begins sets out to resolve a scratch of its key.
LEMMA BeginCache ==
    ASSUME CacheInv, NEW op \in {"pack", "run", "stream"}, NEW a \in Name, NEW k \in Key,
           op = "pack" => wts[a] = NoWeight, Begin(op, a, k)
    PROVE  CacheInv' /\ CallKey' = k
<1> USE DEF CacheInv, Begin, ctxvars, cachevars
<1>1. pc' = "resolve" /\ pc' \notin Fan /\ pc' \in Busy /\ pc' \notin Resolved /\ pc \notin Fan
  BY DEF Busy, Resolved, Fan
<1>2. CallKey' = k
  <2>1. k \in [m : Nat \ {0}, n : Nat \ {0}, split : BOOLEAN]
    BY PrepackedAssumption
  <2>2. k = [m |-> k.m, n |-> k.n, split |-> k.split]
    BY <2>1
  <2>3. call'.m = k.m /\ call'.n = k.n /\ call'.split = k.split
    OBVIOUS
  <2> QED BY <2>2, <2>3 DEF CallKey
<1>3. call'.op = op /\ call'.src = a /\ DOMAIN C' = Cells(k)
  OBVIOUS
<1>4. Types'
  BY <1>1, SameTiling DEF Types, Finite
<1>5. Calls'
  BY <1>1, <1>2, <1>3 DEF Calls, Types
<1>6. Fans'
  BY <1>1 DEF Fans
<1>7. Keys'
  BY DEF Keys
<1> QED BY <1>2, <1>4, <1>5, <1>6, <1>7

\* A hit resolves to the entry of the call's key and stamps it.
LEMMA HitCache == ASSUME CacheInv, Hit PROVE CacheInv'
<1> USE DEF CacheInv
<1> DEFINE j == Found(cache, CallKey)
<1>1. /\ pc = "resolve" /\ pc' = "have" /\ j # 0 /\ at' = j
      /\ clock' = clock + 1 /\ cache' = Touched(cache, j, clock + 1)
      /\ lastUse' = [lastUse EXCEPT ![CallKey] = clock + 1]
      /\ UNCHANGED <<fds, canon, heap, wts, call, next, wpc, saved, ret, C>>
  BY DEF Hit, ctxvars, fanvars
<1>2. j \in DOMAIN cache /\ cache[j].key = CallKey
  BY <1>1, FoundSound DEF Types
<1>3. clock + 1 \in Nat /\ clock + 1 \in 0 .. MaxUses /\ CallKey \in Key
  BY <1>1, PrepackedAssumption DEF Types, Calls, Busy
<1> HIDE DEF j
<1>4. /\ cache' \in Seq(Entries) /\ Len(cache') = Len(cache) /\ DOMAIN cache' = DOMAIN cache
      /\ \A h \in DOMAIN cache : cache'[h].key = cache[h].key /\ (h # j => cache'[h] = cache[h])
      /\ cache'[j].stamp = clock + 1
  BY <1>1, <1>2, <1>3, TouchedShape DEF Types
<1>5. pc' \in Busy /\ pc \in Busy /\ pc' \in Resolved /\ pc' \notin Fan /\ pc \notin Fan
  BY <1>1 DEF Busy, Resolved, Fan
<1>6. j \in 0 .. MaxSlots /\ j \in DOMAIN cache
  BY <1>2, SlotAssumption DEF Types
<1>7. Types'
  BY <1>1, <1>3, <1>4, <1>5, <1>6, SameTiling DEF Types, Finite
<1>8. Calls'
  BY <1>1, <1>2, <1>4, <1>5 DEF Calls, CallKey
<1>9. Fans'
  BY <1>1, <1>5 DEF Fans
<1>10. Keys'
  <2>1. \A h \in DOMAIN cache : h # j => cache[h].key # CallKey
    BY <1>2 DEF Keys
  <2>2. \A h \in DOMAIN cache : cache'[h].stamp = lastUse'[cache'[h].key]
    BY <1>1, <1>2, <1>3, <1>4, <2>1 DEF Keys, Types
  <2> QED BY <1>4, <2>2 DEF Keys
<1> QED BY <1>7, <1>8, <1>9, <1>10

\* A miss, or a victim picked, sets out to build where no entry of the key is.
LEMMA MissCache == ASSUME CacheInv, Miss \/ Recycle PROVE CacheInv'
<1> USE DEF CacheInv
<1>1. /\ pc = "resolve" /\ pc' = "build" /\ Found(cache, CallKey) = 0
      /\ UNCHANGED <<fds, canon, clock, cache, lastUse, wts, call, next, wpc, saved, ret, C>>
  BY DEF Miss, Recycle, ctxvars, cachevars, fanvars
<1>2. pc' \in Busy /\ pc \in Busy /\ pc' \notin Resolved /\ pc' \notin Fan /\ pc \notin Fan
  BY <1>1 DEF Busy, Resolved, Fan
<1>3. \A j \in DOMAIN cache : cache[j].key # CallKey
  BY <1>1, FoundSound DEF Types
<1>4. at' \in 1 .. Len(cache) + 1 /\ at' <= MaxSlots
  <2>0. Len(cache) \in Nat /\ MaxSlots \in Nat \ {0} /\ DOMAIN cache = 1 .. Len(cache)
        /\ Len(cache) <= MaxSlots
    BY SlotAssumption DEF Types
  <2>1. CASE Miss
    BY <2>0, <2>1 DEF Miss, Full
  <2>2. CASE Recycle
    <3>1. Len(cache) > 0 /\ at' = Victim(cache)
      BY <2>0, <2>2 DEF Recycle, Full
    <3>2. at' \in DOMAIN cache
      BY <3>1, VictimLeast DEF Types
    <3> QED BY <2>0, <3>2
  <2> QED BY <2>1, <2>2
<1>5. DOMAIN heap' = Worker /\ Finite(heap')
  BY FreeShape DEF Miss, Recycle, Types, Finite
<1>6. Types'
  BY <1>1, <1>2, <1>4, <1>5, SameTiling, SlotAssumption DEF Types
<1>7. Calls'
  BY <1>1, <1>2, <1>3, <1>4 DEF Calls, CallKey
<1>8. Fans'
  BY <1>1, <1>2 DEF Fans
<1>9. Keys'
  BY <1>1 DEF Keys
<1> QED BY <1>6, <1>7, <1>8, <1>9

\* A build leaves one more key cached, or the victim's replaced.
LEMMA BuildCache == ASSUME CacheInv, Build PROVE CacheInv'
<1> USE DEF CacheInv
<1> DEFINE s == Scratch(CallKey, heap)
           e == Entry(CallKey, s, clock + 1)
<1>1. /\ pc = "build" /\ pc' = "have" /\ heap' = AllocOn(heap, Zeroed(1 .. s.nt))
      /\ clock' = clock + 1 /\ cache' = Filled(cache, at, e)
      /\ lastUse' = [lastUse EXCEPT ![CallKey] = clock + 1]
      /\ UNCHANGED <<fds, canon, wts, call, at, next, wpc, saved, ret, C>>
  BY DEF Build, ctxvars, fanvars
<1>2. pc' \in Busy /\ pc \in Busy /\ pc' \in Resolved /\ pc' \notin Fan /\ pc \notin Fan
  BY <1>1 DEF Busy, Resolved, Fan
<1>3. clock + 1 \in Nat /\ clock + 1 \in 0 .. MaxUses /\ CallKey \in Key
  BY <1>1, <1>2, PrepackedAssumption DEF Types, Calls
<1>4. e \in Entries /\ e.key = CallKey /\ e.stamp = clock + 1
  BY <1>3, ScratchShape DEF Types
<1>5. at \in 1 .. Len(cache) + 1 /\ at \in 0 .. MaxSlots
      /\ \A j \in DOMAIN cache : cache[j].key # CallKey
  BY <1>1 DEF Calls, Types
<1>6. DOMAIN heap' = Worker /\ Finite(heap')
  BY <1>1, AllocShape DEF Types
<1> HIDE DEF e, s
<1>7. /\ cache' \in Seq(Entries) /\ DOMAIN cache' = DOMAIN cache \cup {at}
      /\ at > Len(cache) => Len(cache') = Len(cache) + 1
      /\ at <= Len(cache) => Len(cache') = Len(cache)
      /\ cache'[at] = e /\ \A h \in DOMAIN cache : h # at => cache'[h] = cache[h]
  <2>1. cache \in Seq(Entries) /\ cache' = Filled(cache, at, e)
    BY <1>1 DEF Types
  <2>2. e \in Entries /\ at \in 1 .. Len(cache) + 1
    BY <1>4, <1>5
  <2>3. /\ Filled(cache, at, e) \in Seq(Entries)
        /\ DOMAIN Filled(cache, at, e) = DOMAIN cache \cup {at}
        /\ at > Len(cache) => Len(Filled(cache, at, e)) = Len(cache) + 1
        /\ at <= Len(cache) => Len(Filled(cache, at, e)) = Len(cache)
        /\ Filled(cache, at, e)[at] = e
        /\ \A h \in DOMAIN cache : h # at => Filled(cache, at, e)[h] = cache[h]
    BY <2>1, <2>2, FilledShape
  <2> QED BY <2>1, <2>3
<1>8. Len(cache') <= MaxSlots
  <2>1. Len(cache) \in Nat /\ MaxSlots \in Nat /\ Len(cache) <= MaxSlots
    BY SlotAssumption DEF Types
  <2>2. at \in Nat /\ at <= MaxSlots /\ at <= Len(cache) + 1
    BY <2>1, <1>5
  <2>3. /\ at > Len(cache) => Len(cache') = Len(cache) + 1
        /\ at <= Len(cache) => Len(cache') = Len(cache)
    BY <1>7
  <2> QED BY <2>1, <2>2, <2>3
<1>9. Types'
  BY <1>1, <1>2, <1>3, <1>6, <1>7, <1>8, SameTiling DEF Types
<1>10. Calls'
  BY <1>1, <1>2, <1>4, <1>7 DEF Calls, CallKey
<1>11. Fans'
  BY <1>1, <1>2 DEF Fans
<1>12. Keys'
  <2>1. \A h \in DOMAIN cache' : h # at => h \in DOMAIN cache /\ cache'[h] = cache[h]
    BY <1>7
  <2>2. \A h \in DOMAIN cache' : h # at => cache'[h].key # CallKey
    BY <1>5, <2>1
  <2>3. \A j, h \in DOMAIN cache' : cache'[j].key = cache'[h].key => j = h
    BY <1>4, <1>7, <2>1, <2>2 DEF Keys
  <2>4. \A h \in DOMAIN cache' : cache'[h].stamp = lastUse'[cache'[h].key]
    BY <1>1, <1>3, <1>4, <1>7, <2>1, <2>2 DEF Keys, Types
  <2> QED BY <2>3, <2>4 DEF Keys
<1> QED BY <1>9, <1>10, <1>11, <1>12

\* A build that fails leaves the cache without the victim, and the call returns.
LEMMA BuildFailsCache == ASSUME CacheInv, BuildFails PROVE CacheInv'
<1>1. pc = "build" /\ pc \in Busy /\ cache' = Compacted(cache, at) /\ Leave
      /\ UNCHANGED <<fds, canon, clock, lastUse, wts>>
  BY DEF BuildFails, Busy, ctxvars
<1>2. PICK t \in 1 .. Slices(CallKey) :
          heap' = FreeOn(AllocOn(heap, Zeroed(Unwound(t))), Unwound(t), Fresh(heap))
  BY DEF BuildFails, Unwound
<1>3. Finite(heap') /\ DOMAIN heap' = Worker
  BY <1>2, UndoneShape DEF CacheInv, Types, SameHeap
<1>4. at \in 1 .. Len(cache) + 1
  BY <1>1 DEF CacheInv, Calls
<1>5. /\ cache' \in Seq(Entries) /\ Len(cache') <= Len(cache)
      /\ \A h \in DOMAIN cache' : /\ Moved(cache, at, h) \in DOMAIN cache \ {at}
                                  /\ cache'[h] = cache[Moved(cache, at, h)]
      /\ \A h, i \in DOMAIN cache' : Moved(cache, at, h) = Moved(cache, at, i) => h = i
  BY <1>1, <1>4, CompactedShape DEF CacheInv, Types
<1>6. Len(cache') <= MaxSlots
  BY <1>5, SlotAssumption DEF CacheInv, Types
<1>7. Keys'
  BY <1>1, <1>5 DEF CacheInv, Keys
<1> QED BY <1>1, <1>3, <1>5, <1>6, <1>7, LeaveCache DEF CacheInv, Types

\* Packing makes a resident weight of the shape its key has.
LEMMA PackCache == ASSUME CacheInv, Pack PROVE CacheInv'
<1> DEFINE k == CallKey
           w == [m |-> call.m, n |-> call.n, split |-> call.split, nt |-> Sc.nt,
                 wt |-> [t \in 1 .. Sc.nt |-> Fresh(heap)[t]],
                 sig |-> [t \in 1 .. Sc.nt |-> Sig(Sc, t)]]
<1>1. /\ pc = "have" /\ pc \in Busy /\ pc \in Resolved /\ Leave
      /\ UNCHANGED <<fds, canon, clock, lastUse, cache>>
      /\ wts' = [wts EXCEPT ![call.src] = w]
      /\ heap' = AllocOn(heap, [t \in 1 .. Sc.nt |-> [src |-> call.src, sig |-> Sig(Sc, t)]])
  BY DEF Pack, Busy, Resolved, Fan, ctxvars, cachevars
<1>2. Finite(heap) /\ cache \in Seq(Entries) /\ at \in DOMAIN cache /\ cache[at].key = k
      /\ k \in Key
  BY <1>1 DEF CacheInv, Calls, Types
<1>3. DOMAIN heap' = Worker /\ Finite(heap')
  BY <1>1, <1>2, AllocShape
<1>4. /\ Sc.nt = Slices(k) /\ 1 .. Sc.nt \subseteq Worker
      /\ Sc.w = [t \in 1 .. Sc.nt |-> Slice(k, t)]
  BY <1>2, CachedShape DEF Sc
<1>5. \A t \in 1 .. Sc.nt : Fresh(heap)[t] \in Nat
  BY <1>2, <1>4, FreshIsFree
<1>6. \A t \in 1 .. Sc.nt : Sig(Sc, t) = SigOf(k, t)
  BY <1>4 DEF Sig, SigOf
<1>7. k.m = call.m /\ k.n = call.n /\ k.split = call.split
  BY DEF CallKey
<1>8. [t \in 1 .. Sc.nt |-> Fresh(heap)[t]] \in [1 .. Slices(k) -> Nat]
  BY <1>4, <1>5
<1>9. [t \in 1 .. Sc.nt |-> Sig(Sc, t)] = [t \in 1 .. Slices(k) |-> SigOf(k, t)]
  BY <1>4, <1>6
<1> HIDE DEF k
<1>10. w \in WeightOf(k)
  BY <1>4, <1>7, <1>8, <1>9 DEF WeightOf
<1> HIDE DEF w
<1>11. w \in Weights
  BY <1>2, <1>10 DEF Weights
<1>12. wts' \in [Name -> Weights \cup {NoWeight}]
  BY <1>1, <1>11 DEF CacheInv, Types
<1>13. Keys'
  BY <1>1 DEF CacheInv, Keys
<1> QED BY <1>1, <1>3, <1>12, <1>13, LeaveCache DEF CacheInv, Types

\* Packing that fails frees what it had allocated.
LEMMA PackFailsCache == ASSUME CacheInv, PackFails PROVE CacheInv' /\ SameHeap(heap', heap)
<1>1. /\ pc = "have" /\ pc \in Busy /\ Leave
      /\ UNCHANGED <<fds, canon, clock, lastUse, cache, wts>>
  BY DEF PackFails, Busy, Resolved, Fan, ctxvars, cachevars
<1>2. PICK held : heap' = FreeOn(AllocOn(heap, Zeroed(held)), held, Fresh(heap))
  BY DEF PackFails, PackUnwound
<1>3. Finite(heap') /\ DOMAIN heap' = Worker /\ SameHeap(heap', heap)
  BY <1>2, UndoneShape DEF CacheInv, Types, SameHeap
<1>4. Keys'
  BY <1>1 DEF CacheInv, Keys
<1> QED BY <1>1, <1>3, <1>4, LeaveCache DEF CacheInv, Types

\* Freeing a weight touches neither the cache nor a call.
LEMMA WeightsFreeCache == ASSUME CacheInv, NEW a \in Name, WeightsFree(a) PROVE CacheInv'
<1>1. /\ pc = "idle" /\ pc' = "idle" /\ pc \notin Busy
      /\ heap' = FreeOn(heap, 1 .. wts[a].nt, wts[a].wt)
      /\ wts' = [wts EXCEPT ![a] = NoWeight]
      /\ UNCHANGED <<fds, canon, clock, lastUse, cache, call, at, fanvars>>
  BY DEF WeightsFree, Busy, Resolved, Fan, ctxvars, cachevars
<1>2. DOMAIN heap' = Worker /\ Finite(heap')
  BY <1>1, FreeShape DEF CacheInv, Types
<1>3. wts' \in [Name -> Weights \cup {NoWeight}]
  BY <1>1 DEF CacheInv, Types
<1>4. Keys'
  BY <1>1 DEF CacheInv, Keys
<1> QED BY <1>1, <1>2, <1>3, <1>4, BetweenCalls DEF CacheInv, Types

\* A call refused and a call done both return with the cache as it is.
LEMMA ReturnCache == ASSUME CacheInv, Refuse \/ Return PROVE CacheInv'
<1>1. /\ pc \in Busy /\ Leave
      /\ UNCHANGED <<fds, canon, clock, lastUse, cache, heap, wts>>
  BY DEF Refuse, Return, Busy, Resolved, Fan, ctxvars, cachevars
<1>2. Finite(heap') /\ DOMAIN heap' = Worker
  BY <1>1 DEF CacheInv, Types, Finite
<1>3. Keys'
  BY <1>1 DEF CacheInv, Keys
<1> QED BY <1>1, <1>2, <1>3, LeaveCache DEF CacheInv, Types

\* A step of the fan-out: the caller's or a worker's.
LEMMA FanCache ==
    ASSUME CacheInv, pc \in Resolved, pc' \in Fan, Fans',
           call.op # "pack", call.op = "run" => Fits(wts[call.src], Sc),
           UNCHANGED <<fds, canon, clock, lastUse, wts, call, at>>,
           DOMAIN C' = DOMAIN C, DOMAIN heap' = Worker, Finite(heap'),
           cache' \in Seq(Entries), SameSlots(cache', cache),
           next' \in 1 .. NThreads + 1,
           wpc' \in [Worker -> Phase], saved' \in [Worker -> Nat], ret' \in [Worker -> Int]
    PROVE  CacheInv'
<1> USE DEF CacheInv
<1>1. pc' \in Busy /\ pc' \in Resolved /\ pc \in Busy /\ pc' \notin {"resolve", "build"}
  BY DEF Busy, Resolved, Fan
<1>2. at \in DOMAIN cache
  BY DEF Calls
<1>3. Types'
  BY <1>1, SameTiling DEF Types, SameSlots
<1>4. Sc'.key = Sc.key /\ Sc'.nt = Sc.nt /\ Sc'.w = Sc.w /\ cache'[at].key = cache[at].key
  BY <1>2 DEF Sc, SameSlots
<1>5. call.op = "run" => Fits(wts[call.src], Sc)'
  BY <1>4 DEF Fits, Sig
<1>6. Calls'
  BY <1>1, <1>2, <1>4, <1>5 DEF Calls, CallKey, SameSlots
<1>7. Keys'
  BY DEF Keys, SameSlots
<1> QED BY <1>3, <1>6, <1>7

\* The same when the cache and the heap stay as they are.
LEMMA QuietCache ==
    ASSUME CacheInv, pc \in Resolved, pc' \in Fan, Fans',
           call.op # "pack", call.op = "run" => Fits(wts[call.src], Sc),
           UNCHANGED <<fds, canon, heap, cache, clock, lastUse, wts, call, at>>,
           DOMAIN C' = DOMAIN C, next' \in 1 .. NThreads + 1,
           wpc' \in [Worker -> Phase], saved' \in [Worker -> Nat], ret' \in [Worker -> Int]
    PROVE  CacheInv'
<1>1. cache' \in Seq(Entries) /\ DOMAIN heap' = Worker /\ Finite(heap')
  BY DEF CacheInv, Types, Finite
<1>2. SameSlots(cache', cache)
  BY DEF SameSlots
<1> QED BY <1>1, <1>2, FanCache

\* What is known of the scratch in use.
LEMMA InUse ==
    ASSUME CacheInv, pc \in Resolved
    PROVE  /\ at \in DOMAIN cache /\ cache \in Seq(Entries)
           /\ Sc.nt \in Worker /\ 1 .. Sc.nt \subseteq Worker /\ Sc.nt \in Nat /\ Sc.nt <= NThreads
           /\ Sc.wt \in [1 .. Sc.nt -> Nat] /\ Sc.key = CallKey /\ Sc.nt = Slices(CallKey)
           /\ Sc.w = [t \in 1 .. Sc.nt |-> Slice(CallKey, t)]
           /\ next \in 1 .. NThreads + 1 /\ NThreads \in Nat \ {0} /\ CallKey \in Key
<1>1. at \in DOMAIN cache /\ cache \in Seq(Entries) /\ cache[at].key = CallKey
      /\ next \in 1 .. NThreads + 1
  BY DEF CacheInv, Types, Calls
<1>2. NThreads \in Nat \ {0}
  BY PrepackedAssumption
<1> QED BY <1>1, <1>2, CachedShape DEF Sc, Worker

\* A call with its scratch starts its fan-out.
LEMMA GoCache == ASSUME CacheInv, Go PROVE CacheInv'
<1>1. /\ pc = "have" /\ pc' = "spawn" /\ pc \in Resolved /\ pc \notin Fan /\ pc' \in Fan
      /\ call.op # "pack" /\ (call.op = "run" => Fits(wts[call.src], Sc))
      /\ UNCHANGED <<fds, canon, heap, cache, clock, lastUse, wts, call, at, next, wpc, saved, ret, C>>
  BY DEF Go, Resolved, Fan, ctxvars, cachevars, fanvars
<1>2. Fans'
  BY <1>1 DEF CacheInv, Fans
<1> QED BY <1>1, <1>2, QuietCache DEF CacheInv, Types

\* A worker thread starts, or does not.
LEMMA SpawnCache == ASSUME CacheInv, NEW ok \in BOOLEAN, Spawn(ok) PROVE CacheInv'
<1> DEFINE v == IF ok THEN "start" ELSE "failed"
<1>1. /\ pc = "spawn" /\ pc' = "spawn" /\ pc \in Resolved /\ pc \in Fan /\ pc' \in Fan
      /\ next <= Sc.nt /\ wpc' = [wpc EXCEPT ![next] = v] /\ next' = next + 1
      /\ UNCHANGED <<fds, canon, heap, cache, clock, lastUse, wts, call, at, saved, ret, C>>
  BY DEF Spawn, Resolved, Fan, ctxvars, cachevars
<1>2. next \in Worker /\ next' \in 1 .. NThreads + 1 /\ v \in Phase
  BY <1>1, InUse DEF Worker, Phase
<1>3. Fans'
  <2>1. Sc' = Sc /\ Sc.nt \in Nat
    BY <1>1, InUse DEF Sc
  <2>2. \A t \in Worker : t # next => wpc'[t] = wpc[t]
    BY <1>1, <1>2 DEF CacheInv, Types
  <2>3. \A t \in Worker : t > Sc.nt => wpc'[t] = "none"
    BY <1>1, <1>2, <2>1, <2>2 DEF CacheInv, Fans, Worker
  <2>4. \A t \in Worker : t >= next' => wpc'[t] = "none"
    BY <1>1, <1>2, <2>2 DEF CacheInv, Fans, Worker
  <2> QED BY <1>1, <2>1, <2>3, <2>4 DEF Fans
<1>4. wpc' \in [Worker -> Phase] /\ saved' \in [Worker -> Nat] /\ ret' \in [Worker -> Int]
  BY <1>1, <1>2 DEF CacheInv, Types
<1> QED BY <1>1, <1>2, <1>3, <1>4, QuietCache DEF CacheInv, Calls

\* The slice of a thread that did not start is done on the calling thread.
LEMMA InlineCache == ASSUME CacheInv, Inline \/ InlineDone \/ Join PROVE CacheInv'
<1>1. /\ pc \in Fan /\ pc \in Resolved /\ pc' \in Fan
      /\ UNCHANGED <<fds, canon, heap, cache, clock, lastUse, wts, call, at, wpc, saved, ret, C>>
  BY DEF Inline, InlineDone, Join, Resolved, Fan, ctxvars, cachevars, fanvars
<1>2. next' \in 1 .. NThreads + 1
  BY <1>1, InUse DEF Inline, InlineDone, Join, fanvars, CacheInv, Fans
<1>3. Fans'
  <2>1. Sc' = Sc /\ Sc.nt \in Nat
    BY <1>1, InUse DEF Sc
  <2>2. \A t \in Worker : t > Sc.nt => wpc'[t] = "none"
    BY <1>1 DEF CacheInv, Fans
  <2>3. pc' = "joined" => \A t \in Worker : t <= Sc.nt => wpc'[t] = "done"
    BY <1>1, <2>1 DEF Inline, InlineDone, Join, Worker
  <2>4. pc' \notin {"spawn", "inside"} /\ pc' # "down" /\ pc' # "freed"
    BY DEF Inline, InlineDone, Join
  <2> QED BY <1>1, <2>1, <2>2, <2>3, <2>4 DEF Fans
<1>4. wpc' \in [Worker -> Phase] /\ saved' \in [Worker -> Nat] /\ ret' \in [Worker -> Int]
  BY <1>1 DEF CacheInv, Types
<1> QED BY <1>1, <1>2, <1>3, <1>4, QuietCache DEF CacheInv, Calls

\* A call of one slice runs on the calling thread.
LEMMA RunInlineCache == ASSUME CacheInv, RunInline PROVE CacheInv'
<1>1. /\ pc = "inline" /\ pc \in Fan /\ pc \in Resolved /\ next <= Sc.nt
      /\ UNCHANGED <<fds, canon, heap, cache, clock, lastUse, wts, call, at, saved, ret, C>>
      /\ \/ /\ wpc' = [wpc EXCEPT ![next] = "start"] /\ pc' = "inside" /\ next' = next
         \/ next' = next + 1 /\ wpc' = wpc /\ pc' = pc
  BY DEF RunInline, Resolved, Fan, ctxvars, cachevars
<1>2. next \in Worker /\ next' \in 1 .. NThreads + 1
  BY <1>1, InUse DEF Worker
<1>3. pc' \in {"inline", "inside"} /\ pc' \in Fan
  BY <1>1 DEF Fan
<1>4. wpc' \in [Worker -> Phase] /\ saved' \in [Worker -> Nat] /\ ret' \in [Worker -> Int]
  BY <1>1, <1>2 DEF CacheInv, Types, Phase
<1>5. Fans'
  <2>1. Sc' = Sc /\ Sc.nt \in Nat
    BY <1>1, InUse DEF Sc
  <2>0. wpc \in [Worker -> Phase] /\ \A t \in Worker : t > Sc.nt => wpc[t] = "none"
    BY <1>1 DEF CacheInv, Fans, Types
  <2>2. \A t \in Worker : t > Sc.nt => wpc'[t] = "none"
    <3> SUFFICES ASSUME NEW t \in Worker, t > Sc.nt PROVE wpc'[t] = "none"
      OBVIOUS
    <3>1. t # next
      BY <1>1, <1>2, <2>1 DEF Worker
    <3> QED BY <1>1, <2>0, <3>1
  <2> QED BY <1>1, <1>3, <2>1, <2>2 DEF Fans
<1> QED BY <1>1, <1>2, <1>3, <1>4, <1>5, QuietCache DEF CacheInv, Calls

\* A worker that runs belongs to the call in flight.
LEMMA Running ==
    ASSUME CacheInv, NEW t \in Worker, wpc[t] \notin {"none", "done"}
    PROVE  /\ pc \in Fan /\ pc # "joined" /\ pc \in Resolved /\ t \in 1 .. Sc.nt
           /\ pc = "spawn" => t < next
<1>1. pc \in Fan
  BY DEF CacheInv, Fans
<1>2. pc \in Resolved
  BY <1>1 DEF Resolved
<1>3. t \in 1 .. Sc.nt
  BY <1>1, <1>2, InUse DEF CacheInv, Fans, Worker
<1>4. pc # "joined" /\ (pc = "spawn" => t < next)
  BY <1>3, <1>2, InUse DEF CacheInv, Fans, Worker
<1> QED BY <1>1, <1>2, <1>3, <1>4

\* A worker that runs moves on.
LEMMA PhaseFans ==
    ASSUME CacheInv, NEW t \in Worker, wpc[t] \notin {"none", "done"},
           NEW v \in Phase, wpc' = [wpc EXCEPT ![t] = v],
           UNCHANGED <<fds, pc, next, at>>, Sc'.nt = Sc.nt
    PROVE  Fans' /\ wpc' \in [Worker -> Phase]
<1>1. /\ pc \in Fan /\ pc # "joined" /\ t \in 1 .. Sc.nt /\ (pc = "spawn" => t < next)
      /\ Sc.nt \in Nat /\ next \in 1 .. NThreads + 1
  BY Running, InUse
<1>2. wpc' \in [Worker -> Phase] /\ \A u \in Worker : u # t => wpc'[u] = wpc[u]
  BY DEF CacheInv, Types
<1>3. \A u \in Worker : u > Sc.nt => wpc'[u] = "none"
  BY <1>1, <1>2 DEF CacheInv, Fans, Worker
<1>4. pc = "spawn" => \A u \in Worker : u >= next => wpc'[u] = "none"
  BY <1>1, <1>2 DEF CacheInv, Fans, Worker
<1>5. pc = "inside" => next <= Sc.nt
  BY DEF CacheInv, Fans
<1>6. pc # "down" /\ pc # "freed"
  BY <1>1 DEF Fan
<1> QED BY <1>1, <1>2, <1>3, <1>4, <1>5, <1>6 DEF Fans

\* What every step of worker t leaves alone, and what it may do to the scratch.
WorkerFrame(t) ==
    /\ wpc[t] \notin {"none", "done"}
    /\ UNCHANGED <<fds, canon, clock, lastUse, wts, call, pc, at, next>>
    /\ DOMAIN C' = DOMAIN C /\ DOMAIN heap' = Worker /\ Finite(heap')
    /\ cache' \in Seq(Entries) /\ SameSlots(cache', cache)
    /\ \A j \in DOMAIN cache : \A u \in 1 .. cache[j].slot.nt :
          ~(j = at /\ u = t) => cache'[j].slot.wt[u] = cache[j].slot.wt[u]
    /\ \E v \in Phase : wpc' = [wpc EXCEPT ![t] = v]
    /\ saved' \in [Worker -> Nat] /\ \A u \in Worker : u # t => saved'[u] = saved[u]
    /\ ret' \in [Worker -> Int] /\ \A u \in Worker : u # t => ret'[u] = ret[u]

\* A step within its frame keeps the invariant.
LEMMA FrameCache == ASSUME CacheInv, NEW t \in Worker, WorkerFrame(t) PROVE CacheInv'
<1> USE DEF WorkerFrame
<1>1. pc \in Fan /\ pc \in Resolved /\ at \in DOMAIN cache
  BY Running, InUse
<1>2. Sc'.nt = Sc.nt
  BY <1>1 DEF SameSlots, Sc
<1>3. Fans' /\ wpc' \in [Worker -> Phase]
  BY <1>2, PhaseFans
<1>4. call.op # "pack" /\ (call.op = "run" => Fits(wts[call.src], Sc))
  BY <1>1 DEF CacheInv, Calls
<1>5. next' \in 1 .. NThreads + 1
  BY DEF CacheInv, Types
<1> QED BY <1>1, <1>3, <1>4, <1>5, FanCache

\* A resident weight that fits has a buffer for each slice.
LEMMA FitBuffers ==
    ASSUME CacheInv, pc \in Fan, call.op = "run"
    PROVE  /\ wts[call.src] \in Weights /\ wts[call.src].nt = Sc.nt /\ call.src \in Name
           /\ \A t \in 1 .. Sc.nt : wts[call.src].wt[t] \in Nat
           /\ \A t \in 1 .. Sc.nt : wts[call.src].sig[t] = Sig(Sc, t)
<1>1. pc \in Busy /\ pc \in Resolved
  BY DEF Busy, Resolved
<1>2. Fits(wts[call.src], Sc) /\ call.src \in Name
  BY <1>1 DEF CacheInv, Calls
<1>3. wts[call.src].nt = Sc.nt /\ \A t \in 1 .. Sc.nt : wts[call.src].sig[t] = Sig(Sc, t)
  BY <1>2 DEF Fits
<1>4. Sc.nt \in Worker
  BY <1>1, InUse
<1>5. wts[call.src] # NoWeight
  BY <1>3, <1>4 DEF NoWeight, Worker
<1>6. wts[call.src] \in Weights
  BY <1>2, <1>5 DEF CacheInv, Types
<1>7. wts[call.src].wt \in [1 .. wts[call.src].nt -> Nat]
  BY <1>6, WeightShape
<1> QED BY <1>2, <1>3, <1>6, <1>7

\* The unchanged cache in the frame's terms.
SameCache(t) ==
    /\ cache' \in Seq(Entries) /\ SameSlots(cache', cache)
    /\ \A j \in DOMAIN cache : \A u \in 1 .. cache[j].slot.nt :
          ~(j = at /\ u = t) => cache'[j].slot.wt[u] = cache[j].slot.wt[u]

\* A step that swaps at most the worker's own buffer keeps to the cache's frame.
LEMMA CacheKept ==
    ASSUME CacheInv, NEW t \in Worker, wpc[t] \notin {"none", "done"},
           \/ UNCHANGED cache
           \/ \E x \in Nat : SetWt(t, x)
    PROVE  SameCache(t)
<1>1. cache \in Seq(Entries) /\ at \in DOMAIN cache /\ t \in 1 .. Sc.nt
  BY Running, InUse
<1>2. CASE UNCHANGED cache
  BY <1>1, <1>2 DEF SameCache, SameSlots
<1>3. CASE \E x \in Nat : SetWt(t, x)
  BY <1>1, <1>3, SwapShape DEF SameCache
<1> QED BY <1>2, <1>3

\* Every step of a worker keeps within its frame.
LEMMA WorkerFrames == ASSUME CacheInv, NEW t \in Worker, WorkerStep(t) PROVE WorkerFrame(t)
<1>1. wpc[t] \notin {"none", "done"}
  BY DEF WorkerStep, Start, PackB, LoadA, Compute
<1>2. UNCHANGED <<fds, canon, clock, lastUse, wts, call, pc, at, next>>
  BY DEF WorkerStep, Start, PackB, LoadA, Compute, ctxvars
<1>3. DOMAIN C' = DOMAIN C
  BY DEF WorkerStep, Start, PackB, LoadA, Compute
<1>4. DOMAIN heap' = Worker /\ Finite(heap')
  <2>1. CASE UNCHANGED heap
    BY <2>1 DEF CacheInv, Types, Finite
  <2>2. ASSUME NEW x, NEW v, heap' = [heap EXCEPT ![t][x] = v]
        PROVE  DOMAIN heap' = Worker /\ Finite(heap')
    <3>1. DOMAIN heap = Worker
      BY DEF CacheInv, Types
    <3>2. DOMAIN heap' = Worker /\ \A u \in Worker : DOMAIN heap'[u] = DOMAIN heap[u]
      BY <2>2, <3>1
    <3> QED BY <3>2 DEF CacheInv, Types, Finite
  <2> QED BY <2>1, <2>2 DEF WorkerStep, Start, PackB, LoadA, Compute
<1>5. \E v \in Phase : wpc' = [wpc EXCEPT ![t] = v]
  BY DEF WorkerStep, Start, PackB, LoadA, Compute, Exit, Phase
<1>6. ret' \in [Worker -> Int] /\ \A u \in Worker : u # t => ret'[u] = ret[u]
  BY DEF WorkerStep, Start, PackB, LoadA, Compute, Exit, CacheInv, Types
<1>7. pc \in Fan /\ t \in 1 .. Sc.nt /\ Sc.wt \in [1 .. Sc.nt -> Nat] /\ pc \in Resolved
  BY <1>1, Running, InUse
<1>8. Sc.wt[t] \in Nat /\ saved[t] \in Nat
  BY <1>7 DEF CacheInv, Types
<1>9. saved' \in [Worker -> Nat] /\ \A u \in Worker : u # t => saved'[u] = saved[u]
  BY <1>8 DEF WorkerStep, Start, PackB, LoadA, Compute, CacheInv, Types
<1>10. UNCHANGED cache \/ \E x \in Nat : SetWt(t, x)
  <2>1. CASE Start(t)
    <3>1. call.op = "run" => wts[call.src].wt[t] \in Nat
      BY <1>7, FitBuffers
    <3> QED BY <2>1, <3>1 DEF Start
  <2>2. CASE ~Start(t)
    BY <1>8, <2>2 DEF WorkerStep, PackB, LoadA, Compute, Restore
  <2> QED BY <2>1, <2>2
<1>11. SameCache(t)
  BY <1>1, <1>10, CacheKept
<1> QED BY <1>1, <1>2, <1>3, <1>4, <1>5, <1>6, <1>9, <1>11 DEF WorkerFrame, SameCache

\* Stuttering keeps the invariant.
LEMMA StutterCache == ASSUME CacheInv, UNCHANGED vars PROVE CacheInv'
<1> USE DEF vars, ctxvars, cachevars, fanvars
<1>1. Types'
  BY SameTiling DEF CacheInv, Types, Finite
<1>2. Calls'
  BY DEF CacheInv, Calls, CallKey, Sc, Fits, Sig
<1>3. Fans'
  BY DEF CacheInv, Fans, Sc
<1>4. Keys'
  BY DEF CacheInv, Keys
<1> QED BY <1>1, <1>2, <1>3, <1>4 DEF CacheInv

\* The three calls begin the same way.
LEMMA CallCache ==
    ASSUME CacheInv, NEW a \in Name, NEW k \in Key,
           CallPack(a, k) \/ CallRun(a, k) \/ CallStream(a, k)
    PROVE  CacheInv' /\ \E op \in {"pack", "run", "stream"} : Begin(op, a, k)
<1>1. PICK op \in {"pack", "run", "stream"} : Begin(op, a, k) /\ (op = "pack" => wts[a] = NoWeight)
  BY DEF CallPack, CallRun, CallStream
<1> QED BY <1>1, BeginCache

\* Every step keeps the invariant.
LEMMA NextCache == ASSUME CacheInv, [Next]_vars PROVE CacheInv'
<1>1. CASE Main
  <2>1. CASE \E a \in Name : \E k \in Key : CallPack(a, k) \/ CallRun(a, k) \/ CallStream(a, k)
    BY <2>1, CallCache
  <2>2. CASE \E a \in Name : WeightsFree(a)
    BY <2>2, WeightsFreeCache
  <2>3. CASE \E ok \in BOOLEAN : Spawn(ok)
    BY <2>3, SpawnCache
  <2> QED BY <1>1, <2>1, <2>2, <2>3, CtxCreateCache, CtxFreeCache, HitCache, MissCache,
             BuildCache, BuildFailsCache, PackCache, PackFailsCache, ReturnCache, GoCache,
             InlineCache, RunInlineCache DEF Main
<1>2. CASE \E t \in Worker : WorkerStep(t)
  BY <1>2, WorkerFrames, FrameCache
<1>3. CASE UNCHANGED vars
  BY <1>3, StutterCache
<1> QED BY <1>1, <1>2, <1>3 DEF Next

\* The invariant of the cache and the call in flight.
THEOREM CacheInvariant == Spec => []CacheInv
<1>1. Init => CacheInv
  BY InitCache
<1>2. CacheInv /\ [Next]_vars => CacheInv'
  BY NextCache
<1> QED BY <1>1, <1>2, PTL DEF Spec

\* Every variable keeps its type: the slot number, the worker counter and the
\* use clock stay within their bounds.
THEOREM TypesCorrect == Spec => []TypeOK
<1>1. CacheInv => TypeOK
  <2> SUFFICES ASSUME CacheInv PROVE TypeOK
    OBVIOUS
  <2>1. Types
    BY DEF CacheInv
  <2>2. \A j \in DOMAIN cache : cache[j].key \in Key /\ cache[j].slot.nt \in Worker
    BY <2>1, CachedShape DEF Types
  <2> QED BY <2>1, <2>2 DEF Types, TypeOK, Busy, Resolved, Fan, Phase
<1> QED BY <1>1, CacheInvariant, PTL

\* Between calls the cache is within its slots, every entry holds a scratch
\* built for its own key and no key has two: the slot a failed rebuild leaves
\* empty is compacted away (rocket_slot_get).
THEOREM CacheCorrect == Spec => []CacheSound
<1>1. CacheInv => CacheSound
  <2> SUFFICES ASSUME CacheInv PROVE CacheSound
    OBVIOUS
  <2>1. Len(cache) <= MaxSlots /\ \A j \in DOMAIN cache : cache[j].slot.key = cache[j].key
    BY CachedShape DEF CacheInv, Types
  <2> QED BY <2>1 DEF CacheSound, CacheInv, Keys
<1> QED BY <1>1, CacheInvariant, PTL

\* The slot a full cache gives up is one that no other was used before.
THEOREM RecyclingCorrect == Spec => LeastRecentlyUsed
<1> DEFINE Oldest == pc = "resolve" /\ pc' = "build" /\ at' <= Len(cache)
                        => \A j \in DOMAIN cache : lastUse[cache[at'].key] <= lastUse[cache[j].key]
<1>1. ASSUME CacheInv, [Next]_vars PROVE Oldest
  <2> SUFFICES ASSUME pc = "resolve", pc' = "build", at' <= Len(cache)
               PROVE  \A j \in DOMAIN cache : lastUse[cache[at'].key] <= lastUse[cache[j].key]
    OBVIOUS
  <2>1. Miss \/ Recycle
    BY <1>1 DEF Next, Main, CtxCreate, CtxFree, Hit, Build, BuildFails, Pack, PackFails, Refuse,
       Go, Spawn, Inline, RunInline, InlineDone, Join, Return, WeightsFree, CallPack, CallRun,
       CallStream, Begin, WorkerStep, Start, PackB, LoadA, Compute, vars, Leave
  <2>2. cache \in Seq(Entries) /\ Len(cache) \in Nat
    BY <1>1 DEF CacheInv, Types
  <2>3. ~Miss
    BY <2>2 DEF Miss
  <2>4. Recycle /\ Len(cache) > 0
    BY <2>1, <2>2, <2>3, SlotAssumption DEF Recycle, Full
  <2>5. /\ at' = Victim(cache) /\ at' \in DOMAIN cache
        /\ \A h \in DOMAIN cache : cache[at'].stamp <= cache[h].stamp
    BY <2>2, <2>4, VictimLeast DEF Recycle
  <2> QED BY <1>1, <2>5 DEF CacheInv, Keys
<1>2. CacheInv /\ [Next]_vars => [Oldest]_vars
  BY <1>1
<1> QED BY <1>2, CacheInvariant, PTL DEF Spec, LeastRecentlyUsed

-----------------------------------------------------------------------------
(* The owners.                                                             *)

\* A new buffer for a new scratch.
LEMMA AddScratch ==
    ASSUME NEW D, NEW own, NEW kept, Partition(D, own, kept), NEW x, x \notin D, NEW j,
           NEW own2, j \notin DOMAIN own, DOMAIN own2 = DOMAIN own \cup {j},
           own2[j] = x, \A h \in DOMAIN own : own2[h] = own[h]
    PROVE  Partition(D \cup {x}, own2, kept)
BY DEF Partition

\* A new buffer for a new weight.
LEMMA AddWeight ==
    ASSUME NEW D, NEW own, NEW kept, Partition(D, own, kept), NEW x, x \notin D, NEW j,
           NEW kept2, j \notin DOMAIN kept, DOMAIN kept2 = DOMAIN kept \cup {j},
           kept2[j] = x, \A h \in DOMAIN kept : kept2[h] = kept[h]
    PROVE  Partition(D \cup {x}, own, kept2)
BY DEF Partition

\* The buffer of a scratch that goes.
LEMMA DropScratch ==
    ASSUME NEW D, NEW own, NEW kept, Partition(D, own, kept), NEW j \in DOMAIN own,
           NEW own2, DOMAIN own2 = DOMAIN own \ {j},
           \A h \in DOMAIN own2 : own2[h] = own[h]
    PROVE  Partition(D \ {own[j]}, own2, kept)
BY DEF Partition

\* The buffer of a weight that goes.
LEMMA DropWeight ==
    ASSUME NEW D, NEW own, NEW kept, Partition(D, own, kept), NEW j \in DOMAIN kept,
           NEW kept2, DOMAIN kept2 = DOMAIN kept \ {j},
           \A h \in DOMAIN kept2 : kept2[h] = kept[h]
    PROVE  Partition(D \ {kept[j]}, own, kept2)
BY DEF Partition

\* Outside a fan-out every scratch has its own buffers.
LEMMA OwnAtRest ==
    ASSUME CacheInv, pc \notin Fan \/ pc = "joined"
    PROVE  \A t \in Worker : /\ wpc[t] \notin {"swapped", "loaded"}
                             /\ \A j : Own(j, t) = cache[j].slot.wt[t]
<1> SUFFICES ASSUME NEW t \in Worker PROVE wpc[t] \notin {"swapped", "loaded"}
  BY DEF Own
<1>1. CASE pc \notin Fan
  BY <1>1 DEF CacheInv, Fans
<1>2. CASE pc = "joined"
  <2>1. pc \in Fan /\ pc \in Resolved
    BY <1>2 DEF Fan, Resolved
  <2>2. Sc.nt \in Nat /\ t \in Nat
    BY <2>1, InUse DEF Worker
  <2>3. t <= Sc.nt \/ t > Sc.nt
    BY <2>2
  <2> QED BY <1>2, <2>1, <2>3 DEF CacheInv, Fans
<1> QED BY <1>1, <1>2

\* A step that changes no owner.
LEMMA SameOwners ==
    ASSUME Owners, wts' = wts,
           \A t \in Worker : /\ Held(t)' = Held(t) /\ DOMAIN heap'[t] = DOMAIN heap[t]
                             /\ \A j \in Held(t) : Own(j, t)' = Own(j, t)
    PROVE  Owners'
<1> SUFFICES ASSUME NEW t \in Worker
             PROVE  Partition(DOMAIN heap'[t], Scratches(t)', Residents(t)')
  BY DEF Owners, Partition
<1>1. Residents(t)' = Residents(t)
  BY DEF Residents, Kept
<1>2. Scratches(t)' = Scratches(t)
  BY DEF Scratches
<1>3. Partition(DOMAIN heap'[t], Scratches(t), Residents(t))
  BY DEF Owners
<1> QED BY <1>1, <1>2, <1>3

\* At first there is no buffer and no owner.
LEMMA InitOwners == Init => Owners
<1> SUFFICES ASSUME Init, NEW t \in Worker
             PROVE  Partition(DOMAIN heap[t], Scratches(t), Residents(t))
  BY DEF Owners
<1>1. heap[t] = <<>> /\ cache = <<>> /\ DOMAIN <<>> = {}
  BY DEF Init
<1>2. Held(t) = {}
  BY <1>1 DEF Held
<1>3. Kept(t) = {}
  BY DEF Kept, Init, NoWeight, Worker
<1> QED BY <1>1, <1>2, <1>3 DEF Partition, Scratches, Residents

\* The steps of the caller that change neither a buffer nor who holds it.
LEMMA QuietOwners ==
    ASSUME CacheInv, CacheInv', Owners,
           pc \notin Fan \/ pc = "joined", pc' \notin Fan,
           pc # "build", pc' = "build" => at' \notin DOMAIN cache,
           wts' = wts, DOMAIN cache' = DOMAIN cache,
           \A j \in DOMAIN cache : cache'[j].slot = cache[j].slot,
           \A t \in Worker : DOMAIN heap'[t] = DOMAIN heap[t]
    PROVE  Owners'
<1> SUFFICES ASSUME NEW t \in Worker
             PROVE  Held(t)' = Held(t) /\ \A j \in Held(t) : Own(j, t)' = Own(j, t)
  BY SameOwners
<1>1. Held(t)' = Held(t)
  BY DEF Held
<1>2. \A j : Own(j, t) = cache[j].slot.wt[t]
  BY OwnAtRest
<1>3. wpc'[t] = "none"
  BY DEF CacheInv, Fans
<1>4. \A j : Own(j, t)' = cache'[j].slot.wt[t]
  BY <1>3 DEF Own
<1> QED BY <1>1, <1>2, <1>4 DEF Held

\* The steps of the fan-out on the calling thread.
LEMMA CallerOwners ==
    ASSUME CacheInv, Owners, pc # "build", pc' # "build",
           UNCHANGED <<heap, cache, wts, call, at, saved>>,
           \A t \in Worker : wpc'[t] = wpc[t]
                             \/ (wpc[t] \notin {"swapped", "loaded"} /\ wpc'[t] \notin {"swapped", "loaded"})
    PROVE  Owners'
<1> SUFFICES ASSUME NEW t \in Worker
             PROVE  Held(t)' = Held(t) /\ \A j \in Held(t) : Own(j, t)' = Own(j, t)
  BY SameOwners
<1>1. Held(t)' = Held(t)
  BY DEF Held
<1>2. \A j : Own(j, t)' = Own(j, t)
  BY DEF Own
<1> QED BY <1>1, <1>2

\* The steps of the fan-out on the calling thread change no owner.
LEMMA FanOwners ==
    ASSUME CacheInv, Owners,
           \/ Go \/ Inline \/ RunInline \/ InlineDone \/ Join
           \/ \E ok \in BOOLEAN : Spawn(ok)
    PROVE  Owners'
<1>1. pc # "build" /\ pc' # "build" /\ UNCHANGED <<heap, cache, wts, call, at, saved>>
  BY DEF Go, Inline, RunInline, InlineDone, Join, Spawn, ctxvars, cachevars, fanvars
<1>2. CASE Go \/ Inline \/ InlineDone \/ Join
  <2>1. wpc' = wpc
    BY <1>2 DEF Go, Inline, InlineDone, Join, fanvars
  <2> QED BY <1>1, <2>1, CallerOwners
<1>3. CASE RunInline
  <2>1. \A t \in Worker : wpc'[t] = wpc[t] \/ (wpc[t] = "failed" /\ wpc'[t] = "start")
    BY <1>3 DEF RunInline, CacheInv, Types
  <2> QED BY <1>1, <2>1, CallerOwners
<1>4. CASE \E ok \in BOOLEAN : Spawn(ok)
  <2>1. PICK ok \in BOOLEAN : Spawn(ok)
    BY <1>4
  <2>2. pc = "spawn" /\ next \in 1 .. NThreads + 1
        /\ wpc' = [wpc EXCEPT ![next] = IF ok THEN "start" ELSE "failed"]
    BY <2>1 DEF Spawn, CacheInv, Types
  <2>3. next \in Worker => wpc[next] = "none"
    BY <2>2 DEF CacheInv, Fans, Worker
  <2>4. \A t \in Worker : \/ wpc'[t] = wpc[t]
                          \/ (wpc[t] = "none" /\ wpc'[t] \in {"start", "failed"})
    BY <2>2, <2>3 DEF CacheInv, Types
  <2> QED BY <1>1, <2>4, CallerOwners
<1> QED BY <1>2, <1>3, <1>4

\* Worker t swaps the scratch's buffer out and puts it back.
LEMMA WorkerOwn ==
    ASSUME CacheInv, NEW t \in Worker, WorkerStep(t)
    PROVE  Own(at, t)' = Own(at, t)
<1>0. WorkerFrame(t) /\ at' = at /\ call' = call
  BY WorkerFrames DEF WorkerFrame
<1>1. pc \in Fan /\ t \in 1 .. Sc.nt /\ pc \in Resolved /\ at \in DOMAIN cache
      /\ cache \in Seq(Entries) /\ Sc.wt \in [1 .. Sc.nt -> Nat]
  BY <1>0, Running, InUse DEF WorkerFrame
<1>2. wpc \in [Worker -> Phase] /\ saved \in [Worker -> Nat]
  BY DEF CacheInv, Types
<1>3. saved[t] \in Nat /\ Sc.wt[t] \in Nat
  BY <1>1, <1>2
<1>4. \A x \in Nat : SetWt(t, x) => cache'[at].slot.wt[t] = x
  BY <1>1, SwapShape
<1>5. CASE call.op # "run"
  <2>1. UNCHANGED cache
    BY <1>5 DEF WorkerStep, Start, PackB, LoadA, Compute, Restore
  <2> QED BY <1>0, <1>5, <2>1 DEF Own
<1>6. CASE call.op = "run" /\ Start(t)
  <2>1. wpc[t] = "start" /\ Own(at, t) = Sc.wt[t]
    BY <1>6 DEF Start, Own, Sc
  <2>2. CASE wpc'[t] = "done" /\ UNCHANGED <<cache, saved>>
    BY <1>0, <2>1, <2>2 DEF Own, Sc
  <2>3. CASE wpc'[t] = "swapped" /\ saved'[t] = Sc.wt[t]
    BY <1>0, <1>6, <2>1, <2>3 DEF Own
  <2> QED BY <1>2, <1>6, <2>2, <2>3 DEF Start, Exit
<1>7. CASE call.op = "run" /\ LoadA(t)
  <2>1. wpc[t] = "swapped" /\ saved' = saved /\ Own(at, t) = saved[t]
    BY <1>7 DEF LoadA, Own
  <2>2. CASE wpc'[t] = "loaded" /\ UNCHANGED cache
    BY <1>0, <1>7, <2>1, <2>2 DEF Own
  <2>3. CASE wpc'[t] = "done" /\ SetWt(t, saved[t])
    <3>1. cache'[at].slot.wt[t] = saved[t]
      BY <1>3, <1>4, <2>3
    <3> QED BY <1>0, <2>1, <2>3, <3>1 DEF Own
  <2> QED BY <1>2, <1>7, <2>2, <2>3 DEF LoadA, Exit, Restore
<1>8. CASE call.op = "run" /\ Compute(t)
  <2>1. wpc[t] = "loaded" /\ saved' = saved /\ Own(at, t) = saved[t]
    BY <1>8 DEF Compute, Own
  <2>2. wpc'[t] = "done" /\ SetWt(t, saved[t])
    BY <1>2, <1>8 DEF Compute, Exit, Restore
  <2>3. cache'[at].slot.wt[t] = saved[t]
    BY <1>3, <1>4, <2>2
  <2> QED BY <1>0, <2>1, <2>2, <2>3 DEF Own
<1>9. call.op = "run" => ~PackB(t)
  BY DEF PackB
<1> QED BY <1>5, <1>6, <1>7, <1>8, <1>9 DEF WorkerStep

\* A worker's step changes no owner: what it borrows it still owes.
LEMMA WorkerOwners ==
    ASSUME CacheInv, Owners, NEW t \in Worker, WorkerStep(t)
    PROVE  Owners'
<1>1. WorkerFrame(t)
  BY WorkerFrames
<1>2. pc \in Fan /\ pc # "build" /\ pc \in Resolved /\ at \in DOMAIN cache
  BY <1>1, Running, InUse DEF WorkerFrame, Fan
<1>3. UNCHANGED <<wts, call, pc, at>> /\ SameSlots(cache', cache) /\ DOMAIN cache' = DOMAIN cache
  BY <1>1 DEF WorkerFrame, SameSlots
<1>4. \A u \in Worker : DOMAIN heap'[u] = DOMAIN heap[u]
  BY DEF WorkerStep, Start, PackB, LoadA, Compute, CacheInv, Types
<1>5. \A u \in Worker : Held(u)' = Held(u)
  BY <1>2, <1>3 DEF Held, SameSlots
<1>6. ASSUME NEW u \in Worker, NEW j \in Held(u) PROVE Own(j, u)' = Own(j, u)
  <2>1. j \in DOMAIN cache /\ u \in 1 .. cache[j].slot.nt
    <3>1. j \in DOMAIN cache /\ u <= cache[j].slot.nt
      BY <1>6 DEF Held
    <3>2. cache[j].slot.nt \in Worker
      BY <3>1, CachedShape DEF CacheInv, Types
    <3> QED BY <3>1, <3>2 DEF Worker
  <2>2. CASE j = at /\ u = t
    <3>1. Own(at, t)' = Own(at, t) /\ at' = at
      BY <1>3, WorkerOwn
    <3> QED BY <2>2, <3>1 DEF Own
  <2>3. CASE ~(j = at /\ u = t)
    <3>1. cache'[j].slot.wt[u] = cache[j].slot.wt[u]
      BY <1>1, <2>1, <2>3 DEF WorkerFrame
    <3>2. CASE u = t
      <4>1. j # at /\ at' = at
        BY <1>3, <2>3, <3>2
      <4> QED BY <3>1, <4>1 DEF Own
    <3>3. CASE u # t
      <4>1. wpc'[u] = wpc[u] /\ saved'[u] = saved[u]
        BY <1>1, <3>3 DEF WorkerFrame, CacheInv, Types
      <4> QED BY <1>3, <3>1, <4>1 DEF Own
    <3> QED BY <3>2, <3>3
  <2> QED BY <2>2, <2>3
<1> QED BY <1>3, <1>4, <1>5, <1>6, SameOwners

\* Scratches that change places keep their buffers.
LEMMA MoveScratches ==
    ASSUME NEW D, NEW own, NEW kept, Partition(D, own, kept),
           NEW own2, NEW g \in [DOMAIN own2 -> DOMAIN own],
           \A h \in DOMAIN own2 : own2[h] = own[g[h]],
           \A h, i \in DOMAIN own2 : g[h] = g[i] => h = i,
           \A j \in DOMAIN own : \E h \in DOMAIN own2 : g[h] = j
    PROVE  Partition(D, own2, kept)
BY DEF Partition

\* The scratches' buffers between two states at rest.
LEMMA ScratchesAtRest ==
    ASSUME CacheInv, CacheInv', pc \notin Fan, pc' \notin Fan, NEW t \in Worker
    PROVE  /\ Scratches(t) = [j \in Held(t) |-> cache[j].slot.wt[t]]
           /\ Scratches(t)' = [j \in Held(t)' |-> cache'[j].slot.wt[t]]
<1>1. Scratches(t) = [j \in Held(t) |-> cache[j].slot.wt[t]]
  BY OwnAtRest DEF Scratches
<1>2. wpc'[t] = "none"
  BY DEF CacheInv, Fans
<1>3. \A j : Own(j, t)' = cache'[j].slot.wt[t]
  BY <1>2 DEF Own
<1>4. Scratches(t)' = [j \in Held(t)' |-> cache'[j].slot.wt[t]]
  BY <1>3 DEF Scratches
<1> QED BY <1>1, <1>4

\* The victim's buffers are freed before its place is built over.
LEMMA RecycleOwners == ASSUME CacheInv, CacheInv', Owners, Recycle PROVE Owners'
<1> DEFINE v == Victim(cache)
<1>1. /\ pc = "resolve" /\ pc' = "build" /\ at' = v
      /\ heap' = FreeOn(heap, 1 .. cache[v].slot.nt, cache[v].slot.wt)
      /\ UNCHANGED <<cache, wts>>
  BY DEF Recycle, cachevars
<1>2. pc \notin Fan /\ pc' \notin Fan /\ pc # "build"
  BY <1>1 DEF Fan
<1>3. v \in DOMAIN cache
  <2>1. Len(cache) \in Nat /\ Len(cache) > 0 /\ cache \in Seq(Entries)
    BY SlotAssumption DEF Recycle, Full, CacheInv, Types
  <2> QED BY <2>1, VictimLeast
<1>4. cache[v].slot.nt \in Worker
  BY <1>3, CachedShape DEF CacheInv, Types
<1> HIDE DEF v
<1> SUFFICES ASSUME NEW t \in Worker
             PROVE  Partition(DOMAIN heap'[t], Scratches(t)', Residents(t)')
  BY DEF Owners, Partition
<1>5. Partition(DOMAIN heap[t], Scratches(t), Residents(t)) /\ Residents(t)' = Residents(t)
  BY <1>1 DEF Owners, Residents, Kept
<1>6. /\ Scratches(t) = [j \in Held(t) |-> cache[j].slot.wt[t]]
      /\ Scratches(t)' = [j \in Held(t)' |-> cache[j].slot.wt[t]]
  BY <1>1, <1>2, ScratchesAtRest
<1>7. Held(t)' = Held(t) \ {v}
  BY <1>1, <1>2 DEF Held
<1>8. CASE t <= cache[v].slot.nt
  <2>1. v \in Held(t)
    BY <1>2, <1>3, <1>8 DEF Held
  <2>2. t \in 1 .. cache[v].slot.nt
    BY <1>4, <1>8 DEF Worker
  <2>3. DOMAIN heap'[t] = DOMAIN heap[t] \ {cache[v].slot.wt[t]}
    <3> DEFINE T == 1 .. cache[v].slot.nt
               b == cache[v].slot.wt
    <3>1. t \in T /\ heap' = FreeOn(heap, T, b)
      BY <1>1, <2>2
    <3> HIDE DEF T, b
    <3>2. DOMAIN FreeOn(heap, T, b)[t] = DOMAIN heap[t] \ {b[t]}
      BY <3>1, FreeAt
    <3> QED BY <3>1, <3>2 DEF b
  <2>4. Scratches(t)[v] = cache[v].slot.wt[t]
    BY <1>6, <2>1
  <2>5. /\ v \in DOMAIN Scratches(t) /\ DOMAIN Scratches(t)' = DOMAIN Scratches(t) \ {v}
        /\ \A h \in DOMAIN Scratches(t)' : Scratches(t)'[h] = Scratches(t)[h]
    BY <1>6, <1>7, <2>1
  <2>6. Partition(DOMAIN heap[t] \ {Scratches(t)[v]}, Scratches(t)', Residents(t))
    BY <1>5, <2>5, DropScratch
  <2> QED BY <1>5, <2>3, <2>4, <2>6
<1>9. CASE ~(t <= cache[v].slot.nt)
  <2>1. v \notin Held(t)
    BY <1>9 DEF Held
  <2>2. t \notin 1 .. cache[v].slot.nt
    BY <1>9
  <2>3. heap'[t] = heap[t]
    <3> DEFINE T == 1 .. cache[v].slot.nt
               b == cache[v].slot.wt
    <3>1. t \notin T /\ heap' = FreeOn(heap, T, b)
      BY <1>1, <2>2
    <3> HIDE DEF T, b
    <3> QED BY <3>1, FreeOff
  <2>4. Scratches(t)' = Scratches(t)
    BY <1>6, <1>7, <2>1
  <2> QED BY <1>5, <2>3, <2>4
<1> QED BY <1>8, <1>9

\* A scratch's new buffers are its own.
LEMMA BuildOwners == ASSUME CacheInv, CacheInv', Owners, Build PROVE Owners'
<1> DEFINE s == Scratch(CallKey, heap)
           e == Entry(CallKey, s, clock + 1)
<1>1. /\ pc = "build" /\ pc' = "have" /\ heap' = AllocOn(heap, Zeroed(1 .. s.nt))
      /\ cache' = Filled(cache, at, e) /\ UNCHANGED <<wts, at>>
  BY DEF Build
<1>2. pc \notin Fan /\ pc' \notin Fan /\ pc \in Busy
  BY <1>1 DEF Fan, Resolved, Busy
<1>3. CallKey \in Key /\ clock + 1 \in Nat /\ Finite(heap) /\ cache \in Seq(Entries)
      /\ at \in 1 .. Len(cache) + 1
  BY <1>1, <1>2, PrepackedAssumption DEF CacheInv, Calls, Types
<1>4. /\ e \in Entries /\ e.slot = s /\ s.nt = Slices(CallKey)
      /\ \A t \in 1 .. s.nt : s.wt[t] = Fresh(heap)[t]
  BY <1>3, ScratchShape
<1>5. s.nt \in Worker
  BY <1>3, <1>4, SlicesRange
<1> HIDE DEF s, e
<1>6. /\ DOMAIN cache' = DOMAIN cache \cup {at} /\ cache'[at] = e
      /\ \A h \in DOMAIN cache : h # at => cache'[h] = cache[h]
  BY <1>1, <1>3, <1>4, FilledShape
<1> SUFFICES ASSUME NEW t \in Worker
             PROVE  Partition(DOMAIN heap'[t], Scratches(t)', Residents(t)')
  BY DEF Owners, Partition
<1>7. Partition(DOMAIN heap[t], Scratches(t), Residents(t)) /\ Residents(t)' = Residents(t)
  BY <1>1 DEF Owners, Residents, Kept
<1>8. /\ Scratches(t) = [j \in Held(t) |-> cache[j].slot.wt[t]]
      /\ Scratches(t)' = [j \in Held(t)' |-> cache'[j].slot.wt[t]]
  BY <1>2, ScratchesAtRest
<1>9. at \notin Held(t) /\ \A j \in Held(t) : j \in DOMAIN cache /\ cache'[j] = cache[j]
  BY <1>1, <1>6 DEF Held
<1>10. DOMAIN Zeroed(1 .. s.nt) = 1 .. s.nt
  BY DEF Zeroed
<1>11. CASE t <= s.nt
  <2>1. t \in 1 .. s.nt
    BY <1>5, <1>11 DEF Worker
  <2>2. Held(t)' = Held(t) \cup {at}
    BY <1>1, <1>4, <1>6, <1>11 DEF Held
  <2>3. /\ DOMAIN heap'[t] = DOMAIN heap[t] \cup {Fresh(heap)[t]}
        /\ Fresh(heap)[t] \notin DOMAIN heap[t]
    <3> DEFINE c == Zeroed(1 .. s.nt)
    <3>1. t \in DOMAIN c /\ heap' = AllocOn(heap, c)
      BY <1>1, <1>10, <2>1
    <3> HIDE DEF c
    <3>2. /\ DOMAIN AllocOn(heap, c)[t] = DOMAIN heap[t] \cup {Fresh(heap)[t]}
          /\ Fresh(heap)[t] \notin DOMAIN heap[t]
      BY <1>3, <3>1, AllocAt
    <3> QED BY <3>1, <3>2
  <2>4. /\ at \notin DOMAIN Scratches(t) /\ DOMAIN Scratches(t)' = DOMAIN Scratches(t) \cup {at}
        /\ Scratches(t)'[at] = Fresh(heap)[t]
        /\ \A h \in DOMAIN Scratches(t) : Scratches(t)'[h] = Scratches(t)[h]
    BY <1>4, <1>6, <1>8, <1>9, <2>1, <2>2
  <2>5. Partition(DOMAIN heap[t] \cup {Fresh(heap)[t]}, Scratches(t)', Residents(t))
    BY <1>7, <2>3, <2>4, AddScratch
  <2> QED BY <1>7, <2>3, <2>5
<1>12. CASE ~(t <= s.nt)
  <2>1. t \notin 1 .. s.nt
    BY <1>12
  <2>2. heap'[t] = heap[t]
    <3>1. AllocOn(heap, Zeroed(1 .. s.nt))[t] = heap[t]
      BY <1>3, <1>10, <2>1, AllocOff
    <3> QED BY <1>1, <3>1
  <2>3. Held(t)' = Held(t)
    BY <1>1, <1>4, <1>6, <1>12 DEF Held
  <2>4. Scratches(t)' = Scratches(t)
    BY <1>8, <1>9, <2>3
  <2> QED BY <1>7, <2>2, <2>4
<1> QED BY <1>11, <1>12

\* A build that fails leaves no buffer and no entry that owns one.
LEMMA BuildFailsOwners == ASSUME CacheInv, CacheInv', Owners, BuildFails PROVE Owners'
<1>1. /\ pc = "build" /\ pc' = "idle" /\ cache' = Compacted(cache, at) /\ wts' = wts
  BY DEF BuildFails, Leave
<1>2. pc \notin Fan /\ pc' \notin Fan
  BY <1>1 DEF Fan
<1>3. Finite(heap) /\ cache \in Seq(Entries) /\ at \in 1 .. Len(cache) + 1
  BY <1>1 DEF CacheInv, Calls, Types
<1>4. SameHeap(heap', heap)
  <2>1. PICK u \in 1 .. Slices(CallKey) :
            heap' = FreeOn(AllocOn(heap, Zeroed(Unwound(u))), Unwound(u), Fresh(heap))
    BY DEF BuildFails, Unwound
  <2> QED BY <1>3, <2>1, UndoneShape
<1>5. /\ \A h \in DOMAIN cache' : /\ Moved(cache, at, h) \in DOMAIN cache \ {at}
                                  /\ cache'[h] = cache[Moved(cache, at, h)]
      /\ \A h, i \in DOMAIN cache' : Moved(cache, at, h) = Moved(cache, at, i) => h = i
      /\ \A i \in DOMAIN cache \ {at} : \E h \in DOMAIN cache' : Moved(cache, at, h) = i
  BY <1>1, <1>3, CompactedShape
<1> SUFFICES ASSUME NEW t \in Worker
             PROVE  Partition(DOMAIN heap'[t], Scratches(t)', Residents(t)')
  BY DEF Owners, Partition
<1>6. Partition(DOMAIN heap'[t], Scratches(t), Residents(t)) /\ Residents(t)' = Residents(t)
  BY <1>1, <1>4 DEF Owners, Residents, Kept, SameHeap
<1>7. /\ Scratches(t) = [j \in Held(t) |-> cache[j].slot.wt[t]]
      /\ Scratches(t)' = [j \in Held(t)' |-> cache'[j].slot.wt[t]]
  BY <1>2, ScratchesAtRest
<1> DEFINE g == [h \in Held(t)' |-> Moved(cache, at, h)]
<1>8. \A h \in Held(t)' : Moved(cache, at, h) \in Held(t)
  BY <1>1, <1>5 DEF Held
<1>9. g \in [DOMAIN Scratches(t)' -> DOMAIN Scratches(t)]
  BY <1>7, <1>8
<1>10. \A h \in Held(t)' : h \in DOMAIN cache'
  BY DEF Held
<1>11. \A h \in DOMAIN Scratches(t)' : Scratches(t)'[h] = Scratches(t)[g[h]]
  BY <1>5, <1>7, <1>8, <1>10
<1>12. \A h, i \in DOMAIN Scratches(t)' : g[h] = g[i] => h = i
  BY <1>5, <1>7, <1>10
<1>13. \A j \in DOMAIN Scratches(t) : \E h \in DOMAIN Scratches(t)' : g[h] = j
  <2> SUFFICES ASSUME NEW j \in Held(t) PROVE \E h \in Held(t)' : g[h] = j
    BY <1>7
  <2>1. j \in DOMAIN cache \ {at} /\ t <= cache[j].slot.nt
    BY <1>1 DEF Held
  <2>2. PICK h \in DOMAIN cache' : Moved(cache, at, h) = j
    BY <1>5, <2>1
  <2>3. h \in Held(t)'
    BY <1>1, <1>5, <2>1, <2>2 DEF Held
  <2> QED BY <2>2, <2>3
<1> HIDE DEF g
<1> QED BY <1>6, <1>9, <1>11, <1>12, <1>13, MoveScratches

\* A packed weight's new buffers are its own.
LEMMA PackOwners == ASSUME CacheInv, CacheInv', Owners, Pack PROVE Owners'
<1> DEFINE a == call.src
           c == [t \in 1 .. Sc.nt |-> [src |-> call.src, sig |-> Sig(Sc, t)]]
<1>1. /\ pc = "have" /\ pc' = "idle" /\ call.op = "pack" /\ cache' = cache
      /\ heap' = AllocOn(heap, c)
  BY DEF Pack, Leave, cachevars
<1>2. pc \notin Fan /\ pc' \notin Fan /\ pc \in Resolved /\ pc \in Busy
  BY <1>1 DEF Fan, Resolved, Busy
<1>3. a \in Name /\ wts[a] = NoWeight /\ Finite(heap) /\ Sc.nt \in Worker
  BY <1>1, <1>2, InUse DEF CacheInv, Calls, Types
<1>4. /\ wts'[a].nt = Sc.nt /\ \A t \in 1 .. Sc.nt : wts'[a].wt[t] = Fresh(heap)[t]
      /\ \A b \in Name : b # a => wts'[b] = wts[b]
  BY <1>3 DEF Pack, CacheInv, Types
<1> SUFFICES ASSUME NEW t \in Worker
             PROVE  Partition(DOMAIN heap'[t], Scratches(t)', Residents(t)')
  BY DEF Owners, Partition
<1>5. Partition(DOMAIN heap[t], Scratches(t), Residents(t))
  BY DEF Owners
<1>6. Scratches(t)' = Scratches(t)
  <2>1. Held(t)' = Held(t)
    BY <1>1 DEF Held
  <2> QED BY <1>1, <1>2, <2>1, ScratchesAtRest
<1>7. a \notin Kept(t)
  BY <1>3 DEF Kept, NoWeight, Worker
<1>8. DOMAIN c = 1 .. Sc.nt
  OBVIOUS
<1> HIDE DEF c, a
<1>9. CASE t <= Sc.nt
  <2>1. t \in 1 .. Sc.nt
    BY <1>3, <1>9 DEF Worker
  <2>2. Kept(t)' = Kept(t) \cup {a}
    BY <1>3, <1>4, <1>9 DEF Kept
  <2>3. /\ DOMAIN heap'[t] = DOMAIN heap[t] \cup {Fresh(heap)[t]}
        /\ Fresh(heap)[t] \notin DOMAIN heap[t]
    <3>1. t \in DOMAIN c /\ Finite(heap)
      BY <1>3, <1>8, <2>1
    <3>2. /\ DOMAIN AllocOn(heap, c)[t] = DOMAIN heap[t] \cup {Fresh(heap)[t]}
          /\ Fresh(heap)[t] \notin DOMAIN heap[t]
      BY <3>1, AllocAt
    <3> QED BY <1>1, <3>2
  <2>4. Residents(t) = [b \in Kept(t) |-> wts[b].wt[t]]
        /\ Residents(t)' = [b \in Kept(t)' |-> wts'[b].wt[t]]
    BY DEF Residents
  <2>5. \A b \in Kept(t) : b \in Name /\ b # a
    BY <1>7 DEF Kept
  <2>6. /\ a \notin DOMAIN Residents(t) /\ DOMAIN Residents(t)' = DOMAIN Residents(t) \cup {a}
        /\ Residents(t)'[a] = Fresh(heap)[t]
        /\ \A b \in DOMAIN Residents(t) : Residents(t)'[b] = Residents(t)[b]
    BY <1>4, <1>7, <2>1, <2>2, <2>4, <2>5
  <2>7. Partition(DOMAIN heap[t] \cup {Fresh(heap)[t]}, Scratches(t), Residents(t)')
    BY <1>5, <2>3, <2>6, AddWeight
  <2> QED BY <1>6, <2>3, <2>7
<1>10. CASE ~(t <= Sc.nt)
  <2>1. t \notin 1 .. Sc.nt
    BY <1>10
  <2>2. heap'[t] = heap[t]
    <3>1. AllocOn(heap, c)[t] = heap[t]
      BY <1>3, <1>8, <2>1, AllocOff
    <3> QED BY <1>1, <3>1
  <2>3. Kept(t)' = Kept(t)
    BY <1>3, <1>4, <1>7, <1>10 DEF Kept
  <2>4. \A b \in Kept(t) : wts'[b].wt[t] = wts[b].wt[t]
    BY <1>4, <1>7 DEF Kept
  <2>5. Residents(t)' = Residents(t)
    BY <2>3, <2>4 DEF Residents
  <2> QED BY <1>5, <1>6, <2>2, <2>5
<1> QED BY <1>9, <1>10

\* A weight freed takes its buffers, and only those, with it.
LEMMA WeightsFreeOwners ==
    ASSUME CacheInv, CacheInv', Owners, NEW a \in Name, WeightsFree(a) PROVE Owners'
<1>1. /\ pc = "idle" /\ pc' = "idle" /\ cache' = cache /\ wts[a] # NoWeight
      /\ heap' = FreeOn(heap, 1 .. wts[a].nt, wts[a].wt)
      /\ wts' = [wts EXCEPT ![a] = NoWeight]
  BY DEF WeightsFree, cachevars
<1>2. pc \notin Fan /\ pc' \notin Fan
  BY <1>1 DEF Fan
<1>3. wts[a].nt \in Worker
  <2>1. wts[a] \in Weights
    BY <1>1 DEF CacheInv, Types
  <2> QED BY <2>1, WeightShape
<1>4. wts'[a].nt = 0 /\ \A b \in Name : b # a => wts'[b] = wts[b]
  BY <1>1 DEF CacheInv, Types, NoWeight
<1> SUFFICES ASSUME NEW t \in Worker
             PROVE  Partition(DOMAIN heap'[t], Scratches(t)', Residents(t)')
  BY DEF Owners, Partition
<1>5. Partition(DOMAIN heap[t], Scratches(t), Residents(t))
  BY DEF Owners
<1>6. Scratches(t)' = Scratches(t)
  <2>1. Held(t)' = Held(t)
    BY <1>1 DEF Held
  <2> QED BY <1>1, <1>2, <2>1, ScratchesAtRest
<1>7. Kept(t)' = Kept(t) \ {a}
  <2>1. ~(t <= wts'[a].nt)
    BY <1>4 DEF Worker
  <2>2. \A b \in Name : b \in Kept(t)' <=> t <= wts'[b].nt
    BY DEF Kept
  <2>3. \A b \in Name : b \in Kept(t)' <=> b \in Kept(t) \ {a}
    BY <1>4, <2>1, <2>2 DEF Kept
  <2> QED BY <2>3 DEF Kept
<1>8. \A b \in Kept(t)' : wts'[b].wt[t] = wts[b].wt[t]
  BY <1>4, <1>7 DEF Kept
<1>9. Residents(t) = [b \in Kept(t) |-> wts[b].wt[t]]
      /\ Residents(t)' = [b \in Kept(t)' |-> wts'[b].wt[t]]
  BY DEF Residents
<1>10. CASE t <= wts[a].nt
  <2>1. a \in Kept(t)
    BY <1>10 DEF Kept
  <2>2. t \in 1 .. wts[a].nt
    BY <1>3, <1>10 DEF Worker
  <2>3. DOMAIN heap'[t] = DOMAIN heap[t] \ {wts[a].wt[t]}
    <3> DEFINE T == 1 .. wts[a].nt
               b == wts[a].wt
    <3>1. t \in T /\ heap' = FreeOn(heap, T, b)
      BY <1>1, <2>2
    <3> HIDE DEF T, b
    <3>2. DOMAIN FreeOn(heap, T, b)[t] = DOMAIN heap[t] \ {b[t]}
      BY <3>1, FreeAt
    <3> QED BY <3>1, <3>2 DEF b
  <2>4. /\ a \in DOMAIN Residents(t) /\ DOMAIN Residents(t)' = DOMAIN Residents(t) \ {a}
        /\ Residents(t)[a] = wts[a].wt[t]
        /\ \A b \in DOMAIN Residents(t)' : Residents(t)'[b] = Residents(t)[b]
    BY <1>7, <1>8, <1>9, <2>1
  <2>5. Partition(DOMAIN heap[t] \ {Residents(t)[a]}, Scratches(t), Residents(t)')
    BY <1>5, <2>4, DropWeight
  <2> QED BY <1>6, <2>3, <2>4, <2>5
<1>11. CASE ~(t <= wts[a].nt)
  <2>1. a \notin Kept(t)
    BY <1>11 DEF Kept
  <2>2. t \notin 1 .. wts[a].nt
    BY <1>11
  <2>3. heap'[t] = heap[t]
    <3> DEFINE T == 1 .. wts[a].nt
               b == wts[a].wt
    <3>1. t \notin T /\ heap' = FreeOn(heap, T, b)
      BY <1>1, <2>2
    <3> HIDE DEF T, b
    <3> QED BY <3>1, FreeOff
  <2>4. Residents(t)' = Residents(t)
    BY <1>7, <1>8, <1>9, <2>1
  <2> QED BY <1>5, <1>6, <2>3, <2>4
<1> QED BY <1>10, <1>11

\* Freeing the context frees every scratch's buffers and no weight's.
LEMMA CtxFreeOwners == ASSUME CacheInv, CacheInv', Owners, CtxFree PROVE Owners'
<1>1. /\ pc = "idle" /\ pc' = "freed" /\ cache' = <<>> /\ wts' = wts
      /\ \A a \in Name : wts[a] = NoWeight
  BY DEF CtxFree
<1>2. pc \notin Fan /\ pc' \notin Fan
  BY <1>1 DEF Fan
<1> SUFFICES ASSUME NEW t \in Worker
             PROVE  Partition(DOMAIN heap'[t], Scratches(t)', Residents(t)')
  BY DEF Owners, Partition
<1>3. Partition(DOMAIN heap[t], Scratches(t), Residents(t))
  BY DEF Owners
<1>4. Kept(t) = {} /\ Kept(t)' = {}
  BY <1>1 DEF Kept, NoWeight, Worker
<1>5. Held(t)' = {} /\ Held(t) = {j \in DOMAIN cache : t <= cache[j].slot.nt}
  <2>1. DOMAIN <<>> = {}
    OBVIOUS
  <2> QED BY <1>1, <2>1 DEF Held
<1>6. Scratches(t) = [j \in Held(t) |-> cache[j].slot.wt[t]]
  BY <1>2, ScratchesAtRest
<1>7. DOMAIN heap'[t] = DOMAIN heap[t] \ {cache[j].slot.wt[t] : j \in Held(t)}
  BY <1>5 DEF CtxFree
<1>8. \A x \in DOMAIN heap[t] : x \in {cache[j].slot.wt[t] : j \in Held(t)}
  BY <1>3, <1>4, <1>6 DEF Partition, Residents
<1>9. DOMAIN heap'[t] = {}
  BY <1>7, <1>8
<1>10. DOMAIN Scratches(t)' = {} /\ DOMAIN Residents(t)' = {}
  BY <1>4, <1>5 DEF Scratches, Residents
<1> QED BY <1>9, <1>10 DEF Partition

\* The remaining steps of the caller change no owner.
LEMMA RestOwners ==
    ASSUME CacheInv, CacheInv', Owners,
           \/ CtxCreate \/ Hit \/ Miss \/ PackFails \/ Refuse \/ Return
           \/ \E a \in Name : \E k \in Key : \E op \in {"pack", "run", "stream"} : Begin(op, a, k)
    PROVE  Owners'
<1>1. pc \notin Fan \/ pc = "joined"
  BY DEF CtxCreate, Hit, Miss, PackFails, Refuse, Return, Begin, Fan
<1>2. pc' \notin Fan /\ pc # "build" /\ (pc' = "build" => Miss)
  BY DEF CtxCreate, Hit, Miss, PackFails, Refuse, Return, Begin, Fan, Leave
<1>3. Miss => at' \notin DOMAIN cache
  <2>1. cache \in Seq(Entries)
    BY DEF CacheInv, Types
  <2>2. Len(cache) + 1 \notin DOMAIN cache
    BY <2>1
  <2> QED BY <2>2 DEF Miss
<1>4. wts' = wts
  BY DEF CtxCreate, Hit, Miss, PackFails, Refuse, Return, Begin
<1>5. DOMAIN cache' = DOMAIN cache /\ \A j \in DOMAIN cache : cache'[j].slot = cache[j].slot
  <2>1. CASE ~Hit
    BY <2>1 DEF CtxCreate, Hit, Miss, PackFails, Refuse, Return, Begin, cachevars
  <2>2. CASE Hit
    <3> DEFINE j == Found(cache, CallKey)
    <3>1. cache \in Seq(Entries) /\ clock + 1 \in Nat
      BY PrepackedAssumption DEF CacheInv, Types
    <3>2. j \in DOMAIN cache /\ cache' = Touched(cache, j, clock + 1)
      BY <2>2, <3>1, FoundSound DEF Hit
    <3> HIDE DEF j
    <3> QED BY <3>1, <3>2, TouchedShape
  <2> QED BY <2>1, <2>2
<1>6. \A t \in Worker : DOMAIN heap'[t] = DOMAIN heap[t]
  <2>1. CASE PackFails
    BY <2>1, PackFailsCache DEF SameHeap
  <2>2. CASE ~PackFails
    BY <2>2 DEF CtxCreate, Hit, Miss, Refuse, Return, Begin
  <2> QED BY <2>1, <2>2
<1> QED BY <1>1, <1>2, <1>3, <1>4, <1>5, <1>6, QuietOwners

\* Every step keeps each live buffer with its one owner.
LEMMA NextOwners == ASSUME CacheInv, Owners, [Next]_vars PROVE Owners'
<1>0. CacheInv'
  BY NextCache
<1>1. CASE Main
  <2>1. CASE \E a \in Name : \E k \in Key : CallPack(a, k) \/ CallRun(a, k) \/ CallStream(a, k)
    BY <1>0, <2>1, CallCache, RestOwners
  <2>2. CASE \E a \in Name : WeightsFree(a)
    BY <1>0, <2>2, WeightsFreeOwners
  <2>3. CASE \E ok \in BOOLEAN : Spawn(ok)
    BY <2>3, FanOwners
  <2>4. CASE CtxCreate \/ Hit \/ Miss \/ PackFails \/ Refuse \/ Return
    BY <1>0, <2>4, RestOwners
  <2>5. CASE Go \/ Inline \/ RunInline \/ InlineDone \/ Join
    BY <2>5, FanOwners
  <2> QED BY <1>0, <1>1, <2>1, <2>2, <2>3, <2>4, <2>5, CtxFreeOwners, RecycleOwners,
             BuildOwners, BuildFailsOwners, PackOwners DEF Main
<1>2. CASE \E t \in Worker : WorkerStep(t)
  BY <1>2, WorkerOwners
<1>3. CASE UNCHANGED vars
  <2>1. UNCHANGED <<heap, cache, wts, call, at, saved, wpc, pc>>
    BY <1>3 DEF vars, ctxvars, cachevars, fanvars
  <2>2. \A t \in Worker : Held(t)' = Held(t) /\ \A j : Own(j, t)' = Own(j, t)
    BY <2>1 DEF Held, Own
  <2> QED BY <2>1, <2>2, SameOwners
<1> QED BY <1>1, <1>2, <1>3 DEF Next

\* Counting the owners of a partition.
LEMMA OwnersCounted ==
    ASSUME CacheInv, Owners, pc \in {"idle", "freed"}, NEW t \in Worker
    PROVE  /\ {o[3] : o \in ScratchBos(t) \cup WeightBos(t)} = DOMAIN heap[t]
           /\ Cardinality(ScratchBos(t) \cup WeightBos(t)) = Cardinality(DOMAIN heap[t])
<1> DEFINE owned == ScratchBos(t) \cup WeightBos(t)
           D == DOMAIN heap[t]
           f == [o \in owned |-> o[3]]
<1>1. pc \notin Fan /\ pc # "build"
  BY DEF Fan
<1>2. Held(t) = {h \in DOMAIN cache : t <= cache[h].slot.nt}
  BY <1>1 DEF Held
<1>3. /\ ScratchBos(t) = {<<"scratch", j, cache[j].slot.wt[t]>> : j \in Held(t)}
      /\ WeightBos(t) = {<<"weight", a, wts[a].wt[t]>> : a \in Kept(t)}
  BY <1>2 DEF ScratchBos, WeightBos, Kept
<1>4. /\ Scratches(t) = [j \in Held(t) |-> cache[j].slot.wt[t]]
      /\ Residents(t) = [a \in Kept(t) |-> wts[a].wt[t]]
  BY <1>1, OwnAtRest DEF Scratches, Residents
<1>5. /\ \A j \in Held(t) : cache[j].slot.wt[t] \in D
      /\ \A a \in Kept(t) : wts[a].wt[t] \in D
      /\ \A j, h \in Held(t) : cache[j].slot.wt[t] = cache[h].slot.wt[t] => j = h
      /\ \A a, b \in Kept(t) : wts[a].wt[t] = wts[b].wt[t] => a = b
      /\ \A j \in Held(t), a \in Kept(t) : cache[j].slot.wt[t] # wts[a].wt[t]
      /\ \A x \in D : \/ \E j \in Held(t) : x = cache[j].slot.wt[t]
                      \/ \E a \in Kept(t) : x = wts[a].wt[t]
  BY <1>4 DEF Owners, Partition
<1>6. \A o \in owned : \/ \E j \in Held(t) : o = <<"scratch", j, cache[j].slot.wt[t]>>
                       \/ \E a \in Kept(t) : o = <<"weight", a, wts[a].wt[t]>>
  BY <1>3
<1>7. \A x \in D : \E o \in owned : o[3] = x
  <2> SUFFICES ASSUME NEW x \in D PROVE \E o \in owned : o[3] = x
    OBVIOUS
  <2>1. CASE \E j \in Held(t) : x = cache[j].slot.wt[t]
    <3>1. PICK j \in Held(t) : x = cache[j].slot.wt[t]
      BY <2>1
    <3>2. <<"scratch", j, cache[j].slot.wt[t]>> \in owned
      BY <1>3
    <3>3. <<"scratch", j, cache[j].slot.wt[t]>>[3] = x
      BY <3>1
    <3> QED BY <3>2, <3>3
  <2>2. CASE \E a \in Kept(t) : x = wts[a].wt[t]
    <3>1. PICK a \in Kept(t) : x = wts[a].wt[t]
      BY <2>2
    <3>2. <<"weight", a, wts[a].wt[t]>> \in owned
      BY <1>3
    <3>3. <<"weight", a, wts[a].wt[t]>>[3] = x
      BY <3>1
    <3> QED BY <3>2, <3>3
  <2> QED BY <1>5, <2>1, <2>2
<1>8. \A o \in owned : o[3] \in D
  BY <1>5, <1>6
<1>9. ASSUME NEW o \in owned, NEW p \in owned, o[3] = p[3] PROVE o = p
  <2>1. CASE \E j, h \in Held(t) : /\ o = <<"scratch", j, cache[j].slot.wt[t]>>
                                   /\ p = <<"scratch", h, cache[h].slot.wt[t]>>
    BY <1>5, <1>9, <2>1
  <2>2. CASE \E a, b \in Kept(t) : /\ o = <<"weight", a, wts[a].wt[t]>>
                                   /\ p = <<"weight", b, wts[b].wt[t]>>
    BY <1>5, <1>9, <2>2
  <2>3. CASE \E j \in Held(t), a \in Kept(t) :
                \/ /\ o = <<"scratch", j, cache[j].slot.wt[t]>>
                   /\ p = <<"weight", a, wts[a].wt[t]>>
                \/ /\ p = <<"scratch", j, cache[j].slot.wt[t]>>
                   /\ o = <<"weight", a, wts[a].wt[t]>>
    BY <1>5, <1>9, <2>3
  <2> QED BY <1>6, <2>1, <2>2, <2>3
<1>10. {o[3] : o \in owned} = D
  BY <1>7, <1>8
<1> HIDE DEF owned, D
<1>11. f \in Injection(owned, D) /\ f \in Surjection(owned, D)
  <2>1. f \in [owned -> D] /\ \A o \in owned : f[o] = o[3]
    BY <1>8
  <2> HIDE DEF f
  <2>2. \A o, p \in owned : f[o] = f[p] => o = p
    BY <1>9, <2>1
  <2>3. \A x \in D : \E o \in owned : f[o] = x
    BY <1>7, <2>1
  <2> QED BY <2>1, <2>2, <2>3 DEF Injection, IsInjective, Surjection
<1>12. IsFiniteSet(D)
  BY DEF D, CacheInv, Types, Finite
<1>13. Cardinality(owned) = Cardinality(D)
  <2> HIDE DEF f, D
  <2> QED BY <1>11, <1>12, FS_Injection
<1> QED BY <1>10, <1>13 DEF owned, D

\* Between calls the live buffers of each fd are the cached scratches' and the
\* resident weights', each held by one of them: no call, recycled slot or failed
\* allocation leaks a buffer or leaves one with two owners.
THEOREM BosCorrect == Spec => []BosOwned
<1>1. Init => CacheInv /\ Owners
  BY InitCache, InitOwners
<1>2. CacheInv /\ Owners /\ [Next]_vars => (CacheInv /\ Owners)'
  BY NextCache, NextOwners
<1>3. CacheInv /\ Owners => BosOwned
  BY OwnersCounted DEF BosOwned, CacheInv, Fans
<1> QED BY <1>1, <1>2, <1>3, PTL DEF Spec

-----------------------------------------------------------------------------
(* The answer.                                                             *)

\* A worker that runs has its buffers in hand: the scratch's own and, in a
\* run, the weight's.
LEMMA InHand ==
    ASSUME CacheInv, Owners, NEW t \in Worker, wpc[t] \notin {"none", "done"}
    PROVE  /\ at \in Held(t) /\ Own(at, t) \in DOMAIN heap[t]
           /\ call.op # "run" => Own(at, t) = Sc.wt[t]
           /\ \A a \in Kept(t) : wts[a].wt[t] \in DOMAIN heap[t] /\ Own(at, t) # wts[a].wt[t]
           /\ call.op = "run" => call.src \in Kept(t)
<1>1. pc \in Fan /\ pc \in Resolved /\ t \in 1 .. Sc.nt /\ at \in DOMAIN cache /\ Sc.nt \in Nat
  BY Running, InUse
<1>2. t <= Sc.nt /\ pc # "build"
  BY <1>1 DEF Fan
<1>3. at \in Held(t)
  BY <1>1, <1>2 DEF Held, Sc
<1>4. Partition(DOMAIN heap[t], Scratches(t), Residents(t))
  BY DEF Owners
<1>5. Own(at, t) \in DOMAIN heap[t]
  BY <1>3, <1>4 DEF Partition, Scratches
<1>6. \A a \in Kept(t) : wts[a].wt[t] \in DOMAIN heap[t] /\ Own(at, t) # wts[a].wt[t]
  BY <1>3, <1>4 DEF Partition, Scratches, Residents
<1>7. call.op # "run" => Own(at, t) = Sc.wt[t]
  BY DEF Own, Sc
<1>8. call.op = "run" => call.src \in Kept(t)
  BY <1>1, <1>2, FitBuffers DEF Kept
<1> QED BY <1>3, <1>5, <1>6, <1>7, <1>8

\* A step that leaves every weight and its buffers as they are.
LEMMA WrittenKept ==
    ASSUME Contents, wts' = wts, NEW t \in Worker,
           \A a \in Kept(t) : heap'[t][wts[a].wt[t]] = heap[t][wts[a].wt[t]]
    PROVE  Written(t)'
<1>1. Kept(t)' = Kept(t)
  BY DEF Kept
<1> QED BY <1>1 DEF Contents, Written

\* Outside a fan-out nothing is being read.
LEMMA NoReading ==
    ASSUME CacheInv', pc' \notin Fan, NEW t \in Worker
    PROVE  Reading(t)' /\ Answered(t)'
<1>1. wpc'[t] = "none"
  BY DEF CacheInv, Fans
<1> QED BY <1>1 DEF Reading, Answered

\* A buffer of a weight is live.
LEMMA WeightLives ==
    ASSUME Owners, NEW t \in Worker, NEW a \in Kept(t)
    PROVE  wts[a].wt[t] \in DOMAIN heap[t]
BY DEF Owners, Partition, Residents

\* At first there is nothing to be wrong about.
LEMMA InitAnswer == Init => AnswerInv
<1> SUFFICES ASSUME Init, NEW t \in Worker PROVE Written(t) /\ Reading(t) /\ Answered(t)
  BY DEF AnswerInv, Contents
<1>1. Kept(t) = {}
  BY DEF Kept, Init, NoWeight, Worker
<1>2. wpc[t] = "none"
  BY DEF Init
<1> QED BY <1>1, <1>2 DEF Written, Reading, Answered

\* The steps outside a fan-out that leave the weights' buffers alone.
LEMMA OutsideAnswer ==
    ASSUME CacheInv, CacheInv', AnswerInv, pc' \notin Fan, wts' = wts,
           \A t \in Worker : \A a \in Kept(t) :
              heap'[t][wts[a].wt[t]] = heap[t][wts[a].wt[t]]
    PROVE  AnswerInv'
<1> SUFFICES ASSUME NEW t \in Worker PROVE Written(t)' /\ Reading(t)' /\ Answered(t)'
  BY DEF AnswerInv, Contents
<1> QED BY WrittenKept, NoReading DEF AnswerInv

\* The steps of a caller outside the fan-out that write no weight's buffer.
LEMMA IdleAnswer ==
    ASSUME CacheInv, CacheInv', Owners, AnswerInv,
           \/ CtxCreate \/ Hit \/ Miss \/ Refuse \/ Return \/ PackFails \/ BuildFails
           \/ Recycle \/ Build
           \/ \E a \in Name : \E k \in Key : \E op \in {"pack", "run", "stream"} : Begin(op, a, k)
    PROVE  AnswerInv'
<1>1. pc' \notin Fan
  BY DEF CtxCreate, Hit, Miss, Refuse, Return, PackFails, BuildFails, Recycle, Build, Begin, Fan,
         Leave
<1>2. wts' = wts
  BY DEF CtxCreate, Hit, Miss, Refuse, Return, PackFails, BuildFails, Recycle, Build, Begin
<1> SUFFICES ASSUME NEW t \in Worker, NEW a \in Kept(t)
             PROVE  heap'[t][wts[a].wt[t]] = heap[t][wts[a].wt[t]]
  BY <1>1, <1>2, OutsideAnswer
<1>3. wts[a].wt[t] \in DOMAIN heap[t] /\ Finite(heap)
  BY WeightLives DEF CacheInv, Types
<1>4. CASE UNCHANGED heap
  BY <1>4
<1>5. CASE PackFails
  BY <1>3, <1>5, PackFailsCache DEF SameHeap
<1>6. CASE BuildFails
  <2>1. PICK u \in 1 .. Slices(CallKey) :
            heap' = FreeOn(AllocOn(heap, Zeroed(Unwound(u))), Unwound(u), Fresh(heap))
    BY <1>6 DEF BuildFails, Unwound
  <2>2. SameHeap(heap', heap)
    BY <1>3, <2>1, UndoneShape
  <2> QED BY <1>3, <2>2 DEF SameHeap
<1>7. CASE Build
  <2> DEFINE c == Zeroed(1 .. Scratch(CallKey, heap).nt)
  <2>1. heap' = AllocOn(heap, c)
    BY <1>7 DEF Build
  <2> HIDE DEF c
  <2>2. AllocOn(heap, c)[t][wts[a].wt[t]] = heap[t][wts[a].wt[t]]
    BY <1>3, AllocAt, AllocOff
  <2> QED BY <2>1, <2>2
<1>8. CASE Recycle
  <2> DEFINE v == Victim(cache)
             T == 1 .. cache[v].slot.nt
             b == cache[v].slot.wt
  <2>1. pc = "resolve" /\ heap' = FreeOn(heap, T, b)
    BY <1>8 DEF Recycle
  <2>2. t \in T => b[t] # wts[a].wt[t]
    <3> SUFFICES ASSUME t \in T PROVE b[t] # wts[a].wt[t]
      OBVIOUS
    <3>1. v \in DOMAIN cache
      <4>1. Len(cache) \in Nat /\ Len(cache) > 0 /\ cache \in Seq(Entries)
        BY <1>8, SlotAssumption DEF Recycle, Full, CacheInv, Types
      <4> QED BY <4>1, VictimLeast
    <3>2. t <= cache[v].slot.nt
      BY <3>1, CachedShape DEF CacheInv, Types, Worker
    <3>3. v \in Held(t)
      BY <2>1, <3>1, <3>2 DEF Held
    <3>4. Own(v, t) = b[t]
      BY <2>1, OwnAtRest DEF Fan
    <3>5. Own(v, t) # wts[a].wt[t]
      BY <3>3 DEF Owners, Partition, Scratches, Residents
    <3> QED BY <3>4, <3>5
  <2> HIDE DEF v, T, b
  <2>3. FreeOn(heap, T, b)[t][wts[a].wt[t]] = heap[t][wts[a].wt[t]]
    <3>1. CASE t \in T
      <4>1. wts[a].wt[t] \in DOMAIN heap[t] \ {b[t]}
        BY <1>3, <2>2, <3>1
      <4> QED BY <3>1, <4>1, FreeAt
    <3>2. CASE t \notin T
      <4>1. FreeOn(heap, T, b)[t] = heap[t]
        BY <3>2, FreeOff
      <4> QED BY <4>1
    <3> QED BY <3>1, <3>2
  <2> QED BY <2>1, <2>3
<1> QED BY <1>4, <1>5, <1>6, <1>7, <1>8 DEF CtxCreate, Hit, Miss, Refuse, Return, Begin

\* Packing fills the new weight's buffers and no others.
LEMMA PackAnswer ==
    ASSUME CacheInv, CacheInv', Owners, AnswerInv, Pack PROVE AnswerInv'
<1> DEFINE a == call.src
           c == [t \in 1 .. Sc.nt |-> [src |-> a, sig |-> Sig(Sc, t)]]
<1>1. pc = "have" /\ pc' \notin Fan /\ pc \in Busy /\ pc \in Resolved /\ call.op = "pack"
      /\ heap' = AllocOn(heap, c)
  BY DEF Pack, Leave, Fan, Resolved, Busy
<1>2. a \in Name /\ Finite(heap) /\ Sc.nt \in Worker /\ wts[a] = NoWeight
  BY <1>1, InUse DEF CacheInv, Calls, Types
<1>3. /\ wts'[a].nt = Sc.nt /\ \A t \in 1 .. Sc.nt : wts'[a].wt[t] = Fresh(heap)[t]
      /\ \A t \in 1 .. Sc.nt : wts'[a].sig[t] = Sig(Sc, t)
      /\ \A b \in Name : b # a => wts'[b] = wts[b]
  BY <1>2 DEF Pack, CacheInv, Types
<1>4. DOMAIN c = 1 .. Sc.nt /\ \A t \in 1 .. Sc.nt : c[t] = [src |-> a, sig |-> Sig(Sc, t)]
  OBVIOUS
<1> HIDE DEF c, a
<1> SUFFICES ASSUME NEW t \in Worker PROVE Written(t)'
  BY <1>1, NoReading DEF AnswerInv, Contents
<1> SUFFICES ASSUME NEW b \in Kept(t)'
             PROVE  heap'[t][wts'[b].wt[t]] = [src |-> b, sig |-> wts'[b].sig[t]]
  BY DEF Written
<1>5. b \in Name /\ t <= wts'[b].nt
  BY DEF Kept
<1>6. CASE b = a
  <2>1. t \in DOMAIN c /\ t \in 1 .. Sc.nt
    BY <1>2, <1>3, <1>4, <1>5, <1>6 DEF Worker
  <2>2. AllocOn(heap, c)[t][Fresh(heap)[t]] = c[t]
    BY <1>2, <2>1, AllocAt
  <2> QED BY <1>1, <1>3, <1>4, <1>6, <2>1, <2>2
<1>7. CASE b # a
  <2>1. b \in Kept(t) /\ wts'[b] = wts[b]
    BY <1>3, <1>5, <1>7 DEF Kept
  <2>2. wts[b].wt[t] \in DOMAIN heap[t]
    BY <2>1, WeightLives
  <2>3. AllocOn(heap, c)[t][wts[b].wt[t]] = heap[t][wts[b].wt[t]]
    BY <1>2, <2>2, AllocAt, AllocOff
  <2>4. heap[t][wts[b].wt[t]] = [src |-> b, sig |-> wts[b].sig[t]]
    BY <2>1 DEF AnswerInv, Contents, Written
  <2> QED BY <1>1, <2>1, <2>3, <2>4
<1> QED BY <1>6, <1>7

\* Freeing leaves the remaining weights their buffers.
LEMMA FreedAnswer ==
    ASSUME CacheInv, CacheInv', Owners, AnswerInv, CtxFree \/ \E a \in Name : WeightsFree(a)
    PROVE  AnswerInv'
<1>1. pc' \notin Fan
  BY DEF CtxFree, WeightsFree, Fan
<1> SUFFICES ASSUME NEW t \in Worker PROVE Written(t)'
  BY <1>1, NoReading DEF AnswerInv, Contents
<1>2. CASE CtxFree
  <2>1. Kept(t)' = {}
    BY <1>2 DEF CtxFree, Kept, NoWeight, Worker
  <2> QED BY <2>1 DEF Written
<1>3. CASE \E a \in Name : WeightsFree(a)
  <2>1. PICK a \in Name : WeightsFree(a)
    BY <1>3
  <2> SUFFICES ASSUME NEW b \in Kept(t)'
               PROVE  heap'[t][wts'[b].wt[t]] = [src |-> b, sig |-> wts'[b].sig[t]]
    BY DEF Written
  <2> DEFINE T == 1 .. wts[a].nt
             f == wts[a].wt
  <2>2. heap' = FreeOn(heap, T, f) /\ wts' = [wts EXCEPT ![a] = NoWeight] /\ wts[a] # NoWeight
    BY <2>1 DEF WeightsFree
  <2>3. b # a
    BY <2>2 DEF Kept, CacheInv, Types, NoWeight, Worker
  <2>4. b \in Kept(t) /\ wts'[b] = wts[b] /\ b \in Name
    BY <2>2, <2>3 DEF Kept, CacheInv, Types
  <2>5. wts[b].wt[t] \in DOMAIN heap[t]
    BY <2>4, WeightLives
  <2>6. t \in T => f[t] # wts[b].wt[t]
    <3> SUFFICES ASSUME t \in T PROVE f[t] # wts[b].wt[t]
      OBVIOUS
    <3>1. wts[a] \in Weights
      BY <2>2 DEF CacheInv, Types
    <3>2. wts[a].nt \in Worker
      BY <3>1, WeightShape
    <3>3. a \in Kept(t)
      BY <3>2 DEF Kept, Worker
    <3> QED BY <2>3, <2>4, <3>3 DEF Owners, Partition, Residents
  <2> HIDE DEF T, f
  <2>7. FreeOn(heap, T, f)[t][wts[b].wt[t]] = heap[t][wts[b].wt[t]]
    <3>1. CASE t \in T
      <4>1. wts[b].wt[t] \in DOMAIN heap[t] \ {f[t]}
        BY <2>5, <2>6, <3>1
      <4> QED BY <3>1, <4>1, FreeAt
    <3>2. CASE t \notin T
      <4>1. FreeOn(heap, T, f)[t] = heap[t]
        BY <3>2, FreeOff
      <4> QED BY <4>1
    <3> QED BY <3>1, <3>2
  <2>8. heap[t][wts[b].wt[t]] = [src |-> b, sig |-> wts[b].sig[t]]
    BY <2>4 DEF AnswerInv, Contents, Written
  <2> QED BY <2>2, <2>4, <2>7, <2>8
<1> QED BY <1>2, <1>3

\* The steps of the fan-out on the calling thread.
LEMMA CallerAnswer ==
    ASSUME CacheInv, AnswerInv,
           UNCHANGED <<heap, cache, wts, call, at, ret, C>>,
           \A t \in Worker : wpc'[t] = wpc[t] \/ wpc'[t] \in {"start", "failed"}
    PROVE  AnswerInv'
<1> SUFFICES ASSUME NEW t \in Worker PROVE Written(t)' /\ Reading(t)' /\ Answered(t)'
  BY DEF AnswerInv, Contents
<1>1. Written(t)'
  BY WrittenKept DEF AnswerInv
<1>2. Sc' = Sc /\ Sig(Sc, t)' = Sig(Sc, t)
  BY DEF Sc, Sig
<1>3. Reading(t)'
  BY <1>2 DEF AnswerInv, Contents, Reading
<1>4. Answered(t)'
  BY <1>2 DEF AnswerInv, Answered
<1> QED BY <1>1, <1>3, <1>4

\* The steps of the fan-out on the calling thread write no buffer.
LEMMA FanAnswer ==
    ASSUME CacheInv, AnswerInv,
           \/ Go \/ Inline \/ RunInline \/ InlineDone \/ Join
           \/ \E ok \in BOOLEAN : Spawn(ok)
    PROVE  AnswerInv'
<1>1. UNCHANGED <<heap, cache, wts, call, at, ret, C>>
  BY DEF Go, Inline, RunInline, InlineDone, Join, Spawn, cachevars, fanvars
<1>2. \A t \in Worker : wpc'[t] = wpc[t] \/ wpc'[t] \in {"start", "failed"}
  <2>1. wpc \in [Worker -> Phase]
    BY DEF CacheInv, Types
  <2>2. CASE Go \/ Inline \/ InlineDone \/ Join
    BY <2>2 DEF Go, Inline, InlineDone, Join, fanvars
  <2>3. CASE RunInline
    BY <2>1, <2>3 DEF RunInline
  <2>4. CASE \E ok \in BOOLEAN : Spawn(ok)
    BY <2>1, <2>4 DEF Spawn
  <2> QED BY <2>2, <2>3, <2>4
<1> QED BY <1>1, <1>2, CallerAnswer

\* What worker t computes from is the matrix the caller named.
LEMMA ComputedRight ==
    ASSUME CacheInv, Owners, AnswerInv, NEW t \in Worker, wpc[t] = "loaded"
    PROVE  Computed(t) = call.src
<1>1. pc \in Fan /\ pc \in Busy /\ t \in 1 .. Sc.nt
  BY Running DEF Busy
<1>2. call.op \in {"run", "stream"}
  BY <1>1 DEF CacheInv, Calls
<1>3. Written(t) /\ Reading(t)
  BY DEF AnswerInv, Contents
<1>4. CASE call.op = "run"
  <2>1. Sc.wt[t] = wts[call.src].wt[t]
    BY <1>3, <1>4 DEF Reading
  <2>2. call.src \in Kept(t) /\ wts[call.src].wt[t] \in DOMAIN heap[t]
    BY <1>4, InHand
  <2>3. heap[t][wts[call.src].wt[t]] = [src |-> call.src, sig |-> wts[call.src].sig[t]]
    BY <1>3, <2>2 DEF Written
  <2>4. wts[call.src].sig[t] = Sig(Sc, t)
    BY <1>1, <1>4, FitBuffers
  <2> QED BY <2>1, <2>2, <2>3, <2>4 DEF Computed
<1>5. CASE call.op = "stream"
  <2>1. heap[t][Sc.wt[t]] = [src |-> call.src, sig |-> Sig(Sc, t)]
    BY <1>3, <1>5 DEF Reading
  <2>2. Sc.wt[t] \in DOMAIN heap[t]
    BY <1>5, InHand
  <2> QED BY <2>1, <2>2 DEF Computed
<1> QED BY <1>2, <1>4, <1>5

\* A streamed weight is packed over no resident one's buffer.
LEMMA WorkerHeap ==
    ASSUME CacheInv, Owners, NEW t \in Worker, WorkerStep(t)
    PROVE  /\ \A u \in Worker : u # t => heap'[u] = heap[u]
           /\ \A u \in Worker : \A a \in Kept(u) :
                 heap'[u][wts[a].wt[u]] = heap[u][wts[a].wt[u]]
           /\ wpc'[t] = "packed" =>
                 heap'[t][Sc.wt[t]] = [src |-> call.src, sig |-> Sig(Sc, t)]
           /\ wpc'[t] = "loaded" => heap' = heap
<1> DEFINE w == Sc.wt[t]
           v == [src |-> call.src, sig |-> Sig(Sc, t)]
<1>1. wpc \in [Worker -> Phase] /\ DOMAIN heap = Worker
  BY DEF CacheInv, Types
<1>2. CASE UNCHANGED heap /\ wpc'[t] # "packed"
  BY <1>2
<1>3. CASE /\ wpc[t] = "swapped" /\ call.op = "stream"
           /\ heap' = [heap EXCEPT ![t][w] = v] /\ wpc' = [wpc EXCEPT ![t] = "packed"]
  <2>1. w \in DOMAIN heap[t] /\ \A a \in Kept(t) : w # wts[a].wt[t]
    BY <1>3, InHand
  <2>2. wpc'[t] = "packed"
    BY <1>1, <1>3
  <2> HIDE DEF w, v
  <2>3. heap'[t] = [heap[t] EXCEPT ![w] = v] /\ \A u \in Worker : u # t => heap'[u] = heap[u]
    BY <1>1, <1>3
  <2>4. heap'[t][w] = v /\ \A x : x # w => heap'[t][x] = heap[t][x]
    BY <2>1, <2>3
  <2>5. ASSUME NEW u \in Worker, NEW a \in Kept(u)
        PROVE  heap'[u][wts[a].wt[u]] = heap[u][wts[a].wt[u]]
    <3>1. CASE u = t
      <4>1. w # wts[a].wt[t]
        BY <2>1, <2>5, <3>1
      <4> QED BY <2>4, <3>1, <4>1
    <3>2. CASE u # t
      BY <2>3, <3>2
    <3> QED BY <3>1, <3>2
  <2>6. heap'[t][Sc.wt[t]] = [src |-> call.src, sig |-> Sig(Sc, t)]
    BY <2>4 DEF w, v
  <2>7. wpc'[t] # "loaded"
    BY <2>2
  <2> QED BY <2>3, <2>5, <2>6, <2>7
<1>4. CASE PackB(t)
  <2>1. CASE Exit(t, -1) /\ UNCHANGED heap
    <3>1. wpc'[t] = "done"
      BY <1>1, <2>1 DEF Exit
    <3> QED BY <1>2, <2>1, <3>1
  <2> QED BY <1>3, <1>4, <2>1 DEF PackB
<1>5. CASE Start(t) \/ LoadA(t) \/ Compute(t)
  <2>1. heap' = heap /\ wpc'[t] \in {"done", "swapped", "loaded"}
    BY <1>1, <1>5 DEF Start, LoadA, Compute, Exit
  <2> QED BY <1>2, <2>1
<1> QED BY <1>4, <1>5 DEF WorkerStep

\* A worker's step puts in place, for its own slice alone, what it will read.
LEMMA WorkerReading ==
    ASSUME CacheInv, Owners, AnswerInv, NEW t \in Worker, WorkerStep(t), NEW u \in Worker
    PROVE  Reading(u)'
<1>1. /\ WorkerFrame(t) /\ call' = call /\ at' = at /\ wts' = wts /\ wpc[t] \notin {"none", "done"}
      /\ SameSlots(cache', cache)
  BY WorkerFrames DEF WorkerFrame
<1>2. wpc \in [Worker -> Phase] /\ Reading(u)
  BY DEF CacheInv, Types, AnswerInv, Contents
<1>3. at \in DOMAIN cache /\ t \in 1 .. Sc.nt
  BY <1>1, Running, InUse
<1>4. Sc'.w = Sc.w /\ Sig(Sc, u)' = Sig(Sc, u)
  BY <1>1, <1>3 DEF SameSlots, Sc, Sig
<1>5. CASE u # t
  <2>1. wpc'[u] = wpc[u] /\ heap'[u] = heap[u]
    <3>1. PICK v \in Phase : wpc' = [wpc EXCEPT ![t] = v]
      BY <1>1 DEF WorkerFrame
    <3>2. wpc'[u] = wpc[u]
      BY <1>2, <1>5, <3>1
    <3>3. heap'[u] = heap[u]
      BY <1>5, WorkerHeap
    <3> QED BY <3>2, <3>3
  <2>2. wpc[u] \in {"swapped", "packed", "loaded"} => Sc'.wt[u] = Sc.wt[u]
    <3> SUFFICES ASSUME wpc[u] \in {"swapped", "packed", "loaded"} PROVE Sc'.wt[u] = Sc.wt[u]
      OBVIOUS
    <3>1. u \in 1 .. Sc.nt
      BY Running
    <3>2. cache'[at].slot.wt[u] = cache[at].slot.wt[u]
      BY <1>1, <1>3, <1>5, <3>1 DEF WorkerFrame, Sc
    <3> QED BY <1>1, <3>2 DEF Sc
  <2> QED BY <1>1, <1>2, <1>4, <2>1, <2>2 DEF Reading
<1>6. CASE u = t
  <2>1. CASE wpc'[t] = "done"
    BY <1>6, <2>1 DEF Reading
  <2>2. CASE Start(t) /\ wpc'[t] = "swapped"
    <3>1. call.op = "run" => Sc'.wt[t] = wts[call.src].wt[t]
      <4> SUFFICES ASSUME call.op = "run" PROVE Sc'.wt[t] = wts[call.src].wt[t]
        OBVIOUS
      <4>1. SetWt(t, wts[call.src].wt[t])
        BY <1>2, <2>2 DEF Start, Exit
      <4>2. wts[call.src].wt[t] \in Nat /\ cache \in Seq(Entries)
        BY <1>1, <1>3, FitBuffers, Running, InUse
      <4>3. cache'[at].slot.wt[t] = wts[call.src].wt[t]
        BY <1>3, <4>1, <4>2, SwapShape
      <4> QED BY <1>1, <4>3 DEF Sc
    <3> QED BY <1>1, <1>6, <2>2, <3>1 DEF Reading
  <2>3. CASE wpc'[t] = "packed"
    <3>1. heap'[t][Sc.wt[t]] = [src |-> call.src, sig |-> Sig(Sc, t)]
      BY <2>3, WorkerHeap
    <3>2. UNCHANGED cache
      BY <1>2, <2>3 DEF WorkerStep, Start, PackB, LoadA, Compute, Exit
    <3>3. Sc' = Sc
      BY <1>1, <3>2 DEF Sc
    <3> QED BY <1>1, <1>4, <1>6, <2>3, <3>1, <3>3 DEF Reading
  <2>4. CASE LoadA(t) /\ wpc'[t] = "loaded"
    <3>1. UNCHANGED cache /\ heap' = heap
      BY <1>2, <2>4 DEF LoadA, Exit
    <3>2. Sc' = Sc
      BY <1>1, <3>1 DEF Sc
    <3>3. wpc[t] = IF call.op = "stream" THEN "packed" ELSE "swapped"
      BY <2>4 DEF LoadA
    <3> QED BY <1>1, <1>2, <1>4, <1>6, <2>4, <3>1, <3>2, <3>3 DEF Reading
  <2>5. CASE Start(t) /\ wpc'[t] # "done"
    <3>1. wpc'[t] = "swapped"
      BY <1>2, <2>5 DEF Start, Exit
    <3> QED BY <2>2, <2>5, <3>1
  <2>6. PackB(t) => wpc'[t] \in {"done", "packed"}
    BY <1>2 DEF PackB, Exit
  <2>7. LoadA(t) => wpc'[t] \in {"done", "loaded"}
    BY <1>2 DEF LoadA, Exit
  <2>8. Compute(t) => wpc'[t] = "done"
    BY <1>2 DEF Compute, Exit
  <2> QED BY <2>1, <2>3, <2>4, <2>5, <2>6, <2>7, <2>8 DEF WorkerStep
<1> QED BY <1>5, <1>6

\* A worker that ends well has written its slice, and no other overwrites it.
LEMMA WorkerAnswered ==
    ASSUME CacheInv, Owners, AnswerInv, NEW t \in Worker, WorkerStep(t), NEW u \in Worker
    PROVE  Answered(u)'
<1>1. /\ WorkerFrame(t) /\ call' = call /\ at' = at /\ wpc[t] \notin {"none", "done"}
      /\ SameSlots(cache', cache)
  BY WorkerFrames DEF WorkerFrame
<1>2. wpc \in [Worker -> Phase] /\ ret \in [Worker -> Int] /\ Answered(u)
  BY DEF CacheInv, Types, AnswerInv
<1>3. at \in DOMAIN cache
  BY <1>1, Running, InUse
<1>4. Sc'.w = Sc.w
  BY <1>1, <1>3 DEF SameSlots, Sc
<1>5. CASE UNCHANGED C
  <2>1. CASE u # t
    <3>1. wpc'[u] = wpc[u] /\ ret'[u] = ret[u]
      BY <1>1, <1>2, <2>1 DEF WorkerFrame
    <3> QED BY <1>1, <1>2, <1>4, <1>5, <3>1 DEF Answered
  <2>2. CASE u = t
    <3>1. CASE Exit(t, -1)
      <4>1. ret'[t] = -1
        BY <1>2, <3>1 DEF Exit
      <4> QED BY <2>2, <4>1 DEF Answered
    <3>2. CASE wpc'[t] # "done"
      BY <2>2, <3>2 DEF Answered
    <3>3. CASE Exit(t, 0)
      <4>1. Compute(t) /\ wpc[t] = "loaded"
        BY <1>2, <3>3 DEF WorkerStep, Start, PackB, LoadA, Compute, Exit
      <4>2. C' = [x \in DOMAIN C |-> IF InSlice(x, Sc.w[t]) THEN Computed(t) ELSE C[x]]
        <5>1. ~Exit(t, -1)
          BY <1>2, <3>3 DEF Exit
        <5> QED BY <4>1, <5>1 DEF Compute
      <4>3. Computed(t) = call.src
        BY <4>1, ComputedRight
      <4> QED BY <1>1, <1>4, <2>2, <4>2, <4>3 DEF Answered
    <3> QED BY <1>2, <3>1, <3>2, <3>3 DEF WorkerStep, Start, PackB, LoadA, Compute, Exit
  <2> QED BY <2>1, <2>2
<1>6. CASE /\ wpc[t] = "loaded"
           /\ C' = [x \in DOMAIN C |-> IF InSlice(x, Sc.w[t]) THEN Computed(t) ELSE C[x]]
  <2>1. Computed(t) = call.src
    BY <1>6, ComputedRight
  <2>2. DOMAIN C' = DOMAIN C
        /\ \A x \in DOMAIN C : C'[x] = IF InSlice(x, Sc.w[t]) THEN call.src ELSE C[x]
    BY <1>6, <2>1
  <2>3. CASE u = t
    BY <1>1, <1>4, <2>2, <2>3 DEF Answered
  <2>4. CASE u # t
    <3>1. wpc'[u] = wpc[u] /\ ret'[u] = ret[u]
      BY <1>1, <1>2, <2>4 DEF WorkerFrame
    <3> QED BY <1>1, <1>2, <1>4, <2>2, <3>1 DEF Answered
  <2> QED BY <2>3, <2>4
<1>7. UNCHANGED C \/ Compute(t)
  BY DEF WorkerStep, Start, PackB, LoadA
<1> QED BY <1>5, <1>6, <1>7 DEF Compute

\* So a worker's step keeps the whole.
LEMMA WorkerAnswer ==
    ASSUME CacheInv, Owners, AnswerInv, NEW t \in Worker, WorkerStep(t)
    PROVE  AnswerInv'
<1>1. wts' = wts
  BY WorkerFrames DEF WorkerFrame
<1>2. \A u \in Worker : Written(u)'
  BY <1>1, WorkerHeap, WrittenKept DEF AnswerInv
<1>3. \A u \in Worker : Reading(u)' /\ Answered(u)'
  BY WorkerReading, WorkerAnswered
<1> QED BY <1>2, <1>3 DEF AnswerInv, Contents

\* Every step keeps the buffers' contents and the slices written.
LEMMA NextAnswer == ASSUME CacheInv, Owners, AnswerInv, [Next]_vars PROVE AnswerInv'
<1>0. CacheInv'
  BY NextCache
<1>1. CASE Main
  <2>1. CASE \E a \in Name : \E k \in Key : CallPack(a, k) \/ CallRun(a, k) \/ CallStream(a, k)
    BY <1>0, <2>1, CallCache, IdleAnswer
  <2>2. CASE CtxFree \/ \E a \in Name : WeightsFree(a)
    BY <1>0, <2>2, FreedAnswer
  <2>3. CASE \E ok \in BOOLEAN : Spawn(ok)
    BY <2>3, FanAnswer
  <2>4. CASE \/ CtxCreate \/ Hit \/ Miss \/ Refuse \/ Return \/ PackFails \/ BuildFails
             \/ Recycle \/ Build
    BY <1>0, <2>4, IdleAnswer
  <2>5. CASE Go \/ Inline \/ RunInline \/ InlineDone \/ Join
    BY <2>5, FanAnswer
  <2>6. CASE Pack
    BY <1>0, <2>6, PackAnswer
  <2> QED BY <1>1, <2>1, <2>2, <2>3, <2>4, <2>5, <2>6 DEF Main
<1>2. CASE \E t \in Worker : WorkerStep(t)
  BY <1>2, WorkerAnswer
<1>3. CASE UNCHANGED vars
  <2>1. UNCHANGED <<heap, cache, wts, call, at, ret, C, wpc>>
    BY <1>3 DEF vars, cachevars, fanvars
  <2> QED BY <2>1, CallerAnswer
<1> QED BY <1>1, <1>2, <1>3 DEF Next

\* The workers a shape uses are the first ones.
LEMMA FirstWorkers ==
    ASSUME NEW dim \in Nat \ {0}
    PROVE  LET used == {t \in Worker : (t - 1) * NStep(dim) < dim}
           IN  used = 1 .. Cardinality(used)
<1> DEFINE used == {t \in Worker : (t - 1) * NStep(dim) < dim}
           out == {t \in Nat \ {0} : t \notin used}
<1>1. NThreads \in Nat \ {0} /\ NStep(dim) \in Nat
  BY PrepackedAssumption DEF NStep
<1>2. NThreads + 1 \in out /\ out \subseteq Nat
  BY <1>1 DEF Worker
<1>3. PICK m \in out : \A t \in out : m <= t
  <2> HIDE DEF out
  <2> QED BY <1>2, LeastNumber
<1>4. m \in Nat \ {0} /\ m - 1 \in Nat /\ m <= NThreads + 1
  BY <1>2, <1>3
<1>5. \A t \in 1 .. m - 1 : t \in used
  BY <1>3, <1>4
<1>6. ASSUME NEW t \in used PROVE t \in 1 .. m - 1
  <2>1. t \in 1 .. NThreads /\ (t - 1) * NStep(dim) < dim
    BY <1>6 DEF Worker
  <2> SUFFICES ASSUME m <= t PROVE FALSE
    BY <1>1, <1>4, <2>1
  <2>2. m \in Worker /\ ~((m - 1) * NStep(dim) < dim)
    BY <1>1, <1>3, <1>4, <2>1 DEF Worker
  <2>3. (m - 1) * NStep(dim) <= (t - 1) * NStep(dim)
    <3>1. m - 1 \in Nat /\ t - 1 \in Nat /\ m - 1 <= t - 1
      BY <1>4, <2>1
    <3> HIDE DEF used, out
    <3> QED BY <1>1, <3>1, ProductGrows
  <2>4. (m - 1) * NStep(dim) \in Int /\ (t - 1) * NStep(dim) \in Int
    BY <1>1, <1>4, <2>1
  <2> QED BY <2>1, <2>2, <2>3, <2>4
<1>7. used = 1 .. m - 1
  BY <1>5, <1>6
<1>8. Cardinality(1 .. m - 1) = m - 1
  <2>1. m - 1 \in Int /\ 1 \in Int /\ (1 <= m - 1 \/ m - 1 = 0)
    BY <1>4
  <2>2. CASE m - 1 = 0
    <3>1. 1 .. m - 1 = {}
      BY <2>2
    <3> QED BY <2>2, <3>1, FS_EmptySet
  <2>3. CASE 1 <= m - 1
    BY <2>1, <2>3, FS_Interval
  <2> QED BY <2>1, <2>2, <2>3
<1> QED BY <1>7, <1>8

\* The slices of the workers in use cover the dimension they split.
LEMMA SlicesCover ==
    ASSUME NEW dim \in Nat \ {0}, NEW x \in 1 .. dim
    PROVE  \E t \in 1 .. Cardinality({u \in Worker : (u - 1) * NStep(dim) < dim}) :
              (t - 1) * NStep(dim) < x /\ x <= (t - 1) * NStep(dim) + NStep(dim)
<1> DEFINE step == NStep(dim)
           used == {u \in Worker : (u - 1) * NStep(dim) < dim}
           reach == {t \in Nat : x <= t * step}
<1>1. NThreads \in Nat \ {0} /\ step \in Nat /\ x \in Nat /\ 1 <= x /\ x <= dim
  BY PrepackedAssumption DEF NStep
<1>2. dim <= NThreads * step
  <2>1. dim \in Nat /\ NThreads \in Nat \ {0}
    BY <1>1
  <2> QED BY <2>1, RoundUp DEF NStep
<1>3. NThreads \in reach /\ reach \subseteq Nat
  <2>1. NThreads * step \in Nat
    BY <1>1
  <2> HIDE DEF step
  <2> QED BY <1>1, <1>2, <2>1
<1>4. PICK t \in reach : \A s \in reach : t <= s
  <2> HIDE DEF reach
  <2> QED BY <1>3, LeastNumber
<1>5. t \in Nat /\ x <= t * step /\ t <= NThreads
  BY <1>3, <1>4
<1> HIDE DEF step
<1>6. t # 0
  <2>1. 0 * step = 0
    BY <1>1
  <2> QED BY <1>1, <1>5, <2>1
<1>7. t - 1 \in Nat /\ t - 1 < t
  BY <1>5, <1>6
<1>8. (t - 1) * step < x
  <2>1. t - 1 \notin reach
    BY <1>4, <1>5, <1>7
  <2>2. (t - 1) * step \in Nat
    BY <1>1, <1>7
  <2> QED BY <1>1, <1>7, <2>1, <2>2
<1>9. (t - 1) * step + step = t * step
  BY <1>1, <1>5
<1>10. t \in used
  <2>1. (t - 1) * step \in Nat
    BY <1>1, <1>7
  <2>2. (t - 1) * step < dim
    BY <1>1, <1>8, <2>1
  <2> QED BY <1>1, <1>5, <1>6, <2>2 DEF Worker, step
<1>11. used = 1 .. Cardinality(used)
  BY FirstWorkers
<1> QED BY <1>5, <1>8, <1>9, <1>10, <1>11 DEF step

\* Every cell of C is in some worker's slice.
LEMMA CellsCovered ==
    ASSUME NEW k \in Key, NEW x \in Cells(k)
    PROVE  \E t \in 1 .. Slices(k) : InSlice(x, Slice(k, t))
<1> DEFINE dim == IF k.split THEN k.m ELSE k.n
           y == IF k.split THEN x[1] ELSE x[2]
           step == NStep(dim)
<1>1. k.m \in Nat \ {0} /\ k.n \in Nat \ {0} /\ k.split \in BOOLEAN /\ NThreads \in Nat \ {0}
  BY PrepackedAssumption
<1>2. x[1] \in 1 .. k.m /\ x[2] \in 1 .. k.n
  BY DEF Cells
<1>3. dim \in Nat \ {0} /\ y \in 1 .. dim
  BY <1>1, <1>2
<1>4. step \in Nat
  <2> HIDE DEF dim
  <2> QED BY <1>1, <1>3 DEF NStep
<1>5. PICK t \in 1 .. Slices(k) : (t - 1) * step < y /\ y <= (t - 1) * step + step
  <2>1. Slices(k) = Cardinality({u \in Worker : (u - 1) * NStep(dim) < dim})
    BY DEF Slices
  <2> HIDE DEF dim, y
  <2> QED BY <1>3, <2>1, SlicesCover
<1> DEFINE lo == (t - 1) * step
<1>6. Slices(k) \in Nat
  BY SlicesRange, <1>1 DEF Worker
<1>7. lo \in Nat
  <2> HIDE DEF step
  <2> QED BY <1>4, <1>5, <1>6
<1>8. CASE k.split
  <2>1. /\ Slice(k, t).n0 = 0 /\ Slice(k, t).nsub = k.n /\ Slice(k, t).m0 = lo
        /\ Slice(k, t).msub = IF lo + step > k.m THEN k.m - lo ELSE step
    BY <1>8 DEF Slice
  <2> HIDE DEF lo, step
  <2> QED BY <1>1, <1>2, <1>4, <1>5, <1>7, <1>8, <2>1 DEF InSlice, lo
<1>9. CASE ~k.split
  <2>1. /\ Slice(k, t).m0 = 0 /\ Slice(k, t).msub = k.m /\ Slice(k, t).n0 = lo
        /\ Slice(k, t).nsub = IF lo + step > k.n THEN k.n - lo ELSE step
    BY <1>9 DEF Slice
  <2> HIDE DEF lo, step
  <2> QED BY <1>1, <1>2, <1>4, <1>5, <1>7, <1>9, <2>1 DEF InSlice, lo
<1> QED BY <1>8, <1>9

\* A call that returns success leaves in C the product of A and the weight it
\* named, in every cell, whoever ran before it in the same scratch and whichever
\* of its workers could not be started as threads.
THEOREM AnswerCorrect == Spec => []AnswerIsProduct
<1>1. Init => CacheInv /\ Owners /\ AnswerInv
  BY InitCache, InitOwners, InitAnswer
<1>2. CacheInv /\ Owners /\ AnswerInv /\ [Next]_vars => (CacheInv /\ Owners /\ AnswerInv)'
  BY NextCache, NextOwners, NextAnswer
<1>3. CacheInv /\ AnswerInv => AnswerIsProduct
  <2> SUFFICES ASSUME CacheInv, AnswerInv, pc = "joined", \A t \in 1 .. Sc.nt : ret[t] = 0,
                      NEW x \in DOMAIN C
               PROVE  C[x] = call.src
    BY DEF AnswerIsProduct
  <2>1. pc \in Busy /\ pc \in Resolved
    BY DEF Fan, Resolved, Busy
  <2>2. CallKey \in Key /\ x \in Cells(CallKey)
    BY <2>1 DEF CacheInv, Calls
  <2>3. PICK t \in 1 .. Slices(CallKey) : InSlice(x, Slice(CallKey, t))
    BY <2>2, CellsCovered
  <2>4. t \in 1 .. Sc.nt /\ t \in Worker /\ Sc.w[t] = Slice(CallKey, t) /\ t <= Sc.nt
    BY <2>1, <2>3, InUse
  <2>5. wpc[t] = "done" /\ ret[t] = 0
    BY <2>4 DEF CacheInv, Fans
  <2> QED BY <2>3, <2>4, <2>5 DEF AnswerInv, Answered
<1> QED BY <1>1, <1>2, <1>3, PTL DEF Spec

=============================================================================
