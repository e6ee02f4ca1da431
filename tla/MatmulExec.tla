----------------------------- MODULE MatmulExec -----------------------------
(***************************************************************************)
(* How the fp16 matmul runs a planned shape on the NPU (rocket_matmul.c,   *)
(* part 3).  The plan cuts C into nM x nN tiles and the contraction into   *)
(* nK partial products per tile.  Five host programs turn that into jobs   *)
(* and sum the partials: mm_compute (the oracle: one batch at a time, the  *)
(* CPU sums), mm_compute_reuse (reordered, operands kept in the CBUF),     *)
(* mm_compute_pipe (double-buffered), mm_compute_kacc (the NPU sums,       *)
(* ping-pong between two buffers, one job per K step or one chained kick   *)
(* for all of them) and mm_compute_kacc_cube (which leaves the tiles for   *)
(* the next operator).                                                     *)
(*                                                                         *)
(* The host is the sequence Build, Submit, Consume over the batches of the *)
(* program; the part runs a submitted job at some time before its fence,   *)
(* from what the register-command buffer holds THEN.  A wait may time out  *)
(* and leave jobs behind; the buffers are resident and the next call uses  *)
(* them again.  What a task computes is the pair of operand tiles it read, *)
(* and a sum is the sequence of such pairs.  A build and a job are one step*)
(* each, and a job whose fence signals has run.                            *)
(***************************************************************************)
EXTENDS Naturals, Sequences, SequencesExt

CONSTANTS Conf,        \* the programs and shapes to look at, see IsConf
          BATCH,       \* tasks of one job
          MaxPending   \* bound on the jobs left behind when a call starts

(***************************************************************************)
(* mode: the program.  chained: one kick per job (ROCKET_BATCH_SUBMIT).    *)
(* chain: ROCKET_KACC_CHAIN.  policy: ROCKET_REUSE, 3 for AUTO.  oneJob:   *)
(* an unchained submit runs as one job (rocket_submit_batch_atomic).  The  *)
(* shape: tile counts, whether the last tile of a dimension is short, and  *)
(* whether a weight tile is larger than the CBUF leaves room for.          *)
(***************************************************************************)
IsConf(c) ==
    /\ c.mode \in {"serial", "reuse", "pipe", "kacc", "cube"}
    /\ {c.chained, c.oneJob, c.streams, c.shortM, c.shortN, c.shortK} \subseteq BOOLEAN
    /\ c.chain \in 0 .. 2 /\ c.policy \in 0 .. 3
    /\ {c.nM, c.nN, c.nK} \subseteq Nat \ {0}
    /\ c.mode = "reuse" => c.policy \in {1, 2}
    /\ c.mode = "cube" => c.nM * c.nN <= BATCH

ASSUME ExecAssumption == /\ BATCH \in Nat \ {0} /\ MaxPending \in Nat
                         /\ \A c \in Conf : IsConf(c)

VARIABLES
    conf,       \* the program and shape of these buffers
    rc,         \* rc[b]: the tasks in register-command buffer b
    nb,         \* nb[b]: how many the last build put there
    out,        \* out[b][p]: the sum in slot p of output buffer b
    jobs,       \* submitted jobs that have not run, in order
    calling,    \* a call is under way
    built, submitted, consumed,   \* its batches so far
    acc,        \* the fp32 accumulator, or the C the tiles are stored to
    clean,      \* ghost: no call failed yet
    answer      \* what the last call returned, and its C

hostvars == <<calling, built, submitted, consumed, acc>>
vars == <<conf, rc, nb, out, jobs, hostvars, clean, answer>>

NoTask == [op |-> "none"]
Unknown == [lost |-> TRUE]
Old == << <<Unknown, Unknown>> >>
RcBufs == {"rc0", "rc1"}
OutBufs == {"out0", "out1", "ping", "pong"}
Range0(n) == 0 .. n - 1
Pos == Range0(BATCH)
MinOf(a, b) == IF a < b THEN a ELSE b

nTiles == conf.nM * conf.nN
Cell == Range0(conf.nM) \X Range0(conf.nN)

\* Slots of an output buffer: BATCH, or the tiles the K-accumulation uses.
Slots(b) == IF b \in {"ping", "pong"} THEN MinOf(nTiles, BATCH) ELSE BATCH

-----------------------------------------------------------------------------
\* Tiles, and whether each dimension of one is the short remainder.
Tile(mi, ni, ki) == [mi |-> mi, ni |-> ni, ki |-> ki]
Dims(t) == << conf.shortM /\ t.mi = conf.nM - 1, conf.shortN /\ t.ni = conf.nN - 1,
              conf.shortK /\ t.ki = conf.nK - 1 >>

Data(t) == [i |-> t.mi, k |-> t.ki, dims |-> Dims(t)]
Weight(t) == [i |-> t.ni, k |-> t.ki, dims |-> Dims(t)]

\* The three loop orders.
Total == nTiles * conf.nK
OracleOrder == [t \in Range0(Total) |->
    Tile(t \div (conf.nN * conf.nK), (t \div conf.nK) % conf.nN, t % conf.nK)]
WeightOrder == [t \in Range0(Total) |->
    Tile(t % conf.nM, t \div (conf.nK * conf.nM), (t \div conf.nM) % conf.nK)]
DataOrder == [t \in Range0(Total) |->
    Tile(t \div (conf.nK * conf.nN), t % conf.nN, (t \div conf.nN) % conf.nK)]

\* The tile of a K-accumulating job; the first decode keeps a weight resident.
GroupTile(tile, ki, mode) ==
    IF mode = 1 THEN Tile(tile % conf.nM, tile \div conf.nM, ki)
                ELSE Tile(tile \div conf.nN, tile % conf.nN, ki)

\* reuse_mode_for, reuse_ok and reuse_mode_plan.
\* (Seeded fault: reuse is asked for where a batch is not one job.)
ReuseAnyway(chained) == TRUE
ReuseOk(chained) == chained \/ conf.oneJob

ReuseMode(chained) ==
    LET wanted == IF conf.policy # 3 THEN conf.policy
                  ELSE IF conf.nN >= conf.nM THEN 2 ELSE 1
    IN  IF ~ReuseOk(chained) \/ (wanted = 1 /\ conf.streams) THEN 0 ELSE wanted

Task(t, dst, slot, add, wr, dr) ==
    [op |-> "task", t |-> t, dst |-> dst, slot |-> slot, add |-> add, wr |-> wr, dr |-> dr]

\* The reuse bits of tile t after tile p of the same job.
WReuse(mode, p, t) == mode = 1 /\ Dims(p) = Dims(t) /\ p.ni = t.ni /\ p.ki = t.ki
DReuse(mode, p, t) == mode = 2 /\ Dims(p) = Dims(t) /\ p.mi = t.mi /\ p.ki = t.ki

\* A job of the given tiles: where each goes and what it adds to.
JobTasks(tiles, dst, add, mode) ==
    [p \in DOMAIN tiles |->
        Task(tiles[p], dst, p - 1, add,
             p > 1 /\ WReuse(mode, tiles[p - 1], tiles[p]),
             p > 1 /\ DReuse(mode, tiles[p - 1], tiles[p]))]

Batch(r, tasks, ins, outs, wait, reads, chained) ==
    [rc |-> r, tasks |-> tasks, ins |-> ins, outs |-> outs, wait |-> wait,
     reads |-> reads, chained |-> chained]

-----------------------------------------------------------------------------
\* The programs whose partials the CPU sums: BATCH tiles a job, one slot each.
Pieces(n, cap) == (n + cap - 1) \div cap
PieceLen(n, cap, i) == MinOf(cap, n - (i - 1) * cap)

\* Batch i uses buffer pair i, counting round the given number of pairs.
HostSum(order, mode, chained, pairs) ==
    [i \in 1 .. Pieces(Total, BATCH) |->
        LET k == PieceLen(Total, BATCH, i)
            pair == 1 + ((i - 1) % pairs)
            dst == <<"out0", "out1">>[pair]
            tiles == [p \in 1 .. k |-> order[(i - 1) * BATCH + p - 1]]
        IN  Batch(<<"rc0", "rc1">>[pair], JobTasks(tiles, dst, "none", mode),
                  {}, {dst}, dst, 1 .. k, chained)]

SerialBatches == HostSum(OracleOrder, 0, conf.chained, 1)
PipeBatches == HostSum(OracleOrder, 0, FALSE, 2)
ReuseBatches ==
    LET m == ReuseMode(FALSE)
    IN  HostSum(IF m = 1 THEN WeightOrder ELSE DataOrder, m, FALSE, 1)

-----------------------------------------------------------------------------
\* The programs whose partials the NPU sums.  K step ki writes one buffer and
\* adds what the other holds.
PingPong(ki) == IF ki % 2 = 0 THEN "ping" ELSE "pong"
Addend(ki) == IF ki = 0 THEN "none" ELSE PingPong(ki + 1)

\* The buffer the last K step wrote.
Final == PingPong(conf.nK - 1)

StepTasks(base, g, ki, mode) ==
    JobTasks([p \in 1 .. g |-> GroupTile(base + p - 1, ki, mode)], PingPong(ki), Addend(ki), mode)

\* One fenced job per group and K step; the group is read after its last.
SteppedBatches(mode, chained) ==
    [j \in 1 .. Pieces(nTiles, BATCH) * conf.nK |->
        LET i  == (j - 1) \div conf.nK + 1
            ki == (j - 1) % conf.nK
            g  == PieceLen(nTiles, BATCH, i)
        IN  Batch("rc0", StepTasks((i - 1) * BATCH, g, ki, mode),
                  {Addend(ki)} \ {"none"}, {PingPong(ki)}, PingPong(ki),
                  IF ki = conf.nK - 1 THEN 1 .. g ELSE {}, chained)]

\* (Seeded fault: a group of one more tile than its K steps leave room for.)
GroupCapOver == MinOf(nTiles, BATCH \div conf.nK + 1)
GroupCap == MinOf(nTiles, BATCH \div conf.nK)

ChainEngaged == /\ conf.nK > 1 /\ conf.nK <= BATCH
                /\ conf.chain = 2 \/ (conf.chain = 1 /\ conf.nK * 3 <= BATCH)

\* All K steps of a group in one kick, step after step.
ChainedBatches ==
    LET mode == ReuseMode(TRUE)
    IN  [i \in 1 .. Pieces(nTiles, GroupCap) |->
          LET g == PieceLen(nTiles, GroupCap, i)
              last == (conf.nK - 1) * g
          IN  Batch("rc0",
                    [t \in 1 .. conf.nK * g |->
                       StepTasks((i - 1) * GroupCap, g, (t - 1) \div g, mode)[((t - 1) % g) + 1]],
                    {}, {"ping", "pong"}, Final, last + 1 .. last + g, TRUE)]

\* mm_compute_kacc_cube always decodes for an input tile kept resident, so
\* that slot p is tile p of the cube; it sets the bit where it may.
CubeBatches == SteppedBatches(IF ReuseOk(conf.chained) THEN 2 ELSE 0, conf.chained)

Batches ==
    CASE conf.mode = "serial" -> SerialBatches
      [] conf.mode = "reuse"  -> ReuseBatches
      [] conf.mode = "pipe"   -> PipeBatches
      [] conf.mode = "kacc"   -> IF ChainEngaged THEN ChainedBatches
                                 ELSE SteppedBatches(ReuseMode(conf.chained), conf.chained)
      [] conf.mode = "cube"   -> CubeBatches

N == Len(Batches)
NpuSums == conf.mode \in {"kacc", "cube"}

-----------------------------------------------------------------------------
Init ==
    /\ conf \in Conf
    /\ rc = [b \in RcBufs |-> [p \in Pos |-> NoTask]]
    /\ nb = [b \in RcBufs |-> 0]
    /\ out = [b \in OutBufs |-> [p \in Pos |-> Old]]
    /\ jobs = <<>>
    /\ calling = FALSE /\ built = 0 /\ submitted = 0 /\ consumed = 0
    /\ acc = [c \in Cell |-> <<>>]
    /\ clean = TRUE
    /\ answer = [rc |-> "none", c |-> acc]

\* The input and the weights are packed; nothing an earlier call left in the
\* output buffers is this call's.
BeginCall ==
    /\ ~calling /\ Len(jobs) <= MaxPending
    /\ calling' = TRUE
    /\ built' = 0 /\ submitted' = 0 /\ consumed' = 0
    /\ acc' = [c \in Cell |-> <<>>]
    /\ out' = [b \in OutBufs |-> [p \in Pos |-> Old]]
    /\ answer' = [rc |-> "none", c |-> acc']
    /\ UNCHANGED <<conf, rc, nb, jobs, clean>>

Return(result) ==
    /\ calling' = FALSE
    /\ answer' = [rc |-> result, c |-> acc]
    /\ clean' = (clean /\ result = "ok")

Fails ==
    /\ Return("error")
    /\ UNCHANGED <<conf, rc, nb, out, jobs, built, submitted, consumed, acc>>

\* How many submitted batches may be unread when the next one is built.
\* (Seeded fault: the pipeline reads a slot only after it was built into.)
DepthTwo == IF conf.mode = "pipe" THEN 2 ELSE 0
Depth == IF conf.mode = "pipe" THEN 1 ELSE 0

\* Generate the batch's programs into its register-command buffer.  Slots
\* past the batch keep what an earlier build put there.
MayBuild == calling /\ built = submitted /\ built < N /\ consumed + Depth >= submitted
Build ==
    LET b == Batches[built + 1]
    IN  /\ MayBuild
        /\ rc' = [rc EXCEPT ![b.rc] = [p \in Pos |-> IF p < Len(b.tasks) THEN b.tasks[p + 1]
                                                     ELSE @[p]]]
        /\ nb' = [nb EXCEPT ![b.rc] = Len(b.tasks)]
        /\ built' = built + 1
        /\ UNCHANGED <<conf, out, jobs, calling, submitted, consumed, acc, clean, answer>>
BuildFails == MayBuild /\ Fails

Submit ==
    LET b == Batches[built]
    IN  /\ calling /\ built = submitted + 1
        /\ jobs' = Append(jobs, [rc |-> b.rc, n |-> nb[b.rc], ins |-> b.ins, outs |-> b.outs,
                                 chained |-> b.chained, tasks |-> b.tasks])
        /\ submitted' = submitted + 1
        /\ UNCHANGED <<conf, rc, nb, out, calling, built, consumed, acc, clean, answer>>
SubmitFails == calling /\ built = submitted + 1 /\ Fails

\* Wait for the output of the oldest unread batch, then take its tiles.
Busy(b) == \E j \in DOMAIN jobs : b \in jobs[j].outs
MayConsume == /\ calling /\ built = submitted /\ consumed < submitted
              /\ consumed + Depth < submitted \/ submitted = N

\* The slots a batch gives the CPU, one after the other: a partial that it adds
\* to its cell, or a finished tile.  The metadata of the last build say which.
TakeSlot(so, b, p) ==
    LET task == rc[b.rc][p - 1]
        cell == <<task.t.mi, task.t.ni>>
        value == out[b.wait][task.slot]
    IN IF p \notin b.reads THEN so
       ELSE [so EXCEPT ![cell] = IF NpuSums THEN value ELSE @ \o value]
Taken(b) ==
    LET upTo[p \in 0 .. Len(b.tasks)] ==
          IF p = 0 THEN acc ELSE TakeSlot(upTo[p - 1], b, p)
    IN upTo[Len(b.tasks)]

Consume ==
    LET b == Batches[consumed + 1]
    IN  /\ MayConsume /\ ~Busy(b.wait)
        /\ acc' = Taken(b)
        /\ consumed' = consumed + 1
        /\ UNCHANGED <<conf, rc, nb, out, jobs, calling, built, submitted, clean, answer>>

WaitTimesOut == MayConsume /\ Busy(Batches[consumed + 1].wait) /\ Fails

Finish ==
    /\ calling /\ consumed = N
    /\ Return("ok")
    /\ UNCHANGED <<conf, rc, nb, out, jobs, built, submitted, consumed, acc>>

-----------------------------------------------------------------------------
(***************************************************************************)
(* The part.  m.out is the memory, m.d and m.w the operands in the CBUF.   *)
(***************************************************************************)
Exec(m, t) ==
    LET d   == IF t.dr THEN m.d ELSE Data(t.t)
        w   == IF t.wr THEN m.w ELSE Weight(t.t)
        old == IF t.add = "none" THEN <<>>
               ELSE IF t.add = t.dst THEN Old ELSE m.out[t.add][t.slot]
    IN  [out |-> [m.out EXCEPT ![t.dst][t.slot] = Append(old, <<d, w>>)],
         d |-> IF conf.oneJob \/ m.chained THEN d ELSE Unknown,
         w |-> IF (conf.oneJob \/ m.chained) /\ ~conf.streams THEN w ELSE Unknown,
         chained |-> m.chained]

\* A chained job follows the links in the buffer, the others are counted by
\* the submit.  A buffer in both lists makes the driver drop the job.
RunsNow(j) ==
    LET n == IF j.chained THEN nb[j.rc] ELSE j.n
    IN  IF j.ins \cap j.outs # {} THEN <<>> ELSE [p \in 1 .. n |-> rc[j.rc][p - 1]]

\* The tasks of a job in order, from a CBUF of which nothing is known.
AfterTasks(tasks, chained) ==
    LET ran[k \in 0 .. Len(tasks)] ==
          IF k = 0 THEN [out |-> out, d |-> Unknown, w |-> Unknown, chained |-> chained]
          ELSE Exec(ran[k - 1], tasks[k])
    IN ran[Len(tasks)]

\* A job starts when no earlier one still owes a buffer it reads or writes.
RunJob(i) ==
    LET j == jobs[i]
    IN  /\ \A e \in 1 .. i - 1 : jobs[e].outs \cap (j.ins \cup j.outs) = {}
        /\ out' = AfterTasks(RunsNow(j), j.chained).out
        /\ jobs' = RemoveAt(jobs, i)
        /\ UNCHANGED <<conf, rc, nb, hostvars, clean, answer>>

Next == \/ BeginCall \/ Build \/ BuildFails \/ Submit \/ SubmitFails
        \/ Consume \/ WaitTimesOut \/ Finish
        \/ \E i \in DOMAIN jobs : RunJob(i)

Spec == Init /\ [][Next]_vars

-----------------------------------------------------------------------------
\* Every task has a slot in both buffers it touches, and a job no more tasks
\* than a register-command buffer holds: the chained kick of all K steps, too.
TypeOK ==
    /\ conf \in Conf
    /\ \A b \in RcBufs : nb[b] <= BATCH
    /\ \A b \in RcBufs : \A p \in Range0(nb[b]) : rc[b][p].slot < Slots(rc[b][p].dst)
    /\ consumed <= submitted /\ submitted <= built /\ built <= N

Oracle == [c \in Cell |-> [k \in 1 .. conf.nK |->
              LET t == Tile(c[1], c[2], k - 1) IN <<Data(t), Weight(t)>>]]

\* Every program computes what mm_compute does ("BIT-IDENTICAL to mm_compute,
\* the oracle"): each cell is the sum of all its partial products in
\* ascending K, each of its own operands, whatever is kept in the CBUF, in
\* flight, in the other buffer, or left behind by a call that timed out.
MatchesOracle == answer.rc = "ok" => answer.c = Oracle

\* "We rebuild regcmd slot (b+1)&1 only AFTER waiting batch b-1, so the NPU is
\* never reading a regcmd BO we overwrite": until a call fails, what a job
\* finds in its buffer is what was submitted.
RunsWhatWasSubmitted ==
    clean => \A j \in DOMAIN jobs : RunsNow(jobs[j]) = jobs[j].tasks
=============================================================================
