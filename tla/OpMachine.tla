----------------------------- MODULE OpMachine -----------------------------
(***************************************************************************)
(* The protocol around every one-call operator of the library.  An entry   *)
(* point allocates buffer objects (BOs) and host scratch, fills BOs inside *)
(* CPU brackets, submits jobs, waits for fences, reads results, and must   *)
(* undo all of it from whatever point it fails at.  An operator is data    *)
(* here: a record that lists its steps in source order, each with what the *)
(* code does when it fails.  The machine runs one operator and may let any *)
(* step fail that can.                                                     *)
(***************************************************************************)
EXTENDS Naturals, Sequences, OpSteps

CONSTANTS
    Ops,        \* a sequence of operators, each a record made with Op
    MaxLaps     \* how often a call goes round its loops again, in all

ASSUME LapsAssumption == MaxLaps \in Nat

VARIABLES
    op,         \* the operator of this call; fixed from the start
    pc,         \* its next step; Len(steps) + 1 is the exit label, 0 the end
    rc,         \* the C variable the function returns
    mem,        \* the state of each BO and each host block, by name
    jobs,       \* jobs submitted and not yet waited for
    laps,       \* how often a loop went round
    failed      \* has a step of this call failed?

vars == <<op, pc, rc, mem, jobs, laps, failed>>

-----------------------------------------------------------------------------
Bad == 1        \* any error status

\* A BO or a block is
\*   "none"     not allocated
\*   "raw"      allocated and never written
\*   "old"      holding what an earlier call wrote (a context's BO), or less
\*              than this call did: PREP_BO may drop lines not yet flushed
\*   "synced"   written by this call and handed to the part
\*   "owed"     the output of a job this call submitted
\*   "result"   open to the CPU after its job's fence
\*   "done"     holding such a result, the bracket closed
\*   "stale"    open to the CPU, with no job of this call behind it
\*   "dirty"    open to the CPU, which has written it and not flushed
\*   "host"     a block of host memory
\*   "dangling" freed, and the pointer still holds it
Live == {"raw", "old", "synced", "owed", "result", "done", "stale", "dirty",
         "host"}
Open == {"result", "stale", "dirty"}
MemStates == Live \cup {"none", "dangling"}

NamesOf(o) ==
    (UNION {Names(o.steps[i].names) \cup o.steps[i].reads : i \in DOMAIN o.steps})
        \cup o.exit \cup o.keeps \cup o.ctx \cup o.given

Init ==
    /\ op \in Names(Ops)
    /\ pc = 1
    /\ rc = IF op.rc THEN Bad ELSE 0
    /\ \E s \in {"none", "raw", "old"} :
          mem = [n \in NamesOf(op) |->
                   IF n \in op.warm THEN "old"
                   ELSE IF n \in op.ctx \cup op.given THEN s ELSE "none"]
    /\ jobs = {}
    /\ laps = 0
    /\ failed = FALSE

Now == op.steps[pc]
Name == Now.names[1]
Set(names, to) == [n \in DOMAIN mem |-> IF n \in names THEN to ELSE mem[n]]

\* A step goes well, with memory m after it: on to the next one.
Succeed(m) ==
    /\ mem' = m
    /\ pc' = pc + 1
    /\ rc' = IF Now.zero THEN 0 ELSE rc
    /\ UNCHANGED <<op, laps, failed>>

\* The call ends with memory m, releasing the names in `gone'.
Return(m, gone, status) ==
    /\ mem' = [n \in DOMAIN m |-> IF n \in gone THEN "none" ELSE m[n]]
    /\ pc' = 0
    /\ rc' = status
    /\ UNCHANGED <<op, jobs, laps>>

Released(undo) == IF undo = {"*"} THEN op.exit ELSE undo

\* What the function returns when this step fails.
FailStatus ==
    CASE Now.on = "error" -> {Bad}
      [] Now.on = "goto" -> {rc}
      [] Now.on = "instead" -> {0, Bad}
      [] OTHER -> {}

\* A step fails, with memory m at that point.  A fallback's success is one.
FailWith(m) ==
    \E status \in FailStatus :
       /\ Return(m, Released(Now.undo), status)
       /\ failed' = (Now.on # "instead" \/ status = Bad)

-----------------------------------------------------------------------------
(* One action per kind of step.                                            *)

\* rocket_bo_alloc of each name in turn: the ones before a failure stay.
AllocStep ==
    /\ Now.kind = "alloc"
    /\ \/ Succeed(Set(Names(Now.names), "raw")) /\ UNCHANGED jobs
       \/ \E i \in 0 .. Len(Now.names) - 1 :
            FailWith(Set({Now.names[j] : j \in 1 .. i}, "raw"))

\* rocket_bo_ensure32 of every name and one test of them all: large enough is
\* reused as it is, otherwise freed and allocated anew.  A failure leaves it free.
\* (Seeded fault: a BO that was never allocated passes for large enough.)
EnsuredNever(fresh, lost) == [n \in DOMAIN mem |-> IF n \in lost THEN "none" ELSE mem[n]]
Ensured(fresh, lost) ==
    [n \in DOMAIN mem |-> IF n \in lost THEN "none" ELSE IF n \in fresh THEN "raw" ELSE mem[n]]
EnsureStep ==
    /\ Now.kind = "ensure"
    /\ \E fresh, lost \in SUBSET Names(Now.names) :
          /\ \A n \in Names(Now.names) \ (fresh \cup lost) : mem[n] # "none"
          /\ fresh \cap lost = {}
          /\ IF lost = {} THEN Succeed(Ensured(fresh, lost)) /\ UNCHANGED jobs
             ELSE FailWith(Ensured(fresh, lost))

\* malloc (or rocket_bo_alloc) of every name and one test of them all: any of
\* them may be missing.
HostStep ==
    /\ Now.kind \in {"host", "allocall"}
    /\ LET fresh == IF Now.kind = "host" THEN "host" ELSE "raw"
       IN \/ Succeed(Set(Names(Now.names), fresh)) /\ UNCHANGED jobs
          \/ \E got \in SUBSET Names(Now.names) :
               got # Names(Now.names) /\ FailWith(Set(got, fresh))

CheckStep ==
    /\ Now.kind = "check"
    /\ \/ Succeed(mem) /\ UNCHANGED jobs
       \/ FailWith(mem)

\* A CPU bracket that writes, or the end of one: FINI_BO hands the BO over.
\* PREP_BO fetches the lines anew, so what the CPU wrote before it and never
\* handed over may be lost, unless the bracket writes all of the BO again.
PutStep ==
    /\ Now.kind \in {"put", "patch", "fini", "bracket"}
    /\ LET to == CASE Now.kind = "fini" /\ mem[Name] = "result" -> "done"
                   [] Now.kind \in {"patch", "bracket"} /\ mem[Name] = "dirty" -> "old"
                   [] OTHER -> "synced"
       IN \/ Succeed(Set({Name}, to)) /\ UNCHANGED jobs
          \/ FailWith(mem)

SubmitStep ==
    /\ Now.kind = "submit"
    /\ \/ /\ Succeed(Set(Names(Now.names), "owed"))
          /\ jobs' = jobs \cup {[reads |-> Now.reads, writes |-> Names(Now.names)]}
       \/ FailWith(mem)

\* PREP_BO waits for the jobs that write the BO; jobs that only read it, or
\* that write others, may still be running.
WaitStep ==
    /\ Now.kind = "wait"
    /\ \/ /\ Succeed(Set({Name}, IF mem[Name] \in {"owed", "done"} THEN "result" ELSE "stale"))
          /\ jobs' = {j \in jobs : Name \notin j.writes}
       \/ FailWith(mem)

\* The CPU reads inside a bracket.
TakeStep == Now.kind \in {"take", "reread"} /\ Succeed(mem) /\ UNCHANGED jobs

\* The CPU writes a BO that an earlier step left open.
WriteStep ==
    Now.kind = "write" /\ Succeed(Set({Name}, "dirty")) /\ UNCHANGED jobs

FreeStep ==
    /\ Now.kind \in {"free", "drop"}
    /\ Succeed(Set(Names(Now.names), IF Now.kind = "free" THEN "dangling" ELSE "none"))
    /\ UNCHANGED jobs

JumpStep ==
    /\ Now.kind = "jump"
    /\ \E d \in Now.jump : pc' = pc + d
    /\ UNCHANGED <<op, rc, mem, jobs, laps, failed>>

AgainStep ==
    /\ Now.kind = "again"
    /\ laps < MaxLaps
    /\ \E d \in Now.jump : pc' = pc - d
    /\ laps' = laps + 1
    /\ UNCHANGED <<op, rc, mem, jobs, failed>>

LoopEnds == Now.kind = "again" /\ Succeed(mem) /\ UNCHANGED jobs

LeaveStep ==
    /\ Now.kind = "leave"
    /\ \/ Succeed(mem) /\ UNCHANGED jobs
       \/ Return(mem, Released(Now.undo), 0) /\ UNCHANGED failed

\* The last step is behind us: the exit label releases what is not handed out.
ExitStep ==
    /\ pc = Len(op.steps) + 1
    /\ Return(mem, op.exit \ op.keeps, rc)
    /\ UNCHANGED failed

Running == pc \in DOMAIN op.steps

Next ==
    \/ Running /\ AllocStep
    \/ Running /\ EnsureStep
    \/ Running /\ HostStep
    \/ Running /\ CheckStep
    \/ Running /\ PutStep
    \/ Running /\ SubmitStep
    \/ Running /\ WaitStep
    \/ Running /\ TakeStep
    \/ Running /\ WriteStep
    \/ Running /\ FreeStep
    \/ Running /\ JumpStep
    \/ Running /\ AgainStep
    \/ Running /\ LoopEnds
    \/ Running /\ LeaveStep
    \/ ExitStep

Spec == Init /\ [][Next]_vars

-----------------------------------------------------------------------------
Ended == pc = 0
Touched == UNION {j.reads \cup j.writes : j \in jobs}
\* The names the next step hands to free.
Freeing ==
    IF pc = Len(op.steps) + 1 THEN op.exit \ op.keeps
    ELSE IF Running THEN (IF Now.on # "never" \/ Now.kind = "leave"
                          THEN Released(Now.undo) ELSE {})
                         \cup (IF Now.kind \in {"free", "drop"} THEN Names(Now.names) ELSE {})
    ELSE {}

\* Every value has its type.
TypeOK ==
    /\ pc \in 0 .. Len(op.steps) + 1
    /\ rc \in {0, Bad}
    /\ mem \in [NamesOf(op) -> MemStates]
    /\ jobs \subseteq [reads : SUBSET NamesOf(op), writes : SUBSET NamesOf(op)]
    /\ laps \in 0 .. MaxLaps
    /\ failed \in BOOLEAN

(* Where an operator of the library does not do what the properties below   *)
(* ask of all of them.  Every such place is named here, and nowhere else.   *)

\* rocket_sam_encode_ctx returns 0 when its neck fails: the encoder loop left 0
\* in the return variable and the two exits behind it set no error.
Silent == {"rocket_sam_encode_ctx"}
\* fa_mt_worker closes its device where fa_scratch_ensure fails, and keeps what
\* that had grown by then (rocket_attn.c:1338-1341).
Abandoned(o) == IF o.name = "fa_mt_worker" THEN o.exit \ {"fd"} ELSE {}
\* The extrema of a 1x1 map are read from the input BO with no PREP_BO behind
\* its FINI_BO (rocket_reduce.c:365-369); the fused feed-forward blocks PREP_BO
\* a cube whose lines the CPU has written (rocket_ffn.c:196, 336), and a job
\* then reads it.
Unprepared ==
    {<<"run_global_extrema_pool", "reread", "A">>}
    \cup {"rocket_ffn_fp16_fused"} \X {"bracket", "submit"} \X {"cube_g"}
    \cup {"rocket_mlp_fp16_fused"} \X {"bracket", "submit"} \X {"cube"}

\* Whatever step failed, a call that has returned holds nothing that is not
\* its caller's: the BOs of the context, and the results of a success.
NothingLeaked ==
    Ended => \A n \in DOMAIN mem :
        mem[n] \in Live => \/ n \in op.ctx
                           \/ rc = 0 /\ n \in op.keeps
                           \/ rc # 0 /\ n \in Abandoned(op)

\* A call reports an error exactly when one of its steps failed: no exit path
\* returns the 0 an earlier success left in the return variable.
ErrorsReported == Ended /\ op.name \notin Silent => (rc = 0 <=> ~failed)

\* Nothing is freed twice, used after it was freed or before it exists.
NothingDangles ==
    /\ \A n \in Freeing : mem[n] # "dangling"
    /\ Ended => \A n \in op.ctx : mem[n] # "dangling"
    /\ Running /\ Now.kind \in {"put", "patch", "fini", "bracket", "submit", "wait", "take",
                              "reread", "write"} =>
         \A n \in Names(Now.names) \cup Now.reads : mem[n] \in Live \ {"host"}

\* The next step is one that is known to do without the bracket it needs.
Excepted(n) == <<op.name, Now.kind, n>> \in Unprepared

\* The CPU and the part never use a BO at once.  A job reads only BOs this call
\* wrote (or a context keeps filled on purpose) and handed over; the CPU writes
\* no BO a job may still touch, completes no BO nobody wrote whole, reads only a
\* BO whose job has finished, and opens no bracket over lines it has written
\* and not handed over.
CoresAndCpuApart ==
    Running =>
      CASE Now.kind = "submit" ->
             \A n \in Now.reads : \/ mem[n] \in {"synced", "owed", "result", "done"}
                                  \/ mem[n] = "old" /\ (n \in op.warm \/ Excepted(n))
        [] Now.kind = "put" -> Name \notin Touched
        [] Now.kind = "patch" -> Name \notin Touched /\ mem[Name] \notin {"raw", "dirty"}
        [] Now.kind \in {"bracket", "wait"} -> mem[Name] # "dirty" \/ Excepted(Name)
        [] Now.kind = "take" -> mem[Name] = "result"
        [] Now.kind = "reread" -> mem[Name] \in Open \/ Excepted(Name)
        [] Now.kind = "write" -> mem[Name] \in Open
        [] OTHER -> TRUE

\* A successful call leaves no job running on a BO that outlives it and no
\* bracket open on one but those it lends, even when it gave up on a job and
\* took another route;
\* and however a call ends, no line the CPU wrote is left to be evicted over
\* what the next job writes there.
CallSettled ==
    Ended =>
        /\ \A n \in op.ctx : mem[n] # "dirty"
        /\ rc = 0 => /\ Touched \cap (op.ctx \cup op.keeps) = {}
                    /\ \A n \in (op.ctx \cup op.keeps) \ op.lent : mem[n] \notin Open
=============================================================================
