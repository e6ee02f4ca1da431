------------------------------ MODULE OpSteps ------------------------------
(***************************************************************************)
(* How an operator of the library is written down for OpMachine: its steps *)
(* in source order.  `on' says what a failure of the step does: "never"    *)
(* (it cannot fail, or its result is ignored), "goto" (to the exit label,  *)
(* the return variable left as it is), "error" (the return variable is     *)
(* set to an error first, or the function returns one) or "instead" (the   *)
(* function returns what another function returns).  `undo' is what        *)
(* the failure path releases, {"*"} standing for what the exit label       *)
(* releases; `zero' says that success assigns 0 to the return variable.    *)
(***************************************************************************)
EXTENDS Naturals, Sequences

Step(kind, names) ==
    [kind |-> kind, names |-> names, reads |-> {}, jump |-> {0},
     on |-> "never", undo |-> {"*"}, zero |-> FALSE]

\* `if (x) goto out;'
OrGoto(s) == [s EXCEPT !.on = "goto"]
\* `if ((rc = x)) goto out;': success leaves 0 in the return variable.
OrError(s) == [s EXCEPT !.on = "error", !.zero = TRUE]
\* `if (x) { rc = E; goto out; }'
OrSet(s) == [s EXCEPT !.on = "error"]
\* `if (x) { free(...); return E; }'
OrReturn(s, undo) == [s EXCEPT !.on = "error", !.undo = undo]

\* `if (x) { free(...); return other(...); }'
OrInstead(s, undo) == [s EXCEPT !.on = "instead", !.undo = undo]

Alloc(names) == Step("alloc", names)      \* rocket_bo_alloc, one by one
AllocAll(names) == Step("allocall", names)  \* ret |= rocket_bo_alloc
Ensure(b) == Step("ensure", <<b>>)        \* rocket_bo_ensure32
EnsureEach(names) == Step("ensure", names)  \* ... of all, then test all
Host(names) == Step("host", names)        \* malloc all, then test all
Check == Step("check", << >>)             \* a test, a plan, a generator
Call == Step("check", << >>)              \* another operator of the library
\* prep, write all of b, fini.  A test inside the bracket is listed before it:
\* a failure there leaves open what the next call writes whole before use.
Put(b) == Step("put", <<b>>)
Patch(b) == Step("patch", <<b>>)          \* prep, write part of b, fini
Submit(ins, outs) == [Step("submit", outs) EXCEPT !.reads = ins]
Wait(b) == Step("wait", <<b>>)            \* prep with a timeout
Take(b) == Step("take", <<b>>)            \* read b inside its bracket
Reread(b) == Step("reread", <<b>>)        \* the CPU reads what it wrote itself
Fini(b) == Step("fini", <<b>>)            \* close the bracket
Write(b) == Step("write", <<b>>)          \* the CPU writes, the bracket open
Bracket(b) == Step("bracket", <<b>>)      \* prep and fini, nothing between
Free(names) == Step("free", names)        \* free() without clearing
Drop(names) == Step("drop", names)        \* rocket_bo_free, or free and clear
Done == [Step("check", << >>) EXCEPT !.zero = TRUE]    \* `rc = 0'
Jump(to) == [Step("jump", << >>) EXCEPT !.jump = to]
\* `return 0' in mid-function, taken on some condition.
Leave(undo) == [Step("leave", << >>) EXCEPT !.undo = undo]

\* rocket_op_submit_one_flags: write the program, submit it, wait for `out';
\* the callers all go to their exit label on an error.
SubmitOne(ins, out) ==
    <<OrGoto(Check), OrGoto(Put("rc")), OrGoto(Submit(ins \cup {"rc"}, <<out>>)),
      OrGoto(Wait(out))>>

\* `if (...) { s }', `if (...) { s } else { t }' and a loop over s.
Maybe(s) == <<Jump({1, Len(s) + 1})>> \o s
Either(s, t) == <<Jump({1, Len(s) + 2})>> \o s \o <<Jump({Len(t) + 1})>> \o t
Loop(s) == s \o <<[Step("again", << >>) EXCEPT !.jump = {Len(s)}]>>

\* n tests of the arguments, before anything is held.
Refusals(n) == [i \in 1 .. n |-> OrReturn(Check, {})]

\* `if (!rc) rc = f(...)', n times over.
Calls(n) == [i \in 1 .. n |-> OrError(Call)]

Names(seq) == {seq[i] : i \in 1 .. Len(seq)}

\* Each of the BOs in turn, with one way to fail.
EnsureAll(names) == [i \in 1 .. Len(names) |-> OrGoto(Ensure(names[i]))]

\* rc0: the return variable starts as an error.  exit: what the exit label
\* releases.  keeps: what success hands to the caller.  ctx: BOs of a context
\* that outlive the call.  warm: those of them that earlier calls filled and
\* this one may read.  given: what the call takes over and must release.
\* lent: BOs a success hands to the caller with the CPU bracket open.
Op(name, rc0, exit, steps) ==
    [name |-> name, rc |-> rc0, exit |-> exit, keeps |-> {}, ctx |-> {},
     warm |-> {}, given |-> {}, lent |-> {}, steps |-> steps]
Keeping(o, names) == [o EXCEPT !.keeps = names]
Resident(o, names) == [o EXCEPT !.ctx = names]
Warm(o, names) == [o EXCEPT !.ctx = @ \cup names, !.warm = names]
Lending(o, names) == [o EXCEPT !.lent = names]
Consuming(o, names) == [o EXCEPT !.given = names]

\* BOs of the call's own, or a context's: the exit label frees only the former.
Borrowed(o, kept, names) ==
    IF kept THEN Resident(o, names) ELSE [o EXCEPT !.exit = @ \cup names]
=============================================================================
