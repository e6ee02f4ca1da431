----------------------------- MODULE OpOutline -----------------------------
(***************************************************************************)
(* What an operator's list of steps says by itself about every call of it, *)
(* however often its loops go round.  An outline claims for each step what *)
(* may be the case when the call gets there: the states each name may be   *)
(* in, the values of the return variable, the jobs that may be running.    *)
(* It is worked out from the list alone, one name at a time, and so are    *)
(* the conditions on it that make the operator sound: CallProofs shows     *)
(* that a call of an operator with such an outline has the properties of   *)
(* OpMachine, and a run shows that the operators of the library are such   *)
(* operators.                                                              *)
(***************************************************************************)
EXTENDS OpMachine

\* The kinds of steps that name exactly one BO; those that end a branch or a
\* loop, which change nothing; the others.
OnOne == {"put", "patch", "fini", "bracket", "wait", "take", "reread", "write"}
Turns == {"jump", "again"}
Kinds == OnOne \cup Turns
    \cup {"alloc", "allocall", "ensure", "host", "check", "submit", "free", "drop", "leave"}

Exit(o) == Len(o.steps) + 1
Following(o, i) ==
    LET s == o.steps[i]
    IN CASE s.kind = "jump" -> {i + d : d \in s.jump}
         [] s.kind = "again" -> {i + 1} \cup {i - d : d \in s.jump}
         [] OTHER -> {i + 1}

\* Every step has its names and leads on to a step or the exit label.
WellFormed(o) ==
    /\ o.steps \in Seq(Names(o.steps))
    /\ \A i \in DOMAIN o.steps :
          LET s == o.steps[i]
          IN /\ s.kind \in Kinds /\ (s.kind \in Turns => ~s.zero)
             /\ s.names \in Seq(NamesOf(o)) /\ s.reads \subseteq NamesOf(o)
             /\ s.kind \in OnOne => Len(s.names) = 1
             /\ Following(o, i) \subseteq 1 .. Exit(o)

-----------------------------------------------------------------------------
(* What a step does to one name.                                           *)

\* The states it may be in behind step s, if it was in state x before.
Becomes(s, n, x) ==
    IF n \notin Names(s.names) THEN {x}
    ELSE CASE s.kind \in {"alloc", "allocall"} -> {"raw"}
           [] s.kind = "host" -> {"host"}
           [] s.kind = "ensure" -> {"raw"} \cup ({x} \ {"none"})
           [] s.kind = "put" -> {"synced"}
           [] s.kind \in {"patch", "bracket"} -> IF x = "dirty" THEN {"old"} ELSE {"synced"}
           [] s.kind = "fini" -> IF x = "result" THEN {"done"} ELSE {"synced"}
           [] s.kind = "submit" -> {"owed"}
           [] s.kind = "wait" -> IF x \in {"owed", "done"} THEN {"result"} ELSE {"stale"}
           [] s.kind = "write" -> {"dirty"}
           [] s.kind = "free" -> {"dangling"}
           [] s.kind = "drop" -> {"none"}
           [] OTHER -> {x}

\* The states it may be in where step s has failed: what several names are
\* allocated for may have got some of them.
Left(s, n, x) ==
    CASE s.kind = "alloc" /\ (\E j \in 1 .. Len(s.names) - 1 : s.names[j] = n) -> {x, "raw"}
      [] s.kind \in {"allocall", "host"} /\ n \in Names(s.names) /\ Names(s.names) # {n} ->
           {x, IF s.kind = "host" THEN "host" ELSE "raw"}
      [] s.kind = "ensure" /\ n \in Names(s.names) ->
           {"none"} \cup (IF Names(s.names) = {n} THEN {} ELSE {"raw", x})
      [] OTHER -> {x}

-----------------------------------------------------------------------------
(* The outline.                                                            *)

AtStart(o) ==
    [mem |-> [n \in NamesOf(o) |->
                IF n \in o.warm THEN {"old"}
                ELSE IF n \in o.ctx \cup o.given THEN {"none", "raw", "old"} ELSE {"none"}],
     rc |-> {IF o.rc THEN Bad ELSE 0}, jobs |-> {}]

\* Behind the success of step s, if claim a was true before it.
Behind(o, s, a) ==
    [mem |-> [n \in NamesOf(o) |-> UNION {Becomes(s, n, x) : x \in a.mem[n]}],
     rc |-> {IF s.zero THEN 0 ELSE r : r \in a.rc},
     jobs |-> CASE s.kind = "submit" ->
                     a.jobs \cup {[reads |-> s.reads, writes |-> Names(s.names)]}
                [] s.kind = "wait" -> {j \in a.jobs : s.names[1] \notin j.writes}
                [] OTHER -> a.jobs]

OneOf(o, claims) ==
    [mem |-> [n \in NamesOf(o) |-> UNION {c.mem[n] : c \in claims}],
     rc |-> UNION {c.rc : c \in claims}, jobs |-> UNION {c.jobs : c \in claims}]

\* Claims carried along every way of up to so many steps.
Outline(o) ==
    LET nothing == [i \in 1 .. Exit(o) |-> OneOf(o, {})]
        carried(A) ==
          [i \in 1 .. Exit(o) |->
             OneOf(o, (IF i = 1 THEN {AtStart(o)} ELSE {})
                      \cup {Behind(o, o.steps[j], A[j]) :
                              j \in {k \in DOMAIN o.steps : i \in Following(o, k)}})]
        along[k \in 0 .. 2 * Exit(o)] ==
          IF k = 0 THEN nothing
          ELSE LET A == along[k - 1]
                   B == carried(A)
               IN IF A = B THEN A ELSE B
    IN along[2 * Exit(o)]

\* Claim b holds wherever claim a does.
Implies(o, a, b) ==
    /\ \A n \in NamesOf(o) : a.mem[n] \subseteq b.mem[n]
    /\ a.rc \subseteq b.rc /\ a.jobs \subseteq b.jobs

\* No step leads out of the claims, so they are all that can be.
Closed(o, A) ==
    /\ Implies(o, AtStart(o), A[1])
    /\ \A i \in DOMAIN o.steps : \A k \in Following(o, i) :
          Implies(o, Behind(o, o.steps[i], A[i]), A[k])

-----------------------------------------------------------------------------
(* What it must say.                                                       *)

\* A call that ends with name n in a state of left[n], releasing those in
\* `gone', with one of these codes and at most these jobs.
EndsWell(o, left, gone, codes, queued) ==
    /\ \A n \in NamesOf(o) \ gone : \A x \in left[n] :
          /\ x \in Live => \/ n \in o.ctx
                           \/ n \in o.keeps /\ codes \subseteq {0}
                           \/ n \in Abandoned(o) /\ 0 \notin codes
          /\ n \in o.ctx => x \notin {"dangling", "dirty"}
          /\ 0 \in codes /\ n \in (o.ctx \cup o.keeps) \ o.lent => x \notin Open
    /\ 0 \in codes =>
          \A j \in queued : (j.reads \cup j.writes) \cap (o.ctx \cup o.keeps) = {}

Status(s, a) ==
    CASE s.on = "error" -> {Bad}
      [] s.on = "goto" -> a.rc
      [] OTHER -> {0, Bad}
Gone(o, s) == IF s.undo = {"*"} THEN o.exit ELSE s.undo

\* What is freed is not dangling, what is used is there and no host block.
Frees(o, a, names) == \A n \in names : n \in NamesOf(o) /\ "dangling" \notin a.mem[n]
Uses(s, a) ==
    s.kind \in OnOne \cup {"submit"} =>
        \A n \in Names(s.names) \cup s.reads : a.mem[n] \subseteq Live \ {"host"}

\* The CPU and the part do not use a BO at once.
Apart(o, s, a) ==
    LET one == s.names[1]
        running == UNION {j.reads \cup j.writes : j \in a.jobs}
        excepted(n) == <<o.name, s.kind, n>> \in Unprepared
    IN CASE s.kind = "submit" ->
              \A n \in s.reads : \A x \in a.mem[n] :
                 \/ x \in {"synced", "owed", "result", "done"}
                 \/ x = "old" /\ (n \in o.warm \/ excepted(n))
         [] s.kind = "put" -> one \notin running
         [] s.kind = "patch" -> one \notin running /\ a.mem[one] \cap {"raw", "dirty"} = {}
         [] s.kind \in {"bracket", "wait"} -> "dirty" \notin a.mem[one] \/ excepted(one)
         [] s.kind = "take" -> a.mem[one] \subseteq {"result"}
         [] s.kind = "reread" -> a.mem[one] \subseteq Open \/ excepted(one)
         [] s.kind = "write" -> a.mem[one] \subseteq Open
         [] OTHER -> TRUE

SafeStep(o, s, a) ==
    /\ s.on # "never" \/ s.kind = "leave" => Frees(o, a, Gone(o, s))
    /\ s.kind \in {"free", "drop"} => Frees(o, a, Names(s.names))
    /\ Uses(s, a) /\ Apart(o, s, a)
    /\ s.on # "never" =>
          /\ EndsWell(o, [n \in NamesOf(o) |-> UNION {Left(s, n, x) : x \in a.mem[n]}],
                      Gone(o, s), Status(s, a), a.jobs)
          /\ o.name \notin Silent /\ s.on = "goto" => a.rc \subseteq {Bad}
    /\ s.kind = "leave" => EndsWell(o, a.mem, Gone(o, s), {0}, a.jobs)

SafeExit(o, a) ==
    /\ Frees(o, a, o.exit \ o.keeps)
    /\ EndsWell(o, a.mem, o.exit \ o.keeps, a.rc, a.jobs)
    /\ o.name \notin Silent => a.rc \subseteq {0}

Sound(o, A) ==
    /\ WellFormed(o) /\ Closed(o, A)
    /\ \A i \in DOMAIN o.steps : SafeStep(o, o.steps[i], A[i])
    /\ SafeExit(o, A[Exit(o)])

Outlines == [o \in Names(Ops) |-> Outline(o)]
SoundOps == UNION {IF Sound(o, Outlines[o]) THEN {o} ELSE {} : o \in Names(Ops)}

\* The operator has a sound outline, and wherever a call of it has got to, it
\* is as the outline claims.  This catches a C function whose exit paths do not
\* fit what it has allocated, submitted or returned by then.
SoundOutline == op \in SoundOps
AsClaimed ==
    /\ SoundOutline
    /\ pc # 0 =>
        LET a == Outlines[op][pc]
        IN /\ \A n \in NamesOf(op) : mem[n] \in a.mem[n]
           /\ rc \in a.rc /\ jobs \subseteq a.jobs /\ ~failed
=============================================================================
