----------------------------- MODULE OpenGuard -----------------------------
(***************************************************************************)
(* What rocket_open() and rocket_close() promise a process: a thread holds *)
(* the device from the moment its open is granted until its close is over. *)
(* An open is granted either exclusively (the guard against a second fd on *)
(* an RK3576 with two bound cores) and then only while nobody holds the    *)
(* device, or without the guard.                                           *)
(***************************************************************************)
CONSTANT Thread       \* the threads of the process

VARIABLES holders,    \* the threads that hold an fd of the device
          exclusive   \* those whose fd was granted under the guard

gvars == <<holders, exclusive>>

Init == /\ holders = {}
        /\ exclusive = {}

\* A guarded open is granted only if there is no other holder.
GrantExclusive(t) == /\ holders = {}
                     /\ holders' = {t}
                     /\ exclusive' = {t}

GrantShared(t) == /\ t \notin holders
                  /\ holders' = holders \cup {t}
                  /\ UNCHANGED exclusive

Return(t) == /\ t \in holders
             /\ holders' = holders \ {t}
             /\ exclusive' = exclusive \ {t}

Next == \E t \in Thread : GrantExclusive(t) \/ GrantShared(t) \/ Return(t)

Spec == Init /\ [][Next]_gvars
=============================================================================
