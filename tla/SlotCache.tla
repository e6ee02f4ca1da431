----------------------------- MODULE SlotCache -----------------------------
(***************************************************************************)
(* The per-shape scratch cache every resident-weight matmul path shares:   *)
(* rocket_slot_get and rocket_slot_cache_clear (rocket_fanout.c/.h).       *)
(*                                                                         *)
(* A cache is the sequence of its live entries, each a key, the scratch    *)
(* that was built for it and the stamp of its last use.  The operators say *)
(* what one step of rocket_slot_get does to that sequence; building and    *)
(* releasing a scratch belongs to the module that owns it.                 *)
(***************************************************************************)
EXTENDS Naturals, Sequences

CONSTANT MaxSlots    \* ROCKET_FANOUT_MAX_SLOTS

ASSUME SlotAssumption == MaxSlots \in Nat \ {0}

Entry(k, s, stamp) == [key |-> k, slot |-> s, stamp |-> stamp]

\* The entry that a lookup of k finds, 0 when there is none.
Found(c, k) == IF \E j \in DOMAIN c : c[j].key = k
               THEN CHOOSE j \in DOMAIN c : c[j].key = k ELSE 0

\* (Seeded fault: a hit does not count as a use.)
TouchedNot(c, j, now) == c
Touched(c, j, now) == [c EXCEPT ![j].stamp = now]

Full(c) == Len(c) >= MaxSlots

\* The least recently used entry; stamps are distinct.
Victim(c) == CHOOSE j \in DOMAIN c : \A h \in DOMAIN c : c[j].stamp <= c[h].stamp

\* A new scratch at position j: past the end, or in the recycled entry.
Filled(c, j, e) == IF j > Len(c) THEN Append(c, e) ELSE [c EXCEPT ![j] = e]

\* (Seeded fault: the last entry's scratch fills the hole, its key does not.)
CompactedSlotOnly(c, j) ==
    IF j > Len(c) THEN c
    ELSE [h \in 1 .. Len(c) - 1 |->
              IF h = j THEN [c[j] EXCEPT !.slot = c[Len(c)].slot] ELSE c[h]]
\* Building failed: the recycled entry j, already released, is filled with
\* the last one.
Compacted(c, j) ==
    IF j > Len(c) THEN c
    ELSE [h \in 1 .. Len(c) - 1 |-> IF h = j THEN c[Len(c)] ELSE c[h]]
=============================================================================
