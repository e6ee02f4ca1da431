---------------------------- MODULE ChainLayout ----------------------------
(***************************************************************************)
(* The words of a register-command BO that carries several programs        *)
(* (rocket_chain.c): each program is copied into its slot, its trailer     *)
(* rewritten so that the part goes on to the next one (pack, pack_at), the *)
(* last link cleared (seal), and the result read back (verify).  The part  *)
(* is told where the first program is; for every later one it has only     *)
(* what the trailer before it says.  A wrong address or length faults      *)
(* nowhere: the part runs other words, or stops short of the job's end.    *)
(*                                                                         *)
(* An address counts words here.  A batch is a record: how it is laid out  *)
(* ("gapped", "chained" or "at"), the length of each program, the length   *)
(* its caller claims for each in the link before it (only "at" has such a  *)
(* claim), and whether the caller verifies.                                *)
(***************************************************************************)
EXTENDS Integers, Sequences, FiniteSetsExt

CONSTANTS
    Buffers,     \* BOs: records of their address and size
    Batches,     \* what callers pack
    RcStride,    \* words a caller reserves per program (RC_STRIDE)
    AddrLimit,   \* addresses a register can hold (2^32 bytes)
    MaxBuilds    \* batches built in one BO

VARIABLES
    bo,          \* the register-command BO
    image,       \* its words
    batch,       \* the batch being built
    td,          \* the task descriptors filled so far
    built,       \* batches begun
    layout       \* "pack", "verify", "submit" or "refused"

layoutVars == <<bo, image, batch, td, built, layout>>

-----------------------------------------------------------------------------
(* Words and programs.                                                     *)
Word(what, value) == [op |-> what, v |-> value]
Filler == Word("none", 0)

\* What a generator emits: n words that end in the trailer filler, length,
\* barrier, enable.  Its words are told from any other program's by `id'.
Generated(id, n) ==
    [j \in 1 .. n |->
        CASE j = n - 3 -> Filler
          [] j = n - 2 -> Word("amount", 0)
          [] j = n -> Word("enable", 100 * id + j)
          [] OTHER -> Word("register", 100 * id + j)]

ProgramId(k) == 10 * built + k

\* rkt_chain_words and rkt_amount_encode.
ChainWords(n) == n + (n % 2)
Encoded(n) == (n + 1) \div 2 - 1

\* The trailer's length word, found from the end.
AmountAt(p) == Max({0} \cup {j \in DOMAIN p : p[j].op = "amount"})

WithAmount(p, n) == [p EXCEPT ![AmountAt(p)].v = Encoded(n)]
WithBase(p, addr) == [p EXCEPT ![AmountAt(p) - 1] = Word("base", addr % AddrLimit)]
Unlinked(p) == [p EXCEPT ![AmountAt(p) - 1] = Filler]

Slot(off, n) == [j \in 1 .. n |-> image[off + j]]
Stored(off, p) == [w \in DOMAIN image |-> IF w - off \in DOMAIN p THEN p[w - off] ELSE image[w]]

\* rkt_chain_slot_ok: the slot lies in the BO, and the last byte of the BO
\* (not of the slot) has an address a register can hold.
SlotOk(off, n) == off + n <= bo.size /\ bo.dma + bo.size - 1 < AddrLimit

Task(off, n) == [regcmd |-> (bo.dma + off) % AddrLimit, count |-> n]

-----------------------------------------------------------------------------
LayoutInit ==
    /\ bo \in Buffers
    /\ image = [w \in 1 .. bo.size |-> Word("register", 0)]
    /\ batch \in Batches
    /\ td = << >>
    /\ built = 1
    /\ layout = "pack"

Packing(hows) == layout = "pack" /\ batch.how \in hows /\ Len(td) < Len(batch.lens)

Store(off, p) ==
    /\ image' = Stored(off, p)
    /\ td' = Append(td, Task(off, Len(p)))
    /\ UNCHANGED <<bo, batch, built, layout>>

Refuse == layout' = "refused" /\ UNCHANGED <<bo, image, batch, td, built>>

\* rkt_chain_pack, behind its callers' test of the length.
PackTile ==
    /\ Packing({"gapped", "chained"})
    /\ LET k == Len(td) + 1
           n == batch.lens[k]
           stride == IF batch.how = "chained" THEN ChainWords(n) ELSE RcStride
           off == (k - 1) * stride
           p == Generated(ProgramId(k), n)
       IN IF n > RcStride \/ ~SlotOk(off, n) THEN Refuse
          ELSE Store(off, IF batch.how = "chained"
                          THEN WithBase(WithAmount(p, n), bo.dma + k * stride) ELSE p)

\* rkt_chain_seal: every program was linked to the slot behind it, the last
\* one too.
\* (Seeded fault: the slot is looked for at the callers' stride.)
LastSlotGapped == (Len(td) - 1) * RcStride
LastSlot == (Len(td) - 1) * ChainWords(td[1].count)

SealBatch ==
    /\ layout = "pack" /\ batch.how # "at" /\ Len(td) = Len(batch.lens)
    /\ image' = IF batch.how = "chained"
                THEN Stored(LastSlot, Unlinked(Slot(LastSlot, td[1].count))) ELSE image
    /\ layout' = IF batch.how = "chained" /\ batch.verifies THEN "verify" ELSE "submit"
    /\ UNCHANGED <<bo, batch, td, built>>

\* The offsets rocket_chain_new_rk3576 derives from its programs' lengths.
Offset(k) == MapThenSumSet(LAMBDA j : ChainWords(batch.lens[j]), 1 .. k - 1)

\* rkt_chain_pack_at.
PackAt ==
    /\ Packing({"at"})
    /\ LET k == Len(td) + 1
           n == batch.lens[k]
           last == k = Len(batch.lens)
           p == Generated(ProgramId(k), n)
       IN IF ~SlotOk(Offset(k), n) THEN Refuse
          ELSE Store(Offset(k),
                     IF last THEN Unlinked(WithAmount(p, n))
                     ELSE WithBase(WithAmount(p, batch.claims[k + 1]), bo.dma + Offset(k + 1)))

\* rkt_chain_verify of one descriptor: program k names the next one, and as
\* long as it is; the last names none.
LengthAgrees(k, amount) == amount = Encoded(td[k + 1].count)
LinkVerified(k) ==
    LET off == td[k].regcmd - (bo.dma % AddrLimit)
        p == Slot(off, td[k].count)
        at == AmountAt(p)
    IN /\ td[k].regcmd >= (bo.dma % AddrLimit)
       /\ off + td[k].count <= bo.size
       /\ at > 1
       /\ IF k = Len(td) THEN p[at - 1].op # "base"
          ELSE p[at - 1] = Word("base", td[k + 1].regcmd) /\ LengthAgrees(k, p[at].v)

VerifyBatch ==
    /\ layout \in {"pack", "verify"}
    /\ layout = "pack" => batch.how = "at" /\ Len(td) = Len(batch.lens)
    /\ layout' = IF \A k \in DOMAIN td : LinkVerified(k) THEN "submit" ELSE "refused"
    /\ UNCHANGED <<bo, image, batch, td, built>>

\* The BO is kept; its words are whatever the last batch left.
NextBatch ==
    /\ layout \in {"submit", "refused"} /\ built < MaxBuilds
    /\ batch' \in Batches
    /\ built' = built + 1
    /\ td' = << >>
    /\ layout' = "pack"
    /\ UNCHANGED <<bo, image>>

LayoutNext == PackTile \/ SealBatch \/ PackAt \/ VerifyBatch \/ NextBatch

LayoutSpec == LayoutInit /\ [][LayoutNext]_layoutVars

-----------------------------------------------------------------------------
(* The part.  The kernel gives it the first program of a chained job, or   *)
(* each program of a gapped one; the words fetched up to the enable say    *)
(* where it goes on.  A word fetched behind the enable (the pad of an odd  *)
(* length) does nothing.                                                   *)
Nowhere == [at |-> 0, words |-> 0]
First(k) == [at |-> td[k].regcmd, words |-> 2 * (Encoded(td[k].count) + 1)]
Fetched(f) == (f.at - bo.dma + 1 .. f.at - bo.dma + f.words) \cap DOMAIN image
Links(f) == {w \in Fetched(f) :
                image[w].op = "base" /\ \A e \in Fetched(f) : e < w => image[e].op # "enable"}
Follow(f) ==
    IF f = Nowhere \/ Links(f) = {} THEN Nowhere
    ELSE LET w == Max(Links(f))
         IN [at |-> image[w].v, words |-> 2 * (image[w + 1].v + 1)]
Fetches ==
    LET f[k \in DOMAIN td] ==
          IF k = 1 \/ batch.how = "gapped" THEN First(k) ELSE Follow(f[k - 1])
    IN f

\* A fetch f runs program k if it starts at its first register word, is as
\* long as it is, and meets the words the generator emitted.
Runs(f, k) ==
    LET p == Generated(ProgramId(k), batch.lens[k])
    IN /\ f.words = ChainWords(Len(p))
       /\ f.at >= bo.dma
       /\ \A j \in DOMAIN p : p[j].op \in {"register", "enable"} =>
            f.at - bo.dma + j \in DOMAIN image /\ image[f.at - bo.dma + j] = p[j]
RunsAll ==
    /\ Len(td) = Len(batch.lens)
    /\ \A k \in DOMAIN batch.lens : Runs(Fetches[k], k)
    /\ batch.how # "gapped" => Follow(Fetches[Len(td)]) = Nowhere

\* The words a batch reaches to, and whether a register can address them.
Reach ==
    LET n == Len(batch.lens)
    IN batch.lens[n] + CASE batch.how = "gapped" -> (n - 1) * RcStride
                         [] OTHER -> Offset(n)
HasRoom ==
    /\ Reach <= bo.size
    /\ bo.dma + bo.size <= AddrLimit
    /\ batch.how # "at" => \A k \in DOMAIN batch.lens : batch.lens[k] <= RcStride

\* What is submitted runs: every program of the batch, each once, in order and
\* whole, however long the batch before it in the same BO was, and nothing is
\* linked behind the last.  What is refused has no room or would not have run.
ChainRunsWhole ==
    /\ layout = "submit" => RunsAll
    /\ layout = "refused" => ~HasRoom \/ ~RunsAll
=============================================================================
