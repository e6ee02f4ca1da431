-------------------------- MODULE MatmulExecProofs --------------------------
(***************************************************************************)
(* Proofs about MatmulExec, for any shape, batch size, pipeline depth and  *)
(* queue: its types, that a job finds in its buffer what was submitted,    *)
(* and that every program computes what the oracle does.                   *)
(*                                                                         *)
(* First what the batches of each program are: which tiles each holds, in  *)
(* which order, where each partial lies.  Then what a job leaves behind    *)
(* that runs a buffer which may have been rebuilt since, and that it       *)
(* touches nothing a live batch still adds to.  Last the invariant: a      *)
(* batch that was submitted has left the right sums or its job is still    *)
(* queued, and the accumulator holds exactly what the batches read so far  *)
(* give.                                                                   *)
(***************************************************************************)
EXTENDS MatmulExec, WellOrder

-----------------------------------------------------------------------------
(* Arithmetic.                                                             *)

\* A product of natural numbers is one.
LEMMA ProductNat == ASSUME NEW a \in Nat, NEW b \in Nat PROVE a * b \in Nat
OBVIOUS

\* Products rise with a factor.
LEMMA ProductRises ==
    ASSUME NEW a \in Nat, NEW b \in Nat, NEW c \in Nat, a <= b
    PROVE  a * c <= b * c
<1>1. b - a \in Nat
  OBVIOUS
<1>2. (b - a) * c \in Nat
  BY <1>1, ProductNat
<1>3. (b - a) * c = b * c - a * c
  OBVIOUS
<1> QED BY <1>2, <1>3, ProductNat

\* What a division leaves.
LEMMA DivMod ==
    ASSUME NEW a \in Nat, NEW b \in Nat \ {0}
    PROVE  a \div b \in Nat /\ a % b \in 0 .. b - 1 /\ a = (a \div b) * b + (a % b)
OBVIOUS

\* A quotient and a remainder determine each other's number.
LEMMA Apart ==
    ASSUME NEW q \in Nat, NEW r \in Nat, NEW p \in Nat, NEW s \in Nat, NEW c \in Nat \ {0},
           r < c, s < c, q < p
    PROVE  q * c + r < p * c + s
<1>1. (q + 1) * c <= p * c
  BY ProductRises
<1>2. (q + 1) * c = q * c + c
  OBVIOUS
<1>3. q * c \in Nat /\ p * c \in Nat
  BY ProductNat
<1> QED BY <1>1, <1>2, <1>3

\* So a number has one quotient and one remainder.
LEMMA Unique ==
    ASSUME NEW q \in Nat, NEW r \in Nat, NEW p \in Nat, NEW s \in Nat, NEW c \in Nat \ {0},
           r < c, s < c, q * c + r = p * c + s
    PROVE  q = p /\ r = s
<1>1. q * c \in Nat /\ p * c \in Nat
  BY ProductNat
<1>2. ~(q < p) /\ ~(p < q)
  BY Apart, <1>1
<1>3. q = p
  BY <1>2
<1> QED BY <1>1, <1>3

\* A number below a product has a quotient below the other factor.
LEMMA QuotientBelow ==
    ASSUME NEW t \in Nat, NEW a \in Nat, NEW b \in Nat \ {0}, t < a * b
    PROVE  t \div b \in 0 .. a - 1
<1> DEFINE q == t \div b
           r == t % b
<1>1. q \in Nat /\ r \in 0 .. b - 1 /\ t = q * b + r
  BY DivMod
<1> HIDE DEF q, r
<1>2. ~(a <= q)
  BY <1>1, ProductRises, ProductNat
<1> QED BY <1>1, <1>2 DEF q

\* A quotient of a number put together from it.
LEMMA DivOfSum ==
    ASSUME NEW q \in Nat, NEW r \in Nat, NEW c \in Nat \ {0}, r < c
    PROVE  (q * c + r) \div c = q /\ (q * c + r) % c = r
<1> DEFINE n == q * c + r
<1>1. n \in Nat
  BY ProductNat
<1>2. n \div c \in Nat /\ n % c \in 0 .. c - 1 /\ n = (n \div c) * c + (n % c)
  <2> HIDE DEF n
  <2> QED BY <1>1, DivMod
<1>3. n = q * c + r
  OBVIOUS
<1> HIDE DEF n
<1>4. n \div c = q /\ n % c = r
  BY <1>2, <1>3, Unique
<1> QED BY <1>4 DEF n

\* A number put together from two digits.
IsPair(a, b, x, y) ==
    /\ x * b + y \in Nat /\ x * b + y < a * b
    /\ (x * b + y) \div b = x /\ (x * b + y) % b = y

\* Two digits below the radices make such a number.
LEMMA PairDigits ==
    ASSUME NEW a \in Nat \ {0}, NEW b \in Nat \ {0}, NEW x \in Nat, x < a, NEW y \in Nat, y < b
    PROVE  IsPair(a, b, x, y)
<1>1. x * b \in Nat /\ (x + 1) * b <= a * b /\ (x + 1) * b = x * b + b /\ a * b \in Nat
  <2>1. x + 1 \in Nat /\ x + 1 <= a
    OBVIOUS
  <2> QED BY <2>1, ProductRises, ProductNat
<1>2. (x * b + y) \div b = x /\ (x * b + y) % b = y
  BY DivOfSum
<1> QED BY <1>1, <1>2 DEF IsPair

\* The pieces of at most `cap' that n is cut to: all full but the last, and
\* together n.
LEMMA PiecesCover ==
    ASSUME NEW n \in Nat \ {0}, NEW cap \in Nat \ {0}
    PROVE  /\ Pieces(n, cap) \in Nat \ {0}
           /\ \A i \in 1 .. Pieces(n, cap) :
                 /\ PieceLen(n, cap, i) \in 1 .. cap
                 /\ (i - 1) * cap \in Nat
                 /\ (i - 1) * cap + PieceLen(n, cap, i) <= n
                 /\ i < Pieces(n, cap) => PieceLen(n, cap, i) = cap
                 /\ i = Pieces(n, cap) => (i - 1) * cap + PieceLen(n, cap, i) = n
<1> DEFINE m == n + cap - 1
           P == m \div cap
           r == m % cap
<1>1. m \in Nat
  OBVIOUS
<1>2. P \in Nat /\ r \in 0 .. cap - 1 /\ m = P * cap + r
  <2> HIDE DEF m
  <2> QED BY <1>1, DivMod
<1>3. Pieces(n, cap) = P
  BY DEF Pieces
<1>4. P # 0
  <2> SUFFICES ASSUME P = 0 PROVE FALSE
    OBVIOUS
  <2>1. P * cap = 0
    BY <1>2 DEF P
  <2> HIDE DEF P, r
  <2> QED BY <1>2, <2>1
<1> HIDE DEF P, r
<1>5. ASSUME NEW i \in 1 .. P
      PROVE  /\ PieceLen(n, cap, i) \in 1 .. cap
             /\ (i - 1) * cap \in Nat
             /\ (i - 1) * cap + PieceLen(n, cap, i) <= n
             /\ i < P => PieceLen(n, cap, i) = cap
             /\ i = P => (i - 1) * cap + PieceLen(n, cap, i) = n
  <2>1. i \in Nat /\ i - 1 \in Nat /\ P - 1 \in Nat
    BY <1>2
  <2>2. (i - 1) * cap \in Nat /\ i * cap \in Nat /\ P * cap \in Nat /\ (P - 1) * cap \in Nat
    BY <2>1, <1>2, ProductNat
  <2>3. i * cap = (i - 1) * cap + cap /\ P * cap = (P - 1) * cap + cap
    BY <2>1, <1>2
  <2>4. (i - 1) * cap <= (P - 1) * cap
    <3>1. i - 1 <= P - 1
      BY <1>2
    <3> QED BY <2>1, <3>1, ProductRises
  <2>5. i < P => i * cap <= (P - 1) * cap
    <3> SUFFICES ASSUME i < P PROVE i * cap <= (P - 1) * cap
      OBVIOUS
    <3>1. i <= P - 1
      BY <1>2
    <3> QED BY <2>1, <3>1, ProductRises
  <2> QED BY <1>2, <2>2, <2>3, <2>4, <2>5 DEF PieceLen, MinOf
<1> QED BY <1>2, <1>3, <1>4, <1>5

-----------------------------------------------------------------------------
(* Tiles and tasks.                                                        *)

\* The tiles of the shape, and the tasks of its programs.
TileSet == [mi : Range0(conf.nM), ni : Range0(conf.nN), ki : Range0(conf.nK)]
TaskSet == [op : {"task"}, t : TileSet, dst : OutBufs, slot : Pos, add : {"none", "ping", "pong"},
            wr : BOOLEAN, dr : BOOLEAN]

\* What the constants say of the configuration at hand.
LEMMA ConfFacts ==
    ASSUME conf \in Conf
    PROVE  /\ conf.nM \in Nat \ {0} /\ conf.nN \in Nat \ {0} /\ conf.nK \in Nat \ {0}
           /\ BATCH \in Nat \ {0}
           /\ nTiles \in Nat \ {0} /\ Total \in Nat \ {0}
           /\ nTiles = conf.nM * conf.nN /\ Total = nTiles * conf.nK
           /\ conf.mode \in {"serial", "reuse", "pipe", "kacc", "cube"}
           /\ conf.mode = "cube" => nTiles <= BATCH
           /\ conf.policy \in 0 .. 3 /\ conf.chain \in 0 .. 2
<1>1. IsConf(conf) /\ BATCH \in Nat \ {0}
  BY ExecAssumption
<1>2. conf.nM \in Nat \ {0} /\ conf.nN \in Nat \ {0} /\ conf.nK \in Nat \ {0}
  BY <1>1 DEF IsConf
<1>3. nTiles \in Nat \ {0}
  <2>1. conf.nM * conf.nN \in Nat
    BY <1>2, ProductNat
  <2>2. 1 * conf.nN <= conf.nM * conf.nN
    BY <1>2, ProductRises
  <2> QED BY <1>2, <2>1, <2>2 DEF nTiles
<1>4. Total \in Nat \ {0}
  <2>1. nTiles * conf.nK \in Nat
    BY <1>2, <1>3, ProductNat
  <2>2. 1 * conf.nK <= nTiles * conf.nK
    BY <1>2, <1>3, ProductRises
  <2> QED BY <1>2, <2>1, <2>2 DEF Total
<1> QED BY <1>1, <1>2, <1>3, <1>4 DEF IsConf, nTiles, Total

\* The number with the digits x, y and z, the last two in the radices b and c.
Number(b, c, x, y, z) == (x * b + y) * c + z

\* The digits of t, the first below a.
HasDigits(a, b, c, t) ==
    /\ t \div (b * c) \in 0 .. a - 1 /\ (t \div c) % b \in 0 .. b - 1
    /\ t % c \in 0 .. c - 1
    /\ t = Number(b, c, t \div (b * c), (t \div c) % b, t % c)

\* Every number below the product of the radices has them.
LEMMA Digits ==
    ASSUME NEW a \in Nat \ {0}, NEW b \in Nat \ {0}, NEW c \in Nat \ {0},
           NEW t \in Nat, t < (a * b) * c
    PROVE  HasDigits(a, b, c, t)
<1> DEFINE q == t \div c
           x == q \div b
           y == q % b
           z == t % c
<1>1. q \in Nat /\ z \in 0 .. c - 1 /\ t = q * c + z
  BY DivMod
<1>2. a * b \in Nat /\ b * c \in Nat \ {0}
  <2>1. 1 * c <= b * c
    BY ProductRises
  <2> QED BY <2>1, ProductNat
<1>3. q \in 0 .. a * b - 1 /\ q < a * b
  BY <1>2, QuotientBelow
<1>4. x \in Nat /\ y \in 0 .. b - 1 /\ q = x * b + y
  <2> HIDE DEF q
  <2> QED BY <1>1, DivMod
<1>5. x \in 0 .. a - 1
  <2> HIDE DEF q
  <2> QED BY <1>1, <1>3, QuotientBelow
<1> DEFINE s == y * c + z
<1>6. t = x * (b * c) + s /\ s \in Nat /\ s < b * c
  <2> HIDE DEF q, x, y, z
  <2>1. (x * b + y) * c = x * (b * c) + y * c
    BY <1>1, <1>4
  <2>2. y * c \in Nat /\ (y + 1) * c <= b * c /\ (y + 1) * c = y * c + c
    BY <1>4, ProductNat, ProductRises
  <2> QED BY <1>1, <1>2, <1>4, <2>1, <2>2
<1>7. t \div (b * c) = x
  <2> HIDE DEF q, x, y, z, s
  <2>1. (x * (b * c) + s) \div (b * c) = x
    BY <1>2, <1>4, <1>6, DivOfSum
  <2> QED BY <1>6, <2>1
<1> QED BY <1>1, <1>4, <1>5, <1>7 DEF HasDigits, Number

-----------------------------------------------------------------------------
(* The loop orders of the programs whose partials the CPU sums.            *)

\* The programs whose partials the CPU sums, the reuse mode they run in, the
\* order their tiles come in, whether their jobs are chained, and how many
\* pairs of buffers they use in turn.
IsHost == conf.mode \in {"serial", "reuse", "pipe"}
HostMode == IF conf.mode = "reuse" THEN ReuseMode(FALSE) ELSE 0
HostOrder ==
    IF conf.mode # "reuse" THEN OracleOrder
    ELSE IF HostMode = 1 THEN WeightOrder ELSE DataOrder
HostChained == IF conf.mode = "serial" THEN conf.chained ELSE FALSE
Pairs == IF conf.mode = "pipe" THEN 2 ELSE 1

\* Where the order in use has a tile.
Index(t) ==
    IF conf.mode # "reuse" THEN Number(conf.nN, conf.nK, t.mi, t.ni, t.ki)
    ELSE IF HostMode = 1 THEN Number(conf.nK, conf.nM, t.ni, t.ki, t.mi)
    ELSE Number(conf.nK, conf.nN, t.mi, t.ki, t.ni)

\* The order holds every tile where Index says.
LEMMA OrderTile ==
    ASSUME conf \in Conf, NEW n \in 0 .. Total - 1
    PROVE  HostOrder[n] \in TileSet /\ Index(HostOrder[n]) = n
<1>1. /\ conf.nM \in Nat \ {0} /\ conf.nN \in Nat \ {0} /\ conf.nK \in Nat \ {0}
      /\ Total \in Nat /\ Total = (conf.nM * conf.nN) * conf.nK /\ n \in Nat /\ n < Total
  BY ConfFacts
<1>2. n \in Range0(Total)
  BY DEF Range0
<1>3. CASE conf.mode # "reuse"
  <2>1. HostOrder[n] = Tile(n \div (conf.nN * conf.nK), (n \div conf.nK) % conf.nN, n % conf.nK)
    BY <1>2, <1>3 DEF HostOrder, OracleOrder
  <2> DEFINE x == n \div (conf.nN * conf.nK)
             y == (n \div conf.nK) % conf.nN
             z == n % conf.nK
  <2>3. /\ x \in 0 .. conf.nM - 1 /\ y \in 0 .. conf.nN - 1 /\ z \in 0 .. conf.nK - 1
        /\ n = Number(conf.nN, conf.nK, x, y, z)
    <3>1. n \in Nat /\ n < (conf.nM * conf.nN) * conf.nK
      BY <1>1
    <3>2. HasDigits(conf.nM, conf.nN, conf.nK, n)
      BY <1>1, <3>1, Digits
    <3> QED BY <3>2 DEF HasDigits
  <2>4. HostOrder[n] = Tile(x, y, z)
    BY <2>1
  <2> HIDE DEF x, y, z
  <2> QED BY <1>3, <2>3, <2>4 DEF Tile, TileSet, Index, Range0
<1>4. CASE conf.mode = "reuse" /\ HostMode = 1
  <2>1. HostOrder[n] = Tile(n % conf.nM, n \div (conf.nK * conf.nM), (n \div conf.nM) % conf.nK)
    BY <1>2, <1>4 DEF HostOrder, WeightOrder
  <2>2. n < (conf.nN * conf.nK) * conf.nM
    BY <1>1
  <2> DEFINE x == n \div (conf.nK * conf.nM)
             y == (n \div conf.nM) % conf.nK
             z == n % conf.nM
  <2>3. /\ x \in 0 .. conf.nN - 1 /\ y \in 0 .. conf.nK - 1 /\ z \in 0 .. conf.nM - 1
        /\ n = Number(conf.nK, conf.nM, x, y, z)
    <3>1. n \in Nat /\ n < (conf.nN * conf.nK) * conf.nM
      BY <1>1, <2>2
    <3>2. HasDigits(conf.nN, conf.nK, conf.nM, n)
      BY <1>1, <3>1, Digits
    <3> QED BY <3>2 DEF HasDigits
  <2>4. HostOrder[n] = Tile(z, x, y)
    BY <2>1
  <2> HIDE DEF x, y, z
  <2> QED BY <1>4, <2>3, <2>4 DEF Tile, TileSet, Index, Range0
<1>5. CASE conf.mode = "reuse" /\ HostMode # 1
  <2>1. HostOrder[n] = Tile(n \div (conf.nK * conf.nN), n % conf.nN, (n \div conf.nN) % conf.nK)
    BY <1>2, <1>5 DEF HostOrder, DataOrder
  <2>2. n < (conf.nM * conf.nK) * conf.nN
    BY <1>1
  <2> DEFINE x == n \div (conf.nK * conf.nN)
             y == (n \div conf.nN) % conf.nK
             z == n % conf.nN
  <2>3. /\ x \in 0 .. conf.nM - 1 /\ y \in 0 .. conf.nK - 1 /\ z \in 0 .. conf.nN - 1
        /\ n = Number(conf.nK, conf.nN, x, y, z)
    <3>1. n \in Nat /\ n < (conf.nM * conf.nK) * conf.nN
      BY <1>1, <2>2
    <3>2. HasDigits(conf.nM, conf.nK, conf.nN, n)
      BY <1>1, <3>1, Digits
    <3> QED BY <3>2 DEF HasDigits
  <2>4. HostOrder[n] = Tile(x, z, y)
    BY <2>1
  <2> HIDE DEF x, y, z
  <2> QED BY <1>5, <2>3, <2>4 DEF Tile, TileSet, Index, Range0
<1> QED BY <1>3, <1>4, <1>5

\* A number put together from digits, and which digits.
LEMMA Composed ==
    ASSUME NEW a \in Nat \ {0}, NEW b \in Nat \ {0}, NEW c \in Nat \ {0},
           NEW x \in 0 .. a - 1, NEW y \in 0 .. b - 1, NEW z \in 0 .. c - 1
    PROVE  Number(b, c, x, y, z) \in Nat /\ Number(b, c, x, y, z) < (a * b) * c
<1>1. \A u \in 0 .. a - 1, v \in 0 .. b - 1 : u * b + v \in Nat
  <2> SUFFICES ASSUME NEW u \in 0 .. a - 1, NEW v \in 0 .. b - 1 PROVE u * b + v \in Nat
    OBVIOUS
  <2>1. u * b \in Nat
    BY ProductNat
  <2> QED BY <2>1
<1> DEFINE q == x * b + y
<1>2. q \in Nat
  BY <1>1
<1>3. q < a * b
  <2>1. (x + 1) * b <= a * b /\ (x + 1) * b = x * b + b /\ x * b \in Nat /\ a * b \in Nat
    <3>1. x + 1 \in Nat /\ x + 1 <= a
      OBVIOUS
    <3> QED BY <3>1, ProductRises, ProductNat
  <2> QED BY <2>1
<1>4. q * c + z \in Nat /\ q * c + z < (a * b) * c
  <2> HIDE DEF q
  <2>1. q * c \in Nat /\ a * b \in Nat /\ q + 1 <= a * b
    BY <1>2, <1>3, ProductNat
  <2>2. (q + 1) * c <= (a * b) * c /\ (q + 1) * c = q * c + c /\ (a * b) * c \in Nat
    BY <1>2, <2>1, ProductRises, ProductNat
  <2> QED BY <2>1, <2>2
<1> QED BY <1>4 DEF Number

\* n is the number with these digits.
IsNumber(n, b, c, x, y, z) == n = Number(b, c, x, y, z)

\* A number has one set of digits.
LEMMA SameDigits ==
    ASSUME NEW b \in Nat \ {0}, NEW c \in Nat \ {0},
           NEW x \in Nat, NEW y \in 0 .. b - 1, NEW z \in 0 .. c - 1,
           NEW u \in Nat, NEW v \in 0 .. b - 1, NEW w \in 0 .. c - 1,
           NEW n, IsNumber(n, b, c, x, y, z), IsNumber(n, b, c, u, v, w)
    PROVE  x = u /\ y = v /\ z = w
<1> DEFINE q == x * b + y
           p == u * b + v
<1>1. x * b \in Nat /\ u * b \in Nat
  BY ProductNat
<1>2. q \in Nat /\ p \in Nat /\ q * c + z = p * c + w
  BY <1>1 DEF IsNumber, Number
<1>3. q = p /\ z = w
  <2> HIDE DEF p, q
  <2> QED BY <1>2, Unique
<1>4. x = u /\ y = v
  BY <1>3, Unique
<1> QED BY <1>3, <1>4

\* It has each tile once, and the tiles of one cell with K ascending.
LEMMA IndexFacts ==
    ASSUME conf \in Conf, NEW t \in TileSet
    PROVE  /\ Index(t) \in 0 .. Total - 1
           /\ \A u \in TileSet : Index(t) = Index(u) => t = u
           /\ \A u \in TileSet : t.mi = u.mi /\ t.ni = u.ni /\ t.ki < u.ki => Index(t) < Index(u)
<1>1. /\ conf.nM \in Nat \ {0} /\ conf.nN \in Nat \ {0} /\ conf.nK \in Nat \ {0}
      /\ Total \in Nat /\ Total = (conf.nM * conf.nN) * conf.nK
  BY ConfFacts
<1>2. \A u \in TileSet : /\ u.mi \in 0 .. conf.nM - 1 /\ u.ni \in 0 .. conf.nN - 1
                         /\ u.ki \in 0 .. conf.nK - 1
                         /\ u = [mi |-> u.mi, ni |-> u.ni, ki |-> u.ki]
  BY DEF TileSet, Range0
<1>3. ASSUME NEW u \in TileSet, t.mi = u.mi, t.ni = u.ni, t.ki = u.ki PROVE t = u
  <2>1. t = [mi |-> t.mi, ni |-> t.ni, ki |-> t.ki] /\ u = [mi |-> u.mi, ni |-> u.ni, ki |-> u.ki]
    BY <1>2
  <2> QED BY <1>3, <2>1
<1>4. CASE conf.mode # "reuse"
  <2>1. \A u \in TileSet : Index(u) = Number(conf.nN, conf.nK, u.mi, u.ni, u.ki)
    BY <1>4 DEF Index
  <2>2. Index(t) \in 0 .. Total - 1
    <3>1. Index(t) \in Nat /\ Index(t) < Total
      BY <1>1, <1>2, <2>1, Composed
    <3> QED BY <3>1, <1>1
  <2>3. ASSUME NEW u \in TileSet, Index(t) = Index(u) PROVE t = u
    <3>1. t.mi = u.mi /\ t.ni = u.ni /\ t.ki = u.ki
      <4>1. /\ IsNumber(Index(t), conf.nN, conf.nK, t.mi, t.ni, t.ki)
            /\ IsNumber(Index(t), conf.nN, conf.nK, u.mi, u.ni, u.ki)
        BY <2>1, <2>3 DEF IsNumber
      <4>2. /\ t.mi \in Nat /\ t.ni \in 0 .. conf.nN - 1 /\ t.ki \in 0 .. conf.nK - 1
            /\ u.mi \in Nat /\ u.ni \in 0 .. conf.nN - 1 /\ u.ki \in 0 .. conf.nK - 1
            /\ conf.nN \in Nat \ {0} /\ conf.nK \in Nat \ {0}
        BY <1>1, <1>2
      <4> QED BY <4>1, <4>2, SameDigits
    <3> QED BY <3>1, <1>3
  <2>4. ASSUME NEW u \in TileSet, t.mi = u.mi, t.ni = u.ni, t.ki < u.ki PROVE Index(t) < Index(u)
    <3> DEFINE q == (u.mi * conf.nN + u.ni) * conf.nK
    <3>1. Index(t) = q + t.ki /\ Index(u) = q + u.ki
      BY <2>1, <2>4 DEF Number
    <3>2. q \in Nat
      <4>1. u.mi * conf.nN \in Nat
        BY <1>1, <1>2, ProductNat
      <4>2. u.mi * conf.nN + u.ni \in Nat
        BY <4>1, <1>2
      <4> QED BY <4>2, <1>1, ProductNat
    <3> HIDE DEF q
    <3> QED BY <3>1, <3>2, <2>4, <1>2
  <2> QED BY <2>2, <2>3, <2>4
<1> DEFINE Rises(b, c) ==
      \A x \in Nat, y \in Nat, v \in Nat, z \in 0 .. c - 1 :
         y < v => Number(b, c, x, y, z) < Number(b, c, x, v, z)
<1>5. ASSUME NEW b \in Nat, NEW c \in Nat \ {0} PROVE Rises(b, c)
  <2> SUFFICES ASSUME NEW x \in Nat, NEW y \in Nat, NEW v \in Nat, NEW z \in 0 .. c - 1, y < v
               PROVE  Number(b, c, x, y, z) < Number(b, c, x, v, z)
    OBVIOUS
  <2> DEFINE q == x * b + y
             p == x * b + v
  <2>1. q \in Nat /\ p \in Nat /\ q < p
    BY ProductNat
  <2> HIDE DEF q, p
  <2>2. q * c + z < p * c + z
    BY <2>1, Apart
  <2> QED BY <2>2 DEF q, p, Number
<1>6. CASE conf.mode = "reuse" /\ HostMode = 1
  <2>1. \A u \in TileSet : Index(u) = Number(conf.nK, conf.nM, u.ni, u.ki, u.mi)
    BY <1>6 DEF Index
  <2>2. Index(t) \in 0 .. Total - 1
    <3>1. Index(t) \in Nat /\ Index(t) < (conf.nN * conf.nK) * conf.nM
      BY <1>1, <1>2, <2>1, Composed
    <3>2. (conf.nN * conf.nK) * conf.nM = Total
      BY <1>1
    <3> QED BY <3>1, <3>2, <1>1
  <2>3. ASSUME NEW u \in TileSet, Index(t) = Index(u) PROVE t = u
    <3>1. t.mi = u.mi /\ t.ni = u.ni /\ t.ki = u.ki
      <4> DEFINE b == conf.nK  c == conf.nM  n == Index(t)
                 x == t.ni  y == t.ki  z == t.mi  p == u.ni  q == u.ki  r == u.mi
      <4>1. IsNumber(n, b, c, x, y, z) /\ IsNumber(n, b, c, p, q, r)
        BY <2>1, <2>3 DEF IsNumber
      <4>2. /\ x \in Nat /\ y \in 0 .. b - 1 /\ z \in 0 .. c - 1
            /\ p \in Nat /\ q \in 0 .. b - 1 /\ r \in 0 .. c - 1
            /\ b \in Nat \ {0} /\ c \in Nat \ {0}
        BY <1>1, <1>2
      <4>3. x = p /\ y = q /\ z = r
        <5> HIDE DEF b, c, n, x, y, z, p, q, r
        <5> QED BY <4>1, <4>2, SameDigits
      <4> QED BY <4>3
    <3> QED BY <3>1, <1>3
  <2>4. ASSUME NEW u \in TileSet, t.mi = u.mi, t.ni = u.ni, t.ki < u.ki PROVE Index(t) < Index(u)
    <3>1. Rises(conf.nK, conf.nM)
      BY <1>1, <1>5
    <3> QED BY <3>1, <2>1, <2>4, <1>2
  <2> QED BY <2>2, <2>3, <2>4
<1>7. CASE conf.mode = "reuse" /\ HostMode # 1
  <2>1. \A u \in TileSet : Index(u) = Number(conf.nK, conf.nN, u.mi, u.ki, u.ni)
    BY <1>7 DEF Index
  <2>2. Index(t) \in 0 .. Total - 1
    <3>1. Index(t) \in Nat /\ Index(t) < (conf.nM * conf.nK) * conf.nN
      BY <1>1, <1>2, <2>1, Composed
    <3>2. (conf.nM * conf.nK) * conf.nN = Total
      BY <1>1
    <3> QED BY <3>1, <3>2, <1>1
  <2>3. ASSUME NEW u \in TileSet, Index(t) = Index(u) PROVE t = u
    <3>1. t.mi = u.mi /\ t.ni = u.ni /\ t.ki = u.ki
      <4> DEFINE b == conf.nK  c == conf.nN  n == Index(t)
                 x == t.mi  y == t.ki  z == t.ni  p == u.mi  q == u.ki  r == u.ni
      <4>1. IsNumber(n, b, c, x, y, z) /\ IsNumber(n, b, c, p, q, r)
        BY <2>1, <2>3 DEF IsNumber
      <4>2. /\ x \in Nat /\ y \in 0 .. b - 1 /\ z \in 0 .. c - 1
            /\ p \in Nat /\ q \in 0 .. b - 1 /\ r \in 0 .. c - 1
            /\ b \in Nat \ {0} /\ c \in Nat \ {0}
        BY <1>1, <1>2
      <4>3. x = p /\ y = q /\ z = r
        <5> HIDE DEF b, c, n, x, y, z, p, q, r
        <5> QED BY <4>1, <4>2, SameDigits
      <4> QED BY <4>3
    <3> QED BY <3>1, <1>3
  <2>4. ASSUME NEW u \in TileSet, t.mi = u.mi, t.ni = u.ni, t.ki < u.ki PROVE Index(t) < Index(u)
    <3>1. Rises(conf.nK, conf.nN)
      BY <1>1, <1>5
    <3> QED BY <3>1, <2>1, <2>4, <1>2
  <2> QED BY <2>2, <2>3, <2>4
<1> QED BY <1>4, <1>6, <1>7

-----------------------------------------------------------------------------
(* The batches of each kind of program.                                    *)

\* The programs whose partials the NPU sums: all K steps of a group of cells in
\* one job, or one job per K step.
IsChain == conf.mode = "kacc" /\ ChainEngaged
IsStepped == NpuSums /\ ~IsChain

\* ts are the tasks of a job of k tiles.
IsJob(ts, k, tiles, dst, add, mode) ==
    /\ ts \in [1 .. k -> TaskSet] /\ Len(ts) = k
    /\ \A p \in 1 .. k :
          /\ ts[p].t = tiles[p] /\ ts[p].dst = dst /\ ts[p].slot = p - 1
          /\ ts[p].add = add
          /\ ts[p].wr => p > 1 /\ WReuse(mode, tiles[p - 1], tiles[p])
          /\ ts[p].dr => p > 1 /\ DReuse(mode, tiles[p - 1], tiles[p])

\* JobTasks makes such tasks.
LEMMA TasksOfJob ==
    ASSUME NEW k \in 0 .. BATCH, BATCH \in Nat, NEW tiles \in [1 .. k -> TileSet], NEW dst \in OutBufs,
           NEW add \in {"none", "ping", "pong"}, NEW mode
    PROVE  IsJob(JobTasks(tiles, dst, add, mode), k, tiles, dst, add, mode)
<1> DEFINE ts == JobTasks(tiles, dst, add, mode)
           wr(p) == p > 1 /\ WReuse(mode, tiles[p - 1], tiles[p])
           dr(p) == p > 1 /\ DReuse(mode, tiles[p - 1], tiles[p])
<1>1. DOMAIN tiles = 1 .. k
  OBVIOUS
<1>2. ts = [p \in 1 .. k |-> Task(tiles[p], dst, p - 1, add, wr(p), dr(p))]
  BY <1>1 DEF JobTasks
<1>3. \A p \in 1 .. k : wr(p) \in BOOLEAN /\ dr(p) \in BOOLEAN
  BY DEF WReuse, DReuse
<1> HIDE DEF wr, dr
<1>4. ASSUME NEW p \in 1 .. k
      PROVE  Task(tiles[p], dst, p - 1, add, wr(p), dr(p)) \in TaskSet
  <2>1. p - 1 \in Pos
    BY DEF Pos, Range0
  <2> QED BY <1>3, <2>1 DEF Task, TaskSet
<1>5. ts \in [1 .. k -> TaskSet] /\ Len(ts) = k
  <2> HIDE DEF ts
  <2> QED BY <1>2, <1>4
<1>6. ASSUME NEW p \in 1 .. k
      PROVE  /\ ts[p].t = tiles[p] /\ ts[p].dst = dst /\ ts[p].slot = p - 1
             /\ ts[p].add = add /\ ts[p].wr = wr(p) /\ ts[p].dr = dr(p)
  <2>1. ts[p] = Task(tiles[p], dst, p - 1, add, wr(p), dr(p))
    <3> HIDE DEF ts
    <3> QED BY <1>2
  <2> HIDE DEF ts
  <2> QED BY <2>1 DEF Task
<1> HIDE DEF ts
<1>7. \A p \in 1 .. k : (ts[p].wr => p > 1 /\ WReuse(mode, tiles[p - 1], tiles[p]))
                        /\ (ts[p].dr => p > 1 /\ DReuse(mode, tiles[p - 1], tiles[p]))
  BY <1>6 DEF wr, dr
<1> QED BY <1>5, <1>6, <1>7 DEF ts, IsJob

\* The buffers batch i uses, its length and its tiles.
HostRc(i) == <<"rc0", "rc1">>[1 + ((i - 1) % Pairs)]
HostDst(i) == <<"out0", "out1">>[1 + ((i - 1) % Pairs)]
HostLen(i) == PieceLen(Total, BATCH, i)
HostTiles(i) == [p \in 1 .. HostLen(i) |-> HostOrder[(i - 1) * BATCH + p - 1]]

\* A batch whose partials the CPU sums.
LEMMA HostBatch ==
    ASSUME conf \in Conf, IsHost
    PROVE  /\ N = Pieces(Total, BATCH) /\ N \in Nat \ {0}
           /\ \A i \in 1 .. N :
                 /\ HostLen(i) \in 1 .. BATCH /\ HostTiles(i) \in [1 .. HostLen(i) -> TileSet]
                 /\ \A p \in 1 .. HostLen(i) : Index(HostTiles(i)[p]) = (i - 1) * BATCH + p - 1
                 /\ HostRc(i) \in RcBufs /\ HostDst(i) \in {"out0", "out1"}
                 /\ Batches[i] = Batch(HostRc(i), JobTasks(HostTiles(i), HostDst(i), "none", HostMode),
                                       {}, {HostDst(i)}, HostDst(i), 1 .. HostLen(i), HostChained)
<1>1. Pieces(Total, BATCH) \in Nat \ {0}
  BY ConfFacts, PiecesCover
<1>2. Batches = [i \in 1 .. Pieces(Total, BATCH) |->
                   Batch(HostRc(i), JobTasks(HostTiles(i), HostDst(i), "none", HostMode),
                         {}, {HostDst(i)}, HostDst(i), 1 .. HostLen(i), HostChained)]
  <2>1. Batches = HostSum(HostOrder, HostMode, HostChained, Pairs)
    BY DEF Batches, IsHost, SerialBatches, PipeBatches, ReuseBatches, HostOrder, HostMode,
           HostChained, Pairs
  <2>2. HostSum(HostOrder, HostMode, HostChained, Pairs) =
          [i \in 1 .. Pieces(Total, BATCH) |->
             Batch(HostRc(i), JobTasks(HostTiles(i), HostDst(i), "none", HostMode),
                   {}, {HostDst(i)}, HostDst(i), 1 .. HostLen(i), HostChained)]
    BY DEF HostSum, HostRc, HostDst, HostTiles, HostLen
  <2> QED BY <2>1, <2>2
<1>3. N = Pieces(Total, BATCH)
  BY <1>1, <1>2 DEF N
<1>4. ASSUME NEW i \in 1 .. N
      PROVE  /\ HostLen(i) \in 1 .. BATCH /\ HostTiles(i) \in [1 .. HostLen(i) -> TileSet]
             /\ \A p \in 1 .. HostLen(i) : Index(HostTiles(i)[p]) = (i - 1) * BATCH + p - 1
  <2>1. /\ PieceLen(Total, BATCH, i) \in 1 .. BATCH /\ (i - 1) * BATCH \in Nat
        /\ (i - 1) * BATCH + PieceLen(Total, BATCH, i) <= Total
    BY ConfFacts, PiecesCover, <1>3
  <2> DEFINE b == (i - 1) * BATCH
  <2>2. HostTiles(i) = [p \in 1 .. HostLen(i) |-> HostOrder[b + p - 1]]
    BY DEF HostTiles
  <2>3. b \in Nat /\ b + HostLen(i) <= Total /\ HostLen(i) \in 1 .. BATCH
    BY <2>1 DEF HostLen
  <2> HIDE DEF b
  <2>4. ASSUME NEW p \in 1 .. HostLen(i)
        PROVE  HostOrder[b + p - 1] \in TileSet /\ Index(HostOrder[b + p - 1]) = b + p - 1
    <3>1. b + p - 1 \in 0 .. Total - 1
      BY <2>3, ConfFacts
    <3> QED BY <3>1, OrderTile
  <2>5. \A p \in 1 .. HostLen(i) : Index(HostTiles(i)[p]) = b + p - 1
    BY <2>2, <2>4
  <2> QED BY <2>2, <2>3, <2>4, <2>5 DEF b
<1>5. ASSUME NEW i \in 1 .. N PROVE HostRc(i) \in RcBufs /\ HostDst(i) \in {"out0", "out1"}
  <2>1. (i - 1) % Pairs \in 0 .. 1
    BY <1>1, <1>3 DEF Pairs
  <2> QED BY <2>1 DEF HostRc, HostDst, RcBufs
<1> QED BY <1>1, <1>2, <1>3, <1>4, <1>5

\* The tiles of the programs whose partials the NPU sums: each cell is one.
LEMMA GroupTiles ==
    ASSUME conf \in Conf, NEW mode
    PROVE  /\ \A n \in 0 .. nTiles - 1, k \in Range0(conf.nK) :
                 /\ GroupTile(n, k, mode) \in TileSet /\ GroupTile(n, k, mode).ki = k
                 /\ GroupTile(n, k, mode).mi = GroupTile(n, 0, mode).mi
                 /\ GroupTile(n, k, mode).ni = GroupTile(n, 0, mode).ni
           /\ \A c \in Cell : \E n \in 0 .. nTiles - 1 :
                 GroupTile(n, 0, mode).mi = c[1] /\ GroupTile(n, 0, mode).ni = c[2]
<1>1. /\ conf.nM \in Nat \ {0} /\ conf.nN \in Nat \ {0} /\ nTiles \in Nat /\ nTiles = conf.nM * conf.nN
  BY ConfFacts
<1>2. ASSUME NEW n \in 0 .. nTiles - 1, NEW k \in Range0(conf.nK)
      PROVE  /\ GroupTile(n, k, mode) \in TileSet /\ GroupTile(n, k, mode).ki = k
             /\ GroupTile(n, k, mode).mi = GroupTile(n, 0, mode).mi
             /\ GroupTile(n, k, mode).ni = GroupTile(n, 0, mode).ni
  <2>1. n \in Nat /\ n < conf.nM * conf.nN /\ n < conf.nN * conf.nM
    BY <1>1
  <2>2. n \div conf.nN \in 0 .. conf.nM - 1 /\ n \div conf.nM \in 0 .. conf.nN - 1
    BY <1>1, <2>1, QuotientBelow
  <2>3. n % conf.nN \in 0 .. conf.nN - 1 /\ n % conf.nM \in 0 .. conf.nM - 1
    BY <1>1, <2>1
  <2> QED BY <2>2, <2>3 DEF GroupTile, Tile, TileSet, Range0
<1>3. ASSUME NEW c \in Cell
      PROVE  \E n \in 0 .. nTiles - 1 :
                 GroupTile(n, 0, mode).mi = c[1] /\ GroupTile(n, 0, mode).ni = c[2]
  <2> DEFINE x == c[1]
             y == c[2]
  <2>1. x \in Nat /\ x < conf.nM /\ y \in Nat /\ y < conf.nN
    BY <1>1 DEF Cell, Range0
  <2> DEFINE n == IF mode = 1 THEN y * conf.nM + x ELSE x * conf.nN + y
  <2> HIDE DEF x, y
  <2>2. IsPair(conf.nM, conf.nN, x, y) /\ IsPair(conf.nN, conf.nM, y, x)
    BY <1>1, <2>1, PairDigits
  <2>3. /\ n \in 0 .. nTiles - 1
        /\ mode = 1 => n \div conf.nM = y /\ n % conf.nM = x
        /\ mode # 1 => n \div conf.nN = x /\ n % conf.nN = y
    BY <1>1, <2>2 DEF IsPair
  <2> HIDE DEF n
  <2>4. GroupTile(n, 0, mode).mi = x /\ GroupTile(n, 0, mode).ni = y
    BY <2>3 DEF GroupTile, Tile
  <2> QED BY <2>3, <2>4 DEF x, y
<1> QED BY <1>2, <1>3

\* Where operands may be kept they are: the part keeps them from task to task
\* of what is one job there, weights only if they do not pass through.
Keeps(chained, mode) ==
    /\ mode \in {1, 2} => chained \/ conf.oneJob
    /\ mode = 1 => ~conf.streams

\* The reuse mode is chosen so that they are.
LEMMA ModeKeeps ==
    ASSUME NEW chained \in BOOLEAN
    PROVE  Keeps(chained, ReuseMode(chained))
BY DEF Keeps, ReuseMode, ReuseOk

\* The reuse mode of a K step.
StepMode ==
    IF conf.mode = "cube" THEN (IF ReuseOk(conf.chained) THEN 2 ELSE 0) ELSE ReuseMode(conf.chained)

\* The tiles a K step computes, of g cells from `base' on.
StepTiles(base, g, k, mode) == [p \in 1 .. g |-> GroupTile(base + p - 1, k, mode)]

\* The group and the K step of batch j, the first cell of the group, and how
\* many cells it has.
GroupOf(j) == (j - 1) \div conf.nK + 1
KOf(j) == (j - 1) % conf.nK
StepBase(j) == (GroupOf(j) - 1) * BATCH
StepLen(j) == PieceLen(nTiles, BATCH, GroupOf(j))

\* A K step writes the buffer the step before it did not, and adds that one.
LEMMA PingPongType ==
    ASSUME NEW k \in Nat
    PROVE  /\ PingPong(k) \in {"ping", "pong"} /\ PingPong(k) # PingPong(k + 1)
           /\ Addend(k) \in {"none", "ping", "pong"}
           /\ k = 0 => Addend(k) = "none"
           /\ k > 0 => Addend(k) = PingPong(k - 1)
<1>1. (k + 1) % 2 # k % 2
  OBVIOUS
<1>2. k % 2 \in {0, 1} /\ (k + 1) % 2 \in {0, 1}
  OBVIOUS
<1>3. k > 0 => (k - 1) % 2 = (k + 1) % 2
  OBVIOUS
<1> QED BY <1>1, <1>2, <1>3 DEF PingPong, Addend

\* A K step of a group: one job.
LEMMA StepBatch ==
    ASSUME conf \in Conf, IsStepped
    PROVE  /\ N = Pieces(nTiles, BATCH) * conf.nK /\ N \in Nat \ {0}
           /\ \A j \in 1 .. N :
                 /\ GroupOf(j) \in 1 .. Pieces(nTiles, BATCH) /\ KOf(j) \in Range0(conf.nK)
                 /\ StepLen(j) \in 1 .. BATCH /\ StepBase(j) \in Nat
                 /\ StepBase(j) + StepLen(j) <= nTiles
                 /\ StepTiles(StepBase(j), StepLen(j), KOf(j), StepMode) \in [1 .. StepLen(j) -> TileSet]
                 /\ Batches[j] =
                      Batch("rc0",
                            JobTasks(StepTiles(StepBase(j), StepLen(j), KOf(j), StepMode),
                                     PingPong(KOf(j)), Addend(KOf(j)), StepMode),
                            {Addend(KOf(j))} \ {"none"}, {PingPong(KOf(j))}, PingPong(KOf(j)),
                            IF KOf(j) = conf.nK - 1 THEN 1 .. StepLen(j) ELSE {}, conf.chained)
<1> DEFINE P == Pieces(nTiles, BATCH)
           n == P * conf.nK
<1>0. conf.nK \in Nat \ {0} /\ nTiles \in Nat \ {0} /\ BATCH \in Nat \ {0}
  BY ConfFacts
<1>1. P \in Nat \ {0}
  BY <1>0, PiecesCover
<1>2. n \in Nat \ {0}
  <2> HIDE DEF P
  <2>1. 1 * conf.nK <= P * conf.nK
    BY <1>0, <1>1, ProductRises
  <2> QED BY <1>0, <1>1, <2>1, ProductNat
<1>3. Batches = [j \in 1 .. n |->
                   Batch("rc0",
                         JobTasks(StepTiles(StepBase(j), StepLen(j), KOf(j), StepMode),
                                  PingPong(KOf(j)), Addend(KOf(j)), StepMode),
                         {Addend(KOf(j))} \ {"none"}, {PingPong(KOf(j))}, PingPong(KOf(j)),
                         IF KOf(j) = conf.nK - 1 THEN 1 .. StepLen(j) ELSE {}, conf.chained)]
  <2>1. Batches = SteppedBatches(StepMode, conf.chained)
    BY DEF Batches, IsStepped, IsChain, NpuSums, CubeBatches, StepMode
  <2> QED BY <2>1 DEF SteppedBatches, StepTasks, StepTiles, StepBase, StepLen, GroupOf, KOf
<1> HIDE DEF n
<1>4. N = n
  BY <1>2, <1>3 DEF N
<1>5. ASSUME NEW j \in 1 .. n
      PROVE  /\ GroupOf(j) \in 1 .. P /\ KOf(j) \in Range0(conf.nK)
             /\ StepLen(j) \in 1 .. BATCH /\ StepBase(j) \in Nat
             /\ StepBase(j) + StepLen(j) <= nTiles
  <2> DEFINE q == (j - 1) \div conf.nK
  <2>1. q \in 0 .. P - 1 /\ (j - 1) % conf.nK \in 0 .. conf.nK - 1
    <3>1. j - 1 \in Nat /\ j - 1 < P * conf.nK
      BY <1>2 DEF n
    <3> DEFINE t == j - 1
    <3> HIDE DEF P, t
    <3>2. t \in Nat /\ t < P * conf.nK /\ P \in Nat /\ conf.nK \in Nat \ {0}
      BY <1>0, <1>1, <3>1 DEF t
    <3>3. t \div conf.nK \in 0 .. P - 1
      BY <3>2, QuotientBelow
    <3>4. t % conf.nK \in 0 .. conf.nK - 1
      BY <3>2
    <3> QED BY <3>3, <3>4 DEF t
  <2>2. GroupOf(j) = q + 1
    BY DEF GroupOf
  <2> HIDE DEF q
  <2>3. GroupOf(j) \in 1 .. P
    BY <1>1, <2>1, <2>2
  <2> DEFINE g == GroupOf(j)
  <2>4. /\ PieceLen(nTiles, BATCH, g) \in 1 .. BATCH /\ (g - 1) * BATCH \in Nat
        /\ (g - 1) * BATCH + PieceLen(nTiles, BATCH, g) <= nTiles
    <3> HIDE DEF g
    <3>1. g \in 1 .. Pieces(nTiles, BATCH)
      BY <2>3 DEF g
    <3> QED BY <1>0, <3>1, PiecesCover
  <2> QED BY <2>1, <2>3, <2>4 DEF KOf, Range0, StepLen, StepBase
<1>6. ASSUME NEW j \in 1 .. n
      PROVE  StepTiles(StepBase(j), StepLen(j), KOf(j), StepMode) \in [1 .. StepLen(j) -> TileSet]
  <2> DEFINE b == StepBase(j)
             l == StepLen(j)
  <2>1. b \in Nat /\ l \in 1 .. BATCH /\ b + l <= nTiles /\ KOf(j) \in Range0(conf.nK)
    BY <1>5
  <2> HIDE DEF b, l
  <2>2. ASSUME NEW p \in 1 .. l PROVE GroupTile(b + p - 1, KOf(j), StepMode) \in TileSet
    <3>1. b + p - 1 \in 0 .. nTiles - 1
      BY <2>1, <1>0
    <3> QED BY <2>1, <3>1, GroupTiles
  <2>3. StepTiles(b, l, KOf(j), StepMode) \in [1 .. l -> TileSet]
    BY <2>2 DEF StepTiles
  <2> QED BY <2>3 DEF b, l
<1>7. N = P * conf.nK
  BY <1>4 DEF n
<1> QED BY <1>2, <1>3, <1>4, <1>5, <1>6, <1>7

-----------------------------------------------------------------------------
(* The chained batches.                                                    *)

\* The reuse mode of a chain; the first cell of a group and how many it has.
ChainMode == ReuseMode(TRUE)
ChainBase(i) == (i - 1) * GroupCap
ChainLen(i) == PieceLen(nTiles, GroupCap, i)

\* The K step of task t of a group of g cells, and the cell's place in the group.
StepOf(t, g) == (t - 1) \div g
PlaceOf(t, g) == ((t - 1) % g) + 1

\* The tasks of a chain, step after step.
ChainTasks(i) ==
    [t \in 1 .. conf.nK * ChainLen(i) |->
        StepTasks(ChainBase(i), ChainLen(i), StepOf(t, ChainLen(i)), ChainMode)
          [PlaceOf(t, ChainLen(i))]]

\* A task keeps an operand only from the task before it.
Follows(ts, len, mode) ==
    \A p \in 1 .. len :
        /\ ts[p].wr => p > 1 /\ WReuse(mode, ts[p - 1].t, ts[p].t)
        /\ ts[p].dr => p > 1 /\ DReuse(mode, ts[p - 1].t, ts[p].t)

\* Where a task of a chain stands.
InChain(t, g) ==
    /\ StepOf(t, g) \in Range0(conf.nK) /\ PlaceOf(t, g) \in 1 .. g
    /\ t = StepOf(t, g) * g + PlaceOf(t, g)
    /\ PlaceOf(t, g) > 1 =>
         t > 1 /\ StepOf(t - 1, g) = StepOf(t, g) /\ PlaceOf(t - 1, g) = PlaceOf(t, g) - 1

\* Every task of a chain of nK steps stands in one.
LEMMA ChainPlaces ==
    ASSUME conf.nK \in Nat \ {0}, NEW g \in Nat \ {0}, NEW t \in Nat \ {0}, t <= conf.nK * g
    PROVE  InChain(t, g)
<1> DEFINE u == t - 1
           k == u \div g
           r == u % g
<1>1. u \in Nat /\ u < conf.nK * g
  <2>1. conf.nK * g \in Nat
    BY ProductNat
  <2> QED BY <2>1
<1>2. k \in Nat /\ r \in 0 .. g - 1 /\ u = k * g + r /\ k \in 0 .. conf.nK - 1
  <2> HIDE DEF u
  <2> QED BY <1>1, DivMod, QuotientBelow
<1>3. StepOf(t, g) = k /\ PlaceOf(t, g) = r + 1
  BY DEF StepOf, PlaceOf
<1>4. ASSUME r > 0 PROVE t > 1 /\ StepOf(t - 1, g) = k /\ PlaceOf(t - 1, g) = r
  <2> DEFINE s == r - 1
  <2>1. s \in Nat /\ s < g
    BY <1>2, <1>4
  <2>2. u - 1 = k * g + s
    BY <1>1, <1>2
  <2>3. k * g \in Nat
    BY <1>2, ProductNat
  <2>4. t > 1
    BY <1>2, <1>4, <2>3
  <2>5. (k * g + s) \div g = k /\ (k * g + s) % g = s
    <3> HIDE DEF k, s
    <3> QED BY <1>2, <2>1, DivOfSum
  <2>6. (t - 1) - 1 = k * g + s
    BY <2>2
  <2>7. ((t - 1) - 1) \div g = k /\ ((t - 1) - 1) % g = s
    BY <2>5, <2>6
  <2> QED BY <1>2, <2>4, <2>7 DEF StepOf, PlaceOf
<1>5. t = k * g + (r + 1)
  <2>1. k * g \in Nat
    BY <1>2, ProductNat
  <2> HIDE DEF k, r
  <2> QED BY <1>2, <2>1
<1> HIDE DEF u, k, r
<1> QED BY <1>2, <1>3, <1>4, <1>5 DEF InChain, Range0

\* All K steps of a group of cells: one job.
LEMMA ChainBatch ==
    ASSUME conf \in Conf, IsChain
    PROVE  /\ GroupCap \in Nat \ {0} /\ N = Pieces(nTiles, GroupCap) /\ N \in Nat \ {0}
           /\ \A i \in 1 .. N :
                 /\ ChainLen(i) \in 1 .. GroupCap /\ ChainBase(i) \in Nat
                 /\ ChainBase(i) + ChainLen(i) <= nTiles
                 /\ ChainLen(i) <= BATCH
                 /\ conf.nK * ChainLen(i) \in 1 .. BATCH
                 /\ Batches[i] =
                      Batch("rc0", ChainTasks(i), {}, {"ping", "pong"}, Final,
                            (conf.nK - 1) * ChainLen(i) + 1
                              .. (conf.nK - 1) * ChainLen(i) + ChainLen(i), TRUE)
<1>0. /\ conf.nK \in Nat \ {0} /\ nTiles \in Nat \ {0} /\ BATCH \in Nat \ {0}
      /\ conf.nK <= BATCH /\ conf.mode = "kacc" /\ ChainEngaged
  BY ConfFacts DEF IsChain, ChainEngaged
<1> DEFINE q == BATCH \div conf.nK
<1>1. q \in Nat \ {0} /\ q * conf.nK <= BATCH
  <2>1. q \in Nat /\ BATCH % conf.nK \in 0 .. conf.nK - 1
        /\ BATCH = q * conf.nK + (BATCH % conf.nK)
    BY <1>0, DivMod
  <2>2. q # 0
    <3> SUFFICES ASSUME q = 0 PROVE FALSE
      OBVIOUS
    <3> DEFINE r == BATCH % conf.nK
    <3>1. q * conf.nK = 0
      BY <1>0
    <3> HIDE DEF q, r
    <3>2. BATCH = q * conf.nK + r /\ r \in 0 .. conf.nK - 1
      BY <2>1 DEF r
    <3> QED BY <1>0, <3>1, <3>2
  <2>3. q * conf.nK \in Nat
    <3> HIDE DEF q
    <3> QED BY <1>0, <2>1, ProductNat
  <2> QED BY <1>0, <2>1, <2>2, <2>3
<1>2. GroupCap = MinOf(nTiles, q)
  BY DEF GroupCap
<1> HIDE DEF q
<1>3. GroupCap \in Nat \ {0} /\ GroupCap <= q
  BY <1>0, <1>1, <1>2 DEF MinOf
<1>4. Pieces(nTiles, GroupCap) \in Nat \ {0}
  BY <1>0, <1>3, PiecesCover
<1>5. Batches = [i \in 1 .. Pieces(nTiles, GroupCap) |->
                   Batch("rc0", ChainTasks(i), {}, {"ping", "pong"}, Final,
                         (conf.nK - 1) * ChainLen(i) + 1
                           .. (conf.nK - 1) * ChainLen(i) + ChainLen(i), TRUE)]
  <2>1. Batches = ChainedBatches
    BY <1>0 DEF Batches
  <2> QED BY <2>1 DEF ChainedBatches, ChainTasks, ChainLen, ChainBase, ChainMode, StepOf, PlaceOf
<1>6. N = Pieces(nTiles, GroupCap)
  BY <1>4, <1>5 DEF N
<1>7. ASSUME NEW i \in 1 .. N
      PROVE  /\ ChainLen(i) \in 1 .. GroupCap /\ ChainBase(i) \in Nat
             /\ ChainBase(i) + ChainLen(i) <= nTiles
  <2>1. i \in 1 .. Pieces(nTiles, GroupCap)
    BY <1>6
  <2> QED BY <1>0, <1>3, <2>1, PiecesCover DEF ChainLen, ChainBase
<1>8. ASSUME NEW i \in 1 .. N
      PROVE  conf.nK * ChainLen(i) \in 1 .. BATCH /\ ChainLen(i) <= BATCH
  <2> DEFINE g == ChainLen(i)
             k == conf.nK
  <2>1. g \in Nat \ {0} /\ g <= q /\ k \in Nat \ {0} /\ q * k <= BATCH
    BY <1>0, <1>1, <1>3, <1>7
  <2> HIDE DEF g, k
  <2>2. g * k <= q * k /\ 1 * k <= g * k /\ 1 * g <= k * g /\ q * k \in Nat /\ g * k \in Nat
        /\ k * g = g * k
    BY <1>1, <2>1, ProductRises, ProductNat
  <2>3. k * g \in 1 .. BATCH /\ g <= BATCH
    BY <1>0, <2>1, <2>2
  <2> QED BY <2>3 DEF g, k
<1> QED BY <1>3, <1>4, <1>5, <1>6, <1>7, <1>8

\* Its tasks.
LEMMA ChainOfTasks ==
    ASSUME conf \in Conf, IsChain, NEW i \in 1 .. N
    PROVE  /\ ChainTasks(i) \in [1 .. conf.nK * ChainLen(i) -> TaskSet]
           /\ Len(ChainTasks(i)) = conf.nK * ChainLen(i)
           /\ \A t \in 1 .. conf.nK * ChainLen(i) :
                 LET k == StepOf(t, ChainLen(i))
                     p == PlaceOf(t, ChainLen(i))
                 IN /\ InChain(t, ChainLen(i))
                    /\ ChainTasks(i)[t].t = GroupTile(ChainBase(i) + p - 1, k, ChainMode)
                    /\ ChainTasks(i)[t].dst = PingPong(k) /\ ChainTasks(i)[t].add = Addend(k)
                    /\ ChainTasks(i)[t].slot = p - 1
           /\ Follows(ChainTasks(i), conf.nK * ChainLen(i), ChainMode)
<1> DEFINE g == ChainLen(i)
           b == ChainBase(i)
           n == conf.nK * g
           ts == ChainTasks(i)
<1>1. /\ g \in Nat \ {0} /\ g \in 0 .. BATCH /\ b \in Nat /\ b + g <= nTiles /\ n \in 1 .. BATCH
      /\ nTiles \in Nat /\ BATCH \in Nat /\ conf.nK \in Nat \ {0}
  <2>1. /\ GroupCap \in Nat /\ ChainLen(i) \in 1 .. GroupCap /\ ChainBase(i) \in Nat
        /\ ChainBase(i) + ChainLen(i) <= nTiles /\ ChainLen(i) <= BATCH
        /\ conf.nK * ChainLen(i) \in 1 .. BATCH
    BY ChainBatch
  <2>2. nTiles \in Nat /\ BATCH \in Nat /\ conf.nK \in Nat \ {0}
    BY ConfFacts
  <2>3. n \in 1 .. BATCH
    BY <2>1
  <2> HIDE DEF n
  <2> QED BY <2>1, <2>2, <2>3
<1>2. ts = [t \in 1 .. n |-> StepTasks(b, g, StepOf(t, g), ChainMode)[PlaceOf(t, g)]]
  BY DEF ChainTasks
<1> HIDE DEF g, b, ts
<1>3. ASSUME NEW t \in 1 .. n PROVE InChain(t, g)
  <2>1. t \in Nat \ {0} /\ t <= conf.nK * g
    BY <1>1
  <2> QED BY <1>1, <2>1, ChainPlaces
<1> HIDE DEF n
<1>4. ASSUME NEW k \in Range0(conf.nK)
      PROVE  LET js == StepTasks(b, g, k, ChainMode)
             IN /\ js \in [1 .. g -> TaskSet]
                /\ \A p \in 1 .. g :
                      /\ js[p].t = GroupTile(b + p - 1, k, ChainMode)
                      /\ js[p].dst = PingPong(k) /\ js[p].add = Addend(k) /\ js[p].slot = p - 1
                      /\ js[p].wr => p > 1 /\ WReuse(ChainMode, GroupTile(b + (p - 1) - 1, k, ChainMode),
                                                     js[p].t)
                      /\ js[p].dr => p > 1 /\ DReuse(ChainMode, GroupTile(b + (p - 1) - 1, k, ChainMode),
                                                     js[p].t)
  <2> DEFINE tiles == [p \in 1 .. g |-> GroupTile(b + p - 1, k, ChainMode)]
  <2>1. ASSUME NEW p \in 1 .. g PROVE GroupTile(b + p - 1, k, ChainMode) \in TileSet
    <3>1. b + p - 1 \in 0 .. nTiles - 1
      BY <1>1
    <3> QED BY <3>1, GroupTiles
  <2>2. tiles \in [1 .. g -> TileSet]
    BY <2>1
  <2>3. \A p \in 1 .. g : tiles[p] = GroupTile(b + p - 1, k, ChainMode)
    OBVIOUS
  <2>4. k \in Nat
    BY <1>1 DEF Range0
  <2>5. PingPong(k) \in OutBufs /\ Addend(k) \in {"none", "ping", "pong"}
    BY <2>4, PingPongType DEF OutBufs
  <2>6. StepTasks(b, g, k, ChainMode) = JobTasks(tiles, PingPong(k), Addend(k), ChainMode)
    BY DEF StepTasks
  <2> HIDE DEF tiles
  <2> DEFINE js == JobTasks(tiles, PingPong(k), Addend(k), ChainMode)
  <2>7. IsJob(js, g, tiles, PingPong(k), Addend(k), ChainMode)
    <3>1. g \in 0 .. BATCH /\ BATCH \in Nat
      BY <1>1
    <3> QED BY <2>2, <2>5, <3>1, TasksOfJob
  <2> HIDE DEF js
  <2>8. \A p \in 1 .. g : p > 1 => p - 1 \in 1 .. g
    BY <1>1
  <2>9. \A p \in 1 .. g : p > 1 => tiles[p - 1] = GroupTile(b + (p - 1) - 1, k, ChainMode)
    BY <2>3, <2>8
  <2> QED BY <2>3, <2>6, <2>7, <2>9 DEF js, IsJob
<1>5. ASSUME NEW t \in 1 .. n
      PROVE  /\ ts[t] = StepTasks(b, g, StepOf(t, g), ChainMode)[PlaceOf(t, g)]
             /\ StepOf(t, g) \in Range0(conf.nK) /\ PlaceOf(t, g) \in 1 .. g
  BY <1>2, <1>3 DEF InChain
<1>6. ts \in [1 .. n -> TaskSet] /\ Len(ts) = n
  <2>1. \A t \in 1 .. n : ts[t] \in TaskSet
    BY <1>4, <1>5
  <2> QED BY <1>1, <1>2, <2>1
<1>7. ASSUME NEW t \in 1 .. n
      PROVE  /\ ts[t].t = GroupTile(b + PlaceOf(t, g) - 1, StepOf(t, g), ChainMode)
             /\ ts[t].dst = PingPong(StepOf(t, g)) /\ ts[t].add = Addend(StepOf(t, g))
             /\ ts[t].slot = PlaceOf(t, g) - 1
  BY <1>4, <1>5
<1>8. ASSUME NEW t \in 1 .. n
      PROVE  /\ ts[t].wr => t > 1 /\ WReuse(ChainMode, ts[t - 1].t, ts[t].t)
             /\ ts[t].dr => t > 1 /\ DReuse(ChainMode, ts[t - 1].t, ts[t].t)
  <2> DEFINE p == PlaceOf(t, g)
             k == StepOf(t, g)
             before == GroupTile(b + (p - 1) - 1, k, ChainMode)
  <2>1. /\ ts[t].wr => p > 1 /\ WReuse(ChainMode, before, ts[t].t)
        /\ ts[t].dr => p > 1 /\ DReuse(ChainMode, before, ts[t].t)
    BY <1>4, <1>5
  <2>2. p > 1 => t > 1 /\ StepOf(t - 1, g) = k /\ PlaceOf(t - 1, g) = p - 1
    BY <1>3 DEF InChain
  <2>3. t > 1 => t - 1 \in 1 .. n
    BY <1>1
  <2>4. p > 1 => t > 1 /\ ts[t - 1].t = before
    BY <1>7, <2>2, <2>3
  <2> HIDE DEF p, k, before
  <2> QED BY <2>1, <2>4
<1>9. Follows(ts, n, ChainMode)
  BY <1>6, <1>8 DEF Follows
<1> QED BY <1>3, <1>6, <1>7, <1>9 DEF ts, g, b, n

\* The batches stay what they are as long as the configuration does.
LEMMA ConfSame ==
    ASSUME conf' = conf
    PROVE  Batches' = Batches /\ N' = N
<1>1. \A tiles, dst, add, mode :
        JobTasks(tiles, dst, add, mode)' = JobTasks(tiles, dst, add, mode)
  BY DEF JobTasks, WReuse, DReuse, Dims, Task
<1>2. \A order, mode, chained, pairs :
        HostSum(order, mode, chained, pairs)' = HostSum(order, mode, chained, pairs)
  BY <1>1 DEF HostSum, Total, nTiles
<1>c. nTiles' = nTiles /\ conf'.nK = conf.nK /\ GroupCap' = GroupCap /\ Final' = Final
  BY DEF nTiles, GroupCap, Final
<1>m. \A chained : ReuseMode(chained)' = ReuseMode(chained)
  BY DEF ReuseMode, ReuseOk
<1>3. ASSUME NEW b, NEW g, NEW k, NEW mode
      PROVE  StepTasks(b, g, k, mode)' = StepTasks(b, g, k, mode)
  <2>1. \A tile : GroupTile(tile, k, mode)' = GroupTile(tile, k, mode)
    BY DEF GroupTile
  <2>2. [p \in 1 .. g |-> GroupTile(b + p - 1, k, mode)]'
          = [p \in 1 .. g |-> GroupTile(b + p - 1, k, mode)]
    BY <2>1
  <2> QED BY <1>1, <2>2 DEF StepTasks, PingPong, Addend
<1>4. \A mode, chained : SteppedBatches(mode, chained)' = SteppedBatches(mode, chained)
  BY <1>3 DEF SteppedBatches, nTiles
<1>5. ChainedBatches' = ChainedBatches
  <2>1. \A x, y, z, mode, q : StepTasks(x, y, z, mode)[q]' = StepTasks(x, y, z, mode)[q]
    BY <1>3
  <2> DEFINE mode == ReuseMode(TRUE)
             step(i, g, t) == StepTasks((i - 1) * GroupCap, g, (t - 1) \div g, mode)[((t - 1) % g) + 1]
             made(i, g) == [t \in 1 .. conf.nK * g |-> step(i, g, t)]
  <2>2. ASSUME NEW i, NEW g, NEW t PROVE step(i, g, t)' = step(i, g, t)
    <3> DEFINE x == (i - 1) * GroupCap
               z == (t - 1) \div g
               q == ((t - 1) % g) + 1
    <3>1. x' = x
      BY <1>c
    <3>2. z' = z /\ q' = q
      OBVIOUS
    <3>m. mode' = mode
      BY <1>m
    <3>3. /\ step(i, g, t) = StepTasks(x, g, z, mode)[q]
          /\ step(i, g, t)' = StepTasks(x, g, z, mode)[q]'
      OBVIOUS
    <3> HIDE DEF x, z, q, mode, step
    <3> QED BY <2>1, <3>1, <3>2, <3>m, <3>3
  <2> HIDE DEF step
  <2>3. ASSUME NEW i, NEW g PROVE made(i, g)' = made(i, g)
    BY <1>c, <2>2
  <2> DEFINE g(i) == PieceLen(nTiles, GroupCap, i)
             last(i) == (conf.nK - 1) * g(i)
             whole == [i \in 1 .. Pieces(nTiles, GroupCap) |->
                         Batch("rc0", made(i, g(i)), {}, {"ping", "pong"}, Final,
                               last(i) + 1 .. last(i) + g(i), TRUE)]
  <2>4. ChainedBatches = whole /\ ChainedBatches' = whole'
    BY DEF ChainedBatches, step
  <2> HIDE DEF made
  <2>5. whole' = whole
    BY <1>c, <2>3 DEF Pieces, PieceLen, MinOf, Batch
  <2> QED BY <2>4, <2>5
<1>6. SerialBatches' = SerialBatches /\ PipeBatches' = PipeBatches
  <2>1. OracleOrder' = OracleOrder /\ conf'.chained = conf.chained
    BY DEF OracleOrder, Total, nTiles
  <2>2. HostSum(OracleOrder, 0, conf.chained, 1)' = HostSum(OracleOrder, 0, conf.chained, 1)
    BY <1>2, <2>1
  <2>3. HostSum(OracleOrder, 0, FALSE, 2)' = HostSum(OracleOrder, 0, FALSE, 2)
    BY <1>2, <2>1
  <2> QED BY <2>2, <2>3 DEF SerialBatches, PipeBatches
<1>7. ReuseBatches' = ReuseBatches
  <2> DEFINE m == ReuseMode(FALSE)
             order == IF m = 1 THEN WeightOrder ELSE DataOrder
  <2>1. WeightOrder' = WeightOrder /\ DataOrder' = DataOrder
    BY DEF WeightOrder, DataOrder, Total, nTiles
  <2>2. m' = m /\ order' = order
    BY <1>m, <2>1
  <2>3. ReuseBatches = HostSum(order, m, FALSE, 1) /\ ReuseBatches' = HostSum(order, m, FALSE, 1)'
    BY DEF ReuseBatches
  <2> HIDE DEF m, order
  <2> QED BY <1>2, <2>2, <2>3
<1>8. CubeBatches' = CubeBatches
  BY <1>4 DEF CubeBatches, ReuseOk
<1>9. Batches' = Batches
  BY <1>4, <1>5, <1>6, <1>7, <1>8 DEF Batches, ReuseMode, ReuseOk, ChainEngaged, nTiles
<1> QED BY <1>9 DEF N

-----------------------------------------------------------------------------
(* What every batch is.                                                    *)

\* The output buffer that goes with a register-command buffer, and the reuse
\* mode of the program.
OutOf(r) == IF r = "rc0" THEN "out0" ELSE "out1"
RunMode == IF IsChain THEN ChainMode ELSE IF IsHost THEN HostMode ELSE StepMode

\* A job that is no chain: its length, its tiles, where its tasks write and
\* what they add to.
FlatLen(i) == IF IsHost THEN HostLen(i) ELSE StepLen(i)
FlatTiles(i) ==
    IF IsHost THEN HostTiles(i) ELSE StepTiles(StepBase(i), StepLen(i), KOf(i), StepMode)
FlatDst(i) == IF IsHost THEN HostDst(i) ELSE PingPong(KOf(i))
FlatAdd(i) == IF IsHost THEN "none" ELSE Addend(KOf(i))
FlatReads(i) ==
    IF IsHost THEN 1 .. HostLen(i) ELSE IF KOf(i) = conf.nK - 1 THEN 1 .. StepLen(i) ELSE {}

\* A batch that is no chain is a job of these tiles.
LEMMA FlatBatch ==
    ASSUME conf \in Conf, ~IsChain, NEW i \in 1 .. N
    PROVE  /\ FlatLen(i) \in 1 .. BATCH
           /\ FlatTiles(i) \in [1 .. FlatLen(i) -> TileSet]
           /\ FlatDst(i) \in OutBufs /\ FlatAdd(i) \in {"none", "ping", "pong"}
           /\ FlatAdd(i) # FlatDst(i)
           /\ IsJob(Batches[i].tasks, FlatLen(i), FlatTiles(i), FlatDst(i), FlatAdd(i), RunMode)
           /\ Batches[i].rc = IF IsHost THEN HostRc(i) ELSE "rc0"
           /\ Batches[i].ins = {FlatAdd(i)} \ {"none"}
           /\ Batches[i].outs = {FlatDst(i)} /\ Batches[i].wait = FlatDst(i)
           /\ Batches[i].reads = FlatReads(i)
           /\ Batches[i].chained = IF IsHost THEN HostChained ELSE conf.chained
<1>0. BATCH \in Nat \ {0}
  BY ConfFacts
<1>1. CASE IsHost
  <2> USE <1>1
  <2>1. /\ HostLen(i) \in 1 .. BATCH /\ HostTiles(i) \in [1 .. HostLen(i) -> TileSet]
        /\ HostDst(i) \in {"out0", "out1"}
        /\ Batches[i] = Batch(HostRc(i), JobTasks(HostTiles(i), HostDst(i), "none", HostMode),
                              {}, {HostDst(i)}, HostDst(i), 1 .. HostLen(i), HostChained)
    BY HostBatch
  <2>2. HostDst(i) \in OutBufs /\ HostLen(i) \in 0 .. BATCH
    BY <1>0, <2>1 DEF OutBufs
  <2>3. IsJob(JobTasks(HostTiles(i), HostDst(i), "none", HostMode), HostLen(i), HostTiles(i),
              HostDst(i), "none", HostMode)
    BY <1>0, <2>1, <2>2, TasksOfJob
  <2> QED BY <2>1, <2>2, <2>3 DEF Batch, FlatLen, FlatTiles, FlatDst, FlatAdd, FlatReads, RunMode
<1>2. CASE ~IsHost
  <2> USE <1>2
  <2>1. IsStepped
    BY ConfFacts DEF IsStepped, IsHost, NpuSums
  <2> DEFINE k == KOf(i)
             tiles == StepTiles(StepBase(i), StepLen(i), k, StepMode)
  <2>2. /\ StepLen(i) \in 1 .. BATCH /\ tiles \in [1 .. StepLen(i) -> TileSet]
        /\ k \in Range0(conf.nK)
        /\ Batches[i] = Batch("rc0", JobTasks(tiles, PingPong(k), Addend(k), StepMode),
                              {Addend(k)} \ {"none"}, {PingPong(k)}, PingPong(k),
                              IF k = conf.nK - 1 THEN 1 .. StepLen(i) ELSE {}, conf.chained)
    BY <2>1, StepBatch
  <2>3. k \in Nat
    BY <2>2, ConfFacts DEF Range0
  <2>4. /\ FlatLen(i) = StepLen(i) /\ FlatTiles(i) = tiles
        /\ FlatDst(i) = PingPong(k) /\ FlatAdd(i) = Addend(k)
        /\ FlatReads(i) = IF k = conf.nK - 1 THEN 1 .. StepLen(i) ELSE {}
    BY DEF FlatLen, FlatTiles, FlatDst, FlatAdd, FlatReads
  <2> HIDE DEF k, tiles
  <2>5. PingPong(k) \in OutBufs /\ Addend(k) \in {"none", "ping", "pong"} /\ Addend(k) # PingPong(k)
    <3>1. k > 0 => k - 1 \in Nat /\ (k - 1) + 1 = k
      BY <2>3
    <3>2. k > 0 => PingPong(k - 1) # PingPong(k)
      BY <3>1, PingPongType
    <3> QED BY <2>3, <3>2, PingPongType DEF OutBufs
  <2>6. StepLen(i) \in 0 .. BATCH
    BY <1>0, <2>2
  <2>7. IsJob(JobTasks(tiles, PingPong(k), Addend(k), StepMode), StepLen(i), tiles,
              PingPong(k), Addend(k), StepMode)
    BY <1>0, <2>2, <2>5, <2>6, TasksOfJob
  <2> QED BY <2>2, <2>4, <2>5, <2>7 DEF Batch, RunMode
<1> QED BY <1>1, <1>2

\* What the host needs of a batch: slots that exist, programs that fit, and
\* buffers in one of the fence's lists only.
IsBatch(i, b) ==
    /\ b.rc \in RcBufs /\ Len(b.tasks) \in 1 .. BATCH
    /\ b.tasks \in [1 .. Len(b.tasks) -> TaskSet]
    /\ b.ins \cap b.outs = {} /\ b.wait \in b.outs
    /\ b.reads \subseteq 1 .. Len(b.tasks) /\ b.chained \in BOOLEAN
    /\ \A p \in 1 .. Len(b.tasks) :
          /\ b.tasks[p].slot < Slots(b.tasks[p].dst)
          /\ ~IsChain => b.tasks[p].slot = p - 1
          /\ IsHost => b.tasks[p].dst = OutOf(b.rc) /\ b.tasks[p].add = "none"
    /\ IsChain => b.chained
    /\ Keeps(b.chained, RunMode) /\ Follows(b.tasks, Len(b.tasks), RunMode)
    /\ ~IsHost => b.rc = "rc0"
    /\ IsHost => b.rc = HostRc(i) /\ b.wait = OutOf(b.rc)

\* Every batch of every program is such a batch.
LEMMA BatchFacts ==
    ASSUME conf \in Conf, NEW i \in 1 .. N
    PROVE  IsBatch(i, Batches[i])
<1>0. /\ BATCH \in Nat \ {0} /\ nTiles \in Nat \ {0}
      /\ conf.nM \in Nat \ {0} /\ conf.nN \in Nat \ {0} /\ conf.nK \in Nat \ {0}
  BY ConfFacts
<1>c. conf.chained \in BOOLEAN /\ conf.streams \in BOOLEAN /\ conf.oneJob \in BOOLEAN
  BY ExecAssumption DEF IsConf
<1>1. CASE IsChain
  <2> DEFINE g == ChainLen(i)
             n == conf.nK * g
             ts == ChainTasks(i)
  <2> USE <1>1
  <2>1. /\ GroupCap \in Nat /\ g \in 1 .. GroupCap /\ g <= BATCH /\ n \in 1 .. BATCH
        /\ ChainBase(i) \in Nat /\ ChainBase(i) + g <= nTiles
        /\ Batches[i] = Batch("rc0", ts, {}, {"ping", "pong"}, Final,
                              (conf.nK - 1) * g + 1 .. (conf.nK - 1) * g + g, TRUE)
    BY ChainBatch
  <2>2. ts \in [1 .. n -> TaskSet] /\ Len(ts) = n /\ Follows(ts, n, ChainMode)
    BY ChainOfTasks
  <2>3. ASSUME NEW t \in 1 .. n
        PROVE  /\ ts[t].dst \in {"ping", "pong"} /\ ts[t].slot \in 0 .. g - 1
    <3> DEFINE k == StepOf(t, g)
               p == PlaceOf(t, g)
    <3>1. InChain(t, g) /\ ts[t].dst = PingPong(k) /\ ts[t].slot = p - 1
      BY ChainOfTasks
    <3>2. k \in Nat /\ p \in 1 .. g
      BY <1>0, <3>1 DEF InChain, Range0
    <3> HIDE DEF k, p
    <3>3. PingPong(k) \in {"ping", "pong"}
      BY <3>2, PingPongType
    <3> QED BY <2>1, <3>1, <3>2, <3>3
  <2>4. (conf.nK - 1) * g \in Nat /\ (conf.nK - 1) * g + g = n
    <3>1. g \in Nat /\ conf.nK - 1 \in Nat
      BY <1>0, <2>1
    <3>2. (conf.nK - 1) * g + g = conf.nK * g
      BY <1>0, <3>1
    <3> QED BY <3>1, <3>2, ProductNat
  <2>5. (conf.nK - 1) * g + 1 .. (conf.nK - 1) * g + g \subseteq 1 .. n
    <3> DEFINE l == (conf.nK - 1) * g
    <3>1. l \in Nat /\ l + g = n
      BY <2>4
    <3> HIDE DEF l, n, g
    <3>2. l + 1 .. l + g \subseteq 1 .. n
      BY <2>1, <3>1
    <3> QED BY <3>2 DEF l
  <2>6. Keeps(TRUE, ChainMode)
    BY ModeKeeps DEF ChainMode
  <2>7. Final \in {"ping", "pong"}
    <3>1. conf.nK - 1 \in Nat
      BY <1>0
    <3> QED BY <3>1, PingPongType DEF Final
  <2>8. \A t \in 1 .. n : ts[t].slot < Slots(ts[t].dst)
    <3> HIDE DEF n, ts
    <3>1. g <= nTiles
      <4> HIDE DEF g
      <4> QED BY <1>0, <2>1
    <3> HIDE DEF g
    <3> QED BY <1>0, <2>1, <2>3, <3>1 DEF Slots, MinOf
  <2>9. ~IsHost
    BY DEF IsChain, IsHost
  <2> HIDE DEF g, n, ts
  <2>10. /\ Batches[i].rc = "rc0" /\ Batches[i].tasks = ts /\ Batches[i].ins = {}
         /\ Batches[i].outs = {"ping", "pong"} /\ Batches[i].wait = Final
         /\ Batches[i].reads \subseteq 1 .. n /\ Batches[i].chained = TRUE
    BY <2>1, <2>5 DEF Batch
  <2> QED BY <2>1, <2>2, <2>6, <2>7, <2>8, <2>9, <2>10 DEF IsBatch, RunMode, RcBufs
<1>2. CASE ~IsChain
  <2> USE <1>2
  <2> DEFINE b == Batches[i]
             l == FlatLen(i)
  <2>1. /\ l \in 1 .. BATCH /\ FlatDst(i) \in OutBufs
        /\ FlatAdd(i) \in {"none", "ping", "pong"} /\ FlatAdd(i) # FlatDst(i)
        /\ IsJob(b.tasks, l, FlatTiles(i), FlatDst(i), FlatAdd(i), RunMode)
        /\ b.rc = IF IsHost THEN HostRc(i) ELSE "rc0"
        /\ b.ins = {FlatAdd(i)} \ {"none"} /\ b.outs = {FlatDst(i)} /\ b.wait = FlatDst(i)
        /\ b.reads = FlatReads(i) /\ b.chained = IF IsHost THEN HostChained ELSE conf.chained
    BY FlatBatch
  <2> HIDE DEF b
  <2>2. /\ b.tasks \in [1 .. l -> TaskSet] /\ Len(b.tasks) = l
        /\ \A p \in 1 .. l : /\ b.tasks[p].t = FlatTiles(i)[p] /\ b.tasks[p].dst = FlatDst(i)
                             /\ b.tasks[p].slot = p - 1 /\ b.tasks[p].add = FlatAdd(i)
    BY <2>1 DEF IsJob
  <2>3. Follows(b.tasks, Len(b.tasks), RunMode)
    <3>1. ASSUME NEW p \in 1 .. l
          PROVE  /\ b.tasks[p].wr => p > 1 /\ WReuse(RunMode, b.tasks[p - 1].t, b.tasks[p].t)
                 /\ b.tasks[p].dr => p > 1 /\ DReuse(RunMode, b.tasks[p - 1].t, b.tasks[p].t)
      <4>1. p > 1 => p - 1 \in 1 .. l
        BY <1>0, <2>1
      <4> QED BY <2>1, <2>2, <4>1 DEF IsJob
    <3> QED BY <2>2, <3>1 DEF Follows
  <2>4. b.reads \subseteq 1 .. l
    BY <2>1 DEF FlatReads, FlatLen
  <2>5. b.chained \in BOOLEAN /\ Keeps(b.chained, RunMode)
    <3>1. CASE IsHost
      <4>1. CASE conf.mode = "reuse"
        <5>1. HostChained = FALSE /\ RunMode = ReuseMode(FALSE)
          BY <3>1, <4>1 DEF HostChained, RunMode, HostMode
        <5> QED BY <2>1, <3>1, <5>1, ModeKeeps
      <4>2. CASE conf.mode # "reuse"
        <5>1. HostChained \in BOOLEAN /\ RunMode = 0
          BY <1>c, <3>1, <4>2 DEF HostChained, RunMode, HostMode
        <5> QED BY <2>1, <3>1, <5>1 DEF Keeps
      <4> QED BY <4>1, <4>2
    <3>2. CASE ~IsHost
      <4>1. RunMode = StepMode /\ b.chained = conf.chained
        BY <2>1, <3>2 DEF RunMode
      <4> QED BY <1>c, <4>1, ModeKeeps DEF StepMode, Keeps, ReuseOk
    <3> QED BY <3>1, <3>2
  <2>6. \A p \in 1 .. l : b.tasks[p].slot < Slots(b.tasks[p].dst)
    <3>1. CASE IsHost
      <4>1. FlatDst(i) \in {"out0", "out1"}
        BY <3>1, HostBatch DEF FlatDst
      <4> QED BY <1>0, <2>1, <2>2, <4>1 DEF Slots
    <3>2. CASE ~IsHost
      <4>1. IsStepped
        BY <3>2, ConfFacts DEF IsStepped, IsHost, NpuSums
      <4>2. StepLen(i) <= BATCH /\ StepLen(i) <= nTiles
        <5>1. StepLen(i) \in 1 .. BATCH /\ StepBase(i) \in Nat /\ StepBase(i) + StepLen(i) <= nTiles
          BY <4>1, StepBatch
        <5> QED BY <1>0, <5>1
      <4>3. l = StepLen(i)
        BY <3>2 DEF FlatLen
      <4> QED BY <1>0, <2>1, <2>2, <4>2, <4>3 DEF Slots, MinOf
    <3> QED BY <3>1, <3>2
  <2>7. IsHost => b.wait = OutOf(b.rc) /\ FlatAdd(i) = "none" /\ b.rc \in RcBufs
    <3> SUFFICES ASSUME IsHost PROVE HostDst(i) = OutOf(HostRc(i)) /\ HostRc(i) \in RcBufs
      BY <2>1 DEF FlatDst, FlatAdd
    <3>1. (i - 1) % Pairs \in 0 .. 1
      BY HostBatch DEF Pairs
    <3> QED BY <3>1 DEF HostRc, HostDst, OutOf, RcBufs
  <2> HIDE DEF l
  <2>8. IsBatch(i, b)
    BY <2>1, <2>2, <2>3, <2>4, <2>5, <2>6, <2>7, <1>2 DEF IsBatch, RcBufs
  <2> QED BY <2>8 DEF b
<1> QED BY <1>1, <1>2

-----------------------------------------------------------------------------
(* What the part does with the tasks of a job.                             *)

\* What may be in an output buffer, and in the part at work.
Operand == {Unknown} \cup {Data(t) : t \in TileSet} \cup {Weight(t) : t \in TileSet}
Sums == Seq(Operand \X Operand)
Memory == [OutBufs -> [Pos -> Sums]]
Machine == [out : Memory, d : Operand, w : Operand, chained : BOOLEAN]

\* What a fresh call finds in a slot is a sum, of something lost.
LEMMA OldType == Old \in Sums
<1>1. <<Unknown, Unknown>> \in Operand \X Operand
  BY DEF Operand
<1> QED BY <1>1 DEF Old, Sums

\* A memory with one more sum in it.
LEMMA StoreType ==
    ASSUME NEW o \in Memory, NEW b \in OutBufs, NEW p \in Pos, NEW v \in Sums
    PROVE  /\ [o EXCEPT ![b][p] = v] \in Memory
           /\ \A c \in OutBufs, q \in Pos :
                 [o EXCEPT ![b][p] = v][c][q] = IF c = b /\ q = p THEN v ELSE o[c][q]
BY DEF Memory

\* The part stays a part.
LEMMA ExecType ==
    ASSUME conf \in Conf, NEW m \in Machine, NEW t \in TaskSet
    PROVE  Exec(m, t) \in Machine
<1> DEFINE d == IF t.dr THEN m.d ELSE Data(t.t)
           w == IF t.wr THEN m.w ELSE Weight(t.t)
           old == IF t.add = "none" THEN <<>>
                  ELSE IF t.add = t.dst THEN Old ELSE m.out[t.add][t.slot]
           v == Append(old, <<d, w>>)
<1>1. m.out \in Memory /\ m.d \in Operand /\ m.w \in Operand /\ m.chained \in BOOLEAN
  BY DEF Machine
<1>2. t.t \in TileSet /\ t.dst \in OutBufs /\ t.slot \in Pos /\ t.add \in {"none", "ping", "pong"}
  BY DEF TaskSet
<1>3. d \in Operand /\ w \in Operand /\ Unknown \in Operand
  BY <1>1, <1>2 DEF Operand
<1>4. old \in Sums
  <2>1. m.out[t.dst][t.slot] \in Sums /\ \A b \in {"ping", "pong"} : m.out[b][t.slot] \in Sums
    BY <1>1, <1>2 DEF Memory, OutBufs
  <2>2. <<>> \in Sums
    BY DEF Sums
  <2> QED BY <1>2, <2>1, <2>2, OldType
<1> HIDE DEF d, w, old
<1>5. v \in Sums
  BY <1>3, <1>4 DEF Sums
<1> HIDE DEF v
<1>6. [m.out EXCEPT ![t.dst][t.slot] = v] \in Memory
  BY <1>1, <1>2, <1>5, StoreType
<1>7. Exec(m, t) = [out |-> [m.out EXCEPT ![t.dst][t.slot] = v],
                    d |-> IF conf.oneJob \/ m.chained THEN d ELSE Unknown,
                    w |-> IF (conf.oneJob \/ m.chained) /\ ~conf.streams THEN w ELSE Unknown,
                    chained |-> m.chained]
  BY DEF Exec, d, w, old, v
<1> QED BY <1>1, <1>3, <1>6, <1>7 DEF Machine

\* ran[k] is the part after k of the tasks.
Start(chained) == [out |-> out, d |-> Unknown, w |-> Unknown, chained |-> chained]

\* ran[k] is the part after k tasks.
Runs(ran, tasks, chained) ==
    /\ chained \in BOOLEAN /\ Len(tasks) \in Nat /\ tasks \in [1 .. Len(tasks) -> TaskSet]
    /\ ran \in [0 .. Len(tasks) -> Machine]
    /\ ran[0] = Start(chained)
    /\ \A k \in 1 .. Len(tasks) : ran[k] = Exec(ran[k - 1], tasks[k])

\* A job runs task by task.
LEMMA JobRuns ==
    ASSUME conf \in Conf, out \in Memory, NEW chained \in BOOLEAN,
           NEW tasks, Len(tasks) \in Nat, tasks \in [1 .. Len(tasks) -> TaskSet]
    PROVE  \E ran : Runs(ran, tasks, chained) /\ AfterTasks(tasks, chained) = ran[Len(tasks)]
<1> DEFINE n == Len(tasks)
           step == [k \in 1 .. n |-> [m \in Machine |-> Exec(m, tasks[k])]]
           base == Start(chained)
<1>n. n \in Nat /\ tasks \in [1 .. n -> TaskSet]
  OBVIOUS
<1> HIDE DEF n
<1>1. IsStep(n, Machine, step)
  <2> SUFFICES ASSUME NEW k \in 1 .. n, NEW m \in Machine PROVE Exec(m, tasks[k]) \in Machine
    BY DEF IsStep
  <2> QED BY <1>n, ExecType
<1>2. base \in Machine
  BY DEF Start, Machine, Operand
<1>3. PICK f : Computes(f, n, Machine, base, step)
  <2> HIDE DEF step, base
  <2> QED BY <1>1, <1>2, <1>n, StepByStep
<1>4. f = [k \in 0 .. n |-> IF k = 0 THEN base ELSE Exec(f[k - 1], tasks[k])]
  <2>1. f \in [0 .. n -> Machine] /\ f[0] = base /\ \A k \in 1 .. n : f[k] = step[k][f[k - 1]]
    BY <1>3 DEF Computes
  <2>2. ASSUME NEW k \in 1 .. n PROVE f[k] = Exec(f[k - 1], tasks[k])
    <3>1. k - 1 \in 0 .. n
      BY <1>n
    <3>2. f[k - 1] \in Machine
      BY <2>1, <3>1
    <3> QED BY <2>1, <3>2
  <2>3. \A k \in 0 .. n : k # 0 => k \in 1 .. n
    BY <1>n
  <2> HIDE DEF base, step
  <2> QED BY <2>1, <2>2, <2>3
<1>5. PICK ran : /\ ran = [k \in 0 .. n |-> IF k = 0 THEN base ELSE Exec(ran[k - 1], tasks[k])]
                 /\ AfterTasks(tasks, chained) = ran[n]
  BY <1>4 DEF AfterTasks, Start, n
<1> HIDE DEF base, step
<1> DEFINE P == {k \in 0 .. n : ran[k] \in Machine}
<1>6. 0 \in P
  BY <1>2, <1>5, <1>n
<1>7. ASSUME NEW k \in 1 .. n PROVE ran[k] = Exec(ran[k - 1], tasks[k])
  <2>1. k \in 0 .. n /\ k # 0
    BY <1>n
  <2> QED BY <1>5, <2>1
<1>8. ASSUME NEW k \in 0 .. n - 1, k \in P PROVE k + 1 \in P
  <2>1. k + 1 \in 1 .. n /\ k + 1 \in 0 .. n /\ (k + 1) - 1 = k
    BY <1>n
  <2>2. ran[k + 1] = Exec(ran[k], tasks[k + 1])
    BY <1>7, <2>1
  <2>3. ran[k] \in Machine /\ tasks[k + 1] \in TaskSet
    BY <1>8, <1>n, <2>1
  <2>4. ran[k + 1] \in Machine
    BY <2>2, <2>3, ExecType
  <2> QED BY <2>1, <2>4
<1>9. \A k \in 0 .. n : k \in P
  <2> HIDE DEF P
  <2> QED BY <1>6, <1>8, <1>n, UpTo
<1>10. ran \in [0 .. n -> Machine] /\ ran[0] = base
  <2>1. 0 \in 0 .. n
    BY <1>n
  <2> QED BY <1>5, <1>9, <2>1
<1> QED BY <1>5, <1>7, <1>10 DEF Runs, n, base

\* What a task reads, what it adds to, and what it stores.
DataOf(m, t) == IF t.dr THEN m.d ELSE Data(t.t)
WeightOf(m, t) == IF t.wr THEN m.w ELSE Weight(t.t)
AddsTo(o, t) ==
    IF t.add = "none" THEN <<>> ELSE IF t.add = t.dst THEN Old ELSE o[t.add][t.slot]
Stored(o, t, v) == [o EXCEPT ![t.dst][t.slot] = v]
Pair(t) == <<Data(t), Weight(t)>>

\* The parts of Exec.
LEMMA ExecParts ==
    ASSUME NEW m, NEW t
    PROVE  /\ Exec(m, t).out = Stored(m.out, t, Append(AddsTo(m.out, t), <<DataOf(m, t), WeightOf(m, t)>>))
           /\ Exec(m, t).d = IF conf.oneJob \/ m.chained THEN DataOf(m, t) ELSE Unknown
           /\ Exec(m, t).w = IF (conf.oneJob \/ m.chained) /\ ~conf.streams THEN WeightOf(m, t)
                             ELSE Unknown
           /\ Exec(m, t).chained = m.chained
BY DEF Exec, DataOf, WeightOf, AddsTo, Stored

\* Whatever the tasks after them are, the first tasks of a job multiply their
\* own operands: a kept one is equal to the one it stands for.
Own(tasks, len, chained) ==
    /\ len \in 0 .. Len(tasks)
    /\ \E mode : Keeps(chained, mode) /\ Follows(tasks, len, mode)

\* They multiply the operands of their own tiles.
LEMMA OwnOperands ==
    ASSUME conf \in Conf, NEW chained, NEW tasks, NEW ran, Runs(ran, tasks, chained),
           NEW len, Own(tasks, len, chained)
    PROVE  \A k \in 1 .. len :
             ran[k].out = Stored(ran[k - 1].out, tasks[k],
                                 Append(AddsTo(ran[k - 1].out, tasks[k]), Pair(tasks[k].t)))
<1>m. PICK mode : Keeps(chained, mode) /\ Follows(tasks, len, mode)
  BY DEF Own
<1>t. /\ chained \in BOOLEAN /\ Len(tasks) \in Nat /\ tasks \in [1 .. Len(tasks) -> TaskSet]
      /\ len \in 0 .. Len(tasks) /\ len \in Nat
  BY DEF Own, Runs
<1> DEFINE Kept(k) == /\ ran[k].chained = chained
                      /\ k > 0 /\ mode = 2 => ran[k].d = Data(tasks[k].t)
                      /\ k > 0 /\ mode = 1 => ran[k].w = Weight(tasks[k].t)
           P == {k \in 0 .. len : Kept(k)}
<1>0. conf.oneJob \in BOOLEAN /\ conf.streams \in BOOLEAN
  BY ExecAssumption DEF IsConf
<1>1. 0 \in P
  BY <1>t DEF Runs, Start
<1>2. ASSUME NEW k \in 0 .. len - 1, k \in P
      PROVE  /\ DataOf(ran[k], tasks[k + 1]) = Data(tasks[k + 1].t)
             /\ WeightOf(ran[k], tasks[k + 1]) = Weight(tasks[k + 1].t)
             /\ k + 1 \in P
             /\ ran[k + 1] = Exec(ran[k], tasks[k + 1])
  <2> DEFINE t == tasks[k + 1]
  <2>1. k + 1 \in 1 .. Len(tasks) /\ k + 1 \in 1 .. len /\ k + 1 \in 0 .. len /\ (k + 1) - 1 = k
        /\ k \in Nat
    BY <1>t
  <2>2. ran[k + 1] = Exec(ran[k], t)
    BY <2>1 DEF Runs
  <2>3. /\ t.wr => k > 0 /\ WReuse(mode, tasks[k].t, t.t)
        /\ t.dr => k > 0 /\ DReuse(mode, tasks[k].t, t.t)
    BY <1>m, <2>1 DEF Follows
  <2>4. DataOf(ran[k], t) = Data(t.t)
    <3>1. CASE t.dr
      <4>1. ran[k].d = Data(tasks[k].t)
        BY <1>2, <2>3, <3>1 DEF DReuse
      <4>2. Data(tasks[k].t) = Data(t.t)
        BY <2>3, <3>1 DEF DReuse, Data
      <4> QED BY <3>1, <4>1, <4>2 DEF DataOf
    <3>2. CASE ~t.dr
      BY <3>2 DEF DataOf
    <3> QED BY <3>1, <3>2
  <2>5. WeightOf(ran[k], t) = Weight(t.t)
    <3>1. CASE t.wr
      <4>1. ran[k].w = Weight(tasks[k].t)
        BY <1>2, <2>3, <3>1 DEF WReuse
      <4>2. Weight(tasks[k].t) = Weight(t.t)
        BY <2>3, <3>1 DEF WReuse, Weight
      <4> QED BY <3>1, <4>1, <4>2 DEF WeightOf
    <3>2. CASE ~t.wr
      BY <3>2 DEF WeightOf
    <3> QED BY <3>1, <3>2
  <2> HIDE DEF t
  <2>6. ran[k].chained = chained
    BY <1>2
  <2>7. /\ ran[k + 1].chained = chained
        /\ mode = 2 => ran[k + 1].d = Data(t.t)
        /\ mode = 1 => ran[k + 1].w = Weight(t.t)
    <3>1. /\ ran[k + 1].d = IF conf.oneJob \/ chained THEN Data(t.t) ELSE Unknown
          /\ ran[k + 1].w = IF (conf.oneJob \/ chained) /\ ~conf.streams THEN Weight(t.t)
                            ELSE Unknown
          /\ ran[k + 1].chained = chained
      <4> DEFINE m == ran[k]
                 a == ran[k + 1]
      <4> HIDE DEF m, a, Kept, P
      <4>1. /\ a.d = IF conf.oneJob \/ m.chained THEN DataOf(m, t) ELSE Unknown
            /\ a.w = IF (conf.oneJob \/ m.chained) /\ ~conf.streams THEN WeightOf(m, t)
                     ELSE Unknown
            /\ a.chained = m.chained
        <5>1. a = Exec(m, t)
          BY <2>2 DEF a, m
        <5> QED BY <5>1, ExecParts
      <4>2. m.chained = chained /\ DataOf(m, t) = Data(t.t) /\ WeightOf(m, t) = Weight(t.t)
        BY <2>4, <2>5, <2>6 DEF m
      <4>3. /\ a.d = IF conf.oneJob \/ chained THEN Data(t.t) ELSE Unknown
            /\ a.w = IF (conf.oneJob \/ chained) /\ ~conf.streams THEN Weight(t.t) ELSE Unknown
            /\ a.chained = chained
        BY <4>1, <4>2
      <4> QED BY <4>3 DEF a
    <3> QED BY <1>0, <1>m, <1>t, <3>1 DEF Keeps
  <2>8. Kept(k + 1)
    BY <2>1, <2>7 DEF t
  <2> HIDE DEF Kept
  <2> QED BY <2>1, <2>2, <2>4, <2>5, <2>8 DEF t
<1>4. \A k \in 0 .. len : k \in P
  <2> HIDE DEF P
  <2> QED BY <1>1, <1>2, <1>t, UpTo
<1>5. ASSUME NEW k \in 1 .. len
      PROVE  ran[k].out = Stored(ran[k - 1].out, tasks[k],
                                 Append(AddsTo(ran[k - 1].out, tasks[k]), Pair(tasks[k].t)))
  <2> DEFINE j == k - 1
  <2>1. j \in 0 .. len - 1 /\ j + 1 = k /\ j \in 0 .. len
    BY <1>t
  <2> HIDE DEF j, P
  <2>2. /\ DataOf(ran[j], tasks[k]) = Data(tasks[k].t)
        /\ WeightOf(ran[j], tasks[k]) = Weight(tasks[k].t)
        /\ ran[k] = Exec(ran[j], tasks[k])
    BY <1>2, <1>4, <2>1
  <2> QED BY <2>2, ExecParts DEF Pair, j
<1> QED BY <1>5

\* Any task stores one sum, where it was told to.
OthersKept(o, a, t) ==
    \A b \in OutBufs, q \in Pos : ~(b = t.dst /\ q = t.slot) => o[b][q] = a[b][q]

\* A task leaves the other slots.
LEMMA OneStore ==
    ASSUME conf \in Conf, NEW chained, NEW tasks, NEW ran, Runs(ran, tasks, chained),
           NEW k \in 1 .. Len(tasks)
    PROVE  /\ ran[k].out \in Memory /\ ran[k - 1].out \in Memory
           /\ OthersKept(ran[k].out, ran[k - 1].out, tasks[k])
<1>1. k \in 0 .. Len(tasks) /\ k - 1 \in 0 .. Len(tasks)
  BY DEF Runs
<1>2. ran[k] \in Machine /\ ran[k - 1] \in Machine /\ ran[k] = Exec(ran[k - 1], tasks[k])
  BY <1>1 DEF Runs
<1> DEFINE o == ran[k - 1].out
           t == tasks[k]
           v == Append(AddsTo(o, t), <<DataOf(ran[k - 1], t), WeightOf(ran[k - 1], t)>>)
<1>3. ran[k].out = Stored(o, t, v)
  BY <1>2, ExecParts
<1>4. o \in Memory /\ ran[k].out \in Memory /\ t.dst \in OutBufs /\ t.slot \in Pos
  <2>1. t \in TaskSet
    BY DEF Runs
  <2> QED BY <1>2, <2>1 DEF Machine, TaskSet
<1> HIDE DEF o, t, v
<1>5. \A b \in OutBufs, q \in Pos :
        Stored(o, t, v)[b][q] = IF b = t.dst /\ q = t.slot THEN v ELSE o[b][q]
  BY <1>4 DEF Stored, Memory
<1> QED BY <1>3, <1>4, <1>5 DEF o, t, OthersKept

\* What an own task stores.
LEMMA OwnStore ==
    ASSUME conf \in Conf, NEW chained, NEW tasks, NEW ran, Runs(ran, tasks, chained),
           NEW len, Own(tasks, len, chained), NEW k \in 1 .. len
    PROVE  ran[k].out[tasks[k].dst][tasks[k].slot]
             = Append(AddsTo(ran[k - 1].out, tasks[k]), Pair(tasks[k].t))
<1> DEFINE o == ran[k - 1].out
           t == tasks[k]
           v == Append(AddsTo(o, t), Pair(t.t))
<1>1. ran[k].out = Stored(o, t, v)
  BY OwnOperands
<1>2. k \in 1 .. Len(tasks) /\ t \in TaskSet
  BY DEF Own, Runs
<1>3. o \in Memory /\ t.dst \in OutBufs /\ t.slot \in Pos
  <2>1. o \in Memory
    BY <1>2, OneStore
  <2> HIDE DEF o, t
  <2> QED BY <1>2, <2>1 DEF TaskSet
<1> HIDE DEF o, t, v
<1>4. Stored(o, t, v)[t.dst][t.slot] = v
  BY <1>3 DEF Stored, Memory
<1> QED BY <1>1, <1>4 DEF o, t, v

StoresOwn(ran, tasks, len) ==
    \A k \in 1 .. len :
        ran[k].out[tasks[k].dst][tasks[k].slot]
          = Append(AddsTo(ran[k - 1].out, tasks[k]), Pair(tasks[k].t))

LEMMA OwnStores ==
    ASSUME conf \in Conf, NEW chained, NEW tasks, NEW ran, Runs(ran, tasks, chained),
           NEW len, Own(tasks, len, chained)
    PROVE  StoresOwn(ran, tasks, len)
BY OwnStore DEF StoresOwn

\* A buffer no task writes is left alone, whatever the tasks are.
LEMMA Untouched ==
    ASSUME conf \in Conf, NEW chained, NEW tasks, NEW ran, Runs(ran, tasks, chained),
           NEW b \in OutBufs, NEW q \in Pos,
           \A k \in 1 .. Len(tasks) : tasks[k].dst # b \/ tasks[k].slot # q
    PROVE  ran[Len(tasks)].out[b][q] = out[b][q]
<1> DEFINE n == Len(tasks)
           P == {k \in 0 .. n : ran[k].out[b][q] = out[b][q]}
<1>1. n \in Nat /\ n \in 0 .. n
  BY DEF Runs
<1>2. 0 \in P
  BY <1>1 DEF Runs, Start
<1>3. ASSUME NEW k \in 0 .. n - 1, k \in P PROVE k + 1 \in P
  <2> DEFINE j == k + 1
  <2>1. j \in 1 .. Len(tasks) /\ j \in 0 .. n /\ j - 1 = k
    BY <1>1
  <2> HIDE DEF j
  <2>2. OthersKept(ran[j].out, ran[j - 1].out, tasks[j])
    BY <2>1, OneStore
  <2>3. ran[j].out[b][q] = ran[k].out[b][q]
    BY <2>1, <2>2 DEF OthersKept
  <2>4. j \in P
    BY <1>3, <2>1, <2>3
  <2> QED BY <2>4 DEF j
<1>4. \A k \in 0 .. n : k \in P
  <2> HIDE DEF P, n
  <2> QED BY <1>1, <1>2, <1>3, UpTo
<1>5. n \in P
  <2> HIDE DEF P
  <2> QED BY <1>1, <1>4
<1> QED BY <1>5

\* The first tasks write their slots of dst, from the same slots of add, and
\* the later ones other slots.
FlatJob(tasks, len, dst, add) ==
    /\ \A k \in 1 .. Len(tasks) : tasks[k].slot = k - 1
    /\ \A k \in 1 .. len : tasks[k].dst = dst /\ tasks[k].add = add

\* What such a job leaves in slot q - 1 of both buffers.
FlatLeft(o, tasks, q, dst, add) ==
    /\ o[dst][q - 1] = Append(IF add = "none" THEN <<>> ELSE out[add][q - 1], Pair(tasks[q].t))
    /\ add # "none" => o[add][q - 1] = out[add][q - 1]

\* Whatever the later tasks are, each of the first leaves its sum.
LEMMA FlatRun ==
    ASSUME conf \in Conf, NEW chained, NEW tasks, NEW ran, Runs(ran, tasks, chained),
           NEW len, Own(tasks, len, chained),
           NEW dst \in OutBufs, NEW add \in {"none", "ping", "pong"}, add # dst,
           FlatJob(tasks, len, dst, add), NEW q \in 1 .. len
    PROVE  FlatLeft(ran[Len(tasks)].out, tasks, q, dst, add)
<1> DEFINE n == Len(tasks)
           v == Append(IF add = "none" THEN <<>> ELSE out[add][q - 1], Pair(tasks[q].t))
           Good(k) == /\ add # "none" => ran[k].out[add][q - 1] = out[add][q - 1]
                      /\ k >= q => ran[k].out[dst][q - 1] = v
           P == {k \in 0 .. n : Good(k)}
<1>1. /\ n \in Nat /\ n \in 0 .. n /\ q \in 1 .. n /\ q - 1 \in Nat
      /\ add # "none" => add \in OutBufs
  BY DEF OutBufs, Runs, Own
<1>2. q - 1 \in Pos
  <2>1. tasks[q] \in TaskSet /\ tasks[q].slot = q - 1
    BY <1>1 DEF FlatJob, Runs
  <2> QED BY <2>1 DEF TaskSet
<1>3. 0 \in P
  <2>1. ran[0].out = out
    BY DEF Runs, Start
  <2> HIDE DEF v, n
  <2> QED BY <1>1, <2>1
<1>4. ASSUME NEW k \in 0 .. n - 1, k \in P PROVE k + 1 \in P
  <2> DEFINE j == k + 1
  <2>1. j \in 1 .. Len(tasks) /\ j \in 0 .. n /\ j - 1 = k /\ k \in Nat /\ j \in Nat /\ Good(k)
    BY <1>1, <1>4
  <2> HIDE DEF j
  <2>2. tasks[j].slot = k
    BY <2>1 DEF FlatJob
  <2>3. OthersKept(ran[j].out, ran[j - 1].out, tasks[j])
    BY <2>1, OneStore
  <2>4. \A b \in OutBufs : ~(b = tasks[j].dst /\ q - 1 = k) =>
            ran[j].out[b][q - 1] = ran[k].out[b][q - 1]
    BY <1>2, <2>1, <2>2, <2>3 DEF OthersKept
  <2>5. Good(j)
    <3>1. CASE j # q
      <4>1. q - 1 # k /\ (j >= q => k >= q)
        BY <1>1, <2>1, <3>1
      <4>2. \A b \in OutBufs : ran[j].out[b][q - 1] = ran[k].out[b][q - 1]
        BY <2>4, <4>1
      <4> HIDE DEF v
      <4> QED BY <1>1, <2>1, <4>1, <4>2
    <3>2. CASE j = q
      <4>1. tasks[q].dst = dst /\ tasks[q].add = add /\ tasks[q].slot = q - 1
        BY <1>1 DEF FlatJob
      <4>2. ran[q].out[tasks[q].dst][tasks[q].slot]
               = Append(AddsTo(ran[q - 1].out, tasks[q]), Pair(tasks[q].t))
        <5> HIDE DEF v, n, Good, P
        <5>1. conf \in Conf /\ Runs(ran, tasks, chained) /\ Own(tasks, len, chained) /\ q \in 1 .. len
          OBVIOUS
        <5> QED BY <5>1, OwnStore
      <4>3. add # "none" => ran[k].out[add][q - 1] = out[add][q - 1]
        BY <2>1
      <4>4. AddsTo(ran[q - 1].out, tasks[q]) = IF add = "none" THEN <<>> ELSE out[add][q - 1]
        BY <2>1, <3>2, <4>1, <4>3 DEF AddsTo
      <4>5. ran[q].out[dst][q - 1] = v
        BY <4>1, <4>2, <4>4
      <4>6. add # "none" => ran[j].out[add][q - 1] = out[add][q - 1]
        BY <1>1, <2>4, <3>2, <4>1, <4>3
      <4> HIDE DEF v
      <4> QED BY <3>2, <4>5, <4>6
    <3> QED BY <3>1, <3>2
  <2> HIDE DEF Good, n
  <2>6. j \in P
    BY <2>1, <2>5
  <2> QED BY <2>6 DEF j
<1>5. \A k \in 0 .. n : k \in P
  <2> HIDE DEF P, n
  <2> QED BY <1>1, <1>3, <1>4, UpTo
<1>6. Good(n)
  <2> HIDE DEF Good, n
  <2> QED BY <1>1, <1>5
<1>7. n >= q
  BY <1>1
<1> HIDE DEF v
<1>8. ran[n].out[dst][q - 1] = v /\ (add # "none" => ran[n].out[add][q - 1] = out[add][q - 1])
  BY <1>6, <1>7
<1> QED BY <1>8 DEF v, FlatLeft

-----------------------------------------------------------------------------
(* What the jobs of a batch leave in the output buffers.                   *)

\* The sum of the first k partial products of the cell of tile t.
Partial(t, k) == [j \in 1 .. k |-> Pair(Tile(t.mi, t.ni, j - 1))]

\* Two tiles of one cell of C.
SameCell(t, u) == t.mi = u.mi /\ t.ni = u.ni

\* Adding the partial product of step k makes the sum of k + 1.
LEMMA PartialFacts ==
    ASSUME conf \in Conf, NEW t \in TileSet
    PROVE  /\ Append(Partial(t, t.ki), Pair(t)) = Partial(t, t.ki + 1)
           /\ Partial(t, 0) = <<>>
           /\ \A u, k : SameCell(t, u) => Partial(u, k) = Partial(t, k)
           /\ \A k \in 0 .. conf.nK : Partial(t, k) \in Sums /\ Len(Partial(t, k)) = k
<1>1. t = Tile(t.mi, t.ni, t.ki) /\ t.ki \in Nat /\ t.ki + 1 \in 0 .. conf.nK /\ conf.nK \in Nat
      /\ t.ki \in 0 .. conf.nK
  BY ConfFacts DEF TileSet, Tile, Range0
<1>2. ASSUME NEW k \in 0 .. conf.nK PROVE Partial(t, k) \in Sums /\ Len(Partial(t, k)) = k
  <2>1. ASSUME NEW j \in 1 .. k PROVE Pair(Tile(t.mi, t.ni, j - 1)) \in Operand \X Operand
    <3>1. Tile(t.mi, t.ni, j - 1) \in TileSet
      BY <1>1 DEF Tile, TileSet, Range0
    <3> QED BY <3>1 DEF Pair, Operand
  <2> QED BY <1>1, <2>1 DEF Partial, Sums
<1>3. Append(Partial(t, t.ki), Pair(t)) = Partial(t, t.ki + 1)
  <2> DEFINE s == Partial(t, t.ki)
             n == Partial(t, t.ki + 1)
             k == t.ki
  <2>1. s \in Sums /\ Len(s) = k /\ n \in Sums /\ Len(n) = k + 1
    BY <1>1, <1>2
  <2>2. Pair(t) \in Operand \X Operand
    BY DEF Pair, Operand
  <2>3. \A j \in 1 .. k : s[j] = n[j]
    BY <1>1 DEF Partial
  <2>4. n[k + 1] = Pair(t)
    <3>1. n[k + 1] = Pair(Tile(t.mi, t.ni, (k + 1) - 1)) /\ (k + 1) - 1 = k
      BY <1>1 DEF Partial
    <3> QED BY <1>1, <3>1
  <2> DEFINE a == Append(s, Pair(t))
  <2> HIDE DEF s, n, k
  <2>5. a \in Sums /\ Len(a) = k + 1 /\ \A j \in 1 .. k + 1 : a[j] = IF j = k + 1 THEN Pair(t) ELSE s[j]
    BY <2>1, <2>2 DEF Sums
  <2>6. k \in Nat
    BY <1>1 DEF k
  <2>7. \A j \in 1 .. k + 1 : a[j] = n[j]
    BY <2>3, <2>4, <2>5, <2>6
  <2> HIDE DEF a
  <2>8. a = n
    BY <2>1, <2>5, <2>6, <2>7 DEF Sums
  <2> QED BY <2>8 DEF a, s, n, k
<1>4. Partial(t, 0) = <<>>
  BY DEF Partial
<1>5. \A u, k : SameCell(t, u) => Partial(u, k) = Partial(t, k)
  BY DEF Partial, SameCell
<1> QED BY <1>2, <1>3, <1>4, <1>5

\* Where a task stands decides which it is.
LEMMA ChainPlace ==
    ASSUME NEW g \in Nat \ {0}, NEW s \in Nat, NEW p \in 1 .. g, NEW t, IsNumber(t, 1, g, s, 0, p)
    PROVE  StepOf(t, g) = s /\ PlaceOf(t, g) = p
<1> DEFINE r == p - 1
<1>1. r \in Nat /\ r < g /\ s * g \in Nat
  BY ProductNat
<1>2. t - 1 = s * g + r
  BY <1>1 DEF IsNumber, Number
<1>3. (s * g + r) \div g = s /\ (s * g + r) % g = r
  <2> HIDE DEF r
  <2> QED BY <1>1, DivOfSum
<1> QED BY <1>2, <1>3 DEF StepOf, PlaceOf

\* A chain leaves the full sums of its cells in the last buffer.
LEMMA ChainRuns ==
    ASSUME conf \in Conf, IsChain, NEW i \in 1 .. N, NEW chained, Keeps(chained, ChainMode),
           NEW ran, Runs(ran, ChainTasks(i), chained), NEW p \in 1 .. ChainLen(i)
    PROVE  ran[Len(ChainTasks(i))].out[Final][p - 1]
             = Partial(GroupTile(ChainBase(i) + p - 1, 0, ChainMode), conf.nK)
<1> DEFINE g == ChainLen(i)
           n == conf.nK * g
           ts == ChainTasks(i)
           base == ChainBase(i)
<1>0. conf.nK \in Nat \ {0} /\ nTiles \in Nat /\ BATCH \in Nat
  BY ConfFacts
<1>1. g \in Nat \ {0} /\ base \in Nat /\ base + g <= nTiles /\ n \in 1 .. BATCH
  <2>1. /\ GroupCap \in Nat /\ ChainLen(i) \in 1 .. GroupCap /\ ChainBase(i) \in Nat
        /\ ChainBase(i) + ChainLen(i) <= nTiles /\ conf.nK * ChainLen(i) \in 1 .. BATCH
    BY ChainBatch
  <2>2. n \in 1 .. BATCH
    BY <2>1
  <2> HIDE DEF n
  <2> QED BY <2>1, <2>2
<1> DEFINE K(t) == StepOf(t, g)
           C(t) == PlaceOf(t, g)
<1>2. /\ ts \in [1 .. n -> TaskSet] /\ Len(ts) = n /\ Follows(ts, n, ChainMode)
      /\ \A t \in 1 .. n :
            /\ InChain(t, g)
            /\ ts[t].t = GroupTile(base + C(t) - 1, K(t), ChainMode)
            /\ ts[t].dst = PingPong(K(t)) /\ ts[t].add = Addend(K(t)) /\ ts[t].slot = C(t) - 1
  BY ChainOfTasks
<1>r. Runs(ran, ts, chained) /\ p \in 1 .. g
  OBVIOUS
<1>g. g = ChainLen(i) /\ ts = ChainTasks(i) /\ base = ChainBase(i) /\ n = conf.nK * g
  OBVIOUS
<1> HIDE DEF g, n, ts, base
<1>3. ASSUME NEW t \in 1 .. n
      PROVE  /\ K(t) \in Range0(conf.nK) /\ K(t) \in Nat /\ C(t) \in 1 .. g
             /\ IsNumber(t, 1, g, K(t), 0, C(t))
             /\ ts[t].t \in TileSet /\ ts[t].t.ki = K(t)
             /\ SameCell(GroupTile(base + C(t) - 1, 0, ChainMode), ts[t].t)
             /\ GroupTile(base + C(t) - 1, 0, ChainMode) \in TileSet
             /\ ts[t].slot = C(t) - 1 /\ ts[t].dst = PingPong(K(t)) /\ ts[t].add = Addend(K(t))
             /\ ts[t].dst \in OutBufs /\ ts[t].slot \in Pos
  <2>1. K(t) \in Range0(conf.nK) /\ C(t) \in 1 .. g /\ t = K(t) * g + C(t)
    BY <1>2 DEF InChain
  <2>2. K(t) \in Nat /\ base + C(t) - 1 \in 0 .. nTiles - 1 /\ 0 \in Range0(conf.nK)
    BY <1>0, <1>1, <2>1 DEF Range0
  <2>3. /\ GroupTile(base + C(t) - 1, K(t), ChainMode) \in TileSet
        /\ GroupTile(base + C(t) - 1, K(t), ChainMode).ki = K(t)
        /\ GroupTile(base + C(t) - 1, 0, ChainMode) \in TileSet
        /\ SameCell(GroupTile(base + C(t) - 1, 0, ChainMode), GroupTile(base + C(t) - 1, K(t), ChainMode))
    BY <2>1, <2>2, GroupTiles DEF SameCell
  <2>4. IsNumber(t, 1, g, K(t), 0, C(t))
    <3>1. Number(1, g, K(t), 0, C(t)) = (K(t) * 1 + 0) * g + C(t)
      BY DEF Number
    <3>2. K(t) * 1 + 0 = K(t)
      BY <2>2
    <3> QED BY <2>1, <3>1, <3>2 DEF IsNumber
  <2>5. ts[t] \in TaskSet
    BY <1>2
  <2> QED BY <1>2, <2>1, <2>2, <2>3, <2>4, <2>5 DEF TaskSet
<1> HIDE DEF K, C
<1>o. Own(ts, n, chained)
  <2>1. n \in 0 .. Len(ts)
    BY <1>1, <1>2
  <2> QED BY <1>2, <2>1 DEF Own
<1>s. StoresOwn(ran, ts, n)
  BY <1>o, <1>r, OwnStores
<1> DEFINE Sum(t) == Partial(ts[t].t, K(t) + 1)
           Window(k) == \A t \in 1 .. k : k < t + g => ran[k].out[ts[t].dst][ts[t].slot] = Sum(t)
           P == {k \in 0 .. n : Window(k)}
<1>4. 0 \in P
  BY <1>1
<1>5. ASSUME NEW k \in 0 .. n - 1, k \in P PROVE k + 1 \in P
  <2> DEFINE j == k + 1
  <2>1. j \in 1 .. n /\ j \in 0 .. n /\ j - 1 = k /\ j \in Nat /\ k \in Nat /\ Window(k) /\ j = k + 1
    BY <1>1, <1>5
  <2> HIDE DEF j
  <2>2. ran[j].out[ts[j].dst][ts[j].slot] = Sum(j)
    <3>1. ran[j].out[ts[j].dst][ts[j].slot] = Append(AddsTo(ran[j - 1].out, ts[j]), Pair(ts[j].t))
      BY <1>s, <2>1 DEF StoresOwn
    <3>2. AddsTo(ran[k].out, ts[j]) = Partial(ts[j].t, K(j))
      <4>1. CASE K(j) = 0
        <5>1. ts[j].add = "none"
          BY <1>3, <2>1, <4>1, PingPongType
        <5> QED BY <1>3, <2>1, <4>1, <5>1, PartialFacts DEF AddsTo
      <4>2. CASE K(j) # 0
        <5> DEFINE s == K(j) - 1
                   c == C(j)
                   t == j - g
        <5>1. s \in Nat /\ s + 1 = K(j) /\ c \in 1 .. g
          BY <1>3, <2>1, <4>2
        <5>2. j = K(j) * g + c
          <6>1. Number(1, g, K(j), 0, c) = (K(j) * 1 + 0) * g + c /\ K(j) * 1 + 0 = K(j)
            BY <1>3, <2>1 DEF Number
          <6> QED BY <1>3, <2>1, <6>1 DEF IsNumber
        <5>3. K(j) * g = s * g + g /\ s * g \in Nat
          <6>1. K(j) = s + 1
            BY <1>3, <2>1
          <6> HIDE DEF s
          <6>2. (s + 1) * g = s * g + g
            BY <1>1, <5>1
          <6> QED BY <1>1, <5>1, <6>1, <6>2, ProductNat
        <5>4. t = s * g + c
          <6> DEFINE u == K(j) * g
                     v == s * g
          <6>1. u = v + g /\ v \in Nat /\ j = u + c /\ c \in Nat
            BY <1>1, <5>1, <5>2, <5>3
          <6> HIDE DEF u, v, c, s
          <6>2. j - g = v + c
            BY <1>1, <6>1
          <6> QED BY <6>2 DEF v
        <5>5. t \in 1 .. k /\ k < t + g
          <6> DEFINE v == s * g
          <6>1. v \in Nat /\ t = v + c /\ c \in 1 .. g
            BY <5>1, <5>3, <5>4
          <6> HIDE DEF v, c
          <6> QED BY <1>1, <2>1, <6>1
        <5>6. IsNumber(t, 1, g, s, 0, c)
          <6>1. Number(1, g, s, 0, c) = (s * 1 + 0) * g + c /\ s * 1 + 0 = s
            BY <5>1 DEF Number
          <6> HIDE DEF s, c
          <6> QED BY <5>4, <6>1 DEF IsNumber
        <5>7. K(t) = s /\ C(t) = c
          <6> HIDE DEF t, s, c
          <6> QED BY <1>1, <5>1, <5>6, ChainPlace DEF K, C
        <5>8. t \in 1 .. n
          BY <1>1, <2>1, <5>5
        <5>9. ran[k].out[ts[t].dst][ts[t].slot] = Partial(ts[t].t, K(t) + 1)
          <6> HIDE DEF t
          <6> QED BY <2>1, <5>5
        <5>10. /\ ts[t].dst = PingPong(s) /\ ts[t].slot = c - 1 /\ ts[j].slot = c - 1
               /\ ts[j].dst = PingPong(K(j)) /\ ts[j].add = Addend(K(j))
          <6> HIDE DEF t, s
          <6> QED BY <1>3, <2>1, <5>7, <5>8
        <5>11. /\ Addend(K(j)) = PingPong(s) /\ Addend(K(j)) # "none"
               /\ Addend(K(j)) # PingPong(K(j))
          <6>1. K(j) \in Nat /\ K(j) > 0 /\ K(j) - 1 = s /\ s \in Nat
            BY <1>3, <2>1, <4>2
          <6>2. Addend(K(j)) = PingPong(s)
            BY <6>1, PingPongType
          <6>3. PingPong(s) \in {"ping", "pong"} /\ PingPong(s) # PingPong(s + 1)
            BY <6>1, PingPongType
          <6> QED BY <5>1, <6>2, <6>3
        <5>12. AddsTo(ran[k].out, ts[j]) = ran[k].out[ts[t].dst][ts[t].slot]
          <6> HIDE DEF t, s, c
          <6> QED BY <5>10, <5>11 DEF AddsTo
        <5>13. SameCell(ts[j].t, ts[t].t) /\ ts[j].t \in TileSet
          <6> HIDE DEF t
          <6>1. C(t) = C(j)
            BY <5>7
          <6>2. SameCell(GroupTile(base + C(j) - 1, 0, ChainMode), ts[t].t)
            BY <1>3, <5>8, <6>1
          <6> QED BY <1>3, <2>1, <6>2 DEF SameCell
        <5>14. Partial(ts[t].t, K(j)) = Partial(ts[j].t, K(j))
          <6> HIDE DEF t
          <6> QED BY <5>13, PartialFacts
        <5>15. K(t) + 1 = K(j)
          <6> HIDE DEF t
          <6> QED BY <1>3, <2>1, <5>7
        <5> HIDE DEF t, s, c
        <5> QED BY <5>9, <5>12, <5>14, <5>15
      <4> QED BY <4>1, <4>2
    <3>3. Append(Partial(ts[j].t, K(j)), Pair(ts[j].t)) = Partial(ts[j].t, K(j) + 1)
      BY <1>3, <2>1, PartialFacts
    <3> QED BY <2>1, <3>1, <3>2, <3>3
  <2>3. ASSUME NEW t \in 1 .. k, j < t + g
        PROVE  ran[j].out[ts[t].dst][ts[t].slot] = Sum(t)
    <3>1. t \in 1 .. n /\ t < j /\ k < t + g
      BY <1>1, <2>1, <2>3
    <3>2. C(t) # C(j)
      <4> SUFFICES ASSUME C(t) = C(j) PROVE FALSE
        OBVIOUS
      <4> DEFINE a == K(t)
                 b == K(j)
                 c == C(t)
      <4>1. a \in Nat /\ b \in Nat /\ c \in Nat
        BY <1>1, <1>3, <2>1, <3>1
      <4>2. t = a * g + c /\ j = b * g + c
        <5>1. IsNumber(t, 1, g, a, 0, c) /\ IsNumber(j, 1, g, b, 0, c)
          BY <1>3, <2>1, <3>1
        <5> HIDE DEF a, b, c
        <5>2. a * 1 + 0 = a /\ b * 1 + 0 = b
          BY <4>1
        <5> QED BY <5>1, <5>2 DEF IsNumber, Number
      <4> HIDE DEF a, b, c
      <4> DEFINE ag == a * g
                 bg == b * g
      <4>3. ag \in Nat /\ bg \in Nat
        BY <1>1, <4>1, ProductNat
      <4>4. a < b
        <5> SUFFICES ASSUME b <= a PROVE FALSE
          BY <4>1
        <5>1. bg <= ag
          BY <1>1, <4>1, ProductRises
        <5>2. t = ag + c /\ j = bg + c
          BY <4>2
        <5> HIDE DEF ag, bg
        <5> QED BY <3>1, <4>1, <4>3, <5>1, <5>2
      <4>5. ag + g <= bg
        <5>1. a + 1 <= b /\ a + 1 \in Nat
          BY <4>1, <4>4
        <5>2. (a + 1) * g <= b * g
          BY <1>1, <4>1, <5>1, ProductRises
        <5>3. (a + 1) * g = a * g + g
          BY <1>1, <4>1
        <5> QED BY <5>2, <5>3
      <4>6. t = ag + c /\ j = bg + c
        BY <4>2
      <4> HIDE DEF ag, bg
      <4> QED BY <1>1, <2>1, <2>3, <4>1, <4>3, <4>5, <4>6
    <3>3. ts[t].slot # ts[j].slot
      BY <1>1, <1>3, <2>1, <3>1, <3>2
    <3>4. OthersKept(ran[j].out, ran[j - 1].out, ts[j])
      <4>1. j \in 1 .. Len(ts)
        BY <1>2, <2>1
      <4> QED BY <1>r, <4>1, OneStore
    <3>5. ran[j].out[ts[t].dst][ts[t].slot] = ran[k].out[ts[t].dst][ts[t].slot]
      BY <1>3, <2>1, <3>1, <3>3, <3>4 DEF OthersKept
    <3>6. ran[k].out[ts[t].dst][ts[t].slot] = Sum(t)
      BY <2>1, <3>1
    <3> QED BY <3>5, <3>6
  <2>4. ASSUME NEW t \in 1 .. j, j < t + g PROVE ran[j].out[ts[t].dst][ts[t].slot] = Sum(t)
    <3>1. t = j \/ t \in 1 .. k
      BY <2>1
    <3> HIDE DEF Sum
    <3> QED BY <2>2, <2>3, <2>4, <3>1
  <2>5. Window(j)
    BY <2>4
  <2> HIDE DEF Window
  <2>6. j \in P
    BY <2>1, <2>5
  <2> QED BY <2>6 DEF j
<1>6. n \in P
  <2> HIDE DEF P
  <2>1. n \in 0 .. n /\ n \in Nat
    BY <1>1
  <2> QED BY <1>4, <1>5, <2>1, UpTo
<1> DEFINE s == conf.nK - 1
           sg == s * g
           t == sg + p
<1>7. s \in Nat /\ sg \in Nat /\ sg + g = n /\ s + 1 = conf.nK
  <2>1. s \in Nat /\ s + 1 = conf.nK
    BY <1>0
  <2>2. n = (s + 1) * g
    BY <1>g, <2>1
  <2> HIDE DEF s
  <2>3. (s + 1) * g = s * g + g
    BY <1>1, <2>1
  <2> QED BY <1>1, <2>1, <2>2, <2>3, ProductNat
<1>8. t \in 1 .. n /\ n < t + g
  <2> HIDE DEF sg
  <2> QED BY <1>1, <1>7, <1>r
<1>9. K(t) = s /\ C(t) = p
  <2>1. IsNumber(t, 1, g, s, 0, p)
    <3>1. Number(1, g, s, 0, p) = (s * 1 + 0) * g + p /\ s * 1 + 0 = s
      BY <1>7 DEF Number
    <3> QED BY <3>1 DEF IsNumber
  <2> HIDE DEF t, s, sg
  <2> QED BY <1>1, <1>7, <1>r, <2>1, ChainPlace DEF K, C
<1> HIDE DEF t, sg
<1>10. ran[n].out[ts[t].dst][ts[t].slot] = Partial(ts[t].t, conf.nK)
  <2>1. ran[n].out[ts[t].dst][ts[t].slot] = Sum(t)
    BY <1>6, <1>8
  <2> QED BY <1>7, <1>9, <2>1
<1>11. ts[t].dst = Final /\ ts[t].slot = p - 1
  BY <1>3, <1>8, <1>9 DEF Final
<1>12. Partial(ts[t].t, conf.nK) = Partial(GroupTile(base + p - 1, 0, ChainMode), conf.nK)
  BY <1>3, <1>8, <1>9, PartialFacts
<1> QED BY <1>2, <1>10, <1>11, <1>12, <1>g

-----------------------------------------------------------------------------
(* The inductive invariant.                                                *)

\* The job that submitting batch i adds.
JobOf(i) ==
    [rc |-> Batches[i].rc, n |-> Len(Batches[i].tasks), ins |-> Batches[i].ins,
     outs |-> Batches[i].outs, chained |-> Batches[i].chained, tasks |-> Batches[i].tasks]

\* The types: a job in flight is the job of a batch.
TypeInv ==
    /\ conf \in Conf
    /\ rc \in [RcBufs -> [Pos -> TaskSet \cup {NoTask}]]
    /\ nb \in [RcBufs -> 0 .. BATCH]
    /\ out \in Memory
    /\ acc \in [Cell -> Sums]
    /\ jobs \in Seq({JobOf(i) : i \in 1 .. N})
    /\ calling \in BOOLEAN /\ clean \in BOOLEAN
    /\ built \in Nat /\ submitted \in Nat /\ consumed \in Nat

\* No batch is built more than a pipeline depth ahead of the reads.
CountInv ==
    /\ consumed <= submitted /\ submitted <= built /\ built <= N
    /\ built <= submitted + 1 /\ built <= consumed + Depth + 1

\* The buffer batch i was built into holds it.
Held(i) ==
    /\ nb[Batches[i].rc] = Len(Batches[i].tasks)
    /\ \A p \in 1 .. Len(Batches[i].tasks) : rc[Batches[i].rc][p - 1] = Batches[i].tasks[p]

\* The batches of a call whose programs the part may still run.
Live(i) == i \in 1 .. built /\ (i > consumed \/ i = built)

\* A task that was built into position p of buffer r.
BuiltAt(r, p, task) ==
    /\ task \in TaskSet
    /\ ~IsChain => task.slot = p
    /\ IsHost => task.dst = OutOf(r) /\ task.add = "none"

\* A buffer holds a batch from its first task to its last, what is past it are
\* tasks of the same kind, a job in flight finds a task at every place it may
\* run, and the live batches are held.
BufferInv ==
    /\ \A r \in RcBufs : nb[r] = 0 \/ \E i \in 1 .. N : Batches[i].rc = r /\ Held(i)
    /\ \A r \in RcBufs : \A p \in Pos : rc[r][p] # NoTask => BuiltAt(r, p, rc[r][p])
    /\ \A x \in DOMAIN jobs : \A p \in Range0(jobs[x].n) : rc[jobs[x].rc][p] # NoTask
    /\ calling => \A i \in 1 .. N : Live(i) => Held(i)

\* Until a call fails every job left belongs to a batch that is not read yet.
CleanInv ==
    clean => \A x \in DOMAIN jobs :
                calling /\ \E i \in consumed + 1 .. submitted : jobs[x] = JobOf(i)

\* What a task of a job that is no chain adds to, and what it makes of it.
Before(t) == IF IsHost THEN <<>> ELSE Partial(t, t.ki)
After(t) == Append(Before(t), Pair(t))

\* Memory o holds what batch i adds to, and what batch i leaves.
Addends(o, i) ==
    ~IsChain /\ FlatAdd(i) # "none" =>
        \A p \in 1 .. FlatLen(i) : o[FlatAdd(i)][p - 1] = Before(FlatTiles(i)[p])
Right(o, i) ==
    IF IsChain
    THEN \A p \in 1 .. ChainLen(i) :
            o[Final][p - 1] = Partial(GroupTile(ChainBase(i) + p - 1, 0, ChainMode), conf.nK)
    ELSE \A p \in 1 .. FlatLen(i) : o[FlatDst(i)][p - 1] = After(FlatTiles(i)[p])

\* The output of a submitted batch is right, or its job has not run; what a
\* batch adds to is right from its build on, whatever older jobs do meanwhile.
OutInv ==
    calling => \A i \in 1 .. N : Live(i) =>
        /\ Addends(out, i)
        /\ i <= submitted =>
             Right(out, i) \/ (i > consumed /\ \E x \in DOMAIN jobs : jobs[x] = JobOf(i))

\* The CPU has added the partials before place n of the loop order.
Added(a, n) ==
    \A c \in Cell : \E l \in 0 .. conf.nK :
        /\ a[c] = Partial(Tile(c[1], c[2], 0), l)
        /\ \A k \in Range0(conf.nK) : Index(Tile(c[1], c[2], k)) < n <=> k < l

\* It has taken the first n finished cells.
NpuMode == IF IsChain THEN ChainMode ELSE StepMode
Done(a, n) ==
    \A m \in Range0(n) :
        LET t == GroupTile(m, 0, NpuMode) IN a[<<t.mi, t.ni>>] = Partial(t, conf.nK)

\* After i pieces of n, n * i are reached, or all.
Reached(n, i) == MinOf(n * i, IF IsHost THEN Total ELSE nTiles)
Progress(a, n) ==
    IF IsHost THEN Added(a, Reached(BATCH, n))
    ELSE IF IsChain THEN Done(a, Reached(GroupCap, n))
    ELSE Done(a, Reached(BATCH, n \div conf.nK))

\* The accumulator has what the batches read so far gave.
AccInv == calling => Progress(acc, consumed)

\* The inductive invariant.
IInv == TypeInv /\ CountInv /\ BufferInv /\ CleanInv /\ OutInv /\ AccInv /\ MatchesOracle

-----------------------------------------------------------------------------
(* The invariant reads the batches and its constants the same after every  *)
(* step: the configuration never changes.                                  *)

\* What a step leaves the same.
LEMMA Same ==
    ASSUME conf' = conf
    PROVE  /\ TaskSet' = TaskSet /\ Memory' = Memory /\ Sums' = Sums /\ Cell' = Cell
           /\ Depth' = Depth /\ Batches' = Batches /\ N' = N
           /\ IsHost' = IsHost /\ IsChain' = IsChain /\ Oracle' = Oracle
           /\ NpuSums' = NpuSums
           /\ \A i : JobOf(i)' = JobOf(i)
           /\ \A i : Right(out, i)' = Right(out', i)
           /\ \A i : Addends(out, i)' = Addends(out', i)
<1>1. Batches' = Batches /\ N' = N
  BY ConfSame
<1>2. IsHost' = IsHost /\ IsChain' = IsChain /\ NpuSums' = NpuSums /\ Depth' = Depth
  BY DEF IsHost, IsChain, ChainEngaged, NpuSums, Depth
<1>3. TileSet' = TileSet /\ TaskSet' = TaskSet /\ Cell' = Cell
  BY DEF TileSet, TaskSet, Cell
<1>4. Operand' = Operand
  BY <1>3 DEF Operand, Data, Weight, Dims
<1>5. \A i : JobOf(i)' = JobOf(i)
  BY <1>1 DEF JobOf
<1>6. \A t, k : Partial(t, k)' = Partial(t, k) /\ Pair(t)' = Pair(t)
  BY DEF Partial, Pair, Data, Weight, Dims, Tile
<1>7. \A t : Before(t)' = Before(t) /\ After(t)' = After(t)
  BY <1>2, <1>6 DEF Before, After
<1>8. \A i : FlatLen(i)' = FlatLen(i) /\ FlatDst(i)' = FlatDst(i) /\ FlatAdd(i)' = FlatAdd(i)
  BY <1>2 DEF FlatLen, FlatDst, FlatAdd, HostLen, StepLen, Total, nTiles, GroupOf, KOf,
              HostDst, Pairs
<1>9. \A i : FlatTiles(i)' = FlatTiles(i)
  BY <1>2 DEF FlatTiles, HostTiles, StepTiles, HostLen, StepLen, Total, nTiles, GroupOf, KOf,
              StepBase, StepMode, GroupTile, HostOrder, HostMode, ReuseMode, ReuseOk,
              OracleOrder, WeightOrder, DataOrder
<1>10. \A i : ChainLen(i)' = ChainLen(i) /\ ChainBase(i)' = ChainBase(i)
  BY DEF ChainLen, ChainBase, GroupCap, nTiles
<1>11. Final' = Final /\ ChainMode' = ChainMode
  BY DEF Final, ChainMode, ReuseMode, ReuseOk
<1>12. \A n, k, m : GroupTile(n, k, m)' = GroupTile(n, k, m)
  BY DEF GroupTile
<1>13. \A i : Right(out, i)' = Right(out', i)
  BY <1>2, <1>6, <1>7, <1>8, <1>9, <1>10, <1>11, <1>12 DEF Right
<1>14. \A i : Addends(out, i)' = Addends(out', i)
  BY <1>2, <1>7, <1>8, <1>9 DEF Addends
<1>15. Oracle' = Oracle
  BY <1>3, <1>6 DEF Oracle, Data, Weight, Dims
<1> QED BY <1>1, <1>2, <1>3, <1>4, <1>5, <1>13, <1>14, <1>15 DEF Memory, Sums

-----------------------------------------------------------------------------
(* What a submitted job does to the batches the host still counts on.      *)

\* A job is the job of some batch, and finds tasks in its buffer.
IsRun(j, tasks) ==
    /\ j.chained \in BOOLEAN /\ Len(tasks) \in Nat /\ tasks \in [1 .. Len(tasks) -> TaskSet]
    /\ tasks = RunsNow(j)
    /\ Len(tasks) = IF j.chained THEN nb[j.rc] ELSE j.n
    /\ \A p \in 1 .. Len(tasks) :
          p - 1 \in Pos /\ tasks[p] = rc[j.rc][p - 1] /\ BuiltAt(j.rc, p - 1, tasks[p])

\* Every job in flight is such a job.
LEMMA JobTypes ==
    ASSUME TypeInv, BufferInv, NEW x \in DOMAIN jobs
    PROVE  \E e \in 1 .. N : jobs[x] = JobOf(e) /\ IsRun(JobOf(e), RunsNow(JobOf(e)))
<1>1. PICK e \in 1 .. N : jobs[x] = JobOf(e)
  BY DEF TypeInv
<1> DEFINE j == JobOf(e)
           n == IF j.chained THEN nb[j.rc] ELSE j.n
<1>2. IsBatch(e, Batches[e]) /\ BATCH \in Nat
  BY BatchFacts, ConfFacts DEF TypeInv
<1>3. /\ j.chained \in BOOLEAN /\ j.rc \in RcBufs /\ j.n \in 1 .. BATCH /\ j.ins \cap j.outs = {}
  BY <1>2 DEF JobOf, IsBatch
<1>4. n \in 0 .. BATCH
  BY <1>2, <1>3 DEF TypeInv
<1>5. ASSUME NEW p \in 1 .. n
      PROVE  /\ p - 1 \in Pos /\ rc[j.rc][p - 1] \in TaskSet
             /\ BuiltAt(j.rc, p - 1, rc[j.rc][p - 1])
  <2>1. p - 1 \in Pos /\ p - 1 \in Range0(n)
    BY <1>2, <1>4 DEF Pos, Range0
  <2>2. rc[j.rc][p - 1] # NoTask
    <3>1. CASE j.chained
      <4>1. n = nb[j.rc] /\ nb[j.rc] # 0
        BY <1>2, <1>4, <3>1
      <4>2. PICK i \in 1 .. N : Batches[i].rc = j.rc /\ Held(i)
        BY <1>3, <4>1 DEF BufferInv
      <4>3. IsBatch(i, Batches[i])
        BY BatchFacts DEF TypeInv
      <4>4. p \in 1 .. Len(Batches[i].tasks) /\ rc[j.rc][p - 1] = Batches[i].tasks[p]
        BY <4>1, <4>2 DEF Held
      <4>5. Batches[i].tasks[p] \in TaskSet
        BY <4>3, <4>4 DEF IsBatch
      <4> QED BY <4>4, <4>5 DEF TaskSet, NoTask
    <3>2. CASE ~j.chained
      <4>1. n = j.n /\ j = jobs[x]
        BY <1>1, <3>2
      <4> QED BY <2>1, <4>1 DEF BufferInv
    <3> QED BY <3>1, <3>2
  <2>3. BuiltAt(j.rc, p - 1, rc[j.rc][p - 1])
    BY <1>3, <2>1, <2>2 DEF BufferInv
  <2> QED BY <2>1, <2>3 DEF BuiltAt
<1>6. RunsNow(j) = [p \in 1 .. n |-> rc[j.rc][p - 1]]
  BY <1>3 DEF RunsNow
<1> HIDE DEF n, j
<1>7. RunsNow(j) \in [1 .. n -> TaskSet] /\ Len(RunsNow(j)) = n /\ n \in Nat
  BY <1>4, <1>5, <1>6
<1>8. IsRun(j, RunsNow(j))
  BY <1>3, <1>5, <1>6, <1>7 DEF IsRun, n
<1> QED BY <1>1, <1>8 DEF j

\* A batch's first task adds to nothing, or to what the batch before it left.
LEMMA NoAddend ==
    ASSUME conf \in Conf, ~IsChain, NEW i \in 1 .. N, FlatAdd(i) = "none",
           NEW p \in 1 .. FlatLen(i)
    PROVE  Before(FlatTiles(i)[p]) = <<>>
<1>1. FlatTiles(i)[p] \in TileSet
  BY FlatBatch
<1>2. CASE IsHost
  BY <1>2 DEF Before
<1>3. CASE ~IsHost
  <2>1. IsStepped
    BY <1>3, ConfFacts DEF IsStepped, IsHost, NpuSums
  <2>2. /\ KOf(i) \in Range0(conf.nK) /\ StepBase(i) \in Nat /\ StepLen(i) \in 1 .. BATCH
        /\ StepBase(i) + StepLen(i) <= nTiles
    BY <2>1, StepBatch
  <2>3. KOf(i) \in Nat /\ nTiles \in Nat /\ BATCH \in Nat
    BY <2>2, ConfFacts DEF Range0
  <2>4. KOf(i) = 0
    <3>1. KOf(i) > 0 => Addend(KOf(i)) = PingPong(KOf(i) - 1) /\ KOf(i) - 1 \in Nat
      BY <2>3, PingPongType
    <3>2. KOf(i) > 0 => PingPong(KOf(i) - 1) \in {"ping", "pong"}
      BY <3>1, PingPongType
    <3> QED BY <1>3, <2>3, <3>1, <3>2 DEF FlatAdd
  <2>5. FlatTiles(i)[p] = GroupTile(StepBase(i) + p - 1, KOf(i), StepMode)
    BY <1>3 DEF FlatTiles, FlatLen, StepTiles
  <2>6. FlatTiles(i)[p].ki = 0
    <3>1. StepBase(i) + p - 1 \in 0 .. nTiles - 1
      BY <1>3, <2>2, <2>3 DEF FlatLen
    <3> QED BY <2>2, <2>4, <2>5, <3>1, GroupTiles
  <2> QED BY <1>1, <1>3, <2>6, PartialFacts DEF Before
<1> QED BY <1>2, <1>3

\* A job from the buffer a batch is held in runs the batch, or its first
\* tasks: what was right stays right, and the batch's own job makes it right.
LEMMA JobOfSame ==
    ASSUME TypeInv, BufferInv, NEW i \in 1 .. N, Held(i), NEW e \in 1 .. N,
           IsRun(JobOf(e), RunsNow(JobOf(e))), JobOf(e).rc = Batches[i].rc,
           Addends(out, i),
           NEW ran, Runs(ran, RunsNow(JobOf(e)), JobOf(e).chained),
           NEW o, o = ran[Len(RunsNow(JobOf(e)))].out
    PROVE  /\ Addends(o, i)
           /\ Right(out, i) \/ JobOf(e) = JobOf(i) => Right(o, i)
<1> DEFINE j == JobOf(e)
           tasks == RunsNow(j)
           n == Len(tasks)
           own == Batches[i].tasks
           chained == j.chained
<1>0. conf \in Conf /\ BATCH \in Nat /\ IsBatch(i, Batches[i]) /\ IsBatch(e, Batches[e])
  BY BatchFacts, ConfFacts DEF TypeInv
<1>1. /\ n \in Nat /\ tasks \in [1 .. n -> TaskSet] /\ chained \in BOOLEAN
      /\ n = IF chained THEN nb[j.rc] ELSE j.n
      /\ \A p \in 1 .. n : p - 1 \in Pos /\ tasks[p] = rc[j.rc][p - 1] /\ BuiltAt(j.rc, p - 1, tasks[p])
      /\ j.rc = Batches[i].rc
  BY DEF IsRun
<1>2. /\ nb[j.rc] = Len(own) /\ Len(own) \in 1 .. BATCH
      /\ \A p \in 1 .. Len(own) : rc[j.rc][p - 1] = own[p]
  BY <1>0, <1>1 DEF Held, IsBatch
<1>t. \A p \in 1 .. n : p \in 1 .. Len(own) => tasks[p] = own[p]
  BY <1>1, <1>2
<1>3. Keeps(chained, RunMode) /\ (IsChain => chained = TRUE)
  BY <1>0 DEF IsBatch, JobOf
<1>j. j = JobOf(i) => n = Len(own)
  BY <1>1, <1>2 DEF JobOf
<1>r. Runs(ran, tasks, chained) /\ o = ran[n].out
  OBVIOUS
<1>s. j = JobOf(e)
  OBVIOUS
<1> HIDE DEF j, tasks, n, own, chained
<1>4. CASE IsChain
  <2>1. n = Len(own) /\ own \in [1 .. Len(own) -> TaskSet]
    BY <1>0, <1>1, <1>2, <1>3, <1>4 DEF IsBatch, own
  <2>2. tasks = own
    <3> DEFINE S == 1 .. n
    <3>1. \A p \in S : tasks[p] = own[p]
      BY <1>t, <2>1
    <3>2. tasks \in [S -> TaskSet] /\ own \in [S -> TaskSet]
      BY <1>1, <2>1
    <3> HIDE DEF S
    <3>3. tasks = [p \in S |-> tasks[p]] /\ own = [p \in S |-> own[p]]
      BY <3>2
    <3> QED BY <3>1, <3>3
  <2>3. own = ChainTasks(i)
    <3>1. Batches[i] = Batch("rc0", ChainTasks(i), {}, {"ping", "pong"}, Final,
                            (conf.nK - 1) * ChainLen(i) + 1
                              .. (conf.nK - 1) * ChainLen(i) + ChainLen(i), TRUE)
      BY <1>0, <1>4, ChainBatch
    <3> QED BY <3>1 DEF own, Batch
  <2>4. Keeps(chained, ChainMode)
    BY <1>3, <1>4 DEF RunMode
  <2>5. Runs(ran, ChainTasks(i), chained) /\ o = ran[Len(ChainTasks(i))].out
    BY <1>r, <2>2, <2>3 DEF n
  <2>6. \A p \in 1 .. ChainLen(i) :
           o[Final][p - 1] = Partial(GroupTile(ChainBase(i) + p - 1, 0, ChainMode), conf.nK)
    BY <1>0, <1>4, <2>4, <2>5, ChainRuns
  <2>7. Right(o, i)
    BY <1>4, <2>6 DEF Right
  <2>8. Addends(o, i)
    BY <1>4 DEF Addends
  <2> QED BY <2>7, <2>8
<1>5. CASE ~IsChain
  <2> DEFINE l == FlatLen(i)
             dst == FlatDst(i)
             add == FlatAdd(i)
             len == MinOf(l, n)
  <2>1. /\ l \in 1 .. BATCH /\ dst \in OutBufs /\ add \in {"none", "ping", "pong"} /\ add # dst
        /\ IsJob(own, l, FlatTiles(i), dst, add, RunMode)
    BY <1>0, <1>5, FlatBatch DEF own
  <2>2. /\ Len(own) = l
        /\ \A p \in 1 .. l : own[p].t = FlatTiles(i)[p] /\ own[p].dst = dst /\ own[p].add = add
    BY <2>1 DEF IsJob
  <2>a. add # "none" => \A p \in 1 .. l : out[add][p - 1] = Before(FlatTiles(i)[p])
    BY <1>5 DEF Addends
  <2>b. Right(out, i) => \A p \in 1 .. l : out[dst][p - 1] = After(FlatTiles(i)[p])
    BY <1>5 DEF Right
  <2>c. /\ (add # "none" => \A p \in 1 .. l : o[add][p - 1] = Before(FlatTiles(i)[p]))
              => Addends(o, i)
        /\ (\A p \in 1 .. l : o[dst][p - 1] = After(FlatTiles(i)[p])) => Right(o, i)
    BY <1>5 DEF Addends, Right
  <2>n. add = "none" => \A p \in 1 .. l : Before(FlatTiles(i)[p]) = <<>>
    BY <1>0, <1>5, NoAddend
  <2> HIDE DEF l, dst, add
  <2>3. len \in 0 .. l /\ len \in 0 .. n /\ (len = l \/ len = n) /\ l \in Nat
    BY <1>1, <2>1 DEF MinOf
  <2>m. n < l => j # JobOf(i)
    BY <1>j, <1>1, <2>1, <2>2
  <2>w. len # l => n < l
    BY <1>1, <2>1 DEF MinOf
  <2> HIDE DEF len
  <2>4. \A p \in 1 .. len : tasks[p] = own[p]
    <3>1. \A p \in 1 .. len : p \in 1 .. n /\ p \in 1 .. Len(own)
      BY <1>1, <2>2, <2>3
    <3> QED BY <1>t, <3>1
  <2>5. Own(tasks, len, chained)
    <3>1. Follows(own, Len(own), RunMode)
      BY <1>0 DEF IsBatch, own
    <3>2. Follows(tasks, len, RunMode)
      <4> SUFFICES ASSUME NEW p \in 1 .. len
                   PROVE  /\ tasks[p].wr => p > 1 /\ WReuse(RunMode, tasks[p - 1].t, tasks[p].t)
                          /\ tasks[p].dr => p > 1 /\ DReuse(RunMode, tasks[p - 1].t, tasks[p].t)
        BY DEF Follows
      <4>1. p \in 1 .. Len(own) /\ tasks[p] = own[p] /\ (p > 1 => p - 1 \in 1 .. len)
        BY <2>2, <2>3, <2>4
      <4>2. p > 1 => tasks[p - 1] = own[p - 1]
        BY <2>4, <4>1
      <4> QED BY <3>1, <4>1, <4>2 DEF Follows
    <3> QED BY <1>3, <2>3, <3>2 DEF Own, n
  <2>6. FlatJob(tasks, len, dst, add)
    <3>1. \A k \in 1 .. n : tasks[k].slot = k - 1
      BY <1>1, <1>5 DEF BuiltAt
    <3>2. \A k \in 1 .. len : tasks[k].dst = dst /\ tasks[k].add = add
      BY <2>2, <2>3, <2>4
    <3> QED BY <3>1, <3>2 DEF FlatJob, n
  <2>7. \A q \in 1 .. len :
          /\ o[dst][q - 1] = Append(IF add = "none" THEN <<>> ELSE out[add][q - 1], Pair(tasks[q].t))
          /\ add # "none" => o[add][q - 1] = out[add][q - 1]
    <3>1. /\ conf \in Conf /\ Runs(ran, tasks, chained) /\ Own(tasks, len, chained)
          /\ dst \in OutBufs /\ add \in {"none", "ping", "pong"} /\ add # dst
          /\ FlatJob(tasks, len, dst, add)
      BY <1>0, <1>r, <2>1, <2>5, <2>6
    <3>2. \A q \in 1 .. len : FlatLeft(ran[Len(tasks)].out, tasks, q, dst, add)
      BY <3>1, FlatRun
    <3>3. o = ran[Len(tasks)].out
      BY <1>r DEF n
    <3> QED BY <3>2, <3>3 DEF FlatLeft
  <2>8. ASSUME NEW q \in 1 .. l, q > len, NEW b \in OutBufs PROVE o[b][q - 1] = out[b][q - 1]
    <3>1. len = n /\ q - 1 \in Pos
      BY <1>0, <1>1, <2>1, <2>3, <2>8 DEF Pos, Range0
    <3>2. \A k \in 1 .. Len(tasks) : tasks[k].dst # b \/ tasks[k].slot # q - 1
      BY <1>1, <2>3, <2>6, <2>8, <3>1 DEF FlatJob, n
    <3>3. ran[Len(tasks)].out[b][q - 1] = out[b][q - 1]
      BY <1>0, <1>r, <3>1, <3>2, Untouched
    <3> QED BY <1>r, <3>3 DEF n
  <2>9. ASSUME NEW q \in 1 .. l
        PROVE  /\ Right(out, i) \/ j = JobOf(i) => o[dst][q - 1] = After(FlatTiles(i)[q])
               /\ add # "none" => o[add][q - 1] = Before(FlatTiles(i)[q])
    <3>1. CASE q \in 1 .. len
      <4>1. tasks[q].t = FlatTiles(i)[q]
        BY <2>2, <2>4, <3>1
      <4>2. (IF add = "none" THEN <<>> ELSE out[add][q - 1]) = Before(FlatTiles(i)[q])
        BY <2>a, <2>n
      <4> QED BY <2>7, <2>a, <3>1, <4>1, <4>2 DEF After
    <3>2. CASE q \notin 1 .. len
      <4>1. q > len /\ n < l
        BY <2>3, <2>w, <3>2
      <4>2. o[dst][q - 1] = out[dst][q - 1] /\ (add # "none" => o[add][q - 1] = out[add][q - 1])
        <5>1. add # "none" => add \in OutBufs
          BY <2>1 DEF OutBufs
        <5> QED BY <2>1, <2>8, <4>1, <5>1
      <4> QED BY <2>a, <2>b, <2>m, <4>1, <4>2
    <3> QED BY <3>1, <3>2
  <2> QED BY <1>s, <2>c, <2>9
<1> QED BY <1>4, <1>5

\* A job from another buffer leaves a batch alone.
LEMMA JobOfOther ==
    ASSUME TypeInv, BufferInv, NEW i \in 1 .. N, NEW e \in 1 .. N,
           IsRun(JobOf(e), RunsNow(JobOf(e))), JobOf(e).rc # Batches[i].rc,
           NEW ran, Runs(ran, RunsNow(JobOf(e)), JobOf(e).chained),
           NEW o, o = ran[Len(RunsNow(JobOf(e)))].out
    PROVE  Addends(o, i) /\ (Right(out, i) => Right(o, i))
<1> DEFINE j == JobOf(e)
           tasks == RunsNow(j)
           n == Len(tasks)
<1>0. conf \in Conf /\ BATCH \in Nat /\ IsBatch(i, Batches[i]) /\ IsBatch(e, Batches[e])
  BY BatchFacts, ConfFacts DEF TypeInv
<1>1. IsHost /\ ~IsChain
  BY <1>0 DEF IsBatch, JobOf, IsHost, IsChain
<1>2. FlatDst(i) = OutOf(Batches[i].rc) /\ FlatDst(i) \in OutBufs /\ FlatLen(i) \in 1 .. BATCH
  <2>1. Batches[i].wait = FlatDst(i) /\ FlatDst(i) \in OutBufs /\ FlatLen(i) \in 1 .. BATCH
    BY <1>0, <1>1, FlatBatch
  <2> QED BY <1>0, <1>1, <2>1 DEF IsBatch
<1>3. \A p \in 1 .. n : tasks[p].dst = OutOf(j.rc)
  BY <1>1 DEF IsRun, BuiltAt
<1>4. OutOf(j.rc) # FlatDst(i)
  BY <1>0, <1>2 DEF OutOf, IsBatch, JobOf, RcBufs
<1>5. ASSUME NEW p \in 1 .. FlatLen(i) PROVE o[FlatDst(i)][p - 1] = out[FlatDst(i)][p - 1]
  <2>1. p - 1 \in Pos
    BY <1>0, <1>2 DEF Pos, Range0
  <2> DEFINE q == p - 1
             b == FlatDst(i)
  <2>2. q \in Pos /\ b \in OutBufs /\ \A k \in 1 .. Len(tasks) : tasks[k].dst # b \/ tasks[k].slot # q
    BY <1>2, <1>3, <1>4, <2>1
  <2>3. Runs(ran, tasks, j.chained) /\ o = ran[Len(tasks)].out
    OBVIOUS
  <2> HIDE DEF q, b, tasks, n, j
  <2>4. ran[Len(tasks)].out[b][q] = out[b][q]
    BY <1>0, <2>2, <2>3, Untouched
  <2> QED BY <2>3, <2>4 DEF q, b
<1>6. FlatAdd(i) = "none"
  BY <1>1 DEF FlatAdd
<1> QED BY <1>1, <1>5, <1>6 DEF Right, Addends

-----------------------------------------------------------------------------
(* Lists of jobs, and what the host reads of a batch.                      *)

\* What is left of a sequence when element i is taken out.
IsRest(s, i, r) ==
    /\ \A x \in DOMAIN r : \E y \in DOMAIN s : y # i /\ r[x] = s[y]
    /\ \A y \in DOMAIN s : y # i => \E x \in DOMAIN r : r[x] = s[y]

\* RemoveAt takes one element out.
LEMMA RemoveAtFacts ==
    ASSUME NEW S, NEW s \in Seq(S), NEW i \in DOMAIN s
    PROVE  RemoveAt(s, i) \in Seq(S) /\ IsRest(s, i, RemoveAt(s, i))
<1> DEFINE n == Len(s)
           a == SubSeq(s, 1, i - 1)
           b == SubSeq(s, i + 1, n)
           r == a \o b
<1>1. n \in Nat /\ i \in 1 .. n /\ DOMAIN s = 1 .. n /\ \A x \in 1 .. n : s[x] \in S
  OBVIOUS
<1>2. a \in Seq(S) /\ Len(a) = i - 1 /\ \A x \in 1 .. i - 1 : a[x] = s[x]
  BY <1>1
<1>3. b \in Seq(S) /\ Len(b) = n - i /\ \A x \in 1 .. n - i : b[x] = s[i + x]
  <2> DEFINE m == i + 1
  <2>1. m \in Nat \ {0} /\ n \in Nat
    BY <1>1
  <2>2. \A y \in m .. n : s[y] \in S
    BY <1>1
  <2>3. SubSeq(s, m, n) \in Seq(S)
    <3> HIDE DEF m
    <3> QED BY <2>1, <2>2
  <2>4. Len(SubSeq(s, m, n)) = n - i
    BY <1>1
  <2>5. \A x \in 1 .. n - i : SubSeq(s, m, n)[x] = s[i + x]
    BY <1>1
  <2> QED BY <2>3, <2>4, <2>5
<1> HIDE DEF a, b, n
<1>4. r \in Seq(S) /\ Len(r) = n - 1
      /\ \A x \in 1 .. n - 1 : r[x] = IF x <= i - 1 THEN a[x] ELSE b[x - (i - 1)]
  <2>1. r \in Seq(S)
    BY <1>2, <1>3
  <2>2. Len(r) = n - 1
    <3>1. Len(r) = Len(a) + Len(b)
      <4>1. a \in Seq(S) /\ b \in Seq(S)
        BY <1>2, <1>3
      <4> QED BY <4>1
    <3> HIDE DEF r
    <3> QED BY <1>1, <1>2, <1>3, <3>1
  <2>3. \A x \in 1 .. n - 1 : r[x] = IF x <= i - 1 THEN a[x] ELSE b[x - (i - 1)]
    BY <1>1, <1>2, <1>3
  <2> QED BY <2>1, <2>2, <2>3
<1>5. RemoveAt(s, i) = r
  BY DEF RemoveAt, a, b, n
<1> HIDE DEF r
<1>6. \A x \in 1 .. n - 1 : r[x] = IF x < i THEN s[x] ELSE s[x + 1]
  <2> TAKE x \in 1 .. n - 1
  <2>1. CASE x < i
    <3>1. x \in 1 .. i - 1 /\ x <= i - 1
      BY <1>1, <2>1
    <3> QED BY <1>2, <1>4, <2>1, <3>1
  <2>2. CASE ~(x < i)
    <3> DEFINE y == x - (i - 1)
    <3>1. y \in 1 .. n - i /\ i + y = x + 1 /\ ~(x <= i - 1)
      BY <1>1, <2>2
    <3>2. b[y] = s[x + 1]
      <4> HIDE DEF y
      <4> QED BY <1>3, <3>1
    <3> QED BY <1>4, <2>2, <3>1, <3>2
  <2> QED BY <2>1, <2>2
<1>7. DOMAIN r = 1 .. n - 1
  BY <1>4
<1>8. ASSUME NEW x \in 1 .. n - 1 PROVE \E y \in 1 .. n : y # i /\ r[x] = s[y]
  <2>1. CASE x < i
    BY <1>1, <1>6, <2>1
  <2>2. CASE ~(x < i)
    <3>1. x + 1 \in 1 .. n /\ x + 1 # i
      BY <1>1, <2>2
    <3> QED BY <1>6, <2>2, <3>1
  <2> QED BY <2>1, <2>2
<1>9. ASSUME NEW y \in 1 .. n, y # i PROVE \E x \in 1 .. n - 1 : r[x] = s[y]
  <2>1. CASE y < i
    <3>1. y \in 1 .. n - 1
      BY <1>1, <2>1
    <3> QED BY <1>6, <2>1, <3>1
  <2>2. CASE ~(y < i)
    <3> DEFINE x == y - 1
    <3>1. x \in 1 .. n - 1 /\ ~(x < i) /\ x + 1 = y
      BY <1>1, <1>9, <2>2
    <3> HIDE DEF x
    <3> QED BY <1>6, <3>1
  <2> QED BY <2>1, <2>2
<1> QED BY <1>1, <1>4, <1>5, <1>7, <1>8, <1>9 DEF IsRest

\* The CPU takes the slots of a batch one after the other.
Takes(up, b) ==
    /\ up \in [0 .. Len(b.tasks) -> [Cell -> Sums]]
    /\ up[0] = acc
    /\ \A p \in 1 .. Len(b.tasks) : up[p] = TakeSlot(up[p - 1], b, p)

\* v is the accumulator `so' with what slot p of batch b gives.
IsTake(v, so, b, p) ==
    v = IF p \notin b.reads THEN so
        ELSE [so EXCEPT ![<<b.tasks[p].t.mi, b.tasks[p].t.ni>>] =
                IF NpuSums THEN out[b.wait][b.tasks[p].slot]
                ELSE @ \o out[b.wait][b.tasks[p].slot]]

\* What one slot gives.
LEMMA TakeSlotType ==
    ASSUME TypeInv, NEW i \in 1 .. N, Held(i), NEW so \in [Cell -> Sums],
           NEW p \in 1 .. Len(Batches[i].tasks)
    PROVE  /\ <<Batches[i].tasks[p].t.mi, Batches[i].tasks[p].t.ni>> \in Cell
           /\ out[Batches[i].wait][Batches[i].tasks[p].slot] \in Sums
           /\ TakeSlot(so, Batches[i], p) \in [Cell -> Sums]
           /\ IsTake(TakeSlot(so, Batches[i], p), so, Batches[i], p)
<1> DEFINE b == Batches[i]
           task == b.tasks[p]
           cell == <<task.t.mi, task.t.ni>>
           value == out[b.wait][task.slot]
<1>1. IsBatch(i, b) /\ conf \in Conf
  BY BatchFacts DEF TypeInv
<1>2. task \in TaskSet /\ b.wait \in OutBufs
  <2>1. b.wait \in b.outs
    BY <1>1 DEF IsBatch
  <2>2. b.wait \in OutBufs
    <3>1. CASE IsChain
      <4>1. b = Batch("rc0", ChainTasks(i), {}, {"ping", "pong"}, Final,
                      (conf.nK - 1) * ChainLen(i) + 1
                        .. (conf.nK - 1) * ChainLen(i) + ChainLen(i), TRUE)
        BY <1>1, <3>1, ChainBatch
      <4>2. b.outs = {"ping", "pong"}
        BY <4>1 DEF Batch
      <4> QED BY <2>1, <4>2 DEF OutBufs
    <3>2. CASE ~IsChain
      BY <1>1, <3>2, FlatBatch
    <3> QED BY <3>1, <3>2
  <2> QED BY <1>1, <2>2 DEF IsBatch
<1>3. cell \in Cell /\ task.slot \in Pos
  BY <1>2 DEF TaskSet, TileSet, Cell
<1>4. value \in Sums
  <2> HIDE DEF b, task
  <2> QED BY <1>2, <1>3 DEF TypeInv, Memory
<1>5. rc[b.rc][p - 1] = task
  BY DEF Held
<1>6. TakeSlot(so, b, p) =
        IF p \notin b.reads THEN so
        ELSE [so EXCEPT ![cell] = IF NpuSums THEN value ELSE @ \o value]
  <2> HIDE DEF b
  <2> QED BY <1>5 DEF TakeSlot
<1>7. so[cell] \o value \in Sums
  <2>1. so[cell] \in Sums
    BY <1>3
  <2> HIDE DEF value, cell
  <2> QED BY <1>4, <2>1 DEF Sums
<1> HIDE DEF cell, value, task, b
<1>8. TakeSlot(so, b, p) \in [Cell -> Sums]
  BY <1>3, <1>4, <1>6, <1>7
<1> QED BY <1>3, <1>4, <1>6, <1>8 DEF cell, value, task, b, IsTake

\* The CPU takes a batch slot by slot.
LEMMA TakenRuns ==
    ASSUME TypeInv, NEW i \in 1 .. N, Held(i)
    PROVE  \E up : Takes(up, Batches[i]) /\ Taken(Batches[i]) = up[Len(Batches[i].tasks)]
<1> DEFINE b == Batches[i]
           n == Len(b.tasks)
           S == [Cell -> Sums]
           step == [k \in 1 .. n |-> [m \in S |-> TakeSlot(m, b, k)]]
<1>n. n \in Nat
  <2>1. IsBatch(i, b)
    BY BatchFacts DEF TypeInv
  <2>2. BATCH \in Nat
    BY ConfFacts DEF TypeInv
  <2> QED BY <2>1, <2>2 DEF IsBatch
<1>t. \A k \in 1 .. n, m \in S : TakeSlot(m, b, k) \in S
  BY TakeSlotType
<1>b. b = Batches[i] /\ n = Len(b.tasks) /\ acc \in S
  BY DEF TypeInv
<1> HIDE DEF n, S, b
<1>1. IsStep(n, S, step)
  BY <1>t DEF IsStep
<1>3. PICK f : Computes(f, n, S, acc, step)
  <2> HIDE DEF step
  <2> QED BY <1>1, <1>b, <1>n, StepByStep
<1>4. f = [k \in 0 .. n |-> IF k = 0 THEN acc ELSE TakeSlot(f[k - 1], b, k)]
  <2>1. f \in [0 .. n -> S] /\ f[0] = acc /\ \A k \in 1 .. n : f[k] = step[k][f[k - 1]]
    BY <1>3 DEF Computes
  <2>2. ASSUME NEW k \in 1 .. n PROVE f[k] = TakeSlot(f[k - 1], b, k)
    <3>1. k - 1 \in 0 .. n
      BY <1>n
    <3>2. f[k - 1] \in S
      BY <2>1, <3>1
    <3> QED BY <2>1, <3>2
  <2>3. \A k \in 0 .. n : k # 0 => k \in 1 .. n
    BY <1>n
  <2> HIDE DEF step
  <2> QED BY <2>1, <2>2, <2>3
<1>5. PICK ran : /\ ran = [k \in 0 .. n |-> IF k = 0 THEN acc ELSE TakeSlot(ran[k - 1], b, k)]
                 /\ Taken(b) = ran[n]
  BY <1>4, <1>b DEF Taken
<1> HIDE DEF step
<1> DEFINE P == {k \in 0 .. n : ran[k] \in S}
<1>6. 0 \in P
  BY <1>5, <1>n, <1>b
<1>7. ASSUME NEW k \in 1 .. n PROVE ran[k] = TakeSlot(ran[k - 1], b, k)
  <2>1. k \in 0 .. n /\ k # 0
    BY <1>n
  <2> QED BY <1>5, <2>1
<1>8. ASSUME NEW k \in 0 .. n - 1, k \in P PROVE k + 1 \in P
  <2>1. k + 1 \in 1 .. n /\ k + 1 \in 0 .. n /\ (k + 1) - 1 = k
    BY <1>n
  <2>2. ran[k + 1] = TakeSlot(ran[k], b, k + 1)
    BY <1>7, <2>1
  <2>3. ran[k] \in S
    BY <1>8
  <2>4. ran[k + 1] \in S
    BY <1>t, <2>1, <2>2, <2>3
  <2> QED BY <2>1, <2>4
<1>9. \A k \in 0 .. n : k \in P
  <2> HIDE DEF P
  <2> QED BY <1>6, <1>8, <1>n, UpTo
<1>10. ran \in [0 .. n -> S] /\ ran[0] = acc
  <2>1. 0 \in 0 .. n
    BY <1>n
  <2> QED BY <1>5, <1>9, <2>1
<1> QED BY <1>5, <1>7, <1>10, <1>b DEF Takes, S

-----------------------------------------------------------------------------
(* Every step keeps the invariant: the types and the counters,             *)

\* No step changes the configuration.
LEMMA ConfKept == ASSUME [Next]_vars PROVE conf' = conf
BY DEF Next, BeginCall, Build, BuildFails, Fails, Submit, SubmitFails, Consume, WaitTimesOut,
       Finish, RunJob, vars

\* The number of batches, and the batches, in reach of a step.
LEMMA Counts ==
    ASSUME TypeInv, CountInv
    PROVE  /\ N \in Nat /\ Depth \in {0, 1} /\ BATCH \in Nat \ {0}
           /\ \A i \in 1 .. N : IsBatch(i, Batches[i]) /\ JobOf(i) \in {JobOf(e) : e \in 1 .. N}
           /\ MayBuild => built + 1 \in 1 .. N
           /\ built = submitted + 1 => built \in 1 .. N
           /\ MayConsume => consumed + 1 \in 1 .. N /\ Live(consumed + 1)
<1>1. N \in Nat
  <2>1. CASE IsHost
    BY <2>1, HostBatch DEF TypeInv
  <2>2. CASE IsChain
    BY <2>2, ChainBatch DEF TypeInv
  <2>3. CASE ~IsHost /\ ~IsChain
    <3>1. IsStepped
      BY <2>3, ConfFacts DEF TypeInv, IsStepped, IsHost, NpuSums
    <3> QED BY <3>1, StepBatch DEF TypeInv
  <2> QED BY <2>1, <2>2, <2>3
<1>2. \A i \in 1 .. N : IsBatch(i, Batches[i])
  BY BatchFacts DEF TypeInv
<1>3. BATCH \in Nat \ {0}
  BY ConfFacts DEF TypeInv
<1> QED BY <1>1, <1>2, <1>3 DEF TypeInv, CountInv, MayBuild, MayConsume, Live, Depth

\* What a build leaves in the buffers.
LEMMA BuildTypes ==
    ASSUME TypeInv, CountInv, Build
    PROVE  /\ rc' \in [RcBufs -> [Pos -> TaskSet \cup {NoTask}]]
           /\ nb' \in [RcBufs -> 0 .. BATCH]
           /\ nb'[Batches[built + 1].rc] = Len(Batches[built + 1].tasks)
           /\ \A r \in RcBufs : r # Batches[built + 1].rc => nb'[r] = nb[r] /\ rc'[r] = rc[r]
           /\ \A p \in Pos : rc'[Batches[built + 1].rc][p]
                = IF p < Len(Batches[built + 1].tasks) THEN Batches[built + 1].tasks[p + 1]
                  ELSE rc[Batches[built + 1].rc][p]
<1> DEFINE b == Batches[built + 1]
           new == [p \in Pos |-> IF p < Len(b.tasks) THEN b.tasks[p + 1] ELSE rc[b.rc][p]]
<1>1. IsBatch(built + 1, b) /\ BATCH \in Nat \ {0}
  BY Counts DEF Build
<1>2. /\ rc' = [rc EXCEPT ![b.rc] = new]
      /\ nb' = [nb EXCEPT ![b.rc] = Len(b.tasks)]
  BY DEF Build
<1>3. /\ b.rc \in RcBufs /\ Len(b.tasks) \in 1 .. BATCH /\ Len(b.tasks) \in 0 .. BATCH
      /\ b.tasks \in [1 .. Len(b.tasks) -> TaskSet]
  BY <1>1 DEF IsBatch
<1> HIDE DEF b
<1>4. new \in [Pos -> TaskSet \cup {NoTask}]
  <2> SUFFICES ASSUME NEW p \in Pos
               PROVE  (IF p < Len(b.tasks) THEN b.tasks[p + 1] ELSE rc[b.rc][p]) \in TaskSet \cup {NoTask}
    OBVIOUS
  <2>1. p < Len(b.tasks) => p + 1 \in 1 .. Len(b.tasks)
    BY <1>1, <1>3 DEF Pos, Range0
  <2> QED BY <1>3, <2>1 DEF TypeInv
<1>5. \A p \in Pos : new[p] = IF p < Len(b.tasks) THEN b.tasks[p + 1] ELSE rc[b.rc][p]
  OBVIOUS
<1> HIDE DEF new
<1> QED BY <1>2, <1>3, <1>4, <1>5 DEF TypeInv, b

\* Type correctness is kept.
LEMMA TypeKept ==
    ASSUME TypeInv, CountInv, BufferInv, [Next]_vars
    PROVE  TypeInv'
<1>0. conf' = conf
  BY ConfKept
<1> DEFINE Js == {JobOf(i) : i \in 1 .. N}
<1>1. /\ TaskSet' = TaskSet /\ Memory' = Memory /\ Sums' = Sums /\ Cell' = Cell /\ N' = N
      /\ \A i : JobOf(i)' = JobOf(i)
  BY <1>0, Same
<1>2. {JobOf(i) : i \in 1 .. N}' = Js
  BY <1>1
<1>3. TypeInv' <=>
        /\ conf' \in Conf
        /\ rc' \in [RcBufs -> [Pos -> TaskSet \cup {NoTask}]]
        /\ nb' \in [RcBufs -> 0 .. BATCH]
        /\ out' \in Memory
        /\ acc' \in [Cell -> Sums]
        /\ jobs' \in Seq(Js)
        /\ calling' \in BOOLEAN /\ clean' \in BOOLEAN
        /\ built' \in Nat /\ submitted' \in Nat /\ consumed' \in Nat
  BY <1>1, <1>2 DEF TypeInv
<1> HIDE DEF Js
<1>4. /\ conf \in Conf
      /\ rc \in [RcBufs -> [Pos -> TaskSet \cup {NoTask}]]
      /\ nb \in [RcBufs -> 0 .. BATCH]
      /\ out \in Memory
      /\ acc \in [Cell -> Sums]
      /\ jobs \in Seq(Js)
      /\ calling \in BOOLEAN /\ clean \in BOOLEAN
      /\ built \in Nat /\ submitted \in Nat /\ consumed \in Nat
  BY DEF TypeInv, Js
<1>5. CASE UNCHANGED vars
  BY <1>3, <1>4, <1>5 DEF vars, hostvars
<1>6. CASE BeginCall
  <2>1. [b \in OutBufs |-> [p \in Pos |-> Old]] \in Memory
    BY OldType DEF Memory
  <2>2. <<>> \in Sums
    BY DEF Sums
  <2>3. [c \in Cell |-> <<>>] \in [Cell -> Sums]
    <3> HIDE DEF Cell
    <3> QED BY <2>2
  <2>4. acc' = [c \in Cell |-> <<>>]
    BY <1>6 DEF BeginCall
  <2> QED BY <1>3, <1>4, <1>6, <2>1, <2>3, <2>4 DEF BeginCall
<1>7. CASE Build
  <2>1. /\ rc' \in [RcBufs -> [Pos -> TaskSet \cup {NoTask}]]
        /\ nb' \in [RcBufs -> 0 .. BATCH]
    BY <1>7, BuildTypes
  <2> QED BY <1>3, <1>4, <1>7, <2>1 DEF Build
<1>8. CASE BuildFails \/ SubmitFails \/ WaitTimesOut \/ Finish
  BY <1>3, <1>4, <1>8 DEF BuildFails, SubmitFails, WaitTimesOut, Finish, Fails, Return
<1>9. CASE Submit
  <2>1. built \in 1 .. N
    BY <1>9, Counts DEF Submit
  <2>2. nb[Batches[built].rc] = Len(Batches[built].tasks)
    <3>1. Live(built)
      BY <2>1, <1>4 DEF Live
    <3> QED BY <1>9, <2>1, <3>1 DEF Submit, BufferInv, Held
  <2>3. jobs' = Append(jobs, JobOf(built))
    BY <1>9, <2>2 DEF Submit, JobOf
  <2>4. JobOf(built) \in Js
    BY <2>1 DEF Js
  <2>5. jobs' \in Seq(Js)
    BY <1>4, <2>3, <2>4
  <2> QED BY <1>3, <1>4, <1>9, <2>5 DEF Submit
<1>10. CASE Consume
  <2> DEFINE i == consumed + 1
  <2>1. i \in 1 .. N /\ Live(i)
    BY <1>10, Counts DEF Consume
  <2>2. calling
    BY <1>10 DEF Consume, MayConsume
  <2> HIDE DEF i
  <2>3. Held(i)
    BY <2>1, <2>2 DEF BufferInv
  <2>4. PICK up : Takes(up, Batches[i]) /\ Taken(Batches[i]) = up[Len(Batches[i].tasks)]
    BY <2>1, <2>3, TakenRuns
  <2>5. Len(Batches[i].tasks) \in Nat
    <3>1. IsBatch(i, Batches[i]) /\ BATCH \in Nat
      BY <2>1, Counts
    <3> QED BY <3>1 DEF IsBatch
  <2>6. Taken(Batches[i]) \in [Cell -> Sums]
    BY <2>4, <2>5 DEF Takes
  <2>7. acc' \in [Cell -> Sums]
    BY <1>10, <2>6 DEF Consume, i
  <2> QED BY <1>3, <1>4, <1>10, <2>7 DEF Consume
<1>11. ASSUME NEW x \in DOMAIN jobs, RunJob(x) PROVE TypeInv'
  <2>1. PICK e \in 1 .. N : jobs[x] = JobOf(e) /\ IsRun(JobOf(e), RunsNow(JobOf(e)))
    BY JobTypes
  <2> DEFINE j == JobOf(e)
             tasks == RunsNow(j)
  <2>2. /\ j.chained \in BOOLEAN /\ Len(tasks) \in Nat /\ tasks \in [1 .. Len(tasks) -> TaskSet]
        /\ j = jobs[x]
    BY <2>1 DEF IsRun
  <2> HIDE DEF j
  <2>3. PICK ran : Runs(ran, tasks, j.chained) /\ AfterTasks(tasks, j.chained) = ran[Len(tasks)]
    <3> HIDE DEF tasks
    <3> QED BY <1>4, <2>2, JobRuns
  <2>4. ran[Len(tasks)] \in Machine
    BY <2>3 DEF Runs
  <2>5. out' = AfterTasks(tasks, j.chained).out
    BY <1>11, <2>2 DEF RunJob
  <2>6. out' \in Memory
    BY <2>3, <2>4, <2>5 DEF Machine
  <2>7. jobs' \in Seq(Js)
    <3>1. RemoveAt(jobs, x) \in Seq(Js)
      BY <1>4, RemoveAtFacts
    <3> QED BY <1>11, <3>1 DEF RunJob
  <2> QED BY <1>3, <1>4, <1>11, <2>6, <2>7 DEF RunJob, hostvars
<1> QED BY <1>5, <1>6, <1>7, <1>8, <1>9, <1>10, <1>11 DEF Next

\* So are the counters.
LEMMA CountKept ==
    ASSUME TypeInv, CountInv, [Next]_vars
    PROVE  CountInv'
<1>0. conf' = conf
  BY ConfKept
<1>1. N' = N /\ Depth' = Depth
  BY <1>0, Same
<1>2. N \in Nat /\ Depth \in {0, 1}
  BY Counts
<1>3. /\ built \in Nat /\ submitted \in Nat /\ consumed \in Nat
      /\ consumed <= submitted /\ submitted <= built /\ built <= N
      /\ built <= submitted + 1 /\ built <= consumed + Depth + 1
  BY DEF TypeInv, CountInv
<1>4. CountInv' <=>
        /\ consumed' <= submitted' /\ submitted' <= built' /\ built' <= N
        /\ built' <= submitted' + 1 /\ built' <= consumed' + Depth + 1
  BY <1>1 DEF CountInv
<1> HIDE DEF Depth, N
<1>5. CASE UNCHANGED hostvars
  BY <1>3, <1>4, <1>5 DEF hostvars
<1>6. CASE BeginCall
  BY <1>2, <1>4, <1>6 DEF BeginCall
<1>7. CASE Build
  BY <1>2, <1>3, <1>4, <1>7 DEF Build, MayBuild
<1>8. CASE BuildFails \/ SubmitFails \/ WaitTimesOut \/ Finish
  BY <1>3, <1>4, <1>8 DEF BuildFails, SubmitFails, WaitTimesOut, Finish, Fails
<1>9. CASE Submit
  BY <1>2, <1>3, <1>4, <1>9 DEF Submit
<1>10. CASE Consume
  BY <1>2, <1>3, <1>4, <1>10 DEF Consume, MayConsume
<1>11. CASE \E x \in DOMAIN jobs : RunJob(x)
  BY <1>5, <1>11 DEF RunJob
<1>12. UNCHANGED vars => UNCHANGED hostvars
  BY DEF vars
<1> QED BY <1>5, <1>6, <1>7, <1>8, <1>9, <1>10, <1>11, <1>12 DEF Next

-----------------------------------------------------------------------------
(* the register-command buffers,                                           *)

\* Two batches that may be in flight at once use different buffers.
LEMMA NextBuffer ==
    ASSUME conf \in Conf, conf.mode = "pipe", NEW i \in Nat
    PROVE  HostRc(i) # HostRc(i + 1)
<1>1. 1 + ((i - 1) % 2) \in {1, 2} /\ 1 + (((i + 1) - 1) % 2) \in {1, 2}
      /\ (i - 1) % 2 # ((i + 1) - 1) % 2
  OBVIOUS
<1>2. HostRc(i) = <<"rc0", "rc1">>[1 + ((i - 1) % 2)]
      /\ HostRc(i + 1) = <<"rc0", "rc1">>[1 + (((i + 1) - 1) % 2)]
  BY DEF HostRc, Pairs
<1>3. <<"rc0", "rc1">>[1] = "rc0" /\ <<"rc0", "rc1">>[2] = "rc1"
  OBVIOUS
<1> QED BY <1>1, <1>2, <1>3

\* A batch being built is not built over one whose programs may still run.
LEMMA BuildsApart ==
    ASSUME TypeInv, CountInv, MayBuild, NEW i \in 1 .. built, i > consumed
    PROVE  Batches[i].rc # Batches[built + 1].rc
<1>1. /\ built + 1 \in 1 .. N /\ N \in Nat /\ built \in Nat /\ consumed \in Nat
      /\ Depth \in {0, 1} /\ built = submitted /\ consumed + Depth >= submitted
      /\ conf \in Conf
  BY Counts DEF MayBuild, TypeInv
<1>2. Depth = 1 /\ i = built
  BY <1>1
<1>3. conf.mode = "pipe" /\ IsHost
  BY <1>2 DEF Depth, IsHost
<1>4. i \in 1 .. N /\ i \in Nat
  BY <1>1, <1>2
<1>5. Batches[i].rc = HostRc(i) /\ Batches[built + 1].rc = HostRc(built + 1)
  BY <1>1, <1>3, <1>4, Counts DEF IsBatch
<1> QED BY <1>1, <1>2, <1>3, <1>4, <1>5, NextBuffer

\* The buffers stay what they are, or hold one batch more.
LEMMA BufferKept ==
    ASSUME TypeInv, CountInv, BufferInv, [Next]_vars
    PROVE  BufferInv'
<1>0. conf' = conf
  BY ConfKept
<1>1. /\ Batches' = Batches /\ N' = N /\ IsChain' = IsChain /\ IsHost' = IsHost
      /\ TaskSet' = TaskSet
  BY <1>0, Same
<1> DEFINE Holds(i) == /\ nb'[Batches[i].rc] = Len(Batches[i].tasks)
                       /\ \A p \in 1 .. Len(Batches[i].tasks) :
                             rc'[Batches[i].rc][p - 1] = Batches[i].tasks[p]
           B1 == \A r \in RcBufs : nb'[r] = 0 \/ \E i \in 1 .. N : Batches[i].rc = r /\ Holds(i)
           B2 == \A r \in RcBufs : \A p \in Pos : rc'[r][p] # NoTask => BuiltAt(r, p, rc'[r][p])
           B3 == \A x \in DOMAIN jobs' : \A p \in Range0(jobs'[x].n) : rc'[jobs'[x].rc][p] # NoTask
           B4 == calling' => \A i \in 1 .. N : Live(i)' => Holds(i)
<1>2. \A i : Held(i)' <=> Holds(i)
  BY <1>1 DEF Held
<1>3. \A r, p, task : BuiltAt(r, p, task)' = BuiltAt(r, p, task)
  BY <1>1 DEF BuiltAt
<1>4. BufferInv' <=> B1 /\ B2 /\ B3 /\ B4
  <2>1. (\A r \in RcBufs : \A p \in Pos : rc[r][p] # NoTask => BuiltAt(r, p, rc[r][p]))' <=> B2
    BY <1>1 DEF BuiltAt
  <2> HIDE DEF Holds, B2
  <2> QED BY <1>1, <1>2, <2>1 DEF BufferInv
<1>5. /\ \A r \in RcBufs : nb[r] = 0 \/ \E i \in 1 .. N : Batches[i].rc = r /\ Held(i)
      /\ \A r \in RcBufs : \A p \in Pos : rc[r][p] # NoTask => BuiltAt(r, p, rc[r][p])
      /\ \A x \in DOMAIN jobs : \A p \in Range0(jobs[x].n) : rc[jobs[x].rc][p] # NoTask
      /\ calling => \A i \in 1 .. N : Live(i) => Held(i)
  BY DEF BufferInv
<1>s. ASSUME UNCHANGED <<rc, nb>>
      PROVE  /\ B1 /\ B2
             /\ \A i : Holds(i) <=> Held(i)
             /\ UNCHANGED jobs => B3
  BY <1>5, <1>s DEF Held
<1>c. \A i \in 1 .. N : IsBatch(i, Batches[i])
  BY Counts
<1>n. \A task \in TaskSet : task # NoTask
  BY DEF TaskSet, NoTask
<1> HIDE DEF B1, B2, B3, Holds
<1>6. CASE UNCHANGED vars
  <2>1. UNCHANGED <<rc, nb, jobs, calling>> /\ \A i : Live(i)' = Live(i)
    BY <1>6 DEF vars, hostvars, Live
  <2> QED BY <1>4, <1>5, <1>s, <2>1
<1>7. CASE BeginCall
  <2>1. UNCHANGED <<rc, nb, jobs>> /\ \A i : ~Live(i)'
    BY <1>7 DEF BeginCall, Live
  <2> QED BY <1>4, <1>5, <1>s, <2>1
<1>8. CASE Build
  <2> DEFINE k == built + 1
             b == Batches[k]
  <2>0. MayBuild /\ k \in 1 .. N /\ k \in Nat /\ calling
    BY <1>8, Counts DEF Build, MayBuild, TypeInv
  <2>1. /\ nb'[b.rc] = Len(b.tasks)
        /\ \A r \in RcBufs : r # b.rc => nb'[r] = nb[r] /\ rc'[r] = rc[r]
        /\ \A p \in Pos : rc'[b.rc][p] = IF p < Len(b.tasks) THEN b.tasks[p + 1] ELSE rc[b.rc][p]
    BY <1>8, BuildTypes
  <2>2. /\ b.rc \in RcBufs /\ Len(b.tasks) \in 1 .. BATCH /\ Len(b.tasks) \in Nat /\ BATCH \in Nat
        /\ b.tasks \in [1 .. Len(b.tasks) -> TaskSet]
        /\ \A p \in 1 .. Len(b.tasks) :
              /\ ~IsChain => b.tasks[p].slot = p - 1
              /\ IsHost => b.tasks[p].dst = OutOf(b.rc) /\ b.tasks[p].add = "none"
    <3>1. IsBatch(k, b) /\ BATCH \in Nat
      BY <1>c, <2>0, Counts
    <3> HIDE DEF b
    <3> QED BY <3>1 DEF IsBatch
  <2>k. k = built + 1 /\ b = Batches[k]
    OBVIOUS
  <2> HIDE DEF b
  <2>3. ASSUME NEW p \in Pos, p < Len(b.tasks)
        PROVE  p + 1 \in 1 .. Len(b.tasks) /\ b.tasks[p + 1] \in TaskSet /\ (p + 1) - 1 = p
    BY <2>2, <2>3 DEF Pos, Range0
  <2>4. Holds(k)
    <3>1. ASSUME NEW p \in 1 .. Len(b.tasks) PROVE rc'[b.rc][p - 1] = b.tasks[p]
      <4> DEFINE q == p - 1
      <4>1. q \in Pos /\ q < Len(b.tasks) /\ q + 1 = p
        BY <2>2 DEF Pos, Range0
      <4> HIDE DEF q
      <4>2. rc'[b.rc][q] = b.tasks[p]
        BY <2>1, <4>1
      <4> QED BY <4>2 DEF q
    <3> QED BY <2>1, <2>k, <3>1 DEF Holds
  <2>5. ASSUME NEW i \in 1 .. N, Batches[i].rc # b.rc, Held(i) PROVE Holds(i)
    <3>1. Batches[i].rc \in RcBufs
      BY <1>c DEF IsBatch
    <3> QED BY <2>1, <2>5, <3>1 DEF Held, Holds
  <2>6. B1
    <3> SUFFICES ASSUME NEW r \in RcBufs
                 PROVE  nb'[r] = 0 \/ \E i \in 1 .. N : Batches[i].rc = r /\ Holds(i)
      BY DEF B1
    <3>1. CASE r = b.rc
      BY <2>0, <2>4, <2>k, <3>1
    <3>2. CASE r # b.rc
      BY <1>5, <2>1, <2>5, <3>2
    <3> QED BY <3>1, <3>2
  <2>7. B2
    <3> SUFFICES ASSUME NEW r \in RcBufs, NEW p \in Pos, rc'[r][p] # NoTask
                 PROVE  BuiltAt(r, p, rc'[r][p])
      BY DEF B2
    <3>1. CASE r = b.rc /\ p < Len(b.tasks)
      <4>1. rc'[r][p] = b.tasks[p + 1]
        BY <2>1, <3>1
      <4> QED BY <2>2, <2>3, <3>1, <4>1 DEF BuiltAt
    <3>2. CASE ~(r = b.rc /\ p < Len(b.tasks))
      <4>1. rc'[r][p] = rc[r][p]
        BY <2>1, <3>2
      <4> QED BY <1>5, <4>1
    <3> QED BY <3>1, <3>2
  <2>8. B3
    <3> SUFFICES ASSUME NEW x \in DOMAIN jobs, NEW p \in Range0(jobs[x].n)
                 PROVE  rc'[jobs[x].rc][p] # NoTask
      BY <1>8 DEF B3, Build
    <3>1. PICK e \in 1 .. N : jobs[x] = JobOf(e)
      BY DEF TypeInv
    <3>2. p \in Pos /\ jobs[x].rc \in RcBufs
      <4>1. IsBatch(e, Batches[e])
        BY <1>c
      <4>2. jobs[x].rc \in RcBufs /\ jobs[x].n \in 1 .. BATCH
        BY <3>1, <4>1 DEF IsBatch, JobOf
      <4> QED BY <2>2, <4>2 DEF Pos, Range0
    <3>3. rc[jobs[x].rc][p] # NoTask
      BY <1>5
    <3>4. CASE jobs[x].rc = b.rc /\ p < Len(b.tasks)
      BY <1>n, <2>1, <2>3, <3>2, <3>4
    <3>5. CASE ~(jobs[x].rc = b.rc /\ p < Len(b.tasks))
      BY <2>1, <3>2, <3>3, <3>5
    <3> QED BY <3>4, <3>5
  <2>9. ASSUME NEW i \in 1 .. N, Live(i)' PROVE Holds(i)
    <3>1. built' = k /\ consumed' = consumed /\ built \in Nat /\ consumed \in Nat
      BY <1>8 DEF Build, TypeInv
    <3>2. CASE i = k
      BY <2>4, <3>2
    <3>3. CASE i # k
      <4>1. i \in 1 .. built /\ i > consumed
        BY <2>9, <2>k, <3>1, <3>3 DEF Live
      <4>2. Live(i) /\ Batches[i].rc # b.rc
        BY <2>0, <2>k, <4>1, BuildsApart DEF Live
      <4> QED BY <1>5, <2>0, <2>5, <4>2
    <3> QED BY <3>2, <3>3
  <2> QED BY <1>4, <2>6, <2>7, <2>8, <2>9
<1>9. CASE BuildFails \/ SubmitFails \/ WaitTimesOut \/ Finish
  <2>1. UNCHANGED <<rc, nb, jobs>> /\ calling' = FALSE
    BY <1>9 DEF BuildFails, SubmitFails, WaitTimesOut, Finish, Fails, Return
  <2> QED BY <1>4, <1>s, <2>1
<1>10. CASE Submit
  <2>1. UNCHANGED <<rc, nb, calling>> /\ (\A i : Live(i)' = Live(i)) /\ calling
    BY <1>10 DEF Submit, Live
  <2>2. built \in 1 .. N /\ Held(built)
    <3>1. built \in 1 .. N /\ Live(built)
      BY <1>10, Counts DEF Submit, TypeInv, Live
    <3> QED BY <1>5, <2>1, <3>1
  <2> DEFINE b == Batches[built]
             j == [rc |-> b.rc, n |-> nb[b.rc], ins |-> b.ins, outs |-> b.outs,
                   chained |-> b.chained, tasks |-> b.tasks]
  <2>3. jobs' = Append(jobs, j) /\ j.rc = b.rc /\ j.n = Len(b.tasks)
    BY <1>10, <2>2 DEF Submit, Held
  <2>4. ASSUME NEW p \in Range0(Len(b.tasks)) PROVE rc[b.rc][p] # NoTask
    <3>1. IsBatch(built, b) /\ BATCH \in Nat
      BY <1>c, <2>2, Counts
    <3>2. p + 1 \in 1 .. Len(b.tasks) /\ (p + 1) - 1 = p
      <4> HIDE DEF b
      <4> QED BY <3>1 DEF IsBatch, Range0
    <3>3. rc[b.rc][p] = b.tasks[p + 1]
      BY <2>2, <3>2 DEF Held
    <3>4. b.tasks[p + 1] \in TaskSet
      <4> HIDE DEF b
      <4> QED BY <3>1, <3>2 DEF IsBatch
    <3> QED BY <1>n, <3>3, <3>4
  <2> HIDE DEF j, b
  <2>5. \A x \in DOMAIN jobs' : (x \in DOMAIN jobs /\ jobs'[x] = jobs[x]) \/ jobs'[x] = j
    BY <2>3 DEF TypeInv
  <2>6. B3
    <3> SUFFICES ASSUME NEW x \in DOMAIN jobs', NEW p \in Range0(jobs'[x].n)
                 PROVE  rc'[jobs'[x].rc][p] # NoTask
      BY DEF B3
    <3>1. CASE jobs'[x] = j
      BY <2>1, <2>3, <2>4, <3>1
    <3>2. CASE x \in DOMAIN jobs /\ jobs'[x] = jobs[x]
      BY <1>5, <2>1, <3>2
    <3> QED BY <2>5, <3>1, <3>2
  <2> QED BY <1>4, <1>5, <1>s, <2>1, <2>6
<1>11. CASE Consume
  <2>1. UNCHANGED <<rc, nb, jobs, calling>> /\ calling
    BY <1>11 DEF Consume, MayConsume
  <2>2. \A i \in 1 .. N : Live(i)' => Live(i)
    BY <1>11, Counts DEF Consume, Live, TypeInv
  <2> QED BY <1>4, <1>5, <1>s, <2>1, <2>2
<1>12. ASSUME NEW y \in DOMAIN jobs, RunJob(y) PROVE BufferInv'
  <2>1. UNCHANGED <<rc, nb, calling>> /\ \A i : Live(i)' = Live(i)
    BY <1>12 DEF RunJob, hostvars, Live
  <2>2. IsRest(jobs, y, jobs')
    <3>1. jobs' = RemoveAt(jobs, y)
      BY <1>12 DEF RunJob
    <3> QED BY <3>1, RemoveAtFacts DEF TypeInv
  <2>3. B3
    BY <1>5, <2>1, <2>2 DEF IsRest, B3
  <2> QED BY <1>4, <1>5, <1>s, <2>1, <2>3
<1> QED BY <1>6, <1>7, <1>8, <1>9, <1>10, <1>11, <1>12 DEF Next

-----------------------------------------------------------------------------
(* the jobs in flight,                                                     *)

\* A job submitted is the job of its batch.
LEMMA SubmitsJob ==
    ASSUME TypeInv, CountInv, BufferInv, Submit
    PROVE  built \in 1 .. N /\ jobs' = Append(jobs, JobOf(built))
<1>1. built \in 1 .. N /\ Live(built) /\ calling
  BY Counts DEF Submit, TypeInv, Live
<1>2. nb[Batches[built].rc] = Len(Batches[built].tasks)
  BY <1>1 DEF BufferInv, Held
<1> QED BY <1>1, <1>2 DEF Submit, JobOf

\* A batch whose fence has signalled has no job left.
LEMMA ConsumesDone ==
    ASSUME TypeInv, CountInv, Consume, NEW x \in DOMAIN jobs
    PROVE  jobs[x] # JobOf(consumed + 1)
<1> DEFINE i == consumed + 1
<1>1. i \in 1 .. N
  BY Counts DEF Consume
<1>2. Batches[i].wait \in Batches[i].outs
  BY <1>1, Counts DEF IsBatch
<1>3. Batches[i].wait \notin jobs[x].outs
  BY DEF Consume, Busy
<1> HIDE DEF i
<1>4. jobs[x] # JobOf(i)
  BY <1>2, <1>3 DEF JobOf
<1> QED BY <1>4 DEF i

\* Until a call fails, every job left is one of this call that is not read yet.
LEMMA CleanKept ==
    ASSUME TypeInv, CountInv, BufferInv, CleanInv, [Next]_vars
    PROVE  CleanInv'
<1>0. conf' = conf
  BY ConfKept
<1>1. \A i : JobOf(i)' = JobOf(i)
  BY <1>0, Same
<1>2. CleanInv' <=>
        (clean' => \A x \in DOMAIN jobs' :
                     calling' /\ \E i \in consumed' + 1 .. submitted' : jobs'[x] = JobOf(i))
  BY <1>1 DEF CleanInv
<1>3. clean => \A x \in DOMAIN jobs :
                  calling /\ \E i \in consumed + 1 .. submitted : jobs[x] = JobOf(i)
  BY DEF CleanInv
<1>4. built \in Nat /\ submitted \in Nat /\ consumed \in Nat /\ N \in Nat
      /\ consumed <= submitted /\ submitted <= built /\ built <= N
  BY Counts DEF TypeInv, CountInv
<1>5. CASE UNCHANGED <<clean, jobs, calling, consumed, submitted>>
  BY <1>2, <1>3, <1>5
<1>6. CASE BeginCall
  BY <1>2, <1>3, <1>6 DEF BeginCall
<1>7. CASE Build
  BY <1>5, <1>7 DEF Build
<1>8. CASE BuildFails \/ SubmitFails \/ WaitTimesOut
  BY <1>2, <1>8 DEF BuildFails, SubmitFails, WaitTimesOut, Fails, Return
<1>9. CASE Finish
  <2>1. clean' => clean /\ DOMAIN jobs = {}
    <3>1. clean' => clean
      BY <1>9 DEF Finish, Return
    <3>2. consumed = N
      BY <1>9 DEF Finish
    <3>3. \A i \in consumed + 1 .. submitted : FALSE
      BY <1>4, <3>2
    <3> QED BY <1>3, <3>1, <3>3
  <2>2. jobs' = jobs
    BY <1>9 DEF Finish
  <2> QED BY <1>2, <2>1, <2>2
<1>10. CASE Submit
  <2>1. jobs' = Append(jobs, JobOf(built)) /\ built = submitted + 1
    BY <1>10, SubmitsJob DEF Submit
  <2>2. \A x \in DOMAIN jobs' : (x \in DOMAIN jobs /\ jobs'[x] = jobs[x]) \/ jobs'[x] = JobOf(built)
    BY <2>1 DEF TypeInv
  <2>3. /\ calling' /\ consumed' = consumed /\ submitted' = submitted + 1 /\ clean' = clean
        /\ built \in consumed' + 1 .. submitted'
        /\ \A i \in consumed + 1 .. submitted : i \in consumed' + 1 .. submitted'
    BY <1>4, <1>10, <2>1 DEF Submit
  <2> QED BY <1>2, <1>3, <2>2, <2>3
<1>11. CASE Consume
  <2>1. \A x \in DOMAIN jobs : jobs[x] # JobOf(consumed + 1)
    BY <1>11, ConsumesDone
  <2>2. UNCHANGED <<jobs, calling, submitted, clean>> /\ consumed' = consumed + 1
    BY <1>11 DEF Consume
  <2>3. \A i \in consumed + 1 .. submitted : i = consumed + 1 \/ i \in consumed' + 1 .. submitted'
    BY <1>4, <2>2
  <2> QED BY <1>2, <1>3, <2>1, <2>2, <2>3
<1>12. ASSUME NEW y \in DOMAIN jobs, RunJob(y) PROVE CleanInv'
  <2>1. IsRest(jobs, y, jobs')
    <3>1. jobs' = RemoveAt(jobs, y)
      BY <1>12 DEF RunJob
    <3> QED BY <3>1, RemoveAtFacts DEF TypeInv
  <2>2. UNCHANGED <<calling, consumed, submitted, clean>>
    BY <1>12 DEF RunJob, hostvars
  <2> QED BY <1>2, <1>3, <2>1, <2>2 DEF IsRest
<1>13. UNCHANGED vars => UNCHANGED <<clean, jobs, calling, consumed, submitted>>
  BY DEF vars, hostvars
<1> QED BY <1>5, <1>6, <1>7, <1>8, <1>9, <1>10, <1>11, <1>12, <1>13 DEF Next

\* What a K step leaves is what the next one of its group adds to.
LEMMA StepAfterStep ==
    ASSUME conf \in Conf, IsStepped, NEW i \in 1 .. N, i + 1 \in 1 .. N, KOf(i + 1) > 0,
           NEW o, Right(o, i)
    PROVE  Addends(o, i + 1)
<1> DEFINE K == conf.nK
           q == i \div K
           r == i % K
           k == r - 1
<1>0. K \in Nat \ {0} /\ nTiles \in Nat /\ BATCH \in Nat /\ N \in Nat
  BY ConfFacts, StepBatch
<1>1. i \in Nat /\ q \in Nat /\ r \in 0 .. K - 1 /\ i = q * K + r
  <2>1. i \in Nat
    BY <1>0
  <2> QED BY <1>0, <2>1, DivMod
<1>2. KOf(i + 1) = r /\ GroupOf(i + 1) = q + 1
  <2>1. (i + 1) - 1 = i
    BY <1>1
  <2> QED BY <2>1 DEF KOf, GroupOf
<1>3. r \in Nat \ {0} /\ k \in Nat /\ k < K /\ k + 1 = r
  <2> HIDE DEF q, r, K
  <2> QED BY <1>0, <1>1, <1>2
<1>4. i - 1 = q * K + k
  <2>1. q * K \in Nat
    BY <1>0, <1>1, ProductNat
  <2> HIDE DEF q, r, K
  <2> QED BY <1>1, <2>1
<1>5. KOf(i) = k /\ GroupOf(i) = q + 1
  <2>1. (q * K + k) \div K = q /\ (q * K + k) % K = k
    <3> HIDE DEF q, r, K, k
    <3> QED BY <1>0, <1>1, <1>3, DivOfSum
  <2> QED BY <1>4, <2>1 DEF KOf, GroupOf
<1> HIDE DEF q, r, k, K
<1>6. StepBase(i + 1) = StepBase(i) /\ StepLen(i + 1) = StepLen(i)
  BY <1>2, <1>5 DEF StepBase, StepLen
<1>7. ~IsChain /\ ~IsHost
  BY DEF IsStepped, IsHost, NpuSums
<1>8. FlatAdd(i + 1) = FlatDst(i)
  <2>1. Addend(r) = PingPong(r - 1)
    BY <1>3, PingPongType
  <2> QED BY <1>2, <1>5, <1>7, <2>1 DEF FlatAdd, FlatDst, k
<1>9. FlatLen(i + 1) = FlatLen(i) /\ FlatLen(i) = StepLen(i)
  BY <1>6, <1>7 DEF FlatLen
<1>10. ASSUME NEW p \in 1 .. StepLen(i)
       PROVE  After(FlatTiles(i)[p]) = Before(FlatTiles(i + 1)[p])
  <2> DEFINE n == StepBase(i) + p - 1
             t == GroupTile(n, k, StepMode)
             u == GroupTile(n, r, StepMode)
  <2>1. FlatTiles(i)[p] = t /\ FlatTiles(i + 1)[p] = u
    BY <1>2, <1>5, <1>6, <1>7 DEF FlatTiles, StepTiles
  <2>2. n \in 0 .. nTiles - 1
    <3>1. StepBase(i) \in Nat /\ StepLen(i) \in 1 .. BATCH /\ StepBase(i) + StepLen(i) <= nTiles
      BY StepBatch
    <3> QED BY <1>0, <3>1
  <2>3. k \in Range0(conf.nK) /\ r \in Range0(conf.nK)
    BY <1>0, <1>1, <1>3 DEF Range0, K
  <2> HIDE DEF n
  <2>4. /\ t \in TileSet /\ t.ki = k /\ u \in TileSet /\ u.ki = r /\ SameCell(t, u)
    <3>1. /\ t \in TileSet /\ t.ki = k /\ u \in TileSet /\ u.ki = r
          /\ t.mi = GroupTile(n, 0, StepMode).mi /\ u.mi = GroupTile(n, 0, StepMode).mi
          /\ t.ni = GroupTile(n, 0, StepMode).ni /\ u.ni = GroupTile(n, 0, StepMode).ni
      BY <2>2, <2>3, GroupTiles
    <3> QED BY <3>1 DEF SameCell
  <2> HIDE DEF t, u
  <2>5. Append(Partial(t, k), Pair(t)) = Partial(t, r) /\ Partial(u, r) = Partial(t, r)
    BY <1>3, <2>4, PartialFacts
  <2> QED BY <1>7, <2>1, <2>4, <2>5 DEF After, Before
<1>11. \A p \in 1 .. FlatLen(i) : o[FlatDst(i)][p - 1] = After(FlatTiles(i)[p])
  BY <1>7 DEF Right
<1>12. \A p \in 1 .. FlatLen(i + 1) : o[FlatAdd(i + 1)][p - 1] = Before(FlatTiles(i + 1)[p])
  BY <1>8, <1>9, <1>10, <1>11
<1> QED BY <1>12 DEF Addends

-----------------------------------------------------------------------------
(* the output buffers,                                                     *)

\* What OutInv says of one batch, of the memory o with the jobs js left.
Leaves(o, js, i) ==
    /\ Addends(o, i)
    /\ i <= submitted => Right(o, i) \/ (i > consumed /\ \E x \in DOMAIN js : js[x] = JobOf(i))

\* A build starts from what the batch before it left.
LEMMA BuildsOnRight ==
    ASSUME TypeInv, CountInv, OutInv, MayBuild
    PROVE  Addends(out, built + 1)
<1> DEFINE i == built + 1
<1>0. /\ conf \in Conf /\ built \in Nat /\ N \in Nat /\ i \in 1 .. N /\ consumed \in Nat
      /\ built = submitted /\ consumed + Depth >= submitted /\ consumed <= submitted /\ calling
  BY Counts DEF MayBuild, TypeInv, CountInv
<1>1. CASE IsChain
  BY <1>1 DEF Addends
<1>2. CASE ~IsChain /\ FlatAdd(i) = "none"
  BY <1>2 DEF Addends
<1>3. CASE ~IsChain /\ FlatAdd(i) # "none"
  <2>1. ~IsHost /\ IsStepped
    BY <1>0, <1>3, ConfFacts DEF FlatAdd, IsStepped, IsHost, NpuSums
  <2>2. KOf(i) \in Nat /\ KOf(i) > 0
    <3>1. KOf(i) \in Range0(conf.nK) /\ conf.nK \in Nat
      BY <1>0, <2>1, StepBatch, ConfFacts
    <3>2. KOf(i) # 0
      <4>1. Addend(KOf(i)) # "none"
        BY <1>3, <2>1 DEF FlatAdd
      <4> QED BY <4>1 DEF Addend
    <3> QED BY <3>1, <3>2 DEF Range0
  <2>3. built \in 1 .. N
    <3>1. built # 0
      <4> SUFFICES ASSUME built = 0 PROVE FALSE
        OBVIOUS
      <4>1. KOf(i) = 0 % conf.nK /\ conf.nK \in Nat \ {0}
        BY <1>0, ConfFacts DEF KOf
      <4>2. 0 % conf.nK = 0
        <5>1. (0 * conf.nK + 0) % conf.nK = 0
          BY <4>1, DivOfSum
        <5> QED BY <4>1, <5>1
      <4> QED BY <2>2, <4>1, <4>2
    <3> QED BY <1>0, <3>1
  <2>4. Depth = 0
    BY <2>1 DEF Depth, IsHost
  <2>5. Right(out, built)
    <3>1. Live(built) /\ ~(built > consumed) /\ built <= submitted
      BY <1>0, <2>3, <2>4 DEF Live
    <3> QED BY <1>0, <2>3, <3>1 DEF OutInv
  <2> QED BY <1>0, <2>1, <2>2, <2>3, <2>5, StepAfterStep
<1> QED BY <1>1, <1>2, <1>3

\* A job leaves every live batch its addends, and what was right right; its
\* own batch's output it makes right.
LEMMA RunsRight ==
    ASSUME TypeInv, CountInv, BufferInv, NEW y \in DOMAIN jobs, RunJob(y),
           NEW i \in 1 .. N, Held(i), Leaves(out, jobs, i)
    PROVE  Leaves(out', jobs', i)
<1>1. PICK e \in 1 .. N : jobs[y] = JobOf(e) /\ IsRun(JobOf(e), RunsNow(JobOf(e)))
  BY JobTypes
<1> DEFINE j == JobOf(e)
           tasks == RunsNow(j)
<1>2. /\ j.chained \in BOOLEAN /\ Len(tasks) \in Nat /\ tasks \in [1 .. Len(tasks) -> TaskSet]
      /\ j = jobs[y] /\ IsRun(j, tasks) /\ j = JobOf(e)
  BY <1>1 DEF IsRun
<1> HIDE DEF j
<1>3. PICK ran : Runs(ran, tasks, j.chained) /\ AfterTasks(tasks, j.chained) = ran[Len(tasks)]
  <2> HIDE DEF tasks
  <2> QED BY <1>2, JobRuns DEF TypeInv
<1>4. out' = ran[Len(tasks)].out
  BY <1>2, <1>3 DEF RunJob
<1>5. IsRest(jobs, y, jobs')
  <2>1. jobs' = RemoveAt(jobs, y)
    BY DEF RunJob
  <2> QED BY <2>1, RemoveAtFacts DEF TypeInv
<1>6. Addends(out, i)
  BY DEF Leaves
<1>7. Addends(out', i) /\ (Right(out, i) \/ JobOf(e) = JobOf(i) => Right(out', i))
  <2>0. /\ IsRun(JobOf(e), RunsNow(JobOf(e)))
        /\ Runs(ran, RunsNow(JobOf(e)), JobOf(e).chained)
        /\ out' = ran[Len(RunsNow(JobOf(e)))].out
    BY <1>2, <1>3, <1>4
  <2>1. CASE JobOf(e).rc = Batches[i].rc
    BY <1>6, <2>0, <2>1, JobOfSame
  <2>2. CASE JobOf(e).rc # Batches[i].rc
    <3>1. Addends(out', i) /\ (Right(out, i) => Right(out', i))
      BY <2>0, <2>2, JobOfOther
    <3>2. JobOf(e) # JobOf(i)
      BY <2>2 DEF JobOf
    <3> QED BY <3>1, <3>2
  <2> QED BY <2>1, <2>2
<1>8. ASSUME i <= submitted
      PROVE  Right(out', i) \/ (i > consumed /\ \E x \in DOMAIN jobs' : jobs'[x] = JobOf(i))
  <2>1. CASE Right(out, i)
    BY <1>7, <2>1
  <2>2. CASE i > consumed /\ \E x \in DOMAIN jobs : jobs[x] = JobOf(i)
    <3>1. PICK x \in DOMAIN jobs : jobs[x] = JobOf(i)
      BY <2>2
    <3>2. CASE x = y
      BY <1>2, <1>7, <3>1, <3>2
    <3>3. CASE x # y
      BY <1>5, <2>2, <3>1, <3>3 DEF IsRest
    <3> QED BY <3>2, <3>3
  <2> QED BY <1>8, <2>1, <2>2 DEF Leaves
<1> QED BY <1>7, <1>8 DEF Leaves

\* The output buffers stay right.
LEMMA OutKept ==
    ASSUME TypeInv, CountInv, BufferInv, OutInv, [Next]_vars
    PROVE  OutInv'
<1>0. conf' = conf
  BY ConfKept
<1> DEFINE New(i) ==
             /\ Addends(out', i)
             /\ i <= submitted' =>
                  Right(out', i) \/ (i > consumed' /\ \E x \in DOMAIN jobs' : jobs'[x] = JobOf(i))
<1>1. OutInv' <=> (calling' => \A i \in 1 .. N : Live(i)' => New(i))
  <2>1. /\ N' = N
        /\ \A i : JobOf(i)' = JobOf(i)
        /\ \A i : Right(out, i)' = Right(out', i)
        /\ \A i : Addends(out, i)' = Addends(out', i)
    BY <1>0, Same
  <2> QED BY <2>1 DEF OutInv
<1>2. calling => \A i \in 1 .. N : Live(i) => Leaves(out, jobs, i)
  BY DEF OutInv, Leaves
<1>3. /\ built \in Nat /\ submitted \in Nat /\ consumed \in Nat /\ N \in Nat
      /\ consumed <= submitted /\ submitted <= built /\ built <= N
  BY Counts DEF TypeInv, CountInv
<1>s. ASSUME UNCHANGED <<built, submitted, consumed, calling>>,
             calling => \A i \in 1 .. N : Live(i) /\ Leaves(out, jobs, i) => Leaves(out', jobs', i)
      PROVE  OutInv'
  <2>1. \A i : Live(i)' <=> Live(i)
    BY <1>s DEF Live
  <2>2. \A i : Leaves(out', jobs', i) => New(i)
    BY <1>s DEF Leaves
  <2> HIDE DEF New
  <2> QED BY <1>1, <1>2, <1>s, <2>1, <2>2
<1> HIDE DEF New
<1>4. CASE UNCHANGED vars
  <2>1. UNCHANGED <<built, submitted, consumed, calling, out, jobs>>
    BY <1>4 DEF vars, hostvars
  <2> QED BY <1>s, <2>1
<1>5. CASE BeginCall
  <2>1. \A i : ~Live(i)'
    BY <1>5 DEF BeginCall, Live
  <2> QED BY <1>1, <2>1
<1>6. CASE Build
  <2>1. /\ built' = built + 1 /\ calling /\ MayBuild /\ submitted = built
        /\ UNCHANGED <<submitted, consumed, out, jobs>>
    BY <1>6 DEF Build, MayBuild
  <2>2. ASSUME NEW i \in 1 .. N, Live(i)' PROVE New(i)
    <3>1. CASE i = built + 1
      <4>1. Addends(out, i)
        BY <2>1, <3>1, BuildsOnRight
      <4>2. ~(i <= submitted')
        BY <1>3, <2>1, <3>1
      <4> QED BY <2>1, <4>1, <4>2 DEF New
    <3>2. CASE i # built + 1
      <4>1. Live(i)
        BY <1>3, <2>1, <2>2, <3>2 DEF Live
      <4>2. Leaves(out, jobs, i)
        BY <1>2, <2>1, <4>1
      <4> QED BY <2>1, <4>2 DEF Leaves, New
    <3> QED BY <3>1, <3>2
  <2> QED BY <1>1, <2>2
<1>7. CASE BuildFails \/ SubmitFails \/ WaitTimesOut \/ Finish
  <2>1. calling' = FALSE
    BY <1>7 DEF BuildFails, SubmitFails, WaitTimesOut, Finish, Fails, Return
  <2> QED BY <1>1, <2>1
<1>8. CASE Submit
  <2>1. /\ submitted' = submitted + 1 /\ built = submitted + 1 /\ calling
        /\ UNCHANGED <<built, consumed, out>>
    BY <1>8 DEF Submit
  <2>2. jobs' = Append(jobs, JobOf(built))
    BY <1>8, SubmitsJob
  <2>3. /\ \A x \in DOMAIN jobs : x \in DOMAIN jobs' /\ jobs'[x] = jobs[x]
        /\ \E x \in DOMAIN jobs' : jobs'[x] = JobOf(built)
    BY <2>2 DEF TypeInv
  <2>4. ASSUME NEW i \in 1 .. N, Live(i)' PROVE New(i)
    <3>1. Live(i)
      BY <2>1, <2>4 DEF Live
    <3>2. Leaves(out, jobs, i)
      BY <1>2, <2>1, <3>1
    <3>3. CASE i = built
      BY <1>3, <2>1, <2>3, <3>2, <3>3 DEF Leaves, New
    <3>4. CASE i # built
      <4>1. i <= submitted
        BY <1>3, <2>1, <3>1, <3>4 DEF Live
      <4>2. Addends(out', i) /\ (Right(out, i) => Right(out', i))
        BY <2>1, <3>2 DEF Leaves
      <4>3. (\E x \in DOMAIN jobs : jobs[x] = JobOf(i)) => \E x \in DOMAIN jobs' : jobs'[x] = JobOf(i)
        BY <2>3
      <4> QED BY <2>1, <3>2, <4>1, <4>2, <4>3 DEF Leaves, New
    <3> QED BY <3>3, <3>4
  <2> QED BY <1>1, <2>4
<1>9. CASE Consume
  <2>1. /\ consumed' = consumed + 1 /\ consumed < submitted /\ calling
        /\ UNCHANGED <<built, submitted, out, jobs>>
    BY <1>9 DEF Consume, MayConsume
  <2>2. \A x \in DOMAIN jobs : jobs[x] # JobOf(consumed + 1)
    BY <1>9, ConsumesDone
  <2>3. ASSUME NEW i \in 1 .. N, Live(i)' PROVE New(i)
    <3>1. Live(i) /\ (i > consumed + 1 \/ i = consumed + 1)
      BY <1>3, <2>1, <2>3 DEF Live
    <3>2. Leaves(out, jobs, i)
      BY <1>2, <2>1, <3>1
    <3>3. CASE i = consumed + 1
      <4>1. i <= submitted
        BY <1>3, <2>1, <3>3
      <4>2. Addends(out, i) /\ Right(out, i)
        BY <2>2, <3>2, <3>3, <4>1 DEF Leaves
      <4> QED BY <2>1, <4>2 DEF New
    <3>4. CASE i > consumed + 1
      BY <2>1, <3>2, <3>4 DEF Leaves, New
    <3> QED BY <3>1, <3>3, <3>4
  <2> QED BY <1>1, <2>3
<1>10. ASSUME NEW y \in DOMAIN jobs, RunJob(y) PROVE OutInv'
  <2>1. UNCHANGED <<built, submitted, consumed, calling>>
    BY <1>10 DEF RunJob, hostvars
  <2>2. calling => \A i \in 1 .. N : Live(i) => Held(i)
    BY DEF BufferInv
  <2>3. calling => \A i \in 1 .. N : Live(i) /\ Leaves(out, jobs, i) => Leaves(out', jobs', i)
    BY <1>10, <2>2, RunsRight
  <2> QED BY <1>s, <2>1, <2>3
<1> QED BY <1>4, <1>5, <1>6, <1>7, <1>8, <1>9, <1>10 DEF Next

-----------------------------------------------------------------------------
(* and the accumulator.                                                    *)

\* The accumulator is read the same after every step.
LEMMA AccSame ==
    ASSUME conf' = conf
    PROVE  \A n : Progress(acc, n)' = Progress(acc', n)
<1>1. IsHost' = IsHost /\ IsChain' = IsChain /\ Cell' = Cell
  BY Same
<1>2. \A t : Index(t)' = Index(t)
  BY DEF Index, Number, HostMode, ReuseMode, ReuseOk
<1>3. \A t, k : Partial(t, k)' = Partial(t, k)
  BY DEF Partial, Pair, Data, Weight, Dims, Tile
<1>4. NpuMode' = NpuMode
  BY <1>1 DEF NpuMode, ChainMode, StepMode, ReuseMode, ReuseOk
<1>5. \A n, k, m : GroupTile(n, k, m)' = GroupTile(n, k, m)
  BY DEF GroupTile
<1>6. \A n : Added(acc, n)' = Added(acc', n)
  BY <1>1, <1>2, <1>3 DEF Added, Tile
<1>7. \A n : Done(acc, n)' = Done(acc', n)
  BY <1>3, <1>4, <1>5 DEF Done
<1>8. \A n, i : Reached(n, i)' = Reached(n, i)
  BY <1>1 DEF Reached, Total, nTiles
<1>9. GroupCap' = GroupCap
  BY DEF GroupCap, nTiles
<1> QED BY <1>1, <1>6, <1>7, <1>8, <1>9 DEF Progress

\* How far the first pieces of n reach.
LEMMA PieceReach ==
    ASSUME NEW n \in Nat \ {0}, NEW cap \in Nat \ {0}, NEW i \in 1 .. Pieces(n, cap)
    PROVE  /\ MinOf(cap * (i - 1), n) = (i - 1) * cap
           /\ MinOf(cap * i, n) = (i - 1) * cap + PieceLen(n, cap, i)
           /\ i = Pieces(n, cap) => MinOf(cap * i, n) = n
<1>1. /\ Pieces(n, cap) \in Nat \ {0}
      /\ PieceLen(n, cap, i) \in 1 .. cap
      /\ (i - 1) * cap \in Nat
      /\ (i - 1) * cap + PieceLen(n, cap, i) <= n
      /\ i < Pieces(n, cap) => PieceLen(n, cap, i) = cap
      /\ i = Pieces(n, cap) => (i - 1) * cap + PieceLen(n, cap, i) = n
  BY PiecesCover
<1> DEFINE a == (i - 1) * cap
<1>2. cap * (i - 1) = a /\ cap * i = a + cap
  BY <1>1
<1> HIDE DEF a
<1>3. a \in Nat /\ (i < Pieces(n, cap) \/ i = Pieces(n, cap))
  BY <1>1 DEF a
<1> QED BY <1>1, <1>2, <1>3 DEF MinOf, a

\* A sequence with one more element.
LEMMA OneMore ==
    ASSUME NEW S, NEW s \in Seq(S), NEW e \in S
    PROVE  s \o <<e>> = Append(s, e)
<1>1. <<e>> \in Seq(S) /\ Len(<<e>>) = 1 /\ <<e>>[1] = e /\ Len(s) \in Nat
  OBVIOUS
<1> DEFINE o == <<e>>
           a == s \o o
           b == Append(s, e)
           n == Len(s)
<1> HIDE DEF o
<1>2. a \in Seq(S) /\ Len(a) = n + 1
      /\ \A x \in 1 .. n + 1 : a[x] = IF x <= n THEN s[x] ELSE o[x - n]
  <2>1. o \in Seq(S) /\ Len(o) = 1
    BY <1>1 DEF o
  <2>2. a \in Seq(S)
    BY <2>1
  <2>3. Len(a) = Len(s) + Len(o)
    <3>1. s \in Seq(S) /\ o \in Seq(S)
      BY <2>1
    <3> QED BY <3>1
  <2>4. \A x \in 1 .. Len(s) + Len(o) : a[x] = IF x <= Len(s) THEN s[x] ELSE o[x - Len(s)]
    BY <2>1
  <2> HIDE DEF a
  <2> QED BY <2>1, <2>2, <2>3, <2>4
<1>3. b \in Seq(S) /\ Len(b) = n + 1
      /\ \A x \in 1 .. n + 1 : b[x] = IF x <= n THEN s[x] ELSE e
  OBVIOUS
<1>4. o[1] = e /\ n \in Nat
  BY <1>1 DEF o
<1> HIDE DEF a, b, n
<1>5. \A x \in 1 .. n + 1 : a[x] = b[x]
  <2> TAKE x \in 1 .. n + 1
  <2>1. x <= n \/ x - n = 1
    BY <1>4
  <2>2. CASE x <= n
    BY <1>2, <1>3, <2>2
  <2>3. CASE ~(x <= n)
    BY <1>2, <1>3, <1>4, <2>1, <2>3
  <2> QED BY <2>2, <2>3
<1>6. a = b
  BY <1>2, <1>3, <1>4, <1>5
<1> QED BY <1>6 DEF a, b, o

\* Adding the partial product that is next in the loop order.
LEMMA AddedStep ==
    ASSUME conf \in Conf, NEW t \in TileSet, NEW a \in [Cell -> Sums], Added(a, Index(t))
    PROVE  Added([a EXCEPT ![<<t.mi, t.ni>>] = @ \o <<Pair(t)>>], Index(t) + 1)
<1> DEFINE n == Index(t)
           cell == <<t.mi, t.ni>>
           new == [a EXCEPT ![cell] = @ \o <<Pair(t)>>]
<1>1. /\ n \in 0 .. Total - 1 /\ Total \in Nat /\ conf.nK \in Nat
      /\ \A u \in TileSet : /\ Index(t) = Index(u) => t = u
                            /\ t.mi = u.mi /\ t.ni = u.ni /\ t.ki < u.ki => Index(t) < Index(u)
                            /\ Index(u) \in 0 .. Total - 1
                            /\ t.mi = u.mi /\ t.ni = u.ni /\ u.ki < t.ki => Index(u) < Index(t)
  BY IndexFacts, ConfFacts
<1>2. /\ cell \in Cell /\ t = Tile(t.mi, t.ni, t.ki) /\ t.ki \in Range0(conf.nK)
      /\ t.ki \in 0 .. conf.nK - 1
  BY DEF TileSet, Cell, Tile, Range0
<1>3. \A c \in Cell, k \in Range0(conf.nK) : Tile(c[1], c[2], k) \in TileSet
  BY DEF TileSet, Cell, Tile
<1>4. \A m, x, y : Tile(m, x, y).mi = m /\ Tile(m, x, y).ni = x /\ Tile(m, x, y).ki = y
  BY DEF Tile
<1>5. /\ \A c \in Cell : c # cell => new[c] = a[c]
      /\ new[cell] = a[cell] \o <<Pair(t)>>
  <2> HIDE DEF cell
  <2> QED BY <1>2
<1> HIDE DEF new
<1>6. \A k \in Range0(conf.nK) : k \in Int
  BY <1>1 DEF Range0
<1> SUFFICES ASSUME NEW c \in Cell
             PROVE  \E l \in 0 .. conf.nK :
                      /\ new[c] = Partial(Tile(c[1], c[2], 0), l)
                      /\ \A k \in Range0(conf.nK) : Index(Tile(c[1], c[2], k)) < n + 1 <=> k < l
  BY DEF Added, new
<1>7. PICK l \in 0 .. conf.nK :
        /\ a[c] = Partial(Tile(c[1], c[2], 0), l)
        /\ \A k \in Range0(conf.nK) : Index(Tile(c[1], c[2], k)) < n <=> k < l
  BY DEF Added
<1> DEFINE I(k) == Index(Tile(c[1], c[2], k))
<1>8. \A k \in Range0(conf.nK) : I(k) \in 0 .. Total - 1
  BY <1>1, <1>3
<1>9. CASE c # cell
  <2>1. ASSUME NEW k \in Range0(conf.nK) PROVE I(k) # n
    <3>1. Tile(c[1], c[2], k) # t
      <4>1. c = <<c[1], c[2]>>
        BY DEF Cell
      <4> QED BY <1>4, <1>9, <4>1
    <3> QED BY <1>1, <1>3, <3>1
  <2> HIDE DEF I, n
  <2>2. \A k \in Range0(conf.nK) : I(k) < n + 1 <=> k < l
    <3>1. \A k \in Range0(conf.nK) : I(k) < n <=> k < l
      BY <1>7 DEF I
    <3> QED BY <1>1, <1>8, <2>1, <3>1
  <2> QED BY <1>5, <1>7, <1>9, <2>2 DEF I
<1>10. CASE c = cell
  <2> DEFINE z == t.ki
  <2>1. c[1] = t.mi /\ c[2] = t.ni
    BY <1>10
  <2>2. I(z) = n /\ z \in Range0(conf.nK) /\ z \in 0 .. conf.nK - 1
    BY <1>2, <2>1
  <2>3. ASSUME NEW k \in Range0(conf.nK) PROVE (k < z => I(k) < n) /\ (z < k => n < I(k))
    <3>1. Tile(c[1], c[2], k) \in TileSet
      BY <1>3
    <3> QED BY <1>1, <1>4, <2>1, <3>1
  <2>4. \A k \in Range0(conf.nK) : I(k) < n <=> k < l
    BY <1>7
  <2>p. Append(Partial(t, z), Pair(t)) = Partial(t, z + 1)
        /\ Partial(Tile(c[1], c[2], 0), z) = Partial(t, z)
        /\ Partial(Tile(c[1], c[2], 0), z + 1) = Partial(t, z + 1)
        /\ Partial(t, z) \in Sums
    <3>1. SameCell(t, Tile(c[1], c[2], 0))
      BY <1>4, <2>1 DEF SameCell
    <3>2. z \in 0 .. conf.nK
      BY <1>1, <2>2
    <3> QED BY <3>1, <3>2, PartialFacts
  <2>q. Pair(t) \in Operand \X Operand
    BY DEF Pair, Operand
  <2>n. n \in Int
    BY <1>1
  <2> HIDE DEF I, z, n
  <2>5. l = z
    <3>1. ~(z < l)
      BY <2>n, <2>2, <2>4
    <3>2. ~(l < z)
      <4> SUFFICES ASSUME l < z PROVE FALSE
        OBVIOUS
      <4>1. l \in Range0(conf.nK) /\ l \in Nat
        BY <1>1, <1>7, <2>2 DEF Range0
      <4> QED BY <2>3, <2>4, <4>1
    <3> QED BY <1>1, <1>7, <2>2, <3>1, <3>2
  <2>6. new[c] = Partial(Tile(c[1], c[2], 0), z + 1)
    <3>1. a[cell] = Partial(t, z)
      BY <1>7, <1>10, <2>5, <2>p
    <3>2. Partial(t, z) \o <<Pair(t)>> = Append(Partial(t, z), Pair(t))
      <4> DEFINE S == Operand \X Operand
                 s == Partial(t, z)
                 e == Pair(t)
      <4>1. s \in Seq(S) /\ e \in S
        BY <2>p, <2>q DEF Sums
      <4> HIDE DEF S, s, e
      <4>2. s \o <<e>> = Append(s, e)
        BY <4>1, OneMore
      <4> QED BY <4>2 DEF s, e
    <3> HIDE DEF cell
    <3> QED BY <1>5, <1>10, <2>p, <3>1, <3>2
  <2>7. ASSUME NEW k \in Range0(conf.nK) PROVE I(k) < n + 1 <=> k < z + 1
    <3>1. k \in Int /\ I(k) \in Int /\ z \in Int
      BY <1>1, <1>6, <1>8, <2>2
    <3>2. k = z => I(k) = n
      BY <2>2
    <3> QED BY <2>3, <2>n, <3>1, <3>2
  <2>8. z + 1 \in 0 .. conf.nK
    BY <1>1, <2>2
  <2> QED BY <2>6, <2>7, <2>8 DEF I, n
<1> QED BY <1>9, <1>10

\* Slots that are not read leave the accumulator alone.
LEMMA TakesNone ==
    ASSUME NEW b, Len(b.tasks) \in Nat, NEW up, Takes(up, b), NEW l \in 0 .. Len(b.tasks),
           \A p \in 1 .. l : p \notin b.reads
    PROVE  up[l] = acc
<1> DEFINE P == {p \in 0 .. l : up[p] = acc}
<1>1. l \in Nat
  OBVIOUS
<1>2. 0 \in P
  BY <1>1 DEF Takes
<1>3. ASSUME NEW k \in 0 .. l - 1, k \in P PROVE k + 1 \in P
  <2> DEFINE j == k + 1
  <2>1. j \in 1 .. Len(b.tasks) /\ j \in 1 .. l /\ j \in 0 .. l /\ j - 1 = k
    BY <1>1
  <2> HIDE DEF j
  <2>2. up[j] = TakeSlot(up[k], b, j)
    BY <2>1 DEF Takes
  <2>3. TakeSlot(up[k], b, j) = up[k]
    BY <2>1 DEF TakeSlot
  <2>4. j \in P
    BY <1>3, <2>1, <2>2, <2>3
  <2> QED BY <2>4 DEF j
<1>4. \A k \in 0 .. l : k \in P
  <2> HIDE DEF P
  <2> QED BY <1>1, <1>2, <1>3, UpTo
<1> QED BY <1>1, <1>4

\* The CPU adds the partial products of a batch it waited for.
LEMMA TakesHost ==
    ASSUME TypeInv, CountInv, IsHost, NEW i \in 1 .. N, Held(i), Right(out, i),
           Added(acc, (i - 1) * BATCH)
    PROVE  Added(Taken(Batches[i]), (i - 1) * BATCH + HostLen(i))
<1> DEFINE b == Batches[i]
           n == HostLen(i)
           base == (i - 1) * BATCH
<1>0. conf \in Conf /\ BATCH \in Nat \ {0} /\ ~IsChain /\ ~NpuSums
  BY ConfFacts DEF TypeInv, IsHost, IsChain, NpuSums
<1>1. PICK up : Takes(up, b) /\ Taken(b) = up[Len(b.tasks)]
  BY TakenRuns
<1>2. /\ n \in 1 .. BATCH /\ \A p \in 1 .. n : Index(HostTiles(i)[p]) = base + p - 1
      /\ HostTiles(i) \in [1 .. n -> TileSet]
  BY <1>0, HostBatch
<1>3. /\ IsJob(b.tasks, n, HostTiles(i), FlatDst(i), FlatAdd(i), RunMode)
      /\ b.wait = FlatDst(i) /\ b.reads = 1 .. n
  BY <1>0, FlatBatch DEF FlatLen, FlatTiles, FlatReads
<1>4. Len(b.tasks) = n
      /\ \A p \in 1 .. n : b.tasks[p].t = HostTiles(i)[p] /\ b.tasks[p].slot = p - 1
  BY <1>3 DEF IsJob
<1>5. \A p \in 1 .. n : out[b.wait][p - 1] = <<Pair(HostTiles(i)[p])>>
  <2>1. \A p \in 1 .. n : out[FlatDst(i)][p - 1] = After(HostTiles(i)[p])
    BY <1>0 DEF Right, FlatLen, FlatTiles
  <2>2. \A t : After(t) = Append(<<>>, Pair(t))
    BY DEF After, Before
  <2>3. \A t : Append(<<>>, Pair(t)) = <<Pair(t)>>
    OBVIOUS
  <2> QED BY <1>3, <2>1, <2>2, <2>3
<1>6. \A so \in [Cell -> Sums], p \in 1 .. n :
         TakeSlot(so, b, p) = [so EXCEPT ![<<HostTiles(i)[p].mi, HostTiles(i)[p].ni>>] =
                                 @ \o <<Pair(HostTiles(i)[p])>>]
  <2> TAKE so \in [Cell -> Sums], p \in 1 .. n
  <2>1. IsTake(TakeSlot(so, b, p), so, b, p)
    BY <1>4, TakeSlotType
  <2>2. b.tasks[p].t = HostTiles(i)[p] /\ out[b.wait][b.tasks[p].slot] = <<Pair(HostTiles(i)[p])>>
    BY <1>4, <1>5
  <2> HIDE DEF b
  <2> QED BY <1>0, <1>3, <2>1, <2>2 DEF IsTake
<1>7. /\ up \in [0 .. n -> [Cell -> Sums]] /\ up[0] = acc
      /\ \A p \in 1 .. n : up[p] = TakeSlot(up[p - 1], b, p)
  BY <1>1, <1>4 DEF Takes
<1>8. base \in Nat /\ n \in Nat
  <2>1. i - 1 \in Nat
    OBVIOUS
  <2>2. n \in Nat
    BY <1>0, <1>2
  <2> QED BY <1>0, <2>1, <2>2, ProductNat
<1>9. Added(acc, base + 0)
  BY <1>8
<1>10. Taken(b) = up[n]
  BY <1>1, <1>4
<1> HIDE DEF b, n, base
<1> DEFINE P == {p \in 0 .. n : Added(up[p], base + p)}
<1>11. 0 \in P
  BY <1>7, <1>8, <1>9
<1>12. ASSUME NEW k \in 0 .. n - 1, k \in P PROVE k + 1 \in P
  <2> DEFINE p == k + 1
             t == HostTiles(i)[p]
             a == up[k]
  <2>1. /\ p \in 1 .. n /\ p \in 0 .. n /\ p - 1 = k /\ k \in 0 .. n /\ base + p - 1 = base + k
        /\ (base + k) + 1 = base + p
    BY <1>8
  <2>k. p = k + 1
    OBVIOUS
  <2> HIDE DEF p
  <2>2. t \in TileSet /\ Index(t) = base + k
    BY <1>2, <2>1
  <2>3. a \in [Cell -> Sums] /\ Added(a, base + k)
    BY <1>7, <1>12, <2>1
  <2>4. up[p] = [a EXCEPT ![<<t.mi, t.ni>>] = @ \o <<Pair(t)>>]
    <3>1. up[p] = TakeSlot(a, b, p)
      BY <1>7, <2>1
    <3> HIDE DEF a
    <3> QED BY <1>6, <2>1, <2>3, <3>1
  <2> HIDE DEF t, a
  <2>5. Added([a EXCEPT ![<<t.mi, t.ni>>] = @ \o <<Pair(t)>>], Index(t) + 1)
    BY <1>0, <2>2, <2>3, AddedStep
  <2>6. p \in P
    BY <2>1, <2>2, <2>4, <2>5
  <2> QED BY <2>k, <2>6
<1>13. \A p \in 0 .. n : p \in P
  <2> HIDE DEF P
  <2> QED BY <1>8, <1>11, <1>12, UpTo
<1>14. Added(up[n], base + n)
  BY <1>8, <1>13
<1> QED BY <1>10, <1>14 DEF b, n, base

\* Taking the next finished cell.
LEMMA DoneStep ==
    ASSUME conf \in Conf, NEW n \in 0 .. nTiles - 1, NEW a \in [Cell -> Sums], Done(a, n),
           NEW cell, NEW value,
           cell = <<GroupTile(n, 0, NpuMode).mi, GroupTile(n, 0, NpuMode).ni>>,
           value = Partial(GroupTile(n, 0, NpuMode), conf.nK)
    PROVE  Done([a EXCEPT ![cell] = value], n + 1)
<1> DEFINE T(m) == GroupTile(m, 0, NpuMode)
           C(m) == <<T(m).mi, T(m).ni>>
           new == [a EXCEPT ![cell] = value]
<1>0. nTiles \in Nat /\ 0 \in Range0(conf.nK)
  BY ConfFacts DEF Range0
<1>1. \A m \in 0 .. nTiles - 1 : T(m) \in TileSet
  BY <1>0, GroupTiles
<1>2. \A m \in 0 .. nTiles - 1 : C(m) \in Cell
  BY <1>1 DEF TileSet, Cell
<1>3. /\ \A c \in Cell : c # cell => new[c] = a[c]
      /\ cell \in Cell /\ new[cell] = value
  <2>1. cell \in Cell
    BY <1>2
  <2> QED BY <2>1
<1>4. cell = C(n) /\ value = Partial(T(n), conf.nK)
  OBVIOUS
<1>5. \A m \in Range0(n) : a[C(m)] = Partial(T(m), conf.nK)
  BY DEF Done
<1>6. \A m : (Range0(n + 1) = Range0(n) \cup {n}) /\ \A x \in Range0(n + 1) : x \in 0 .. nTiles - 1
  BY <1>0 DEF Range0
<1>7. ASSUME NEW m \in 0 .. nTiles - 1, C(m) = C(n) PROVE Partial(T(m), conf.nK) = Partial(T(n), conf.nK)
  <2>1. SameCell(T(n), T(m))
    BY <1>7 DEF SameCell
  <2>2. T(n) \in TileSet
    BY <1>1
  <2> HIDE DEF T
  <2> QED BY <2>1, <2>2, PartialFacts
<1> HIDE DEF T, C, new
<1>8. ASSUME NEW m \in Range0(n + 1) PROVE new[C(m)] = Partial(T(m), conf.nK)
  <2>1. m \in 0 .. nTiles - 1 /\ (m \in Range0(n) \/ m = n)
    BY <1>6
  <2>2. CASE C(m) = cell
    BY <1>3, <1>4, <1>7, <2>1, <2>2
  <2>3. CASE C(m) # cell
    BY <1>2, <1>3, <1>4, <1>5, <2>1, <2>3
  <2> QED BY <2>2, <2>3
<1>9. Done(new, n + 1)
  BY <1>8 DEF Done, T, C
<1> QED BY <1>9 DEF new

\* Task l + p of the batch holds the p-th of g cells, from `base' on.
FinishedAt(b, l, p, base) ==
    /\ b.tasks[l + p].t.mi = GroupTile(base + p - 1, 0, NpuMode).mi
    /\ b.tasks[l + p].t.ni = GroupTile(base + p - 1, 0, NpuMode).ni
    /\ out[b.wait][b.tasks[l + p].slot] = Partial(GroupTile(base + p - 1, 0, NpuMode), conf.nK)

\* The CPU takes the finished cells of a batch it waited for.
LEMMA TakesCells ==
    ASSUME TypeInv, CountInv, NpuSums, NEW i \in 1 .. N, Held(i), NEW l \in Nat, NEW g \in Nat,
           Batches[i].reads = l + 1 .. l + g, Len(Batches[i].tasks) = l + g,
           NEW base \in Nat, base + g <= nTiles,
           \A p \in 1 .. g : FinishedAt(Batches[i], l, p, base),
           Done(acc, base)
    PROVE  Done(Taken(Batches[i]), base + g)
<1> DEFINE b == Batches[i]
           n == l + g
<1>0. conf \in Conf /\ nTiles \in Nat
  BY ConfFacts DEF TypeInv
<1>1. PICK up : Takes(up, b) /\ Taken(b) = up[Len(b.tasks)]
  BY TakenRuns
<1>2. Len(b.tasks) = n /\ n \in Nat /\ b.reads = l + 1 .. n
      /\ \A p \in 1 .. g : FinishedAt(b, l, p, base)
  OBVIOUS
<1>3. \A so \in [Cell -> Sums], p \in 1 .. n :
        p \in b.reads => TakeSlot(so, b, p)
                           = [so EXCEPT ![<<b.tasks[p].t.mi, b.tasks[p].t.ni>>] =
                                out[b.wait][b.tasks[p].slot]]
  <2> TAKE so \in [Cell -> Sums], p \in 1 .. n
  <2>1. IsTake(TakeSlot(so, b, p), so, b, p)
    BY <1>2, TakeSlotType
  <2> HIDE DEF b
  <2> QED BY <2>1 DEF IsTake
<1>4. Taken(b) = up[n]
  BY <1>1, <1>2
<1> HIDE DEF b, n
<1>5. /\ up \in [0 .. n -> [Cell -> Sums]] /\ up[0] = acc
      /\ \A p \in 1 .. n : up[p] = TakeSlot(up[p - 1], b, p)
  BY <1>1, <1>2 DEF Takes
<1>6. l \in 0 .. n /\ n = l + g
  BY DEF n
<1>7. up[l] = acc
  <2>1. \A p \in 1 .. l : p \notin b.reads
    BY <1>2, <1>6
  <2> QED BY <1>1, <1>2, <1>6, <2>1, TakesNone
<1> DEFINE P == {p \in 0 .. g : Done(up[l + p], base + p)}
<1>8. 0 \in P
  BY <1>7
<1>9. ASSUME NEW k \in 0 .. g - 1, k \in P PROVE k + 1 \in P
  <2> DEFINE p == k + 1
             m == base + k
             a == up[l + k]
             q == l + p
  <2>1. /\ p \in 1 .. g /\ p \in 0 .. g /\ k \in 0 .. g /\ q \in 1 .. n /\ q \in b.reads /\ q - 1 = l + k
        /\ l + k \in 0 .. n /\ m \in 0 .. nTiles - 1 /\ m = base + p - 1 /\ m + 1 = base + p
    BY <1>0, <1>2, <1>6
  <2>k. p = k + 1 /\ q = l + p
    OBVIOUS
  <2>2. a \in [Cell -> Sums] /\ Done(a, m)
    BY <1>5, <1>9, <2>1
  <2> DEFINE cell == <<b.tasks[q].t.mi, b.tasks[q].t.ni>>
             value == out[b.wait][b.tasks[q].slot]
  <2>3. up[q] = [a EXCEPT ![cell] = value]
    <3>1. up[q] = TakeSlot(a, b, q)
      BY <1>5, <2>1
    <3> HIDE DEF a, q
    <3> QED BY <1>3, <2>1, <2>2, <3>1
  <2>4. FinishedAt(b, l, p, base)
    BY <1>2, <2>1
  <2> HIDE DEF p, m, a
  <2>5. /\ cell = <<GroupTile(m, 0, NpuMode).mi, GroupTile(m, 0, NpuMode).ni>>
        /\ value = Partial(GroupTile(m, 0, NpuMode), conf.nK)
    BY <2>1, <2>4 DEF FinishedAt
  <2> HIDE DEF cell, value, q
  <2>6. Done([a EXCEPT ![cell] = value], m + 1)
    BY <1>0, <2>1, <2>2, <2>5, DoneStep
  <2>7. p \in P
    BY <2>1, <2>3, <2>6, <2>k
  <2> QED BY <2>k, <2>7
<1>10. \A p \in 0 .. g : p \in P
  <2> HIDE DEF P
  <2> QED BY <1>8, <1>9, UpTo
<1>11. Done(up[l + g], base + g)
  BY <1>10
<1> QED BY <1>4, <1>6, <1>11 DEF b

\* A batch the host waited for takes the accumulator one batch further: the
\* partial products of a loop order,
LEMMA ConsumesHost ==
    ASSUME TypeInv, CountInv, IsHost, NEW i \in 1 .. N, Held(i), Right(out, i), Progress(acc, i - 1)
    PROVE  Progress(Taken(Batches[i]), i)
<1>1. conf \in Conf /\ Total \in Nat \ {0} /\ BATCH \in Nat \ {0} /\ N = Pieces(Total, BATCH)
  BY ConfFacts, HostBatch DEF TypeInv
<1>2. /\ MinOf(BATCH * (i - 1), Total) = (i - 1) * BATCH
      /\ MinOf(BATCH * i, Total) = (i - 1) * BATCH + HostLen(i)
  BY <1>1, PieceReach DEF HostLen
<1>3. Added(acc, (i - 1) * BATCH)
  BY <1>2 DEF Progress, Reached
<1>4. Added(Taken(Batches[i]), (i - 1) * BATCH + HostLen(i))
  BY <1>3, TakesHost
<1> QED BY <1>2, <1>4 DEF Progress, Reached

\* the cells of a group whose K steps are one job,
LEMMA ConsumesChain ==
    ASSUME TypeInv, CountInv, IsChain, NEW i \in 1 .. N, Held(i), Right(out, i), Progress(acc, i - 1)
    PROVE  Progress(Taken(Batches[i]), i)
<1> DEFINE g == ChainLen(i)
           base == ChainBase(i)
           l == (conf.nK - 1) * g
           b == Batches[i]
<1>0. /\ conf \in Conf /\ nTiles \in Nat \ {0} /\ BATCH \in Nat \ {0} /\ conf.nK \in Nat \ {0}
      /\ ~IsHost /\ NpuSums
  BY ConfFacts DEF TypeInv, IsChain, IsHost, NpuSums
<1>1. /\ GroupCap \in Nat \ {0} /\ N = Pieces(nTiles, GroupCap)
      /\ g \in 1 .. GroupCap /\ base \in Nat /\ base + g <= nTiles
      /\ b = Batch("rc0", ChainTasks(i), {}, {"ping", "pong"}, Final,
                   (conf.nK - 1) * ChainLen(i) + 1
                     .. (conf.nK - 1) * ChainLen(i) + ChainLen(i), TRUE)
  BY <1>0, ChainBatch
<1>2. g \in Nat \ {0} /\ l \in Nat /\ conf.nK * g = l + g
  <2>1. g \in Nat \ {0}
    BY <1>1
  <2>2. l \in Nat
    <3>1. conf.nK - 1 \in Nat
      BY <1>0
    <3> QED BY <2>1, <3>1, ProductNat
  <2>3. conf.nK * g = (conf.nK - 1) * g + g
    BY <1>0, <2>1
  <2> QED BY <2>1, <2>2, <2>3
<1>3. b.tasks = ChainTasks(i) /\ b.reads = l + 1 .. l + g /\ b.wait = Final
  BY <1>1 DEF Batch
<1>4. Len(b.tasks) = l + g
  BY <1>0, <1>2, <1>3, ChainOfTasks
<1>5. \A p \in 1 .. g : FinishedAt(b, l, p, base)
  <2> TAKE p \in 1 .. g
  <2> DEFINE t == l + p
             s == conf.nK - 1
  <2>1. t \in 1 .. conf.nK * g /\ t \in Nat /\ p \in 1 .. g
    BY <1>2
  <2>2. StepOf(t, g) = s /\ PlaceOf(t, g) = p
    <3>1. IsNumber(t, 1, g, s, 0, p)
      <4>1. (s * 1 + 0) * g + p = s * g + p
        BY <1>0, <1>2
      <4> QED BY <4>1 DEF IsNumber, Number
    <3>2. s \in Nat
      BY <1>0
    <3> HIDE DEF t, s, g
    <3> QED BY <1>2, <3>1, <3>2, ChainPlace
  <2>3. /\ ChainTasks(i)[t].t = GroupTile(base + p - 1, s, ChainMode)
        /\ ChainTasks(i)[t].slot = p - 1
    BY <1>0, <2>1, <2>2, ChainOfTasks
  <2>4. out[Final][p - 1] = Partial(GroupTile(base + p - 1, 0, ChainMode), conf.nK)
    BY DEF Right
  <2>5. NpuMode = ChainMode
    BY DEF NpuMode
  <2> DEFINE m == base + p - 1
  <2>6. m \in 0 .. nTiles - 1 /\ s \in Range0(conf.nK)
    <3>1. g \in Nat \ {0} /\ base \in Nat /\ base + g <= nTiles
      BY <1>1, <1>2
    <3> HIDE DEF g, base, b, l
    <3> QED BY <1>0, <3>1 DEF Range0
  <2> HIDE DEF m, s, t
  <2>7. GroupTile(m, s, ChainMode).mi = GroupTile(m, 0, ChainMode).mi
        /\ GroupTile(m, s, ChainMode).ni = GroupTile(m, 0, ChainMode).ni
    BY <1>0, <2>6, GroupTiles
  <2> HIDE DEF b, l, g, base
  <2> QED BY <1>3, <2>3, <2>4, <2>5, <2>7 DEF FinishedAt, m, t
<1>6. /\ MinOf(GroupCap * (i - 1), nTiles) = base
      /\ MinOf(GroupCap * i, nTiles) = base + g
  BY <1>0, <1>1, PieceReach DEF ChainLen, ChainBase
<1>7. Done(acc, base)
  BY <1>0, <1>6 DEF Progress, Reached
<1> HIDE DEF g, base, l
<1>8. Done(Taken(b), base + g)
  <2>1. g \in Nat /\ l \in Nat /\ base \in Nat /\ base + g <= nTiles
    BY <1>1, <1>2
  <2> QED BY <1>0, <1>3, <1>4, <1>5, <1>7, <2>1, TakesCells
<1> QED BY <1>0, <1>6, <1>8 DEF Progress, Reached, b

\* or those of a group whose K steps are jobs of their own, with the last one.
LEMMA ConsumesStep ==
    ASSUME TypeInv, CountInv, IsStepped, NEW i \in 1 .. N, Held(i), Right(out, i),
           Progress(acc, i - 1)
    PROVE  Progress(Taken(Batches[i]), i)
<1> DEFINE K == conf.nK
           q == (i - 1) \div K
           k == (i - 1) % K
           b == Batches[i]
           g == StepLen(i)
           base == StepBase(i)
           G == GroupOf(i)
<1>0. /\ conf \in Conf /\ nTiles \in Nat \ {0} /\ BATCH \in Nat \ {0} /\ K \in Nat \ {0}
      /\ ~IsHost /\ ~IsChain /\ NpuSums
  BY ConfFacts DEF TypeInv, IsStepped, IsHost, NpuSums
<1>1. /\ G \in 1 .. Pieces(nTiles, BATCH) /\ k \in Range0(K) /\ g \in 1 .. BATCH /\ base \in Nat
      /\ base + g <= nTiles
  BY <1>0, StepBatch DEF KOf
<1>2. q \in Nat /\ k \in 0 .. K - 1 /\ i - 1 = q * K + k /\ G = q + 1 /\ KOf(i) = k
  <2>1. i - 1 \in Nat
    OBVIOUS
  <2> QED BY <1>0, <2>1, DivMod DEF GroupOf, KOf
<1>3. /\ IsJob(b.tasks, g, FlatTiles(i), FlatDst(i), FlatAdd(i), RunMode)
      /\ b.wait = FlatDst(i) /\ b.reads = IF k = K - 1 THEN 1 .. g ELSE {}
  BY <1>0, <1>2, FlatBatch DEF FlatLen, FlatReads
<1>4. Len(b.tasks) = g
      /\ \A p \in 1 .. g : b.tasks[p].t = FlatTiles(i)[p] /\ b.tasks[p].slot = p - 1
  BY <1>3 DEF IsJob
<1>5. /\ MinOf(BATCH * (G - 1), nTiles) = base
      /\ MinOf(BATCH * G, nTiles) = base + g
  BY <1>0, <1>1, PieceReach DEF StepLen, StepBase
<1>6. Done(acc, base)
  <2>1. Done(acc, MinOf(BATCH * q, nTiles))
    BY <1>0 DEF Progress, Reached
  <2>2. q = G - 1
    BY <1>2
  <2> QED BY <1>5, <2>1, <2>2
<1> HIDE DEF G, g, base, k, q, K
<1>7. CASE k # K - 1
  <2> DEFINE j == k + 1
  <2>1. j \in Nat /\ j < K
    BY <1>0, <1>2, <1>7
  <2>2. i = q * K + j
    <3>1. q * K \in Nat
      BY <1>0, <1>2, ProductNat
    <3> QED BY <1>2, <3>1
  <2>3. i \div K = q
    <3> HIDE DEF j
    <3>1. (q * K + j) \div K = q
      BY <1>0, <1>2, <2>1, DivOfSum
    <3> QED BY <2>2, <3>1
  <2>4. Taken(b) = acc
    <3>1. PICK up : Takes(up, b) /\ Taken(b) = up[Len(b.tasks)]
      BY TakenRuns
    <3>2. b.reads = {} /\ Len(b.tasks) \in Nat
      BY <1>0, <1>1, <1>3, <1>4, <1>7
    <3> HIDE DEF b
    <3>3. up[Len(b.tasks)] = acc
      <4>1. Len(b.tasks) \in 0 .. Len(b.tasks)
        BY <3>2
      <4> QED BY <3>1, <3>2, <4>1, TakesNone
    <3> QED BY <3>1, <3>3
  <2>5. MinOf(BATCH * q, nTiles) = base
    BY <1>2, <1>5
  <2> QED BY <1>0, <1>6, <2>3, <2>4, <2>5 DEF Progress, Reached, K
<1>8. CASE k = K - 1
  <2>1. i \div K = G
    <3>1. i = q * K + K
      <4>1. q * K \in Nat
        BY <1>0, <1>2, ProductNat
      <4> QED BY <1>0, <1>2, <1>8, <4>1
    <3>2. q * K + K = (q + 1) * K + 0
      BY <1>0, <1>2
    <3>3. ((q + 1) * K + 0) \div K = q + 1
      <4>1. q + 1 \in Nat /\ 0 < K
        BY <1>0, <1>2
      <4> QED BY <1>0, <4>1, DivOfSum
    <3> QED BY <1>2, <3>1, <3>2, <3>3
  <2>2. \A p \in 1 .. g : FinishedAt(b, 0, p, base)
    <3> TAKE p \in 1 .. g
    <3> DEFINE m == base + p - 1
               t == GroupTile(m, k, StepMode)
               u == GroupTile(m, 0, StepMode)
    <3>1. FlatTiles(i)[p] = t
      BY <1>0, <1>2 DEF FlatTiles, StepTiles, g, base
    <3>2. m \in 0 .. nTiles - 1 /\ 0 \in Range0(conf.nK) /\ k \in Range0(conf.nK)
      BY <1>0, <1>1 DEF Range0, K
    <3> HIDE DEF m
    <3>3. t \in TileSet /\ t.ki = k /\ u \in TileSet /\ t.mi = u.mi /\ t.ni = u.ni
      BY <1>0, <3>2, GroupTiles
    <3>4. out[FlatDst(i)][p - 1] = After(t)
      BY <1>0, <3>1 DEF Right, FlatLen, g
    <3> HIDE DEF t, u
    <3>5. After(t) = Partial(u, conf.nK)
      <4>1. SameCell(t, u) /\ k + 1 = conf.nK
        BY <1>0, <1>1, <1>8, <3>3 DEF SameCell, K
      <4>2. After(t) = Append(Partial(t, k), Pair(t))
        BY <1>0, <3>3 DEF After, Before
      <4>3. Append(Partial(t, k), Pair(t)) = Partial(t, k + 1) /\ Partial(u, k + 1) = Partial(t, k + 1)
        BY <1>0, <3>3, <4>1, PartialFacts
      <4> QED BY <4>1, <4>2, <4>3
    <3>6. b.tasks[0 + p].t = t /\ b.tasks[0 + p].slot = p - 1
      <4>1. 0 + p = p
        BY <1>1
      <4> QED BY <1>4, <3>1, <4>1 DEF t
    <3>7. NpuMode = StepMode
      BY <1>0 DEF NpuMode
    <3> HIDE DEF b
    <3> QED BY <1>3, <3>3, <3>4, <3>5, <3>6, <3>7 DEF FinishedAt, u, m
  <2>3. /\ 0 \in Nat /\ g \in Nat /\ b.reads = 0 + 1 .. 0 + g /\ Len(b.tasks) = 0 + g
        /\ base \in Nat /\ base + g <= nTiles
    BY <1>0, <1>1, <1>3, <1>4, <1>8
  <2>4. Done(Taken(b), base + g)
    BY <1>0, <1>6, <2>2, <2>3, TakesCells
  <2> QED BY <1>0, <1>5, <2>1, <2>4 DEF Progress, Reached, K, b
<1> QED BY <1>7, <1>8

\* At the start nothing is taken.
LEMMA NothingTaken ==
    ASSUME conf \in Conf, NEW a, a = [c \in Cell |-> <<>>]
    PROVE  Progress(a, 0)
<1>1. /\ Total \in Nat \ {0} /\ nTiles \in Nat \ {0} /\ BATCH \in Nat \ {0} /\ conf.nK \in Nat \ {0}
  BY ConfFacts
<1>2. \A n : Reached(n, 0) = MinOf(n * 0, IF IsHost THEN Total ELSE nTiles)
  BY DEF Reached
<1>3. CASE IsHost
  <2>1. Reached(BATCH, 0) = 0
    BY <1>1, <1>2, <1>3 DEF MinOf
  <2>2. Added(a, 0)
    <3> SUFFICES ASSUME NEW c \in Cell
                 PROVE  \E l \in 0 .. conf.nK :
                          /\ a[c] = Partial(Tile(c[1], c[2], 0), l)
                          /\ \A k \in Range0(conf.nK) : Index(Tile(c[1], c[2], k)) < 0 <=> k < l
      BY DEF Added
    <3>1. ASSUME NEW k \in Range0(conf.nK)
          PROVE  ~(Index(Tile(c[1], c[2], k)) < 0) /\ ~(k < 0)
      <4>1. Tile(c[1], c[2], k) \in TileSet
        BY DEF TileSet, Cell, Tile
      <4>2. Index(Tile(c[1], c[2], k)) \in 0 .. Total - 1
        BY <4>1, IndexFacts
      <4> QED BY <1>1, <4>2 DEF Range0
    <3>2. a[c] = Partial(Tile(c[1], c[2], 0), 0)
      BY DEF Partial
    <3>3. 0 \in 0 .. conf.nK
      BY <1>1
    <3> QED BY <3>1, <3>2, <3>3
  <2> QED BY <1>3, <2>1, <2>2 DEF Progress
<1>4. CASE ~IsHost
  <2>1. Done(a, 0)
    BY DEF Done, Range0
  <2>2. 0 \div conf.nK = 0
    <3>1. (0 * conf.nK + 0) \div conf.nK = 0
      BY <1>1, DivOfSum
    <3> QED BY <1>1, <3>1
  <2>3. Reached(BATCH, 0) = 0
    BY <1>1, <1>2, <1>4 DEF MinOf
  <2>4. IsChain => Reached(GroupCap, 0) = 0
    <3>1. IsChain => GroupCap \in Nat
      BY ChainBatch
    <3> QED BY <1>1, <1>2, <1>4, <3>1 DEF MinOf
  <2> QED BY <1>4, <2>1, <2>2, <2>3, <2>4 DEF Progress
<1> QED BY <1>3, <1>4

\* The accumulator keeps pace with the batches read.
LEMMA AccKept ==
    ASSUME TypeInv, CountInv, BufferInv, OutInv, AccInv, [Next]_vars
    PROVE  AccInv'
<1>0. conf' = conf /\ conf \in Conf
  BY ConfKept DEF TypeInv
<1>1. \A n : Progress(acc, n)' = Progress(acc', n)
  BY <1>0, AccSame
<1>2. AccInv' <=> (calling' => Progress(acc', consumed'))
  BY <1>0, <1>1, AccSame DEF AccInv
<1>3. CASE BeginCall
  <2>1. acc' = [c \in Cell |-> <<>>] /\ consumed' = 0
    BY <1>3 DEF BeginCall
  <2> QED BY <1>0, <1>2, <2>1, NothingTaken
<1>4. CASE Consume
  <2> DEFINE i == consumed + 1
  <2>1. i \in 1 .. N /\ Live(i) /\ calling /\ consumed \in Nat /\ i - 1 = consumed
    <3>1. consumed \in Nat
      BY DEF TypeInv
    <3>2. MayConsume /\ calling
      BY <1>4 DEF Consume, MayConsume
    <3>3. i \in 1 .. N /\ Live(i)
      BY <3>2, Counts
    <3> QED BY <3>1, <3>2, <3>3
  <2>2. acc' = Taken(Batches[i]) /\ consumed' = i /\ i <= submitted
    <3>1. submitted \in Nat /\ consumed < submitted
      BY <1>4 DEF Consume, MayConsume, TypeInv
    <3> QED BY <1>4, <2>1, <3>1 DEF Consume
  <2>3. \A x \in DOMAIN jobs : jobs[x] # JobOf(i)
    BY <1>4, ConsumesDone
  <2> HIDE DEF i
  <2>4. Held(i) /\ Right(out, i)
    BY <2>1, <2>2, <2>3 DEF BufferInv, OutInv
  <2>5. Progress(acc, i - 1)
    BY <2>1 DEF AccInv
  <2>6. IsHost \/ IsChain \/ IsStepped
    BY <1>0, ConfFacts DEF IsStepped, IsHost, NpuSums
  <2>7. Progress(Taken(Batches[i]), i)
    BY <2>1, <2>4, <2>5, <2>6, ConsumesHost, ConsumesChain, ConsumesStep
  <2> QED BY <1>2, <2>2, <2>7
<1>5. ASSUME acc' = acc, consumed' = consumed, calling' => calling PROVE AccInv'
  BY <1>2, <1>5 DEF AccInv
<1>6. CASE UNCHANGED vars
  BY <1>5, <1>6 DEF vars, hostvars
<1>7. CASE Build \/ Submit
  BY <1>5, <1>7 DEF Build, Submit
<1>8. CASE BuildFails \/ SubmitFails \/ WaitTimesOut \/ Finish
  <2>1. calling' = FALSE
    BY <1>8 DEF BuildFails, SubmitFails, WaitTimesOut, Finish, Fails, Return
  <2> QED BY <1>2, <2>1
<1>9. ASSUME NEW y \in DOMAIN jobs, RunJob(y) PROVE AccInv'
  BY <1>5, <1>9 DEF RunJob, hostvars
<1> QED BY <1>3, <1>4, <1>6, <1>7, <1>8, <1>9 DEF Next

\* An accumulator that has everything is the oracle's.
LEMMA AllTaken ==
    ASSUME TypeInv, CountInv, Progress(acc, N)
    PROVE  acc = Oracle
<1>0. /\ conf \in Conf /\ conf.nK \in Nat \ {0} /\ nTiles \in Nat \ {0} /\ Total \in Nat \ {0}
      /\ BATCH \in Nat \ {0} /\ acc \in [Cell -> Sums]
  BY ConfFacts DEF TypeInv
<1>1. \A c \in Cell : c = <<c[1], c[2]>> /\ \A k \in Range0(conf.nK) : Tile(c[1], c[2], k) \in TileSet
  BY DEF Cell, TileSet, Tile
<1>2. \A c \in Cell : acc[c] = Partial(Tile(c[1], c[2], 0), conf.nK)
  <2>1. CASE IsHost
    <3>1. Added(acc, Total)
      <4>1. N = Pieces(Total, BATCH) /\ N \in Nat \ {0}
        BY <1>0, <2>1, HostBatch
      <4>2. MinOf(BATCH * N, Total) = Total
        <5>1. N \in 1 .. Pieces(Total, BATCH)
          BY <4>1
        <5> QED BY <1>0, <4>1, <5>1, PieceReach
      <4> QED BY <2>1, <4>2 DEF Progress, Reached
    <3> TAKE c \in Cell
    <3>2. PICK l \in 0 .. conf.nK :
            /\ acc[c] = Partial(Tile(c[1], c[2], 0), l)
            /\ \A k \in Range0(conf.nK) : Index(Tile(c[1], c[2], k)) < Total <=> k < l
      BY <3>1 DEF Added
    <3>3. conf.nK - 1 \in Range0(conf.nK)
      BY <1>0 DEF Range0
    <3>4. Index(Tile(c[1], c[2], conf.nK - 1)) \in 0 .. Total - 1
      BY <1>0, <1>1, <3>3, IndexFacts
    <3>5. conf.nK - 1 < l
      <4>1. Index(Tile(c[1], c[2], conf.nK - 1)) < Total
        BY <1>0, <3>4
      <4> QED BY <3>2, <3>3, <4>1
    <3>6. l = conf.nK
      BY <1>0, <3>5
    <3> QED BY <3>2, <3>6
  <2>2. CASE ~IsHost
    <3>1. Done(acc, nTiles)
      <4>1. CASE IsChain
        <5>1. GroupCap \in Nat \ {0} /\ N = Pieces(nTiles, GroupCap) /\ N \in Nat \ {0}
          BY <1>0, <4>1, ChainBatch
        <5>2. MinOf(GroupCap * N, nTiles) = nTiles
          <6>1. N \in 1 .. Pieces(nTiles, GroupCap)
            BY <5>1
          <6> QED BY <1>0, <5>1, <6>1, PieceReach
        <5> QED BY <2>2, <4>1, <5>2 DEF Progress, Reached
      <4>2. CASE ~IsChain
        <5> DEFINE P == Pieces(nTiles, BATCH)
        <5>1. IsStepped
          BY <1>0, <2>2, <4>2, ConfFacts DEF IsStepped, IsHost, NpuSums
        <5>2. N = P * conf.nK /\ P \in Nat \ {0}
          BY <1>0, <5>1, StepBatch, PiecesCover
        <5>3. N \div conf.nK = P
          <6> HIDE DEF P
          <6>1. (P * conf.nK + 0) \div conf.nK = P
            BY <1>0, <5>2, DivOfSum
          <6>2. P * conf.nK + 0 = N
            BY <1>0, <5>2
          <6> QED BY <6>1, <6>2
        <5>4. MinOf(BATCH * P, nTiles) = nTiles
          <6>1. P \in 1 .. P
            BY <5>2
          <6> QED BY <1>0, <5>2, <6>1, PieceReach
        <5> QED BY <2>2, <4>2, <5>3, <5>4 DEF Progress, Reached
      <4> QED BY <4>1, <4>2
    <3> TAKE c \in Cell
    <3>2. PICK n \in 0 .. nTiles - 1 : GroupTile(n, 0, NpuMode).mi = c[1] /\ GroupTile(n, 0, NpuMode).ni = c[2]
      BY <1>0, GroupTiles
    <3> DEFINE t == GroupTile(n, 0, NpuMode)
    <3>3. t \in TileSet
      <4>1. 0 \in Range0(conf.nK)
        BY <1>0 DEF Range0
      <4> QED BY <1>0, <4>1, GroupTiles
    <3>4. acc[<<t.mi, t.ni>>] = Partial(t, conf.nK)
      <4>1. n \in Range0(nTiles)
        BY DEF Range0
      <4> QED BY <3>1, <4>1 DEF Done
    <3>5. SameCell(t, Tile(c[1], c[2], 0)) /\ <<t.mi, t.ni>> = c
      BY <1>1, <3>2 DEF SameCell, Tile
    <3> HIDE DEF t
    <3>6. Partial(Tile(c[1], c[2], 0), conf.nK) = Partial(t, conf.nK)
      BY <1>0, <3>3, <3>5, PartialFacts
    <3> QED BY <3>4, <3>5, <3>6
  <2> QED BY <2>1, <2>2
<1>3. \A c : Partial(Tile(c[1], c[2], 0), conf.nK)
        = [k \in 1 .. conf.nK |-> LET t == Tile(c[1], c[2], k - 1) IN <<Data(t), Weight(t)>>]
  <2>1. \A m, n : Tile(m, n, 0).mi = m /\ Tile(m, n, 0).ni = n
    BY DEF Tile
  <2> QED BY <2>1 DEF Partial, Pair
<1>4. Oracle = [c \in Cell |-> Partial(Tile(c[1], c[2], 0), conf.nK)]
  BY <1>3 DEF Oracle
<1>5. acc = [c \in Cell |-> acc[c]]
  <2> HIDE DEF Cell, Sums
  <2> QED BY <1>0
<1> QED BY <1>2, <1>4, <1>5

\* What a call answers is what the oracle would.
LEMMA AnswerKept ==
    ASSUME TypeInv, CountInv, AccInv, MatchesOracle, [Next]_vars
    PROVE  MatchesOracle'
<1>0. conf' = conf
  BY ConfKept
<1>1. MatchesOracle' <=> (answer'.rc = "ok" => answer'.c = Oracle)
  BY <1>0, Same DEF MatchesOracle
<1>2. CASE UNCHANGED answer
  BY <1>1, <1>2 DEF MatchesOracle
<1>3. CASE BeginCall
  <2>1. answer'.rc = "none"
    BY <1>3 DEF BeginCall
  <2> QED BY <1>1, <2>1
<1>4. CASE BuildFails \/ SubmitFails \/ WaitTimesOut
  <2>1. answer'.rc = "error"
    BY <1>4 DEF BuildFails, SubmitFails, WaitTimesOut, Fails, Return
  <2> QED BY <1>1, <2>1
<1>5. CASE Finish
  <2>1. calling /\ consumed = N /\ answer'.c = acc
    BY <1>5 DEF Finish, Return
  <2>2. Progress(acc, N)
    BY <2>1 DEF AccInv
  <2>3. acc = Oracle
    BY <2>2, AllTaken
  <2> QED BY <1>1, <2>1, <2>3
<1>6. CASE Build \/ Submit \/ Consume
  BY <1>2, <1>6 DEF Build, Submit, Consume
<1>7. ASSUME NEW y \in DOMAIN jobs, RunJob(y) PROVE MatchesOracle'
  BY <1>2, <1>7 DEF RunJob
<1>8. UNCHANGED vars => UNCHANGED answer
  BY DEF vars
<1> QED BY <1>2, <1>3, <1>4, <1>5, <1>6, <1>7, <1>8 DEF Next

-----------------------------------------------------------------------------
(* The theorems.                                                           *)

\* The invariant holds at the start,
LEMMA Initially == Init => IInv
<1> SUFFICES ASSUME Init PROVE IInv
  OBVIOUS
<1>0. conf \in Conf
  BY DEF Init
<1>1. BATCH \in Nat \ {0}
  BY <1>0, ConfFacts
<1>2. TypeInv
  <2>1. rc \in [RcBufs -> [Pos -> TaskSet \cup {NoTask}]] /\ nb \in [RcBufs -> 0 .. BATCH]
    BY <1>1 DEF Init
  <2>2. out \in Memory
    BY OldType DEF Init, Memory
  <2>3. acc \in [Cell -> Sums]
    <3>1. <<>> \in Sums /\ acc = [c \in Cell |-> <<>>]
      BY DEF Init, Sums
    <3> HIDE DEF Cell, Sums
    <3> QED BY <3>1
  <2>4. jobs \in Seq({JobOf(i) : i \in 1 .. N})
    BY DEF Init
  <2> QED BY <1>0, <2>1, <2>2, <2>3, <2>4 DEF Init, TypeInv
<1>3. N \in Nat /\ Depth \in {0, 1}
  <2>1. Depth \in {0, 1}
    BY DEF Depth
  <2>2. IsHost \/ IsChain \/ IsStepped
    BY <1>0, ConfFacts DEF IsStepped, IsHost, NpuSums
  <2>3. N \in Nat
    BY <1>0, <2>2, HostBatch, ChainBatch, StepBatch
  <2> QED BY <2>1, <2>3
<1>4. CountInv
  BY <1>3 DEF Init, CountInv
<1>5. BufferInv
  BY <1>1 DEF Init, BufferInv, RcBufs, Live
<1>6. CleanInv /\ OutInv /\ AccInv
  BY DEF Init, CleanInv, OutInv, AccInv
<1>7. MatchesOracle
  BY DEF Init, MatchesOracle
<1> QED BY <1>2, <1>4, <1>5, <1>6, <1>7 DEF IInv

\* every step keeps it,
LEMMA Inductive == IInv /\ [Next]_vars => IInv'
<1> SUFFICES ASSUME IInv, [Next]_vars PROVE IInv'
  OBVIOUS
<1>1. TypeInv /\ CountInv /\ BufferInv /\ CleanInv /\ OutInv /\ AccInv /\ MatchesOracle
  BY DEF IInv
<1>2. TypeInv' /\ CountInv' /\ BufferInv'
  BY <1>1, TypeKept, CountKept, BufferKept
<1>3. CleanInv' /\ OutInv'
  BY <1>1, CleanKept, OutKept
<1>4. AccInv' /\ MatchesOracle'
  BY <1>1, AccKept, AnswerKept
<1> QED BY <1>2, <1>3, <1>4 DEF IInv

\* so it always holds.
LEMMA Invariant == Spec => []IInv
BY Initially, Inductive, PTL DEF Spec

\* Every task has a slot in both buffers it touches, no job more tasks than a
\* buffer holds.
THEOREM TypeCorrect == Spec => []TypeOK
<1>1. IInv => TypeOK
  <2> SUFFICES ASSUME IInv PROVE TypeOK
    OBVIOUS
  <2>1. TypeInv /\ CountInv /\ BufferInv
    BY DEF IInv
  <2>2. BATCH \in Nat
    BY <2>1, Counts
  <2>3. \A b \in RcBufs : nb[b] <= BATCH
    BY <2>1, <2>2 DEF TypeInv
  <2>4. ASSUME NEW b \in RcBufs, NEW p \in Range0(nb[b]) PROVE rc[b][p].slot < Slots(rc[b][p].dst)
    <3>1. nb[b] \in 0 .. BATCH /\ nb[b] # 0
      BY <2>1, <2>2, <2>4 DEF TypeInv, Range0
    <3>2. PICK i \in 1 .. N : Batches[i].rc = b /\ Held(i)
      BY <2>1, <3>1 DEF BufferInv
    <3> DEFINE q == p + 1
    <3>3. q \in 1 .. Len(Batches[i].tasks) /\ q - 1 = p
      BY <2>2, <3>1, <3>2 DEF Held, Range0
    <3> HIDE DEF q
    <3>4. rc[b][p] = Batches[i].tasks[q]
      BY <3>2, <3>3 DEF Held
    <3>5. Batches[i].tasks[q].slot < Slots(Batches[i].tasks[q].dst)
      BY <2>1, <3>3, Counts DEF IsBatch
    <3> QED BY <3>4, <3>5
  <2>5. conf \in Conf
    BY <2>1 DEF TypeInv
  <2>6. consumed <= submitted /\ submitted <= built /\ built <= N
    BY <2>1 DEF CountInv
  <2> QED BY <2>3, <2>4, <2>5, <2>6 DEF TypeOK
<1> QED BY <1>1, Invariant, PTL

\* Until a call fails, no build reaches the programs of a job that has not run:
\* what the part finds is what was submitted.
THEOREM RunsSubmitted == Spec => []RunsWhatWasSubmitted
<1>1. IInv => RunsWhatWasSubmitted
  <2> SUFFICES ASSUME IInv, clean, NEW x \in DOMAIN jobs PROVE RunsNow(jobs[x]) = jobs[x].tasks
    BY DEF RunsWhatWasSubmitted
  <2>1. TypeInv /\ CountInv /\ BufferInv /\ CleanInv
    BY DEF IInv
  <2>2. PICK i \in consumed + 1 .. submitted : jobs[x] = JobOf(i)
    BY <2>1 DEF CleanInv
  <2>3. i \in 1 .. N /\ Live(i) /\ calling
    <3>1. consumed \in Nat /\ submitted \in Nat /\ built \in Nat /\ N \in Nat
          /\ submitted <= built /\ built <= N
      <4>1. N \in Nat
        BY <2>1, Counts
      <4> QED BY <2>1, <4>1 DEF TypeInv, CountInv
    <3>2. calling
      BY <2>1 DEF CleanInv
    <3> QED BY <3>1, <3>2 DEF Live
  <2>4. Held(i) /\ IsBatch(i, Batches[i])
    BY <2>1, <2>3, Counts DEF BufferInv
  <2> DEFINE b == Batches[i]
             n == Len(b.tasks)
  <2>5. /\ jobs[x].rc = b.rc /\ jobs[x].n = n /\ jobs[x].ins = b.ins /\ jobs[x].outs = b.outs
        /\ jobs[x].tasks = b.tasks
    BY <2>2 DEF JobOf
  <2>6. /\ b.ins \cap b.outs = {} /\ b.tasks \in [1 .. n -> TaskSet]
    BY <2>4 DEF IsBatch
  <2>7. nb[b.rc] = n /\ \A p \in 1 .. n : rc[b.rc][p - 1] = b.tasks[p]
    BY <2>4 DEF Held
  <2> HIDE DEF b, n
  <2>8. RunsNow(jobs[x]) = [p \in 1 .. n |-> rc[b.rc][p - 1]]
    BY <2>5, <2>6, <2>7 DEF RunsNow
  <2>9. b.tasks = [p \in 1 .. n |-> b.tasks[p]]
    BY <2>6
  <2> QED BY <2>5, <2>7, <2>8, <2>9
<1> QED BY <1>1, Invariant, PTL

\* Whatever the program, the shape and the batch size, and whatever calls that
\* timed out left in the buffers and in flight: a call that returns success
\* returns the oracle's sums.
THEOREM Oracles == Spec => []MatchesOracle
<1>1. IInv => MatchesOracle
  BY DEF IInv
<1> QED BY <1>1, Invariant, PTL
=============================================================================
