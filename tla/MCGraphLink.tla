---------------------------- MODULE MCGraphLink ----------------------------
(***************************************************************************)
(* Networks: every one of four layers, and what the passes were written    *)
(* for at the widths that differ to them, plain and with one trait.        *)
(***************************************************************************)
EXTENDS GraphLink

Tensor(kind, src, oc) == [kind |-> kind, src |-> src, oc |-> oc, traits |-> {}]

PairsOf(n) == {p \in (1 .. n) \X (1 .. n) : p[1] # p[2]}
OneMore(net) ==
    LET n == Len(net)
        c == [i \in 1 .. n |-> net[i].oc]
    IN {Tensor("conv", <<s>>, oc) : s \in 1 .. n, oc \in {16, 32}}
       \cup {Tensor(kind, <<s>>, c[s]) : kind \in {"dwconv", "pool"}, s \in 1 .. n}
       \cup {Tensor("add", p, c[p[1]]) : p \in {q \in PairsOf(n) : c[q[1]] = c[q[2]]}}
       \cup {Tensor("concat", p, c[p[1]] + c[p[2]]) : p \in PairsOf(n)}
Longer(nets) == UNION {{Append(net, x) : x \in OneMore(net)} : net \in nets}
OfFourLayers == Longer(Longer(Longer({<<Tensor("conv", << >>, oc)>> : oc \in {16, 32}})))

\* MobileNetV2's block and one of depthwise layers only, ResNet's with a
\* shortcut and a shared sum, Inception's branches, a branch read twice, a
\* pool before readers, and a host layer between.
Families(w) ==
    {<<Tensor("conv", << >>, w), Tensor("conv", <<1>>, 2 * w), Tensor("dwconv", <<2>>, 2 * w),
       Tensor("conv", <<3>>, w), Tensor("add", <<4, 1>>, w), Tensor("conv", <<5>>, w)>>,
     <<Tensor("conv", << >>, w), Tensor("dwconv", <<1>>, w), Tensor("dwconv", <<2>>, w),
       Tensor("add", <<3, 2>>, w), Tensor("conv", <<4>>, w)>>,
     <<Tensor("conv", << >>, w), Tensor("pool", <<1>>, w), Tensor("conv", <<2>>, w),
       Tensor("conv", <<2>>, w), Tensor("add", <<3, 4>>, w), Tensor("conv", <<5>>, w),
       Tensor("conv", <<5>>, w)>>,
     <<Tensor("conv", << >>, 32), Tensor("conv", <<1>>, w), Tensor("conv", <<1>>, w),
       Tensor("pool", <<3>>, w), Tensor("conv", <<1>>, 16), Tensor("concat", <<2, 4, 5>>, 2 * w + 16),
       Tensor("conv", <<6>>, w), Tensor("conv", <<6>>, w)>>,
     <<Tensor("conv", << >>, w), Tensor("conv", <<1>>, w), Tensor("concat", <<1, 2>>, 2 * w),
       Tensor("conv", <<3>>, w), Tensor("conv", <<1>>, w)>>,
     <<Tensor("conv", << >>, w), Tensor("pool", <<1>>, w), Tensor("conv", <<2>>, w),
       Tensor("host", << >>, w), Tensor("conv", <<2>>, w)>>}

TraitsOf(kind) ==
    [conv |-> {"no handle", "host input", "asymmetric", "other zero", "image", "tiled"},
     dwconv |-> {"no handle", "host input", "asymmetric", "other zero", "image", "tiled", "stride"},
     pool |-> {"no handle", "other zero", "tiled", "stride", "lags"},
     add |-> {"no handle", "asymmetric", "other zero", "tiled"},
     concat |-> {"row major", "other zero"},
     host |-> {}][kind]
Asymmetric(net) ==
    [i \in DOMAIN net |-> [net[i] EXCEPT !.traits = @ \cup ({"asymmetric"} \cap TraitsOf(net[i].kind))]]
WithTrait(net) ==
    UNION {{[net EXCEPT ![i].traits = @ \cup {t}] : t \in TraitsOf(net[i].kind)} : i \in DOMAIN net}

Networks ==
    LET plain == OfFourLayers \cup UNION {Families(w) : w \in {16, 24, 32, 48}}
        asymmetric == {Asymmetric(net) : net \in plain}
    IN plain \cup asymmetric
       \cup UNION {WithTrait(net) : net \in {n \in plain \cup asymmetric : Len(n) > 4}}

\* A branch with a reader of its own whose weights are asymmetric.
BranchReadTwice ==
    {<<Tensor("conv", << >>, 16), Tensor("conv", <<1>>, 16), Tensor("concat", <<1, 2>>, 32),
       Tensor("conv", <<3>>, 16), [Tensor("conv", <<1>>, 16) EXCEPT !.traits = {"asymmetric"}]>>,
     <<Tensor("conv", << >>, 32), Tensor("conv", <<1>>, 16), Tensor("conv", <<1>>, 16),
       Tensor("conv", <<1>>, 16), Tensor("concat", <<2, 3, 4>>, 48), Tensor("conv", <<5>>, 32),
       [Tensor("conv", <<2>>, 32) EXCEPT !.traits = {"asymmetric"}]>>,
     <<Tensor("conv", << >>, 16), Tensor("dwconv", <<1>>, 16), Tensor("conv", <<2>>, 48),
       Tensor("concat", <<2, 3>>, 64), Tensor("conv", <<4>>, 32), Tensor("conv", <<5>>, 32)>>}

NoFinder ==
    /\ nd = << >> /\ here = 1 /\ start = 1 /\ count = 0 /\ programs = 0 /\ carriers = 0
    /\ runs = << >> /\ stage = "open"
LinkSpec == LinkInit /\ NoFinder /\ [][LinkNext]_linkVars
=============================================================================
