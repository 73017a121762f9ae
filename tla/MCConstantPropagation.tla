------------------------ MODULE MCConstantPropagation ------------------------
(* Functions for constant propagation: bytes 1 and 2 are in the binary, byte *)
(* 3 is an input.                                                            *)
EXTENDS ConstantPropagation

I(k, S, a, y) == [kind |-> k, bytes |-> S, args |-> a, synced |-> y]

Ld(S) == I("load", S, <<>>, TRUE)
LdOld(S) == I("load", S, <<>>, FALSE)   \* a load symex was not told of
St(S, n) == I("store", S, <<n>>, TRUE)
StUnknown == I("store", {}, <<0>>, TRUE)
CallOut == I("call", {}, <<>>, TRUE)
Add(a) == I("op", {}, a, TRUE)
Div == I("div", {}, <<1>>, TRUE)
PhiNode == I("phi", {}, <<>>, FALSE)

Writes == {St({1}, 0), St({1, 2}, 1), St({2}, 1), StUnknown}
Reads == {Ld({1}), Ld({1, 2})}
AnyAccess == Writes \cup Reads

\* two branches of one definition tree
Forks == [succ : {<< <<2, 3>>, <<>>, <<>> >>},
          code : {<< <<a>>, <<b, c>>, <<d, e>> >> : a \in AnyAccess, b \in AnyAccess, c \in Writes, d \in AnyAccess, e \in Reads}]

\* a join, and a block behind it that only the join leads to
Joins == [succ : {<< <<2, 3>>, <<4>>, <<4>>, <<5>>, <<>> >>},
          code : {<< <<>>, <<a>>, <<b>>, <<c>>, <<d, e, St({2}, 1), Ld({2})>> >> :
                    a \in Writes, b \in {St({1}, 0), Ld({2})}, c \in {Ld({1}), PhiNode, St({2}, 1)},
                    d \in {St({1}, 0), CallOut, Div}, e \in {Ld({1}), LdOld({1}), Ld({})}}]

\* a natural loop left through a block with one predecessor
Loops == [succ : {<< <<2>>, <<2, 3>>, <<>> >>},
          code : {<< <<a>>, <<b, c>>, <<d, Ld({1}), Add(<<1>>)>> >> :
                    a \in {St({1}, 0), Ld({2})}, b \in {Ld({1}), Add(<<1>>), PhiNode},
                    c \in {St({1}, 1), St({2}, 1), Add(<<1>>)}, d \in {St({1}, 0), Ld({2}), St({1}, 1)}}]

\* a cycle with two entries, which LoopInfo does not call a loop
Cycles == [succ : {<< <<2, 3>>, <<4>>, <<2>>, <<3, 5>>, <<>> >>},
           code : {<< <<a>>, <<b>>, <<c>>, <<d, Ld({1}), e>>, <<Ld({1})>> >> :
                     a \in {St({1}, 0), Ld({2})}, b \in {St({1}, 1), PhiNode},
                     c \in {St({1}, 0), Ld({1}), St({2}, 1)}, d \in {Ld({2}), St({1}, 1), St({2}, 0)},
                     e \in {St({1}, 0), St({2}, 1), Add(<<1>>)}}]

\* chains of pure instructions behind loads
Chains == [succ : {<< <<2>>, <<>> >>},
           code : {<< <<a, b>>, <<Ld({1}), c, d, St({3}, 1), e, Ld({1, 3})>> >> :
                     a \in AnyAccess, b \in {Add(<<1>>), St({3}, 0), Ld({1, 2, 3})},
                     c \in {Add(<<1>>), Add(<<1, 2>>), Div, Ld({1, 2, 3})}, d \in {Add(<<1, 2>>), Add(<<2, 1>>)},
                     e \in {Add(<<1, 3>>), Ld({3})}}]

\* unknown writes between known ones, and what is loaded behind them
Straight == [succ : {<< <<>> >>},
             code : {<< <<a, b, c, d>> >> : a, b, c \in Writes \cup {CallOut}, d \in Reads}]

\* no register is solved at a branch
Unsolving(F) ==
    {[succ |-> f.succ, code |-> f.code, solved |-> [b \in DOMAIN f.code |-> <<>>]] : f \in F}

\* a register, byte 3, that is solved at one or both branches in front of a join
Branches == [succ : {<< <<2, 3>>, <<4>>, <<4>>, <<5>>, <<>> >>},
             code : {<< <<a>>, <<Ld({3})>>, <<Ld({3})>>, <<>>, <<Ld({3}), Ld({1}), Add(<<1, 2>>)>> >> :
                       a \in {Ld({3}), CallOut, St({1}, 0), St({3}, 0)}},
             solved : {<< <<>>, [b \in {3} |-> v], w, <<>>, <<>> >> : v \in {0, 1}, w \in {<<>>, [b \in {3} |-> 0]}}]

SmallFunctions == Branches \cup Unsolving(Forks \cup Joins \cup Loops \cup Cycles \cup Chains \cup Straight)
=============================================================================
