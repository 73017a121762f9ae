--------------------------- MODULE MCStateCleanup ---------------------------
(* Functions of three blocks for the pass to clean; offset 0 is RAX.  Bytes  *)
(* 1 and 2 of State are a register that is accessed as a whole (shape "reg"),*)
(* in its low byte, in its high byte, through a pointer of another shape     *)
(* ("byte") and without a getelementptr.                                     *)
EXTENDS StateCleanup

whole == StoreTo("state", "reg", 1, 2)
low == StoreTo("state", "reg", 1, 1)
foreign == StoreTo("stack", "reg", 1, 2)
other == StoreTo("state", "byte", 1, 2)
rax == StoreTo("state", "reg", 0, 1)

load == LoadOf("state", "reg", 1, 2)
loadHigh == LoadOf("state", "reg", 2, 1)
loadOther == LoadOf("state", "byte", 1, 1)
loadDirect == LoadOf("state", "none", 1, 2)
loadForeign == LoadOf("stack", "reg", 1, 2)

Blocks(ops, n) == UNION {[1..k -> ops] : k \in 0..n}

\* control flow without and with cycles
Graphs == {<< <<2, 3>>, <<3>>, <<>> >>, << <<2>>, <<1, 3>>, <<>> >>,
           << <<2>>, <<2, 3>>, <<>> >>, << <<2, 3>>, <<1>>, <<>> >>}

SmallFunctions ==
    [code : Blocks({whole, other, load}, 2)
            \X Blocks({low, foreign, rax, load, loadHigh}, 2)
            \X Blocks({load, loadHigh, loadOther, loadDirect, loadForeign}, 1),
     succ : Graphs]
=============================================================================
