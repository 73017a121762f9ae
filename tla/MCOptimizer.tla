----------------------------- MODULE MCOptimizer -----------------------------
(* A State of nine bytes, from offset 2 on: rax with its parts ax, al and    *)
(* ah, rcx with ch, the slot, and a field that belongs to no register, whose *)
(* offset occurs behind another base too.                                    *)
EXTENDS Optimizer

Reg(n, o, s, p) == [name |-> n, offset |-> o, size |-> s, parent |-> p]

SmallRegisters ==
    {Reg("RAX", 2, 3, ""), Reg("AX", 2, 2, "RAX"), Reg("AL", 2, 1, "AX"), Reg("AH", 3, 1, "AX"),
     Reg("RCX", 5, 2, ""), Reg("CH", 6, 1, "RCX")}

rax == Pointer(State, 2, 0)
high == Pointer(State, 2, 1)    \* two bytes of rax, behind a pointer to rax
ah == Pointer(State, 3, 0)
rcx == Pointer(State, 5, 0)
ch == Pointer(State, 6, 0)
slot == Pointer(State, 7, 0)
field == Pointer(State, 9, 0)
half == Pointer(State, 10, 0)   \* the second byte of field
other == Pointer(Memory, 9, 0)
mem == Pointer(Memory, 100, 0)
last == Pointer(Memory, 101, 0)

Put(c, to, n) == [from |-> to, to |-> to, size |-> n, const |-> c]
Move(from, to, n) == [from |-> from, to |-> to, size |-> n, const |-> 0]

\* move number i of block b as instructions
Code(b, i, m) ==
    IF m.const > 0 THEN <<StoreIns(<<0, m.const>>, 0, m.to, m.size)>>
    ELSE <<LoadIns(<<b, i>>, m.from, m.size), StoreIns(<<b, i>>, 0, m.to, m.size)>>

Block(b, moves) == FlattenSeq([i \in DOMAIN moves |-> Code(b, i, moves[i])])

First == {Put(1, rax, 3), Put(2, ah, 1), Put(3, high, 2), Put(4, field, 1), Put(5, slot, 2), Put(6, ch, 1)}
Second == {Move(rax, mem, 2), Move(ah, ch, 1), Move(rcx, rax, 2), Move(ch, mem, 1), Move(field, mem, 1), Move(slot, rax, 2),
           Move(high, slot, 2), Put(7, rax, 2)}

\* two ways to return
Forks ==
    [entry : {<<>>}, succ : {<< <<2, 3>>, <<>>, <<>> >>},
     code : {<<Block(1, <<a>>), Block(2, <<Move(field, mem, 1)>>), Block(3, <<b>>)>> :
                a \in First, b \in Second}]

\* a join
Joins ==
    [entry : {<<>>}, succ : {<< <<2, 3>>, <<3>>, <<>> >>},
     code : {<<Block(1, <<Put(1, rax, 3)>>), Block(2, <<a>>), Block(3, <<b>>)>> :
                a \in {Put(2, ah, 1), Put(4, field, 1)}, b \in Second}]

\* a field that is stored, stored over and loaded, by accesses of other
\* widths, offsets and bases too
Fields ==
    [entry : {<<>>}, succ : {<< <<>> >>},
     code : {<<Block(1, <<Put(4, field, 2), a, b>>)>> :
                a \in {Put(8, other, 1), Put(8, field, 1), Put(8, field, 2)},
                b \in {Move(field, mem, 2), Move(half, mem, 1), Move(other, mem, 1)}}]

\* a loop, what it loads perhaps stored in the round before
Loops ==
    [entry : {<<>>}, succ : {<< <<2>>, <<2, 3>>, <<>> >>},
     code : {<<Block(1, <<Put(1, rax, 3)>>), Block(2, <<a, b>>), Block(3, <<Move(ch, last, 1)>>)>> :
                a \in {Put(4, field, 1), Move(field, mem, 1), Move(rax, rcx, 2)},
                b \in {Put(5, field, 1), Put(6, ch, 1), Move(rcx, high, 1)}}]

SmallFunctions == Forks \cup Joins \cup Fields \cup Loops
=============================================================================
