------------------------------ MODULE MCHostCode ------------------------------
(* Bounded instance of HostCode: the skeletons that units are built from.  Each
   is a family of units that differ in their operands, some opcodes and the options. *)
EXTENDS HostCode

(* Sets of instructions to choose from; registers are named by the position of the
   instruction that sets them. *)
I(op, A, B, C, x) ==
  {[op |-> op, s1 |-> a, s2 |-> b, s3 |-> c3, x |-> x] : a \in A, b \in B, c3 \in C}
V         == I("value", {0}, {0}, {0}, 0)
Two(ops, A, B) == UNION {I(op, A, B, {0}, 0) : op \in ops}
Ret(A)    == I("return", A, {0}, {0}, 0)
SetA(x, A) == I("set", A, {0}, {0}, x)
GetA(x)   == I("get", {0}, {0}, {0}, x)
If(A, t)  == I("if", A, {0}, {0}, t)
Goto(t)   == I("goto", {0}, {0}, {0}, t)
Label     == I("label", {0}, {0}, {0}, 0)
Sub(A, C) == Two({"sub"}, A, C)
CallT     == I("call_transparent", {1}, {0}, {0}, 0)
CallF     == I("call", {1}, {0}, {0}, 0)
Ops == {"add", "sub", "seq", "shift", "mulh", "div", "mod"}

(* The unit of these blocks, given in code order as [id, code, exits]. *)
B(id, code, exits) == [id |-> id, code |-> code, exits |-> exits]
UnitOf(opts, blocks) ==
  LET N         == DOMAIN blocks
      end(j)    == FoldLeft(LAMBDA n, k : n + Len(blocks[k].code), 0, [k \in 1..j |-> k])
      ids       == {blocks[j].id : j \in N}
      falls(j, id) == j < Len(blocks) /\ blocks[j + 1].id = id /\ Head(blocks[j].exits) = id
      entries(id) == LET through == SelectSeq([j \in N |-> j], LAMBDA j : falls(j, id))
                         jumps   == SelectSeq([j \in N |-> j], LAMBDA j :
                                      id \in ToSet(blocks[j].exits) /\ ~falls(j, id))
                     IN  [k \in DOMAIN (through \o jumps) |-> blocks[(through \o jumps)[k]].id]
      index(id) == CHOOSE j \in N : blocks[j].id = id
  IN  [opts |-> opts,
       insns |-> FlattenSeq([j \in N |-> blocks[j].code]),
       blocks |-> [id \in ids |-> [first |-> end(index(id) - 1) + 1, last |-> end(index(id)),
                                   exits |-> blocks[index(id)].exits, entries |-> entries(id)]]]
Line(opts, code) == UnitOf(opts, <<B(0, code, <<>>)>>)
Plain == {{}}
Fixed == {{}, {"FIXED_REGS"}}
Both  == {{}, {"FIXED_REGS", "MERGE_REGS"}}
All   == SUBSET {"FIXED_REGS", "MERGE_REGS"}

(* Straight lines: operands in the way of fixed registers; more values than registers;
   calls with the target and arguments anywhere; tail calls; calls under pressure. *)
Arith == {Line(o, <<V, V, V, Two(Ops, 1..3, 1..3), Two({"sub", "mod", "shift"}, {1, 4}, {2, 4}),
                    Two({"sub"}, 1..3, {5}), Ret({6})>>) : o \in Fixed}
Spills == {Line(o, <<V, V, V, V, V, V, Two(Ops, {1, 6}, {1, 5, 6}), Sub({1, 5}, {2}),
                     Sub({3, 6}, {4, 7}), Sub({5, 2}, {6}), Ret({1, 7})>>) : o \in Fixed}
AnyCall == I("call", 1..6, 1..6, {0, 2, 3, 6}, 0)
Calls == {Line(o, <<V, V, V, V, V, V, AnyCall \cup I("call", 1..6, {0}, {0}, 0),
                    Sub({1, 7}, {4, 7}), Ret({8})>>) : o \in Plain}
Tails == {Line(o, <<V, V, V, V, V, V, AnyCall, Ret({0, 7})>>) : o \in Plain}
Tight == {Line(o, <<V, V, V, V, V, V, Sub({2}, {3, 6}), Sub({4}, {5, 6}),
                    I("call", {1, 5, 6}, {1, 5, 7}, {0, 1, 5, 8}, 0), Ret({0, 5, 9})>>) : o \in Plain}
Stores == {Line(o, <<V, V, SetA(1, {1, 2}), CallT \cup CallF \cup SetA(1, {2}), SetA(2, {1}),
                     GetA(1), Ret({2, 6})>>) : o \in Plain}

(* Aliases in loops and around a diamond; a loop whose blocks are numbered with a gap. *)
Loops == {UnitOf(o, <<B(0, <<V, V, SetA(1, {1, 2}), SetA(2, {2})>>, <<1>>),
                      B(1, <<Label, GetA(1), GetA(2), Two(Ops, {6, 7}, {1, 7}), SetA(1, {8}),
                             SetA(2, {6, 7, 8}), If({8}, 1)>>, <<2, 1>>),
                      B(2, <<GetA(1), GetA(2), Sub({12}, {13, 2}), Ret({14})>>, <<>>)>>) : o \in All}
Short == {UnitOf(o, <<B(0, <<V, SetA(1, {1}) \cup V>>, <<1>>),
                      B(1, <<Label, GetA(1), GetA(1), SetA(1, {1, 5}), If({1, 5}, 1)>>, <<2, 1>>),
                      B(2, <<GetA(1), Ret({1, 8})>>, <<>>)>>) : o \in All}
Diamond == {UnitOf(o, <<B(0, <<V, V, SetA(1, {1, 2}), SetA(2, {2}), If({1}, 2)>>, <<1, 2>>),
                        B(1, <<V, SetA(1, {2, 6}) \cup CallT, SetA(2, {1, 6}) \cup GetA(2),
                               Goto(3)>>, <<3>>),
                        B(2, <<Label, V \cup CallT, GetA(1) \cup GetA(2),
                               Two({"shift", "mulh"}, {12}, {1}),
                               SetA(1, {13}) \cup SetA(2, {12})>>, <<3>>),
                        B(3, <<Label, GetA(1), GetA(2), Sub({16}, {17}), Ret({17})>>, <<>>)>>)
             : o \in Both}
Gap == {UnitOf(o, <<B(0, <<V, V, SetA(1, {1, 2}), SetA(2, {1, 2}), If({1, 2}, 3)>>, <<2, 3>>),
                    B(2, <<Label, GetA(1) \cup GetA(2), SetA(1, {2, 7}), SetA(2, {7})>>, <<3>>),
                    B(3, <<Label, GetA(1), V, GetA(2), Sub({11}, {13}), SetA(1, {12, 14}),
                           If({11, 13}, 2)>>, <<4, 2>>),
                    B(4, <<GetA(1), GetA(2), Sub({17}, {18}), Ret({19})>>, <<>>)>>) : o \in Both}

(* Stores that are left out; values that are spilled where a branch jumps over or back
   from; a register merged after the value has left it. *)
Elide == {UnitOf(o, <<B(0, <<V, V, SetA(1, {1, 2}), SetA(2, {2})>>, <<1>>),
                      B(1, <<Label, GetA(1), V \cup GetA(2),
                             SetA(1, {1, 6}) \cup SetA(2, {7}) \cup CallT \cup CallF,
                             V \cup CallT, SetA(1, {6}) \cup SetA(2, {7}), If({1}, 1)>>, <<2, 1>>),
                      B(2, <<GetA(1) \cup GetA(2) \cup V, V \cup CallT, SetA(1, {2}),
                             Ret({1})>>, <<>>)>>) : o \in Both}
CrossF == {UnitOf(o, <<B(0, <<V, V, V, V, If({1}, 2)>>, <<1, 2>>),
                       B(1, <<V, V, Two(Ops, {2, 6}, {3, 7}), Sub({6}, {7}), Sub({8}, {9})>>, <<2>>),
                       B(2, <<Label, V, Two({"sub", "div"}, {1, 12}, {12, 3}), Sub({2}, {3}),
                              Sub({1, 4}, {13}), Sub({4, 14}, {15}), Ret({16})>>, <<>>)>>)
            : o \in Fixed}
CrossB == {UnitOf(o, <<B(0, <<V, V, V, V, SetA(1, {1, 4}), Goto(1)>>, <<1>>),
                       B(1, <<Label, V, GetA(1), Two(Ops, {8}, {3, 9}), Sub({8}, {9, 10}),
                              Sub({10}, {4, 11}), SetA(1, {9, 12}), If({12}, 1)>>, <<2, 1>>),
                       B(2, <<GetA(1), Sub({2}, {3, 15}), Sub({1}, {16}), Ret({17})>>, <<>>)>>)
            : o \in Both}
Stale == {UnitOf(o, <<B(0, <<V, V, V, V, V, SetA(1, {1, 2}), V, Sub({2}, {3}), Sub({4}, {5, 7}),
                            Sub({7}, {8}), If({9, 10}, 2)>>, <<1, 2>>),
                      B(1, <<GetA(1) \cup GetA(2), Sub({12}, {10, 12})>>, <<2>>),
                      B(2, <<Label, GetA(1), GetA(2), Sub({15}, {16}), Ret({17})>>, <<>>)>>)
           : o \in Both}

MCSkeletons ==
  SetToSeq(Arith) \o SetToSeq(Spills) \o SetToSeq(Calls) \o SetToSeq(Tails) \o SetToSeq(Tight)
    \o SetToSeq(Loops) \o SetToSeq(Diamond) \o SetToSeq(CrossF) \o SetToSeq(CrossB)
    \o SetToSeq(Elide) \o SetToSeq(Gap) \o SetToSeq(Stores) \o SetToSeq(Short) \o SetToSeq(Stale)

(* The quotient at 11 is a divisor at 12, and so is told to avoid rAX, which is reserved
   for value 1 until 13; but value 1 is spilled at 8, and rAX is free at 11.  For
   HostCodeDivisor.cfg. *)
Divisors ==
  SetToSeq({Line({"FIXED_REGS"},
                 <<V, V, V, V, V, Two({"mod"}, {1}, {2}), V, V, SetA(1, {8}), SetA(2, {7}),
                   Two({"div"}, {2}, {3}), Two({"div", "mod"}, {4}, {11}), Sub({1}, {12}),
                   Ret({13})>>)})
===============================================================================
