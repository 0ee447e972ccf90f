----------------------------- MODULE RTLAliasFlow -----------------------------
(* rtl_opt_alias_data_flow() (rtl-opt.c): dead SET_ALIAS instructions are found
   by recording the references to each alias block by block, and then following
   the flow graph from the last SET_ALIAS of every block.

   Aliases do not affect one another, so one alias is modelled; a block is the
   sequence of its references to it, "call" being CALL or CALL_TRANSPARENT.  The
   recursion of is_alias_store_visible() is an explicit stack, one step for each
   exit it looks at. *)
EXTENDS Integers, Sequences, SequencesExt, FiniteSets

CONSTANTS NumBlocks,  \* blocks of the unit
          MaxRefs     \* bound: references to the alias in the whole unit

ASSUME AliasAssumption == NumBlocks \in Nat \ {0} /\ MaxRefs \in Nat

Blocks == 0..(NumBlocks - 1)
Refs   == {"set", "get", "call"}

VARIABLES
  refs,    \* the references in each block, "nop" for a killed SET_ALIAS
  exits,   \* RTLBlock.exits
  bound,   \* unit->aliases[].base # 0: the alias has storage
  info,    \* alias_info[]: the AliasRef of each block
  pass, at,
  stack,   \* blocks being searched, each with the exit to look at next
  seen,    \* unit->block_seen[]
  source   \* history variable: the references before the pass

aliasVars == <<refs, exits, bound, info, pass, at, stack, seen, source>>

RefSeqs  == UNION {[1..n -> Refs] : n \in 0..3}
Total(r) == FoldFunction(LAMBDA s, n : Len(s) + n, 0, r)

(* A block ends in RETURN, in GOTO, or goes on to the next block with or
   without a conditional branch. *)
ExitsOf(b) == {<<>>} \cup {<<c>> : c \in Blocks}
                \cup {<<b + 1, c>> : c \in Blocks \ {b + 1}}
Graphs == {g \in [Blocks -> UNION {ExitsOf(b) : b \in Blocks}] :
             \A b \in Blocks : g[b] \in ExitsOf(b) /\ ToSet(g[b]) \subseteq Blocks}

NoRef == [has_set |-> FALSE, has_get |-> FALSE, set_used |-> FALSE, set_insn |-> 0]

AliasInit ==
  /\ refs \in [Blocks -> RefSeqs] /\ Total(refs) <= MaxRefs
  /\ bound \in BOOLEAN
  /\ exits \in Graphs
  /\ info = [b \in Blocks |-> NoRef]
  /\ pass = "collect" /\ at = 0
  /\ stack = <<>> /\ seen = {}
  /\ source = refs

(* The alias tracking buffer may be refused: the analysis is skipped. *)
NoMemory ==
  /\ pass = "collect" /\ at = 0
  /\ pass' = "skipped"
  /\ UNCHANGED <<refs, exits, bound, info, at, stack, seen, source>>

(******************************* Collecting *******************************)

(* What one reference, the i-th of its block, does to the record r. *)
AfterCall(r)  == [r EXCEPT !.set_used = @ \/ bound]
AfterGet(r)   == IF r.has_set THEN [r EXCEPT !.set_used = TRUE]
                              ELSE [r EXCEPT !.has_get = TRUE]
AfterSet(r, i) == [r EXCEPT !.has_set = TRUE, !.set_used = FALSE, !.set_insn = i]
Record(s) ==
  LET f[i \in 0..Len(s)] ==
        IF i = 0 THEN NoRef
        ELSE CASE s[i] = "set"  -> AfterSet(f[i - 1], i)
               [] s[i] = "get"  -> AfterGet(f[i - 1])
               [] s[i] = "call" -> AfterCall(f[i - 1])
  IN  f

(* A SET_ALIAS that finds the previous one of its block unused kills it. *)
BugOverwritten(s, i) ==
  \E j \in DOMAIN s : s[j] = "set" /\ Record(s)[j - 1].has_set /\ Record(s)[j - 1].set_insn = i
Overwritten(s, i) ==
  \E j \in DOMAIN s :
    /\ s[j] = "set"
    /\ LET r == Record(s)[j - 1] IN r.has_set /\ ~r.set_used /\ r.set_insn = i
Killed(s, i) == [s EXCEPT ![i] = "nop"]

Collect ==
  /\ pass = "collect" /\ at < NumBlocks
  /\ LET s == refs[at] IN
       /\ info' = [info EXCEPT ![at] = Record(s)[Len(s)]]
       /\ refs' = [refs EXCEPT ![at] = [i \in DOMAIN s |-> IF Overwritten(s, i) THEN "nop" ELSE s[i]]]
  /\ at' = at + 1
  /\ UNCHANGED <<exits, bound, pass, stack, seen, source>>

CollectEnd ==
  /\ pass = "collect" /\ at >= NumBlocks
  /\ pass' = "trace" /\ at' = 0
  /\ UNCHANGED <<refs, exits, bound, info, stack, seen, source>>

(******************************** Tracing *********************************)

TraceSkip ==
  /\ pass = "trace" /\ at < NumBlocks
  /\ ~info[at].has_set \/ info[at].set_used
  /\ at' = at + 1
  /\ UNCHANGED <<refs, exits, bound, info, pass, stack, seen, source>>

TraceBegin ==
  /\ pass = "trace" /\ at < NumBlocks
  /\ info[at].has_set /\ ~info[at].set_used
  /\ pass' = "search"
  /\ stack' = <<[blk |-> at, exit |-> 2]>> /\ seen' = {}
  /\ UNCHANGED <<refs, exits, bound, info, at, source>>

Searching == pass = "search" /\ stack # <<>>
Top       == Last(stack)
Below     == Front(stack)
Found     == pass' = "trace" /\ at' = at + 1 /\ stack' = <<>> /\ seen' = {}
GoOnWith(s, v) == stack' = s /\ seen' = v /\ UNCHANGED <<pass, at>>

(* A block with no exit leaves the unit: only storage remembers the value. *)
VisibleAtExit == bound

LeaveUnit ==
  /\ Searching
  /\ exits[Top.blk] = <<>>
  /\ IF VisibleAtExit THEN Found ELSE GoOnWith(Below, seen)
  /\ UNCHANGED <<refs, exits, bound, info, source>>

(* The second exit, if there is one, is searched first; the block is kept on
   the stack for its first exit. *)
FirstExitNext == Append(Below, [Top EXCEPT !.exit = 1])
SeenSecond(e) == seen \cup {e}

SecondExit ==
  /\ Searching
  /\ exits[Top.blk] # <<>> /\ Top.exit = 2
  /\ IF Len(exits[Top.blk]) = 2 /\ exits[Top.blk][2] \notin seen
     THEN LET e == exits[Top.blk][2] IN
            IF info[e].has_get THEN Found
            ELSE IF info[e].has_set THEN GoOnWith(FirstExitNext, SeenSecond(e))
            ELSE GoOnWith(Append(FirstExitNext, [blk |-> e, exit |-> 2]), SeenSecond(e))
     ELSE GoOnWith(FirstExitNext, seen)
  /\ UNCHANGED <<refs, exits, bound, info, source>>

(* The first exit is a tail call: it takes the place of its block. *)
FirstExitSet(e) == info[e].has_set

FirstExit ==
  /\ Searching
  /\ exits[Top.blk] # <<>> /\ Top.exit = 1
  /\ LET e == exits[Top.blk][1] IN
       IF e \in seen THEN GoOnWith(Below, seen)
       ELSE IF info[e].has_get THEN Found
       ELSE IF FirstExitSet(e) THEN GoOnWith(Below, seen \cup {e})
       ELSE GoOnWith(Append(Below, [blk |-> e, exit |-> 2]), seen \cup {e})
  /\ UNCHANGED <<refs, exits, bound, info, source>>

NotVisible ==
  /\ pass = "search" /\ stack = <<>>
  /\ refs' = [refs EXCEPT ![at] = Killed(@, info[at].set_insn)]
  /\ pass' = "trace" /\ at' = at + 1 /\ seen' = {}
  /\ UNCHANGED <<exits, bound, info, stack, source>>

TraceEnd ==
  /\ pass = "trace" /\ at >= NumBlocks
  /\ pass' = "done"
  /\ UNCHANGED <<refs, exits, bound, info, at, stack, seen, source>>

AliasNext == \/ NoMemory \/ Collect \/ CollectEnd
             \/ TraceSkip \/ TraceBegin \/ LeaveUnit \/ SecondExit \/ FirstExit
             \/ NotVisible \/ TraceEnd
AliasSpec == AliasInit /\ [][AliasNext]_aliasVars

(***************************** Properties *********************************)

AliasTypeOK ==
  /\ \A b \in Blocks : refs[b] \in Seq(Refs \cup {"nop"}) /\ Len(refs[b]) = Len(source[b])
  /\ info \in [Blocks -> [has_set : BOOLEAN, has_get : BOOLEAN,
                          set_used : BOOLEAN, set_insn : 0..3]]
  /\ pass \in {"collect", "trace", "search", "done", "skipped"}
  /\ at \in 0..NumBlocks
  /\ stack \in Seq([blk : Blocks, exit : 1..2]) /\ Len(stack) <= NumBlocks + 1
  /\ seen \subseteq Blocks

(* The value of the alias is wanted at position i of block b of the unfinished program: a
   GET_ALIAS, a call, or the end of the unit comes before any other SET_ALIAS on some
   path.  Storage makes the value visible to a call and to the unit's caller.  But a call
   counts only after a SET_ALIAS of its own block: collecting tells the search nothing of
   any other call. *)
Reader(r)     == r = "get" \/ (r = "call" /\ bound)
Heard(s, j)   == Reader(s[j]) /\ (s[j] = "call" => \E k \in 1..(j - 1) : s[k] = "set")
ReadIn(b, i)  == \E j \in i..Len(source[b]) :
                   Heard(source[b], j) /\ \A k \in i..(j - 1) : source[b][k] # "set"
Passes(b, i)  == \A k \in i..Len(source[b]) : source[b][k] # "set"
WantedSet(W)  == \A b \in Blocks :
                   b \in W <=> \/ ReadIn(b, 1)
                               \/ Passes(b, 1) /\ exits[b] = <<>> /\ bound
                               \/ Passes(b, 1) /\ \E c \in ToSet(exits[b]) : c \in W
WantedBlocks  == CHOOSE W \in SUBSET Blocks :
                   WantedSet(W) /\ \A V \in SUBSET Blocks : WantedSet(V) => W \subseteq V
Wanted(b, i)  == \/ ReadIn(b, i)
                 \/ Passes(b, i) /\ exits[b] = <<>> /\ bound
                 \/ Passes(b, i) /\ \E c \in ToSet(exits[b]) : c \in WantedBlocks

(* No store is killed that can still be read by a GET_ALIAS on any path, by a call in its
   own block or by whoever reads storage after the unit: the only readers that the pass
   may take a store from are calls without a SET_ALIAS before them in their block. *)
NoWantedStoreKilled ==
  \A b \in Blocks : \A i \in DOMAIN source[b] :
    source[b][i] = "set" /\ refs[b][i] = "nop" => ~Wanted(b, i + 1)

(* And every store that nothing can read is killed, loops included, and those too that
   only such calls can read. *)
DeadStoresKilled ==
  pass = "done" =>
    \A b \in Blocks : \A i \in DOMAIN source[b] : refs[b][i] = "set" => Wanted(b, i + 1)

(* "A call-type instruction is effectively a reference to any previously set alias with
   bound storage": in its own block it is, but a store that reaches a call of a later
   block may be killed. *)
CallFirst(b)   == \E j \in DOMAIN source[b] : /\ source[b][j] = "call"
                                              /\ \A k \in 1..(j - 1) : source[b][k] # "set"
CallReads(b, i) == /\ bound /\ Passes(b, i)
                   /\ \E c \in ToSet(exits[b]) : CallFirst(c)
EveryCallReads ==
  \A b \in Blocks : \A i \in DOMAIN source[b] :
    source[b][i] = "set" /\ refs[b][i] = "nop" => ~CallReads(b, i + 1)

(* What rtl_opt_alias_data_flow() does to the stores: it kills exactly those that nothing
   can read but, it may be, calls that it does not hear of. *)
AliasInv == AliasTypeOK /\ NoWantedStoreKilled /\ DeadStoresKilled


(************************** Inductive invariant ***************************)

(* Of a block's references, those that collecting keeps, and of these the ones that
   are left once its last SET_ALIAS has been traced: the value of that is wanted
   if some way out of the block wants it. *)
LastRecord(b) == Record(source[b])[Len(source[b])]
Collected(b) ==
  [i \in DOMAIN source[b] |-> IF Overwritten(source[b], i) THEN "nop" ELSE source[b][i]]
Through(b) == \/ exits[b] = <<>> /\ bound
              \/ \E c \in ToSet(exits[b]) : c \in WantedBlocks
DeadEnd(b) == LastRecord(b).has_set /\ ~LastRecord(b).set_used /\ ~Through(b)
Traced(b) ==
  [i \in DOMAIN source[b] |-> IF DeadEnd(b) /\ i = LastRecord(b).set_insn THEN "nop"
                              ELSE Collected(b)[i]]

SourceOK ==
  /\ source \in [Blocks -> RefSeqs] /\ bound \in BOOLEAN /\ exits \in Graphs
  /\ at \in 0..NumBlocks
  /\ pass \in {"collect", "trace", "search", "done", "skipped"}

ProgressOK ==
  /\ pass = "done" => at = NumBlocks
  /\ refs \in [Blocks -> Seq(Refs \cup {"nop"})]
  /\ info \in [Blocks -> [has_set : BOOLEAN, has_get : BOOLEAN,
                          set_used : BOOLEAN, set_insn : 0..3]]
  /\ \A b \in Blocks :
       IF pass \in {"collect", "skipped"}
       THEN /\ refs[b] = IF b < at THEN Collected(b) ELSE source[b]
            /\ b < at => info[b] = LastRecord(b)
       ELSE /\ refs[b] = IF b < at THEN Traced(b) ELSE Collected(b)
            /\ info[b] = LastRecord(b)

(* The search: what is on the stack is passed through on the way from the block being
   traced, what has been seen has no reader, and an exit that has not been looked at
   is one of a block that is still on the stack. *)
Waiting(b, exit) == \E i \in DOMAIN stack : stack[i].blk = b /\ stack[i].exit >= exit
Searched == {at} \cup {b \in seen : ~info[b].has_set}
SearchOK ==
  /\ at < NumBlocks /\ info[at].has_set /\ ~info[at].set_used
  /\ stack \in Seq([blk : Blocks, exit : 1..2]) /\ seen \subseteq Blocks
  /\ \A i, j \in DOMAIN stack : stack[i].blk = stack[j].blk => i = j
  /\ \A i \in DOMAIN stack : stack[i].blk \in Searched
  /\ \A i \in DOMAIN stack : Through(stack[i].blk) => Through(at)
  /\ \A b \in seen : ~info[b].has_get
  /\ \A b \in Searched :
       /\ exits[b] = <<>> => ~bound \/ Waiting(b, 1)
       /\ exits[b] # <<>> => exits[b][1] \in seen \/ Waiting(b, 1)
       /\ Len(exits[b]) = 2 => exits[b][2] \in seen \/ Waiting(b, 2)

AliasIInv ==
  /\ SourceOK /\ ProgressOK
  /\ IF pass = "search" THEN SearchOK ELSE stack = <<>> /\ seen = {}
==============================================================================
