------------------------------- MODULE Translate -------------------------------
(* binrec_translate() (api.c) and what it calls to allocate and release: the RTL
   unit, the guest block table, the buffers of the optimizer, the context of the
   host translator and the output buffer.  Any allocation may be refused.

   A field is a pointer variable; it is in ptrs when it is not NULL and in held
   while what it points to is allocated, so that a pointer left behind by a free
   is one in ptrs and not in held.  What the stages compute is left out. *)
EXTENDS Integers, Sequences, SequencesExt, FiniteSets

(* The fields, in the order they are allocated. *)
UnitFields    == <<"unit", "insns", "blocks", "regs", "aliases", "label_blockmap">>
ContextFields == <<"ctx_blocks", "ctx_regs", "label_offsets", "alias_buffer">>
Temporaries   == {"guest_blocks", "visited", "block_seen", "alias_info_buf"}
Fields        == ToSet(UnitFields) \cup ToSet(ContextFields) \cup Temporaries
                   \cup {"code_buffer"}

VARIABLES
  stage,       \* where the call is; "idle" between calls
  next,        \* index of the next field of UnitFields
  ptrs, held,
  wild,        \* memory that is not allocated has been released or reallocated
  flags        \* what the client has enabled

translateVars == <<stage, next, ptrs, held, wild, flags>>

(* binrec_enable_verify() and binrec_set_optimization_flags(): the flags that
   decide which allocations a call makes. *)
Flags == {"verify", "trim_cr", "data_flow", "basic"}

TranslateInit ==
  /\ stage = "idle" /\ next = 1
  /\ ptrs = {} /\ held = {} /\ wild = FALSE
  /\ flags = {}

(* free() of the fields fs; the pointers in nulled are then cleared, or are gone
   with the structure that holds them. *)
Frees(fs, nulled) ==
  /\ wild' = (wild \/ (fs \cap ptrs) \ held # {})
  /\ held' = held \ (fs \cap ptrs)
  /\ ptrs' = ptrs \ nulled
Frees1(fs)     == Frees(fs, fs)
Allocates(f)   == /\ held' = held \cup {f} /\ ptrs' = ptrs \cup {f} /\ UNCHANGED wild
Reallocates(f) == /\ wild' = (wild \/ f \notin held) /\ UNCHANGED <<ptrs, held>>
KeepsMemory    == UNCHANGED <<ptrs, held, wild>>
GoesTo(s)      == stage' = s /\ UNCHANGED <<next, flags>>
Returns        == stage' = "idle" /\ next' = 1 /\ UNCHANGED flags

(* What rtl_destroy_unit() and destroy_context() free. *)
BugUnitOwned    == ToSet(UnitFields) \ {"label_blockmap"}
UnitOwned       == ToSet(UnitFields)
ContextOwned    == ToSet(ContextFields)
DestroysUnit    == Frees(UnitOwned, ToSet(UnitFields))

(*************************** Creation of the unit ***************************)

(* The arguments are in order, or the call fails at once. *)
Call     == stage = "idle" /\ KeepsMemory /\ (GoesTo("create") \/ Returns)
SetFlags == stage = "idle" /\ flags' \in SUBSET Flags /\ UNCHANGED <<stage, next, ptrs, held, wild>>

CreateUnit ==
  /\ stage = "create" /\ next <= Len(UnitFields)
  /\ Allocates(UnitFields[next])
  /\ next' = next + 1
  /\ UNCHANGED <<stage, flags>>
CreateFails == stage = "create" /\ next <= Len(UnitFields) /\ DestroysUnit /\ Returns
Created     == stage = "create" /\ next > Len(UnitFields) /\ KeepsMemory /\ GoesTo("scan")

(* A stage that fails destroys the unit; the call returns false. *)
Fail(s) == stage = s /\ DestroysUnit /\ Returns

(************************** The guest translator **************************)

(* get_block() enlarges the block table. *)
GrowGuestBlocks ==
  /\ stage = "scan"
  /\ IF "guest_blocks" \in ptrs THEN Reallocates("guest_blocks") ELSE Allocates("guest_blocks")
  /\ UNCHANGED <<stage, next, flags>>

(* With TRIM_CR_STORES, the visited flags are allocated at the end of the scan;
   without the memory for them the optimization is left out. *)
ScanDone == stage = "scan" /\ "guest_blocks" \in ptrs /\ KeepsMemory /\ GoesTo("guest")
StartCRScan ==
  /\ stage = "scan" /\ "guest_blocks" \in ptrs /\ "trim_cr" \in flags
  /\ Allocates("visited") /\ GoesTo("scan_cr_bits")
EndCRScan == stage = "scan_cr_bits" /\ Frees1({"visited"}) /\ GoesTo("guest")

(* guest_ppc_translate() has one exit for success and one for the failure of the
   scan or of the translation: both release the block table. *)
GuestDone  == stage = "guest" /\ Frees1({"guest_blocks"}) /\ GoesTo("finalize")
GuestFails == stage \in {"scan", "guest"} /\ Frees1({"guest_blocks"}) /\ GoesTo("guest_failed")

(* While the guest code is translated and the unit is finalized, the arrays of
   the unit grow. *)
GrowUnit ==
  /\ stage \in {"guest", "finalize"}
  /\ \E f \in UnitOwned \ {"unit"} : Reallocates(f)
  /\ UNCHANGED <<stage, next, flags>>

Finalize == stage = "finalize" /\ KeepsMemory /\ GoesTo("optimize")

(***************************** The optimizer *****************************)

(* A failure to allocate is a warning: the unit is translated as it is. *)
NotOptimized == stage = "optimize" /\ KeepsMemory /\ GoesTo("verify")
OptimizeUnit == stage = "optimize" /\ Allocates("block_seen") /\ GoesTo("passes")

AliasDataFlow ==
  /\ stage = "passes" /\ "data_flow" \in flags
  /\ Allocates("alias_info_buf") /\ GoesTo("data_flow")
AliasDataFlowEnd == stage = "data_flow" /\ Frees1({"alias_info_buf"}) /\ GoesTo("flow_passes")
NoDataFlow       == stage = "passes" /\ KeepsMemory /\ GoesTo("flow_passes")

(* Threading adds dummy blocks. *)
ThreadBranches ==
  /\ stage = "flow_passes" /\ "basic" \in flags
  /\ Reallocates("blocks") /\ UNCHANGED <<stage, next, flags>>
Optimized == stage = "flow_passes" /\ Frees1({"block_seen"}) /\ GoesTo("verify")

Verified == stage = "verify" /\ KeepsMemory /\ GoesTo("buffer")
Rejected == "verify" \in flags /\ Fail("verify")

(************************** The host translator **************************)

AllocateCode == stage = "buffer" /\ Allocates("code_buffer") /\ GoesTo("init_context")

(* init_context() tries all four allocations before it looks at any; with one
   missing it destroys the context itself. *)
InitContext ==
  /\ stage = "init_context"
  /\ \E got \in SUBSET ToSet(ContextFields) :
       /\ held' = held \cup got /\ ptrs' = ptrs \cup got /\ UNCHANGED wild
       /\ GoesTo(IF got = ToSet(ContextFields) THEN "generate" ELSE "init_failed")

(* The pointers of a destroyed context are left as they are; they go with the
   context when host_x86_translate() returns. *)
BugAfterInitFailed == "error_destroy_context"
AfterInitFailed    == "error_return"
DestroysContext    == Frees(ContextOwned, {})
ContextGone        == ptrs' = ptrs \ ToSet(ContextFields) /\ UNCHANGED <<held, wild>>

InitFailed     == stage = "init_failed" /\ DestroysContext /\ GoesTo(AfterInitFailed)
NoCode         == stage = "init_context" /\ KeepsMemory /\ GoesTo("error_return")
ExpandCode     == /\ stage = "generate" /\ Reallocates("code_buffer")
                  /\ UNCHANGED <<stage, next, flags>>
GenerateFails  == stage = "generate" /\ KeepsMemory /\ GoesTo("error_destroy_context")
DestroyContext == stage = "error_destroy_context" /\ DestroysContext /\ GoesTo("error_return")
HostFails      == stage = "error_return" /\ ContextGone /\ GoesTo("host_failed")
Generated      == stage = "generate" /\ DestroysContext /\ GoesTo("return")
HostDone       == stage = "return" /\ ContextGone /\ GoesTo("host_done")

DestroyUnit       == stage = "host_done" /\ DestroysUnit /\ GoesTo("shrink")
DestroyUnitFailed == stage = "host_failed" /\ DestroysUnit /\ GoesTo("free_code")

Cleared    == {"code_buffer"}
FreeCode   == stage = "free_code" /\ Frees({"code_buffer"}, Cleared) /\ Returns

(* The buffer, shrunk if the allocator agrees, becomes the client's. *)
HandOut ==
  /\ stage = "shrink"
  /\ wild' = (wild \/ "code_buffer" \notin held)
  /\ held' = held \ {"code_buffer"} /\ ptrs' = ptrs \ Cleared
  /\ Returns

TranslateNext ==
  \/ Call \/ SetFlags \/ CreateUnit \/ CreateFails \/ Created
  \/ \E s \in {"guest_failed", "finalize", "buffer"} : Fail(s)
  \/ GrowGuestBlocks \/ ScanDone \/ StartCRScan \/ EndCRScan \/ GuestDone \/ GuestFails
  \/ GrowUnit \/ Finalize
  \/ NotOptimized \/ OptimizeUnit \/ AliasDataFlow \/ AliasDataFlowEnd \/ NoDataFlow
  \/ ThreadBranches \/ Optimized \/ Verified \/ Rejected
  \/ AllocateCode \/ InitContext \/ InitFailed \/ NoCode \/ ExpandCode \/ GenerateFails
  \/ DestroyContext \/ HostFails \/ Generated \/ HostDone
  \/ DestroyUnit \/ DestroyUnitFailed \/ FreeCode \/ HandOut

TranslateSpec == TranslateInit /\ [][TranslateNext]_translateVars

(****************************** Properties ******************************)

(* The variables keep their types, and whatever is allocated can be reached. *)
TranslateTypeOK ==
  /\ next \in 1..Len(UnitFields) + 1
  /\ flags \subseteq Flags /\ wild \in BOOLEAN
  /\ ptrs \subseteq Fields /\ held \subseteq ptrs

(* However a call ends, it has released all it allocated, except the buffer it
   gives to the client. *)
NothingLeaked == stage = "idle" => held = {}

(* No error path releases a buffer twice or enlarges one that is gone: in
   particular the two that destroy the context of the host translator. *)
NoWildFree == ~wild

(* The assertion of binrec_destroy_handle(): between calls the handle holds no
   code buffer. *)
CodeBufferNull == stage = "idle" => ptrs = {}

(* The invariant of a call: types, nothing leaked, no pointer used after its release,
   and no code buffer left behind. *)
TranslateInv == TranslateTypeOK /\ NothingLeaked /\ NoWildFree /\ CodeBufferNull

(************************** Inductive invariant **************************)

(* What a call holds, stage by stage.  At "scan" it may hold the block table, and
   while the host context is being made parts of it. *)
Holds ==
  /\ stage = "idle" => held = {} /\ next = 1
  /\ stage = "create" => held = {UnitFields[i] : i \in 1..(next - 1)}
  /\ stage = "scan" => /\ UnitOwned \subseteq held
                       /\ held \subseteq UnitOwned \cup {"guest_blocks"}
  /\ stage = "scan_cr_bits" => held = UnitOwned \cup {"guest_blocks", "visited"}
  /\ stage = "guest" => held = UnitOwned \cup {"guest_blocks"}
  /\ stage \in {"guest_failed", "finalize", "optimize", "verify", "buffer"} => held = UnitOwned
  /\ stage \in {"passes", "flow_passes"} => held = UnitOwned \cup {"block_seen"}
  /\ stage = "data_flow" => held = UnitOwned \cup {"block_seen", "alias_info_buf"}
  /\ stage \in {"init_context", "error_return", "host_failed", "return", "host_done"} =>
       held = UnitOwned \cup {"code_buffer"}
  /\ stage = "init_failed" =>
       /\ UnitOwned \cup {"code_buffer"} \subseteq held
       /\ held \subseteq UnitOwned \cup {"code_buffer"} \cup ContextOwned
  /\ stage \in {"generate", "error_destroy_context"} =>
       held = UnitOwned \cup {"code_buffer"} \cup ContextOwned
  /\ stage \in {"shrink", "free_code"} => held = {"code_buffer"}

Stages == {"idle", "create", "scan", "scan_cr_bits", "guest", "guest_failed", "finalize",
           "optimize", "passes", "data_flow", "flow_passes", "verify", "buffer",
           "init_context", "init_failed", "generate", "error_destroy_context",
           "error_return", "host_failed", "return", "host_done", "shrink", "free_code"}

(* The pointers that outlive what they point to are those of a host context that has
   been destroyed. *)
TranslateIInv ==
  /\ stage \in Stages /\ next \in 1..(Len(UnitFields) + 1)
  /\ flags \subseteq Flags /\ wild = FALSE
  /\ Holds
  /\ held \subseteq ptrs
  /\ stage \in {"error_return", "return"} => ptrs \subseteq held \cup ContextOwned
  /\ stage \notin {"error_return", "return"} => ptrs = held
==============================================================================
