----------------------------- MODULE ReadonlyMap -----------------------------
(* The read-only memory map of a handle (api.c): two bits per page of guest
   memory, and a table of the pages that are read-only in part, searched by
   bisection.  Each call of the interface is one step; regions come in any order. *)
EXTENDS Integers, FiniteSets

CONSTANTS PageSize,        \* READONLY_PAGE_SIZE
          NumPages,        \* bound: pages of the guest address space (2^20)
          MaxPartial,      \* MAX_PARTIAL_READONLY
          Regions          \* bound: the regions <<base, size>> a client may add

Space     == PageSize * NumPages
Addresses == 0..(Space - 1)
Pages     == 0..(NumPages - 1)
Unused    == NumPages          \* ~0: above every page
Slots     == 0..(MaxPartial - 1)

(* A region ends below the top of the address space: base + size does not wrap. *)
ASSUME MapAssumption ==
  /\ PageSize \in Nat \ {0} /\ NumPages \in Nat \ {0} /\ MaxPartial \in Nat \ {0}
  /\ Regions \subseteq {r \in Addresses \X Addresses : r[1] + r[2] < Space}

VARIABLES
  map,      \* [full, part: the two bits of readonly_map; pages, bytes, num:
            \*  partial_readonly_pages, partial_readonly_map, num_partial_readonly;
            \*  lost, a history variable: the pages whose slot was written over]
  result,   \* what the last call returned; "assert" if an ASSERT failed in it,
            \* "beyond" if it read past the end of the table's arrays
  added,    \* history variable: addresses of the regions added
  refused   \* history variable: addresses of the regions refused

mapVars == <<map, result, added, refused>>

Empty == [full |-> {}, part |-> {}, pages |-> [s \in Slots |-> Unused],
          bytes |-> [s \in Slots |-> {}], num |-> 0, lost |-> {}]

MapInit == map = Empty /\ result = "none" /\ added = {} /\ refused = {}

(******************************* Searching ********************************)

(* lookup_partial_readonly_page(): the slot of page p, or the slot it should
   be put in, which may be past the end.  A slot past the end reads as ~0. *)
PageIn(m, s) == IF s \in Slots THEN m.pages[s] ELSE Unused
Ranges(n) == {r \in (0..n) \X (-1..(n - 1)) : r[1] <= r[2] + 1}
Search(m, p) ==
  LET search[r \in Ranges(m.num)] ==        \* what is left to search: from low to high
        LET mid == (r[1] + r[2]) \div 2
        IN  IF r[1] > r[2] THEN r[1]
            ELSE IF p = PageIn(m, mid) THEN mid
            ELSE IF p < PageIn(m, mid) THEN search[<<r[1], mid - 1>>]
            ELSE search[<<mid + 1, r[2]>>]
  IN  search
Lookup(m, p) == Search(m, p)[<<0, m.num - 1>>]

PageOf(a) == a \div PageSize
Offset(a) == a % PageSize

(* is_address_readonly(), and the assertion it makes. *)
InTable(m, p) == Lookup(m, p) \in Slots /\ m.pages[Lookup(m, p)] = p
IsReadonly(m, a) ==
  \/ PageOf(a) \in m.full
  \/ PageOf(a) \in m.part /\ InTable(m, PageOf(a)) /\ Offset(a) \in m.bytes[Lookup(m, PageOf(a))]

(******************************** Adding **********************************)

(* The two memmove() calls that precede the insertion at slot s of a table with a
   slot to spare: slots s + 1 to num move down to s to num - 1, and the new page
   goes to slot s.  What was in slots s and s + 1 is gone. *)
MovedDown(a, s, num) == [i \in Slots |-> IF i >= s /\ i < num THEN a[i + 1] ELSE a[i]]
Overwritten(m, s) == {PageIn(m, s), PageIn(m, s + 1)} \ {Unused}
BugWithPage(m, p, s) ==       \* the bytes of the slot are not cleared
  [full |-> m.full, part |-> m.part \cup {p}, num |-> m.num + 1,
   pages |-> [MovedDown(m.pages, s, m.num) EXCEPT ![s] = p],
   bytes |-> MovedDown(m.bytes, s, m.num), lost |-> m.lost \cup Overwritten(m, s)]
WithPage(m, p, s) ==
  [full |-> m.full, part |-> m.part \cup {p}, num |-> m.num + 1,
   pages |-> [MovedDown(m.pages, s, m.num) EXCEPT ![s] = p],
   bytes |-> [MovedDown(m.bytes, s, m.num) EXCEPT ![s] = {}],
   lost  |-> m.lost \cup Overwritten(m, s)]

(* add_partial_readonly_page() for the addresses start .. stop - 1, which lie in
   one page: the map it leaves, and its result.  The last slot is unused although
   the count says otherwise once pages were written over: memmove() then reads past
   the arrays, which is undefined, and the model does not go on. *)
TableFull(m, p, s) ==
  s = MaxPartial \/ (PageIn(m, s) # p /\ m.pages[MaxPartial - 1] # Unused)
AddPartial(m, start, stop) ==
  LET p == PageOf(start)
      s == Lookup(m, p)
      n == IF PageIn(m, s) = p THEN m ELSE WithPage(m, p, s)
  IN  IF stop < start THEN [map |-> m, result |-> "assert"]       \* ASSERT(end >= start)
      ELSE IF TableFull(m, p, s) THEN [map |-> m, result |-> "full"]
      ELSE IF PageIn(m, s) # p /\ m.num = MaxPartial THEN [map |-> m, result |-> "beyond"]
      ELSE [map |-> [n EXCEPT !.bytes[s] = @ \cup {a - p * PageSize : a \in start..(stop - 1)}],
            result |-> "ok"]

(* The pages that are read-only as a whole. *)
AddFull(m, first, last) ==
  [m EXCEPT !.full = @ \cup (first..last), !.part = @ \ (first..last)]

(* binrec_add_readonly_region(); addresses are 32 bits wide and wrap. *)
Smaller(a, b) == IF a < b THEN a ELSE b
FirstPart(m, base, top) ==
  IF Offset(base) = 0 THEN [map |-> m, result |-> "ok"]
  ELSE AddPartial(m, base, Smaller((PageOf(base) * PageSize + PageSize) % Space, top))
BaseAfter(base, top) ==
  IF Offset(base) = 0 THEN base ELSE Smaller((PageOf(base) * PageSize + PageSize) % Space, top)
LastPart(m, top) ==
  IF Offset(top) = 0 THEN [map |-> m, result |-> "ok"]
  ELSE AddPartial(m, PageOf(top) * PageSize, top)

AddRegion(m, base, size) ==
  LET top   == (base + size) % Space
      first == FirstPart(m, base, top)
      next  == BaseAfter(base, top)
      last  == LastPart(first.map, top)
  IN  IF first.result # "ok" \/ (Offset(base) # 0 /\ next = top) THEN first
      ELSE IF last.result # "ok" THEN last
      ELSE [map |-> AddFull(last.map, PageOf(next), PageOf(top) - 1), result |-> "ok"]

Region(base, size) == base..(base + size - 1)

Add(base, size) ==
  /\ result \notin {"assert", "beyond"}
  /\ LET r == AddRegion(map, base, size) IN
       /\ map' = r.map /\ result' = r.result
       /\ added' = IF r.result = "ok" THEN added \cup Region(base, size) ELSE added
       /\ refused' = IF r.result = "ok" THEN refused ELSE refused \cup Region(base, size)

Clear ==
  /\ result \notin {"assert", "beyond"}
  /\ map' = [Empty EXCEPT !.bytes = map.bytes]
  /\ result' = "none" /\ added' = {} /\ refused' = {}

MapNext == (\E r \in Regions : Add(r[1], r[2])) \/ Clear
MapSpec == MapInit /\ [][MapNext]_mapVars

(***************************** Properties *********************************)

Maps == [full : SUBSET Pages, part : SUBSET Pages, pages : [Slots -> Pages \cup {Unused}],
         bytes : [Slots -> SUBSET (0..(PageSize - 1))], num : 0..MaxPartial, lost : SUBSET Pages]
MapTypeOK ==
  /\ map \in Maps
  /\ result \in {"none", "ok", "full", "assert", "beyond"}

(* A load is folded only when the client has declared its address, whatever the order
   of the regions: no address outside the regions the client asked for is read-only.
   And every address of a region that was added is, unless its page is one of those
   whose slot a later insertion has written over (the memmove() calls of
   add_partial_readonly_page() move the slots down instead of up). *)
ReadonlyExact ==
  \A a \in Addresses :
    /\ a \in added => IsReadonly(map, a) \/ PageOf(a) \in map.lost
    /\ IsReadonly(map, a) => a \in added \cup refused

(* The assertions of is_address_readonly(): a page marked as read-only in part is
   found in the table, but for the pages written over. *)
PartialPagesFound == \A p \in map.part \ map.full : InTable(map, p) \/ p \in map.lost

(* The same without the exception, which regions in descending order break. *)
AllPartialPagesFound == \A p \in map.part \ map.full : InTable(map, p)

(* "The arrays are kept sorted by page address; an address of ~0 indicates that all
   remaining entries are unused": so they are after every insertion, also one in the
   middle.  The count is that of the slots used, until one has been written over. *)
TableSorted ==
  LET used == {s \in Slots : map.pages[s] # Unused}
  IN  /\ \A s, t \in Slots : s < t /\ map.pages[t] # Unused => map.pages[s] < map.pages[t]
      /\ Cardinality(used) <= map.num
      /\ map.lost = {} => Cardinality(used) = map.num

(* "False if the region could not be added because the partial-page table is full": a
   region is refused only while no slot is free, whatever came before. *)
RefusedOnlyWhenFull == result = "full" => \A s \in Slots : map.pages[s] # Unused

(* memmove() stays within the table as long as no slot has been written over. *)
BeyondOnlyAfterLoss == result = "beyond" => map.lost # {}

(* The invariant of the map: types, the table that the search relies on, and why
   a region was refused. *)
MapInv ==
  /\ MapTypeOK
  /\ TableSorted /\ PartialPagesFound
  /\ RefusedOnlyWhenFull /\ BeyondOnlyAfterLoss

(************************** Inductive invariant ***************************)

(* The slots used, the pages they stand for, and the addresses their bits mark. *)
Used(m)   == {s \in Slots : m.pages[s] # Unused}
Listed(m) == {m.pages[s] : s \in Used(m)}
Marked(m) == {a \in Addresses : \E s \in Used(m) : /\ m.pages[s] = PageOf(a)
                                                   /\ Offset(a) \in m.bytes[s]}

(* A map whose used slots come first, in the order of their pages; a slot that the
   count includes is unused only if one was written over. *)
MapOK(m) ==
  /\ m \in Maps
  /\ m.part \subseteq Listed(m) \cup m.lost
  /\ Listed(m) \subseteq m.part \cup m.full
  /\ \A s, t \in Slots : s < t /\ m.pages[t] # Unused => m.pages[s] < m.pages[t]
  /\ \A s \in Used(m) : s < m.num
  /\ m.lost = {} => \A s \in Slots : s < m.num => s \in Used(m)

(* What is marked, page by page or bit by bit, is what the regions asked for. *)
MapIInv ==
  /\ MapOK(map)
  /\ result \in {"none", "ok", "full", "assert", "beyond"}
  /\ \A a \in Addresses : PageOf(a) \in map.full => a \in added
  /\ \A a \in added : /\ a \in Addresses
                      /\ PageOf(a) \in map.full \/ a \in Marked(map) \/ PageOf(a) \in map.lost
  /\ Marked(map) \subseteq added \cup refused
  /\ RefusedOnlyWhenFull /\ BeyondOnlyAfterLoss
==============================================================================
