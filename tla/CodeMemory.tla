----------------------------- MODULE CodeMemory -----------------------------
(***************************************************************************)
(* The page allocators of the original engine, in one address space:       *)
(* MemoryAllocator.h (trampolines, relocated code), NearMemoryAllocator.h  *)
(* (blocks within reach of a branch), linear_allocator.h (the bump pointer *)
(* of a page) and the OSMemory functions of platform-posix.cc.  Every      *)
(* allocator function runs under its mutex, so each is one action; a code  *)
(* block is written by the caller that allocated it, under the             *)
(* interceptor's lock, before the next near allocation.                    *)
(***************************************************************************)
EXTENDS Integers, FiniteSets, SequencesExt

CONSTANTS
  PageSize, Align,   \* page size; alignment of the bump pointer
  GapAlign,          \* alignment of a block in a code gap (4 in the code)
  NumPages,          \* size of the address space
  Foreign,           \* pages of the program: page |-> permission
  OsPages,           \* pages mmap picks when no address is given
  Gap,               \* addresses of zero bytes in the program's code
  Calls, NearCalls,  \* [size, exec] asked of the two allocators
  Places,            \* [pos, range] of the near requests
  MaxHeld,           \* bound: blocks held at once
  ProtectFails       \* TRUE: mprotect of a near page may fail

AllPages == {PageSize * k : k \in 1..NumPages}

ASSUME MemoryAssumption ==
  /\ {PageSize, Align, GapAlign, NumPages} \subseteq Nat \ {0}
  /\ DOMAIN Foreign \subseteq AllPages
  /\ OsPages \subseteq AllPages \ DOMAIN Foreign
  /\ \A c \in NearCalls : c.size >= Align    \* stubs are 8 bytes or more
  /\ \A pl \in Places : pl.range <= pl.pos
  /\ \A pl \in Places : 2 * pl.range >= PageSize    \* a branch reaches 128 MB or more

VARIABLES
  perm,                          \* permission of every page, "none" if unmapped
  written,                       \* bytes of executable pages that callers wrote
  page_records, records,         \* gMemoryAllocator
  near_page_records, near_records,  \* gNearMemoryAllocator
  held                           \* blocks the callers hold

general == <<page_records, records>>
near == <<near_page_records, near_records>>
vars == <<perm, written, general, near, held>>

Mapped == {p \in AllPages : perm[p] # "none"}
PageBytes(p) == p..(p + PageSize - 1)
Bytes(b) == b.addr..(b.addr + b.size - 1)
PermOf(exec) == IF exec THEN "rx" ELSE "rw"

AlignFloor(a, m) == (a \div m) * m
AlignCeil(a, m) == ((a + m - 1) \div m) * m

\* MemRange: contains and intersect.
MemRange(start, size) == [addr |-> start, size |-> size]
End(r) == r.addr + r.size
RangeContains(r, addr, size) == size # 0 /\ addr >= r.addr /\ addr + size <= End(r)
Intersect(r, s) ==
  LET lo == IF r.addr > s.addr THEN r.addr ELSE s.addr
      hi == IF End(r) < End(s) THEN End(r) ELSE End(s)
  IN  IF lo < hi THEN MemRange(lo, hi - lo) ELSE MemRange(0, 0)

\* simple_linear_allocator_t of a page record: the cursor is aligned first,
\* and stays aligned when the block does not fit.
Cursor(p) == p.page + p.size
Aligned(p) == [p EXCEPT !.size = AlignCeil(Cursor(p), Align) - p.page]
Fits(p, n) == Aligned(p).size + n <= PageSize
BumpForgetsGap(p, n) == IF Fits(p, n) THEN [p EXCEPT !.size = @ + n] ELSE p

Bump(p, n) == IF Fits(p, n) THEN [Aligned(p) EXCEPT !.size = @ + n] ELSE Aligned(p)
Block(p, n) == IF Fits(p, n) THEN Cursor(Aligned(p)) ELSE 0

NewPage(p, exec) == [page |-> p, exec |-> exec, size |-> 0]
Record(addr, n, exec, owned) ==
  [addr |-> addr, size |-> n, page |-> AlignFloor(addr, PageSize), exec |-> exec,
   free |-> FALSE, owned |-> owned]

Init ==
  /\ perm = [p \in AllPages |-> IF p \in DOMAIN Foreign THEN Foreign[p] ELSE "none"]
  /\ written = {}
  /\ page_records = <<>> /\ records = <<>>
  /\ near_page_records = <<>> /\ near_records = <<>>
  /\ held = {}

\* A caller gets a block and, if it is code, writes it.
Hold(b) ==
  /\ held' = held \cup {b}
  /\ written' = IF b.exec THEN written \cup Bytes(b) ELSE written

First(ns) == CHOOSE n \in ns : \A m \in ns : n <= m
-----------------------------------------------------------------------------
(* MemoryAllocator *)

Anywhere == [pos |-> 0, range |-> 0]
MemBlock(addr, n, exec) == [addr |-> addr, size |-> n, exec |-> exec, place |-> Anywhere]

Reusable(n, exec) == {k \in DOMAIN records : records[k].free /\ records[k].exec = exec /\ records[k].size >= n}
PagesFor(n, exec) == {k \in DOMAIN page_records : page_records[k].exec = exec /\ Fits(page_records[k], n)}

\* allocMemBlockLocked: a freed block of the kind is large enough.
AllocReused(n, exec) ==
  /\ n <= PageSize
  /\ Reusable(n, exec) # {}
  /\ LET k == First(Reusable(n, exec))
     IN  /\ records' = [records EXCEPT ![k].free = FALSE]
         /\ Hold(MemBlock(records[k].addr, n, exec))
  /\ UNCHANGED <<perm, page_records, near>>

\* ... or the first page of the kind with room; the pages tried before it
\* keep an aligned cursor.
AllocBumped(n, exec) ==
  /\ n <= PageSize
  /\ Reusable(n, exec) = {}
  /\ PagesFor(n, exec) # {}
  /\ LET k == First(PagesFor(n, exec))
         addr == Block(page_records[k], n)
     IN  /\ page_records' = [j \in DOMAIN page_records |->
                               IF j <= k /\ page_records[j].exec = exec
                               THEN Bump(page_records[j], n) ELSE page_records[j]]
         /\ records' = Append(records, Record(addr, n, exec, TRUE))
         /\ Hold(MemBlock(addr, n, exec))
  /\ UNCHANGED <<perm, near>>

TriedPages(n, exec) == [j \in DOMAIN page_records |->
  IF page_records[j].exec = exec THEN Bump(page_records[j], n) ELSE page_records[j]]

\* ... or a new page.
AllocNewPage(n, exec, p) ==
  /\ n <= PageSize
  /\ Reusable(n, exec) = {} /\ PagesFor(n, exec) = {}
  /\ p \in OsPages \ Mapped
  /\ perm' = [perm EXCEPT ![p] = PermOf(exec)]
  /\ page_records' = Append(TriedPages(n, exec), Bump(NewPage(p, exec), n))
  /\ records' = Append(records, Record(p, n, exec, TRUE))
  /\ Hold(MemBlock(p, n, exec))
  /\ UNCHANGED near

\* mmap fails, or mprotect does and the page is given back: an empty block.
AllocFails(n, exec) ==
  /\ n <= PageSize
  /\ Reusable(n, exec) = {} /\ PagesFor(n, exec) = {}
  /\ page_records' = TriedPages(n, exec)
  /\ UNCHANGED <<perm, written, records, near, held>>

OnPageNone(r, page, exec) == FALSE

\* The allocation records of a page and kind, and what is left without them.
OnPage(r, page, exec) == r.page = page /\ r.exec = exec
WithoutPage(rs, page, exec) == SelectSeq(rs, LAMBDA r : ~OnPage(r, page, exec))

FreeKeepsPage(b) ==
  /\ b \in held /\ b.place = Anywhere
  /\ \E k \in DOMAIN records :
       /\ records[k].addr = b.addr /\ records[k].exec = b.exec
       /\ records' = [records EXCEPT ![k].free = TRUE]
  /\ held' = held \ {b}
  /\ UNCHANGED <<perm, written, page_records, near>>

\* freeMemBlockLocked: the page goes back to the system with its last block.
Free(b) ==
  /\ b \in held /\ b.place = Anywhere
  /\ LET page == AlignFloor(b.addr, PageSize)
         hits == {k \in DOMAIN records : records[k].addr = b.addr /\ records[k].exec = b.exec}
         freed == [records EXCEPT ![First(hits)].free = TRUE]
         busy == \E k \in DOMAIN freed : OnPage(freed[k], page, b.exec) /\ ~freed[k].free
     IN  /\ hits # {}
         /\ held' = held \ {b}
         /\ \/ busy /\ records' = freed /\ UNCHANGED <<perm, written, page_records>>
            \/ /\ ~busy
               /\ records' = WithoutPage(freed, page, b.exec)
               /\ page_records' = WithoutPage(page_records, page, b.exec)
               /\ perm' = [perm EXCEPT ![page] = "none"]
               /\ written' = written \ PageBytes(page)
  /\ UNCHANGED near
-----------------------------------------------------------------------------
(* NearMemoryAllocator *)

SearchRange(pl) == MemRange(pl.pos - pl.range, 2 * pl.range)
NearBlock(addr, n, exec, pl) == [addr |-> addr, size |-> n, exec |-> exec, place |-> pl]

NearReusable(n, pl, exec) ==
  {k \in DOMAIN near_records :
     /\ near_records[k].free /\ near_records[k].exec = exec /\ near_records[k].size >= n
     /\ RangeContains(SearchRange(pl), near_records[k].addr, n)}

TryPageAnyRoom(acc, k, n, pl, exec) ==
  LET p == acc.pages[k]
  IN  IF acc.addr # 0 \/ p.exec # exec THEN acc
      ELSE [pages |-> [acc.pages EXCEPT ![k] = Bump(p, n)], addr |-> Block(p, n)]

\* Step 1 on one page: skip to the search range, then take the block.
TryPage(acc, k, n, pl, exec) ==
  LET p == acc.pages[k]
      room == Intersect(SearchRange(pl), MemRange(Cursor(p), PageSize - p.size))
      q == IF room.addr > Cursor(p) THEN Bump(p, room.addr - Cursor(p)) ELSE p
  IN  IF acc.addr # 0 \/ p.exec # exec \/ room.size < n THEN acc
      ELSE [pages |-> [acc.pages EXCEPT ![k] = Bump(q, n)], addr |-> Block(q, n)]

\* Step 1: the pages the allocator already has.
Step1(pages, n, pl, exec) ==
  FoldLeft(LAMBDA acc, k : TryPage(acc, k, n, pl, exec), [pages |-> pages, addr |-> 0],
           [k \in DOMAIN pages |-> k])

\* getMemoryLayout: the pages of /proc/self/maps with the permission the
\* parser gives them; "rwx" takes the first branch.
Permission(p) ==
  CASE p \in {"rw", "rwx"} -> "kReadWrite"
    [] p = "rx" -> "kReadExecute"
    [] OTHER -> "kNoAccess"
getMemoryLayout(perms) ==
  [p \in {q \in AllPages : perms[q] # "none"} |-> Permission(perms[p])]

\* The unmapped regions between two regions of the layout, and where step 2
\* maps a page: 0 if no region has room in the search range.
Unused(mapped) ==
  {MemRange(p + PageSize, First({q \in mapped : q > p}) - (p + PageSize)) :
     p \in {x \in mapped : \E q \in mapped : q > x}}
Step2Page(mapped, n, pl) ==
  LET room == {r \in {Intersect(SearchRange(pl), u) : u \in Unused(mapped)} : r.size >= n}
  IN  IF room = {} THEN 0 ELSE AlignFloor(First({r.addr : r \in room}), PageSize)

\* Steps 1 and 2 repeat until a block is found or no page can be added.
RECURSIVE Steps12(_, _, _, _, _)
Steps12(mapped, pages, n, pl, exec) ==
  LET found == Step1(pages, n, pl, exec)
      p == Step2Page(mapped, n, pl)
  IN  IF found.addr # 0 \/ p = 0 THEN [mapped |-> mapped] @@ found
      ELSE Steps12(mapped \cup {p}, Append(found.pages, NewPage(p, exec)), n, pl, exec)

\* memmem_impl over a region for in_size + alignment - 1 zero bytes.
ZeroByte(a) ==
  /\ a \notin written
  /\ AlignFloor(a, PageSize) \in DOMAIN Foreign => a \in Gap
GapsIn(r, n) ==
  {a \in r.addr..(End(r) - n - GapAlign + 1) : \A d \in 0..(n + GapAlign - 2) : ZeroByte(a + d)}

\* Step 3: the first code gap of the first executable region that has one.
Step3(layout, n, pl) ==
  LET found == UNION {GapsIn(Intersect(SearchRange(pl), MemRange(p, PageSize)), n) :
                        p \in {q \in DOMAIN layout : layout[q] = "kReadExecute"}}
  IN  IF found = {} THEN 0 ELSE AlignCeil(First(found), GapAlign)

\* allocNearBlockLocked: a freed block within the range ...
NearReused(n, pl, exec) ==
  /\ NearReusable(n, pl, exec) # {}
  /\ LET k == First(NearReusable(n, pl, exec))
     IN  /\ near_records' = [near_records EXCEPT ![k].free = FALSE]
         /\ Hold(NearBlock(near_records[k].addr, n, exec, pl))
  /\ UNCHANGED <<perm, near_page_records, general>>

\* ... or a block of an owned page, mapped now or earlier, or, for code, a
\* gap in code that is already there, or an empty block.
NearSearch(n, pl, exec) ==
  LET s == Steps12(DOMAIN getMemoryLayout(perm), near_page_records, n, pl, exec)
  IN  /\ NearReusable(n, pl, exec) = {}
      /\ near_page_records' = s.pages
      /\ \E pm \in {PermOf(exec)} \cup (IF ProtectFails THEN {"noaccess"} ELSE {}) :
           perm' = [p \in AllPages |-> IF p \in s.mapped \ Mapped THEN pm ELSE perm[p]]
      /\ \/ /\ s.addr # 0
            /\ near_records' = Append(near_records, Record(s.addr, n, exec, TRUE))
            /\ Hold(NearBlock(s.addr, n, exec, pl))
         \/ /\ s.addr = 0 /\ exec /\ Step3(getMemoryLayout(perm'), n, pl) # 0
            /\ near_records' = Append(near_records, Record(Step3(getMemoryLayout(perm'), n, pl), n, exec, FALSE))
            /\ Hold(NearBlock(Step3(getMemoryLayout(perm'), n, pl), n, exec, pl))
         \/ /\ s.addr = 0 /\ (exec => Step3(getMemoryLayout(perm'), n, pl) = 0)
            /\ UNCHANGED <<near_records, held, written>>
      /\ UNCHANGED general

\* freeNearBlockLocked: a block in a gap is only marked.
NearFree(b) ==
  /\ b \in held /\ b.place # Anywhere
  /\ LET page == AlignFloor(b.addr, PageSize)
         hits == {k \in DOMAIN near_records : near_records[k].addr = b.addr /\ near_records[k].exec = b.exec}
         freed == [near_records EXCEPT ![First(hits)].free = TRUE]
         busy == \E k \in DOMAIN freed : OnPage(freed[k], page, b.exec) /\ ~freed[k].free
     IN  /\ held' = held \ {b}
         /\ \/ /\ busy \/ ~freed[First(hits)].owned
               /\ near_records' = freed
               /\ UNCHANGED <<perm, written, near_page_records>>
            \/ /\ ~busy /\ freed[First(hits)].owned
               /\ near_records' = SelectSeq(freed, LAMBDA r : ~(OnPage(r, page, b.exec) /\ r.owned))
               /\ near_page_records' = WithoutPage(near_page_records, page, b.exec)
               /\ perm' = [perm EXCEPT ![page] = "none"]
               /\ written' = written \ PageBytes(page)
  /\ UNCHANGED general

Room == Cardinality(held) < MaxHeld

Next ==
  \/ Room /\ \E c \in Calls :
       \/ AllocReused(c.size, c.exec) \/ AllocBumped(c.size, c.exec) \/ AllocFails(c.size, c.exec)
       \/ \E p \in OsPages : AllocNewPage(c.size, c.exec, p)
  \/ Room /\ \E c \in NearCalls, pl \in Places :
       NearReused(c.size, pl, c.exec) \/ NearSearch(c.size, pl, c.exec)
  \/ \E b \in held : Free(b) \/ NearFree(b)

Spec == Init /\ [][Next]_vars
-----------------------------------------------------------------------------
\* Types: cursors stay in their page.
TypeOK ==
  /\ perm \in [AllPages -> {"none", "noaccess", "rx", "rw"}]
  /\ written \subseteq UNION {PageBytes(p) : p \in AllPages}
  /\ \A ps \in {page_records, near_page_records} :
       \A k \in DOMAIN ps : ps[k].page \in AllPages /\ ps[k].size \in 0..PageSize
  /\ \A rs \in {records, near_records} : \A k \in DOMAIN rs : rs[k].page \in AllPages

\* Both allocators together hand out blocks as BlockStore promises: no two
\* callers ever share a byte.
Store == INSTANCE BlockStore
BlockStoreSpec == Store!Spec

\* A block a caller holds lies in a mapped page with the permission of its
\* kind: no free of another block takes the page away.
HeldAccessible ==
  \A b \in held : \A a \in Bytes(b) : perm[AlignFloor(a, PageSize)] = PermOf(b.exec)

\* The records are the truth: the blocks held are those of the live records,
\* none is forgotten and none is counted twice.
Live(rs) == {k \in DOMAIN rs : ~rs[k].free}
RecordsMatchHeld ==
  /\ Cardinality(held) = Cardinality(Live(records)) + Cardinality(Live(near_records))
  /\ \A b \in held : \E rs \in {records, near_records} : \E k \in Live(rs) :
       rs[k].addr = b.addr /\ rs[k].exec = b.exec /\ b.size <= rs[k].size

\* MemoryAllocator keeps no page without a live block.
NoIdlePage ==
  \A k \in DOMAIN page_records : \E j \in Live(records) :
    OnPage(records[j], page_records[k].page, page_records[k].exec)

\* A near block begins in the requested range, so the branch or displacement that refers to it
\* reaches it: though the cursor is aligned once or twice after allocNearBlockLocked has compared
\* the room with the size, and a page may straddle either end of the range.  (Its last bytes may
\* lie behind the range.)
NearInReach ==
  \A b \in held : b.place # Anywhere => RangeContains(SearchRange(b.place), b.addr, 1)

\* NearMemoryAllocator.h lines 129 and 213: the whole block lies in the search range.
NearWholeInRange ==
  \A b \in held : b.place # Anywhere => RangeContains(SearchRange(b.place), b.addr, b.size)
=============================================================================
