--------------------------- MODULE MachoResolver ---------------------------
(***************************************************************************)
(* Symbol resolution and import replacement on Darwin: DobbySymbolResolver *)
(* walks the loaded images in the order dyld lists them and looks a symbol *)
(* up in the local symbols of the shared cache, in the image's symbol      *)
(* table and in its export trie; DobbyImportTableReplace rebinds the first *)
(* import stub of a symbol.  Threads share the module list, which every    *)
(* call clears and refills without a lock, the shared-cache context, which *)
(* is filled behind an unsynchronised init-once flag, and the stubs.       *)
(* Names are sequences of characters, addresses small numbers, 0 is NULL.  *)
(***************************************************************************)
EXTENDS Integers, Sequences, FiniteSets, SequencesExt, Bitwise

CONSTANTS
  Threads,
  Dyld,           \* dyld's own image
  InfoArray,      \* the other images, as dyld lists them
  DyldFile,       \* /usr/lib/dyld: [fat, slices]
  PageSize,
  CacheBase,      \* where the shared cache is mapped
  CacheVmaddr,    \* mappings[0].address
  CacheSize,
  LocalEntries,   \* local symbols of the cache: [dylibOffset, nlist]
  Resolves,       \* the requests <<image, symbol>>; image "" is NULL
  Replaces,       \* the replacements <<image, symbol, fake>>
  MayFail,        \* task_info, mmap and mprotect may fail
  MaxCalls

VARIABLES modules, cache, stubs, writable, orig, torn, th, calls, dead

shared == <<modules, cache, stubs, writable, orig, torn>>
vars == <<shared, th, calls, dead>>

NULL == 0
Idle == [pc |-> "idle", image |-> "", symbol |-> <<>>, fake |-> NULL, mods |-> <<>>,
         ret |-> 0, local |-> 0, stub |-> <<>>, racy |-> FALSE, failed |-> FALSE]

\* The outcomes of a system call.
Outcomes == {TRUE} \cup (IF MayFail THEN {FALSE} ELSE {})

----------------------------------------------------------------------------
(* ProcessRuntime::getModuleMap: the list holds indices of Modules.        *)

Placeholder == [base |-> NULL, names |-> {"dummy"}]

Modules == <<Placeholder, Dyld>> \o InfoArray
Loaded == {Dyld} \cup Range(InfoArray)

\* The comparator handed to vector::sort is 0 or 1 ...
compare(x, y) == IF Modules[x].base < Modules[y].base THEN 1 ELSE 0

\* ... and partition moves to the left what compares below zero.
RECURSIVE quick_sort(_)
quick_sort(s) ==
  IF s = <<>> THEN s
  ELSE quick_sort(SelectSeq(Tail(s), LAMBDA x : compare(x, Head(s)) < 0)) \o <<Head(s)>>
       \o quick_sort(SelectSeq(Tail(s), LAMBDA x : compare(x, Head(s)) >= 0))

Named(m, image) == image \in m.names

\* The segment called name.
Seg(m, name) == m.segs[SelectInSeq(m.segs, LAMBDA s : s.name = name)]

slide(m, header) == header - Seg(m, "__TEXT").vmaddr

linkedit_base(m, header, runtime) ==
  IF runtime
    THEN slide(m, header) + Seg(m, "__LINKEDIT").vmaddr - Seg(m, "__LINKEDIT").fileoff
    ELSE header

\* Where the loader (runtime) or a plain file mapping puts a file offset of
\* __LINKEDIT.
Mapped(m, header, runtime, off) ==
  IF runtime
    THEN header + (Seg(m, "__LINKEDIT").vmaddr - Seg(m, "__TEXT").vmaddr)
                + (off - Seg(m, "__LINKEDIT").fileoff)
    ELSE header + off

\* The table found at linkedit_base + off: the real one only when the address
\* is the one it is mapped at.
TableAt(m, header, runtime, off, table) ==
  IF linkedit_base(m, header, runtime) + off = Mapped(m, header, runtime, off)
    THEN table ELSE <<>>

----------------------------------------------------------------------------
(* macho_ctx.cc *)

MatchesName(pattern, name) ==
  \/ pattern = name
  \/ name # <<>> /\ Head(name) = "_" /\ pattern = Tail(name)

\* macho_iterate_symbol_table: value of the first defined matching entry.
macho_iterate_symbol_table(pattern, symtab) ==
  LET i == SelectInSeq(symtab, LAMBDA s : s.value # 0 /\ MatchesName(pattern, s.name))
  IN  IF i = 0 THEN 0 ELSE symtab[i].value

\* Decodes the number at the front of bytes; "rest" is what follows it.
RECURSIVE uleb(_, _, _)
uleb(bytes, result, bit) ==
  LET r == result + (Head(bytes) % 128) * 2^bit IN
  IF Head(bytes) >= 128 THEN uleb(Tail(bytes), r, bit + 7)
  ELSE [value |-> r, rest |-> Tail(bytes)]

read_uleb128(bytes) == uleb(bytes, 0, 0)

MaxVisited == 128

\* A child whose edge is a prefix of the rest of the symbol.
RightEdge(symbol, edge) == IsPrefix(edge, symbol)

\* tail_walk: the terminal bytes reached by spelling symbol, <<>> if none.
\* A trie maps an offset to [terminal, children]; children are in file order.
RECURSIVE tail_walk(_, _, _, _)
tail_walk(trie, p, symbol, visited) ==
  IF symbol = <<>> /\ trie[p].terminal # <<>> THEN trie[p].terminal
  ELSE LET kids == trie[p].children
           c    == SelectInSeq(kids, LAMBDA k : RightEdge(symbol, k.edge))
       IN  IF c = 0 \/ kids[c].to \notin DOMAIN trie \/ Contains(visited, kids[c].to)
             THEN <<>>
           ELSE tail_walk(trie, kids[c].to,
                          SubSeq(symbol, Len(kids[c].edge) + 1, Len(symbol)),
                          Append(visited, kids[c].to))

\* How many offsets visitedNodeOffsets holds at the end of the walk.
RECURSIVE WalkDepth(_, _, _, _)
WalkDepth(trie, p, symbol, visited) ==
  LET kids == trie[p].children
      c    == SelectInSeq(kids, LAMBDA k : RightEdge(symbol, k.edge))
  IN  IF (symbol = <<>> /\ trie[p].terminal # <<>>) \/ c = 0
           \/ kids[c].to \notin DOMAIN trie \/ Contains(visited, kids[c].to)
        THEN Len(visited)
      ELSE WalkDepth(trie, kids[c].to,
                     SubSeq(symbol, Len(kids[c].edge) + 1, Len(symbol)),
                     Append(visited, kids[c].to))

FlagReexport == 8
KindMask == 3
KindAbsolute == 2

\* iterate_exported_symbol.  A re-export yields the address of the imported
\* name inside the trie, or 0 when the name is unchanged.
iterate_exported_symbol(m, trie, symbol) ==
  LET node  == IF trie = <<>> THEN <<>> ELSE tail_walk(trie, 0, symbol, <<0>>)
      flags == read_uleb128(node)
      value == read_uleb128(flags.rest)
  IN  IF node = <<>> THEN [flags |-> 0, value |-> 0]
      ELSE IF (flags.value & FlagReexport) # 0
        THEN [flags |-> flags.value,
              value |-> IF value.rest = <<>> THEN 0 ELSE m.base + m.trieoff]
      ELSE [flags |-> flags.value, value |-> value.value]

\* symbol_resolve_options; exported is RESOLVE_SYMBOL_TYPE_EXPORTED.
symbol_resolve_options(m, header, runtime, pattern, exported) ==
  LET sym == macho_iterate_symbol_table(
               pattern, TableAt(m, header, runtime, m.symoff, m.symtab))
      exp == iterate_exported_symbol(
               m, TableAt(m, header, runtime, m.trieoff, m.trie), pattern)
  IN  IF sym # 0 THEN sym + (IF runtime THEN slide(m, header) ELSE 0)
      ELSE IF ~exported \/ exp.value = 0 THEN 0
      ELSE exp.value + (IF (exp.flags & KindMask) = KindAbsolute THEN 0 ELSE header)

symbol_resolve(m, pattern) == symbol_resolve_options(m, m.base, TRUE, pattern, TRUE)

\* The slice of the running image's CPU; a thin file is taken as it is.  0:
\* no slice, and the fat header is read as if it were a Mach-O header.
FileSlice(m) ==
  IF ~DyldFile.fat THEN 1
  ELSE SelectInSeq(DyldFile.slices, LAMBDA a : /\ a.cputype = m.cputype
                                               /\ (a.cpusubtype & m.cpusubtype) = m.cpusubtype)

\* macho_file_symbol_resolve: the symbol table only, with file addresses.
macho_file_symbol_resolve(m, pattern) ==
  LET a == DyldFile.slices[FileSlice(m)]
  IN  symbol_resolve_options(a.slice, a.offset, FALSE, pattern, FALSE)

----------------------------------------------------------------------------
(* shared_cache_ctx.cpp *)

EmptyCache == [once |-> FALSE, runtime |-> NULL, slide |-> 0, mapped |-> FALSE, tables |-> FALSE]

\* Mutant: the preferred region, not the slid one.
shared_cache_is_containUnslid(c, addr) == addr >= CacheVmaddr /\ addr < CacheVmaddr + CacheSize

shared_cache_is_contain(c, addr) ==
  LET start == CacheVmaddr + c.slide IN addr >= start /\ addr < start + CacheSize

shared_cache_get_symbol_table(c, header) ==
  LET i == SelectInSeq(LocalEntries, LAMBDA e : e.dylibOffset = header - c.runtime)
  IN  IF i = 0 THEN <<>> ELSE LocalEntries[i].nlist

----------------------------------------------------------------------------
(* get_global_offset_table_stub and iterate_indirect_symtab *)

PointerSects(m) ==
  {j \in DOMAIN m.sects : /\ m.sects[j].seg \in {"__DATA", "__DATA_CONST"}
                          /\ m.sects[j].kind \in {"lazy", "nonlazy"}}

\* The index of symbol's binding in section j; ABS and LOCAL entries have the
\* name <<>>.
BindingIn(m, j, symbol) ==
  SelectInSeq(m.sects[j].syms, LAMBDA n : n # <<>> /\ MatchesName(symbol, n))

StubSects(m, symbol) == {j \in PointerSects(m) : BindingIn(m, j, symbol) # 0}

\* The section whose binding is returned: the first in load-command order.
StubSect(m, symbol) == CHOOSE j \in StubSects(m, symbol) : \A k \in StubSects(m, symbol) : j <= k

\* The const sections that are searched.
Unlocked(m, symbol) ==
  {k \in PointerSects(m) : /\ m.sects[k].seg = "__DATA_CONST"
                           /\ StubSects(m, symbol) # {} => k <= StubSect(m, symbol)}

Aligned(sect) == sect.addr % PageSize = 0

\* The pages of a section of one-word pointers, counted from the image's start.
Pages(m, j) ==
  LET x == m.sects[j]
  IN  {<<m.base, p>> : p \in (x.addr \div PageSize) .. ((x.addr + Len(x.syms) - 1) \div PageSize)}

\* Mutant: the protection is put back before the search returns a stub.
MadeWritableRestored(m, symbol) ==
  UNION {Pages(m, j) : j \in {k \in Unlocked(m, symbol) :
           Aligned(m.sects[k]) /\ BindingIn(m, k, symbol) = 0}}

\* mprotect makes whole pages writable, for good; it refuses an address that
\* does not start a page, and nobody looks at its result.
MadeWritable(m, symbol) ==
  UNION {Pages(m, j) : j \in {k \in Unlocked(m, symbol) : Aligned(m.sects[k])}}

Stub(m, symbol) ==
  LET j == StubSect(m, symbol) IN <<m.base, j, BindingIn(m, j, symbol)>>

AllStubs == UNION {{<<m.base, j, i>> : i \in DOMAIN m.sects[j].syms} :
                     <<m, j>> \in {<<m, j>> \in Loaded \X (1 .. 8) : j \in PointerSects(m)}}

Fakes == {q[3] : q \in Replaces}
NoFunction == [real |-> <<>>]

\* What a stub calls before anything is replaced: the function of that name.
Bound(s) ==
  LET m == CHOOSE x \in Loaded : x.base = s[1]
      n == m.sects[s[2]].syms[s[3]]
  IN  [real |-> IF n # <<>> /\ Head(n) = "_" THEN Tail(n) ELSE n]

----------------------------------------------------------------------------
Init ==
  /\ modules = <<>>
  /\ cache = EmptyCache
  /\ stubs = [s \in AllStubs |-> Bound(s)]
  /\ writable = {}
  /\ orig = [f \in Fakes |-> NoFunction]
  /\ torn = {}
  /\ th = [t \in Threads |-> Idle]
  /\ calls = 0
  /\ dead = "no"

Initialising == {"once", "init", "base", "map", "tables"}

Goto(t, pc) == [th EXCEPT ![t].pc = pc]
Return(t, r) ==
  [th EXCEPT ![t].pc = "done", ![t].ret = r, ![t].mods = <<>>, ![t].local = 0, ![t].stub = <<>>]
NextModule(t, pc) == [th EXCEPT ![t].pc = pc, ![t].mods = Tail(@), ![t].stub = <<>>]

\* Marks every other resolution as overlapping an initialisation step.
Disturb(t, f) == [u \in Threads |->
  IF u # t /\ f[u].pc # "idle" /\ f[u].fake = NULL THEN [f[u] EXCEPT !.racy = TRUE] ELSE f[u]]

Die(why) == dead' = why /\ UNCHANGED <<shared, th, calls>>

Module(t) == Modules[Head(th[t].mods)]
AtEnd(t) == th[t].mods = <<>>

(* getModuleMap and the copy its callers make *)

Others(t, pcs) == {u \in Threads \ {t} : th[u].pc \in pcs}

\* modules->clear() and task_info, whose failure leaves the list empty.  Two
\* calls between here and the copy tear each other's list.
ClearModules(t) ==
  /\ th[t].pc = "clear"
  /\ modules' = <<>>
  /\ LET mates == Others(t, {"push", "copy"})
     IN  \E ok \in Outcomes :
           th' = [u \in Threads |->
             IF u = t THEN [th[t] EXCEPT !.pc = IF ok THEN "push" ELSE "copy", !.failed = ~ok,
                                         !.racy = @ \/ mates # {}]
             ELSE [th[u] EXCEPT !.racy = @ \/ u \in mates]]
  /\ UNCHANGED <<cache, stubs, writable, orig, torn, calls, dead>>

\* The push_backs and the sort.  Another thread in the same vector may lose
\* any of the pushes, see only some of them, or use the buffer they freed.
PushModules(t) ==
  /\ th[t].pc = "push"
  /\ LET mates == Others(t, {"push", "copy"})
     IN  \/ /\ \E lost \in SUBSET DOMAIN Modules :
                 /\ lost # {} => mates # {}
                 /\ modules' = quick_sort(modules \o
                      SelectSeq([i \in DOMAIN Modules |-> i], LAMBDA i : i \notin lost))
            /\ th' = Goto(t, "copy")
            /\ UNCHANGED <<cache, stubs, writable, orig, torn, calls, dead>>
         \/ mates # {} /\ Die("module list")

Skipped(m, image) ==
  \/ image # "" /\ ~Named(m, image)
  \/ image = "" /\ Named(m, "dyld")
  \/ m.base = NULL

\* What the walks of the resolver and of the import replacement do not skip;
\* the latter has no check of base.
Walked(m, call) ==
  IF call.fake = NULL THEN ~Skipped(m, call.image)
  ELSE call.image # "" => Named(m, call.image)

\* The callers copy the list.  When nobody else is at it what it holds is
\* forgotten, for every call clears it before it reads it.
CopyModules(t) ==
  /\ th[t].pc = "copy"
  /\ th' = [th EXCEPT ![t].pc = IF th[t].fake = NULL THEN "module" ELSE "import",
                      ![t].mods = SelectSeq(modules, LAMBDA i : Walked(Modules[i], th[t]))]
  /\ modules' = IF Others(t, {"push", "copy"}) = {} THEN <<>> ELSE modules
  /\ torn' = IF th[t].racy THEN torn \cup ({th[t].fake} \ {NULL}) ELSE torn
  /\ UNCHANGED <<cache, stubs, writable, orig, calls, dead>>

(* DobbySymbolResolver *)

StartResolve(t) ==
  /\ th[t].pc = "idle" /\ calls < MaxCalls
  /\ \E q \in Resolves :
       th' = [th EXCEPT ![t] = [Idle EXCEPT
                !.pc = "clear", !.image = q[1], !.symbol = q[2],
                !.racy = Others(t, Initialising) # {}]]
  /\ calls' = calls + 1
  /\ UNCHANGED <<shared, dead>>

\* The next image, and the read of shared_cache_ctx_init_once.
VisitModule(t) ==
  /\ th[t].pc = "module"
  /\ th' = IF AtEnd(t) THEN Goto(t, "dyld")
           ELSE Goto(t, IF cache.once THEN "mapped" ELSE "once")
  /\ UNCHANGED <<shared, calls, dead>>

SetOnce(t) ==
  /\ th[t].pc = "once"
  /\ cache' = [cache EXCEPT !.once = TRUE]
  /\ th' = Disturb(t, Goto(t, "init"))
  /\ UNCHANGED <<modules, stubs, writable, orig, torn, calls, dead>>

\* shared_cache_ctx_init: the memset, then the load address and the slide.
ClearCache(t) ==
  /\ th[t].pc = "init"
  /\ cache' = [EmptyCache EXCEPT !.once = TRUE]
  /\ th' = Disturb(t, Goto(t, "base"))
  /\ UNCHANGED <<modules, stubs, writable, orig, torn, calls, dead>>

\* The shared region or, failing that, the task info: the same base, or NULL.
shared_cache_get_load_addr(ok) == IF ok THEN CacheBase ELSE NULL

\* Without a load address the context stays cleared; the caller goes on.
shared_cache_ctx_init(t) ==
  /\ th[t].pc = "base"
  /\ \E base \in {shared_cache_get_load_addr(ok) : ok \in Outcomes} :
       cache' = IF base = NULL THEN cache
                ELSE [cache EXCEPT !.runtime = base, !.slide = base - CacheVmaddr]
  /\ th' = Disturb(t, Goto(t, "map"))
  /\ UNCHANGED <<modules, stubs, writable, orig, torn, calls, dead>>

\* shared_cache_load_symbols publishes mmap_shared_cache first: the .symbols
\* file or the symbols that the running cache's header, if there is one,
\* locates in the cache file ...
MapCache(t) ==
  /\ th[t].pc = "map"
  /\ \/ /\ cache' = [cache EXCEPT !.mapped = TRUE]
        /\ th' = Disturb(t, Goto(t, "tables"))
        /\ UNCHANGED <<modules, stubs, writable, orig, torn, calls, dead>>
     \/ MayFail /\ cache.runtime = NULL /\ Die("cache context")
     \/ /\ MayFail /\ cache.runtime # NULL
        /\ th' = Disturb(t, Goto(t, "mapped"))
        /\ UNCHANGED <<shared, calls, dead>>

\* ... and the tables it points to afterwards.
LoadTables(t) ==
  /\ th[t].pc = "tables"
  /\ cache' = [cache EXCEPT !.tables = TRUE]
  /\ th' = Disturb(t, Goto(t, "mapped"))
  /\ UNCHANGED <<modules, stubs, writable, orig, torn, calls, dead>>

\* if (shared_cache_ctx.mmap_shared_cache)
CheckMapped(t) ==
  /\ th[t].pc = "mapped"
  /\ th' = Goto(t, IF cache.mapped THEN "contain" ELSE "image")
  /\ UNCHANGED <<shared, calls, dead>>

\* The range check and the search of the image's local symbols.
LookLocal(t) ==
  /\ th[t].pc = "contain"
  /\ LET m == Module(t)
         v == macho_iterate_symbol_table(th[t].symbol, shared_cache_get_symbol_table(cache, m.base))
     IN  IF cache.runtime = NULL THEN Die("cache context")
         ELSE IF ~shared_cache_is_contain(cache, m.base)
           THEN th' = Goto(t, "image") /\ UNCHANGED <<shared, calls, dead>>
         ELSE IF ~cache.tables THEN Die("cache context")
         ELSE /\ th' = IF v = 0 THEN Goto(t, "image")
                       ELSE [th EXCEPT ![t].pc = "slide", ![t].local = v]
              /\ UNCHANGED <<shared, calls, dead>>

AddSlide(t) ==
  /\ th[t].pc = "slide"
  /\ th' = Return(t, th[t].local + cache.slide)
  /\ UNCHANGED <<shared, calls, dead>>

\* macho_ctx_t macho_ctx(header); symbol_resolve.
LookImage(t) ==
  /\ th[t].pc = "image"
  /\ LET r == symbol_resolve(Module(t), th[t].symbol)
     IN  th' = IF r # 0 THEN Return(t, r) ELSE NextModule(t, "module")
  /\ UNCHANGED <<shared, calls, dead>>

\* The walk found nothing: NULL, unless dyld was asked for.
EndWalk(t) ==
  /\ th[t].pc = "dyld" /\ th[t].image # "dyld"
  /\ th' = Return(t, NULL)
  /\ UNCHANGED <<shared, calls, dead>>

\* The loaded dyld, then its file, whose addresses are relative to the header.
LookDyld(t) ==
  /\ th[t].pc = "dyld" /\ th[t].image = "dyld"
  /\ LET r == symbol_resolve(Dyld, th[t].symbol)
     IN  IF r # 0 \/ Dyld.inCache
           THEN th' = Return(t, r) /\ UNCHANGED <<shared, calls, dead>>
         ELSE IF FileSlice(Dyld) = 0 THEN Die("fat header")
         ELSE /\ th' = Return(t, Dyld.base + macho_file_symbol_resolve(Dyld, th[t].symbol))
              /\ UNCHANGED <<shared, calls, dead>>

\* Without task info NULL is returned; without the file, dyld's header.
LookDyldFails(t) ==
  /\ th[t].pc = "dyld" /\ th[t].image = "dyld" /\ MayFail
  /\ \E r \in {NULL, Dyld.base} :
       /\ r # NULL => symbol_resolve(Dyld, th[t].symbol) = 0 /\ ~Dyld.inCache
       /\ th' = [Return(t, r) EXCEPT ![t].failed = TRUE]
  /\ UNCHANGED <<shared, calls, dead>>

(* DobbyImportTableReplace *)

\* Mutant: the original is never read.
SavedNothing(s) == NoFunction

\* orig_func = *(void **)stub
Saved(s) == stubs[s]

StartReplace(t) ==
  /\ th[t].pc = "idle" /\ calls < MaxCalls
  /\ \E q \in Replaces :
       /\ orig[q[3]] = NoFunction /\ \A u \in Threads : th[u].fake # q[3]
       /\ th' = [th EXCEPT ![t] = [Idle EXCEPT
                  !.pc = "clear", !.image = q[1], !.symbol = q[2], !.fake = q[3]]]
  /\ calls' = calls + 1
  /\ UNCHANGED <<shared, dead>>

\* Finds the stub and saves what it calls; the placeholder is dereferenced
\* when no image is named.
ReadStub(t) ==
  /\ th[t].pc = "import"
  /\ IF AtEnd(t)
       THEN th' = Return(t, -1) /\ UNCHANGED <<shared, calls, dead>>
     ELSE IF Module(t).base = NULL THEN Die("placeholder")
     ELSE LET m == Module(t) IN
          /\ \E ok \in Outcomes :
               /\ writable' = IF ok THEN writable \cup MadeWritable(m, th[t].symbol) ELSE writable
               /\ IF StubSects(m, th[t].symbol) # {}
                    THEN LET s == Stub(m, th[t].symbol) IN
                         /\ orig' = [orig EXCEPT ![th[t].fake] = Saved(s)]
                         /\ th' = [th EXCEPT ![t].pc = "write", ![t].stub = s,
                                             ![t].failed = ~ok \/ ~Aligned(m.sects[s[2]])]
                    ELSE /\ th' = IF th[t].image # "" THEN Return(t, 0) ELSE NextModule(t, "import")
                         /\ UNCHANGED orig
          /\ UNCHANGED <<modules, cache, stubs, torn, calls, dead>>

StubPage(s) ==
  LET m == CHOOSE x \in Loaded : x.base = s[1]
  IN  <<s[1], (m.sects[s[2]].addr + s[3] - 1) \div PageSize>>

ReadOnly(s) ==
  LET m == CHOOSE x \in Loaded : x.base = s[1]
  IN  m.sects[s[2]].seg = "__DATA_CONST" /\ StubPage(s) \notin writable

WriteStub(t) ==
  /\ th[t].pc = "write"
  /\ LET s == th[t].stub
     IN  IF ReadOnly(s) THEN Die("const stub")
         ELSE /\ stubs' = [stubs EXCEPT ![s] = [fake |-> th[t].fake]]
              /\ th' = IF th[t].image # "" THEN Return(t, 0) ELSE NextModule(t, "import")
              /\ UNCHANGED <<modules, cache, writable, orig, torn, calls, dead>>

Leave(t) ==
  /\ th[t].pc = "done"
  /\ th' = [th EXCEPT ![t] = Idle]
  /\ UNCHANGED <<shared, calls, dead>>

Step(t) ==
  \/ ClearModules(t) \/ PushModules(t) \/ CopyModules(t)
  \/ StartResolve(t) \/ VisitModule(t) \/ SetOnce(t) \/ ClearCache(t)
  \/ shared_cache_ctx_init(t) \/ MapCache(t) \/ LoadTables(t) \/ CheckMapped(t) \/ LookLocal(t)
  \/ AddSlide(t) \/ LookImage(t) \/ EndWalk(t) \/ LookDyld(t) \/ LookDyldFails(t)
  \/ StartReplace(t) \/ ReadStub(t) \/ WriteStub(t) \/ Leave(t)

Next == dead = "no" /\ \E t \in Threads : Step(t)

Spec == Init /\ [][Next]_vars

----------------------------------------------------------------------------
(* What the linker put where: m.truth has an entry [name, off, at] for each *)
(* symbol, off relative to the image's header, at the table that holds it.  *)

Defines(m, symbol, locals) ==
  {d \in m.truth : CASE d.at = "trie"   -> symbol = d.name
                      [] d.at = "symtab" -> symbol \in {d.name, Tail(d.name)}
                      [] d.at = "local"  -> locals /\ symbol \in {d.name, Tail(d.name)}
                      [] d.at = "file"   -> symbol \in {d.name, Tail(d.name)}}

\* The address of the first definition in the order in which the images are
\* listed, 0 when there is none.
Reference(image, symbol, locals) ==
  LET hits == {i \in DOMAIN Modules :
                 ~Skipped(Modules[i], image) /\ Defines(Modules[i], symbol, locals) # {}}
  IN  IF hits = {} THEN 0
      ELSE LET i == Min(hits)
           IN  Modules[i].base + (CHOOSE d \in Defines(Modules[i], symbol, locals) : TRUE).off

\* The fields have the values the code gives them.
TypeOK ==
  /\ cache \in [once : BOOLEAN, runtime : {NULL, CacheBase},
                slide : {0, CacheBase - CacheVmaddr}, mapped : BOOLEAN, tables : BOOLEAN]
  /\ \A s \in AllStubs : stubs[s] \in {Bound(s)} \cup {[fake |-> f] : f \in Fakes}
  /\ \A f \in Fakes : orig[f] \in {NoFunction} \cup {Bound(s) : s \in AllStubs}
                                                 \cup {[fake |-> g] : g \in Fakes}
  /\ writable \subseteq {StubPage(s) : s \in AllStubs}
  /\ modules \in Seq(DOMAIN Modules) /\ torn \subseteq Fakes
  /\ \A t \in Threads : th[t].mods \in Seq(DOMAIN Modules)

Resolved(t) == th[t].pc = "done" /\ th[t].fake = NULL

\* A call that succeeds, and that no other thread's listing or initialisation
\* overlaps, returns the address of the first listed image that defines the
\* symbol in any of its tables, and NULL when none does.
ResultIsReference ==
  \A t \in Threads : Resolved(t) /\ ~th[t].racy /\ ~th[t].failed =>
    th[t].ret = Reference(th[t].image, th[t].symbol, cache.mapped /\ cache.tables)

\* The same of every call that succeeds: two calls race for the list and for
\* the init-once flag.
RacingResultIsReference ==
  \A t \in Threads : Resolved(t) /\ ~th[t].failed =>
    th[t].ret \in {Reference(th[t].image, th[t].symbol, l) : l \in BOOLEAN}

\* The images are walked by rising address.
ListSorted ==
  \A t \in Threads : ~th[t].racy /\ th[t].pc \in {"module", "import"} =>
    \A i \in 1 .. Len(th[t].mods) - 1 :
      Modules[th[t].mods[i]].base <= Modules[th[t].mods[i + 1]].base

\* Two calls never work on the shared list at the same time.
ListSurvives == dead # "module list"

\* A resolver call never dereferences a half-filled shared-cache context.
CacheContextComplete == dead # "cache context"

\* A symbol of dyld's file is looked up in a slice of the running CPU.
SliceFound == dead # "fat header"

\* A stub about to be overwritten lies in a writable page, unless mprotect
\* refused: whichever section the search stopped in, whoever searched before.
ConstStubsWritable ==
  \A t \in Threads : th[t].pc = "write" => th[t].failed \/ ~ReadOnly(th[t].stub)

\* The same of the stubs whose mprotect was refused.
EveryStubWritable == dead # "const stub"

\* DobbyImportTableReplace never dereferences the placeholder module.
NoNullHeader == dead # "placeholder"

RECURSIVE Chain(_, _)
Chain(f, n) == IF "fake" \in DOMAIN f /\ n > 0 THEN Chain(orig[f.fake], n - 1) ELSE f

\* Whatever the interleaving of replacements of one symbol, a call through
\* any stub that goes on to the saved function ends in the real function, as
\* long as no replacement walked a list another call had torn.
StubsReachFunction ==
  torn = {} => \A s \in AllStubs : Chain(stubs[s], Cardinality(Fakes)) = Bound(s)

\* tail_walk stays within visitedNodeOffsets.
VisitedFits ==
  \A m \in Loaded, q \in Resolves :
    m.trie # <<>> => WalkDepth(m.trie, 0, q[2], <<0>>) <= MaxVisited
=============================================================================
