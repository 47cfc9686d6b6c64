---------------------------- MODULE SymbolResolver ----------------------------
(***************************************************************************)
(* DobbySymbolResolverEx on Android and Linux, with the calls built on it  *)
(* (DobbyHookBySymbolEx, DobbyHookBySymbolCallback, DobbyDestroyBySymbol,  *)
(* DobbyGetLibraryBase).  A resolution tries, in this order, an xDL handle *)
(* (through a cache of the common libraries that all threads share), all   *)
(* loaded images through xDL, dlsym, and the ELF files of the modules that *)
(* /proc/self/maps lists.  Threads run these steps concurrently; libraries *)
(* are loaded and unloaded meanwhile.  xDL is the copy in third_party/xdl, *)
(* without XDL_TRY_FORCE_LOAD.                                             *)
(***************************************************************************)
EXTENDS Integers, SequencesExt

CONSTANTS
  Threads, Libs,
  Common,          \* libraries with an entry in g_xdl_handle_cache
  Symtab, Dynsym,  \* [Libs -> sequences of [name, value]], value 0 if undefined
  Bases,           \* [Libs -> the addresses at which it may be loaded]
  Started,         \* [Libs -> where it is loaded when the process starts, or Null]
  SameName,        \* <<library, name>>: equal file names, which dlopen finds
  EndsWith,        \* <<library, name>>: the path ends with the name, which xDL opens
  Within,          \* <<library, name>>: strstr finds the name in the path
  CacheNames,      \* <<name, common library>>: the name ends with lib_name
  Requests,        \* [op, image, symbol, flags]
  MaxLoads, MaxCalls,
  MayUnload,       \* libraries that the program may unload
  MayFail          \* an allocation, open or mmap may fail, in one call at a time

NoImage == "no image"
Free == "free"
Null == 0
DYNSYM_ONLY == "dynsym only"
SYMTAB_ONLY == "symtab only"

VARIABLES
  base,      \* [Libs -> its address, or Null]
  order,     \* loaded libraries in the order of the linker's list
  loads,     \* the libraries loaded so far, in that order
  modules,   \* ProcessRuntime's list of modules
  cache,     \* [Common -> its cached dl_phdr_info]
  names,     \* strdup'ed names so far: the library each one names
  freed,     \* and those freed
  lock,      \* [Common -> the thread that holds the entry's lock]
  th,        \* [Threads -> the call it is in]
  dead       \* the process has read memory that is not mapped

vars == <<base, order, loads, modules, cache, names, freed, lock, th, dead>>
libraries == <<base, order, loads>>
world == <<libraries, dead>>
cached == <<cache, names, freed, lock>>

NoHandle == [lib |-> NoImage, at |-> Null]
NoInfo == [addr |-> Null, name |-> Null, phdr |-> Null]   \* phnum goes with phdr
NoHit == [lib |-> NoImage, at |-> Null, value |-> Null, table |-> "none"]
Idle == [pc |-> "idle", req |-> [op |-> "none", image |-> NoImage, symbol |-> NoImage, flags |-> "none"],
         dl |-> NoInfo, entry |-> NoImage, handle |-> NoHandle, found |-> <<>>, hit |-> NoHit,
         sized |-> FALSE, failed |-> FALSE, before |-> [l \in Libs |-> Null], rc |-> 1, inline |-> FALSE, plt |-> FALSE, calls |-> 0]

Init ==
  /\ base = Started
  /\ order = SetToSortSeq({l \in Libs : Started[l] # Null}, LAMBDA x, y : Started[x] < Started[y])
  /\ loads = order
  /\ modules = <<>>
  /\ cache = [c \in Common |-> NoInfo] /\ names = <<>> /\ freed = {}
  /\ lock = [c \in Common |-> Free]
  /\ th = [t \in Threads |-> Idle]
  /\ dead = FALSE
-----------------------------------------------------------------------------
(* The process (external): the dynamic linker.                              *)

Loaded == {l \in Libs : base[l] # Null}
At(addr) == {l \in Loaded : base[l] = addr}
Owner(addr) == IF At(addr) = {} THEN NoImage ELSE CHOOSE l \in At(addr) : TRUE

Load(l, a) ==
  /\ Len(loads) < MaxLoads /\ base[l] = Null /\ At(a) = {}
  /\ base' = [base EXCEPT ![l] = a]
  /\ order' = Append(order, l)
  /\ loads' = Append(loads, l)
  /\ UNCHANGED <<modules, cached, th, dead>>

Unload(l) ==
  /\ l \in MayUnload /\ base[l] # Null
  /\ base' = [base EXCEPT ![l] = Null]
  /\ order' = SelectSeq(order, LAMBDA x : x # l)
  /\ th' = [t \in Threads |-> [th[t] EXCEPT !.before[l] = Null]]
  /\ UNCHANGED <<loads, modules, cached, dead>>

\* The first loaded image, in the linker's order, that a relation selects.
FirstImage(related) ==
  LET hits == SelectSeq(order, LAMBDA l : l \in related)
  IN  IF hits = <<>> THEN NoHandle ELSE [lib |-> hits[1], at |-> base[hits[1]]]
Ending(image) == {l \in Libs : <<l, image>> \in EndsWith}

\* xdl_open: the first image whose path ends with the name.
xdl_open(image) == FirstImage(Ending(image))

\* The images among S whose handle or file a call fails to get: none, or one.
CanFail == MayFail /\ \A t \in Threads : ~th[t].failed
Losses(S) == {{}} \cup IF CanFail THEN {{l} : l \in S} ELSE {}
-----------------------------------------------------------------------------
(* Symbol tables.                                                           *)

\* iterate_symbol_table_impl: the value of the first symbol of that name.
Lookup(table, symbol) ==
  LET hits == SelectSeq(table, LAMBDA s : s.name = symbol) IN IF hits = <<>> THEN Null ELSE hits[1].value
Hit(l, at, value, table) ==
  IF value = Null THEN NoHit ELSE [lib |-> l, at |-> at, value |-> value, table |-> table]

\* elf_ctx_iterate_symbol_table: the section symbols, then the dynamic ones.
ElfLookup(l, at, symbol) ==
  IF Lookup(Symtab[l], symbol) # Null THEN Hit(l, at, Lookup(Symtab[l], symbol), "symtab")
  ELSE Hit(l, at, Lookup(Dynsym[l], symbol), "dynsym")

\* xdl_sym, in the image that now lies at the handle's address, and xdl_dsym, in the file of the
\* handle's image: the first defined symbol of the name, none if the file cannot be read or the
\* section headers in memory are another image's.
DynamicHit(h, symbol) == Hit(Owner(h.at), h.at, Lookup(Dynsym[Owner(h.at)], symbol), "dynsym")
SectionHit(h, symbol, unread) ==
  IF h.lib \in unread \/ Owner(h.at) # h.lib THEN NoHit
  ELSE Hit(h.lib, h.at, Lookup(SelectSeq(Symtab[h.lib], LAMBDA s : s.value # Null), symbol), "symtab")
DobbyXdlSym(h, symbol, flags, unread) ==
  IF flags = DYNSYM_ONLY \/ (flags # SYMTAB_ONLY /\ DynamicHit(h, symbol) # NoHit) THEN DynamicHit(h, symbol)
  ELSE SectionHit(h, symbol, unread)
-----------------------------------------------------------------------------
(* A call.                                                                  *)

Set(t, r) == th' = [th EXCEPT ![t] = r]
Go(t, pc) == Set(t, [th[t] EXCEPT !.pc = pc])
EntryAny(image) == CHOOSE c \in Common : TRUE

\* The first entry whose lib_name the image matches.
Entry(image) == IF \E c \in Common : <<image, c>> \in CacheNames
                THEN CHOOSE c \in Common : <<image, c>> \in CacheNames ELSE NoImage

Call(t, req) ==
  /\ th[t].pc = "idle" /\ th[t].calls < MaxCalls
  /\ LET e == IF req.image = NoImage THEN NoImage ELSE Entry(req.image)
     IN  Set(t, [Idle EXCEPT !.calls = th[t].calls + 1, !.req = req, !.entry = e, !.before = base,
                             !.pc = IF req.image = NoImage THEN "iterate" ELSE IF e # NoImage THEN "fast" ELSE "open"])
  /\ UNCHANGED <<world, modules, cached>>

\* dobby_xdl_open_from_cache without the lock: the address, the name, the
\* rest and xdl_open2, which copies the name.
CacheAddr(t) ==
  /\ th[t].pc = "fast"
  /\ LET a == cache[th[t].entry].addr
     IN  Set(t, [th[t] EXCEPT !.dl.addr = a, !.pc = IF a = Null THEN "lock" ELSE "fastname"])
  /\ UNCHANGED <<world, modules, cached>>

CacheName(t) ==
  /\ th[t].pc = "fastname"
  /\ Set(t, [th[t] EXCEPT !.dl.name = cache[th[t].entry].name, !.pc = "fastopen"])
  /\ UNCHANGED <<world, modules, cached>>

\* xdl_open2 of the description of h: a handle, unless memory runs out.
Opened(r, h, next, otherwise) ==
  {[r EXCEPT !.handle = IF lost = {} THEN h ELSE NoHandle, !.failed = @ \/ lost # {},
             !.pc = IF lost = {} THEN next ELSE otherwise] : lost \in Losses({h.lib})}
Described(c) == [lib |-> names[c.name], at |-> c.addr]

CacheOpen(t) ==
  /\ th[t].pc = "fastopen"
  /\ LET p == cache[th[t].entry].phdr
         r == [th[t] EXCEPT !.dl = NoInfo]
     IN  \E n \in IF p = Null THEN {[r EXCEPT !.pc = "lock"]} ELSE Opened(r, Described(th[t].dl), "sym", "lock") :
           Set(t, n)
  /\ UNCHANGED <<world, modules, cached>>

Lock(t) ==
  /\ th[t].pc = "lock" /\ lock[th[t].entry] = Free
  /\ lock' = [lock EXCEPT ![th[t].entry] = t]
  /\ Go(t, "recheck")
  /\ UNCHANGED <<world, modules, cache, names, freed>>

RecheckNone(t) == {[th[t] EXCEPT !.pc = "openlocked"]}

\* Under the lock: the cache again, then xdl_open.
Recheck(t) ==
  LET c == cache[th[t].entry] IN
  IF c.addr # Null /\ c.phdr # Null THEN Opened(th[t], Described(c), "unlock", "openlocked") ELSE {[th[t] EXCEPT !.pc = "openlocked"]}

OpenAgain(t) ==
  /\ th[t].pc = "recheck"
  /\ \E r \in Recheck(t) : Set(t, r)
  /\ UNCHANGED <<world, modules, cached>>

\* xdl_open by name; it fails like xdl_open2.
OpenedByName(r, next, otherwise) ==
  LET h == xdl_open(r.req.image)
  IN  IF h = NoHandle THEN {[r EXCEPT !.pc = otherwise]} ELSE Opened(r, h, next, otherwise)

OpenLocked(t) ==
  /\ th[t].pc = "openlocked"
  /\ \E n \in OpenedByName(th[t], "savename", "unlock") : Set(t, n)
  /\ UNCHANGED <<world, modules, cached>>

\* dobby_xdl_save_to_cache: the name (the old one is freed), the program
\* headers, the address.
SaveName(t) ==
  /\ th[t].pc = "savename"
  /\ \/ /\ names' = Append(names, th[t].handle.lib)
        /\ cache' = [cache EXCEPT ![th[t].entry].name = Len(names')]
        /\ freed' = freed \cup ({cache[th[t].entry].name} \ {Null})
        /\ Go(t, "savephdr")
     \/ /\ {th[t].handle.lib} \in Losses({th[t].handle.lib})   \* strdup fails
        /\ Set(t, [th[t] EXCEPT !.failed = TRUE, !.pc = "unlock"])
        /\ UNCHANGED <<names, cache, freed>>
  /\ UNCHANGED <<world, modules, lock>>

SavePhdr(t) ==
  /\ th[t].pc = "savephdr"
  /\ cache' = [cache EXCEPT ![th[t].entry].phdr = th[t].handle.at]
  /\ Go(t, "saveaddr")
  /\ UNCHANGED <<world, modules, names, freed, lock>>

SaveAddr(t) ==
  /\ th[t].pc = "saveaddr"
  /\ cache' = [cache EXCEPT ![th[t].entry].addr = th[t].handle.at]
  /\ Go(t, "unlock")
  /\ UNCHANGED <<world, modules, names, freed, lock>>

Unlock(t) ==
  /\ th[t].pc = "unlock"
  /\ lock' = [lock EXCEPT ![th[t].entry] = Free]
  /\ Go(t, IF th[t].handle = NoHandle THEN "open" ELSE "sym")
  /\ UNCHANGED <<world, modules, cache, names, freed>>

\* DobbyXdlOpen without the cache: xdl_open, then any image that matches.
Open(t) ==
  /\ th[t].pc = "open"
  /\ \E n \in OpenedByName(th[t], "sym", "match") : Set(t, n)
  /\ UNCHANGED <<world, modules, cached>>

OpenMatch(t) ==
  /\ th[t].pc = "match"
  /\ \E n \in OpenedByName(th[t], "sym", "iterate") : Set(t, n)
  /\ UNCHANGED <<world, modules, cached>>

\* DobbyXdlSym and xdl_close; DobbyGetLibraryBase asks for the base instead.  The program headers
\* and tables are read where the image was.
Sym(t) ==
  /\ th[t].pc = "sym"
  /\ LET r == th[t]
         asksBase == r.req.op = "base"
     IN  \/ /\ ~asksBase /\ Owner(r.handle.at) = NoImage
            /\ dead' = TRUE /\ UNCHANGED th
         \/ /\ asksBase \/ Owner(r.handle.at) # NoImage
            /\ \E unread \in Losses(IF asksBase THEN {} ELSE {r.handle.lib}) :
                 LET hit == IF asksBase THEN Hit(r.handle.lib, r.handle.at, r.handle.at, "base")
                            ELSE DobbyXdlSym(r.handle, r.req.symbol, r.req.flags, unread)
                 IN  Set(t, [r EXCEPT !.handle = NoHandle, !.hit = hit, !.sized = hit # NoHit,
                                      !.failed = @ \/ unread # {},
                                      !.pc = IF hit = NoHit THEN "iterate" ELSE "resolved"])
            /\ UNCHANGED dead
  /\ UNCHANGED <<libraries, modules, cached>>

\* xdl_iterate_phdr with dobby_xdl_iterate_symbol_callback: the first image
\* of that name that has the symbol, and whose handle and file it gets.
Tried(r) == IF r.req.image = NoImage THEN Loaded ELSE Loaded \cap Ending(r.req.image)
IterateHit(r, lost) ==
  LET try(l) == DobbyXdlSym([lib |-> l, at |-> base[l]], r.req.symbol, r.req.flags, {})
      images == SelectSeq(order, LAMBDA l : l \in Tried(r) \ lost /\ try(l) # NoHit)
  IN  IF images = <<>> THEN NoHit ELSE try(images[1])

Iterate(t) ==
  /\ th[t].pc = "iterate"
  /\ LET r == th[t]
         asksBase == r.req.op = "base"
     IN  \E lost \in Losses(IF asksBase THEN {} ELSE Tried(r)) :
           LET hit == IF asksBase THEN NoHit ELSE IterateHit(r, lost)
           IN  Set(t, [r EXCEPT !.hit = hit, !.sized = hit # NoHit, !.failed = @ \/ lost # {},
                          !.pc = IF hit # NoHit \/ r.req.flags \in {DYNSYM_ONLY, SYMTAB_ONLY} \/ asksBase
                                 THEN "resolved" ELSE "dlsym"])
  /\ UNCHANGED <<world, modules, cached>>

\* dlsym(RTLD_DEFAULT), or of the library if dlopen(RTLD_NOLOAD) finds it.
Dlsym(t) ==
  /\ th[t].pc = "dlsym"
  /\ LET r == th[t]
         scope == SelectSeq(order, LAMBDA l : /\ r.req.image = NoImage \/ <<l, r.req.image>> \in SameName
                                              /\ Lookup(Dynsym[l], r.req.symbol) # Null)
         hit == IF scope = <<>> THEN NoHit ELSE Hit(scope[1], base[scope[1]], Lookup(Dynsym[scope[1]], r.req.symbol), "dynsym")
     IN  Set(t, [r EXCEPT !.hit = hit, !.pc = IF hit # NoHit THEN "resolved"
                                              ELSE IF r.req.image = NoImage THEN "internalall" ELSE "internal"])
  /\ UNCHANGED <<world, modules, cached>>

\* get_process_map_with_proc_maps: the lines of /proc/self/maps; fewer when it does not open or a
\* line does not parse.
Maps == LET s == SetToSortSeq(Loaded, LAMBDA x, y : base[x] < base[y])
        IN  [n \in DOMAIN s |-> [path |-> s[n], base |-> base[s[n]]]]
ReadMaps(t) ==
  /\ th[t].pc \in {"internal", "internalall"}
  /\ \E n \in 0..Len(Maps) :
       /\ n = Len(Maps) \/ CanFail
       /\ Set(t, [th[t] EXCEPT !.found = SubSeq(Maps, 1, n), !.failed = @ \/ n < Len(Maps),
                                !.pc = IF @ = "internal" THEN "push" ELSE "pushall"])
  /\ UNCHANGED <<world, modules, cached>>

ModuleHitNone(list, r, unread) == NoHit

\* A file is looked up and its address computed from the module's base.
ModuleHit(list, r, unread) ==
  LET hits == SelectSeq(list, LAMBDA m : m.path \notin unread /\ ElfLookup(m.path, m.base, r.req.symbol) # NoHit)
  IN  IF hits = <<>> THEN NoHit ELSE ElfLookup(hits[1].path, hits[1].base, r.req.symbol)

\* resolve_elf_internal_symbol: the first module whose path has the name, then every module.
InternalHit(r, list, unread) ==
  LET named == SelectSeq(list, LAMBDA m : <<m.path, r.req.image>> \in Within)
  IN  IF r.pc = "pushall" THEN ModuleHit(list, r, unread)
      ELSE IF named = <<>> THEN NoHit ELSE ModuleHit(<<named[1]>>, r, unread)

\* The modules are appended to the static list, which is not cleared, and searched in a copy of
\* it.  No lock: with another thread at it, what either one appended may be lost.
Pushing == {u \in Threads : th[u].pc \in {"push", "pushall"}}
getModule(t) ==
  /\ t \in Pushing
  /\ LET r == th[t]
         raced == Pushing # {t}
     IN  \E list \in {modules \o r.found} \cup IF raced THEN {modules, r.found} ELSE {} :
         \E unread \in Losses({list[n].path : n \in DOMAIN list}) :
           LET hit == InternalHit(r, list, unread)
               n == [r EXCEPT !.hit = hit, !.found = <<>>, !.failed = @ \/ unread # {} \/ raced,
                              !.pc = IF hit = NoHit /\ @ = "push" THEN "internalall" ELSE "resolved"]
           IN  /\ modules' = list
               /\ th' = [u \in Threads |-> IF u = t THEN n
                                           ELSE IF u \in Pushing THEN [th[u] EXCEPT !.failed = TRUE] ELSE th[u]]
  /\ UNCHANGED <<world, cached>>

\* The process dies in the comparison of the ELF magic if a module has gone meanwhile, or in the
\* vector that two threads append to.
getModuleDies(t) ==
  /\ t \in Pushing
  /\ \/ Pushing # {t}
     \/ \E n \in DOMAIN th[t].found : At(th[t].found[n].base) = {}
  /\ dead' = TRUE
  /\ UNCHANGED <<libraries, modules, cached, th>>

\* The caller: nothing more, or DobbyHook at the address.  Only
\* DobbyHookBySymbolEx falls back to the PLT of a named image.
HookFailsOver(r) == r.req.op = "hook" /\ r.req.image # NoImage
Return(t) ==
  /\ th[t].pc = "resolved"
  /\ LET r == th[t]
         done == [r EXCEPT !.pc = "done", !.rc = 0]
     IN  \E n \in IF r.req.op \in {"resolve", "base"} THEN {done}
                  ELSE IF r.hit = NoHit THEN {[done EXCEPT !.rc = -2]}
                  ELSE {[done EXCEPT !.inline = TRUE], [done EXCEPT !.rc = -1]}
                       \cup IF HookFailsOver(r) THEN {[done EXCEPT !.plt = TRUE]} ELSE {} :
           Set(t, n)
  /\ UNCHANGED <<world, modules, cached>>

Done(t) == th[t].pc = "done" /\ Set(t, [Idle EXCEPT !.calls = th[t].calls]) /\ UNCHANGED <<world, modules, cached>>

Step(t) ==
  \/ CacheAddr(t) \/ CacheName(t) \/ CacheOpen(t)
  \/ Lock(t) \/ OpenAgain(t) \/ OpenLocked(t) \/ SaveName(t) \/ SavePhdr(t) \/ SaveAddr(t) \/ Unlock(t)
  \/ Open(t) \/ OpenMatch(t) \/ Sym(t) \/ Iterate(t) \/ Dlsym(t)
  \/ ReadMaps(t) \/ getModule(t) \/ getModuleDies(t) \/ Return(t) \/ Done(t)

Next ==
  /\ ~dead
  /\ \/ \E l \in Libs : \E a \in Bases[l] : Load(l, a)
     \/ \E l \in Libs : Unload(l)
     \/ \E t \in Threads, req \in Requests : Call(t, req)
     \/ \E t \in Threads : Step(t)

Spec == Init /\ [][Next]_vars /\ \A t \in Threads : WF_vars(~dead /\ Step(t))
-----------------------------------------------------------------------------
Pcs == {"idle", "fast", "fastname", "fastopen", "lock", "recheck", "openlocked", "savename", "savephdr",
        "saveaddr", "unlock", "open", "match", "sym", "iterate", "dlsym", "internal", "internalall", "push", "pushall",
        "resolved", "done"}

TypeOK ==
  /\ \A l \in Libs : base[l] \in Bases[l] \cup {Started[l], Null}
  /\ Range(order) = Loaded
  /\ lock \in [Common -> Threads \cup {Free}]
  /\ \A t \in Threads : th[t].pc \in Pcs
  /\ \A c \in Common : cache[c].name \in (0..Len(names)) \ freed

\* An address returned is that of a defined symbol of an image that is
\* loaded there, from a table that the flags allow.
ResultIsDefined ==
  \A t \in Threads :
    LET r == th[t] IN
    r.pc = "done" /\ r.hit # NoHit =>
      /\ r.hit.lib \in Loaded /\ base[r.hit.lib] = r.hit.at
      /\ r.req.flags = DYNSYM_ONLY => r.hit.table = "dynsym"
      /\ r.req.flags = SYMTAB_ONLY => r.hit.table = "symtab"

Defines(l, r) ==
  \/ r.req.flags # SYMTAB_ONLY /\ Lookup(Dynsym[l], r.req.symbol) # Null
  \/ r.req.flags # DYNSYM_ONLY /\ Lookup(Symtab[l], r.req.symbol) # Null
\* before: where the libraries are that were loaded when the call began and
\* have stayed.
ThereThroughout(l, r) == r.before[l] # Null

\* A symbol of a library that was loaded throughout the call gets an address
\* in that library as it is loaded now, not as an earlier call saw it.
AddressIsCurrent ==
  \A t \in Threads :
    LET r == th[t] IN
    r.pc = "done" /\ r.hit # NoHit /\ ThereThroughout(r.hit.lib, r) => r.hit.at = base[r.hit.lib]

\* The image the name stands for: of all images loaded so far whose path ends with it the library
\* of that name came first, and it came once, so that no call could have taken another for it.
FirstOfItsName(l, image) ==
  LET ending == SelectSeq(loads, LAMBDA x : x \in Ending(image))
  IN  ending # <<>> /\ ending[1] = l /\ \A n \in 2..Len(ending) : ending[n] # l

\* When the library of the requested name was loaded throughout the call, was the first of its
\* name and has the symbol, the symbol comes from that library, whatever other libraries export it
\* and whatever other threads put in the cache; unless a system call of this call failed, or it
\* shared the list of modules with another.
NamedImageWins ==
  \A t \in Threads :
    LET r == th[t] IN
    \A l \in Libs :
      r.pc = "done" /\ ~r.failed /\ <<l, r.req.image>> \in SameName /\ ThereThroughout(l, r)
        /\ FirstOfItsName(l, r.req.image) /\ r.req.op # "base" /\ Defines(l, r) => r.hit.lib = l

\* The same for every library of the requested name.
EveryNamedImageWins ==
  \A t \in Threads :
    LET r == th[t] IN
    \A l \in Libs :
      r.pc = "done" /\ ~r.failed /\ <<l, r.req.image>> \in SameName /\ ThereThroughout(l, r)
        /\ r.req.op # "base" /\ Defines(l, r) => r.hit.lib = l

\* A resolution fails only if no library that was loaded throughout the call could have answered
\* it, or a system call of this call failed, or it shared the list of modules with another.
AbsentIfNull(r) ==
  r.pc = "done" /\ r.hit = NoHit /\ r.req.op # "base" =>
    \A l \in Libs : ThereThroughout(l, r)
                    /\ (r.req.flags = "none" \/ r.req.image = NoImage \/ l \in Ending(r.req.image)) => ~Defines(l, r)
NullMeansAbsent == \A t \in Threads : ~th[t].failed => AbsentIfNull(th[t])

\* The same for every call.
EveryNullMeansAbsent == \A t \in Threads : AbsentIfNull(th[t])

\* No call reads an image that has been unloaded.
ResolverSurvives == ~dead

\* An entry of the cache, once published by the store of its address, is
\* written again only by a thread that failed to open what it describes: a thread that reads it
\* without the lock sees one description, and its name is not freed.
CachePublishedOnce ==
  [][\A c \in Common : cache[c].addr # Null /\ cache'[c] # cache[c] => lock[c] # Free /\ th[lock[c]].failed]_vars

\* rc is 0 exactly when one of the two hooks was installed, and only
\* DobbyHookBySymbolEx uses the PLT.
HookReported ==
  \A t \in Threads :
    LET r == th[t] IN
    r.pc = "done" /\ r.req.op \in {"hook", "callback"} =>
      /\ (r.rc = 0) <=> (r.inline # r.plt)
      /\ r.plt => r.req.op = "hook"

\* Every call returns: no thread waits for ever for the lock of an entry.
CallReturns == \A t \in Threads : th[t].pc = "lock" ~> (th[t].pc \in {"done", "idle"} \/ dead)
=============================================================================
