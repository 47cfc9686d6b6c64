------------------------------ MODULE PltHooker ------------------------------
(***************************************************************************)
(* PLT/GOT hooks (src/src/plt_hooker.cpp, src/src/plt_regex.cpp): clients  *)
(* register and withdraw slots and regex rules; plt_worker walks the slots *)
(* once a second, looks for the library in /proc/self/maps and overwrites  *)
(* the GOT cells of the symbol.  No lock protects the tables.              *)
(*                                                                         *)
(* A relocation is a cell [lib, sym, plt]: plt = TRUE in DT_JMPREL, FALSE  *)
(* in DT_REL.  The environment loads and unloads libraries and rebinds     *)
(* cells (lazy binding, another writer).                                   *)
(***************************************************************************)
EXTENDS SlotTable

CONSTANTS
  Libs, Syms,     \* library and symbol names
  Cells,          \* the relocations of all libraries
  Patchable,      \* libraries whose cells are at r_offset (no load bias) and
                  \* are writable when the worker gets there
  MapsOrder,      \* the order of the libraries in /proc/self/maps
  NameIn,         \* <<l, n>>: the file name of l contains the text n
  Replaces,       \* replacement functions; each is registered once
  Patterns,       \* path regexes, each as the set of libraries it matches
  MaxSlots,       \* capacity of g_plt (64 in the code)
  MaxRules,       \* capacity of g_rules (32 in the code)
  Serialized      \* TRUE: clients, dlclose included, act while the worker sleeps

Genuine == "genuine"   \* the function the linker bound the cell to
Null    == "null"

ASSUME PltAssumption ==
  /\ Cells \subseteq [lib : Libs, sym : Syms, plt : BOOLEAN]
  /\ Patchable \subseteq Libs
  /\ MapsOrder \in Seq(Libs)
  /\ \A lib \in Libs : <<lib, lib>> \in NameIn
  /\ Replaces \cap {Genuine, Null} = {}
  /\ Patterns \subseteq SUBSET Libs
  /\ MaxSlots \in Nat /\ MaxRules \in Nat
  /\ Serialized \in BOOLEAN

VARIABLES
  loaded,   \* mapped libraries
  got,      \* the value of every cell
  g_plt,    \* the slots; origin is the variable the client passed, given is
            \* the replacement it passed (history: Unhook clears replace)
  g_rules,  \* the regex rules; replace is Null until HookRegex has filled it
  pc,       \* where plt_worker is
  idx,      \* its index into g_plt
  line,     \* its position in /proc/self/maps
  crashed   \* the worker accessed memory it may not

tables == <<g_plt, g_rules>>
worker == <<pc, idx, line>>
vars == <<loaded, got, tables, worker, crashed>>

Value == Replaces \cup {Genuine, Null}
PltSlot == [lib : Libs, sym : Syms, replace : Replaces \cup {Null},
            given : Replaces, origin : Value]
RegexRule == [pattern : Patterns, symbol : Syms, replace : Replaces \cup {Null},
              origin : Value]

Used == {g_plt[j].given : j \in DOMAIN g_plt} \cup {g_rules[k].replace : k \in DOMAIN g_rules}

\* HookRegex is between the increment of g_rule_count and its last assignment.
Filling == \E k \in DOMAIN g_rules : g_rules[k].replace = Null

\* One client call at a time; when Serialized, none while the worker runs.
ClientMay == ~crashed /\ ~Filling /\ (Serialized => pc = "sleep")
WorkerMay == ~crashed /\ (Serialized => ~Filling)
-----------------------------------------------------------------------------
Init ==
  /\ loaded \in SUBSET Libs
  /\ got = [c \in Cells |-> Genuine]
  /\ g_plt = <<>> /\ g_rules = <<>>
  /\ pc = "sleep" /\ idx = 1 /\ line = 1
  /\ crashed = FALSE

\* PltHooker::Hook only fills a slot and then counts it.
Hook(lib, sym, r) ==
  /\ ClientMay
  /\ Len(g_plt) < MaxSlots
  /\ r \notin Used
  /\ g_plt' = Append(g_plt, [lib |-> lib, sym |-> sym, replace |-> r,
                             given |-> r, origin |-> Null])
  /\ UNCHANGED <<loaded, got, g_rules, worker, crashed>>

\* PltRegex::HookRegex counts the rule first, replace and origin come last.
HookRegex(pattern, sym) ==
  /\ ClientMay
  /\ Len(g_rules) < MaxRules
  /\ Replaces \ Used # {}
  /\ g_rules' = Append(g_rules, [pattern |-> pattern, symbol |-> sym,
                                 replace |-> Null, origin |-> Null])
  /\ UNCHANGED <<loaded, got, g_plt, worker, crashed>>

HookRegexFill(r) ==
  /\ ~crashed /\ Filling
  /\ r \notin Used
  /\ g_rules' = [g_rules EXCEPT ![Len(g_rules)].replace = r]
  /\ UNCHANGED <<loaded, got, g_plt, worker, crashed>>

\* PltHooker::Unhook: the first slot of that name, live or withdrawn.
Unhook(lib, sym) ==
  LET j == FindFirst({i \in 1..Len(g_plt) : g_plt[i].lib = lib /\ g_plt[i].sym = sym})
  IN  /\ ClientMay
      /\ j # 0
      /\ g_plt' = [g_plt EXCEPT ![j].replace = Null]
      /\ UNCHANGED <<loaded, got, g_rules, worker, crashed>>
-----------------------------------------------------------------------------
WorkerWake ==
  /\ WorkerMay
  /\ pc = "sleep"
  /\ pc' = "slot" /\ idx' = 1 /\ line' = 1
  /\ UNCHANGED <<loaded, got, tables, crashed>>

\* The head of the inner loop.  A withdrawn slot is skipped, and so is any
\* slot for which /proc/self/maps does not open.
WorkerSlot ==
  /\ WorkerMay
  /\ pc = "slot"
  /\ \/ /\ idx > Len(g_plt)
        /\ pc' = "sleep" /\ idx' = 1 /\ line' = 1
     \/ /\ idx <= Len(g_plt)
        /\ idx' = idx + 1
        /\ UNCHANGED <<pc, line>>
     \/ /\ idx <= Len(g_plt)
        /\ g_plt[idx].replace # Null
        /\ pc' = "maps" /\ line' = 1
        /\ UNCHANGED idx
  /\ UNCHANGED <<loaded, got, tables, crashed>>

\* fgets: the next library in maps, or the end of the file.
WorkerMaps ==
  /\ WorkerMay
  /\ pc = "maps"
  /\ \/ /\ line > Len(MapsOrder)
        /\ pc' = "slot" /\ idx' = idx + 1 /\ line' = 1
     \/ /\ line <= Len(MapsOrder)
        /\ MapsOrder[line] \notin loaded
        /\ line' = line + 1
        /\ UNCHANGED <<pc, idx>>
     \/ /\ line <= Len(MapsOrder)
        /\ MapsOrder[line] \in loaded
        /\ pc' = "rules"
        /\ UNCHANGED <<idx, line>>
  /\ UNCHANGED <<loaded, got, tables, crashed>>

\* Following the pointers of a library's dynamic section works.
Reachable(lib) == lib \in loaded /\ lib \in Patchable

RuleCellsAnyLib(k, lib) == {c \in Cells : c.lib = lib /\ c.sym = g_rules[k].symbol /\ c.plt}

\* The cells rule k overwrites in lib: those of its DT_JMPREL only.
RuleCells(k, lib) ==
  {c \in Cells : /\ c.lib = lib /\ lib \in g_rules[k].pattern
                 /\ c.sym = g_rules[k].symbol /\ c.plt}

\* A cell after the first n rules: the last one that names it has won.
AfterRules(c, n) ==
  LET ks == {k \in 1..n : c \in RuleCells(k, c.lib)}
  IN  IF ks = {} THEN got[c]
      ELSE g_rules[CHOOSE k \in ks : \A m \in ks : m <= k].replace

\* PltRegex::ApplyRules, then the name test that ends the scan.  A rule still
\* being filled has no origin to store to.
WorkerRules ==
  LET lib == MapsOrder[line]
      touched == \E k \in DOMAIN g_rules : lib \in g_rules[k].pattern
  IN  /\ WorkerMay
      /\ pc = "rules"
      /\ \/ /\ touched => Reachable(lib)
            /\ got' = [c \in Cells |-> IF c.lib = lib THEN AfterRules(c, Len(g_rules))
                                                      ELSE got[c]]
            /\ g_rules' = [k \in DOMAIN g_rules |->
                 IF g_rules[k].origin = Null /\ g_rules[k].replace # Null
                      /\ RuleCells(k, lib) # {}
                   THEN [g_rules[k] EXCEPT !.origin =
                           AfterRules(CHOOSE c \in RuleCells(k, lib) : TRUE, k - 1)]
                   ELSE g_rules[k]]
            /\ \/ /\ <<lib, g_plt[idx].lib>> \in NameIn
                  /\ pc' = "hook"
                  /\ UNCHANGED line
               \/ /\ <<lib, g_plt[idx].lib>> \notin NameIn
                  /\ pc' = "maps" /\ line' = line + 1
            /\ UNCHANGED crashed
         \/ /\ touched /\ ~Reachable(lib)
            /\ crashed' = TRUE
            /\ UNCHANGED <<got, g_rules, pc, line>>
      /\ UNCHANGED <<loaded, g_plt, idx>>

\* The cells hook_one overwrites in lib: DT_JMPREL, then DT_REL.
SlotCells(s, lib) == {c \in Cells : c.lib = lib /\ c.sym = s.sym}

CaptureAlways(s, cs) ==
  IF cs = {} THEN s.origin ELSE got[CHOOSE c \in cs : TRUE]

\* *s.origin after both scans: set while it is null, from the cell as it was,
\* DT_JMPREL first.
CaptureOrigin(s, cs) ==
  LET nonNull == {c \in cs : got[c] # Null}
  IN  IF s.origin # Null \/ nonNull = {} THEN s.origin
      ELSE IF \E c \in nonNull : c.plt THEN got[CHOOSE c \in nonNull : c.plt]
      ELSE got[CHOOSE c \in nonNull : TRUE]

HookOneOnce ==
  LET lib == MapsOrder[line]
      s == g_plt[idx]
      cs == SlotCells(s, lib)
  IN  /\ WorkerMay
      /\ pc = "hook"
      /\ got' = [c \in Cells |-> IF c \in cs /\ s.origin = Null THEN s.replace ELSE got[c]]
      /\ g_plt' = [g_plt EXCEPT ![idx].origin = CaptureOrigin(s, cs)]
      /\ pc' = "slot" /\ idx' = idx + 1 /\ line' = 1
      /\ UNCHANGED <<loaded, g_rules, crashed>>

\* hook_one.  replace is read again here: it may be Null by now.
HookOne ==
  LET lib == MapsOrder[line]
      s == g_plt[idx]
      cs == SlotCells(s, lib)
  IN  /\ WorkerMay
      /\ pc = "hook"
      /\ \/ /\ Reachable(lib)
            /\ got' = [c \in Cells |-> IF c \in cs THEN s.replace ELSE got[c]]
            /\ g_plt' = [g_plt EXCEPT ![idx].origin = CaptureOrigin(s, cs)]
            /\ pc' = "slot" /\ idx' = idx + 1 /\ line' = 1
            /\ UNCHANGED crashed
         \/ /\ ~Reachable(lib)
            /\ crashed' = TRUE
            /\ UNCHANGED <<got, g_plt, worker>>
      /\ UNCHANGED <<loaded, g_rules>>
-----------------------------------------------------------------------------
\* The environment: a mapping starts with genuine cells.
Load(lib) ==
  /\ ~crashed
  /\ lib \notin loaded
  /\ loaded' = loaded \cup {lib}
  /\ UNCHANGED <<got, tables, worker, crashed>>

Unload(lib) ==
  /\ ~crashed /\ (Serialized => pc = "sleep")
  /\ lib \in loaded
  /\ loaded' = loaded \ {lib}
  /\ got' = [c \in Cells |-> IF c.lib = lib THEN Genuine ELSE got[c]]
  /\ UNCHANGED <<tables, worker, crashed>>

Rebind(c) ==
  /\ ~crashed
  /\ c.lib \in loaded
  /\ got[c] # Genuine
  /\ got' = [got EXCEPT ![c] = Genuine]
  /\ UNCHANGED <<loaded, tables, worker, crashed>>

Worker == WorkerWake \/ WorkerSlot \/ WorkerMaps \/ WorkerRules \/ HookOne

Next ==
  \/ Worker
  \/ \E lib \in Libs, sym \in Syms :
       Unhook(lib, sym) \/ \E r \in Replaces : Hook(lib, sym, r)
  \/ \E p \in Patterns, sym \in Syms : HookRegex(p, sym)
  \/ \E r \in Replaces : HookRegexFill(r)
  \/ \E lib \in Libs : Load(lib) \/ Unload(lib)
  \/ \E c \in Cells : Rebind(c)

Spec == Init /\ [][Next]_vars

MapsOpens(j) == WorkerSlot /\ idx = j /\ pc' = "maps"

\* The worker thread is scheduled, a call of HookRegex returns, and fopen
\* does not fail for ever each time the worker is at the same slot.
FairSpec ==
  /\ Spec /\ WF_vars(Worker) /\ WF_vars(\E r \in Replaces : HookRegexFill(r))
  /\ \A j \in 1..MaxSlots : SF_vars(MapsOpens(j))
-----------------------------------------------------------------------------
\* Every variable has its type; the tables stay within their arrays.
TypeOK ==
  /\ loaded \subseteq Libs
  /\ got \in [Cells -> Value]
  /\ g_plt \in Seq(PltSlot) /\ Len(g_plt) <= MaxSlots
  /\ g_rules \in Seq(RegexRule) /\ Len(g_rules) <= MaxRules
  /\ pc \in {"sleep", "slot", "maps", "rules", "hook"}
  /\ idx \in 1..(MaxSlots + 1) /\ line \in 1..(Len(MapsOrder) + 1)
  /\ crashed \in BOOLEAN

\* A slot or a rule is about this cell.
SlotCovers(s, c) == <<c.lib, s.lib>> \in NameIn /\ c.sym = s.sym
RuleCovers(rule, c) == c.lib \in rule.pattern /\ c.sym = rule.symbol /\ c.plt

\* A cell holds the genuine function or the replacement of a registration
\* that is about it, whatever the interleaving of passes, loads, unloads and
\* rebinding: hook_one and ApplyRules write nothing else, and nothing else
\* where they write.  Clients must not run during a pass.
CellsJustified ==
  \A c \in Cells :
    \/ got[c] = Genuine
    \/ \E j \in DOMAIN g_plt : SlotCovers(g_plt[j], c) /\ got[c] = g_plt[j].given
    \/ \E k \in DOMAIN g_rules : RuleCovers(g_rules[k], c) /\ got[c] = g_rules[k].replace

Origins ==
  {<<g_plt[j].given, g_plt[j].origin>> : j \in DOMAIN g_plt}
    \cup {<<g_rules[k].replace, g_rules[k].origin>> : k \in DOMAIN g_rules}

\* Replacements that call their origin never call each other in a circle: of
\* any set of them, one has its origin outside the set, so every chain of
\* captured origins (slots on one symbol, a rule on top of a slot, a library
\* hooked again after a reload) ends in the genuine function.
OriginChainsEnd ==
  \A S \in (SUBSET Replaces) \ {{}} :
    \E r \in S : \A o \in Origins : o[1] = r => o[2] \notin S

\* The cell holds the replacement of entry n of a table.
InEffect(table, n, c) == n \in DOMAIN table /\ got[c] = table[n].replace

\* A slot that stays registered is written again and again, however often
\* the cell is rebound and /proc/self/maps fails to open (the one-second poll
\* of plt_worker): unless the process dies or maps stops opening for good, the
\* cell holds the slot's replacement infinitely often.
KeepsHooking ==
  \A j \in 1..MaxSlots, c \in Cells :
    <>[](/\ j <= Len(g_plt) /\ g_plt[j].replace # Null
         /\ g_plt[j].lib = c.lib /\ g_plt[j].sym = c.sym /\ c.lib \in loaded)
      => []<>(crashed \/ InEffect(g_plt, j, c))

\* plt_hooker.cpp line 128: the pass after Unhook restores the original
\* pointer, so a cell about which no registration is live becomes genuine.
UnhookRestoresCell ==
  \A j \in 1..MaxSlots, c \in Cells :
    (j <= Len(g_plt) /\ g_plt[j].replace = Null /\ SlotCovers(g_plt[j], c))
      ~> \/ crashed \/ got[c] = Genuine
         \/ \E k \in DOMAIN g_plt : SlotCovers(g_plt[k], c) /\ g_plt[k].replace # Null
         \/ \E k \in DOMAIN g_rules : RuleCovers(g_rules[k], c)

\* dobby.h line 102: DobbyPltUnhook withdraws the hook of that symbol of
\* that library, so none of its slots is live after the call.
UnhookWithdraws ==
  [][\A lib \in Libs, sym \in Syms :
       Unhook(lib, sym) =>
         \A j \in DOMAIN g_plt' :
           g_plt'[j].lib = lib /\ g_plt'[j].sym = sym => g_plt'[j].replace = Null]_vars

\* dobby.h line 97: the symbol's cells of every library that matches the
\* pattern of a rule are replaced.
RegexApplied ==
  \A k \in 1..MaxRules, c \in Cells :
    <>[](k <= Len(g_rules) /\ RuleCovers(g_rules[k], c) /\ c.lib \in loaded)
      => <>(crashed \/ InEffect(g_rules, k, c))

\* dobby.h line 94: all cells of the symbol in the named library are replaced.
HookApplied ==
  \A j \in 1..MaxSlots, c \in Cells :
    <>[](/\ j <= Len(g_plt) /\ g_plt[j].replace # Null
         /\ g_plt[j].lib = c.lib /\ g_plt[j].sym = c.sym /\ c.lib \in loaded)
      => <>InEffect(g_plt, j, c)

\* dobby.h line 94: the cells of the named library, and no others.
OnlyNamedLibrary ==
  \A c \in Cells, j \in DOMAIN g_plt : got[c] = g_plt[j].given => g_plt[j].lib = c.lib
=============================================================================
