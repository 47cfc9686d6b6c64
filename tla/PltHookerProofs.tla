-------------------------- MODULE PltHookerProofs --------------------------
(***************************************************************************)
(* What holds of the GOT cells and of the captured origins, for every set  *)
(* of libraries, cells, rules and replacements, when clients act while the *)
(* worker sleeps.                                                          *)
(***************************************************************************)
EXTENDS PltHooker, SequenceTheorems, WellFoundedInduction, TLAPS

\* Where the worker is: the slot it is at is live, the line it is at names the
\* library of that slot, and no rule is half filled.
PassInv ==
  /\ pc # "sleep" => ~Filling
  /\ pc \in {"maps", "rules", "hook"} => idx <= Len(g_plt) /\ g_plt[idx].replace # Null
  /\ pc \in {"rules", "hook"} => line <= Len(MapsOrder)
  /\ pc = "hook" => <<MapsOrder[line], g_plt[idx].lib>> \in NameIn

\* The tables: only the last rule can be half filled.
TableInv ==
  /\ \A j \in DOMAIN g_plt : g_plt[j].replace \in {g_plt[j].given, Null}
  /\ \A k \in DOMAIN g_rules :
       g_rules[k].replace = Null => k = Len(g_rules) /\ g_rules[k].origin = Null

CellInv == CellsJustified /\ \A c \in Cells : got[c] # Null

\* Every replacement belongs to one slot or one rule.
Distinct ==
  /\ \A i, j \in DOMAIN g_plt : g_plt[i].given = g_plt[j].given => i = j
  /\ \A k, m \in DOMAIN g_rules :
       g_rules[k].replace = g_rules[m].replace /\ g_rules[k].replace # Null => k = m
  /\ \A j \in DOMAIN g_plt, k \in DOMAIN g_rules : g_plt[j].given # g_rules[k].replace

\* The replacement r is in no cell, and nobody's origin.
Unwritten(r, cells, origins) == (\A c \in Cells : cells[c] # r) /\ (\A o \in origins : o[2] # r)

\* A registration without an origin has not been written anywhere yet.
OriginInv ==
  /\ \A o \in Origins : o[2] \in Used \cup {Genuine, Null}
  /\ \A j \in DOMAIN g_plt : g_plt[j].origin = Null => Unwritten(g_plt[j].given, got, Origins)
  /\ \A k \in DOMAIN g_rules :
       g_rules[k].origin = Null /\ g_rules[k].replace # Null => Unwritten(g_rules[k].replace, got, Origins)
  /\ OriginChainsEnd

PltInv == TypeOK /\ PassInv /\ TableInv /\ CellInv /\ Distinct /\ OriginInv
-----------------------------------------------------------------------------
(* Operators *)

LEMMA MinExists ==
  ASSUME NEW S \in SUBSET Nat, S # {}
  PROVE  \E m \in S : \A x \in S : m <= x
<1>1. PICK m \in S : \A y \in S : ~(<<y, m>> \in OpToRel(<, Nat))
  BY Zenon, WFMin, NatLessThanWellFounded
<1>2. \A y \in S : ~(y < m)
  BY Zenon, <1>1 DEF OpToRel
<1> QED
  BY <1>2

LEMMA MaxExists ==
  ASSUME NEW n \in Nat, NEW S \in SUBSET (1..n), S # {}
  PROVE  \E m \in S : \A x \in S : x <= m
<1> DEFINE T == {n - x : x \in S}
<1>0. \A x \in S : x \in 1..n /\ n - x \in Nat
  OBVIOUS
<1>1. T \in SUBSET Nat /\ T # {}
  BY Zenon, <1>0
<1>2. PICK m \in T : \A y \in T : m <= y
  BY Zenon, <1>1, MinExists
<1>3. PICK x \in S : m = n - x
  BY Zenon, <1>2
<1>4. \A y \in S : n - x <= n - y
  BY Zenon, <1>2, <1>3
<1>5. \A y \in S : y <= x
  BY <1>4
<1> QED
  BY Zenon, <1>5

LEMMA ReplacesApart ==
  \A r \in Replaces : r # Genuine /\ r # Null
  BY Zenon, PltAssumption

LEMMA EntryTypes ==
  ASSUME TypeOK
  PROVE  /\ DOMAIN g_plt = 1..Len(g_plt) /\ Len(g_plt) \in Nat
         /\ \A j \in DOMAIN g_plt : g_plt[j] \in PltSlot
         /\ DOMAIN g_rules = 1..Len(g_rules) /\ Len(g_rules) \in Nat
         /\ \A k \in DOMAIN g_rules : g_rules[k] \in RegexRule
<1>1. g_plt \in Seq(PltSlot) /\ g_rules \in Seq(RegexRule)
  BY Zenon DEF TypeOK
<1> QED
  BY Zenon, <1>1, LenProperties, ElementOfSeq

\* What is in a cell after n rules: what was in it, or the replacement of one
\* of the rules that cover it.
LEMMA AfterRulesIs ==
  ASSUME g_rules \in Seq(RegexRule), NEW c \in Cells, NEW n \in 0..Len(g_rules)
  PROVE  \/ /\ AfterRules(c, n) = got[c]
            /\ \A k \in 1..n : ~RuleCovers(g_rules[k], c)
         \/ \E k \in 1..n : RuleCovers(g_rules[k], c) /\ AfterRules(c, n) = g_rules[k].replace
<1> DEFINE ks == {k \in 1..n : c \in RuleCells(k, c.lib)}
<1>1. \A k \in 1..n : c \in RuleCells(k, c.lib) <=> RuleCovers(g_rules[k], c)
  BY Zenon DEF RuleCells, RuleCovers
<1>2. CASE ks = {}
  BY Zenon, <1>1, <1>2 DEF AfterRules
<1>3. CASE ks # {}
  <2>1. n \in Nat /\ ks \in SUBSET (1..n)
    BY LenProperties
  <2>2. \E m \in ks : \A x \in ks : x <= m
    BY Zenon, <1>3, <2>1, MaxExists
  <2> DEFINE k == CHOOSE m \in ks : \A x \in ks : x <= m
  <2>3. k \in ks
    BY Zenon, <2>2
  <2>4. AfterRules(c, n) = g_rules[k].replace
    BY Zenon, <1>3 DEF AfterRules
  <2> QED
    BY Zenon, <1>1, <2>3, <2>4
<1> QED
  BY Zenon, <1>2, <1>3

\* The origin a slot has after hook_one: its own, or what a cell held.
LEMMA CaptureIs ==
  ASSUME NEW s, NEW cs \in SUBSET Cells, \A c \in Cells : got[c] # Null
  PROVE  /\ s.origin # Null \/ cs = {} => CaptureOrigin(s, cs) = s.origin
         /\ s.origin = Null /\ cs # {} => \E c \in cs : CaptureOrigin(s, cs) = got[c]
<1> DEFINE nonNull == {c \in cs : got[c] # Null}
<1>1. nonNull = cs
  BY Zenon
<1>2. CASE s.origin # Null \/ cs = {}
  BY Zenon, <1>1, <1>2 DEF CaptureOrigin
<1>3. CASE s.origin = Null /\ cs # {}
  <2>1. CASE \E c \in nonNull : c.plt
    <3>1. CaptureOrigin(s, cs) = got[CHOOSE c \in nonNull : c.plt]
      BY Zenon, <1>1, <1>3, <2>1 DEF CaptureOrigin
    <3>2. (CHOOSE c \in nonNull : c.plt) \in cs
      BY Zenon, <1>1, <2>1
    <3> QED
      BY Zenon, <1>3, <3>1, <3>2
  <2>2. CASE ~ \E c \in nonNull : c.plt
    <3>1. CaptureOrigin(s, cs) = got[CHOOSE c \in nonNull : TRUE]
      BY Zenon, <1>1, <1>3, <2>2 DEF CaptureOrigin
    <3>2. (CHOOSE c \in nonNull : TRUE) \in cs
      BY Zenon, <1>1, <1>3
    <3> QED
      BY Zenon, <1>3, <3>1, <3>2
  <2> QED
    BY Zenon, <2>1, <2>2
<1> QED
  BY Zenon, <1>2, <1>3

\* If the replacements of F got origins that do not run in a circle, and
\* nobody else has its origin in F, there is no circle.
NoCircle(R, O) == \A S \in (SUBSET R) \ {{}} : \E r \in S : \A o \in O : o[1] = r => o[2] \notin S

LEMMA ChainStep ==
  ASSUME NEW R, NEW O, NEW P, NEW F \in SUBSET R, NoCircle(R, O),
         \A p \in P : p[1] \in R \ F => p \in O /\ p[2] \notin F,
         NoCircle(F, P)
  PROVE  NoCircle(R, P)
<1> SUFFICES ASSUME NEW S \in (SUBSET R) \ {{}}
             PROVE  \E r \in S : \A p \in P : p[1] = r => p[2] \notin S
  BY Zenon DEF NoCircle
<1>1. CASE S \ F = {}
  BY Zenon, <1>1 DEF NoCircle
<1>2. CASE S \ F # {}
  <2>1. PICK r \in S \ F : \A o \in O : o[1] = r => o[2] \notin S \ F
    BY Zenon, <1>2 DEF NoCircle
  <2> QED
    BY Zenon, <2>1
<1> QED
  BY Zenon, <1>1, <1>2
-----------------------------------------------------------------------------
(* Steps that leave the tables alone *)

\* Cells only become genuine.
LEMMA QuietKeeps ==
  ASSUME TypeOK, TableInv, CellInv, Distinct, OriginInv,
         UNCHANGED tables, \A c \in Cells : got'[c] \in {got[c], Genuine}
  PROVE  TableInv' /\ CellInv' /\ Distinct' /\ OriginInv'
<1>1. g_plt' = g_plt /\ g_rules' = g_rules
  BY Zenon DEF tables
<1>2. TableInv' /\ Distinct'
  BY Zenon, <1>1 DEF TableInv, Distinct
<1>3. CellInv'
  BY <1>1 DEF CellInv, CellsJustified, SlotCovers, RuleCovers, Genuine, Null
<1>4. Origins' = Origins /\ Used' = Used
  BY Zenon, <1>1 DEF Origins, Used
<1>5. \A r \in Replaces : Unwritten(r, got, Origins) => Unwritten(r, got', Origins')
  BY Zenon, <1>4, ReplacesApart DEF Unwritten
<1>6. /\ \A j \in DOMAIN g_plt : g_plt[j].given \in Replaces
      /\ \A k \in DOMAIN g_rules : g_rules[k].replace # Null => g_rules[k].replace \in Replaces
  BY Zenon, EntryTypes DEF PltSlot, RegexRule
<1>7. OriginInv'
  BY Zenon, <1>1, <1>4, <1>5, <1>6 DEF OriginInv, OriginChainsEnd
<1> QED
  BY Zenon, <1>2, <1>3, <1>7

LEMMA WorkerWakeKeeps ==
  ASSUME Serialized = TRUE, PltInv, WorkerWake
  PROVE  PltInv'
<1>1. ~Filling /\ UNCHANGED tables /\ \A c \in Cells : got'[c] \in {got[c], Genuine}
  BY Zenon DEF WorkerWake, WorkerMay
<1>2. TableInv' /\ CellInv' /\ Distinct' /\ OriginInv'
  BY Zenon, <1>1, QuietKeeps DEF PltInv
<1>3. TypeOK'
  BY LenProperties, PltAssumption DEF PltInv, TypeOK, WorkerWake, tables
<1>4. PassInv'
  BY Zenon, <1>1 DEF PassInv, WorkerWake, tables, Filling
<1> QED
  BY Zenon, <1>2, <1>3, <1>4 DEF PltInv

LEMMA WorkerSlotKeeps ==
  ASSUME PltInv, WorkerSlot
  PROVE  PltInv'
<1>1. pc = "slot" /\ UNCHANGED tables /\ \A c \in Cells : got'[c] \in {got[c], Genuine}
  BY Zenon DEF WorkerSlot
<1>2. TableInv' /\ CellInv' /\ Distinct' /\ OriginInv'
  BY Zenon, <1>1, QuietKeeps DEF PltInv
<1>3. Len(g_plt) \in Nat /\ Len(g_plt) <= MaxSlots /\ Len(MapsOrder) \in Nat /\ MaxSlots \in Nat
  BY Zenon, LenProperties, PltAssumption DEF PltInv, TypeOK
<1>4. TypeOK'
  BY <1>3 DEF PltInv, TypeOK, WorkerSlot, tables
<1>5. PassInv'
  BY Zenon, <1>1, <1>3 DEF PltInv, PassInv, WorkerSlot, tables, Filling
<1> QED
  BY Zenon, <1>2, <1>4, <1>5 DEF PltInv

LEMMA WorkerMapsKeeps ==
  ASSUME PltInv, WorkerMaps
  PROVE  PltInv'
<1>1. pc = "maps" /\ UNCHANGED tables /\ \A c \in Cells : got'[c] \in {got[c], Genuine}
  BY Zenon DEF WorkerMaps
<1>2. TableInv' /\ CellInv' /\ Distinct' /\ OriginInv'
  BY Zenon, <1>1, QuietKeeps DEF PltInv
<1>3. /\ Len(g_plt) \in Nat /\ Len(g_plt) <= MaxSlots /\ Len(MapsOrder) \in Nat /\ MaxSlots \in Nat
      /\ idx <= Len(g_plt)
  BY Zenon, <1>1, LenProperties, PltAssumption DEF PltInv, TypeOK, PassInv
<1>4. TypeOK'
  BY <1>3 DEF PltInv, TypeOK, WorkerMaps, tables
<1>5. PassInv'
  BY Zenon, <1>1, <1>3 DEF PltInv, PassInv, WorkerMaps, tables, Filling
<1> QED
  BY Zenon, <1>2, <1>4, <1>5 DEF PltInv

\* dlopen, dlclose, lazy binding, and a worker that dies.
LEMMA EnvironmentKeeps ==
  ASSUME PltInv, UNCHANGED <<tables, worker>>, got' \in [Cells -> Value],
         \A c \in Cells : got'[c] \in {got[c], Genuine},
         loaded' \subseteq Libs, crashed' \in BOOLEAN
  PROVE  PltInv'
<1>1. TableInv' /\ CellInv' /\ Distinct' /\ OriginInv'
  BY Zenon, QuietKeeps DEF PltInv
<1>2. TypeOK'
  BY Zenon DEF PltInv, TypeOK, tables, worker
<1>3. PassInv'
  BY Zenon DEF PltInv, PassInv, tables, worker, Filling
<1> QED
  BY Zenon, <1>1, <1>2, <1>3 DEF PltInv

LEMMA LoadKeeps ==
  ASSUME PltInv, NEW lib \in Libs, Load(lib) \/ Unload(lib)
  PROVE  PltInv'
  BY Zenon, EnvironmentKeeps DEF Load, Unload, PltInv, TypeOK, Value

LEMMA RebindKeeps ==
  ASSUME PltInv, NEW c \in Cells, Rebind(c)
  PROVE  PltInv'
  BY Zenon, EnvironmentKeeps DEF Rebind, PltInv, TypeOK, Value
-----------------------------------------------------------------------------
(* Clients *)

\* Cells stay justified while registrations stay.
LEMMA CellsKeep ==
  ASSUME CellInv, got' = got,
         \A j \in DOMAIN g_plt : \E i \in DOMAIN g_plt' :
           /\ g_plt'[i].lib = g_plt[j].lib /\ g_plt'[i].sym = g_plt[j].sym
           /\ g_plt'[i].given = g_plt[j].given,
         \A k \in DOMAIN g_rules : g_rules[k].replace # Null => \E m \in DOMAIN g_rules' :
           /\ g_rules'[m].pattern = g_rules[k].pattern /\ g_rules'[m].symbol = g_rules[k].symbol
           /\ g_rules'[m].replace = g_rules[k].replace
  PROVE  CellInv'
<1> SUFFICES ASSUME NEW c \in Cells, got[c] # Genuine
             PROVE  \/ \E i \in DOMAIN g_plt' : SlotCovers(g_plt'[i], c) /\ got[c] = g_plt'[i].given
                    \/ \E m \in DOMAIN g_rules' : RuleCovers(g_rules'[m], c) /\ got[c] = g_rules'[m].replace
  BY Zenon DEF CellInv, CellsJustified, SlotCovers, RuleCovers
<1>1. got[c] # Null
  BY Zenon DEF CellInv
<1>2. CASE \E j \in DOMAIN g_plt : SlotCovers(g_plt[j], c) /\ got[c] = g_plt[j].given
  BY Zenon, <1>2 DEF SlotCovers
<1>3. CASE \E k \in DOMAIN g_rules : RuleCovers(g_rules[k], c) /\ got[c] = g_rules[k].replace
  BY <1>1, <1>3 DEF RuleCovers
<1> QED
  BY Zenon, <1>2, <1>3 DEF CellInv, CellsJustified

\* Nobody has a replacement as its origin that was not in the table before.
LEMMA NewChain ==
  ASSUME OriginInv, NEW r \in Replaces, r \notin Used,
         \A p \in Origins' : p \in Origins \/ p[2] = Null,
         \A p \in Origins' : p[1] \in Replaces \ {r} => p \in Origins
  PROVE  NoCircle(Replaces, Origins')
<1>1. NoCircle(Replaces, Origins)
  BY Zenon DEF OriginInv, OriginChainsEnd, NoCircle
<1>2. \A p \in Origins' : p[2] # r
  BY Zenon, ReplacesApart DEF OriginInv
<1>3. NoCircle({r}, Origins')
  <2>1. \A S \in (SUBSET {r}) \ {{}} : r \in S /\ S = {r}
    BY Zenon
  <2> QED
    BY Zenon, <1>2, <2>1 DEF NoCircle
<1> QED
  BY <1>1, <1>2, <1>3, ChainStep

LEMMA HookKeeps ==
  ASSUME Serialized = TRUE, PltInv, NEW lib \in Libs, NEW sym \in Syms, NEW r \in Replaces,
         Hook(lib, sym, r)
  PROVE  PltInv'
<1> DEFINE s == [lib |-> lib, sym |-> sym, replace |-> r, given |-> r, origin |-> Null]
           n == Len(g_plt) + 1
<1>1. /\ pc = "sleep" /\ r \notin Used /\ Len(g_plt) < MaxSlots /\ g_plt' = Append(g_plt, s)
      /\ UNCHANGED <<loaded, got, g_rules, worker, crashed>>
  BY Zenon DEF Hook, ClientMay
<1>2. s \in PltSlot /\ s.given = r /\ s.replace = r /\ s.origin = Null
  BY Zenon DEF PltSlot, Value
<1> HIDE DEF s
<1>3. /\ g_plt' \in Seq(PltSlot) /\ Len(g_plt') = n /\ Len(g_plt) \in Nat
      /\ DOMAIN g_plt = 1..Len(g_plt) /\ DOMAIN g_plt' = 1..n
      /\ \A j \in 1..Len(g_plt) : g_plt'[j] = g_plt[j]
      /\ g_plt'[n] = s
  BY <1>1, <1>2, AppendProperties, LenProperties DEF PltInv, TypeOK
<1>4. TypeOK'
  BY <1>1, <1>3, PltAssumption DEF PltInv, TypeOK, worker
<1>5. PassInv'
  BY Zenon, <1>1 DEF PassInv, worker
<1> HIDE DEF n
<1>6. /\ \A j \in DOMAIN g_plt : j \in DOMAIN g_plt' /\ g_plt'[j] = g_plt[j]
      /\ \A j \in DOMAIN g_plt' : (j \in DOMAIN g_plt /\ g_plt'[j] = g_plt[j]) \/ (j = n /\ g_plt'[j] = s)
      /\ n \in DOMAIN g_plt'
  BY <1>3 DEF n
<1>7. TableInv'
  BY Zenon, <1>1, <1>2, <1>6 DEF PltInv, TableInv
<1>8. CellInv'
  BY Zenon, <1>1, <1>6, CellsKeep DEF PltInv
<1>9. Distinct'
  BY <1>1, <1>2, <1>6 DEF PltInv, Distinct, Used
<1>10. Origins' = Origins \cup {<<r, Null>>} /\ Used' = Used \cup {r}
  BY <1>1, <1>2, <1>6 DEF Origins, Used
<1>11. OriginInv'
  <2>1. \A o \in Origins' : o[2] \in Used' \cup {Genuine, Null}
    BY <1>10 DEF PltInv, OriginInv
  <2>2. Unwritten(r, got', Origins')
    <3>1. \A c \in Cells : got[c] \in Used \cup {Genuine}
      BY Zenon DEF PltInv, CellInv, CellsJustified, Used
    <3>2. r # Genuine /\ r # Null
      BY Zenon, ReplacesApart
    <3> QED
      BY <1>1, <1>10, <3>1, <3>2 DEF PltInv, OriginInv, Unwritten
  <2>3. \A x \in Replaces : Unwritten(x, got, Origins) => Unwritten(x, got', Origins')
    BY <1>1, <1>10, ReplacesApart DEF Unwritten
  <2>4. /\ \A j \in DOMAIN g_plt : g_plt[j].given \in Replaces
        /\ \A k \in DOMAIN g_rules : g_rules[k].replace # Null => g_rules[k].replace \in Replaces
    BY Zenon, EntryTypes DEF PltInv, PltSlot, RegexRule
  <2>5. NoCircle(Replaces, Origins')
    <3>1. \A p \in Origins' : p \in Origins \/ p = <<r, Null>>
      BY Zenon, <1>10
    <3> QED
      BY <1>1, <3>1, NewChain DEF PltInv
  <2>6. \A j \in DOMAIN g_plt' : g_plt'[j].origin = Null => Unwritten(g_plt'[j].given, got', Origins')
    BY Zenon, <1>2, <1>6, <2>2, <2>3, <2>4 DEF PltInv, OriginInv
  <2>7. \A k \in DOMAIN g_rules' : g_rules'[k].origin = Null /\ g_rules'[k].replace # Null =>
          Unwritten(g_rules'[k].replace, got', Origins')
    BY Zenon, <1>1, <2>3, <2>4 DEF PltInv, OriginInv
  <2> QED
    BY Zenon, <2>1, <2>5, <2>6, <2>7 DEF OriginInv, OriginChainsEnd, NoCircle
<1> QED
  BY Zenon, <1>4, <1>5, <1>7, <1>8, <1>9, <1>11 DEF PltInv

LEMMA UnhookKeeps ==
  ASSUME Serialized = TRUE, PltInv, NEW lib \in Libs, NEW sym \in Syms, Unhook(lib, sym)
  PROVE  PltInv'
<1>1. PICK j : /\ pc = "sleep" /\ g_plt' = [g_plt EXCEPT ![j].replace = Null]
               /\ UNCHANGED <<loaded, got, g_rules, worker, crashed>>
  BY Zenon DEF Unhook, ClientMay
<1>2. /\ DOMAIN g_plt' = DOMAIN g_plt
      /\ \A i \in DOMAIN g_plt : g_plt'[i] = g_plt[i] \/ g_plt'[i] = [g_plt[i] EXCEPT !.replace = Null]
  BY Zenon, <1>1
<1>3. \A i \in DOMAIN g_plt :
        /\ g_plt'[i] \in PltSlot /\ g_plt'[i].given = g_plt[i].given
        /\ g_plt'[i].lib = g_plt[i].lib /\ g_plt'[i].sym = g_plt[i].sym
        /\ g_plt'[i].origin = g_plt[i].origin
        /\ g_plt'[i].replace \in {g_plt[i].replace, Null}
  BY Zenon, <1>2, EntryTypes DEF PltInv, PltSlot
<1>4. g_plt' \in Seq(PltSlot) /\ Len(g_plt') = Len(g_plt)
  <2>1. Len(g_plt) \in Nat /\ DOMAIN g_plt = 1..Len(g_plt)
    BY Zenon, EntryTypes DEF PltInv
  <2>2. g_plt' \in [1..Len(g_plt) -> PltSlot]
    BY Zenon, <1>1, <1>3, <2>1
  <2>3. g_plt' \in Seq(PltSlot)
    BY <2>1, <2>2, SeqDef
  <2> QED
    BY <1>2, <2>1, <2>3, LenProperties
<1>5. TypeOK'
  BY Zenon, <1>1, <1>4 DEF PltInv, TypeOK, worker
<1>6. PassInv'
  BY Zenon, <1>1 DEF PassInv, worker
<1>7. TableInv' /\ Distinct'
  BY <1>1, <1>2, <1>3 DEF PltInv, TableInv, Distinct
<1>8. CellInv'
  BY Zenon, <1>1, <1>2, <1>3, CellsKeep DEF PltInv
<1>9. Origins' = Origins /\ Used' = Used
  BY <1>1, <1>2, <1>3 DEF Origins, Used
<1>10. OriginInv'
  BY <1>1, <1>2, <1>3, <1>9 DEF PltInv, OriginInv, OriginChainsEnd, Unwritten
<1> QED
  BY Zenon, <1>5, <1>6, <1>7, <1>8, <1>10 DEF PltInv

LEMMA HookRegexKeeps ==
  ASSUME Serialized = TRUE, PltInv, NEW pattern \in Patterns, NEW sym \in Syms,
         HookRegex(pattern, sym)
  PROVE  PltInv'
<1> DEFINE s == [pattern |-> pattern, symbol |-> sym, replace |-> Null, origin |-> Null]
           n == Len(g_rules) + 1
<1>1. /\ pc = "sleep" /\ ~Filling /\ Len(g_rules) < MaxRules /\ g_rules' = Append(g_rules, s)
      /\ UNCHANGED <<loaded, got, g_plt, worker, crashed>>
  BY Zenon DEF HookRegex, ClientMay
<1>2. s \in RegexRule /\ s.replace = Null /\ s.origin = Null
  BY Zenon DEF RegexRule, Value
<1> HIDE DEF s
<1>3. /\ g_rules' \in Seq(RegexRule) /\ Len(g_rules') = n /\ Len(g_rules) \in Nat
      /\ DOMAIN g_rules = 1..Len(g_rules) /\ DOMAIN g_rules' = 1..n
      /\ \A j \in 1..Len(g_rules) : g_rules'[j] = g_rules[j]
      /\ g_rules'[n] = s
  BY <1>1, <1>2, AppendProperties, LenProperties DEF PltInv, TypeOK
<1>4. TypeOK'
  BY <1>1, <1>3, PltAssumption DEF PltInv, TypeOK, worker
<1>5. PassInv'
  BY Zenon, <1>1 DEF PassInv, worker
<1> HIDE DEF n
<1>6. /\ \A j \in DOMAIN g_rules : j \in DOMAIN g_rules' /\ g_rules'[j] = g_rules[j]
      /\ \A j \in DOMAIN g_rules' :
           (j \in DOMAIN g_rules /\ g_rules'[j] = g_rules[j]) \/ (j = n /\ g_rules'[j] = s)
      /\ n \in DOMAIN g_rules' /\ Len(g_rules') = n
  BY <1>3 DEF n
<1>7. \A k \in DOMAIN g_rules : g_rules[k].replace # Null
  BY Zenon, <1>1 DEF Filling
<1>8. TableInv'
  BY Zenon, <1>1, <1>2, <1>6, <1>7 DEF PltInv, TableInv
<1>9. CellInv'
  BY Zenon, <1>1, <1>6, CellsKeep DEF PltInv
<1>10. Distinct'
  <2>1. \A j \in DOMAIN g_plt : g_plt[j].given # Null
    BY Zenon, EntryTypes, ReplacesApart DEF PltInv, PltSlot
  <2> QED
    BY <1>1, <1>2, <1>6, <2>1 DEF PltInv, Distinct
<1>11. Origins' = Origins \cup {<<Null, Null>>} /\ Used' = Used \cup {Null}
  BY <1>1, <1>2, <1>6 DEF Origins, Used
<1>12. OriginInv'
  <2>1. \A o \in Origins' : o[2] \in Used' \cup {Genuine, Null}
    BY <1>11 DEF PltInv, OriginInv
  <2>2. \A x \in Replaces : Unwritten(x, got, Origins) => Unwritten(x, got', Origins')
    BY <1>1, <1>11, ReplacesApart DEF Unwritten
  <2>3. /\ \A j \in DOMAIN g_plt : g_plt[j].given \in Replaces
        /\ \A k \in DOMAIN g_rules : g_rules[k].replace # Null => g_rules[k].replace \in Replaces
    BY Zenon, EntryTypes DEF PltInv, PltSlot, RegexRule
  <2>4. OriginChainsEnd'
    <3>1. \A o \in Origins' : o[1] \in Replaces => o \in Origins
      BY <1>11, ReplacesApart
    <3> QED
      BY <3>1 DEF PltInv, OriginInv, OriginChainsEnd
  <2>5. \A j \in DOMAIN g_plt' : g_plt'[j].origin = Null => Unwritten(g_plt'[j].given, got', Origins')
    BY Zenon, <1>1, <2>2, <2>3 DEF PltInv, OriginInv
  <2>6. \A k \in DOMAIN g_rules' : g_rules'[k].origin = Null /\ g_rules'[k].replace # Null =>
          Unwritten(g_rules'[k].replace, got', Origins')
    BY Zenon, <1>2, <1>6, <2>2, <2>3 DEF PltInv, OriginInv
  <2> QED
    BY Zenon, <2>1, <2>4, <2>5, <2>6 DEF OriginInv
<1> QED
  BY Zenon, <1>4, <1>5, <1>8, <1>9, <1>10, <1>12 DEF PltInv

LEMMA HookRegexFillKeeps ==
  ASSUME Serialized = TRUE, PltInv, NEW r \in Replaces, HookRegexFill(r)
  PROVE  PltInv'
<1> DEFINE n == Len(g_rules)
<1>1. /\ Filling /\ r \notin Used /\ g_rules' = [g_rules EXCEPT ![n].replace = r]
      /\ UNCHANGED <<loaded, got, g_plt, worker, crashed>>
  BY Zenon DEF HookRegexFill
<1>2. /\ n \in DOMAIN g_rules /\ g_rules[n].replace = Null /\ g_rules[n].origin = Null
      /\ \A k \in DOMAIN g_rules : k # n => g_rules[k].replace # Null
  BY Zenon, <1>1 DEF Filling, PltInv, TableInv
<1>3. pc = "sleep"
  BY Zenon, <1>1 DEF PltInv, PassInv
<1> HIDE DEF n
<1>4. /\ DOMAIN g_rules' = DOMAIN g_rules /\ g_rules'[n] = [g_rules[n] EXCEPT !.replace = r]
      /\ \A k \in DOMAIN g_rules : k # n => g_rules'[k] = g_rules[k]
  BY Zenon, <1>1, <1>2
<1>5. /\ g_rules'[n] \in RegexRule /\ g_rules'[n].replace = r /\ g_rules'[n].origin = Null
      /\ g_rules'[n].pattern = g_rules[n].pattern /\ g_rules'[n].symbol = g_rules[n].symbol
  BY Zenon, <1>2, <1>4, EntryTypes DEF PltInv, RegexRule
<1>6. g_rules' \in Seq(RegexRule) /\ Len(g_rules') = Len(g_rules)
  <2>1. Len(g_rules) \in Nat /\ DOMAIN g_rules = 1..Len(g_rules)
    BY Zenon, EntryTypes DEF PltInv
  <2>2. \A k \in DOMAIN g_rules : g_rules'[k] \in RegexRule
    BY Zenon, <1>4, <1>5, EntryTypes DEF PltInv
  <2>3. g_rules' \in [1..Len(g_rules) -> RegexRule]
    BY Zenon, <1>1, <1>4, <2>1, <2>2
  <2>4. g_rules' \in Seq(RegexRule)
    BY <2>1, <2>3, SeqDef
  <2> QED
    BY <1>4, <2>1, <2>4, LenProperties
<1>7. TypeOK'
  BY Zenon, <1>1, <1>6 DEF PltInv, TypeOK, worker
<1>8. PassInv'
  BY Zenon, <1>1, <1>3 DEF PassInv, worker
<1>9. \A k \in DOMAIN g_rules' : g_rules'[k].replace # Null
  BY Zenon, <1>2, <1>4, <1>5, ReplacesApart
<1>10. TableInv'
  BY Zenon, <1>1, <1>9 DEF PltInv, TableInv
<1>11. CellInv'
  <2>1. \A k \in DOMAIN g_rules : g_rules[k].replace # Null => k \in DOMAIN g_rules' /\ g_rules'[k] = g_rules[k]
    BY Zenon, <1>2, <1>4
  <2> QED
    BY Zenon, <1>1, <2>1, CellsKeep DEF PltInv
<1>12. Distinct'
  BY <1>1, <1>2, <1>4, <1>5 DEF PltInv, Distinct, Used
<1>13. /\ \A o \in Origins' : o \in Origins \/ o = <<r, Null>>
       /\ \A x \in Used : x # Null => x \in Used'
  BY <1>1, <1>2, <1>4, <1>5 DEF Origins, Used
<1>14. OriginInv'
  <2>1. \A o \in Origins' : o[2] \in Used' \cup {Genuine, Null}
    BY <1>13 DEF PltInv, OriginInv
  <2>2. Unwritten(r, got', Origins')
    <3>1. \A c \in Cells : got[c] \in Used \cup {Genuine}
      BY Zenon DEF PltInv, CellInv, CellsJustified, Used
    <3>2. r # Genuine /\ r # Null
      BY Zenon, ReplacesApart
    <3> QED
      BY <1>1, <1>13, <3>1, <3>2 DEF PltInv, OriginInv, Unwritten
  <2>3. \A x \in Replaces : Unwritten(x, got, Origins) => Unwritten(x, got', Origins')
    BY <1>1, <1>13, ReplacesApart DEF Unwritten
  <2>4. /\ \A j \in DOMAIN g_plt : g_plt[j].given \in Replaces
        /\ \A k \in DOMAIN g_rules : g_rules[k].replace # Null => g_rules[k].replace \in Replaces
    BY Zenon, EntryTypes DEF PltInv, PltSlot, RegexRule
  <2>5. NoCircle(Replaces, Origins')
    BY <1>1, <1>13, NewChain DEF PltInv
  <2>6. \A j \in DOMAIN g_plt' : g_plt'[j].origin = Null => Unwritten(g_plt'[j].given, got', Origins')
    BY Zenon, <1>1, <2>3, <2>4 DEF PltInv, OriginInv
  <2>7. \A k \in DOMAIN g_rules' : g_rules'[k].origin = Null /\ g_rules'[k].replace # Null =>
          Unwritten(g_rules'[k].replace, got', Origins')
    BY Zenon, <1>2, <1>4, <1>5, <2>2, <2>3, <2>4 DEF PltInv, OriginInv
  <2> QED
    BY Zenon, <2>1, <2>5, <2>6, <2>7 DEF OriginInv, OriginChainsEnd, NoCircle
<1> QED
  BY Zenon, <1>7, <1>8, <1>10, <1>11, <1>12, <1>14 DEF PltInv
-----------------------------------------------------------------------------
(* The worker writes *)

\* A step that registers nothing and writes cells: F are the replacements
\* whose origin it captures, and whoever has no origin afterwards is in no
\* cell and nobody's origin.
LEMMA WriteKeeps ==
  ASSUME OriginInv, NEW F \in SUBSET Replaces, Used' = Used,
         \A p \in Origins' : p \in Origins \/ (p[1] \in F /\ p[2] \in Used \cup {Genuine}),
         \A p \in Origins' : p[1] \notin F => p \in Origins,
         \A r \in F : Unwritten(r, got, Origins),
         NoCircle(F, Origins'),
         \A j \in DOMAIN g_plt' : g_plt'[j].origin = Null =>
           Unwritten(g_plt'[j].given, got', Origins'),
         \A k \in DOMAIN g_rules' : g_rules'[k].origin = Null /\ g_rules'[k].replace # Null =>
           Unwritten(g_rules'[k].replace, got', Origins')
  PROVE  OriginInv'
<1>1. NoCircle(Replaces, Origins)
  BY Zenon DEF OriginInv, OriginChainsEnd, NoCircle
<1>2. \A p \in Origins' : p[1] \in Replaces \ F => p \in Origins /\ p[2] \notin F
  BY Zenon DEF Unwritten
<1>3. NoCircle(Replaces, Origins')
  BY Zenon, <1>1, <1>2, ChainStep
<1>4. \A p \in Origins' : p[2] \in Used' \cup {Genuine, Null}
  BY Zenon DEF OriginInv
<1> QED
  BY Zenon, <1>3, <1>4 DEF OriginInv, OriginChainsEnd, NoCircle

LEMMA CellValues ==
  ASSUME PltInv
  PROVE  \A c \in Cells : got[c] \in Used \cup {Genuine} /\ got[c] # Null
  BY Zenon DEF PltInv, CellInv, CellsJustified, Used

LEMMA HookOneKeeps ==
  ASSUME PltInv, HookOne
  PROVE  PltInv'
<1> DEFINE lib == MapsOrder[line]
           s == g_plt[idx]
           cs == SlotCells(s, lib)
           o == CaptureOrigin(s, cs)
<1>1. pc = "hook" /\ UNCHANGED <<loaded, g_rules>>
  BY Zenon DEF HookOne
<1>2. /\ idx \in DOMAIN g_plt /\ s \in PltSlot /\ s.replace = s.given /\ s.given \in Replaces
      /\ <<lib, s.lib>> \in NameIn /\ ~Filling
  <2>1. idx \in 1..Len(g_plt) /\ s.replace # Null /\ <<lib, s.lib>> \in NameIn /\ ~Filling
    BY <1>1, EntryTypes DEF PltInv, TypeOK, PassInv
  <2>2. idx \in DOMAIN g_plt /\ s \in PltSlot
    BY Zenon, <2>1, EntryTypes DEF PltInv
  <2> QED
    BY Zenon, <2>1, <2>2 DEF PltInv, TableInv, PltSlot
<1>3. CASE crashed' = TRUE /\ UNCHANGED <<got, g_plt, worker>>
  BY Zenon, <1>1, <1>3, EnvironmentKeeps DEF PltInv, TypeOK, tables
<1>4. CASE /\ got' = [c \in Cells |-> IF c \in cs THEN s.replace ELSE got[c]]
           /\ g_plt' = [g_plt EXCEPT ![idx].origin = o]
           /\ pc' = "slot" /\ idx' = idx + 1 /\ line' = 1
           /\ UNCHANGED crashed
  <2>1. cs \in SUBSET Cells /\ \A c \in cs : SlotCovers(s, c)
    BY Zenon, <1>2 DEF SlotCells, SlotCovers
  <2>2. /\ s.origin # Null \/ cs = {} => o = s.origin
        /\ s.origin = Null /\ cs # {} => \E c \in cs : o = got[c]
    BY Zenon, <2>1, CaptureIs DEF PltInv, CellInv
  <2>3. o \in Value
    BY <1>2, <2>1, <2>2 DEF PltInv, TypeOK, PltSlot
  <2> HIDE DEF o, cs, s, lib
  <2>4. /\ DOMAIN g_plt' = DOMAIN g_plt /\ g_plt'[idx] = [s EXCEPT !.origin = o]
        /\ \A j \in DOMAIN g_plt : j # idx => g_plt'[j] = g_plt[j]
    BY Zenon, <1>2, <1>4 DEF s
  <2>5. /\ g_plt'[idx] \in PltSlot /\ g_plt'[idx].given = s.given /\ g_plt'[idx].origin = o
        /\ g_plt'[idx].lib = s.lib /\ g_plt'[idx].sym = s.sym /\ g_plt'[idx].replace = s.replace
    BY Zenon, <1>2, <2>3, <2>4 DEF PltSlot
  <2>6. g_plt' \in Seq(PltSlot) /\ Len(g_plt') = Len(g_plt)
    <3>1. Len(g_plt) \in Nat /\ DOMAIN g_plt = 1..Len(g_plt)
      BY Zenon, EntryTypes DEF PltInv
    <3>2. \A j \in DOMAIN g_plt : g_plt'[j] \in PltSlot
      BY Zenon, <2>4, <2>5, EntryTypes DEF PltInv
    <3>3. g_plt' \in [1..Len(g_plt) -> PltSlot]
      BY Zenon, <1>4, <2>4, <3>1, <3>2
    <3>4. g_plt' \in Seq(PltSlot)
      BY <3>1, <3>3, SeqDef
    <3> QED
      BY <2>4, <3>1, <3>4, LenProperties
  <2>7. TypeOK'
    <3>1. idx \in 1..Len(g_plt) /\ Len(g_plt) \in Nat /\ Len(g_plt) <= MaxSlots /\ MaxSlots \in Nat
      BY Zenon, <1>2, EntryTypes, PltAssumption DEF PltInv, TypeOK
    <3>2. got' \in [Cells -> Value]
      BY Zenon, <1>2, <1>4 DEF PltInv, TypeOK, Value
    <3>3. Len(MapsOrder) \in Nat
      BY Zenon, PltAssumption, LenProperties
    <3> QED
      BY <1>1, <1>4, <2>6, <3>1, <3>2, <3>3 DEF PltInv, TypeOK
  <2>8. PassInv'
    BY Zenon, <1>1, <1>2, <1>4 DEF PassInv, Filling
  <2>9. \A j \in DOMAIN g_plt :
           /\ g_plt'[j].lib = g_plt[j].lib /\ g_plt'[j].sym = g_plt[j].sym
           /\ g_plt'[j].given = g_plt[j].given /\ g_plt'[j].replace = g_plt[j].replace
    BY Zenon, <2>4, <2>5 DEF s
  <2>10. TableInv' /\ Distinct'
    BY <1>1, <2>4, <2>9 DEF PltInv, TableInv, Distinct
  <2>11. CellInv'
    <3> SUFFICES ASSUME NEW c \in Cells
                 PROVE  /\ got'[c] # Null
                        /\ \/ got'[c] = Genuine
                           \/ \E j \in DOMAIN g_plt' : SlotCovers(g_plt'[j], c) /\ got'[c] = g_plt'[j].given
                           \/ \E k \in DOMAIN g_rules' : RuleCovers(g_rules'[k], c) /\ got'[c] = g_rules'[k].replace
      BY Zenon DEF CellInv, CellsJustified, SlotCovers, RuleCovers
    <3>1. CASE c \in cs
      BY Zenon, <1>2, <1>4, <2>1, <2>4, <2>5, <3>1, ReplacesApart DEF SlotCovers
    <3>2. CASE c \notin cs
      <4>1. got'[c] = got[c]
        BY Zenon, <1>4, <3>2
      <4>2. CASE \E j \in DOMAIN g_plt : SlotCovers(g_plt[j], c) /\ got[c] = g_plt[j].given
        BY Zenon, <2>4, <2>9, <4>1, <4>2, CellValues DEF SlotCovers
      <4>3. CASE \E k \in DOMAIN g_rules : RuleCovers(g_rules[k], c) /\ got[c] = g_rules[k].replace
        BY Zenon, <1>1, <4>1, <4>3, CellValues
      <4> QED
        BY Zenon, <4>1, <4>2, <4>3, CellValues DEF PltInv, CellInv, CellsJustified
    <3> QED
      BY Zenon, <3>1, <3>2
  <2>12. Used' = Used
    BY <1>1, <2>4, <2>9 DEF Used
  <2>13. OriginInv'
    <3>1. CASE s.origin # Null \/ cs = {}
      <4>1. \A j \in DOMAIN g_plt : g_plt'[j].origin = g_plt[j].origin
        BY Zenon, <2>2, <2>4, <2>5, <3>1 DEF s
      <4>2. Origins' = Origins
        BY <1>1, <2>4, <2>9, <4>1 DEF Origins
      <4>3. ASSUME NEW r, Unwritten(r, got, Origins), s.origin = Null \/ r # s.given
            PROVE  Unwritten(r, got', Origins')
        BY Zenon, <1>2, <1>4, <3>1, <4>2, <4>3 DEF Unwritten
      <4>4. \A j \in DOMAIN g_plt : g_plt[j].origin = Null => s.origin = Null \/ g_plt[j].given # s.given
        BY Zenon, <1>2 DEF PltInv, Distinct, s
      <4>5. \A k \in DOMAIN g_rules : g_rules[k].replace # s.given
        BY Zenon, <1>2 DEF PltInv, Distinct, s
      <4> QED
        BY Zenon, <1>1, <2>4, <2>9, <2>12, <4>1, <4>2, <4>3, <4>4, <4>5 DEF PltInv, OriginInv, OriginChainsEnd
    <3>2. CASE s.origin = Null /\ cs # {}
      <4>1. PICK c \in cs : o = got[c]
        BY Zenon, <2>2, <3>2
      <4>2. Unwritten(s.given, got, Origins)
        BY Zenon, <1>2, <3>2 DEF PltInv, OriginInv, s
      <4>3. o # Null /\ o # s.given /\ o \in Used \cup {Genuine}
        BY Zenon, <2>1, <4>1, <4>2, CellValues DEF Unwritten
      <4>4. \A p \in Origins' : p \in Origins \/ p = <<s.given, o>>
        BY Zenon, <1>1, <2>4, <2>5 DEF Origins
      <4>5. \A p \in Origins' : p[1] = s.given => p = <<s.given, o>>
        <5>1. \A j \in DOMAIN g_plt : g_plt'[j].given = s.given => j = idx
          BY Zenon, <1>2, <2>9 DEF PltInv, Distinct, s
        <5>2. \A k \in DOMAIN g_rules : g_rules[k].replace # s.given
          BY Zenon, <1>2 DEF PltInv, Distinct, s
        <5> SUFFICES ASSUME NEW p \in Origins', p[1] = s.given
                     PROVE  p = <<s.given, o>>
          BY Zenon
        <5>3. \/ \E j \in DOMAIN g_plt : p = <<g_plt'[j].given, g_plt'[j].origin>>
              \/ \E k \in DOMAIN g_rules : p = <<g_rules[k].replace, g_rules[k].origin>>
          BY Zenon, <1>1, <2>4 DEF Origins
        <5> QED
          BY <2>5, <5>1, <5>2, <5>3
      <4>6. NoCircle({s.given}, Origins')
        <5>1. \A S \in (SUBSET {s.given}) \ {{}} : s.given \in S /\ S = {s.given}
          BY Zenon
        <5> QED
          BY <4>3, <4>5, <5>1 DEF NoCircle
      <4>7. ASSUME NEW r, Unwritten(r, got, Origins), r # s.given
            PROVE  Unwritten(r, got', Origins')
        BY <1>2, <1>4, <2>1, <4>1, <4>4, <4>7 DEF Unwritten
      <4>8. \A j \in DOMAIN g_plt' : g_plt'[j].origin = Null => Unwritten(g_plt'[j].given, got', Origins')
        <5> SUFFICES ASSUME NEW j \in DOMAIN g_plt', g_plt'[j].origin = Null
                     PROVE  Unwritten(g_plt'[j].given, got', Origins')
          BY Zenon
        <5>1. j \in DOMAIN g_plt /\ j # idx /\ g_plt'[j] = g_plt[j]
          BY Zenon, <2>4, <2>5, <4>3
        <5>2. g_plt[j].given # s.given
          BY Zenon, <1>2, <5>1 DEF PltInv, Distinct, s
        <5> QED
          BY Zenon, <4>7, <5>1, <5>2 DEF PltInv, OriginInv
      <4>9. \A k \in DOMAIN g_rules' : g_rules'[k].origin = Null /\ g_rules'[k].replace # Null =>
              Unwritten(g_rules'[k].replace, got', Origins')
        BY Zenon, <1>1, <1>2, <4>7 DEF PltInv, OriginInv, Distinct, s
      <4> QED
        BY <1>2, <2>12, <4>2, <4>3, <4>4, <4>5, <4>6, <4>8, <4>9, WriteKeeps DEF PltInv
    <3> QED
      BY Zenon, <3>1, <3>2
  <2> QED
    BY Zenon, <2>7, <2>8, <2>10, <2>11, <2>13 DEF PltInv
<1> QED
  BY Zenon, <1>3, <1>4 DEF HookOne

\* What ApplyRules does to the table and to the cells of lib.
Applied(lib) ==
  /\ DOMAIN g_rules' = DOMAIN g_rules
  /\ \A k \in DOMAIN g_rules :
       /\ g_rules'[k] \in RegexRule
       /\ g_rules'[k].pattern = g_rules[k].pattern /\ g_rules'[k].symbol = g_rules[k].symbol
       /\ g_rules'[k].replace = g_rules[k].replace
       /\ \/ /\ g_rules'[k].origin = g_rules[k].origin
             /\ g_rules[k].origin # Null \/ RuleCells(k, lib) = {}
          \/ /\ g_rules[k].origin = Null
             /\ \E c \in RuleCells(k, lib) : g_rules'[k].origin = AfterRules(c, k - 1)
  /\ \A c \in Cells :
       \/ got'[c] = got[c]
       \/ \E k \in DOMAIN g_rules : c \in RuleCells(k, lib) /\ got'[c] = g_rules[k].replace

LEMMA ApplyEffect ==
  ASSUME PltInv, ~Filling, NEW lib,
         got' = [c \in Cells |-> IF c.lib = lib THEN AfterRules(c, Len(g_rules)) ELSE got[c]],
         g_rules' = [k \in DOMAIN g_rules |->
           IF g_rules[k].origin = Null /\ g_rules[k].replace # Null /\ RuleCells(k, lib) # {}
             THEN [g_rules[k] EXCEPT !.origin =
                     AfterRules(CHOOSE c \in RuleCells(k, lib) : TRUE, k - 1)]
             ELSE g_rules[k]]
  PROVE  Applied(lib)
<1>1. /\ DOMAIN g_rules = 1..Len(g_rules) /\ Len(g_rules) \in Nat /\ g_rules \in Seq(RegexRule)
      /\ \A k \in DOMAIN g_rules : g_rules[k] \in RegexRule /\ g_rules[k].replace # Null
  BY Zenon, EntryTypes DEF PltInv, TypeOK, Filling
<1>2. ASSUME NEW c \in Cells, NEW n \in 0..Len(g_rules)
      PROVE  AfterRules(c, n) \in Value
  <2>1. \A k \in 1..n : g_rules[k].replace \in Value
    BY <1>1 DEF RegexRule, Value
  <2>2. got[c] \in Value
    BY Zenon DEF PltInv, TypeOK
  <2> QED
    BY Zenon, <1>1, <2>1, <2>2, AfterRulesIs
<1>3. ASSUME NEW k \in DOMAIN g_rules
      PROVE  /\ g_rules'[k] \in RegexRule
             /\ g_rules'[k].pattern = g_rules[k].pattern /\ g_rules'[k].symbol = g_rules[k].symbol
             /\ g_rules'[k].replace = g_rules[k].replace
             /\ \/ /\ g_rules'[k].origin = g_rules[k].origin
                   /\ g_rules[k].origin # Null \/ RuleCells(k, lib) = {}
                \/ /\ g_rules[k].origin = Null
                   /\ \E c \in RuleCells(k, lib) : g_rules'[k].origin = AfterRules(c, k - 1)
  <2>1. CASE g_rules[k].origin # Null \/ RuleCells(k, lib) = {}
    <3>1. g_rules'[k] = g_rules[k]
      BY Zenon, <1>3, <2>1
    <3> QED
      BY Zenon, <1>1, <1>3, <2>1, <3>1
  <2>2. CASE g_rules[k].origin = Null /\ RuleCells(k, lib) # {}
    <3> DEFINE c == CHOOSE c \in RuleCells(k, lib) : TRUE
               o == AfterRules(c, k - 1)
    <3>1. c \in RuleCells(k, lib)
      BY Zenon, <2>2
    <3>2. g_rules'[k] = [g_rules[k] EXCEPT !.origin = o]
      BY Zenon, <1>1, <1>3, <2>2
    <3>3. o \in Value
      BY <1>1, <1>2, <1>3, <3>1 DEF RuleCells
    <3> HIDE DEF o, c
    <3>4. /\ g_rules'[k] \in RegexRule /\ g_rules'[k].origin = o
          /\ g_rules'[k].pattern = g_rules[k].pattern /\ g_rules'[k].symbol = g_rules[k].symbol
          /\ g_rules'[k].replace = g_rules[k].replace
      BY Zenon, <1>1, <1>3, <3>2, <3>3 DEF RegexRule
    <3> QED
      BY Zenon, <2>2, <3>1, <3>4 DEF o
  <2> QED
    BY Zenon, <2>1, <2>2
<1>4. ASSUME NEW c \in Cells
      PROVE  \/ got'[c] = got[c]
             \/ \E k \in DOMAIN g_rules : c \in RuleCells(k, lib) /\ got'[c] = g_rules[k].replace
  <2>1. CASE c.lib # lib
    BY Zenon, <2>1
  <2>2. CASE c.lib = lib
    <3>1. got'[c] = AfterRules(c, Len(g_rules)) /\ Len(g_rules) \in 0..Len(g_rules)
      BY <1>1, <2>2
    <3>2. \A k : RuleCovers(g_rules[k], c) => c \in RuleCells(k, lib)
      BY Zenon, <2>2 DEF RuleCovers, RuleCells
    <3> QED
      BY Zenon, <1>1, <3>1, <3>2, AfterRulesIs
  <2> QED
    BY Zenon, <2>1, <2>2
<1> QED
  BY Zenon, <1>3, <1>4 DEF Applied

\* ApplyRules keeps what holds of the tables, the cells and the origins.
LEMMA ApplyKeeps ==
  ASSUME PltInv, ~Filling, NEW lib, Applied(lib), g_plt' = g_plt
  PROVE  TableInv' /\ CellInv' /\ Distinct' /\ OriginInv'
<1> DEFINE K == {k \in DOMAIN g_rules : g_rules[k].origin = Null /\ g_rules'[k].origin # g_rules[k].origin}
           F == {g_rules[k].replace : k \in K}
<1>0. \A k \in DOMAIN g_rules : RuleCells(k, lib) \in SUBSET Cells
  BY Zenon DEF RuleCells
<1>1. /\ DOMAIN g_rules = 1..Len(g_rules) /\ Len(g_rules) \in Nat /\ g_rules \in Seq(RegexRule)
      /\ \A k \in DOMAIN g_rules : g_rules[k] \in RegexRule /\ g_rules[k].replace \in Replaces
  BY Zenon, EntryTypes DEF PltInv, TypeOK, Filling, RegexRule
<1>2. \A k \in DOMAIN g_rules : g_rules[k].replace # Null
  BY Zenon DEF Filling
<1>3. DOMAIN g_rules' = DOMAIN g_rules /\ \A k \in DOMAIN g_rules : g_rules'[k].replace = g_rules[k].replace
  BY Zenon DEF Applied
<1>4. TableInv' /\ Distinct' /\ Used' = Used
  BY <1>2, <1>3 DEF PltInv, TableInv, Distinct, Used
<1>5. CellInv'
  <2> SUFFICES ASSUME NEW c \in Cells
               PROVE  /\ got'[c] # Null
                      /\ \/ got'[c] = Genuine
                         \/ \E j \in DOMAIN g_plt' : SlotCovers(g_plt'[j], c) /\ got'[c] = g_plt'[j].given
                         \/ \E k \in DOMAIN g_rules' : RuleCovers(g_rules'[k], c) /\ got'[c] = g_rules'[k].replace
    BY Zenon DEF CellInv, CellsJustified, SlotCovers, RuleCovers
  <2>1. \A k \in DOMAIN g_rules : RuleCovers(g_rules'[k], c) = RuleCovers(g_rules[k], c)
    BY Zenon DEF Applied, RuleCovers
  <2>2. CASE got'[c] = got[c]
    <3>1. got[c] # Null
      BY Zenon, CellValues
    <3> QED
      BY Zenon, <1>3, <2>1, <2>2, <3>1 DEF PltInv, CellInv, CellsJustified
  <2>3. CASE \E k \in DOMAIN g_rules : c \in RuleCells(k, lib) /\ got'[c] = g_rules[k].replace
    <3>1. \A k : c \in RuleCells(k, lib) => RuleCovers(g_rules[k], c)
      BY Zenon DEF RuleCells, RuleCovers
    <3> QED
      BY Zenon, <1>2, <1>3, <2>1, <2>3, <3>1
  <2> QED
    BY Zenon, <2>2, <2>3 DEF Applied
\* What a rule captures comes from a cell or from an earlier rule.
<1>6. ASSUME NEW k \in K
      PROVE  \/ \E c \in Cells : g_rules'[k].origin = got[c]
             \/ \E m \in DOMAIN g_rules : /\ m < k /\ g_rules'[k].origin = g_rules[m].replace
                                          /\ RuleCells(m, lib) # {}
  <2>1. PICK c \in RuleCells(k, lib) : g_rules'[k].origin = AfterRules(c, k - 1)
    BY Zenon DEF Applied
  <2>2. c \in Cells /\ c.lib = lib /\ k - 1 \in 0..Len(g_rules)
    BY <1>1, <2>1 DEF RuleCells
  <2>3. \A m : RuleCovers(g_rules[m], c) => c \in RuleCells(m, lib)
    BY Zenon, <2>2 DEF RuleCovers, RuleCells
  <2> QED
    BY <1>1, <2>1, <2>2, <2>3, AfterRulesIs
<1>7. \A k \in K : Unwritten(g_rules[k].replace, got, Origins)
  BY Zenon, <1>2 DEF PltInv, OriginInv
\* A rule that writes a cell has an origin afterwards.
<1>8. \A k \in DOMAIN g_rules : RuleCells(k, lib) # {} => g_rules'[k].origin # Null
  <2> SUFFICES ASSUME NEW k \in DOMAIN g_rules, RuleCells(k, lib) # {}
               PROVE  g_rules'[k].origin # Null
    BY Zenon
  <2>1. CASE g_rules'[k].origin = g_rules[k].origin /\ g_rules[k].origin # Null
    BY Zenon, <2>1
  <2>2. CASE \E c \in RuleCells(k, lib) : g_rules'[k].origin = AfterRules(c, k - 1)
    <3>1. PICK c \in RuleCells(k, lib) : g_rules'[k].origin = AfterRules(c, k - 1)
      BY Zenon, <2>2
    <3>2. c \in Cells /\ k - 1 \in 0..Len(g_rules)
      BY <1>1, <3>1 DEF RuleCells
    <3> QED
      BY <1>1, <1>2, <3>1, <3>2, AfterRulesIs, CellValues
  <2> QED
    BY Zenon, <2>1, <2>2 DEF Applied
<1>9. ASSUME NEW p \in Origins'
      PROVE  p \in Origins \/ \E k \in K : p = <<g_rules[k].replace, g_rules'[k].origin>>
  <2>1. CASE \E j \in DOMAIN g_plt : p = <<g_plt[j].given, g_plt[j].origin>>
    BY Zenon, <2>1 DEF Origins
  <2>2. CASE \E k \in DOMAIN g_rules : p = <<g_rules[k].replace, g_rules'[k].origin>>
    <3>1. PICK k \in DOMAIN g_rules : p = <<g_rules[k].replace, g_rules'[k].origin>>
      BY Zenon, <2>2
    <3>2. CASE k \in K
      BY Zenon, <3>1, <3>2
    <3>3. CASE k \notin K
      <4>1. g_rules'[k].origin = g_rules[k].origin
        BY Zenon, <3>3 DEF Applied
      <4> QED
        BY Zenon, <3>1, <4>1 DEF Origins
    <3> QED
      BY Zenon, <3>2, <3>3
  <2> QED
    BY Zenon, <1>3, <1>9, <2>1, <2>2 DEF Origins
<1>10. F \in SUBSET Replaces /\ \A r \in F : Unwritten(r, got, Origins)
  BY Zenon, <1>1, <1>7
<1>11. \A p \in Origins' : p[1] \notin F => p \in Origins
  BY <1>9
<1>12. \A p \in Origins' : p \in Origins \/ (p[1] \in F /\ p[2] \in Used \cup {Genuine})
  <2>1. \A k \in K : g_rules'[k].origin \in Used \cup {Genuine}
    BY Zenon, <1>6, CellValues DEF Used
  <2> QED
    BY <1>9, <2>1
\* Of the rules captured in this step, the first one of a set captured what
\* none of the others stands for.
<1>13. NoCircle(F, Origins')
  <2> SUFFICES ASSUME NEW S \in (SUBSET F) \ {{}}
               PROVE  \E r \in S : \A p \in Origins' : p[1] = r => p[2] \notin S
    BY Zenon DEF NoCircle
  <2> DEFINE T == {k \in K : g_rules[k].replace \in S}
  <2>1. T \in SUBSET Nat /\ T # {}
    BY <1>1
  <2>2. PICK k \in T : \A x \in T : k <= x
    BY Zenon, <2>1, MinExists
  <2>3. k \in K /\ k \in DOMAIN g_rules /\ g_rules[k].replace \in S
    BY Zenon, <2>2
  <2>4. g_rules'[k].origin \notin S
    <3>1. \A c \in Cells : got[c] \notin S
      BY Zenon, <1>10 DEF Unwritten
    <3>2. \A m \in DOMAIN g_rules : g_rules[m].replace \in S => m \in T
      <4>1. \A x, m \in DOMAIN g_rules : g_rules[x].replace = g_rules[m].replace => x = m
        BY Zenon, <1>2 DEF PltInv, Distinct
      <4> QED
        BY <4>1
    <3>3. \A m \in DOMAIN g_rules : m < k => g_rules[m].replace \notin S
      BY <1>1, <2>2, <2>3, <3>2
    <3> QED
      BY Zenon, <1>6, <2>3, <3>1, <3>3
  <2>5. ASSUME NEW p \in Origins', p[1] = g_rules[k].replace
        PROVE  p[2] = g_rules'[k].origin
    <3>1. \A j \in DOMAIN g_plt : g_plt[j].given # g_rules[k].replace
      BY Zenon, <2>3 DEF PltInv, Distinct
    <3>2. \A m \in DOMAIN g_rules : g_rules[m].replace = g_rules[k].replace => m = k
      BY Zenon, <1>2, <2>3 DEF PltInv, Distinct
    <3>3. \/ \E j \in DOMAIN g_plt : p = <<g_plt[j].given, g_plt[j].origin>>
          \/ \E m \in DOMAIN g_rules : p = <<g_rules[m].replace, g_rules'[m].origin>>
      BY <1>3, <2>5 DEF Origins
    <3> QED
      BY <2>5, <3>1, <3>2, <3>3
  <2> QED
    BY Zenon, <2>3, <2>4, <2>5
<1>14. ASSUME NEW r, Unwritten(r, got, Origins),
              \A m \in DOMAIN g_rules : RuleCells(m, lib) # {} => g_rules[m].replace # r
       PROVE  Unwritten(r, got', Origins')
  <2>1. \A c \in Cells : got'[c] # r
    BY <1>14 DEF Applied, Unwritten
  <2>2. \A k \in K : g_rules'[k].origin # r
    BY Zenon, <1>6, <1>14 DEF Unwritten
  <2>3. \A p \in Origins' : p[2] # r
    BY <1>9, <1>14, <2>2 DEF Unwritten
  <2> QED
    BY Zenon, <2>1, <2>3 DEF Unwritten
<1>15. \A j \in DOMAIN g_plt' : g_plt'[j].origin = Null => Unwritten(g_plt'[j].given, got', Origins')
  <2>1. \A j \in DOMAIN g_plt, m \in DOMAIN g_rules : g_rules[m].replace # g_plt[j].given
    BY Zenon DEF PltInv, Distinct
  <2>2. \A j \in DOMAIN g_plt : g_plt[j].origin = Null => Unwritten(g_plt[j].given, got, Origins)
    BY Zenon DEF PltInv, OriginInv
  <2> QED
    BY Zenon, <1>14, <2>1, <2>2
<1>16. ASSUME NEW k \in DOMAIN g_rules', g_rules'[k].origin = Null
       PROVE  Unwritten(g_rules'[k].replace, got', Origins')
  <2>1. k \in DOMAIN g_rules /\ g_rules[k].origin = Null /\ g_rules'[k].replace = g_rules[k].replace
    BY Zenon, <1>3, <1>16 DEF Applied
  <2>2. RuleCells(k, lib) = {}
    BY Zenon, <1>8, <1>16, <2>1
  <2>3. \A m \in DOMAIN g_rules : g_rules[m].replace = g_rules[k].replace => m = k
    BY Zenon, <1>2, <2>1 DEF PltInv, Distinct
  <2>4. Unwritten(g_rules[k].replace, got, Origins)
    BY Zenon, <1>2, <2>1 DEF PltInv, OriginInv
  <2> QED
    BY Zenon, <1>14, <2>1, <2>2, <2>3, <2>4
<1>17. OriginInv'
  <2>1. OriginInv
    BY Zenon DEF PltInv
  <2> HIDE DEF F
  <2> QED
    BY Zenon, <1>4, <1>10, <1>11, <1>12, <1>13, <1>15, <1>16, <2>1, WriteKeeps
<1> QED
  BY Zenon, <1>4, <1>5, <1>17

LEMMA WorkerRulesKeeps ==
  ASSUME PltInv, WorkerRules
  PROVE  PltInv'
<1> DEFINE lib == MapsOrder[line]
<1>1. pc = "rules" /\ UNCHANGED <<loaded, g_plt, idx>> /\ ~Filling
  BY Zenon DEF WorkerRules, PltInv, PassInv
<1>2. CASE crashed' = TRUE /\ UNCHANGED <<got, g_rules, pc, line>>
  BY Zenon, <1>1, <1>2, EnvironmentKeeps DEF PltInv, TypeOK, tables, worker
<1>3. CASE /\ got' = [c \in Cells |-> IF c.lib = lib THEN AfterRules(c, Len(g_rules)) ELSE got[c]]
           /\ g_rules' = [k \in DOMAIN g_rules |->
                IF g_rules[k].origin = Null /\ g_rules[k].replace # Null /\ RuleCells(k, lib) # {}
                  THEN [g_rules[k] EXCEPT !.origin =
                          AfterRules(CHOOSE c \in RuleCells(k, lib) : TRUE, k - 1)]
                  ELSE g_rules[k]]
           /\ \/ <<lib, g_plt[idx].lib>> \in NameIn /\ pc' = "hook" /\ UNCHANGED line
              \/ pc' = "maps" /\ line' = line + 1
           /\ UNCHANGED crashed
  <2>1. Applied(lib)
    BY Zenon, <1>1, <1>3, ApplyEffect
  <2>2. TableInv' /\ CellInv' /\ Distinct' /\ OriginInv'
    BY Zenon, <1>1, <2>1, ApplyKeeps
  <2>3. g_rules' \in Seq(RegexRule) /\ Len(g_rules') = Len(g_rules)
    <3>1. Len(g_rules) \in Nat /\ DOMAIN g_rules = 1..Len(g_rules)
      BY Zenon, EntryTypes DEF PltInv
    <3>2. DOMAIN g_rules' = DOMAIN g_rules /\ \A k \in DOMAIN g_rules : g_rules'[k] \in RegexRule
      BY Zenon, <2>1 DEF Applied
    <3>3. g_rules' \in [1..Len(g_rules) -> RegexRule]
      BY Zenon, <1>3, <3>1, <3>2
    <3>4. g_rules' \in Seq(RegexRule)
      BY <3>1, <3>3, SeqDef
    <3> QED
      BY <3>1, <3>2, <3>4, LenProperties
  <2>4. got' \in [Cells -> Value]
    <3>1. \A k \in DOMAIN g_rules : g_rules[k].replace \in Value
      BY Zenon, EntryTypes DEF PltInv, RegexRule, Value
    <3>2. \A c \in Cells : got'[c] \in Value
      BY Zenon, <2>1, <3>1 DEF Applied, PltInv, TypeOK
    <3> QED
      BY Zenon, <1>3, <3>2
  <2>5. line <= Len(MapsOrder) /\ Len(MapsOrder) \in Nat /\ line \in Nat /\ line >= 1
    BY <1>1, PltAssumption, LenProperties DEF PltInv, PassInv, TypeOK
  <2>6. TypeOK'
    BY <1>1, <1>3, <2>3, <2>4, <2>5 DEF PltInv, TypeOK
  <2>7. ~Filling'
    BY Zenon, <1>1, <2>1 DEF Applied, Filling
  <2>8. PassInv'
    BY Zenon, <1>1, <1>3, <2>5, <2>7 DEF PltInv, PassInv
  <2> QED
    BY Zenon, <2>2, <2>6, <2>8 DEF PltInv
<1> QED
  BY Zenon, <1>2, <1>3 DEF WorkerRules
-----------------------------------------------------------------------------
(* The specification *)

LEMMA PltInit ==
  ASSUME Init
  PROVE  PltInv
<1>1. g_plt = <<>> /\ g_rules = <<>> /\ DOMAIN g_plt = {} /\ DOMAIN g_rules = {} /\ Origins = {}
  BY DEF Init, Origins
<1>2. TypeOK
  <2>1. <<>> \in Seq(PltSlot) /\ <<>> \in Seq(RegexRule) /\ Len(<<>>) = 0
    OBVIOUS
  <2>2. Len(MapsOrder) \in Nat /\ MaxSlots \in Nat /\ MaxRules \in Nat
    BY Zenon, PltAssumption, LenProperties
  <2>3. got \in [Cells -> Value]
    BY Zenon DEF Init, Value
  <2>4. /\ g_plt \in Seq(PltSlot) /\ Len(g_plt) <= MaxSlots
        /\ g_rules \in Seq(RegexRule) /\ Len(g_rules) <= MaxRules
    BY <1>1, <2>1, <2>2
  <2>5. idx \in 1..(MaxSlots + 1) /\ line \in 1..(Len(MapsOrder) + 1)
    BY <2>2 DEF Init
  <2> QED
    BY Zenon, <2>3, <2>4, <2>5 DEF Init, TypeOK
<1>3. PassInv /\ TableInv /\ Distinct
  BY Zenon, <1>1 DEF Init, PassInv, TableInv, Distinct, Filling
<1>4. CellInv
  BY Zenon DEF Init, CellInv, CellsJustified, Genuine, Null
<1>5. OriginInv
  BY Zenon, <1>1 DEF OriginInv, OriginChainsEnd
<1> QED
  BY Zenon, <1>2, <1>3, <1>4, <1>5 DEF PltInv

LEMMA PltNext ==
  ASSUME Serialized = TRUE, PltInv, [Next]_vars
  PROVE  PltInv'
<1>1. CASE Worker
  BY Zenon, <1>1, WorkerWakeKeeps, WorkerSlotKeeps, WorkerMapsKeeps, WorkerRulesKeeps, HookOneKeeps DEF Worker
<1>2. ASSUME NEW lib \in Libs, NEW sym \in Syms,
             Unhook(lib, sym) \/ \E r \in Replaces : Hook(lib, sym, r)
      PROVE  PltInv'
  BY Zenon, <1>2, UnhookKeeps, HookKeeps
<1>3. ASSUME NEW p \in Patterns, NEW sym \in Syms, HookRegex(p, sym)
      PROVE  PltInv'
  BY Zenon, <1>3, HookRegexKeeps
<1>4. ASSUME NEW r \in Replaces, HookRegexFill(r)
      PROVE  PltInv'
  BY Zenon, <1>4, HookRegexFillKeeps
<1>5. ASSUME NEW lib \in Libs, Load(lib) \/ Unload(lib)
      PROVE  PltInv'
  BY Zenon, <1>5, LoadKeeps
<1>6. ASSUME NEW c \in Cells, Rebind(c)
      PROVE  PltInv'
  BY Zenon, <1>6, RebindKeeps
<1>7. CASE UNCHANGED vars
  BY Zenon, <1>7, EnvironmentKeeps DEF vars, PltInv, TypeOK
<1> QED
  BY Zenon, <1>1, <1>2, <1>3, <1>4, <1>5, <1>6, <1>7 DEF Next

\* The inductive invariant, for clients that act while the worker sleeps.
THEOREM PltInvariant ==
  ASSUME Serialized = TRUE
  PROVE  Spec => []PltInv
<1>1. Init => PltInv
  BY Zenon, PltInit
<1>2. PltInv /\ [Next]_vars => PltInv'
  BY Zenon, PltNext
<1> QED
  BY <1>1, <1>2, PTL DEF Spec

\* hook_one and ApplyRules write into a cell only the replacement of a slot or
\* a rule that is about the cell.
THEOREM CellsAreJustified ==
  ASSUME Serialized = TRUE
  PROVE  Spec => []CellsJustified
<1>1. PltInv => CellsJustified
  BY Zenon DEF PltInv, CellInv
<1> QED
  BY <1>1, PltInvariant, PTL

\* The origins hook_one and ApplyRules hand out never form a circle, whatever
\* the order of registrations, passes, reloads and rebinding.
THEOREM OriginsNeverCircle ==
  ASSUME Serialized = TRUE
  PROVE  Spec => []OriginChainsEnd
<1>1. PltInv => OriginChainsEnd
  BY Zenon DEF PltInv, OriginInv
<1> QED
  BY <1>1, PltInvariant, PTL
=============================================================================
