--------------------------- MODULE BreakpointProofs ---------------------------
(***************************************************************************)
(* Proofs about Breakpoint for clients that keep to one breakpoint per     *)
(* address and do not call the API while a handler runs; callbacks re-arm  *)
(* and remove, any Util::Write may fail, and there is any number of        *)
(* threads, addresses and table entries.                                   *)
(***************************************************************************)
EXTENDS Breakpoint, TLAPS

\* How the library must be used for the theorems below.
Disciplined ==
  /\ Serialized = TRUE /\ Duplicates = FALSE
  /\ Addr # {}
  /\ Free \notin Threads

Records == 1..g_bp_count

\* The table: one record per address, and each knows its instruction, except where Remove has
\* left something behind.
TableInv ==
  /\ g_bps \in [Bps -> BpRec]
  /\ g_bp_count \in 0..MaxBps
  /\ \A m, n \in Records : g_bps[m].addr = g_bps[n].addr => m = n
  /\ \A n \in Records : g_bps[n].addr \notin stray => g_bps[n].original = Insn(g_bps[n].addr)

\* The code: a BKPT stands only where an active record is.
CodeInv ==
  /\ code \in [Addr -> Halfword]
  /\ \A a \in Addr \ stray :
       \/ code[a] = Insn(a)
       \/ code[a] = BKPT /\ \E n \in Records : g_bps[n].addr = a /\ g_bps[n].active = TRUE

\* The handlers: one at a time is in its callback.  Its reference b is the record of the address
\* that trapped or, after the callback's Remove, that record's stale copy behind the table or a
\* record of another address; no other record is of the address that trapped.
HandlerInv ==
  /\ pc \in [Threads -> {"run", "trap", "callback"}]
  /\ at \in [Threads -> Addr]
  /\ ref \in [Threads -> Bps]
  /\ \A t \in Threads : pc[t] = "callback" =>
       /\ mutex = t
       /\ \A n \in Records : g_bps[n].addr = at[t] => n = ref[t]
       /\ g_bps[ref[t]].addr = at[t] /\ at[t] \notin stray => g_bps[ref[t]].original = Insn(at[t])

InCallback(a) == \E t \in Threads : pc[t] = "callback" /\ at[t] = a

\* The shots: an active breakpoint has not fired, unless it is being handled.
ShotsInv ==
  /\ shots \in [Addr -> 0..1]
  /\ \A n \in Records : g_bps[n].active = TRUE /\ ~InCallback(g_bps[n].addr) =>
       shots[g_bps[n].addr] = 0

BpInv == TableInv /\ CodeInv /\ HandlerInv /\ ShotsInv

\* An instruction is not a BKPT.
LEMMA HalfwordsDiffer == \A a : Insn(a) # BKPT
  BY DEF Insn, BKPT

\* A scan of g_bps finds the one record of the address, if there is one.
LEMMA FindFinds ==
  ASSUME TableInv, NEW a \in Addr
  PROVE  /\ FindBp(a) # 0 => FindBp(a) \in Records /\ g_bps[FindBp(a)].addr = a
         /\ FindBp(a) = 0 => \A n \in Records : g_bps[n].addr # a
         /\ FindActive(a) # 0 => /\ FindActive(a) \in Records
                                 /\ g_bps[FindActive(a)].addr = a
                                 /\ g_bps[FindActive(a)].active = TRUE
<1> DEFINE A == {n \in Records : g_bps[n].addr = a}
           B == {n \in Records : g_bps[n].addr = a /\ g_bps[n].active}
<1>0. \A n \in Records : g_bps[n].active \in BOOLEAN
  BY BreakpointAssumption DEF TableInv, BpRec, Records, Bps
<1>1. \A S : S \in {A, B} /\ S # {} => First(S) \in S
  <2> SUFFICES ASSUME NEW S, S \in {A, B}, S # {}
               PROVE  First(S) \in S
    OBVIOUS
  <2>1. PICK n \in S : TRUE
    OBVIOUS
  <2>2. \A m \in S : n <= m
    BY <2>1 DEF TableInv, Records
  <2> QED
    BY <2>1, <2>2 DEF First
<1>2. FindBp(a) = First(A) /\ FindActive(a) = First(B)
  BY DEF FindBp, FindActive, Records
<1>3. A = {} => First(A) = 0
  BY DEF First
<1>4. B = {} => First(B) = 0
  BY DEF First
<1>5. 0 \notin Records
  BY DEF Records
<1> QED
  BY <1>0, <1>1, <1>2, <1>3, <1>4, <1>5

\* What an unused record holds is a record.
LEMMA UnusedAddr ==
  ASSUME Disciplined
  PROVE  Unused \in BpRec /\ Unused.addr \in Addr
<1>1. PICK a \in Addr : TRUE
  BY DEF Disciplined
<1>2. [addr |-> a, original |-> Insn(a), active |-> FALSE] \in BpRec
  BY <1>1 DEF BpRec, Halfword
<1>3. Unused \in BpRec
  BY <1>2 DEF Unused
<1> QED
  BY <1>3 DEF BpRec

LEMMA BpInit ==
  ASSUME Disciplined, Init
  PROVE  BpInv
<1>3. Unused \in BpRec
  BY UnusedAddr
<1>4. Unused.addr \in Addr
  BY UnusedAddr
<1>5. Records = {}
  BY DEF Init, Records
<1>6. TableInv
  BY <1>3, <1>5, BreakpointAssumption DEF Init, TableInv, Bps
<1>7. CodeInv
  BY DEF Init, CodeInv, Halfword
<1>8. HandlerInv
  BY <1>4, BreakpointAssumption DEF Init, HandlerInv, Bps
<1>9. ShotsInv
  BY <1>5 DEF Init, ShotsInv
<1> QED
  BY <1>6, <1>7, <1>8, <1>9 DEF BpInv

\* Breakpoint::Install, with no handler running: the address has no record, so
\* the halfword it saves is the instruction.
LEMMA InstallKeeps ==
  ASSUME Disciplined, BpInv, NEW a \in Addr, Install(a)
  PROVE  BpInv'
<1> DEFINE k == g_bp_count + 1
           rec == [addr |-> a, original |-> code[a], active |-> TRUE]
<1>1. \A n \in Records : g_bps[n].addr # a
  BY FindFinds DEF Install, Disciplined, BpInv
<1>2. a \notin stray => code[a] = Insn(a)
  BY <1>1 DEF BpInv, CodeInv
<1>3. /\ k \in Bps /\ g_bp_count' = k /\ g_bp_count \in Nat
      /\ g_bps' = [g_bps EXCEPT ![k] = rec]
      /\ code' \in {code, [code EXCEPT ![a] = BKPT]}
      /\ shots' = [shots EXCEPT ![a] = 0]
      /\ UNCHANGED <<mutex, pc, at, ref, stray>>
      /\ \A t \in Threads : pc[t] = "run"
  BY BreakpointAssumption DEF Install, BpInv, TableInv, Bps, Write, threads, ClientMay, Disciplined
<1>4. rec \in BpRec
  BY DEF BpRec, Halfword, BpInv, CodeInv
<1>5. Records' = Records \cup {k} /\ Records \subseteq Bps /\ k \notin Records
  BY <1>3, BreakpointAssumption DEF Records, Bps, BpInv, TableInv
<1>6. g_bps'[k] = rec /\ \A n \in Records : g_bps'[n] = g_bps[n]
  BY <1>3, <1>5 DEF BpInv, TableInv
<1>7. TableInv'
  <2>1. g_bps' \in [Bps -> BpRec] /\ g_bp_count' \in 0..MaxBps
    BY <1>3, <1>4 DEF BpInv, TableInv, Bps
  <2>2. stray' = stray
    BY <1>3
  <2>3. ASSUME NEW n \in Records', g_bps'[n].addr \notin stray
        PROVE  g_bps'[n].original = Insn(g_bps'[n].addr)
    BY <1>2, <1>5, <1>6, <2>3 DEF BpInv, TableInv
  <2>4. \A m, n \in Records' : g_bps'[m].addr = g_bps'[n].addr => m = n
    BY <1>1, <1>5, <1>6 DEF BpInv, TableInv
  <2> QED
    BY <2>1, <2>2, <2>3, <2>4 DEF TableInv
<1>8. CodeInv'
  <2>1. code' \in [Addr -> Halfword] /\ code'[a] \in {code[a], BKPT}
    BY <1>3 DEF BpInv, CodeInv, Halfword
  <2>2. g_bps'[k].addr = a /\ g_bps'[k].active = TRUE /\ k \in Records'
    BY <1>5, <1>6
  <2>3. ASSUME NEW b \in Addr \ stray, b # a, code[b] # Insn(b)
        PROVE  code'[b] = BKPT /\ \E n \in Records' : g_bps'[n].addr = b /\ g_bps'[n].active = TRUE
    BY <1>3, <1>5, <1>6, <2>3 DEF BpInv, CodeInv
  <2>4. \A b \in Addr : b # a => code'[b] = code[b]
    BY <1>3 DEF BpInv, CodeInv
  <2>5. ASSUME NEW b \in Addr, b \notin stray
        PROVE  \/ code'[b] = Insn(b)
               \/ code'[b] = BKPT /\ \E n \in Records' : g_bps'[n].addr = b /\ g_bps'[n].active = TRUE
    BY <1>2, <2>1, <2>2, <2>3, <2>4, <2>5
  <2>6. stray' = stray
    BY <1>3
  <2> QED
    BY <2>1, <2>5, <2>6 DEF CodeInv
<1>9. HandlerInv'
  BY <1>3 DEF BpInv, HandlerInv
<1>10. ShotsInv'
  <2>1. shots' \in [Addr -> 0..1] /\ shots'[a] = 0
    BY <1>3 DEF BpInv, ShotsInv
  <2>2. \A n \in Records' : g_bps'[n].addr # a => n \in Records /\ g_bps'[n] = g_bps[n]
    BY <1>5, <1>6
  <2>3. \A b : InCallback(b)' = InCallback(b)
    BY <1>3 DEF InCallback
  <2>4. \A n \in Records : g_bps[n].addr \in Addr
    BY <1>5 DEF BpInv, TableInv, BpRec
  <2>5. \A b \in Addr : b # a => shots'[b] = shots[b]
    BY <1>3 DEF BpInv, ShotsInv
  <2> QED
    BY <2>1, <2>2, <2>3, <2>4, <2>5 DEF BpInv, ShotsInv
<1> QED
  BY <1>7, <1>8, <1>9, <1>10 DEF BpInv

\* ReArm, by a client or from a callback on its own address.
LEMMA ReArmKeeps ==
  ASSUME BpInv, NEW a \in Addr, DoReArm(a), UNCHANGED <<mutex, pc, at, ref>>
  PROVE  BpInv'
<1> DEFINE k == FindBp(a)
<1>1. k \in Records /\ g_bps[k].addr = a
  BY FindFinds DEF BpInv, DoReArm
<1>2. /\ g_bps' = [g_bps EXCEPT ![k].active = TRUE]
      /\ code' \in {code, [code EXCEPT ![a] = BKPT]}
      /\ shots' = [shots EXCEPT ![a] = 0]
      /\ UNCHANGED <<g_bp_count, stray>>
  BY DEF DoReArm, Write
<1>3. Records' = Records /\ Records \subseteq Bps
  BY <1>2, BreakpointAssumption DEF Records, Bps, BpInv, TableInv
<1>4. g_bps' \in [Bps -> BpRec]
  BY <1>1, <1>2, <1>3 DEF BpInv, TableInv, BpRec
<1>5. /\ \A n \in Bps : g_bps'[n].addr = g_bps[n].addr /\ g_bps'[n].original = g_bps[n].original
      /\ g_bps'[k].active = TRUE
      /\ \A n \in Records : n # k => g_bps'[n] = g_bps[n]
  BY <1>1, <1>2, <1>3 DEF BpInv, TableInv, BpRec
<1>6. TableInv'
  BY <1>2, <1>3, <1>4, <1>5 DEF BpInv, TableInv
<1>7. CodeInv'
  <2>1. code' \in [Addr -> Halfword] /\ code'[a] \in {code[a], BKPT}
    BY <1>2 DEF BpInv, CodeInv, Halfword
  <2>2. g_bps'[k].addr = a /\ g_bps'[k].active = TRUE /\ k \in Records'
    BY <1>1, <1>3, <1>5
  <2>3. ASSUME NEW b \in Addr \ stray, b # a, code[b] # Insn(b)
        PROVE  code'[b] = BKPT /\ \E n \in Records' : g_bps'[n].addr = b /\ g_bps'[n].active = TRUE
    BY <1>1, <1>2, <1>3, <1>5, <2>3 DEF BpInv, CodeInv
  <2>4. \A b \in Addr : b # a => code'[b] = code[b]
    BY <1>2 DEF BpInv, CodeInv
  <2>5. a \notin stray => code[a] = Insn(a) \/ code[a] = BKPT
    BY DEF BpInv, CodeInv
  <2>6. ASSUME NEW b \in Addr, b \notin stray
        PROVE  \/ code'[b] = Insn(b)
               \/ code'[b] = BKPT /\ \E n \in Records' : g_bps'[n].addr = b /\ g_bps'[n].active = TRUE
    BY <2>1, <2>2, <2>3, <2>4, <2>5, <2>6
  <2>7. stray' = stray
    BY <1>2
  <2> QED
    BY <2>1, <2>6, <2>7 DEF CodeInv
<1>8. HandlerInv'
  BY <1>2, <1>3, <1>5 DEF BpInv, HandlerInv
<1>9. ShotsInv'
  BY <1>1, <1>2, <1>3, <1>5 DEF BpInv, ShotsInv, InCallback, TableInv, BpRec
<1> QED
  BY <1>6, <1>7, <1>8, <1>9 DEF BpInv

\* Remove, by a client or from a callback on its own address: the last record takes the place of
\* the removed one, also under the reference of the handler that called back.
LEMMA RemoveKeeps ==
  ASSUME BpInv, NEW a \in Addr, DoRemove(a), UNCHANGED <<mutex, pc, at, ref>>,
         \A t \in Threads : pc[t] = "callback" => at[t] = a
  PROVE  BpInv'
<1> DEFINE k == FindBp(a)
           src(n) == IF n = k THEN g_bp_count ELSE n
<1>1. k \in Records /\ g_bps[k].addr = a
  BY FindFinds DEF BpInv, DoRemove
<1>2. /\ g_bps' = [g_bps EXCEPT ![k] = g_bps[g_bp_count]]
      /\ code' \in {code, [code EXCEPT ![a] = g_bps[k].original]}
      /\ g_bp_count' = g_bp_count - 1
      /\ stray' = IF code'[a] = BKPT THEN stray \cup {a} ELSE stray
      /\ UNCHANGED shots
  BY DEF DoRemove, Write
<1>3. /\ Records' \subseteq Records /\ Records \subseteq Bps /\ g_bp_count \in Records
      /\ g_bp_count' \in 0..MaxBps
      /\ \A n \in Records : n \in Records' \/ n = g_bp_count
      /\ g_bp_count \notin Records'
  BY <1>1, <1>2, BreakpointAssumption DEF Records, Bps, BpInv, TableInv
<1>4. g_bps' \in [Bps -> BpRec]
  BY <1>1, <1>2, <1>3 DEF BpInv, TableInv
<1>5. \A n \in Records' : src(n) \in Records /\ src(n) # k /\ g_bps'[n] = g_bps[src(n)]
  BY <1>1, <1>2, <1>3 DEF BpInv, TableInv
<1>6. \A m, n \in Records' : src(m) = src(n) => m = n
  BY <1>3
<1>7. \A n \in Records : n # k => \E m \in Records' : g_bps'[m] = g_bps[n]
  BY <1>1, <1>2, <1>3 DEF BpInv, TableInv
<1>8. stray \subseteq stray' /\ stray' \subseteq stray \cup {a}
  BY <1>2
<1>9. TableInv'
  BY <1>3, <1>4, <1>5, <1>6, <1>8 DEF BpInv, TableInv
<1>10. CodeInv'
  <2>1. g_bps[k].original \in Halfword
    BY <1>1, <1>3 DEF BpInv, TableInv, BpRec
  <2>2. code' \in [Addr -> Halfword] /\ code'[a] \in {code[a], g_bps[k].original}
    BY <1>2, <2>1 DEF BpInv, CodeInv
  <2>3. a \notin stray => g_bps[k].original = Insn(a) /\ code[a] \in {Insn(a), BKPT}
    BY <1>1 DEF BpInv, TableInv, CodeInv
  <2>4. a \notin stray' => code'[a] = Insn(a)
    BY <1>2, <1>8, <2>2, <2>3
  <2>5. ASSUME NEW b \in Addr \ stray, b # a, code[b] # Insn(b)
        PROVE  code[b] = BKPT /\ \E n \in Records' : g_bps'[n].addr = b /\ g_bps'[n].active = TRUE
    BY <1>1, <1>7, <2>5 DEF BpInv, CodeInv
  <2>6. \A b \in Addr : b # a => code'[b] = code[b]
    BY <1>2 DEF BpInv, CodeInv
  <2>7. ASSUME NEW b \in Addr, b \notin stray'
        PROVE  \/ code'[b] = Insn(b)
               \/ code'[b] = BKPT /\ \E n \in Records' : g_bps'[n].addr = b /\ g_bps'[n].active = TRUE
    <3>1. CASE b = a
      BY <2>4, <2>7, <3>1
    <3>2. CASE b # a /\ code[b] = Insn(b)
      BY <2>6, <3>2
    <3>3. CASE b # a /\ code[b] # Insn(b)
      BY <1>8, <2>5, <2>6, <2>7, <3>3
    <3> QED
      BY <3>1, <3>2, <3>3
  <2> QED
    BY <2>2, <2>7 DEF CodeInv
<1>11. HandlerInv'
  <2>1. ASSUME NEW t \in Threads, pc[t] = "callback"
        PROVE  at[t] = a /\ mutex = t /\ ref[t] = k
    BY <1>1, <2>1 DEF BpInv, HandlerInv
  <2>2. \A n \in Records' : g_bps'[n].addr # a
    BY <1>1, <1>5 DEF BpInv, TableInv
  <2>3. g_bps'[k].addr = a => g_bps'[k] = g_bps[k]
    BY <1>1, <1>2, <1>3 DEF BpInv, TableInv
  <2>4. a \notin stray => g_bps[k].original = Insn(a)
    BY <1>1 DEF BpInv, TableInv
  <2> QED
    BY <1>8, <2>1, <2>2, <2>3, <2>4 DEF BpInv, HandlerInv
<1>12. ShotsInv'
  BY <1>2, <1>5 DEF BpInv, ShotsInv, InCallback
<1> QED
  BY <1>9, <1>10, <1>11, <1>12 DEF BpInv

\* A trap only moves the thread to the handler.
LEMMA TrapKeeps ==
  ASSUME BpInv, NEW t \in Threads, NEW a \in Addr, Trap(t, a)
  PROVE  BpInv'
<1>1. /\ UNCHANGED <<code, g_bps, g_bp_count, mutex, ref, shots, stray>>
      /\ pc' = [pc EXCEPT ![t] = "trap"] /\ at' = [at EXCEPT ![t] = a]
      /\ pc[t] = "run"
  BY DEF Trap, table
<1>2. Records' = Records
  BY <1>1 DEF Records
<1>3. TableInv' /\ CodeInv'
  BY <1>1, <1>2 DEF BpInv, TableInv, CodeInv
<1>4. HandlerInv'
  BY <1>1, <1>2 DEF BpInv, HandlerInv
<1>5. \A b : InCallback(b) => InCallback(b)'
  BY <1>1 DEF BpInv, HandlerInv, InCallback
<1>6. ShotsInv'
  BY <1>1, <1>2, <1>5 DEF BpInv, ShotsInv
<1> QED
  BY <1>3, <1>4, <1>6 DEF BpInv

\* The handler takes the mutex, so no other callback is running and an active
\* record has not fired.
LEMMA HandlerKeeps ==
  ASSUME Disciplined, BpInv, NEW t \in Threads, Handler(t)
  PROVE  BpInv'
<1> DEFINE n == FindActive(at[t])
<1>1. /\ UNCHANGED <<code, g_bps, g_bp_count, stray>>
      /\ pc[t] = "trap" /\ mutex = Free
      /\ at[t] \in Addr
  BY DEF Handler, table, BpInv, HandlerInv
<1>2. \A u \in Threads : pc[u] # "callback"
  BY <1>1 DEF BpInv, HandlerInv, Disciplined
<1>3. Records' = Records
  BY <1>1 DEF Records
<1>4. TableInv' /\ CodeInv'
  BY <1>1, <1>3 DEF BpInv, TableInv, CodeInv
<1>5. CASE n = 0
  <2>1. /\ pc' = [pc EXCEPT ![t] = "run"]
        /\ at' = [at EXCEPT ![t] = Unused.addr]
        /\ ref' = [ref EXCEPT ![t] = 1]
        /\ UNCHANGED <<mutex, shots>>
    BY <1>5 DEF Handler, Return
  <2>2. Unused.addr \in Addr /\ 1 \in Bps
    BY UnusedAddr, BreakpointAssumption DEF Bps
  <2>3. HandlerInv'
    BY <1>2, <2>1, <2>2 DEF BpInv, HandlerInv
  <2>4. ShotsInv'
    BY <1>1, <1>2, <1>3, <2>1 DEF BpInv, ShotsInv, InCallback
  <2> QED
    BY <1>4, <2>3, <2>4 DEF BpInv
<1>6. CASE n # 0
  <2>1. /\ mutex' = t
        /\ pc' = [pc EXCEPT ![t] = "callback"]
        /\ ref' = [ref EXCEPT ![t] = n]
        /\ UNCHANGED at
        /\ shots' = [shots EXCEPT ![at[t]] = @ + 1]
    BY <1>6 DEF Handler
  <2>2. n \in Records /\ g_bps[n].addr = at[t] /\ g_bps[n].active = TRUE
    BY <1>1, <1>6, FindFinds DEF BpInv
  <2>3. Records \subseteq Bps
    BY BreakpointAssumption DEF Records, Bps, BpInv, TableInv
  <2>a. /\ \A m \in Records : g_bps[m].addr = at[t] => m = n
        /\ at[t] \notin stray => g_bps[n].original = Insn(at[t])
    BY <2>2 DEF BpInv, TableInv
  <2>4. HandlerInv'
    BY <1>1, <1>2, <1>3, <2>1, <2>2, <2>3, <2>a DEF BpInv, HandlerInv
  <2>5. shots[at[t]] = 0
    BY <1>2, <2>2 DEF BpInv, ShotsInv, InCallback
  <2>6. /\ shots' \in [Addr -> 0..1]
        /\ \A b \in Addr : b # at[t] => shots'[b] = shots[b]
    BY <1>1, <2>1, <2>5 DEF BpInv, ShotsInv
  <2>7. pc'[t] = "callback" /\ at'[t] = at[t]
    BY <2>1 DEF BpInv, HandlerInv
  <2>8. \A m \in Records : g_bps[m].addr \in Addr
    BY <2>3 DEF BpInv, TableInv, BpRec
  <2>9. ASSUME NEW m \in Records', g_bps'[m].active = TRUE,
               ~\E u \in Threads : pc'[u] = "callback" /\ at'[u] = g_bps'[m].addr
        PROVE  shots'[g_bps'[m].addr] = 0
    <3>1. m \in Records /\ g_bps'[m] = g_bps[m] /\ g_bps[m].addr # at[t]
      BY <1>1, <1>3, <2>7, <2>9
    <3>2. ~InCallback(g_bps[m].addr)
      BY <1>2 DEF InCallback
    <3> QED
      BY <2>6, <2>8, <2>9, <3>1, <3>2 DEF BpInv, ShotsInv
  <2>10. ShotsInv'
    BY <2>6, <2>9 DEF ShotsInv, InCallback
  <2> QED
    BY <1>4, <2>4, <2>10 DEF BpInv
<1> QED
  BY <1>5, <1>6

\* The handler's last step puts the instruction back and disarms the record;
\* it was the only handler in its callback.
LEMMA FinishKeeps ==
  ASSUME Disciplined, BpInv, NEW t \in Threads, Finish(t)
  PROVE  BpInv'
<1> DEFINE k == ref[t]
           a == at[t]
<1>1. /\ pc[t] = "callback" /\ mutex = t /\ a \in Addr /\ k \in Bps
      /\ \A n \in Records : g_bps[n].addr = a => n = k
      /\ g_bps[k].addr = a /\ a \notin stray => g_bps[k].original = Insn(a)
  BY DEF Finish, BpInv, HandlerInv
<1>2. UNCHANGED <<g_bp_count, shots>>
  BY DEF Finish
<1>3. Records' = Records /\ Records \subseteq Bps
  BY <1>2, BreakpointAssumption DEF Records, Bps, BpInv, TableInv
<1>4. CASE Page[at[t]] \notin writable
  <2>1. UNCHANGED <<code, g_bps, mutex, pc, at, ref, stray>>
    BY <1>4 DEF Finish, threads
  <2> QED
    BY <1>2, <1>3, <2>1 DEF BpInv, TableInv, CodeInv, HandlerInv, ShotsInv, InCallback
<1>5. CASE Page[at[t]] \in writable
  <2>1. /\ code' = [code EXCEPT ![a] = g_bps[k].original]
        /\ g_bps' = [g_bps EXCEPT ![k].active = FALSE]
        /\ mutex' = Free
        /\ pc' = [pc EXCEPT ![t] = "run"]
        /\ at' = [at EXCEPT ![t] = Unused.addr]
        /\ ref' = [ref EXCEPT ![t] = 1]
        /\ stray' = IF g_bps[k].addr = a THEN stray ELSE stray \cup {a, g_bps[k].addr}
    BY <1>5 DEF Finish, Return
  <2>2. /\ stray \subseteq stray'
        /\ a \notin stray' => g_bps[k].original = Insn(a)
        /\ \A b \in Addr \ stray' : b # a => g_bps[k].addr # b
    BY <1>1, <2>1
  <2>3. g_bps' \in [Bps -> BpRec]
    BY <1>1, <2>1 DEF BpInv, TableInv, BpRec
  <2>4. /\ \A n \in Records : g_bps'[n].addr = g_bps[n].addr /\ g_bps'[n].original = g_bps[n].original
        /\ g_bps'[k].active = FALSE
        /\ \A n \in Records : n # k => g_bps'[n] = g_bps[n]
    BY <1>1, <1>3, <2>1 DEF BpInv, TableInv, BpRec
  <2>5. TableInv'
    BY <1>2, <1>3, <2>2, <2>3, <2>4 DEF BpInv, TableInv
  <2>6. CodeInv'
    <3>1. /\ code' \in [Addr -> Halfword]
          /\ a \notin stray' => code'[a] = Insn(a)
      BY <1>1, <2>1, <2>2 DEF BpInv, TableInv, BpRec, CodeInv
    <3>2. ASSUME NEW b \in Addr \ stray', b # a, code[b] # Insn(b)
          PROVE  code[b] = BKPT /\ \E n \in Records' : g_bps'[n].addr = b /\ g_bps'[n].active = TRUE
      <4>1. PICK n \in Records : g_bps[n].addr = b /\ g_bps[n].active = TRUE
        BY <2>2, <3>2 DEF BpInv, CodeInv
      <4>2. n # k
        BY <2>2, <3>2, <4>1
      <4> QED
        BY <1>3, <2>2, <2>4, <3>2, <4>1, <4>2 DEF BpInv, CodeInv
    <3>3. \A b \in Addr : b # a => code'[b] = code[b]
      BY <2>1 DEF BpInv, CodeInv
    <3> QED
      BY <3>1, <3>2, <3>3 DEF CodeInv
  <2>7. Unused.addr \in Addr /\ 1 \in Bps
    BY UnusedAddr, BreakpointAssumption DEF Bps
  <2>8. \A u \in Threads : u # t => pc[u] # "callback"
    BY <1>1 DEF BpInv, HandlerInv
  <2>9. HandlerInv'
    BY <2>1, <2>7, <2>8 DEF BpInv, HandlerInv
  <2>10. \A b : InCallback(b) => b = a
    BY <2>8 DEF InCallback
  <2>11. ASSUME NEW n \in Records', g_bps'[n].active = TRUE
         PROVE  shots'[g_bps'[n].addr] = 0
    <3>1. n \in Records /\ n # k
      BY <1>3, <2>4, <2>11
    <3>2. g_bps'[n] = g_bps[n] /\ g_bps[n].addr # a
      BY <1>1, <2>4, <3>1 DEF BpInv, TableInv
    <3> QED
      BY <1>2, <2>10, <2>11, <3>1, <3>2 DEF BpInv, ShotsInv
  <2>12. ShotsInv'
    BY <1>2, <2>11 DEF BpInv, ShotsInv
  <2> QED
    BY <2>5, <2>6, <2>9, <2>12 DEF BpInv
<1> QED
  BY <1>4, <1>5

\* The inductive invariant.  OneShot alone is not inductive: that an active
\* record has not fired yet needs the mutex, which keeps a second thread that
\* trapped on the same BKPT out until the first has disarmed it.
LEMMA BreakpointInvariant ==
  ASSUME Disciplined
  PROVE  Spec => []BpInv
<1>1. Init => BpInv
  BY BpInit
<1>2. BpInv /\ [Next]_vars => BpInv'
  <2> SUFFICES ASSUME BpInv, [Next]_vars
               PROVE  BpInv'
    OBVIOUS
  <2>1. ASSUME NEW a \in Addr, Install(a) PROVE BpInv'
    BY <2>1, InstallKeeps
  <2>2. ASSUME NEW a \in Addr, ReArm(a) PROVE BpInv'
    BY <2>2, ReArmKeeps DEF ReArm, threads
  <2>3. ASSUME NEW a \in Addr, Remove(a) PROVE BpInv'
    <3>1. DoRemove(a) /\ UNCHANGED <<mutex, pc, at, ref>> /\ \A t \in Threads : pc[t] = "run"
      BY <2>3 DEF Remove, ClientMay, threads, Disciplined
    <3> QED
      BY <3>1, RemoveKeeps
  <2>4. ASSUME NEW t \in Threads, Handler(t) PROVE BpInv'
    BY <2>4, HandlerKeeps
  <2>5. ASSUME NEW t \in Threads, Finish(t) PROVE BpInv'
    BY <2>5, FinishKeeps
  <2>6. ASSUME NEW t \in Threads, NEW a \in Addr, Trap(t, a) PROVE BpInv'
    BY <2>6, TrapKeeps
  <2>7. ASSUME NEW t \in Threads, NEW call \in CallbackCalls, Callback(t, call) PROVE BpInv'
    <3>1. /\ at[t] \in Addr /\ UNCHANGED <<mutex, pc, at, ref>>
          /\ DoReArm(at[t]) \/ DoRemove(at[t])
      BY <2>7 DEF Callback, BpInv, HandlerInv
    <3>2. \A u \in Threads : pc[u] = "callback" => at[u] = at[t]
      BY <2>7 DEF Callback, BpInv, HandlerInv
    <3> QED
      BY <3>1, <3>2, ReArmKeeps, RemoveKeeps
  <2>8. ASSUME NEW p \in Pages, MemoryProtect(p) PROVE BpInv'
    BY <2>8 DEF MemoryProtect, table, threads, BpInv, TableInv, CodeInv, HandlerInv, ShotsInv,
                Records, InCallback
  <2>9. CASE UNCHANGED vars
    BY <2>9 DEF vars, table, threads, BpInv, TableInv, CodeInv, HandlerInv, ShotsInv, Records,
                InCallback
  <2> QED
    BY <2>1, <2>2, <2>3, <2>4, <2>5, <2>6, <2>7, <2>8, <2>9 DEF Next
<1> QED
  BY <1>1, <1>2, PTL DEF Spec

\* Every BKPT in the code has its active record, which knows the instruction, and the rest of the
\* program is intact (Install, ReArm, Remove, bp_handler), outside the addresses at which a
\* Remove could not write or was called under a handler that then uses another's record.
THEOREM BreakpointsOwnCode ==
  ASSUME Disciplined
  PROVE  Spec => []CodeOwned
<1>1. BpInv => CodeOwned
  <2> SUFFICES ASSUME BpInv, NEW a \in Addr \ stray, code[a] # Insn(a)
               PROVE  /\ code[a] = BKPT
                      /\ \E n \in 1..g_bp_count :
                           g_bps[n] = [addr |-> a, original |-> Insn(a), active |-> TRUE]
    BY DEF CodeOwned
  <2>1. PICK n \in Records : g_bps[n].addr = a /\ g_bps[n].active = TRUE
    BY DEF BpInv, CodeInv
  <2>2. g_bps[n] \in BpRec /\ g_bps[n].original = Insn(a)
    BY <2>1, BreakpointAssumption DEF BpInv, TableInv, Records, Bps
  <2>3. g_bps[n] = [addr |-> a, original |-> Insn(a), active |-> TRUE]
    BY <2>1, <2>2 DEF BpRec
  <2> QED
    BY <2>3 DEF BpInv, CodeInv, Records
<1> QED
  BY <1>1, BreakpointInvariant, PTL

\* A breakpoint fires at most once per arming, however many threads have
\* trapped on it before the first gets g_bp_mutex.
THEOREM BreakpointsFireOnce ==
  ASSUME Disciplined
  PROVE  Spec => []OneShot
<1>1. BpInv => OneShot
  BY DEF BpInv, ShotsInv, OneShot
<1> QED
  BY <1>1, BreakpointInvariant, PTL
=============================================================================
