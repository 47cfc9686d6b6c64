----------------------------- MODULE Breakpoint -----------------------------
(***************************************************************************)
(* Software breakpoints (src/src/breakpoint.cpp): Install, ReArm and       *)
(* Remove by clients, and the SIGTRAP handler run by the threads that hit  *)
(* a BKPT.  The handler holds g_bp_mutex; the API functions take no lock.  *)
(* g_bps is the array with its stale tail: bp_handler keeps a reference    *)
(* into it across the callback.                                            *)
(***************************************************************************)
EXTENDS Integers

CONSTANTS
  Threads,
  Addr,           \* Thumb addresses that may get a breakpoint
  Page,           \* the page of every address
  MaxBps,         \* capacity of g_bps (8 in the code)
  Serialized,     \* TRUE: the API is not called while a handler runs
  CallbackCalls,  \* the API functions callbacks call: subset of {"ReArm", "Remove"}
  Duplicates      \* TRUE: a client may install twice at one address

ASSUME BreakpointAssumption ==
  /\ MaxBps \in Nat \ {0}
  /\ CallbackCalls \subseteq {"ReArm", "Remove"}
  /\ {Serialized, Duplicates} \subseteq BOOLEAN

VARIABLES
  code,      \* the halfword at every address
  writable,  \* pages mapped writable
  g_bps, g_bp_count,
  mutex,     \* holder of g_bp_mutex, or Free
  pc, at, ref,  \* per thread: step, faulting address, index of b
  did,       \* per thread: what its callback called
  shots,     \* callbacks since the breakpoint at an address was last armed
  stray,     \* history: addresses a failed or a nested Remove has given up
  crashed

table == <<g_bps, g_bp_count>>
threads == <<pc, at, ref, did>>
vars == <<code, writable, table, mutex, threads, shots, stray, crashed>>

Free == "free"
BKPT == <<"bkpt">>
Insn(a) == <<"insn", a>>       \* what the program has at a
Halfword == {BKPT} \cup {Insn(a) : a \in Addr}
BpRec == [addr : Addr, original : Halfword, active : BOOLEAN]
Bps == 1..MaxBps
Pages == {Page[a] : a \in Addr}

\* Contents of an entry nobody has filled yet.
Unused == CHOOSE r \in BpRec : ~r.active /\ r.original = Insn(r.addr)

Init ==
  /\ code = [a \in Addr |-> Insn(a)]
  /\ writable = {}
  /\ g_bps = [n \in Bps |-> Unused]
  /\ at = [t \in Threads |-> Unused.addr]
  /\ g_bp_count = 0
  /\ mutex = Free
  /\ pc = [t \in Threads |-> "run"]
  /\ ref = [t \in Threads |-> 1]
  /\ did = [t \in Threads |-> "nothing"]
  /\ shots = [a \in Addr |-> 0]
  /\ stray = {}
  /\ crashed = FALSE

\* The first record of an address, 0 if there is none.
First(ns) == IF ns = {} THEN 0 ELSE CHOOSE n \in ns : \A m \in ns : n <= m
FindBp(a) == First({n \in 1..g_bp_count : g_bps[n].addr = a})
FindActive(a) == First({n \in 1..g_bp_count : g_bps[n].addr = a /\ g_bps[n].active})

\* Util::Write, whose result no caller tests: nothing is written when the first mprotect
\* fails; the page is RX after the write, or still RW when the second one fails.
Write(a, hw) ==
  \/ UNCHANGED <<code, writable>>
  \/ /\ code' = [code EXCEPT ![a] = hw]
     /\ writable' \in {writable \ {Page[a]}, writable \cup {Page[a]}}

ClientMay == ~crashed /\ (Serialized => \A t \in Threads : pc[t] = "run")

\* Breakpoint::Install.
Install(a) ==
  /\ ClientMay
  /\ g_bp_count < MaxBps
  /\ ~Duplicates => FindBp(a) = 0
  /\ g_bp_count' = g_bp_count + 1
  /\ g_bps' = [g_bps EXCEPT ![g_bp_count + 1] =
                 [addr |-> a, original |-> code[a], active |-> TRUE]]
  /\ Write(a, BKPT)
  /\ shots' = [shots EXCEPT ![a] = 0]
  /\ UNCHANGED <<mutex, threads, stray, crashed>>

\* What ReArm does to memory and table.
DoReArm(a) ==
  /\ FindBp(a) # 0
  /\ g_bps' = [g_bps EXCEPT ![FindBp(a)].active = TRUE]
  /\ Write(a, BKPT)
  /\ shots' = [shots EXCEPT ![a] = 0]
  /\ UNCHANGED <<g_bp_count, stray>>

RemoveForgetsLast(a) ==
  /\ FindBp(a) # 0
  /\ Write(a, g_bps[FindBp(a)].original)
  /\ g_bp_count' = g_bp_count - 1
  /\ stray' = IF code'[a] = BKPT THEN stray \cup {a} ELSE stray
  /\ UNCHANGED <<g_bps, shots>>

\* What Remove does to memory and table; the record goes even when the BKPT stays.
DoRemove(a) ==
  /\ FindBp(a) # 0
  /\ Write(a, g_bps[FindBp(a)].original)
  /\ g_bps' = [g_bps EXCEPT ![FindBp(a)] = g_bps[g_bp_count]]
  /\ g_bp_count' = g_bp_count - 1
  /\ stray' = IF code'[a] = BKPT THEN stray \cup {a} ELSE stray
  /\ UNCHANGED shots

ReArm(a) == ClientMay /\ DoReArm(a) /\ UNCHANGED <<mutex, threads, crashed>>
Remove(a) == ClientMay /\ DoRemove(a) /\ UNCHANGED <<mutex, threads, crashed>>

\* bp_handler returns; its locals are gone.
Return(t) ==
  /\ pc' = [pc EXCEPT ![t] = "run"]
  /\ at' = [at EXCEPT ![t] = Unused.addr]
  /\ ref' = [ref EXCEPT ![t] = 1]
  /\ did' = [did EXCEPT ![t] = "nothing"]

\* A thread executes a BKPT: SIGTRAP.
Trap(t, a) ==
  /\ ~crashed /\ pc[t] = "run"
  /\ code[a] = BKPT
  /\ pc' = [pc EXCEPT ![t] = "trap"]
  /\ at' = [at EXCEPT ![t] = a]
  /\ UNCHANGED <<code, writable, table, mutex, ref, did, shots, stray, crashed>>

\* bp_handler locks and looks for an active record: the callback is called,
\* or, when there is none, the handler returns to the same instruction.
Handler(t) ==
  LET n == FindActive(at[t])
  IN  /\ ~crashed /\ pc[t] = "trap" /\ mutex = Free
      /\ \/ /\ n = 0
            /\ Return(t)
            /\ UNCHANGED <<mutex, shots>>
         \/ /\ n # 0
            /\ mutex' = t
            /\ pc' = [pc EXCEPT ![t] = "callback"]
            /\ ref' = [ref EXCEPT ![t] = n]
            /\ UNCHANGED <<at, did>>
            /\ shots' = [shots EXCEPT ![at[t]] = @ + 1]
      /\ UNCHANGED <<code, writable, table, stray, crashed>>

\* The callback calls ReArm or Remove on its own address.
Callback(t, call) ==
  /\ ~crashed /\ pc[t] = "callback" /\ did[t] = "nothing"
  /\ call \in CallbackCalls
  /\ \/ call = "ReArm" /\ DoReArm(at[t])
     \/ call = "Remove" /\ DoRemove(at[t])
  /\ did' = [did EXCEPT ![t] = call]
  /\ UNCHANGED <<mutex, pc, at, ref, crashed>>

FinishStaysActive(t) ==
  /\ ~crashed /\ pc[t] = "callback"
  /\ code' = [code EXCEPT ![at[t]] = g_bps[ref[t]].original]
  /\ mutex' = Free
  /\ Return(t)
  /\ UNCHANGED <<writable, table, shots, stray, crashed>>

\* After the callback the original halfword is stored through the pointer, with no mprotect, and
\* the record behind b is made inactive: another address's, when the callback's Remove has moved
\* the last record there.
Finish(t) ==
  /\ ~crashed /\ pc[t] = "callback"
  /\ \/ /\ Page[at[t]] \in writable
        /\ code' = [code EXCEPT ![at[t]] = g_bps[ref[t]].original]
        /\ g_bps' = [g_bps EXCEPT ![ref[t]].active = FALSE]
        /\ mutex' = Free
        /\ Return(t)
        /\ stray' = IF g_bps[ref[t]].addr = at[t] THEN stray
                    ELSE stray \cup {at[t], g_bps[ref[t]].addr}
        /\ UNCHANGED crashed
     \/ /\ Page[at[t]] \notin writable
        /\ crashed' = TRUE
        /\ UNCHANGED <<code, g_bps, mutex, threads, stray>>
  /\ UNCHANGED <<writable, g_bp_count, shots>>

\* The host calls DobbyMemoryProtect(RWX) on a page of its code.
MemoryProtect(p) ==
  /\ ~crashed
  /\ p \notin writable
  /\ writable' = writable \cup {p}
  /\ UNCHANGED <<code, table, mutex, threads, shots, stray, crashed>>

Next ==
  \/ \E a \in Addr : Install(a) \/ ReArm(a) \/ Remove(a)
  \/ \E t \in Threads : \/ Handler(t) \/ Finish(t)
                        \/ \E a \in Addr : Trap(t, a)
                        \/ \E call \in CallbackCalls : Callback(t, call)
  \/ \E p \in Pages : MemoryProtect(p)

Spec == Init /\ [][Next]_vars

\* Threads in the handler keep running; the mutex is not starved.
FairSpec == Spec /\ \A t \in Threads : SF_vars(Handler(t)) /\ WF_vars(Finish(t))
-----------------------------------------------------------------------------
\* Every variable has its type; the count stays within the array.
TypeOK ==
  /\ code \in [Addr -> Halfword]
  /\ writable \subseteq Pages
  /\ g_bps \in [Bps -> BpRec] /\ g_bp_count \in 0..MaxBps
  /\ mutex \in Threads \cup {Free}
  /\ pc \in [Threads -> {"run", "trap", "callback"}]
  /\ at \in [Threads -> Addr] /\ ref \in [Threads -> Bps]
  /\ did \in [Threads -> {"nothing", "ReArm", "Remove"}]
  /\ shots \in [Addr -> Nat]
  /\ stray \subseteq Addr
  /\ crashed \in BOOLEAN

\* A BKPT in the code belongs to an active record that knows the instruction under it, and
\* everywhere else the program is intact, through any sequence of installs, hits by several
\* threads, re-arming, removals and failing writes.  The damage of the two flaws of Remove is
\* confined to its own addresses: where the restoring write failed, and, when a callback
\* removes its breakpoint, the trapping address and the one whose record took that place.
CodeOwned ==
  \A a \in Addr \ stray :
    \/ code[a] = Insn(a)
    \/ /\ code[a] = BKPT
       /\ \E n \in 1..g_bp_count : g_bps[n] = [addr |-> a, original |-> Insn(a), active |-> TRUE]

\* breakpoint.h line 10: the same for every address; Remove leaves nothing behind.
NothingStray == stray = {}

\* A breakpoint fires once per arming (breakpoint.h line 7), also when several
\* threads have hit it before the first of them gets the mutex.
OneShot == \A a \in Addr : shots[a] <= 1

\* A thread that trapped leaves the handler (or the process has died), though
\* callbacks re-arm and remove breakpoints and clients call concurrently.
HandlerReturns == \A t \in Threads : pc[t] # "run" ~> (pc[t] = "run" \/ crashed)

\* breakpoint.cpp line 80: the handler restores the original instruction and
\* execution goes on with it.
HandlerSurvives == ~crashed

\* breakpoint.cpp line 87: a callback may ReArm its one-shot breakpoint.
RearmedStaysArmed ==
  [][\A t \in Threads : Finish(t) /\ did[t] = "ReArm" => code'[at[t]] = BKPT]_vars

\* breakpoint.h line 10: Remove restores the original instruction.
RemoveRestores == [][\A a \in Addr : Remove(a) => code'[a] = Insn(a)]_vars

\* breakpoint.cpp line 80: what the handler stores is the original
\* instruction of the address that trapped.
RestoresOwnInstruction ==
  [][\A t \in Threads : Finish(t) => code'[at[t]] \in {Insn(at[t]), BKPT}]_vars
=============================================================================
