---------------------- MODULE EngineProtectionProofs ----------------------
(***************************************************************************)
(* Every page has its protection back once no patch is in flight: the      *)
(* argument is about the pages of the patches in flight, on top of the     *)
(* invariant of EngineProofs.                                              *)
(***************************************************************************)
EXTENDS EngineProofs

\* Targets and user code are on different pages, callers of DobbyCodePatch
\* keep their patches apart, at most one mprotect call fails, and on Android
\* targets lie in r-x pages, as make_memory_readable takes for granted.
Paged ==
  /\ MaxFaults <= 1 /\ CallersSerialise = TRUE
  /\ \A c \in Targets, d \in UserCells : \A i \in DOMAIN PagesOf[c], j \in DOMAIN PagesOf[d] :
       PagesOf[c][i] # PagesOf[d][j]
  /\ \A b \in Builds : b[2] = TRUE =>
       \A c \in Targets : InitProt[Head(PagesOf[c])] = {"r", "x"}

OnPage(r, q) == \E i \in DOMAIN PagesOf[r.p.cell] : PagesOf[r.p.cell][i] = q

\* What a patch p at pc knows of its pages, with protections now and n faults.
PagesAre(pc, p, now, n) ==
  LET pages == PagesOf[p.cell] IN
  /\ pc = "maps" => \A i \in DOMAIN pages : now[pages[i]] = InitProt[pages[i]]
  /\ pc # "maps" => \A i \in DOMAIN pages : p.saved[i] = InitProt[pages[i]]
  /\ pc \in {"maps", "unprotect", "write"} => p.bad = FALSE
  /\ pc = "protect" /\ p.bad = FALSE =>
       \A i \in DOMAIN pages : i < p.k => now[pages[i]] = InitProt[pages[i]]
  /\ pc = "protect" /\ p.bad = TRUE => n = MaxFaults
  /\ pc \in {"reopen", "rollback", "giveup"} => n = MaxFaults

ProtInv ==
  /\ <<arch, android>> \in Builds /\ faults <= MaxFaults
  /\ \A t, v \in Threads : th[t].op = "patch" /\ th[v].op = "patch" => t = v
  /\ \A t \in Threads : th[t].pc \in Patching => PagesAre(th[t].pc, th[t].p, prot, faults)
  /\ \A q \in DOMAIN InitProt :
       (\A t \in Threads : th[t].pc \in Patching => ~OnPage(th[t], q)) => prot[q] = InitProt[q]

\* Two patches in flight are on different pages: one is the holder's, the
\* other is the user's.
LEMMA PatchesApart ==
  ASSUME Paged, EngineInv, ProtInv, NEW t \in Threads, NEW v \in Threads, t # v,
         th[t].pc \in Patching, th[v].pc \in Patching, NEW q, OnPage(th[t], q)
  PROVE  ~OnPage(th[v], q)
<1>1. CallOK(th[t]) /\ CallOK(th[v]) /\ (Holds(th[t]) => lock = t) /\ (Holds(th[v]) => lock = v)
  BY Zenon DEF EngineInv, CallInv
<1>2. \/ th[t].p.cell \in UserCells /\ th[v].p.cell \in Targets
      \/ th[t].p.cell \in Targets /\ th[v].p.cell \in UserCells
  BY Zenon, <1>1 DEF CallOK, Holds, ProtInv
<1> QED
  BY <1>2 DEF Paged, OnPage

\* A step of t that changes only pages of its own patch, or puts protections
\* back.
LEMMA ProtStep ==
  ASSUME Paged, EngineInv, ProtInv, EngineInv', NEW t \in Threads, Others(t),
         UNCHANGED build, faults' >= faults, faults' <= MaxFaults,
         th'[t].op = "patch" => \A v \in Threads \ {t} : th[v].op # "patch",
         th[t].pc \in Patching /\ th'[t].pc \in Patching => th'[t].p.cell = th[t].p.cell,
         \A q \in DOMAIN InitProt : prot'[q] # prot[q] /\ prot'[q] # InitProt[q] =>
           th[t].pc \in Patching /\ OnPage(th[t], q),
         th[t].pc \in Patching /\ th'[t].pc \notin Patching =>
           \A q \in DOMAIN InitProt : OnPage(th[t], q) => prot'[q] = InitProt[q],
         th'[t].pc \in Patching => PagesAre(th'[t].pc, th'[t].p, prot', faults')
  PROVE  ProtInv'
<1>1. <<arch, android>>' \in Builds /\ (faults <= MaxFaults)'
  BY Zenon DEF ProtInv, build
<1>2. \A u, v \in Threads : th'[u].op = "patch" /\ th'[v].op = "patch" => u = v
  BY Zenon DEF ProtInv, Others
<1>3. ASSUME NEW u \in Threads, th'[u].pc \in Patching
      PROVE  PagesAre(th'[u].pc, th'[u].p, prot', faults')
  <2>1. CASE u = t
    BY Zenon, <1>3, <2>1
  <2>2. CASE u # t
    <3> DEFINE p == th[u].p
    <3>1. th'[u] = th[u] /\ PagesAre(th[u].pc, p, prot, faults) /\ p.cell \in Cells
      BY Zenon, <1>3, <2>2, InFlight DEF Others, ProtInv
    <3>2. \A i \in DOMAIN PagesOf[p.cell] :
            PagesOf[p.cell][i] \in DOMAIN InitProt /\ OnPage(th[u], PagesOf[p.cell][i])
      BY <3>1, EngineAssumption DEF OnPage
    <3>3. \A i \in DOMAIN PagesOf[p.cell] :
            LET q == PagesOf[p.cell][i] IN prot[q] = InitProt[q] => prot'[q] = InitProt[q]
      BY Zenon, <1>3, <2>2, <3>1, <3>2, PatchesApart
    <3>4. faults = MaxFaults => faults' = MaxFaults
      BY EngineAssumption DEF EngineInv, TypeInv
    <3> HIDE DEF p
    <3>5. PagesAre(th[u].pc, p, prot', faults')
      BY Zenon, <3>1, <3>3, <3>4 DEF PagesAre
    <3> QED
      BY Zenon, <3>1, <3>5 DEF p
  <2> QED
    BY Zenon, <2>1, <2>2
<1>4. ASSUME NEW q \in DOMAIN InitProt, \A u \in Threads : th'[u].pc \in Patching => ~OnPage(th'[u], q)
      PROVE  prot'[q] = InitProt[q]
  <2>1. CASE th[t].pc \in Patching /\ OnPage(th[t], q)
    <3>1. th'[t].pc \notin Patching
      BY Zenon, <1>4, <2>1 DEF OnPage
    <3> QED
      BY Zenon, <2>1, <3>1
  <2>2. CASE ~(th[t].pc \in Patching /\ OnPage(th[t], q))
    <3>1. \A u \in Threads : th[u].pc \in Patching => ~OnPage(th[u], q)
      BY Zenon, <1>4, <2>2 DEF Others
    <3>2. prot[q] = InitProt[q]
      BY Zenon, <3>1 DEF ProtInv
    <3> QED
      BY Zenon, <2>2, <3>2
  <2> QED
    BY Zenon, <2>1, <2>2
<1>5. \A q \in DOMAIN InitProt' :
        (\A u \in Threads : th'[u].pc \in Patching => ~OnPage(th'[u], q)) => prot'[q] = InitProt[q]
  BY Zenon, <1>4
<1> QED
  BY Zenon, <1>1, <1>2, <1>3, <1>5 DEF ProtInv, OnPage

\* A step of the patch of t, which goes on at pc as q.
LEMMA PatchProt ==
  ASSUME Paged, EngineInv, ProtInv, EngineInv', NEW t \in Threads, th[t].pc \in Patching,
         NEW pc, NEW ret, NEW q, Moves(t, pc, ret, q), q.cell = th[t].p.cell,
         UNCHANGED build, faults' >= faults, faults' <= MaxFaults,
         \A x \in DOMAIN InitProt : ~OnPage(th[t], x) => prot'[x] = prot[x],
         pc \notin Patching => \A i \in DOMAIN Pages(t) : prot'[Pages(t)[i]] = InitProt[Pages(t)[i]],
         pc \in Patching => PagesAre(pc, q, prot', faults')
  PROVE  ProtInv'
<1>1. Others(t) /\ th'[t].op = th[t].op /\ th'[t].pc = pc /\ th'[t].p = q
  BY Zenon DEF Moves, Keeps
<1>2. th'[t].op = "patch" => \A v \in Threads \ {t} : th[v].op # "patch"
  BY Zenon, <1>1 DEF ProtInv
<1>3. pc \notin Patching => \A x \in DOMAIN InitProt : OnPage(th[t], x) => prot'[x] = InitProt[x]
  BY Zenon DEF OnPage, Pages
<1> QED
  BY Zenon, <1>1, <1>2, <1>3, ProtStep

\* Steps that are no part of a patch, before or after.
LEMMA PlainProt ==
  ASSUME Paged, EngineInv, ProtInv, EngineInv', NEW t \in Threads, Others(t),
         th[t].pc \notin Patching, th'[t].pc \notin Patching, th'[t].op # "patch",
         UNCHANGED <<build, faults>>,
         \A q \in DOMAIN InitProt : prot'[q] = prot[q] \/ prot'[q] = InitProt[q]
  PROVE  ProtInv'
<1>1. faults' = faults /\ faults \in Nat /\ faults <= MaxFaults
  BY Zenon DEF EngineInv, TypeInv, ProtInv
<1>2. faults' >= faults /\ faults' <= MaxFaults
  BY <1>1, EngineAssumption
<1> QED
  BY Zenon, <1>2, ProtStep

\* A patch begins while no other is on its pages.
LEMMA BeginProt ==
  ASSUME Paged, EngineInv, ProtInv, EngineInv', NEW t \in Threads, Others(t),
         th[t].pc \notin Patching, th'[t].pc = "maps", th'[t].p.bad = FALSE,
         th'[t].op = "patch" => \A v \in Threads \ {t} : th[v].op # "patch",
         UNCHANGED <<build, faults, prot>>
  PROVE  ProtInv'
<1> DEFINE c == th'[t].p.cell
<1>1. CallOK(th'[t]) /\ (Holds(th'[t]) => lock' = t) /\ "maps" \in Patching
  BY Zenon DEF EngineInv, CallInv, Patching
<1>2. ASSUME NEW v \in Threads \ {t}, th[v].pc \in Patching,
             NEW i \in DOMAIN PagesOf[c], OnPage(th[v], PagesOf[c][i])
      PROVE  FALSE
  <2>1. th'[v] = th[v] /\ CallOK(th[v]) /\ (Holds(th'[v]) => lock' = v)
    BY Zenon, <1>2 DEF Others, EngineInv, CallInv
  <2>2. \/ c \in UserCells /\ th[v].p.cell \in Targets
        \/ c \in Targets /\ th[v].p.cell \in UserCells
    BY Zenon, <1>1, <1>2, <2>1 DEF CallOK, Holds
  <2> QED
    BY <1>2, <2>2 DEF Paged, OnPage
<1>3. c \in Cells
  BY Zenon, <1>1 DEF CallOK, Cells, Holds
<1>4. \A i \in DOMAIN PagesOf[c] : prot[PagesOf[c][i]] = InitProt[PagesOf[c][i]]
  <2>1. \A i \in DOMAIN PagesOf[c] : PagesOf[c][i] \in DOMAIN InitProt
    BY <1>3, EngineAssumption
  <2>2. \A i \in DOMAIN PagesOf[c] : \A v \in Threads : th[v].pc \in Patching => ~OnPage(th[v], PagesOf[c][i])
    BY Zenon, <1>2
  <2> HIDE DEF c
  <2> QED
    BY Zenon, <2>1, <2>2 DEF ProtInv
<1>5. PagesAre(th'[t].pc, th'[t].p, prot', faults')
  BY Zenon, <1>4 DEF PagesAre
<1>6. faults' = faults /\ faults \in Nat /\ faults <= MaxFaults
  BY Zenon DEF EngineInv, TypeInv, ProtInv
<1>7. faults' >= faults /\ faults' <= MaxFaults
  BY <1>6, EngineAssumption
<1> QED
  BY Zenon, <1>5, <1>7, ProtStep

\* Calls of DobbyHook, DobbyInstrument and DobbyCodePatch.
LEMMA CallProt ==
  ASSUME Paged, EngineInv, ProtInv, EngineInv', NEW t \in Threads, Call(t)
  PROVE  ProtInv'
<1>1. th[t].pc = "idle" /\ th[t].pc \notin Patching /\ UNCHANGED <<build, faults, prot>>
  BY Zenon DEF Call, StartHook, StartInstrument, StartPatch, Patching
<1>2. CASE StartHook(t) \/ StartInstrument(t)
  <2>1. /\ Others(t) /\ th'[t].pc = "readable" /\ th'[t].op \in {"hook", "instrument"}
    <3>1. th \in [Threads -> ThreadRec]
      BY Zenon DEF EngineInv, TypeInv
    <3>2. CASE StartHook(t)
      BY ZenonT(30), <3>1, <3>2 DEF StartHook, Others, Idle
    <3>3. CASE StartInstrument(t)
      BY ZenonT(30), <3>1, <3>3 DEF StartInstrument, Others, Idle
    <3> QED
      BY Zenon, <1>2, <3>2, <3>3
  <2>2. th'[t].pc \notin Patching /\ th'[t].op # "patch"
    BY Zenon, <2>1 DEF Patching
  <2> QED
    BY Zenon, <1>1, <2>1, <2>2, PlainProt
<1>3. CASE StartPatch(t)
  <2>1. PICK c \in UserCells :
          th' = [th EXCEPT ![t] = [Idle EXCEPT !.pc = "maps", !.op = "patch",
                                               !.p = Patch(c, FALSE, UserCode(c), "done")]]
    BY Zenon, <1>3 DEF StartPatch
  <2>2. Others(t) /\ th'[t].pc = "maps" /\ th'[t].p = Patch(c, FALSE, UserCode(c), "done")
    BY Zenon, <2>1 DEF EngineInv, TypeInv, Others, Idle
  <2>3. th'[t].p.bad = FALSE
    BY Zenon, <2>2 DEF Patch, NoPatch
  <2>4. \A v \in Threads : th[v].op # "patch"
    BY Zenon, <1>3 DEF StartPatch, Paged
  <2> QED
    BY Zenon, <1>1, <2>2, <2>3, <2>4, BeginProt
<1> QED
  BY Zenon, <1>2, <1>3 DEF Call

\* Steps of a hook before and after its patches.
LEMMA RoutingProt ==
  ASSUME Paged, EngineInv, ProtInv, EngineInv', NEW t \in Threads,
         Lock(t) \/ Find(t) \/ BuildRouting(t) \/ Commit(t) \/ Drop(t)
  PROVE  ProtInv'
<1>1. /\ UNCHANGED <<build, faults, prot>>
      /\ th[t].pc \in {"lock", "find", "build", "activated", "drop"}
  BY Zenon DEF Lock, Find, BuildRouting, Commit, Drop, tables
<1>2. th[t] \in ThreadRec /\ th \in [Threads -> ThreadRec]
  BY Zenon DEF EngineInv, TypeInv
<1>3. /\ Others(t) /\ th'[t].op = th[t].op
      /\ th'[t].pc \in {"find", "build", "active", "drop", "done"}
  <2>1. CASE Lock(t)
    <3>1. Others(t) /\ th'[t] = [th[t] EXCEPT !.pc = "find"]
      BY Zenon, <1>2, <2>1 DEF Lock, Goto, Others
    <3> QED
      BY Zenon, <1>2, <3>1 DEF ThreadRec
  <2>2. CASE Find(t)
    <3>1. /\ Others(t)
          /\ \/ th'[t] = [th[t] EXCEPT !.pc = "done", !.ret = -1]
             \/ th'[t] = [th[t] EXCEPT !.pc = "build", !.entry = NewEntry(th[t].target)]
      BY Zenon, <1>2, <2>2 DEF Find, Unlock, Others
    <3> QED
      BY Zenon, <1>2, <3>1 DEF ThreadRec
  <2>3. CASE BuildRouting(t)
    <3>1. /\ Others(t)
          /\ \/ \E x, y : th'[t] = [th[t] EXCEPT !.pc = "active", !.tramp = x, !.entry = y]
             \/ \E y : th'[t] = [th[t] EXCEPT !.pc = "drop", !.entry = y]
      <4>1. \/ \E x, y : th' = [th EXCEPT ![t].pc = "active", ![t].tramp = x, ![t].entry = y]
            \/ \E y : th' = [th EXCEPT ![t].pc = "drop", ![t].entry = y]
        BY Zenon, <2>3 DEF BuildRouting
      <4>2. CASE \E x, y : th' = [th EXCEPT ![t].pc = "active", ![t].tramp = x, ![t].entry = y]
        <5>1. PICK x, y : th' = [th EXCEPT ![t].pc = "active", ![t].tramp = x, ![t].entry = y]
          BY Zenon, <4>2
        <5>2. Others(t) /\ th'[t] = [th[t] EXCEPT !.pc = "active", !.tramp = x, !.entry = y]
          BY Zenon, <1>2, <5>1 DEF Others
        <5> QED
          BY Zenon, <5>2
      <4>3. CASE \E y : th' = [th EXCEPT ![t].pc = "drop", ![t].entry = y]
        BY Zenon, <1>2, <4>3 DEF Others
      <4> QED
        BY Zenon, <4>1, <4>2, <4>3
    <3> QED
      BY Zenon, <1>2, <3>1 DEF ThreadRec
  <2>4. CASE Commit(t) \/ Drop(t)
    <3>1. Others(t) /\ \E r : th'[t] = [th[t] EXCEPT !.pc = "done", !.ret = r]
      BY Zenon, <1>2, <2>4 DEF Commit, Drop, Unlock, Others
    <3> QED
      BY Zenon, <1>2, <3>1 DEF ThreadRec
  <2> QED
    BY Zenon, <2>1, <2>2, <2>3, <2>4
<1>4. th[t].op # "patch"
  BY Zenon, <1>1 DEF EngineInv, CallInv, CallOK, Holds, Routing
<1>5. th[t].pc \notin Patching /\ th'[t].pc \notin Patching
  BY Zenon, <1>1, <1>3 DEF Patching
<1> QED
  BY Zenon, <1>1, <1>3, <1>4, <1>5, PlainProt

\* The trampoline, or the backup, is about to be written to the target.
LEMMA ActiveProt ==
  ASSUME Paged, EngineInv, ProtInv, EngineInv', NEW t \in Threads, Active(t) \/ RestoreOrigCode(t)
  PROVE  ProtInv'
<1>1. UNCHANGED <<build, faults, prot>> /\ th[t].pc \in {"active", "activated"}
  BY Zenon DEF Active, RestoreOrigCode
<1>2. /\ Others(t) /\ th'[t].op = th[t].op /\ th'[t].pc = "maps"
      /\ \E c, odd, bytes, next : th'[t].p = Patch(c, odd, bytes, next)
  <2>1. th[t] \in ThreadRec /\ th \in [Threads -> ThreadRec]
    BY Zenon DEF EngineInv, TypeInv
  <2>2. PICK c, odd, bytes, next :
          th' = [th EXCEPT ![t].pc = "maps", ![t].p = Patch(c, odd, bytes, next)]
    <3>1. CASE Active(t)
      BY Zenon, <3>1 DEF Active
    <3>2. CASE RestoreOrigCode(t)
      BY Zenon, <3>2 DEF RestoreOrigCode
    <3> QED
      BY Zenon, <3>1, <3>2
  <2> DEFINE q == Patch(c, odd, bytes, next)
  <2> HIDE DEF q
  <2>3. Others(t) /\ th'[t] = [th[t] EXCEPT !.pc = "maps", !.p = q]
    BY Zenon, <2>1, <2>2 DEF Others, q
  <2>4. th'[t].op = th[t].op /\ th'[t].pc = "maps" /\ th'[t].p = q
    BY Zenon, <2>1, <2>3 DEF ThreadRec
  <2> QED
    BY <2>3, <2>4 DEF q
<1>3. th'[t].p.bad = FALSE
  BY Zenon, <1>2 DEF Patch, NoPatch
<1>4. th[t].op # "patch"
  BY Zenon, <1>1 DEF EngineInv, CallInv, CallOK, Holds, Routing
<1>5. th[t].pc \notin Patching
  BY Zenon, <1>1 DEF Patching
<1> QED
  BY Zenon, <1>1, <1>2, <1>3, <1>4, <1>5, BeginProt

\* make_memory_readable, and the return to the caller.
LEMMA ReadableProt ==
  ASSUME Paged, EngineInv, ProtInv, EngineInv', NEW t \in Threads,
         make_memory_readable(t) \/ Leave(t)
  PROVE  ProtInv'
<1>1. CASE make_memory_readable(t)
  <2>1. /\ th[t].pc = "readable" /\ th'[t].pc = "lock" /\ th'[t].op = th[t].op /\ Others(t)
        /\ UNCHANGED <<build, faults>>
    BY Zenon, <1>1 DEF make_memory_readable, Goto, Others, EngineInv, TypeInv, ThreadRec
  <2>2. th[t].op # "patch" /\ th[t].target \in Targets
    BY Zenon, <2>1 DEF EngineInv, CallInv, CallOK, Holds
  <2>3. android = TRUE => InitProt[Head(PagesOf[th[t].target])] = {"r", "x"}
    BY Zenon, <2>2 DEF Paged, ProtInv
  <2>4. \A q \in DOMAIN InitProt : prot'[q] = prot[q] \/ prot'[q] = InitProt[q]
    BY Zenon, <1>1, <2>3 DEF make_memory_readable, EngineInv, TypeInv
  <2>5. th[t].pc \notin Patching /\ th'[t].pc \notin Patching
    BY Zenon, <2>1 DEF Patching
  <2> QED
    BY Zenon, <2>1, <2>2, <2>4, <2>5, PlainProt
<1>2. CASE Leave(t)
  <2>1. /\ th[t].pc = "done" /\ th'[t] = Idle /\ Others(t)
        /\ UNCHANGED <<build, faults, prot>>
    BY Zenon, <1>2 DEF Leave, Others, EngineInv, TypeInv
  <2>2. th[t].pc \notin Patching /\ th'[t].pc \notin Patching /\ th'[t].op # "patch"
    BY <2>1 DEF Patching, Idle, None
  <2> QED
    BY Zenon, <2>1, <2>2, PlainProt
<1> QED
  BY Zenon, <1>1, <1>2

\* With at most one fault, the first is the last.
LEMMA LastFault ==
  ASSUME Paged, EngineInv, ProtInv
  PROVE  /\ Fail => faults' = MaxFaults /\ faults' >= faults /\ faults' <= MaxFaults
         /\ faults' = faults => faults' >= faults /\ faults' <= MaxFaults
         /\ faults = MaxFaults => ~Fail
<1>1. faults \in Nat /\ faults <= MaxFaults /\ MaxFaults \in Nat /\ MaxFaults <= 1
  BY Zenon, EngineAssumption DEF EngineInv, TypeInv, ProtInv, Paged
<1> QED
  BY <1>1 DEF Fail

\* The protections are read.
LEMMA ReadMapsProt ==
  ASSUME Paged, EngineInv, ProtInv, EngineInv', NEW t \in Threads, ReadMaps(t)
  PROVE  ProtInv'
<1> DEFINE p == th[t].p
           saved == [i \in DOMAIN Pages(t) |-> prot[Pages(t)[i]]]
           q == [p EXCEPT !.k = 1, !.saved = saved, !.old = ReadAt(p.cell, p.odd)]
<1>1. /\ th[t].pc = "maps" /\ th[t].pc \in Patching /\ UNCHANGED <<build, prot>>
  BY Zenon DEF ReadMaps, Patching, Same
<1>2. PagesAre("maps", p, prot, faults)
  BY Zenon, <1>1 DEF ProtInv
<1>3. p \in PatchRec /\ p.next \in {"done", "activated", "drop"}
  BY Zenon, <1>1, InFlight
<1>4. CASE Moves(t, "unprotect", th[t].ret, q) /\ faults' = faults
  <2>1. q.cell = p.cell /\ q.saved = saved /\ q.bad = p.bad
    BY Zenon, <1>3 DEF PatchRec
  <2> HIDE DEF q
  <2>2. PagesAre("unprotect", q, prot', faults')
    BY Zenon, <1>2, <2>1 DEF PagesAre, Pages
  <2>3. "unprotect" \in Patching
    BY Zenon DEF Patching
  <2> QED
    BY Zenon, <1>1, <1>4, <2>1, <2>2, <2>3, LastFault, PatchProt
<1>5. CASE Fail /\ Moves(t, p.next, -1, p)
  <2>1. p.next \notin Patching
    BY Zenon, <1>3 DEF Patching
  <2>2. \A i \in DOMAIN Pages(t) : prot'[Pages(t)[i]] = InitProt[Pages(t)[i]]
    BY Zenon, <1>1, <1>2 DEF PagesAre, Pages
  <2> QED
    BY Zenon, <1>1, <1>5, <2>1, <2>2, LastFault, PatchProt
<1> QED
  BY Zenon, <1>4, <1>5, ReadMapsEffect

\* A page becomes writable, or the patch gives up.
LEMMA UnprotectProt ==
  ASSUME Paged, EngineInv, ProtInv, EngineInv', NEW t \in Threads, Unprotect(t)
  PROVE  ProtInv'
<1> DEFINE p == th[t].p
           q == [p EXCEPT !.k = p.k + 1]
<1>1. /\ th[t].pc = "unprotect" /\ th[t].pc \in Patching /\ UNCHANGED build
  BY Zenon DEF Unprotect, Patching, Same
<1>2. PagesAre("unprotect", p, prot, faults)
  BY Zenon, <1>1 DEF ProtInv
<1>3. p \in PatchRec /\ p.k \in DOMAIN Pages(t)
  BY Zenon, <1>1, InFlight DEF EngineInv, CallInv, CallOK, Pages
<1>4. \A x \in DOMAIN InitProt : ~OnPage(th[t], x) =>
        [prot EXCEPT ![Page(t)] = p.saved[p.k] \cup {"w"}][x] = prot[x]
  BY Zenon, <1>3 DEF EngineInv, TypeInv, OnPage, Page, Pages
<1>5. q.cell = p.cell /\ q.saved = p.saved /\ q.bad = p.bad
  BY Zenon, <1>3 DEF PatchRec
<1>6. {"unprotect", "write", "giveup"} \subseteq Patching
  BY Zenon DEF Patching
<1> HIDE DEF q
<1>7. /\ PagesAre("unprotect", q, prot', faults')
      /\ PagesAre("write", p, prot', faults')
      /\ faults' = MaxFaults => PagesAre("giveup", p, prot', faults')
  BY Zenon, <1>2, <1>5 DEF PagesAre
<1>8. CASE /\ prot' = [prot EXCEPT ![Page(t)] = p.saved[p.k] \cup {"w"}] /\ faults' = faults
           /\ Moves(t, "write", th[t].ret, p)
  BY Zenon, <1>1, <1>4, <1>6, <1>7, <1>8, LastFault, PatchProt
<1>9. CASE /\ prot' = [prot EXCEPT ![Page(t)] = p.saved[p.k] \cup {"w"}] /\ faults' = faults
           /\ Moves(t, "unprotect", th[t].ret, q)
  BY Zenon, <1>1, <1>4, <1>5, <1>6, <1>7, <1>9, LastFault, PatchProt
<1>10. CASE Fail /\ Moves(t, "giveup", th[t].ret, p) /\ prot' = prot
  BY Zenon, <1>1, <1>6, <1>7, <1>10, LastFault, PatchProt
<1> QED
  BY Zenon, <1>8, <1>9, <1>10, UnprotectEffect DEF q

\* The bytes are written, or the old ones written back; no protection changes.
LEMMA WriteProt ==
  ASSUME Paged, EngineInv, ProtInv, EngineInv', NEW t \in Threads, WriteBytes(t) \/ RollBack(t)
  PROVE  ProtInv'
<1> DEFINE p == th[t].p
           q == [p EXCEPT !.k = 1]
<1>1. th[t].pc \in {"write", "rollback"} /\ th[t].pc \in Patching /\ UNCHANGED <<build, prot, faults>>
  BY Zenon DEF WriteBytes, RollBack, Patching, Same
<1>2. PagesAre(th[t].pc, p, prot, faults)
  BY Zenon, <1>1 DEF ProtInv
<1>3. p \in PatchRec
  BY Zenon, <1>1, InFlight
<1>4. q.cell = p.cell /\ q.saved = p.saved /\ q.bad = p.bad /\ q.k = 1
  BY Zenon, <1>3 DEF PatchRec
<1> HIDE DEF q
<1>5. CASE th' = th
  BY Zenon, <1>1, <1>5 DEF ProtInv, build, OnPage
<1>6. CASE th[t].pc = "write" /\ Moves(t, "protect", th[t].ret, q)
  <2>1. \A i \in DOMAIN Pages(t) : ~(i < 1)
    BY <1>1, InFlight
  <2>2. PagesAre("protect", q, prot', faults')
    BY Zenon, <1>2, <1>4, <1>6, <2>1 DEF PagesAre, Pages
  <2>3. "protect" \in Patching
    BY Zenon DEF Patching
  <2> QED
    BY Zenon, <1>1, <1>4, <1>6, <2>2, <2>3, LastFault, PatchProt
<1>7. CASE th[t].pc = "rollback" /\ Moves(t, "giveup", th[t].ret, p)
  <2>1. PagesAre("giveup", p, prot', faults')
    BY Zenon, <1>1, <1>2, <1>7 DEF PagesAre
  <2>2. "giveup" \in Patching
    BY Zenon DEF Patching
  <2> QED
    BY Zenon, <1>1, <1>7, <2>1, <2>2, LastFault, PatchProt
<1>8. WriteBytes(t) => th[t].pc = "write"
  BY Zenon DEF WriteBytes
<1>9. RollBack(t) => th[t].pc = "rollback"
  BY Zenon DEF RollBack
<1> QED
  BY Zenon, <1>5, <1>6, <1>7, <1>8, <1>9, WriteEffect, RestoreEffects DEF q

\* A page gets back what was saved of it, or its mprotect fails.
LEMMA ProtectProt ==
  ASSUME Paged, EngineInv, ProtInv, EngineInv', NEW t \in Threads, Protect(t)
  PROVE  ProtInv'
<1> DEFINE p == th[t].p
           pages == Pages(t)
<1>1. th[t].pc = "protect" /\ th[t].pc \in Patching /\ UNCHANGED build
  BY Zenon DEF Protect, Patching, Same
<1>2. PagesAre("protect", p, prot, faults)
  BY Zenon, <1>1 DEF ProtInv
<1>3. /\ p \in PatchRec /\ p.k \in DOMAIN pages /\ p.next \in {"done", "activated", "drop"}
      /\ DOMAIN pages = 1 .. Len(pages) /\ Len(pages) \in Nat /\ p.bad \in BOOLEAN
      /\ \A i \in DOMAIN pages : pages[i] \in DOMAIN InitProt
  <2>1. p \in PatchRec /\ p.next \in {"done", "activated", "drop"} /\ pages \in Seq(DOMAIN InitProt)
    BY Zenon, <1>1, InFlight
  <2>2. p.k \in DOMAIN pages
    BY Zenon, <1>1 DEF EngineInv, CallInv, CallOK, Pages
  <2>3. p.bad \in BOOLEAN
    BY Zenon, <2>1 DEF PatchRec
  <2>4. DOMAIN pages = 1 .. Len(pages) /\ Len(pages) \in Nat /\ \A i \in DOMAIN pages : pages[i] \in DOMAIN InitProt
    BY ZenonT(30), <2>1, LenProperties
  <2> QED
    BY Zenon, <2>1, <2>2, <2>3, <2>4
<1>4. PICK ok \in BOOLEAN :
        /\ IF ok THEN faults' = faults ELSE Fail
        /\ prot' = IF ok THEN [prot EXCEPT ![Page(t)] = p.saved[p.k]] ELSE prot
        /\ \/ /\ p.k < Len(pages)
              /\ Moves(t, "protect", th[t].ret, [p EXCEPT !.k = p.k + 1, !.bad = (p.bad \/ ~ok)])
           \/ /\ ~(p.k < Len(pages)) /\ (p.bad \/ ~ok)
              /\ Moves(t, "reopen", th[t].ret, p)
           \/ /\ ~(p.k < Len(pages)) /\ ~(p.bad \/ ~ok)
              /\ Moves(t, p.next, 0, p)
  BY Zenon, ProtectEffect
<1> DEFINE q == [p EXCEPT !.k = p.k + 1, !.bad = (p.bad \/ ~ok)]
<1>5. \A x \in DOMAIN InitProt : ~OnPage(th[t], x) => prot'[x] = prot[x]
  BY Zenon, <1>3, <1>4 DEF EngineInv, TypeInv, OnPage, Page, Pages
<1>6. faults' >= faults /\ faults' <= MaxFaults /\ (p.bad \/ ~ok => faults' = MaxFaults)
  <2>1. p.bad => faults = MaxFaults
    BY Zenon, <1>2, <1>3 DEF PagesAre
  <2> QED
    BY Zenon, <1>4, <2>1, LastFault
<1>7. ~(p.bad \/ ~ok) => \A i \in DOMAIN pages : i <= p.k => prot'[pages[i]] = InitProt[pages[i]]
  <2> SUFFICES ASSUME p.bad = FALSE, ok = TRUE, NEW i \in DOMAIN pages, i <= p.k
               PROVE  prot'[pages[i]] = InitProt[pages[i]]
    BY Zenon, <1>3
  <2>1. i < p.k \/ i = p.k
    BY <1>3
  <2>2. p.saved[p.k] = InitProt[pages[p.k]] /\ (i < p.k => prot[pages[i]] = InitProt[pages[i]])
    BY Zenon, <1>2, <1>3 DEF PagesAre, Pages
  <2>3. prot' = [prot EXCEPT ![pages[p.k]] = p.saved[p.k]]
    BY Zenon, <1>4 DEF Page, Pages
  <2> QED
    BY Zenon, <1>3, <2>1, <2>2, <2>3 DEF EngineInv, TypeInv
<1>8. CASE p.k < Len(pages) /\ Moves(t, "protect", th[t].ret, q)
  <2>1. q.cell = p.cell /\ q.saved = p.saved /\ q.k = p.k + 1 /\ q.bad = (p.bad \/ ~ok)
    BY Zenon, <1>3 DEF PatchRec
  <2> HIDE DEF q
  <2>2. \A i \in DOMAIN pages : i < q.k => i <= p.k
    BY <1>3, <2>1
  <2>3. PagesAre("protect", q, prot', faults')
    <3>1. \A i \in DOMAIN PagesOf[q.cell] : q.saved[i] = InitProt[PagesOf[q.cell][i]]
      BY Zenon, <1>2, <2>1 DEF PagesAre
    <3>2. q.bad = TRUE => faults' = MaxFaults
      BY Zenon, <1>6, <2>1
    <3>3. q.bad = FALSE => \A i \in DOMAIN PagesOf[q.cell] :
            i < q.k => prot'[PagesOf[q.cell][i]] = InitProt[PagesOf[q.cell][i]]
      <4>1. PagesOf[q.cell] = pages
        BY Zenon, <2>1 DEF Pages
      <4>2. q.bad = FALSE => ~(p.bad \/ ~ok)
        BY Zenon, <2>1
      <4> HIDE DEF pages
      <4> QED
        BY Zenon, <1>7, <2>2, <4>1, <4>2
    <3> QED
      BY Zenon, <3>1, <3>2, <3>3 DEF PagesAre
  <2>4. "protect" \in Patching
    BY Zenon DEF Patching
  <2> QED
    BY Zenon, <1>1, <1>5, <1>6, <1>8, <2>1, <2>3, <2>4, PatchProt
<1>9. CASE (p.bad \/ ~ok) /\ Moves(t, "reopen", th[t].ret, p)
  <2>1. PagesAre("reopen", p, prot', faults')
    BY Zenon, <1>2, <1>6, <1>9 DEF PagesAre
  <2>2. "reopen" \in Patching
    BY Zenon DEF Patching
  <2> QED
    BY Zenon, <1>1, <1>5, <1>6, <1>9, <2>1, <2>2, PatchProt
<1>10. CASE ~(p.k < Len(pages)) /\ ~(p.bad \/ ~ok) /\ Moves(t, p.next, 0, p)
  <2>1. p.next \notin Patching
    BY Zenon, <1>3 DEF Patching
  <2>2. \A i \in DOMAIN pages : prot'[pages[i]] = InitProt[pages[i]]
    BY <1>3, <1>7, <1>10
  <2> QED
    BY Zenon, <1>1, <1>5, <1>6, <1>10, <2>1, <2>2, PatchProt
<1> QED
  BY Zenon, <1>4, <1>8, <1>9, <1>10

\* restore_error and restore_page_permissions: no mprotect is left to fail.
LEMMA RestoreProt ==
  ASSUME Paged, EngineInv, ProtInv, EngineInv', NEW t \in Threads, Reopen(t) \/ GiveUp(t)
  PROVE  ProtInv'
<1> DEFINE p == th[t].p
           pages == Pages(t)
           At(x) == CHOOSE i \in DOMAIN pages : pages[i] = x
<1>1. /\ th[t].pc \in {"reopen", "giveup"} /\ th[t].pc \in Patching /\ UNCHANGED build
      /\ Reopen(t) => th[t].pc = "reopen"
  BY Zenon DEF Reopen, GiveUp, Patching, Same
<1>2. PagesAre(th[t].pc, p, prot, faults)
  BY Zenon, <1>1 DEF ProtInv
<1>3. /\ p.next \in {"done", "activated", "drop"}
      /\ \A i \in DOMAIN pages : pages[i] \in DOMAIN InitProt /\ OnPage(th[t], pages[i])
  BY <1>1, InFlight DEF Pages, OnPage
<1>4. ~Fail
  BY Zenon, <1>1, <1>2, LastFault DEF PagesAre
<1>5. CASE Reopen(t)
  <2>1. /\ faults' = faults
        /\ prot' = [x \in DOMAIN prot |->
             IF \E i \in DOMAIN pages : pages[i] = x /\ x \notin {}
               THEN p.saved[At(x)] \cup {"w"} ELSE prot[x]]
    BY Zenon, <1>4, <1>5 DEF Reopen
  <2>2. \A x \in DOMAIN InitProt : ~OnPage(th[t], x) => prot'[x] = prot[x]
    BY Zenon, <2>1 DEF EngineInv, TypeInv, OnPage, Pages
  <2>3. PagesAre("rollback", p, prot', faults')
    BY Zenon, <1>1, <1>2, <2>1 DEF PagesAre
  <2>4. "rollback" \in Patching /\ Moves(t, "rollback", th[t].ret, p)
    BY Zenon, <1>5, RestoreEffects DEF Patching
  <2>5. faults' >= faults /\ faults' <= MaxFaults
    BY Zenon, <2>1, LastFault
  <2> QED
    BY Zenon, <1>1, <2>2, <2>3, <2>4, <2>5, PatchProt
<1>6. CASE GiveUp(t)
  <2>1. /\ faults' = faults
        /\ prot' = [x \in DOMAIN prot |->
             IF \E i \in DOMAIN pages : pages[i] = x /\ x \notin {}
               THEN p.saved[At(x)] ELSE prot[x]]
    BY Zenon, <1>4, <1>6 DEF GiveUp
  <2>2. \A x \in DOMAIN InitProt : ~OnPage(th[t], x) => prot'[x] = prot[x]
    BY Zenon, <2>1 DEF EngineInv, TypeInv, OnPage, Pages
  <2>3. \A i \in DOMAIN pages : prot'[pages[i]] = InitProt[pages[i]]
    <3> SUFFICES ASSUME NEW i \in DOMAIN pages
                 PROVE  prot'[pages[i]] = InitProt[pages[i]]
      BY Zenon
    <3>1. At(pages[i]) \in DOMAIN pages /\ pages[At(pages[i])] = pages[i]
      BY Zenon
    <3> HIDE DEF At
    <3>2. p.saved[At(pages[i])] = InitProt[pages[i]]
      <4>1. \A j \in DOMAIN pages : p.saved[j] = InitProt[pages[j]]
        BY Zenon, <1>1, <1>2 DEF PagesAre, Pages
      <4> QED
        BY Zenon, <3>1, <4>1
    <3> QED
      BY Zenon, <1>3, <2>1, <3>2 DEF EngineInv, TypeInv
  <2>4. p.next \notin Patching /\ Moves(t, p.next, -1, p)
    BY Zenon, <1>3, <1>6, RestoreEffects DEF Patching
  <2>5. faults' >= faults /\ faults' <= MaxFaults
    BY Zenon, <2>1, LastFault
  <2> QED
    BY Zenon, <1>1, <2>2, <2>3, <2>4, <2>5, PatchProt
<1> QED
  BY Zenon, <1>5, <1>6

\* Every page is as it was at the start, except those of a patch in flight.
LEMMA ProtNext ==
  ASSUME Plain, Paged, EngineInv, ProtInv, [Next]_vars
  PROVE  ProtInv'
<1>0. EngineInv'
  BY Zenon, EngineNext
<1>1. ASSUME NEW t \in Threads, Call(t) PROVE ProtInv'
  BY Zenon, <1>0, <1>1, CallProt
<1>2. ASSUME NEW t \in Threads, Step(t) PROVE ProtInv'
  BY Zenon, <1>0, <1>2, ReadableProt, RoutingProt, ActiveProt, ReadMapsProt, UnprotectProt, WriteProt,
     ProtectProt, RestoreProt DEF Step
<1>3. CASE EnableNear \/ UNCHANGED vars
  <2>1. UNCHANGED <<build, prot, th, faults>>
    BY Zenon, <1>3 DEF EnableNear, vars
  <2> QED
    BY Zenon, <2>1 DEF ProtInv, OnPage, build
<1> QED
  BY Zenon, <1>1, <1>2, <1>3 DEF Next

\* However hooks, patches and a failing mprotect interleave, when no patch is
\* in flight every page has its first protection (DobbyCodePatch).
THEOREM ProtectionsRestored ==
  ASSUME Plain, Paged
  PROVE  Spec => []ProtectionRestored
<1>1. Init => EngineInv /\ ProtInv
  <2>1. ASSUME Init PROVE \A t \in Threads : th[t].pc = "idle" /\ th[t].op # "patch"
    BY Zenon, <2>1 DEF Init, Idle, None
  <2>2. ASSUME Init PROVE <<arch, android>> \in Builds
    <3>1. PICK b \in Builds : arch = b[1] /\ android = b[2]
      BY Zenon, <2>2 DEF Init
    <3>2. b = <<b[1], b[2]>>
      BY EngineAssumption
    <3> QED
      BY Zenon, <3>1, <3>2
  <2>3. ASSUME Init PROVE ProtInv
    <3>1. prot = InitProt /\ faults <= MaxFaults
      BY <2>3, EngineAssumption DEF Init
    <3>2. \A t \in Threads : th[t].pc \notin Patching /\ th[t].op # "patch"
      BY Zenon, <2>1, <2>3 DEF Patching
    <3> QED
      BY Zenon, <2>2, <2>3, <3>1, <3>2 DEF ProtInv
  <2> QED
    BY Zenon, <2>3, EngineInit
<1>2. EngineInv /\ ProtInv /\ [Next]_vars => (EngineInv /\ ProtInv)'
  BY Zenon, EngineNext, ProtNext
<1>3. EngineInv /\ ProtInv => ProtectionRestored
  <2> SUFFICES ASSUME EngineInv, ProtInv, \A t \in Threads : th[t].pc \notin Patching
               PROVE  prot = InitProt
    BY Zenon DEF ProtectionRestored
  <2>1. \A q \in DOMAIN InitProt : prot[q] = InitProt[q]
    BY Zenon DEF ProtInv
  <2>2. prot \in [DOMAIN InitProt -> Perms] /\ InitProt \in [DOMAIN InitProt -> Perms]
    BY Zenon, EngineAssumption DEF EngineInv, TypeInv
  <2> QED
    BY <2>1, <2>2
<1> QED
  BY <1>1, <1>2, <1>3, PTL DEF Spec
=============================================================================
