---------------------------- MODULE ClosureBridge ----------------------------
(***************************************************************************)
(* The closure trampoline and the closure bridge                           *)
(* (source/TrampolineBridge/ClosureTrampolineBridge).  An instrumented     *)
(* address jumps to a closure trampoline, which leaves the address of its  *)
(* ClosureTrampoline object on the stack or in a register and enters the   *)
(* bridge shared by all trampolines.  The bridge saves the registers as a  *)
(* DobbyRegisterContext on the stack, calls common_closure_bridge_handler, *)
(* restores the registers from the context and continues at the next hop   *)
(* that the handler stored in it.                                          *)
(*                                                                         *)
(* The hand-written code of each build is a sequence of instructions of a  *)
(* small stack machine, executed one at a time.  The stack pointer is the  *)
(* distance in bytes from its value at the instrumented address; a value   *)
(* is a tuple whose first element is its kind.                             *)
(***************************************************************************)
EXTENDS Integers, Sequences, SequencesExt, FiniteSets

CONSTANTS Builds,        \* the bridges to run: names of Bridge below
          EntryAlign,    \* [Builds -> alignments (mod 16) of the stack pointer on entry]
          NullCallback   \* BOOLEAN: an entry may have no pre_handler

VARIABLES build,     \* the bridge this behaviour executes
          align,     \* the caller's stack pointer mod 16
          pc,        \* a value: the instruction to execute, or where control left to
          sp,        \* stack pointer, 0 at the instrumented address
          regs,      \* [register -> value]
          mem,       \* [stack word -> value], the words written so far
          written    \* the context field the user's callback changed, or NoField

vars == <<build, align, pc, sp, regs, mem, written>>

Caller(r)   == <<"caller", r>>      \* what register r held at the instrumented address
FromUser(r) == <<"callback", r>>    \* what the callback stored in r's field
Junk        == <<"junk">>
Stack(n)    == <<"stack", n>>       \* an address on this stack
Code(b, i)  == <<"code", b, i>>
EntryData   == <<"entry">>          \* the ClosureTrampoline object
RelocatedAddr == <<"relocated">>      \* entry->relocated.addr()
Unwritten   == <<"unwritten">>
NoField     == <<"none">>

----------------------------------------------------------------------------
(* Registers.                                                              *)

X(i) == <<"x", i>>
Q(i) == <<"q", i>>
R(i) == <<"r", i>>
G(n) == <<n>>
LR    == <<"lr">>
Flags == <<"flags">>
SpField == <<"sp">>   \* the context's field for the caller's stack pointer
Ret   == <<"ret">>

X64General  == <<G("rax"), G("rbx"), G("rcx"), G("rdx"), G("rbp"), SpField, G("rdi"), G("rsi"),
                 G("r8"), G("r9"), G("r10"), G("r11"), G("r12"), G("r13"), G("r14"), G("r15")>>
Ia32General == <<G("eax"), G("ebx"), G("ecx"), G("edx"), G("ebp"), G("gesp"), G("edi"), G("esi")>>

Arm64(b) == b \in {"arm64", "arm64_assembler", "arm64_full"}
X64(b)   == b \in {"x64", "x64_assembler"}

Registers(b) ==
  CASE Arm64(b)   -> {X(i) : i \in 0..30} \cup {Q(i) : i \in 0..31} \cup {Flags}
    [] X64(b)     -> (ToSet(X64General) \ {SpField}) \cup {Q(i) : i \in 0..15} \cup {Flags}
    [] b = "ia32" -> (ToSet(Ia32General) \ {G("gesp")}) \cup {Flags}
    [] b = "arm"  -> {R(i) : i \in 0..12} \cup {Q(i) : i \in 0..15} \cup {LR, Flags}

Word(b) == IF b \in {"ia32", "arm"} THEN 4 ELSE 8
Width(b, r) == IF r[1] = "q" THEN 16 ELSE Word(b)

\* DobbyRegisterContext: the offset of each field a callback can read.
Layout(b) ==
  CASE Arm64(b)   -> [f \in {SpField} \cup {X(i) : i \in 0..30} \cup {Q(i) : i \in 0..31} |->
                        IF f = SpField THEN 8 ELSE IF f[1] = "x" THEN 24 + 8 * f[2] ELSE 272 + 16 * f[2]]
    [] X64(b)     -> [f \in ToSet(X64General) \cup {Flags, Ret} |->
                        IF f = Flags THEN 136 ELSE IF f = Ret THEN 144
                        ELSE 8 * (CHOOSE i \in DOMAIN X64General : X64General[i] = f) - 8]
    [] b = "ia32" -> [f \in ToSet(Ia32General) \cup {SpField, Flags} |->
                        IF f = SpField THEN 4 ELSE IF f = Flags THEN 12
                        ELSE 12 + 4 * (CHOOSE i \in DOMAIN Ia32General : Ia32General[i] = f)]
    [] b = "arm"  -> [f \in {SpField, LR} \cup {R(i) : i \in 0..12} |->
                        IF f = SpField THEN 12 ELSE IF f = LR THEN 68 ELSE 16 + 4 * f[2]]

----------------------------------------------------------------------------
(* Instructions.                                                           *)

Ins(op, r, n) == <<[op |-> op, r |-> r, n |-> n]>>
SubSp(n)   == Ins("sp", NoField, -n)
AddSp(n)   == Ins("sp", NoField, n)
St(r, n)   == Ins("st", r, n)        \* [sp + n] := r
StSp(n)    == Ins("stsp", NoField, n)   \* [sp + n] := sp
Ld(r, n)   == Ins("ld", r, n)        \* r := [sp + n]
Push(r)    == Ins("push", r, 0)
Pop(r)     == Ins("pop", r, 0)       \* pop, or a post-indexed load
Lea(r, n)  == Ins("lea", r, n)       \* r := sp + n
Inc(r, n)  == Ins("inc", r, n)       \* r := r + n
Mov(r, s)  == Ins("mov", r, s)       \* r := s
Lit(r, n)  == Ins("lit", r, n)       \* r := the trampoline's literal at n
PushLit(n) == Ins("pushlit", NoField, n)
JmpLit(n)  == Ins("jmplit", NoField, n)
Blr(r)     == Ins("blr", r, 0)
Br(r)      == Ins("br", r, 0)
RetTop     == Ins("ret", NoField, 0)
Call       == Ins("call", NoField, 0)
Skip(n)    == Ins("skip", NoField, n)
SkipAligned(n)   == Ins("skip0", NoField, n)   \* and rax, 0xf; jz
SkipUnaligned(n) == Ins("skip1", NoField, n)   \* and rax, 0xf; cmp rax, 0; jnz

\* One instruction per register of rs: the i-th at offset w * (i - 1).
StAll(rs, w) == FlattenSeq([i \in DOMAIN rs |-> St(rs[i], w * (i - 1))])
LdAll(rs, w) == FlattenSeq([i \in DOMAIN rs |-> Ld(rs[i], w * (i - 1))])
PopAll(rs)   == FlattenSeq([i \in DOMAIN rs |-> Pop(rs[i])])
XRange(a, b) == [i \in 1 .. (b - a + 1) |-> X(a + i - 1)]
QRange(a, b) == [i \in 1 .. (b - a + 1) |-> Q(a + i - 1)]

----------------------------------------------------------------------------
(* GenerateClosureTrampoline: the trampolines and their literal pool.      *)

Arm64Trampoline ==
  SubSp(16) \o St(X(30), 8)
    \o Lit(X(17), 9 * 4) \o St(X(17), 0)
    \o Lit(X(17), 9 * 4 + 8) \o Blr(X(17))
    \o Ld(X(30), 8) \o AddSp(16)
    \o Br(X(17))

\* push [rip + 6]; jmp [rip + 8]: each instruction is six bytes long.
X64Trampoline == PushLit(6 + 6) \o JmpLit(12 + 8)

ArmTrampoline == Lit(R(12), 8) \o JmpLit(12)

\* mov [esp], imm32 and jmp rel32: the literals stand for the immediates.
Ia32Trampoline == SubSp(4) \o Ins("stlit", NoField, 0) \o JmpLit(8)

Trampoline(b) ==
  CASE Arm64(b) -> Arm64Trampoline
    [] X64(b) -> X64Trampoline
    [] b = "ia32" -> Ia32Trampoline
    [] b = "arm" -> ArmTrampoline

Pool(off, w) == [n \in {off, off + w} |-> IF n = off THEN EntryData ELSE Code("bridge", 1)]

\* Where the generator puts the entry and the bridge address in the trampoline's buffer.
Literals(b) ==
  CASE Arm64(b) -> Pool(9 * 4, 8)
    [] X64(b) -> Pool(6 + 6, 8)
    [] b = "ia32" -> Pool(0, 8)
    [] b = "arm" -> Pool(8, 4)

----------------------------------------------------------------------------
(* The bridges.                                                            *)

Arm64Save(full) ==
  (IF full THEN SubSp(24 * 16) \o StAll(QRange(8, 31), 16) ELSE <<>>)
    \o SubSp(8 * 16) \o StAll(QRange(0, 7), 16)
    \o SubSp(30 * 8) \o StAll(XRange(1, 30), 8)
    \o SubSp(2 * 8) \o St(X(0), 8)

Arm64SaveSpNoTrampoline(full) ==
  Lea(X(17), 0)
    \o Inc(X(17), 2 * 8 + 30 * 8 + 8 * 16)
    \o (IF full THEN Inc(X(17), 24 * 16) ELSE <<>>)
    \o SubSp(2 * 8) \o St(X(17), 8)

Arm64SaveSp(full) ==
  Lea(X(17), 2 * 8)
    \o Inc(X(17), 2 * 8 + 30 * 8 + 8 * 16)
    \o (IF full THEN Inc(X(17), 24 * 16) ELSE <<>>)
    \o SubSp(2 * 8) \o St(X(17), 8)

\* REGISTER_CONTEXT_SIZE: how far above sp the trampoline's slot is.
Arm64ContextSize(full) == 2 * 8 + 2 * 8 + 30 * 8 + (IF full THEN 32 ELSE 8) * 16

Arm64CallHandler(full) == Lea(X(0), 0) \o Ld(X(1), Arm64ContextSize(full)) \o Call

Arm64RestoreAsmNoGap ==
  AddSp(2 * 8)
    \o Ld(X(0), 0) \o AddSp(2 * 8)
    \o LdAll(XRange(1, 30), 8) \o AddSp(30 * 8)
    \o LdAll(QRange(0, 7), 16) \o AddSp(8 * 16)
    \o Br(X(30))

\* closure_bridge_arm64.asm restores by offset, ...
Arm64RestoreAsm ==
  AddSp(2 * 8)
    \o Ld(X(0), 8) \o AddSp(2 * 8)
    \o LdAll(XRange(1, 30), 8) \o AddSp(30 * 8)
    \o LdAll(QRange(0, 7), 16) \o AddSp(8 * 16)
    \o Br(X(30))

\* ... closure_bridge_arm64.cc with post-indexed pairs.
Arm64RestoreAssembler(full) ==
  AddSp(2 * 8)
    \o Ld(X(0), 8) \o AddSp(2 * 8)
    \o PopAll(XRange(1, 30)) \o PopAll(QRange(0, 7))
    \o (IF full THEN PopAll(QRange(8, 31)) ELSE <<>>)
    \o Br(X(30))

Arm64Asm == Arm64Save(FALSE) \o Arm64SaveSp(FALSE) \o Arm64CallHandler(FALSE) \o Arm64RestoreAsm
Arm64Assembler(full) ==
  Arm64Save(full) \o Arm64SaveSp(full) \o Arm64CallHandler(full) \o Arm64RestoreAssembler(full)

X64Save ==
  Push(Flags) \o SubSp(8) \o SubSp(16 * 8)
    \o FlattenSeq([i \in DOMAIN X64General |->
                     IF X64General[i] = SpField THEN StSp(8 * 5) ELSE St(X64General[i], 8 * (i - 1))])

X64PopGeneral ==
  FlattenSeq([i \in DOMAIN X64General |->
                IF X64General[i] = SpField THEN AddSp(8) ELSE Pop(X64General[i])])

X64Restore == X64PopGeneral \o AddSp(8) \o Pop(Flags) \o RetTop

X64Asm ==
  X64Save
    \o Lea(G("rax"), 0) \o Inc(G("rax"), 16 * 8 + 2 * 8 + 8) \o St(G("rax"), 8 * 5)
    \o Lea(G("rdi"), 0) \o Ld(G("rsi"), 16 * 8 + 2 * 8)
    \o SkipAligned(4) \o Push(G("rax")) \o Call \o Pop(G("rax")) \o Skip(1)
    \o Call
    \o X64Restore

\* closure_bridge_x64.cc puts the caller's rsp below the saved registers instead.
X64Assembler ==
  X64Save
    \o Lea(G("rax"), 0) \o Inc(G("rax"), 8 + 8 + 8 + 16 * 8) \o SubSp(2 * 8) \o St(G("rax"), 8)
    \o Lea(G("rdi"), 0) \o Ld(G("rsi"), 8 + 8 + 16 * 8 + 2 * 8)
    \o SkipUnaligned(2) \o Call \o Skip(3)
    \o Push(G("rax")) \o Call \o Pop(G("rax"))
    \o AddSp(2 * 8)
    \o X64Restore

Ia32Save ==
  SubSp(8 * 4)
    \o FlattenSeq([i \in DOMAIN Ia32General |->
                     IF Ia32General[i] = G("gesp") THEN StSp(4 * 5) ELSE St(Ia32General[i], 4 * (i - 1))])
    \o Push(Flags) \o Pop(G("eax")) \o SubSp(2 * 4) \o St(G("eax"), 4)

Ia32Bridge ==
  Ia32Save
    \o Lea(G("eax"), 0) \o Inc(G("eax"), 8 * 4 + 2 * 4 + 4) \o SubSp(2 * 4) \o St(G("eax"), 4)
    \o SubSp(2 * 4) \o Ld(G("eax"), 8 * 4 + 2 * 4 + 2 * 4 + 2 * 4) \o St(G("eax"), 4)
    \o Lea(G("eax"), 0) \o Inc(G("eax"), 2 * 4) \o St(G("eax"), 0)
    \o Call
    \o AddSp(2 * 4) \o AddSp(2 * 4) \o AddSp(4) \o Pop(Flags)
    \o FlattenSeq([i \in DOMAIN Ia32General |->
                     IF Ia32General[i] = G("gesp") THEN AddSp(4) ELSE Pop(Ia32General[i])])
    \o RetTop

ArmSaved == [i \in 1..13 |-> R(i - 1)] \o <<LR>>

ArmBridge ==
  SubSp(14 * 4) \o StAll(ArmSaved, 4)
    \o Lea(R(0), 14 * 4) \o SubSp(8) \o St(R(0), 4)
    \o SubSp(8)
    \o Lea(R(0), 0) \o Mov(R(1), R(12)) \o Call
    \o AddSp(8) \o AddSp(8)
    \o PopAll(ArmSaved)
    \o Br(R(12))

Bridge(b) ==
  CASE b = "arm64" -> Arm64Asm
    [] b = "arm64_assembler" -> Arm64Assembler(FALSE)
    [] b = "arm64_full" -> Arm64Assembler(TRUE)
    [] b = "x64" -> X64Asm
    [] b = "x64_assembler" -> X64Assembler
    [] b = "ia32" -> Ia32Bridge
    [] b = "arm" -> ArmBridge

----------------------------------------------------------------------------
(* The machine.                                                            *)

BridgePrograms == [b \in Builds |-> [tramp |-> Trampoline(b), bridge |-> Bridge(b)]]
Program == BridgePrograms[build][pc[2]]
Running  == pc[1] = "code"
Now      == Program[pc[3]]
Next1    == Code(pc[2], pc[3] + 1)

\* A value occupies one word per Word(build) bytes of its register's width.
Parts(r, a) == {a + k * Word(build) : k \in 0 .. (Width(build, r) \div Word(build) - 1)}
Put(m, a, r, v) ==
  [x \in DOMAIN m \cup Parts(r, a) |-> IF x \in Parts(r, a) THEN <<v, x - a>> ELSE m[x]]
Get(m, a, r) ==
  IF a \notin DOMAIN m THEN Unwritten
  ELSE IF \A x \in Parts(r, a) : x \in DOMAIN m /\ m[x] = <<m[a][1], x - a>> THEN m[a][1] ELSE Junk

\* Arithmetic on the stack pointer sets the flags of an x86 processor.
AfterArithmetic(g) ==
  IF X64(build) \/ build = "ia32" THEN [g EXCEPT ![Flags] = Junk] ELSE g

Init ==
  /\ build \in Builds
  /\ align \in EntryAlign[build]
  /\ pc = Code("tramp", 1)
  /\ sp = 0
  /\ regs = [r \in Registers(build) |-> Caller(r)]
  /\ mem = <<>>
  /\ written = NoField

Adjust ==
  /\ Now.op = "sp"
  /\ sp' = sp + Now.n
  /\ regs' = AfterArithmetic(regs)
  /\ pc' = Next1
  /\ UNCHANGED mem

Store ==
  /\ Now.op \in {"st", "stsp", "stlit"}
  /\ mem' = Put(mem, sp + Now.n, Now.r,
                CASE Now.op = "st" -> regs[Now.r]
                  [] Now.op = "stsp" -> Stack(sp)
                  [] Now.op = "stlit" -> Literals(build)[Now.n])
  /\ pc' = Next1
  /\ UNCHANGED <<sp, regs>>

PushWord ==
  /\ Now.op \in {"push", "pushlit"}
  /\ sp' = sp - Word(build)
  /\ mem' = Put(mem, sp', Now.r, IF Now.op = "push" THEN regs[Now.r] ELSE Literals(build)[Now.n])
  /\ pc' = Next1
  /\ UNCHANGED regs

LoadOrPop ==
  /\ Now.op \in {"ld", "pop"}
  /\ regs' = [regs EXCEPT ![Now.r] = Get(mem, sp + Now.n, Now.r)]
  /\ sp' = IF Now.op = "pop" THEN sp + Width(build, Now.r) ELSE sp
  /\ pc' = Next1
  /\ UNCHANGED mem

Compute ==
  /\ \/ Now.op = "lea" /\ regs' = [regs EXCEPT ![Now.r] = Stack(sp + Now.n)]
     \/ Now.op = "inc" /\ regs' = AfterArithmetic([regs EXCEPT ![Now.r] = Stack(@[2] + Now.n)])
     \/ Now.op = "mov" /\ regs' = [regs EXCEPT ![Now.r] = regs[Now.n]]
     \/ Now.op = "lit" /\ regs' = [regs EXCEPT ![Now.r] = Literals(build)[Now.n]]
  /\ pc' = Next1
  /\ UNCHANGED <<sp, mem>>

SkipIfAligned ==
  /\ Now.op \in {"skip", "skip0", "skip1"}
  /\ LET aligned == (align + sp) % 16 = 0
         taken   == Now.op = "skip" \/ (Now.op = "skip0") = aligned
     IN pc' = Code(pc[2], pc[3] + 1 + (IF taken THEN Now.n ELSE 0))
  /\ UNCHANGED <<sp, regs, mem>>

Branch ==
  /\ \/ /\ Now.op \in {"br", "blr"}
        /\ pc' = regs[Now.r]
        /\ regs' = IF Now.op = "blr" THEN [regs EXCEPT ![X(30)] = Next1] ELSE regs
        /\ UNCHANGED sp
     \/ Now.op = "jmplit" /\ pc' = Literals(build)[Now.n] /\ UNCHANGED <<sp, regs>>
     \/ Now.op = "ret" /\ pc' = Get(mem, sp, Now.r) /\ sp' = sp + Word(build) /\ UNCHANGED regs
  /\ UNCHANGED mem

----------------------------------------------------------------------------
(* The handler.                                                            *)

Context ==
  CASE Arm64(build) -> regs[X(0)]
    [] X64(build) -> regs[G("rdi")]
    [] build = "ia32" -> Get(mem, sp, NoField)
    [] build = "arm" -> regs[R(0)]
Argument2 ==
  CASE Arm64(build) -> regs[X(1)]
    [] X64(build) -> regs[G("rsi")]
    [] build = "ia32" -> Get(mem, sp + 4, NoField)
    [] build = "arm" -> regs[R(1)]

\* The register the bridge hands control on with; its field is not the callback's.
TMP_REG_0(b) ==
  CASE Arm64(b) -> {X(17)} [] X64(b) -> {Ret} [] b = "ia32" -> {} [] b = "arm" -> {R(12)}

\* The registers a function of the platform's calling convention preserves.
CalleeSaved(b) ==
  CASE Arm64(b) -> {X(i) : i \in 19..29}
    [] X64(b) -> {G("rbx"), G("rbp"), G("r12"), G("r13"), G("r14"), G("r15")}
    [] b = "ia32" -> {G("ebx"), G("ebp"), G("esi"), G("edi")}
    [] b = "arm" -> {R(i) : i \in 4..11}

FieldAt(f) == Context[2] + Layout(build)[f]

\* set_routing_bridge_next_hop(ctx, entry->relocated.addr())
SetNextHop(m) ==
  CASE Arm64(build) -> Put(m, FieldAt(X(17)), X(17), RelocatedAddr)
    [] X64(build) -> Put(m, FieldAt(Ret), Ret, RelocatedAddr)
    [] build = "arm" -> Put(m, FieldAt(R(12)), R(12), RelocatedAddr)
    [] build = "ia32" -> Put(m, Get(m, FieldAt(SpField), SpField)[2] - 4, NoField, RelocatedAddr)

\* Fields whose register the bridge loads back from the context.
Writable(b) ==
  LET quiet == TMP_REG_0(b) \cup {SpField} \cup (IF Arm64(b) THEN {X(30)} ELSE {})
                 \cup (IF b = "ia32" THEN {G("gesp"), Flags} ELSE {})
                 \cup (IF b \in {"arm64", "arm64_assembler"} THEN {Q(i) : i \in 8..31} ELSE {})
  IN DOMAIN Layout(b) \ quiet

\* common_closure_bridge_handler and instrument_routing_dispatch: the callback runs, when
\* there is one, and may change a field; the next hop is set after it.
Handler ==
  /\ Now.op = "call"
  /\ \E f \in Writable(build) \cup (IF NullCallback THEN {NoField} ELSE {}) :
       /\ written' = f
       /\ mem' = SetNextHop(IF f = NoField THEN mem ELSE Put(mem, FieldAt(f), f, FromUser(f)))
  /\ regs' = [r \in DOMAIN regs |-> IF r \in CalleeSaved(build) THEN regs[r] ELSE Junk]
  /\ pc' = Next1
  /\ UNCHANGED <<build, align, sp>>

Next ==
  /\ Running
  /\ \/ /\ Adjust \/ Store \/ PushWord \/ LoadOrPop \/ Compute \/ SkipIfAligned \/ Branch
        /\ UNCHANGED <<build, align, written>>
     \/ Handler

Spec == Init /\ [][Next]_vars

----------------------------------------------------------------------------
(* Properties.                                                             *)

\* The bridge never leaves its code and never touches the caller's part of the stack: every
\* word it writes, and its stack pointer, stay below the stack pointer at the instrumented
\* address.
TypeOK ==
  /\ build \in Builds
  /\ align \in EntryAlign[build]
  /\ DOMAIN regs = Registers(build)
  /\ sp <= 0
  /\ \A a \in DOMAIN mem : a < 0
  /\ Running => pc[3] \in DOMAIN Program

AtCall  == Running /\ Now.op = "call"
Left    == ~Running

\* Registers the trampoline has overwritten before the bridge saves them, and the field the
\* ia32 bridge fills with its own stack pointer.
Overwritten(b) ==
  TMP_REG_0(b) \cup (IF Arm64(b) THEN {X(30)} ELSE {})
    \cup (IF b = "ia32" THEN {G("gesp"), Flags} ELSE {})
    \cup (IF b \in {"arm64", "arm64_assembler"} THEN {Q(i) : i \in 8..31} ELSE {})

\* The callback is called with a context whose fields, at the offsets the struct declares, hold
\* the registers of the instrumented address, its sp the caller's stack pointer, and with the
\* trampoline's own ClosureTrampoline.
HandlerSeesCaller ==
  AtCall =>
    /\ Argument2 = EntryData
    /\ Get(mem, FieldAt(SpField), SpField) = Stack(0)
    /\ \A f \in DOMAIN Layout(build) \ (Overwritten(build) \cup {SpField}) :
         Get(mem, FieldAt(f), f) = Caller(f)

\* The same without the exception for what the trampoline overwrites.
ContextComplete ==
  AtCall => \A f \in DOMAIN Layout(build) \ (TMP_REG_0(build) \cup {SpField}) :
              Get(mem, FieldAt(f), f) = Caller(f)

\* Control leaves the bridge at the relocated head, with the caller's stack pointer, and every
\* saved register holds what the callback left in its field: the caller's value, unless the
\* callback changed that field.
ResumesCaller ==
  Left => /\ pc = RelocatedAddr
          /\ sp = 0
          /\ \A r \in DOMAIN regs \cap (Writable(build) \cup CalleeSaved(build)
                                          \cup (IF Arm64(build) THEN {X(30)} ELSE {})) :
               regs[r] = IF r = written THEN FromUser(r) ELSE Caller(r)

\* The same of every register, the flags and the floating-point registers included.
ResumesWholeCaller ==
  Left => \A r \in DOMAIN regs \ TMP_REG_0(build) :
            regs[r] = IF r = written THEN FromUser(r) ELSE Caller(r)

\* The handler is called with the stack aligned as the calling convention demands, for every
\* alignment of the caller's stack pointer the build is entered with.
AlignedCall == AtCall => (align + sp) % (IF build = "arm" THEN 8 ELSE 16) = 0
=============================================================================
