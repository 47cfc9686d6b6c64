----------------------------- MODULE DarwinPatch -----------------------------
(***************************************************************************)
(* DobbyCodePatch of code-patch-tool-darwin.cc: a patch is cut at page     *)
(* ends, and every page in turn is made writable, written and made         *)
(* executable again by the vm_protect that the symbol resolver found.  The *)
(* remapping variants are behind if (0).                                   *)
(***************************************************************************)
EXTENDS Integers

CONSTANTS
  PatchPageSize,
  PatchPages,       \* number of pages of code
  MaxSize,          \* longest patch
  MaxKernelErrors   \* bound: calls of vm_protect that fail

VARIABLES
  code,          \* address |-> number of the patch that wrote it, 0 at first
  prot,          \* page |-> "rx" or "rw"
  vm_protect_fn, \* "null", "dyld" or "libsystem_kernel"
  pc,
  address, buffer_size,   \* what is left of the patch
  from, size,             \* what the caller asked for
  patches, errors,
  status                  \* "none", "ok" (0), "failed" (-1) or "crash"

vars == <<code, prot, vm_protect_fn, pc, address, buffer_size, from, size, patches, errors, status>>
patch == <<from, size, patches>>

Addresses == 0..(PatchPageSize * PatchPages - 1)
ALIGN_FLOOR(a) == (a \div PatchPageSize) * PatchPageSize
PageOf(a) == a \div PatchPageSize

Init ==
  /\ code = [a \in Addresses |-> 0]
  /\ prot = [p \in 0..(PatchPages - 1) |-> "rx"]
  /\ vm_protect_fn = "null"
  /\ pc = "idle" /\ address = 0 /\ buffer_size = 0 /\ from = 0 /\ size = 0
  /\ patches = 0 /\ errors = 0 /\ status = "ok"

MaxPatches == 2

\* The caller; an empty buffer is refused.
Call(a, n) ==
  /\ pc = "idle" /\ status # "crash" /\ patches < MaxPatches
  /\ a + n <= PatchPageSize * PatchPages
  /\ from' = a /\ size' = n /\ patches' = patches + 1
  /\ address' = a /\ buffer_size' = n
  /\ IF n = 0 THEN status' = "failed" /\ UNCHANGED pc
     ELSE pc' = "resolve" /\ status' = "none"
  /\ UNCHANGED <<code, prot, vm_protect_fn, errors>>

\* buffer_size_a: the part on the first page.
Chunk(a, n) ==
  IF a + n > ALIGN_FLOOR(a) + PatchPageSize THEN ALIGN_FLOOR(a) + PatchPageSize - a ELSE n

\* The static pointer: dyld first, then libsystem_kernel; a call through
\* null follows when neither has the symbol.
Resolve(found) ==
  /\ pc = "resolve"
  /\ vm_protect_fn' = IF vm_protect_fn = "null" THEN found ELSE vm_protect_fn
  /\ IF vm_protect_fn' = "null" THEN pc' = "idle" /\ status' = "crash"
     ELSE pc' = "unprotect" /\ UNCHANGED status
  /\ UNCHANGED <<code, prot, address, buffer_size, patch, errors>>

\* KERN_RETURN_ERROR.
KernelError ==
  /\ errors < MaxKernelErrors /\ errors' = errors + 1
  /\ pc' = "idle" /\ status' = "failed"

Unprotect ==
  /\ pc = "unprotect"
  /\ \/ KernelError /\ UNCHANGED prot
     \/ /\ prot' = [prot EXCEPT ![PageOf(address)] = "rw"]
        /\ pc' = "write" /\ UNCHANGED <<errors, status>>
  /\ UNCHANGED <<code, vm_protect_fn, address, buffer_size, patch>>

\* memcpy of the bytes of this page.
Written == address..(address + Chunk(address, buffer_size) - 1)
Write ==
  /\ pc = "write"
  /\ code' = [a \in Addresses |-> IF a \in Written THEN patches ELSE code[a]]
  /\ pc' = "reprotect"
  /\ UNCHANGED <<prot, vm_protect_fn, address, buffer_size, patch, errors, status>>

ReprotectNone ==
  /\ pc = "reprotect"
  /\ address' = address + Chunk(address, buffer_size)
  /\ buffer_size' = buffer_size - Chunk(address, buffer_size)
  /\ pc' = IF buffer_size' = 0 THEN "idle" ELSE "resolve"
  /\ status' = IF buffer_size' = 0 THEN "ok" ELSE status
  /\ UNCHANGED <<prot, errors, code, vm_protect_fn, patch>>

\* The page is executable again; the rest is the second recursive call.
Reprotect ==
  /\ pc = "reprotect"
  /\ \/ KernelError /\ UNCHANGED <<prot, address, buffer_size>>
     \/ /\ prot' = [prot EXCEPT ![PageOf(address)] = "rx"]
        /\ address' = address + Chunk(address, buffer_size)
        /\ buffer_size' = buffer_size - Chunk(address, buffer_size)
        /\ pc' = IF buffer_size' = 0 THEN "idle" ELSE "resolve"
        /\ status' = IF buffer_size' = 0 THEN "ok" ELSE status
        /\ UNCHANGED errors
  /\ UNCHANGED <<code, vm_protect_fn, patch>>

Next ==
  \/ \E a \in Addresses, n \in 0..MaxSize : Call(a, n)
  \/ \E found \in {"null", "dyld", "libsystem_kernel"} : Resolve(found)
  \/ Unprotect \/ Write \/ Reprotect

Spec == Init /\ [][Next]_vars
-----------------------------------------------------------------------------
\* Types; a memcpy never writes a page that is not writable.
TypeOK ==
  /\ code \in [Addresses -> 0..MaxPatches]
  /\ prot \in [0..(PatchPages - 1) -> {"rx", "rw"}]
  /\ pc \in {"idle", "resolve", "unprotect", "write", "reprotect"}
  /\ buffer_size \in 0..MaxSize
  /\ pc = "write" => \A a \in Written : prot[PageOf(a)] = "rw"

\* A patch that reports success has replaced exactly the bytes it was asked
\* to, however many pages they cross, and left their pages executable.
PatchedWhole ==
  (pc = "idle" /\ status = "ok" /\ patches > 0) =>
    /\ {a \in Addresses : code[a] = patches} = from..(from + size - 1)
    /\ \A a \in from..(from + size - 1) : prot[PageOf(a)] = "rx"

\* A patch that fails has replaced nothing (InterceptRouting.h Active gives up
\* on -1 as if the target were untouched).
FailedPatchLeavesCode ==
  (pc = "idle" /\ status = "failed") => \A a \in Addresses : code[a] # patches
=============================================================================
