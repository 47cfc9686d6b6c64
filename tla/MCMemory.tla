------------------------------ MODULE MCMemory ------------------------------
(***************************************************************************)
(* The memory layer of the original engine: its page allocators, the block *)
(* allocator over one buffer, and Darwin's page-wise code patch.  They     *)
(* share no variable; a behaviour moves the one machine names.             *)
(***************************************************************************)
EXTENDS MCCodeMemory

VARIABLES
  machine,
  a_mem, a_merged, a_held, a_overflow,
  d_code, d_prot, d_fn, d_pc, d_address, d_buffer_size, d_from, d_size, d_patches, d_errors,
  d_status

linearVars == <<a_mem, a_merged, a_held, a_overflow>>
patchVars == <<d_code, d_prot, d_fn, d_pc, d_address, d_buffer_size, d_from, d_size, d_patches,
  d_errors, d_status>>

A == INSTANCE LinearAllocator WITH
  HeaderSize <- 2, Slots <- 9, Requests <- {0, 1, 3, 4, 6}, PastEnd <- "other",
  mem <- a_mem, is_free_blocks_merged <- a_merged, held <- a_held, overflow <- a_overflow

D == INSTANCE DarwinPatch WITH
  PatchPageSize <- 3, PatchPages <- 3, MaxSize <- 7, MaxKernelErrors <- 1,
  code <- d_code, prot <- d_prot, vm_protect_fn <- d_fn, pc <- d_pc, address <- d_address,
  buffer_size <- d_buffer_size, from <- d_from, size <- d_size, patches <- d_patches,
  errors <- d_errors, status <- d_status

AllInit == machine \in {"pages", "linear", "patch"} /\ Init /\ A!Init /\ D!Init

AllNext ==
  /\ \/ machine = "pages" /\ Next /\ UNCHANGED <<linearVars, patchVars>>
     \/ machine = "linear" /\ A!Next /\ UNCHANGED <<vars, patchVars>>
     \/ machine = "patch" /\ D!Next /\ UNCHANGED <<vars, linearVars>>
  /\ UNCHANGED machine

AllSpec == AllInit /\ [][AllNext]_<<vars, linearVars, patchVars, machine>>
----------------------------------------------------------------------------
\* Every component's variables have their types; no cursor leaves its page and
\* no byte of a page is written that is not writable.
AllTypeOK == TypeOK /\ A!TypeOK /\ D!TypeOK

\* LinearAllocator.tla, linear_allocator.h: splits and joins keep the buffer tiled.
ChainMatchesHeld == A!ChainMatchesHeld
\* LinearAllocator.tla, linear_allocator.h: no two callers share a byte.
LinearStoreSpec == A!LinearStoreSpec

\* DarwinPatch.tla, code-patch-tool-darwin.cc: success means every byte is in place.
PatchedWhole == D!PatchedWhole
=============================================================================
