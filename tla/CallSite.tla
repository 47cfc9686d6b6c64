------------------------------ MODULE CallSite ------------------------------
(***************************************************************************)
(* Hooks on one call instruction (src/callsite.cpp): the BL at a site is   *)
(* rewritten to call the new callee, and the original callee is kept in a  *)
(* table of MaxSites records compacted by moving the last one.             *)
(***************************************************************************)
EXTENDS ThumbBL, FiniteSets, SequencesExt

CONSTANTS
  Original,      \* [site base address -> the halfwords compiled there]
  NewCallees,    \* addresses of replacement functions
  MaxSites,      \* size of g_sites (32 in the code)
  Rehook,        \* BOOLEAN: clients may hook a hooked site again
  MaxCalls       \* bound: calls of Hook and Unhook

VARIABLES
  code,          \* [site -> halfwords]
  g_sites,       \* sequence of [site, orig_callee], g_cs_count of them
  rwx,           \* sites whose page was made writable
  last,          \* [site -> the new callee of the last successful Hook, or 0]
  calls

vars == <<code, g_sites, rwx, last, calls>>
Sites == DOMAIN Original

Init ==
  /\ code = Original
  /\ g_sites = <<>>
  /\ rwx = {}
  /\ last = [s \in Sites |-> 0]
  /\ calls = 0

\* rewrite_thumb_bl: succeeds with new halfwords, or leaves the site alone.
Rewritable(site, callee) ==
  /\ FirstHalf(code[site][1])
  /\ KindOK(code[site][2])
  /\ OffsetOK(OffsetTo(site, callee, is_blx(code[site][2])))
rewrite_thumb_bl(site, callee) ==
  LET blx == is_blx(code[site][2]) IN Encode(OffsetTo(site, callee, blx), blx)

Recorded(site) == \E i \in DOMAIN g_sites : g_sites[i].site = site

HookChecked(site) ==
  /\ FirstHalf(code[site][1])
  /\ Len(g_sites) < MaxSites

Hook(site, callee) ==
  /\ HookChecked(site)
  /\ rwx' = rwx \cup {site}
  /\ Rewritable(site, callee)
  /\ code' = [code EXCEPT ![site] = rewrite_thumb_bl(site, callee)]
  /\ g_sites' = Append(g_sites, [site |-> site,
                                 orig_callee |-> Callee(site, code[site][1], code[site][2])])
  /\ last' = [last EXCEPT ![site] = callee]

\* Hook returns an error: no BL there, table full, the page cannot be made writable, or the
\* new callee is out of reach (the page stays writable then).
HookFails(site, callee) ==
  /\ \/ ~HookChecked(site) /\ rwx' = rwx
     \/ HookChecked(site) /\ rwx' = rwx
     \/ HookChecked(site) /\ ~Rewritable(site, callee) /\ rwx' = rwx \cup {site}
  /\ UNCHANGED <<code, g_sites, last>>

\* Unhook takes the first record of the site; whether the rewrite succeeds is not tested.
First(site) == SelectInSeq(g_sites, LAMBDA r : r.site = site)
Without(i) ==
  SubSeq([g_sites EXCEPT ![i] = g_sites[Len(g_sites)]], 1, Len(g_sites) - 1)

Unhook(site) ==
  /\ Recorded(site)
  /\ LET i == First(site)
         c == g_sites[i].orig_callee
     IN /\ code' = IF Rewritable(site, c) THEN [code EXCEPT ![site] = rewrite_thumb_bl(site, c)] ELSE code
        /\ g_sites' = Without(i)
  /\ last' = [last EXCEPT ![site] = 0]
  /\ UNCHANGED rwx

Next ==
  /\ calls < MaxCalls
  /\ calls' = calls + 1
  /\ \E site \in Sites :
       \/ \E callee \in NewCallees :
            \/ (Recorded(site) => Rehook) /\ Hook(site, callee)
            \/ HookFails(site, callee)
       \/ Unhook(site)

Spec == Init /\ [][Next]_vars

----------------------------------------------------------------------------
\* The table never overflows and names sites of the program only.
TypeOK ==
  /\ Len(g_sites) <= MaxSites
  /\ \A i \in DOMAIN g_sites : g_sites[i].site \in Sites
  /\ rwx \subseteq Sites
  /\ calls \in 0..MaxCalls

\* The call at site s goes to the callee of the last Hook, in the instruction set that the site
\* called before, or, when the site is not hooked, to where it was compiled to go.
CallsExpected(s) ==
  LET was == ArchCall(s, Original[s])
  IN ArchCall(s, code[s]) = IF Recorded(s) /\ last[s] # 0 THEN <<was[1], last[s]>> ELSE was


\* callsite.cpp line 23: the rewritten instruction calls new_callee, wherever it stands.  (At
\* 2 mod 4 a BLX counts from the aligned pc, which rewrite_thumb_bl leaves unaligned.)
EverySiteCallsExpected == \A s \in Sites : CallsExpected(s)

\* Every record still gives OrigCallee the callee the program was compiled with.
OrigCalleeIsOriginal ==
  \A i \in DOMAIN g_sites :
    g_sites[i].orig_callee = ArchCall(g_sites[i].site, Original[g_sites[i].site])[2]
=============================================================================
