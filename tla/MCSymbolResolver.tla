-------------------------- MODULE MCSymbolResolver --------------------------
EXTENDS SymbolResolver

CONSTANTS libc, libfoo, mylibfoo

S(name, value) == [name |-> name, value |-> value]
\* open is exported by both, and undefined in the section symbols of libc;
\* local only has a section symbol, in libfoo.
MCSymtab == (libc :> <<S("open", 0), S("close", 3)>>) @@ (libfoo :> <<S("local", 1)>>) @@ (mylibfoo :> <<>>)
MCDynsym == (libc :> <<S("open", 2), S("close", 3)>>) @@ (libfoo :> <<S("close", 0), S("open", 4)>>)
            @@ (mylibfoo :> <<S("open", 5)>>)

Exact == {<<libc, "libc.so">>, <<libfoo, "libfoo.so">>, <<mylibfoo, "mylibfoo.so">>}
Endings == Exact \cup {<<mylibfoo, "libfoo.so">>}
CacheExact == {<<"libc.so", libc>>}
\* A library whose file name ends with that of a common one.
CacheSuffix == {<<"libc.so", libc>>, <<"libfoo.so", libc>>}

R(op, image, symbol, flags) == [op |-> op, image |-> image, symbol |-> symbol, flags |-> flags]
MCRequests ==
  {R("hook", "libfoo.so", "open", DYNSYM_ONLY), R("resolve", "libc.so", "local", "none"),
   R("resolve", NoImage, "close", SYMTAB_ONLY), R("base", "libc.so", "open", "none")}
MCStarted == [l \in Libs |-> IF l = libc THEN 100 ELSE Null]
ThreadsAlike == Permutations(Threads)
\* The first address of libc, which the cache may hold, may become another library's.
MCBases == (libc :> {300}) @@ (libfoo :> {200}) @@ (mylibfoo :> {100})
=============================================================================
