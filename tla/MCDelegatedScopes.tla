-------------------------- MODULE MCDelegatedScopes --------------------------
(* A workspace w with directories a and b, and a file x in a.              *)
EXTENDS DelegatedScopes

MCNames == {"w", "a", "b", "x"}
MCWorkspace == <<"w">>
MCPaths == {MCWorkspace, <<"w", "a">>, <<"w", "a", "x">>, <<"w", "b">>}

(* At most one root per list, over the directory a, the file in it and b.  *)
Ask(allowed, owned, forbidden) ==
    [allowed |-> allowed, owned |-> owned, forbidden |-> forbidden]
MCRequests ==
    LET w == {<<"w">>}  a == {<<"w", "a">>}  x == {<<"w", "a", "x">>}  b == {<<"w", "b">>}
    IN  {Ask({}, {}, {}), Ask({}, {}, x), Ask(w, {}, a), Ask(a, {}, {}), Ask(x, {}, {}),
         Ask(a, {}, x), Ask({}, a, {}), Ask({}, x, {}), Ask(a, b, {}), Ask(w, x, b),
         Ask({}, a, x)}

=============================================================================
