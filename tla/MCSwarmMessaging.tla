-------------------------- MODULE MCSwarmMessaging --------------------------
EXTENDS SwarmMessaging, TLC

CONSTANTS root, a, b, c

(* a and c are children of the root, b is a child of a.                    *)
MCMembers == {a, b, c}
MCChain == {a, b}
MCParent == (a :> root) @@ (b :> a) @@ (c :> root)
MCChainParent == (a :> root) @@ (b :> a)
=============================================================================
