--------------------------- MODULE MCPrefixCache ---------------------------
(* Small instances of PrefixCache for TLC. *)
EXTENDS PrefixCache

CONSTANTS a, b

(* Keys that extend, split and bypass one another, and the empty prompt. *)
ForkingKeys == {<<>>, <<a, a>>, <<a, b>>, <<a, b, a>>, <<b>>}
=============================================================================
