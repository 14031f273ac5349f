----------------------- MODULE MCSpeculativeDecoding -----------------------
(* Small instances of SpeculativeDecoding for TLC. *)
EXTENDS SpeculativeDecoding

CONSTANTS a, b, e, f

(* No prompt, one token, two tokens. *)
ShortPrompts == {<<>>, <<a>>, <<b, a>>}
=============================================================================
