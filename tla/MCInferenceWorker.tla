------------------------- MODULE MCInferenceWorker -------------------------
(* Small instances of InferenceWorker for TLC. *)
EXTENDS InferenceWorker, TLC

CONSTANTS t1, t2, A, B, w1, w2, OtherScale

Call(kind, prompt, lora, cache) ==
    [kind |-> kind, prompt |-> prompt, lora |-> lora, cache |-> cache]

(* The entries of an adapter selection. *)
A1 == <<A, UnitScale>>
A2 == <<A, OtherScale>>
B1 == <<B, UnitScale>>

BothScales == {UnitScale, OtherScale}

(* Calls that share prompts and prefixes of prompts under different        *)
(* adapter selections, one adapter twice, an adapter the architecture      *)
(* rejects after another was applied, an empty prompt, an embedding.       *)
CacheShapes ==
    { Call("generate", <<t1, t2>>, <<>>, TRUE),
      Call("generate", <<t1, t2, t2>>, <<>>, TRUE),
      Call("generate", <<t1, t2>>, <<A1>>, TRUE),
      Call("generate", <<t1, t2, t2>>, <<A2>>, TRUE),
      Call("generate", <<t1, t2>>, <<A1, A1>>, TRUE),
      Call("generate", <<>>, <<A1, B1>>, TRUE),
      Call("embed", <<t2>>, <<>>, FALSE) }

(* Streams of both transports next to a plain call with an adapter. *)
StreamShapes ==
    { Call("sse", <<t1>>, <<>>, FALSE),
      Call("ws", <<t1>>, <<>>, FALSE),
      Call("generate", <<t1>>, <<A1>>, FALSE) }

(* Requests are interchangeable: only safety is checked with this. *)
RequestSymmetry == Permutations(Requests)

BothLoras == [n \in Names |-> IF n = A THEN w1 ELSE w2]
============================================================================
