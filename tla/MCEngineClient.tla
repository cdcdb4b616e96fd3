--------------------------- MODULE MCEngineClient ---------------------------
(* One call on the model that plans and verifies and one on the second     *)
(* judge; another size of the first model's family may be pulled.          *)
EXTENDS EngineClient, TLC
CONSTANTS c1, c2, qwen, qwenSmall, deepseek

MCFamily == qwen :> "qwen" @@ qwenSmall :> "qwen" @@ deepseek :> "deepseek"
MCTagOf == c1 :> qwen @@ c2 :> deepseek
MCStart == <<qwen, qwen>>
MCEngine == <<qwen, qwen, deepseek>>
=============================================================================
