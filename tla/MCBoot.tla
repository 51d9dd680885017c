------------------------------- MODULE MCBoot -------------------------------
(* Two processes booting on one database. *)
EXTENDS Boot, TLC

CONSTANTS small, twin, big    \* two models of the first dimension, one of the upgrade's

MCDim == small :> 3 @@ twin :> 3 @@ big :> 10

Local ==
  [model |-> small, llm |-> "ollama", embed |-> "local", rerank |-> "none", has |-> {"local_extra"},
   topK |-> 2, pooled |-> 4, candidates |-> 4, ef |-> 8, concurrency |-> 1, weight |-> 1,
   cap |-> 3, keys |-> {}, env |-> "dev", seed |-> TRUE]

Azure ==
  [Local EXCEPT !.model = twin, !.llm = "azure_openai", !.embed = "azure_openai", !.seed = FALSE,
                !.has = {"azure_endpoint", "chat_deployment", "embed_deployment"}]

MCSettings ==
  {Local,
   [Local EXCEPT !.model = big, !.rerank = "local"],
   [Azure EXCEPT !.has = @ \cup {"azure_key"}, !.keys = {"key"}, !.env = "prod"],
   Azure,
   [Azure EXCEPT !.has = {"azure_endpoint", "azure_key", "chat_deployment"}],
   [Local EXCEPT !.llm = "openai_compatible", !.has = {"local_extra", "compat_url"}]}
=============================================================================
