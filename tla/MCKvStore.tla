----------------------------- MODULE MCKvStore -----------------------------
(* One job with a variable, a secret and a rollout order; three commands.  *)
EXTENDS KvStore

K(ns, name) == [ns |-> ns, job |-> "web", name |-> name]

MCJobs == {"web"}
MCKeys == {K("vars", "key"), K("secrets", "key"), K("catalog", "rollout_order")}
MCTexts == {"a"}
MCInputs == {"a", " a"}
MCTrimSpace == [i \in MCInputs |-> "a"]
MCTtls == {0, 1}
=============================================================================
