------------------------------ MODULE MCCollect ------------------------------
(* Two platforms, two keyword batches on the first, accounts that see what a *)
(* keyword finds too; chunks of two among up to three candidates.            *)
EXTENDS CollectJob, TLC

CONSTANTS c1, c2, c3

MCComments == {c1, c2, c3}
MCPlatforms == <<"dy", "xhs">>
MCBatches == <<"k1", "k2">>
MCShows == [p \in {"dy", "xhs"} |->
              [s \in {"k1", "k2", "accounts"} |->
                  CASE p = "dy" /\ s = "k1" -> {c1, c2}
                    [] p = "dy" /\ s = "accounts" -> {c2}
                    [] p = "xhs" /\ s = "k2" -> {c3}
                    [] OTHER -> {}]]
=============================================================================
