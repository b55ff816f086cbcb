---------------------------- MODULE MCToolRound ----------------------------
EXTENDS ToolRound, TLC

CONSTANTS session, agent

(* The session: two writes, which run one after the other, or an untrusted *)
(* read beside a question, which run together.  A swarm agent writes       *)
(* beside it.                                                              *)
MCBatches == session :> {<<"write_file", "write_file">>,
                         <<"web_fetch", "ask_user">>}
             @@ agent :> {<<"write_file">>}

Installed(w, r) == [k \in Kinds |-> CASE k = "write_file" -> w
                                      [] k = "web_fetch" -> r
                                      [] OTHER -> "Allow"]

(* The standard preset asks before a write; a read-only one denies it and  *)
(* may ask before a read; or no policy is installed.                       *)
MCPolicies == {Installed("Ask", "Allow"), Installed("Deny", "Ask"), NoPolicy}
=============================================================================
