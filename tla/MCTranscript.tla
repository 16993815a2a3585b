---------------------------- MODULE MCTranscript ----------------------------
(* Small instances of Transcript for TLC.                                  *)
EXTENDS Transcript

CONSTANT c1

MCEndMsg(f) ==
    CASE f = "exec_command" ->
             {[status |-> None, exit |-> x] : x \in {0, 1}}
      [] f = "mcp_tool_call" ->
             {[err |-> FALSE, isError |-> x] : x \in BOOLEAN}
      [] f = "web_search" -> {[query |-> TRUE]}
      [] f = "image_generation" -> {[status |-> s] : s \in {"failed", None}}
      [] f \in {"patch_apply", "dynamic_tool_call"} ->
             {[success |-> x] : x \in BOOLEAN}
      [] OTHER -> {[failed |-> x, receiver |-> TRUE,
                    keys |-> {"receiver_thread_id"}] : x \in BOOLEAN}
=============================================================================
