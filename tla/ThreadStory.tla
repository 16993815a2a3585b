----------------------------- MODULE ThreadStory -----------------------------
(***************************************************************************)
(* What a transcript promises its reader while a thread is still running   *)
(* and its events arrive in any order: what Codex says, and what a tool    *)
(* call came to, only ever becomes more definite.  Text that was shown is  *)
(* not taken away until its final wording replaces it, a final wording     *)
(* stays, and a call that has ended neither runs again nor changes its     *)
(* outcome.  Of a crowded utterance, one that does not have the screen to  *)
(* itself, less is promised: another one's final wording may take its text *)
(* away before its own replaces it.                                        *)
(***************************************************************************)
CONSTANTS Utterances, Crowded, Calls

VARIABLES
    utterance,  \* absent, partial (streamed so far), final
    call        \* absent, running, complete, error

After(s) ==
    CASE s = "absent"  -> {"absent", "partial", "final", "running", "complete",
                           "error"}
      [] s = "partial" -> {"partial", "final"}
      [] s = "running" -> {"running", "complete", "error"}
      [] OTHER         -> {s}

Init ==
    /\ utterance = [u \in Utterances |-> "absent"]
    /\ call      = [c \in Calls |-> "absent"]

MayBecome(u, was, now) ==
    now \in After(was) \/ (u \in Crowded /\ was = "partial" /\ now = "absent")

Next ==
    LET was == utterance
        now == utterance' IN
    /\ now \in [Utterances -> {"absent", "partial", "final"}]
    /\ \A u \in Utterances : MayBecome(u, was[u], now[u])
    /\ call' \in [Calls -> {"absent", "running", "complete", "error"}]
    /\ \A c \in Calls : call'[c] \in After(call[c])

Spec == Init /\ [][Next]_<<utterance, call>>
=============================================================================
