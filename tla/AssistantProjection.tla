------------------------- MODULE AssistantProjection -------------------------
(***************************************************************************)
(* web/src/lib/assistant-projection.ts: the messages and parts a tab shows *)
(* for the events it holds.  Pure operators over h, the tab's events in    *)
(* the order of its list; an operator whose argument is i speaks of h[i].  *)
(*                                                                         *)
(* An event is a record                                                    *)
(*   n      its event_id             type  event_type                      *)
(*   turn   turn_id ?? request_id    call  the first of the call ids       *)
(*   at     its millisecond          msg   what an end message, or a       *)
(*                                         collab begin, says              *)
(* with None for what an event lacks.  No delta is empty.  A part is known *)
(* by its kind, its status if it is a tool call, and its eventIds.         *)
(***************************************************************************)
EXTENDS Naturals, Sequences, FiniteSets, FiniteSetsExt, SequencesExt

CONSTANTS
    Radix,      \* 10 in RFC 3339
    None        \* an absent field

ASSUME RadixAssumption == Radix \in Nat \ {0, 1}

-----------------------------------------------------------------------------
(* Names.                                                                  *)

\* A few of each: an event type is told apart only as far as the switch does.
ApprovalEventTypes == {"exec_approval_request", "request_user_input"}
LifecycleTitles    == {"task_started", "token_count", "thread_name_updated",
                       "error", "agent_reasoning_section_break"}
PlanTypes          == {"plan_update", "plan_delta"}

ToolEvents ==
    [exec_command_begin             |-> <<"exec_command", "begin">>,
     exec_command_output_delta      |-> <<"exec_command", "output">>,
     terminal_interaction           |-> <<"exec_command", "interaction">>,
     exec_command_end               |-> <<"exec_command", "end">>,
     mcp_tool_call_begin            |-> <<"mcp_tool_call", "begin">>,
     mcp_tool_call_end              |-> <<"mcp_tool_call", "end">>,
     web_search_begin               |-> <<"web_search", "begin">>,
     web_search_end                 |-> <<"web_search", "end">>,
     image_generation_begin         |-> <<"image_generation", "begin">>,
     image_generation_end           |-> <<"image_generation", "end">>,
     patch_apply_begin              |-> <<"patch_apply", "begin">>,
     patch_apply_end                |-> <<"patch_apply", "end">>,
     dynamic_tool_call_request      |-> <<"dynamic_tool_call", "begin">>,
     dynamic_tool_call_response     |-> <<"dynamic_tool_call", "end">>,
     collab_agent_spawn_begin       |-> <<"collab_spawn", "begin">>,
     collab_agent_spawn_end         |-> <<"collab_spawn", "end">>,
     collab_agent_interaction_begin |-> <<"collab_interaction", "begin">>,
     collab_agent_interaction_end   |-> <<"collab_interaction", "end">>,
     collab_waiting_begin           |-> <<"collab_wait", "begin">>,
     collab_waiting_end             |-> <<"collab_wait", "end">>,
     collab_close_begin             |-> <<"collab_close", "begin">>,
     collab_close_end               |-> <<"collab_close", "end">>,
     collab_resume_begin            |-> <<"collab_resume", "begin">>,
     collab_resume_end              |-> <<"collab_resume", "end">>]

DeltaEvents ==
    [agent_message_delta               |-> "message",
     agent_message_content_delta       |-> "message",
     agent_reasoning_delta             |-> "reasoning",
     reasoning_content_delta           |-> "reasoning",
     agent_reasoning_raw_content_delta |-> "reasoning",
     reasoning_raw_content_delta       |-> "reasoning"]

FinalEvents ==
    [agent_message               |-> "message",
     agent_reasoning             |-> "reasoning",
     agent_reasoning_raw_content |-> "reasoning"]

\* The stores, in the order their buckets are pushed.
Families == <<"exec_command", "mcp_tool_call", "web_search",
              "image_generation", "patch_apply", "dynamic_tool_call",
              "collab_spawn", "collab_interaction", "collab_wait",
              "collab_close", "collab_resume">>

\* The proxy's category, which the hub stores and sends as it is.  Whatever
\* codex/event carries is a codex_event; other frames go by their shape.  (The
\* hub guesses the category of rows older than the column; no such row here.)
Methods == {"tools/call", "elicitation/create"}
Category(type) ==
    CASE type \in {"raw_frame", "response", "error"} -> type
      [] type \in Methods                            -> "jsonrpc_request"
      [] OTHER                                       -> "codex_event"

IsTool(e)  == e.type \in DOMAIN ToolEvents
IsDelta(e) == e.type \in DOMAIN DeltaEvents
IsFinal(e) == e.type \in DOMAIN FinalEvents

IsUser(e)   == e.type = "user_message"
IsMethod(e) == Category(e.type) # "codex_event"

\* What the tests after the switch make of an event.
DefaultKind(e) ==
    IF e.type \in ApprovalEventTypes   THEN "approval"
    ELSE IF e.type \in LifecycleTitles THEN "lifecycle"
    ELSE IF IsMethod(e) THEN "mcp_method" ELSE "unknown"

\* What becomes of an event of the assistant that goes into no bucket.
PlainKind(e) ==
    CASE e.type = "agent_message" -> "text"
      [] e.type \in DOMAIN FinalEvents \ {"agent_message"} -> "reasoning"
      [] e.type = "view_image_tool_call" -> "tool"
      [] e.type \in PlanTypes -> "plan"
      [] OTHER -> DefaultKind(e)

Projected(h) ==
    {i \in DOMAIN h :
        Category(h[i].type) \notin {"raw_frame", "response"}}

-----------------------------------------------------------------------------
(* The order of the list.                                                  *)

\* Timestamps are compared as strings, and RFC3339Nano leaves trailing zeros
\* out: the "Z" that takes a digit's place collates after every digit.  One
\* digit after the seconds stands for the three.
StampKey(t) ==
    (t \div Radix) * (Radix + 1) + (IF t % Radix = 0 THEN Radix ELSE t % Radix)

LexLess(a, b) ==
    \E k \in DOMAIN a : a[k] < b[k] /\ \A j \in 1 .. k - 1 : a[j] = b[j]

-----------------------------------------------------------------------------
(* Tool calls.                                                             *)

BucketId(e) == IF e.call # None THEN <<"call", e.call>> ELSE <<"event", e.n>>

BucketOf(e) == <<ToolEvents[e.type][1], BucketId(e)>>

Buckets(h) == {BucketOf(h[i]) : i \in {j \in Projected(h) : IsTool(h[j])}}

Members(h, b) == {i \in DOMAIN h : IsTool(h[i]) /\ BucketOf(h[i]) = b}

Phase(h, b, p) == {i \in Members(h, b) : ToolEvents[h[i].type][2] = p}

\* begin and end are assigned, so the last stands; outputs and interactions
\* are lists.
LastOf(S) == IF S = {} THEN {} ELSE {Max(S)}

Stages(h, b) ==
    <<LastOf(Phase(h, b, "begin")), Phase(h, b, "output"),
      Phase(h, b, "interaction"), LastOf(Phase(h, b, "end"))>>

Anchor(h, b) ==
    LET s == Stages(h, b) IN Min(s[Min({k \in DOMAIN s : s[k] # {}})])

ExecCompletionStatus(m) ==
    CASE m.status = "completed"            -> "complete"
      [] m.status \in {"failed", "declined"} -> "error"
      [] OTHER -> IF m.exit \in {0, None} THEN "complete" ELSE "error"

IsErrorResult(m) == m.err \/ m.isError

ImageCompletionStatus(m) ==
    IF m.status \in {"failed", "error"} THEN "error" ELSE "complete"

\* Mutant: an end without its begin counts as a failure to reach anyone.
OrphanEndFails(begin, end) ==
    IF end.failed \/ begin.keys = {} THEN "error" ELSE "complete"

\* failed: status or one of statuses is errored or not found.  receiver: an id
\* of the thread the call reached.  keys: the keys of the message.
CollabStatus(begin, end) ==
    IF \/ end.failed
       \/ /\ end.keys # {} /\ ~end.receiver
          /\ \/ "new_thread_id" \in end.keys
             \/ "receiver_thread_id" \in begin.keys \cup end.keys
    THEN "error" ELSE "complete"

\* What the end message of each family makes of the call.
ExecFailed(m)    == ExecCompletionStatus(m) = "error"
McpFailed(m)     == IsErrorResult(m)
WebSearchFailed  == FALSE
ImageFailed(m)   == ImageCompletionStatus(m) = "error"
PatchFailed(m)   == ~m.success
DynamicFailed(m) == ~m.success
CollabFailed(begin, m) == CollabStatus(begin, m) = "error"

Failed(f, begin, end) ==
    CASE f = "exec_command"      -> ExecFailed(end)
      [] f = "mcp_tool_call"     -> McpFailed(end)
      [] f = "web_search"        -> WebSearchFailed
      [] f = "image_generation"  -> ImageFailed(end)
      [] f = "patch_apply"       -> PatchFailed(end)
      [] f = "dynamic_tool_call" -> DynamicFailed(end)
      [] OTHER                   -> CollabFailed(begin, end)

ToolStatus(h, b) ==
    LET begins == Stages(h, b)[1]
        ends   == Stages(h, b)[4]
        begin  == IF begins = {} THEN [keys |-> {}] ELSE h[Max(begins)].msg
    IN  IF ends = {} THEN "running"
        ELSE IF Failed(b[1], begin, h[Max(ends)].msg) THEN "error" ELSE "complete"

-----------------------------------------------------------------------------
(* Streams.                                                                *)

StreamBucketId(e) == IF e.turn # None THEN <<"turn", e.turn>> ELSE <<"event", e.n>>

StreamOf(e) == <<DeltaEvents[e.type], StreamBucketId(e)>>

Streams(h) == {StreamOf(h[i]) : i \in {j \in Projected(h) : IsDelta(h[j])}}

Chunks(h, s) == {i \in DOMAIN h : IsDelta(h[i]) /\ StreamOf(h[i]) = s}

\* Mutant: any final event ends every stream before it.
TerminatedByAny(h, s) ==
    \E i \in DOMAIN h : IsFinal(h[i]) /\ \E j \in Chunks(h, s) : j < i

\* A final event terminates the bucket it finds, for good.
Terminated(h, s) ==
    \E i \in DOMAIN h :
        /\ IsFinal(h[i])
        /\ <<FinalEvents[h[i].type], StreamBucketId(h[i])>> = s
        /\ \E j \in Chunks(h, s) : j < i

-----------------------------------------------------------------------------
(* The transcript.                                                         *)

Ids(h, S) == {h[i].n : i \in S}

\* order and push are what the sort falls back on when timestamps are equal.
AlonePart(h, i, kind) ==
    [kind |-> kind, status |-> "none", ids |-> {h[i].n},
     key  |-> <<StampKey(h[i].at), i, 0, i>>]

UserItems(h) ==
    {AlonePart(h, i, "user") : i \in {j \in Projected(h) : IsUser(h[j])}}

PlainItems(h) ==
    {AlonePart(h, i, PlainKind(h[i])) :
        i \in {j \in Projected(h) :
                  ~IsUser(h[j]) /\ ~IsTool(h[j]) /\ ~IsDelta(h[j])}}

FamilyPlace(f) == CHOOSE k \in DOMAIN Families : Families[k] = f

ToolPart(h, b) ==
    [kind |-> "tool", status |-> ToolStatus(h, b),
     ids  |-> Ids(h, UNION Range(Stages(h, b))),
     key  |-> <<StampKey(h[Anchor(h, b)].at), Len(h) + 1, FamilyPlace(b[1]),
                Min(Members(h, b))>>]

ToolItems(h) == {ToolPart(h, b) : b \in Buckets(h)}

StreamPart(h, s) ==
    [kind |-> IF s[1] = "message" THEN "text" ELSE "reasoning",
     status |-> "none", ids |-> Ids(h, Chunks(h, s)),
     key  |-> <<StampKey(h[Min(Chunks(h, s))].at), Min(Chunks(h, s)), 0, 0>>]

StreamItems(h) == {StreamPart(h, s) : s \in {r \in Streams(h) : ~Terminated(h, r)}}

AllItems(h) == UserItems(h) \cup PlainItems(h) \cup ToolItems(h) \cup StreamItems(h)

\* A finite set as a sequence: each member after those that go before it.
InOrder(S, Before(_, _)) ==
    [k \in 1 .. Cardinality(S) |->
        CHOOSE x \in S : Cardinality({y \in S : Before(y, x)}) = k - 1]

Items(h) == InOrder(AllItems(h), LAMBDA a, b : LexLess(a.key, b.key))

\* A user message stands alone, an agent_message ends the assistant's message.
Closes(h, item) ==
    \E i \in DOMAIN h : h[i].n \in item.ids /\ h[i].type = "agent_message"

\* Mutant: a user message does not flush the assistant's.
UserDoesNotFlush(h, items, k) == k = 1 \/ Closes(h, items[k - 1])

StartsMessage(h, items, k) ==
    \/ k = 1
    \/ items[k].kind = "user"
    \/ items[k - 1].kind = "user"
    \/ Closes(h, items[k - 1])

\* The messages, each as the set of places its parts have in items.
Messages(h, items) ==
    LET starts == {k \in DOMAIN items : StartsMessage(h, items, k)}
    IN  {{k \in DOMAIN items : Max({s \in starts : s <= k}) = first} :
            first \in starts}
=============================================================================
