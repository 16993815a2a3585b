------------------------------ MODULE Transcript ------------------------------
(***************************************************************************)
(* A thread as it runs and a tab that watches it: Codex sends the events,  *)
(* the tab holds some of them at any time, in its own order, and shows     *)
(* what AssistantProjection makes of those.  Pages and the stream bring    *)
(* events in any order, and a dropped one comes late or never.             *)
(***************************************************************************)
EXTENDS AssistantProjection

CONSTANTS
    Calls,        \* tool calls, each with its own call id
    ToolFamilies, \* the families a call may be of
    Channels,     \* subset of message, reasoning, raw
    OtherTypes,   \* event types that go into no bucket
    EndMsg(_),    \* what the end event of a family may say
    MaxTurns,     \* bound: turns of the thread
    MaxItems,     \* bound: utterances of a channel in one turn
    MaxEvents,    \* bound: events of the thread
    Epoch,        \* the millisecond the thread starts in
    Gaps          \* the milliseconds from one event to the next

Utterances == (1 .. MaxTurns) \X Channels \X (1 .. MaxItems)

\* What a begin says: a spawn and a wait do not know the receiver yet.
BeginMsg(f) == [keys |-> IF f \in {"collab_interaction", "collab_close",
                                   "collab_resume"}
                         THEN {"receiver_thread_id"} ELSE {"prompt"}]

ASSUME TranscriptAssumption ==
    /\ ToolFamilies \subseteq Range(Families)
    /\ Channels \subseteq {"message", "reasoning", "raw"}
    /\ Gaps \cup {MaxTurns, MaxItems, MaxEvents, Epoch} \subseteq Nat
    /\ None \notin Calls \cup Nat \cup Utterances
    /\ OtherTypes \cap ({"user_message"} \cup DOMAIN ToolEvents
           \cup DOMAIN DeltaEvents \cup DOMAIN FinalEvents) = {}

\* The receiver is looked for in the end message alone.
ASSUME EndNamesReceiver ==
    \A f \in ToolFamilies : "receiver_thread_id" \in BeginMsg(f).keys =>
        \A m \in EndMsg(f) : "receiver_thread_id" \in m.keys

VARIABLES
    shelf,   \* the events sent so far, in the order a tab that has all lists them
    seen,    \* the events the tab has, in the same order
    screen,  \* the parts the tab shows, in order
    family   \* what each call is

vars == <<shelf, seen, screen, family>>

Init ==
    /\ shelf = << >>
    /\ seen = << >>
    /\ screen = Items(seen)
    /\ family \in [Calls -> ToolFamilies]

-----------------------------------------------------------------------------
(* Codex.                                                                  *)

Sent      == Range(shelf)
Now       == Max({e.at : e \in Sent} \cup {Epoch})
Turn      == Max({e.turn : e \in Sent} \cup {0})
Events(u) == {e \in Sent : e.of = u}

DeltaType(ch) == CASE ch = "message"   -> "agent_message_delta"
                   [] ch = "reasoning" -> "agent_reasoning_delta"
                   [] ch = "raw"       -> "agent_reasoning_raw_content_delta"
FinalType(ch) == CASE ch = "message"   -> "agent_message"
                   [] ch = "reasoning" -> "agent_reasoning"
                   [] ch = "raw"       -> "agent_reasoning_raw_content"
ToolType(f, p) == CHOOSE t \in DOMAIN ToolEvents : ToolEvents[t] = <<f, p>>

\* mergeEvents sorts by timestamp, then by event_id, and event ids are random:
\* among the events of its millisecond a new one takes any place.
Send(type, turn, of, call, msg) ==
    /\ Len(shelf) < MaxEvents
    /\ \E at \in IF Sent = {} THEN {Epoch} ELSE {Now + d : d \in Gaps},
          i \in 1 .. Len(shelf) + 1 :
          /\ \A j \in DOMAIN shelf :
                IF j < i THEN StampKey(shelf[j].at) <= StampKey(at)
                         ELSE StampKey(shelf[j].at) >= StampKey(at)
          /\ shelf' = InsertAt(shelf, i,
                 [n |-> Len(shelf) + 1, type |-> type, turn |-> turn, of |-> of,
                  call |-> call, at |-> at, msg |-> msg])
    /\ UNCHANGED <<seen, screen, family>>

UserMessage ==
    /\ Turn < MaxTurns
    /\ Send("user_message", Turn + 1, None, None, None)

\* The utterances of a channel follow one another, and a final ends each.
Speaks(ch) ==
    \E item \in 1 .. MaxItems :
        LET u == <<Turn, ch, item>> IN
        /\ Turn > 0
        /\ \A k \in 1 .. item - 1 : \E e \in Events(<<Turn, ch, k>>) : IsFinal(e)
        /\ \A e \in Events(u) : ~IsFinal(e)
        /\ \/ Send(DeltaType(ch), Turn, u, None, None)
           \/ Send(FinalType(ch), Turn, u, None, None)

SentPhases(c) == {ToolEvents[e.type][2] : e \in {d \in Sent : d.call = c}}

ToolBegins(c) ==
    /\ Turn > 0 /\ SentPhases(c) = {}
    /\ Send(ToolType(family[c], "begin"), Turn, None, c, BeginMsg(family[c]))

ToolProgresses(c) ==
    /\ family[c] = "exec_command"
    /\ SentPhases(c) # {} /\ "end" \notin SentPhases(c)
    /\ \E p \in {"output", "interaction"} :
          Send(ToolType("exec_command", p), Turn, None, c, None)

ToolEnds(c) ==
    /\ SentPhases(c) # {} /\ "end" \notin SentPhases(c)
    /\ \E m \in EndMsg(family[c]) :
          Send(ToolType(family[c], "end"), Turn, None, c, m)

OtherEvent ==
    \E t \in OtherTypes : Turn > 0 /\ Send(t, Turn, None, None, None)

-----------------------------------------------------------------------------
(* The tab.                                                                *)

Listed(S) ==
    LET places == InOrder({i \in DOMAIN shelf : shelf[i] \in S}, <)
    IN  [k \in DOMAIN places |-> shelf[places[k]]]

Arrive(e) ==
    /\ e \in Sent \ Range(seen)
    /\ seen' = Listed(Range(seen) \cup {e})
    /\ screen' = Items(seen')
    /\ UNCHANGED <<shelf, family>>

Next ==
    \/ UserMessage \/ OtherEvent
    \/ \E ch \in Channels : Speaks(ch)
    \/ \E c \in Calls : ToolBegins(c) \/ ToolProgresses(c) \/ ToolEnds(c)
    \/ \E e \in Sent : Arrive(e)

Spec == Init /\ [][Next]_vars

-----------------------------------------------------------------------------
(* What the tab shows.                                                     *)

UtteranceShown ==
    LET shown == UNION {item.ids : item \in Range(screen)} IN
    [u \in Utterances |->
        IF \E e \in Events(u) : IsFinal(e) /\ e.n \in shown THEN "final"
        ELSE IF \E e \in Events(u) : IsDelta(e) /\ e.n \in shown THEN "partial"
        ELSE "absent"]

CallShown ==
    [c \in Calls |->
        LET of == {item \in Range(screen) :
                      \E e \in Sent : e.call = c /\ e.n \in item.ids}
        IN  IF of = {} THEN "absent" ELSE (CHOOSE item \in of : TRUE).status]

-----------------------------------------------------------------------------
(* Properties.                                                             *)

Wire(e)  == Category(e.type) \in {"raw_frame", "response"}
Shows(e) == Cardinality({k \in DOMAIN screen : e.n \in screen[k].ids})

\* The utterances that go into one bucket with u: a bucket is of a turn, all
\* that a channel says in it comes there, and raw and summarised reasoning meet.
Sharers(u) == {v \in Utterances :
                  /\ v[1] = u[1]
                  /\ DeltaEvents[DeltaType(v[2])] = DeltaEvents[DeltaType(u[2])]}

Superseded(e) ==
    /\ IsDelta(e)
    /\ \E i, j \in DOMAIN seen :
          /\ i < j /\ IsDelta(seen[i]) /\ IsFinal(seen[j])
          /\ {seen[i].of, seen[j].of} \subseteq Sharers(e.of)

\* Whatever the order of arrival, ties and misplaced stamps, the transcript
\* shows each event the tab has once: none is lost in a bucket or shown by two,
\* and an event is left out only when it is wire traffic or a delta that a final
\* wording supersedes, its own when the utterance has its bucket to itself.
EachEventOnce ==
    \A e \in Range(seen) :
        Shows(e) = IF Superseded(e) \/ Wire(e) THEN 0 ELSE 1

\* Where stamps tell the events apart and the tab has the prompt of each event's
\* turn and the begin of its call, a message is of one turn: an answer is not run
\* into the answer before it, and a call that ends late stays with the turn it
\* began in.
TurnsDoNotMix ==
    LET TurnOf(k) == (CHOOSE e \in Sent : e.n = Min(screen[k].ids)).turn
    IN  (/\ \A i, j \in DOMAIN seen :
               i < j => /\ seen[i].n < seen[j].n
                        /\ StampKey(seen[i].at) < StampKey(seen[j].at)
         /\ \A e \in Range(seen) : \E d \in Range(seen) :
               d.type = "user_message" /\ d.turn = e.turn
         /\ \A e \in Range(seen) : IsTool(e) => \E d \in Range(seen) :
               IsTool(d) /\ d.call = e.call /\ ToolEvents[d.type][2] = "begin")
        => \A m \in Messages(seen, screen) : \A k, l \in m : TurnOf(k) = TurnOf(l)

\* The transcript keeps ThreadStory's promise as events come in, in any order.
Story == INSTANCE ThreadStory WITH
    Crowded   <- {u \in Utterances : Sharers(u) # {u}},
    utterance <- UtteranceShown,
    call      <- CallShown
KeepsTheStory == Story!Spec

\* "keeps unfinished streaming deltas visible and drops them once terminal
\* events arrive" (assistant-projection.test.ts:563), of each utterance.
UnfinishedStaysVisible ==
    LET shown == UtteranceShown IN
    \A u \in Utterances :
        (/\ \E e \in Events(u) : IsDelta(e) /\ e \in Range(seen)
         /\ \A e \in Events(u) : ~IsFinal(e))
        => shown[u] = "partial"
=============================================================================
