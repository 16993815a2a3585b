-------------------------- MODULE TranscriptProofs --------------------------
(***************************************************************************)
(* Proofs about Transcript: each event the tab has is shown once, turns do *)
(* not mix, and the transcript implements ThreadStory.                     *)
(***************************************************************************)
EXTENDS Transcript, DataLemmas

-----------------------------------------------------------------------------
(* The tables of event types.                                              *)

Phases == {"begin", "output", "interaction", "end"}

\* The events that go into buckets of tools or streams, finals and prompts are
\* different ones, and none of them is wire traffic.
LEMMA TypesApart ==
    /\ "user_message" \notin DOMAIN ToolEvents \cup DOMAIN DeltaEvents
                                \cup DOMAIN FinalEvents
    /\ DOMAIN ToolEvents \cap DOMAIN DeltaEvents = {}
    /\ DOMAIN ToolEvents \cap DOMAIN FinalEvents = {}
    /\ DOMAIN DeltaEvents \cap DOMAIN FinalEvents = {}
    /\ \A t \in {"user_message"} \cup DOMAIN ToolEvents \cup DOMAIN DeltaEvents
                    \cup DOMAIN FinalEvents :
          Category(t) = "codex_event"
<1>1. /\ "user_message" \notin DOMAIN ToolEvents \cup DOMAIN DeltaEvents
                                \cup DOMAIN FinalEvents
      /\ DOMAIN DeltaEvents \cap DOMAIN FinalEvents = {}
  BY DEF ToolEvents, DeltaEvents, FinalEvents
<1>2. DOMAIN ToolEvents \cap DOMAIN DeltaEvents = {}
  BY DEF ToolEvents, DeltaEvents
<1>3. DOMAIN ToolEvents \cap DOMAIN FinalEvents = {}
  BY DEF ToolEvents, FinalEvents
<1>4. ASSUME NEW t \in DOMAIN ToolEvents PROVE Category(t) = "codex_event"
  BY DEF ToolEvents, Category, Methods
<1>5. ASSUME NEW t \in {"user_message"} \cup DOMAIN DeltaEvents \cup DOMAIN FinalEvents
      PROVE  Category(t) = "codex_event"
  BY DEF DeltaEvents, FinalEvents, Category, Methods
<1> QED BY <1>1, <1>2, <1>3, <1>4, <1>5

\* Every event of a tool call is of one of the families and of one phase.
LEMMA ToolTable ==
    \A t \in DOMAIN ToolEvents :
        /\ ToolEvents[t] = <<ToolEvents[t][1], ToolEvents[t][2]>>
        /\ \E k \in DOMAIN Families : Families[k] = ToolEvents[t][1]
        /\ ToolEvents[t][2] \in Phases
<1> SUFFICES ASSUME NEW t \in DOMAIN ToolEvents
             PROVE  /\ ToolEvents[t] = <<ToolEvents[t][1], ToolEvents[t][2]>>
                    /\ \E k \in DOMAIN Families : Families[k] = ToolEvents[t][1]
                    /\ ToolEvents[t][2] \in Phases
  OBVIOUS
<1>1. ToolEvents[t] = <<ToolEvents[t][1], ToolEvents[t][2]>> /\ ToolEvents[t][2] \in Phases
  BY DEF ToolEvents, Phases
<1>2. /\ DOMAIN Families = 1 .. 11
      /\ Families[1] = "exec_command" /\ Families[2] = "mcp_tool_call"
      /\ Families[3] = "web_search" /\ Families[4] = "image_generation"
      /\ Families[5] = "patch_apply" /\ Families[6] = "dynamic_tool_call"
      /\ Families[7] = "collab_spawn" /\ Families[8] = "collab_interaction"
      /\ Families[9] = "collab_wait" /\ Families[10] = "collab_close"
      /\ Families[11] = "collab_resume"
  BY DEF Families
<1>3. ToolEvents[t][1] \in
        {"exec_command", "mcp_tool_call", "web_search", "image_generation",
         "patch_apply", "dynamic_tool_call", "collab_spawn", "collab_interaction",
         "collab_wait", "collab_close", "collab_resume"}
  BY DEF ToolEvents
<1>4. \E k \in DOMAIN Families : Families[k] = ToolEvents[t][1]
  BY <1>2, <1>3
<1> QED BY <1>1, <1>4

\* The type of an event of a call, from its family and phase.
LEMMA ToolTypes ==
    /\ \A f \in Range(Families), p \in {"begin", "end"} :
          /\ ToolType(f, p) \in DOMAIN ToolEvents
          /\ ToolEvents[ToolType(f, p)] = <<f, p>>
    /\ \A p \in {"output", "interaction"} :
          /\ ToolType("exec_command", p) \in DOMAIN ToolEvents
          /\ ToolEvents[ToolType("exec_command", p)] = <<"exec_command", p>>
<1>1. ASSUME NEW f \in Range(Families), NEW p \in {"begin", "end"}
      PROVE  \E t \in DOMAIN ToolEvents : ToolEvents[t] = <<f, p>>
  <2>1. f \in {"exec_command", "mcp_tool_call", "web_search", "image_generation",
         "patch_apply", "dynamic_tool_call", "collab_spawn", "collab_interaction",
         "collab_wait", "collab_close", "collab_resume"}
    BY DEF Range, Families
  <2> QED BY <2>1 DEF ToolEvents
<1>2. ASSUME NEW p \in {"output", "interaction"}
      PROVE  \E t \in DOMAIN ToolEvents : ToolEvents[t] = <<"exec_command", p>>
  BY DEF ToolEvents
<1> QED BY <1>1, <1>2 DEF ToolType

\* What a channel streams into, and the types it uses.
StreamKind(ch) == IF ch = "message" THEN "message" ELSE "reasoning"

LEMMA StreamTypes ==
    \A ch \in Channels :
        /\ DeltaType(ch) \in DOMAIN DeltaEvents
        /\ DeltaEvents[DeltaType(ch)] = StreamKind(ch)
        /\ FinalType(ch) \in DOMAIN FinalEvents
        /\ FinalEvents[FinalType(ch)] = StreamKind(ch)
BY TranscriptAssumption DEF DeltaType, FinalType, DeltaEvents, FinalEvents, StreamKind

-----------------------------------------------------------------------------
(* Lists of events.                                                        *)

Types == {"user_message"} \cup DOMAIN ToolEvents \cup DOMAIN DeltaEvents
             \cup DOMAIN FinalEvents \cup OtherTypes

Msgs == {None} \cup {BeginMsg(f) : f \in ToolFamilies}
            \cup UNION {EndMsg(f) : f \in ToolFamilies}

EventType == [n : Nat \ {0}, type : Types, turn : 1 .. MaxTurns,
              of : Utterances \cup {None},
              call : Calls \cup {None}, at : Nat, msg : Msgs]

PhaseOf(e) == ToolEvents[e.type][2]

\* A list with each event once, and of a tool call one begin and one end.
Tidy(h) ==
    /\ h \in Seq(EventType)
    /\ \A i, j \in DOMAIN h : h[i].n = h[j].n => i = j
    /\ \A i, j \in DOMAIN h :
          /\ IsTool(h[i]) /\ IsTool(h[j]) /\ BucketOf(h[i]) = BucketOf(h[j])
          /\ PhaseOf(h[i]) = PhaseOf(h[j]) /\ PhaseOf(h[i]) \in {"begin", "end"}
          => i = j

LEMMA ListFacts ==
    ASSUME NEW h, Tidy(h)
    PROVE  /\ Len(h) \in Nat
           /\ DOMAIN h = 1 .. Len(h)
           /\ IsFiniteSet(DOMAIN h)
           /\ \A i \in DOMAIN h : h[i] \in EventType
<1>1. /\ Len(h) \in Nat /\ DOMAIN h = 1 .. Len(h)
      /\ \A i \in DOMAIN h : h[i] \in EventType
  BY DEF Tidy
<1>2. IsFiniteSet(1 .. Len(h))
  BY <1>1, FS_Interval
<1> QED BY <1>1, <1>2

\* The greatest and the least of some places of a list are among them.
LEMMA PlaceBounds ==
    ASSUME NEW n \in Nat, NEW T, T \subseteq 1 .. n, T # {}
    PROVE  /\ Max(T) \in T /\ \A i \in T : i <= Max(T)
           /\ Min(T) \in T /\ \A i \in T : Min(T) <= i
<1>1. T \subseteq Nat /\ \A i \in T : i <= n
  OBVIOUS
<1>2. PICK hi \in T : \A i \in T : i <= hi
  BY <1>1, GreatestExists
<1>3. PICK lo \in T : \A i \in T : lo <= i
  BY <1>1, LeastExists
<1>4. \A i \in T : hi >= i
  BY <1>1, <1>2
<1>5. Max(T) \in T /\ \A i \in T : Max(T) >= i
  BY <1>4 DEF Max
<1>6. Min(T) \in T /\ \A i \in T : Min(T) <= i
  BY <1>3 DEF Min
<1> QED BY <1>1, <1>5, <1>6

\* The ids of some places are those of the events there.
LEMMA IdsOf ==
    ASSUME NEW h, Tidy(h), NEW S, S \subseteq DOMAIN h, NEW i \in DOMAIN h
    PROVE  h[i].n \in Ids(h, S) <=> i \in S
BY DEF Tidy, Ids

-----------------------------------------------------------------------------
(* The buckets of tool calls.                                              *)

\* A bucket has one begin and one end, so the last that came is the one.
LEMMA LastStands ==
    ASSUME NEW h, Tidy(h), NEW b, NEW p \in {"begin", "end"}
    PROVE  /\ LastOf(Phase(h, b, p)) = Phase(h, b, p)
           /\ \A i \in Phase(h, b, p) : Max(Phase(h, b, p)) = i
<1>1. \A i, j \in Phase(h, b, p) : i = j
  BY DEF Phase, Members, Tidy, PhaseOf
<1>2. ASSUME Phase(h, b, p) # {} PROVE Max(Phase(h, b, p)) \in Phase(h, b, p)
  <2>1. Phase(h, b, p) \subseteq 1 .. Len(h) /\ Len(h) \in Nat
    BY ListFacts DEF Phase, Members
  <2> QED BY <1>2, <2>1, PlaceBounds
<1>3. Phase(h, b, p) # {} => LastOf(Phase(h, b, p)) = {Max(Phase(h, b, p))}
  BY DEF LastOf
<1>4. Phase(h, b, p) = {} => LastOf(Phase(h, b, p)) = {}
  BY DEF LastOf
<1> QED BY <1>1, <1>2, <1>3, <1>4

\* The stages of a bucket hold all its events, and an event of each begins it.
LEMMA StagesHold ==
    ASSUME NEW h, Tidy(h), NEW b
    PROVE  /\ UNION Range(Stages(h, b)) = Members(h, b)
           /\ Members(h, b) # {} => Anchor(h, b) \in Members(h, b)
           /\ Phase(h, b, "begin") # {} => Anchor(h, b) \in Phase(h, b, "begin")
<1> DEFINE s == Stages(h, b)
           filled == {k \in DOMAIN s : s[k] # {}}
<1>1. Len(h) \in Nat /\ DOMAIN h = 1 .. Len(h)
  BY ListFacts
<1>2. \A p \in {"begin", "end"} : LastOf(Phase(h, b, p)) = Phase(h, b, p)
  BY LastStands
<1>3. /\ DOMAIN s = 1 .. 4
      /\ s[1] = Phase(h, b, "begin") /\ s[2] = Phase(h, b, "output")
      /\ s[3] = Phase(h, b, "interaction") /\ s[4] = Phase(h, b, "end")
  BY <1>2 DEF Stages
<1> HIDE DEF s
<1>4. \A i \in Members(h, b) : \E p \in Phases : i \in Phase(h, b, p)
  BY ToolTable DEF Members, Phase, IsTool
<1>5. \A p \in Phases : Phase(h, b, p) \subseteq Members(h, b)
  BY DEF Phase
<1>6. UNION Range(s) = Members(h, b)
  <2>1. \A k \in DOMAIN s : s[k] \subseteq Members(h, b)
    BY <1>3, <1>5 DEF Phases
  <2>2. \A i \in Members(h, b) : \E k \in DOMAIN s : i \in s[k]
    BY <1>3, <1>4 DEF Phases
  <2> QED BY <2>1, <2>2 DEF Range
<1>7. ASSUME filled # {}
      PROVE  /\ Min(filled) \in filled /\ \A k \in filled : Min(filled) <= k
             /\ Anchor(h, b) \in s[Min(filled)]
             /\ \A k \in filled : s[k] \subseteq Members(h, b)
  <2>1. \A k \in DOMAIN s : s[k] \subseteq Members(h, b)
    BY <1>3, <1>5 DEF Phases
  <2>2. filled \subseteq 1 .. 4
    BY <1>3
  <2>3. Min(filled) \in filled /\ \A k \in filled : Min(filled) <= k
    <3> HIDE DEF filled
    <3> QED BY <1>7, <2>2, PlaceBounds
  <2>4. s[Min(filled)] # {} /\ s[Min(filled)] \subseteq 1 .. Len(h)
    BY <1>1, <2>1, <2>3 DEF Members
  <2>5. Min(s[Min(filled)]) \in s[Min(filled)]
    BY <1>1, <2>4, PlaceBounds
  <2>6. Anchor(h, b) = Min(s[Min(filled)])
    BY DEF Anchor, s
  <2> QED BY <2>1, <2>3, <2>5, <2>6
<1>8. Members(h, b) # {} => Anchor(h, b) \in Members(h, b)
  <2>1. Members(h, b) # {} => filled # {}
    BY <1>3, <1>4 DEF Phases
  <2>2. filled \subseteq DOMAIN s
    OBVIOUS
  <2> HIDE DEF filled
  <2> QED BY <1>7, <2>1
<1>9. ASSUME Phase(h, b, "begin") # {} PROVE Anchor(h, b) \in Phase(h, b, "begin")
  <2>1. 1 \in filled /\ filled \subseteq 1 .. 4
    BY <1>3, <1>9
  <2> HIDE DEF filled
  <2>2. PICK k \in filled : k <= 1 /\ Anchor(h, b) \in s[k]
    BY <1>7, <2>1
  <2>3. k = 1
    BY <2>1, <2>2
  <2> QED BY <1>3, <2>2, <2>3
<1> QED BY <1>6, <1>8, <1>9 DEF s

-----------------------------------------------------------------------------
(* The items.                                                              *)

\* The places an item stands for, by what kind of event is there.
LEMMA ItemOfEvent ==
    ASSUME NEW h, Tidy(h), NEW i \in DOMAIN h, NEW x \in AllItems(h), h[i].n \in x.ids
    PROVE  \/ IsUser(h[i]) /\ x = AlonePart(h, i, "user")
           \/ /\ ~IsUser(h[i]) /\ ~IsTool(h[i]) /\ ~IsDelta(h[i])
              /\ x = AlonePart(h, i, PlainKind(h[i])) /\ i \in Projected(h)
           \/ IsTool(h[i]) /\ x = ToolPart(h, BucketOf(h[i]))
           \/ /\ IsDelta(h[i]) /\ x = StreamPart(h, StreamOf(h[i]))
              /\ ~Terminated(h, StreamOf(h[i]))
<1>1. CASE x \in UserItems(h)
  <2>1. PICK j \in Projected(h) : IsUser(h[j]) /\ x = AlonePart(h, j, "user")
    BY <1>1 DEF UserItems
  <2>2. i = j
    BY <2>1 DEF AlonePart, Projected, Tidy
  <2> QED BY <2>1, <2>2
<1>2. CASE x \in PlainItems(h)
  <2>1. PICK j \in Projected(h) :
           /\ ~IsUser(h[j]) /\ ~IsTool(h[j]) /\ ~IsDelta(h[j])
           /\ x = AlonePart(h, j, PlainKind(h[j]))
    BY <1>2 DEF PlainItems
  <2>2. i = j
    BY <2>1 DEF AlonePart, Projected, Tidy
  <2> QED BY <2>1, <2>2
<1>3. CASE x \in ToolItems(h)
  <2>1. PICK b : x = ToolPart(h, b)
    BY <1>3 DEF ToolItems
  <2>2. x.ids = Ids(h, Members(h, b))
    BY <2>1, StagesHold DEF ToolPart
  <2>3. i \in Members(h, b)
    BY <2>2, IdsOf DEF Members
  <2> QED BY <2>1, <2>3 DEF Members
<1>4. CASE x \in StreamItems(h)
  <2>1. PICK r \in Streams(h) : x = StreamPart(h, r) /\ ~Terminated(h, r)
    BY <1>4 DEF StreamItems
  <2>2. x.ids = Ids(h, Chunks(h, r))
    BY <2>1 DEF StreamPart
  <2>3. i \in Chunks(h, r)
    BY <2>2, IdsOf DEF Chunks
  <2> QED BY <2>1, <2>3 DEF Chunks
<1> QED BY <1>1, <1>2, <1>3, <1>4 DEF AllItems

\* An event left out: wire traffic, or a delta of a stream that has ended.
Hidden(h, e) == Wire(e) \/ (IsDelta(e) /\ Terminated(h, StreamOf(e)))

\* The item of an event that is not left out.
LEMMA EventHasItem ==
    ASSUME NEW h, Tidy(h), NEW i \in DOMAIN h, ~Hidden(h, h[i])
    PROVE  \E x \in AllItems(h) : h[i].n \in x.ids
<1>0. i \in Projected(h)
  BY DEF Hidden, Wire, Projected
<1>1. CASE IsUser(h[i])
  <2>1. AlonePart(h, i, "user") \in AllItems(h)
    BY <1>0, <1>1 DEF AllItems, UserItems
  <2> QED BY <2>1 DEF AlonePart
<1>2. CASE ~IsUser(h[i]) /\ ~IsTool(h[i]) /\ ~IsDelta(h[i])
  <2>1. AlonePart(h, i, PlainKind(h[i])) \in AllItems(h)
    BY <1>0, <1>2 DEF AllItems, PlainItems
  <2> QED BY <2>1 DEF AlonePart
<1>3. CASE IsTool(h[i])
  <2> DEFINE b == BucketOf(h[i])
  <2>1. ToolPart(h, b) \in AllItems(h)
    BY <1>0, <1>3 DEF AllItems, ToolItems, Buckets
  <2>2. ToolPart(h, b).ids = Ids(h, Members(h, b))
    BY StagesHold DEF ToolPart
  <2>3. i \in Members(h, b) /\ Members(h, b) \subseteq DOMAIN h
    BY <1>3 DEF Members
  <2>4. h[i].n \in ToolPart(h, b).ids
    BY <2>2, <2>3, IdsOf
  <2> QED BY <2>1, <2>4
<1>4. CASE IsDelta(h[i])
  <2> DEFINE r == StreamOf(h[i])
  <2>1. StreamPart(h, r) \in AllItems(h)
    BY <1>0, <1>4 DEF AllItems, StreamItems, Streams, Hidden
  <2>2. i \in Chunks(h, r) /\ Chunks(h, r) \subseteq DOMAIN h
    BY <1>4 DEF Chunks
  <2>3. h[i].n \in StreamPart(h, r).ids
    BY <2>2, IdsOf DEF StreamPart
  <2> QED BY <2>1, <2>3
<1> QED BY <1>1, <1>2, <1>3, <1>4

\* An event that is left out has none, and no event has two.
LEMMA EventHasOneItem ==
    ASSUME NEW h, Tidy(h), NEW i \in DOMAIN h,
           NEW x \in AllItems(h), h[i].n \in x.ids
    PROVE  /\ ~Hidden(h, h[i])
           /\ \A y \in AllItems(h) : h[i].n \in y.ids => y = x
<1> DEFINE e == h[i]
           alone == ~IsUser(e) /\ ~IsTool(e) /\ ~IsDelta(e)
<1>1. /\ ~(IsUser(e) /\ IsTool(e)) /\ ~(IsUser(e) /\ IsDelta(e))
      /\ ~(IsTool(e) /\ IsDelta(e))
      /\ IsUser(e) \/ IsTool(e) \/ IsDelta(e) => ~Wire(e)
  BY TypesApart DEF IsUser, IsTool, IsDelta, Wire
<1>2. ASSUME NEW y \in AllItems(h), e.n \in y.ids
      PROVE  \/ IsUser(e) /\ y = AlonePart(h, i, "user")
             \/ alone /\ y = AlonePart(h, i, PlainKind(e)) /\ i \in Projected(h)
             \/ IsTool(e) /\ y = ToolPart(h, BucketOf(e))
             \/ IsDelta(e) /\ y = StreamPart(h, StreamOf(e)) /\ ~Terminated(h, StreamOf(e))
  BY <1>2, ItemOfEvent
<1>3. i \in Projected(h) => ~Wire(e)
  BY DEF Projected, Wire
<1>4. e.n \in x.ids
  OBVIOUS
<1>5. \A y \in AllItems(h) : e.n \in y.ids => y = x
  <2> HIDE DEF e
  <2> QED BY <1>1, <1>2, <1>4
<1>6. ~Hidden(h, e)
  <2> HIDE DEF e
  <2> QED BY <1>1, <1>2, <1>3, <1>4 DEF Hidden
<1> QED BY <1>5, <1>6

LEMMA StampKeyInt ==
    ASSUME NEW t \in Nat
    PROVE  StampKey(t) \in Int
<1>1. t \div Radix \in Int /\ t % Radix \in Int
  BY RadixAssumption
<1> QED BY <1>1, RadixAssumption DEF StampKey

\* The parts of keys, and that the last three tell items apart.
LEMMA ItemKeys ==
    ASSUME NEW h, Tidy(h)
    PROVE  /\ \A x \in AllItems(h) : x.key \in Int \X Int \X Int \X Int
           /\ \A x, y \in AllItems(h) : x.key = y.key => x = y
<1>1. Len(h) \in Nat /\ DOMAIN h = 1 .. Len(h) /\ \A i \in DOMAIN h : h[i] \in EventType
  BY ListFacts
<1>2. ASSUME NEW i \in DOMAIN h PROVE StampKey(h[i].at) \in Int /\ i \in Int
  <2>1. h[i].at \in Nat
    BY <1>1 DEF EventType
  <2> QED BY <1>1, <2>1, StampKeyInt
<1>3. ASSUME NEW x \in UserItems(h) \cup PlainItems(h)
      PROVE  \E i \in DOMAIN h :
                /\ x.key = <<StampKey(h[i].at), i, 0, i>>
                /\ IsUser(h[i]) => x = AlonePart(h, i, "user")
                /\ ~IsUser(h[i]) => x = AlonePart(h, i, PlainKind(h[i]))
  BY DEF UserItems, PlainItems, AlonePart, Projected
<1>4. ASSUME NEW x \in ToolItems(h)
      PROVE  \E i, j \in DOMAIN h, f \in Int :
                /\ x.key = <<StampKey(h[i].at), Len(h) + 1, f, j>>
                /\ x = ToolPart(h, BucketOf(h[j]))
  <2>1. PICK k \in DOMAIN h : IsTool(h[k]) /\ x = ToolPart(h, BucketOf(h[k]))
    BY DEF ToolItems, Buckets, Projected
  <2> DEFINE b == BucketOf(h[k])
             j == Min(Members(h, b))
  <2>2. k \in Members(h, b) /\ Members(h, b) \subseteq 1 .. Len(h)
    BY <1>1, <2>1 DEF Members
  <2>3. j \in Members(h, b)
    BY <1>1, <2>2, PlaceBounds
  <2>4. Anchor(h, b) \in DOMAIN h
    BY <2>2, StagesHold DEF Members
  <2>5. FamilyPlace(b[1]) \in Int
    <3>1. b[1] = ToolEvents[h[k].type][1]
      BY DEF BucketOf
    <3>2. \E m \in DOMAIN Families : Families[m] = b[1]
      BY <2>1, <3>1, ToolTable DEF IsTool
    <3>3. FamilyPlace(b[1]) \in DOMAIN Families
      BY <3>2 DEF FamilyPlace
    <3> QED BY <3>3 DEF Families
  <2>6. BucketOf(h[j]) = b /\ j \in DOMAIN h
    BY <2>3 DEF Members
  <2>7. x.key = <<StampKey(h[Anchor(h, b)].at), Len(h) + 1, FamilyPlace(b[1]), j>>
    BY <2>1 DEF ToolPart
  <2> HIDE DEF j
  <2>8. x = ToolPart(h, BucketOf(h[j]))
    BY <2>1, <2>6
  <2> HIDE DEF b
  <2> QED BY <2>4, <2>5, <2>6, <2>7, <2>8
<1>5. ASSUME NEW x \in StreamItems(h)
      PROVE  \E i \in DOMAIN h : /\ x.key = <<StampKey(h[i].at), i, 0, 0>>
                                 /\ x = StreamPart(h, StreamOf(h[i]))
  <2>1. PICK k \in DOMAIN h : IsDelta(h[k]) /\ x = StreamPart(h, StreamOf(h[k]))
    BY DEF StreamItems, Streams, Projected
  <2> DEFINE r == StreamOf(h[k])
             i == Min(Chunks(h, r))
  <2>2. k \in Chunks(h, r) /\ Chunks(h, r) \subseteq 1 .. Len(h)
    BY <1>1, <2>1 DEF Chunks
  <2>3. i \in Chunks(h, r)
    BY <1>1, <2>2, PlaceBounds
  <2>4. i \in DOMAIN h /\ StreamOf(h[i]) = r
    BY <2>3 DEF Chunks
  <2>5. x.key = <<StampKey(h[i].at), i, 0, 0>>
    BY <2>1 DEF StreamPart
  <2> QED BY <2>1, <2>4, <2>5
<1>6. ASSUME NEW x \in AllItems(h) PROVE x.key \in Int \X Int \X Int \X Int
  <2>1. \E i, j \in DOMAIN h, f \in Int :
           \/ x.key = <<StampKey(h[i].at), i, 0, i>>
           \/ x.key = <<StampKey(h[i].at), Len(h) + 1, f, j>>
           \/ x.key = <<StampKey(h[i].at), i, 0, 0>>
    <3>1. CASE x \in UserItems(h) \cup PlainItems(h)
      BY <1>3, <3>1
    <3>2. CASE x \in ToolItems(h)
      BY <1>4, <3>2
    <3>3. CASE x \in StreamItems(h)
      BY <1>5, <3>3
    <3> QED BY <3>1, <3>2, <3>3 DEF AllItems
  <2>2. PICK i \in DOMAIN h, j \in DOMAIN h, f \in Int :
           \/ x.key = <<StampKey(h[i].at), i, 0, i>>
           \/ x.key = <<StampKey(h[i].at), Len(h) + 1, f, j>>
           \/ x.key = <<StampKey(h[i].at), i, 0, 0>>
    BY <2>1
  <2>3. StampKey(h[i].at) \in Int /\ i \in Int /\ Len(h) + 1 \in Int /\ j \in Int
    BY <1>1, <1>2
  <2> DEFINE stamp == StampKey(h[i].at)
             last == Len(h) + 1
  <2>4. /\ stamp \in Int /\ last \in Int /\ i \in Int /\ j \in Int
        /\ \/ x.key = <<stamp, i, 0, i>>
           \/ x.key = <<stamp, last, f, j>>
           \/ x.key = <<stamp, i, 0, 0>>
    BY <2>2, <2>3
  <2> HIDE DEF stamp, last
  <2> QED BY <2>4
<1>7. ASSUME NEW x \in AllItems(h), NEW y \in AllItems(h), x.key = y.key PROVE x = y
  <2> DEFINE alone == UserItems(h) \cup PlainItems(h)
  <2>1. ASSUME NEW z \in alone
        PROVE  \E i \in DOMAIN h :
                  /\ z.key[2] = i /\ z.key[4] = i
                  /\ IsUser(h[i]) => z = AlonePart(h, i, "user")
                  /\ ~IsUser(h[i]) => z = AlonePart(h, i, PlainKind(h[i]))
    BY <1>3
  <2>2. ASSUME NEW z \in ToolItems(h)
        PROVE  \E j \in DOMAIN h : /\ z.key[2] = Len(h) + 1 /\ z.key[4] = j
                                   /\ z = ToolPart(h, BucketOf(h[j]))
    <3>1. PICK i \in DOMAIN h, j \in DOMAIN h, f \in Int :
             /\ z.key = <<StampKey(h[i].at), Len(h) + 1, f, j>>
             /\ z = ToolPart(h, BucketOf(h[j]))
      BY <1>4
    <3> QED BY <3>1
  <2>3. ASSUME NEW z \in StreamItems(h)
        PROVE  \E i \in DOMAIN h : /\ z.key[2] = i /\ z.key[4] = 0
                                   /\ z = StreamPart(h, StreamOf(h[i]))
    BY <1>5
  <2>4. /\ x \in alone \/ x \in ToolItems(h) \/ x \in StreamItems(h)
        /\ y \in alone \/ y \in ToolItems(h) \/ y \in StreamItems(h)
    BY DEF AllItems
  <2> DEFINE place == x.key[2]
             index == x.key[4]
  <2>5. y.key[2] = place /\ y.key[4] = index
    BY <1>7
  <2> HIDE DEF alone, place, index
  <2>6. CASE x \in alone
    <3>1. place = index /\ index \in DOMAIN h
      BY <2>1, <2>6 DEF place, index
    <3>2. ~(y \in ToolItems(h)) /\ ~(y \in StreamItems(h))
      BY <1>1, <2>2, <2>3, <2>5, <3>1
    <3> QED BY <2>1, <2>4, <2>5, <2>6, <3>2 DEF place, index
  <2>7. CASE x \in ToolItems(h)
    <3>1. place = Len(h) + 1
      BY <2>2, <2>7 DEF place
    <3>2. ~(y \in alone) /\ ~(y \in StreamItems(h))
      BY <1>1, <2>1, <2>3, <2>5, <3>1
    <3> QED BY <2>2, <2>4, <2>5, <2>7, <3>2 DEF index
  <2>8. CASE x \in StreamItems(h)
    <3>1. place \in DOMAIN h /\ index = 0
      BY <2>3, <2>8 DEF place, index
    <3>2. ~(y \in alone) /\ ~(y \in ToolItems(h))
      BY <1>1, <2>1, <2>2, <2>5, <3>1
    <3> QED BY <2>3, <2>4, <2>5, <2>8, <3>2 DEF place
  <2> QED BY <2>4, <2>6, <2>7, <2>8
<1> QED BY <1>6, <1>7

\* The items of a list are finitely many.
LEMMA ItemsFinite ==
    ASSUME NEW h, Tidy(h)
    PROVE  IsFiniteSet(AllItems(h))
<1>1. IsFiniteSet(DOMAIN h)
  BY ListFacts
<1>2. ASSUME NEW x \in AllItems(h) PROVE \E i \in DOMAIN h : h[i].n \in x.ids
  <2>1. CASE x \in UserItems(h) \cup PlainItems(h)
    BY <2>1 DEF UserItems, PlainItems, AlonePart, Projected
  <2>2. CASE x \in ToolItems(h)
    <3>1. PICK k \in DOMAIN h : IsTool(h[k]) /\ x = ToolPart(h, BucketOf(h[k]))
      BY <2>2 DEF ToolItems, Buckets, Projected
    <3>2. x.ids = Ids(h, Members(h, BucketOf(h[k])))
      BY <3>1, StagesHold DEF ToolPart
    <3>3. k \in Members(h, BucketOf(h[k]))
      BY <3>1 DEF Members
    <3> QED BY <3>2, <3>3 DEF Ids
  <2>3. CASE x \in StreamItems(h)
    <3>1. PICK k \in DOMAIN h : IsDelta(h[k]) /\ x = StreamPart(h, StreamOf(h[k]))
      BY <2>3 DEF StreamItems, Streams, Projected
    <3>2. k \in Chunks(h, StreamOf(h[k]))
      BY <3>1 DEF Chunks
    <3> QED BY <3>1, <3>2 DEF StreamPart, Ids
  <2> QED BY <2>1, <2>2, <2>3 DEF AllItems
<1> DEFINE P == {i \in DOMAIN h : \E x \in AllItems(h) : h[i].n \in x.ids}
           itemAt == [i \in P |-> CHOOSE x \in AllItems(h) : h[i].n \in x.ids]
<1>3. IsFiniteSet(P)
  <2>1. P \in SUBSET DOMAIN h
    OBVIOUS
  <2> HIDE DEF P
  <2> QED BY <1>1, <2>1, FS_Subset
<1>4. \A i \in P : itemAt[i] \in AllItems(h) /\ h[i].n \in itemAt[i].ids
  OBVIOUS
<1>5. \A x \in AllItems(h) : \E i \in P : itemAt[i] = x
  <2> SUFFICES ASSUME NEW x \in AllItems(h) PROVE \E i \in P : itemAt[i] = x
    OBVIOUS
  <2>1. PICK i \in DOMAIN h : h[i].n \in x.ids
    BY <1>2
  <2>2. i \in P
    BY <2>1
  <2>3. itemAt[i] = x
    <3> HIDE DEF itemAt
    <3> QED BY <1>4, <2>1, <2>2, EventHasOneItem
  <2> QED BY <2>2, <2>3
<1>6. itemAt \in Surjection(P, AllItems(h))
  <2>1. itemAt \in [P -> AllItems(h)]
    BY <1>4
  <2> HIDE DEF P, itemAt
  <2> QED BY <1>5, <2>1 DEF Surjection
<1> HIDE DEF P, itemAt
<1> QED BY <1>3, <1>6, FS_Surjection

\* LexLess on keys is a total order.
LEMMA LexFour ==
    ASSUME NEW a \in Int \X Int \X Int \X Int, NEW b \in Int \X Int \X Int \X Int
    PROVE  LexLess(a, b) <=>
              \/ a[1] < b[1]
              \/ a[1] = b[1] /\ a[2] < b[2]
              \/ a[1] = b[1] /\ a[2] = b[2] /\ a[3] < b[3]
              \/ a[1] = b[1] /\ a[2] = b[2] /\ a[3] = b[3] /\ a[4] < b[4]
BY DEF LexLess

LEMMA LexOrder ==
    ASSUME NEW a \in Int \X Int \X Int \X Int, NEW b \in Int \X Int \X Int \X Int,
           NEW c \in Int \X Int \X Int \X Int
    PROVE  /\ ~LexLess(a, a)
           /\ LexLess(a, b) /\ LexLess(b, c) => LexLess(a, c)
           /\ a = b \/ LexLess(a, b) \/ LexLess(b, a)
<1>1. ~LexLess(a, a)
  BY LexFour
<1>2. LexLess(a, b) /\ LexLess(b, c) => LexLess(a, c)
  BY LexFour
<1>3. a = b \/ LexLess(a, b) \/ LexLess(b, a)
  BY LexFour
<1> QED BY <1>1, <1>2, <1>3

\* Items lists all the items, each once, in the order of their keys.
LEMMA ItemsListed ==
    ASSUME NEW h, Tidy(h), NEW s, s = Items(h)
    PROVE  /\ \A k \in DOMAIN s : s[k] \in AllItems(h)
           /\ \A x \in AllItems(h) : \E k \in DOMAIN s : s[k] = x
           /\ \A j, k \in DOMAIN s : s[j] = s[k] => j = k
           /\ \A j, k \in DOMAIN s : j < k => LexLess(s[j].key, s[k].key)
           /\ \E n \in Nat : DOMAIN s = 1 .. n
<1> DEFINE S == AllItems(h)
           B == [x \in S |-> {y \in S : LexLess(y.key, x.key)}]
<1>1. IsFiniteSet(S)
  BY ItemsFinite
<1>2. \A x \in S : x.key \in Int \X Int \X Int \X Int
  BY ItemKeys
<1>3. \A x, y \in S : y \in B[x] <=> LexLess(y.key, x.key)
  OBVIOUS
<1>4. \A x \in S : B[x] \subseteq S
  OBVIOUS
<1>5. s = [k \in 1 .. Cardinality(S) |->
              CHOOSE x \in S : Cardinality({y \in S : LexLess(y.key, x.key)}) = k - 1]
  BY DEF Items, InOrder
<1>6. DOMAIN s = 1 .. Cardinality(S)
  BY <1>5
<1>7. ASSUME NEW k \in 1 .. Cardinality(S), \E x \in S : Cardinality(B[x]) = k - 1
      PROVE  s[k] \in S /\ Cardinality(B[s[k]]) = k - 1
  <2>1. \A x \in S : B[x] = {y \in S : LexLess(y.key, x.key)}
    OBVIOUS
  <2> DEFINE Q(x) == Cardinality({y \in S : LexLess(y.key, x.key)}) = k - 1
  <2>2. s[k] = CHOOSE x \in S : Q(x)
    BY <1>5
  <2>3. \A x \in S : Q(x) <=> Cardinality(B[x]) = k - 1
    BY <2>1
  <2> HIDE DEF Q, B
  <2> QED BY <1>7, <2>2, <2>3
<1> HIDE DEF B, S
<1>8. \A x \in S : B[x] \subseteq S /\ x \notin B[x]
  BY <1>2, <1>3, <1>4, LexOrder
<1>9. \A x, y \in S : x \in B[y] => B[x] \subseteq B[y]
  <2> SUFFICES ASSUME NEW x \in S, NEW y \in S, x \in B[y], NEW z \in B[x]
               PROVE  z \in B[y]
    OBVIOUS
  <2>1. z \in S /\ LexLess(z.key, x.key) /\ LexLess(x.key, y.key)
    BY <1>3, <1>4
  <2>2. LexLess(z.key, y.key)
    BY <1>2, <2>1, LexOrder
  <2> QED BY <1>3, <2>1, <2>2
<1>10. \A x, y \in S : x = y \/ x \in B[y] \/ y \in B[x]
  <2> SUFFICES ASSUME NEW x \in S, NEW y \in S PROVE x = y \/ x \in B[y] \/ y \in B[x]
    OBVIOUS
  <2>1. x.key = y.key \/ LexLess(x.key, y.key) \/ LexLess(y.key, x.key)
    BY <1>2, LexOrder
  <2>2. x.key = y.key => x = y
    BY ItemKeys DEF S
  <2> QED BY <1>3, <2>1, <2>2
<1>11. Before(S, B)
  BY <1>8, <1>9, <1>10 DEF Before
<1>12. \A k \in 1 .. Cardinality(S) :
          (\E x \in S : Cardinality(B[x]) = k - 1)
              => s[k] \in S /\ Cardinality(B[s[k]]) = k - 1
  BY <1>7
<1>13. InTurn(s, S, B)
  BY <1>1, <1>6, <1>11, <1>12, Ranks
<1>14. Cardinality(S) \in Nat
  BY <1>1, FS_CardinalityType
<1>15. \A j, k \in DOMAIN s : j < k => LexLess(s[j].key, s[k].key)
  BY <1>3, <1>13 DEF InTurn
<1> QED BY <1>6, <1>13, <1>14, <1>15 DEF S, InTurn

\* So an event is shown once, or not at all when it is left out.
LEMMA ShownOnce ==
    ASSUME NEW h, Tidy(h), NEW s, s = Items(h), NEW i \in DOMAIN h
    PROVE  Cardinality({k \in DOMAIN s : h[i].n \in s[k].ids})
               = IF Hidden(h, h[i]) THEN 0 ELSE 1
<1> DEFINE K == {k \in DOMAIN s : h[i].n \in s[k].ids}
<1>1. \A k \in DOMAIN s : s[k] \in AllItems(h)
  BY ItemsListed
<1>2. CASE Hidden(h, h[i])
  <2>1. K = {}
    BY <1>1, <1>2, EventHasOneItem
  <2> QED BY <1>2, <2>1, FS_EmptySet
<1>3. CASE ~Hidden(h, h[i])
  <2>1. PICK x \in AllItems(h) : h[i].n \in x.ids
    BY <1>3, EventHasItem
  <2>2. PICK k \in DOMAIN s : s[k] = x
    BY ItemsListed
  <2>3. \A j \in K : s[j] = x
    BY <1>1, <2>1, EventHasOneItem
  <2>4. \A j \in K : j = k
    BY <2>2, <2>3, ItemsListed
  <2>5. K = {k}
    BY <2>1, <2>2, <2>4
  <2> QED BY <1>3, <2>5, FS_Singleton
<1> QED BY <1>2, <1>3

-----------------------------------------------------------------------------
(* The inductive invariant.                                                *)

\* What an event of each kind carries.
Shaped(e) ==
    /\ IsTool(e) => /\ e.call \in Calls
                    /\ ToolEvents[e.type][1] = family[e.call]
                    /\ PhaseOf(e) = "begin" => e.msg = BeginMsg(family[e.call])
                    /\ PhaseOf(e) = "end" => e.msg \in EndMsg(family[e.call])
    /\ ~IsTool(e) => e.call = None
    /\ IsDelta(e) => /\ e.of \in Utterances
                     /\ e.of[1] = e.turn /\ e.type = DeltaType(e.of[2])
    /\ IsFinal(e) => /\ e.of \in Utterances
                     /\ e.of[1] = e.turn /\ e.type = FinalType(e.of[2])
    /\ ~IsDelta(e) /\ ~IsFinal(e) => e.of = None

\* The list of all: each event once and numbered as sent, each as its kind is.
ShelfOK ==
    /\ Tidy(shelf)
    /\ \A i \in DOMAIN shelf : shelf[i].n <= Len(shelf) /\ Shaped(shelf[i])

\* Turns follow one another, and a prompt is the first event of its turn.
TurnsInOrder ==
    \A i, j \in DOMAIN shelf :
        /\ shelf[i].n < shelf[j].n => shelf[i].turn <= shelf[j].turn
        /\ IsUser(shelf[i]) /\ shelf[i].turn = shelf[j].turn
               => shelf[i].n <= shelf[j].n

\* A begin is the first event of its call.
BeginsFirst ==
    \A i, j \in DOMAIN shelf :
        /\ IsTool(shelf[i]) /\ PhaseOf(shelf[i]) = "begin"
        /\ shelf[i].call = shelf[j].call
        => shelf[i].n <= shelf[j].n

\* The tab has some of the events, each once, and shows their items.
TabOK ==
    /\ Tidy(seen)
    /\ Range(seen) \subseteq Range(shelf)
    /\ screen = Items(seen)

Inv ==
    /\ family \in [Calls -> ToolFamilies]
    /\ ShelfOK
    /\ TurnsInOrder
    /\ BeginsFirst
    /\ TabOK

-----------------------------------------------------------------------------
(* Sending an event.                                                       *)

\* t is s with x inserted before its place i.
Inserted(t, s, i, x) ==
    /\ Len(t) = Len(s) + 1
    /\ t[i] = x
    /\ \A j \in 1 .. Len(s) + 1 : j < i => t[j] = s[j]
    /\ \A j \in 1 .. Len(s) + 1 : i < j => t[j] = s[j - 1]

LEMMA InsertFacts ==
    ASSUME NEW T, NEW s \in Seq(T), NEW x \in T, NEW i \in 1 .. Len(s) + 1
    PROVE  InsertAt(s, i, x) \in Seq(T) /\ Inserted(InsertAt(s, i, x), s, i, x)
<1> DEFINE a == SubSeq(s, 1, i - 1)
           b == SubSeq(s, i, Len(s))
<1>1. Len(s) \in Nat /\ i \in Nat
  OBVIOUS
<1>2. /\ a \in Seq(T) /\ Len(a) = i - 1
      /\ \A j \in 1 .. i - 1 : a[j] = s[j]
  OBVIOUS
<1>3. /\ b \in Seq(T) /\ Len(b) = Len(s) - i + 1
      /\ \A j \in 1 .. Len(s) - i + 1 : b[j] = s[i + j - 1]
  OBVIOUS
<1>4. InsertAt(s, i, x) = a \o <<x>> \o b
  BY DEF InsertAt
<1> HIDE DEF a, b
<1> DEFINE c == a \o <<x>>
<1>5. /\ c \in Seq(T) /\ Len(c) = i
      /\ \A j \in 1 .. i - 1 : c[j] = s[j]
      /\ c[i] = x
  BY <1>1, <1>2
<1> HIDE DEF c
<1>6. /\ c \o b \in Seq(T) /\ Len(c \o b) = Len(s) + 1
      /\ \A j \in 1 .. i : (c \o b)[j] = c[j]
      /\ \A j \in i + 1 .. Len(s) + 1 : (c \o b)[j] = b[j - i]
  BY <1>1, <1>3, <1>5
<1>7. \A j \in 1 .. Len(s) + 1 : i < j => (c \o b)[j] = s[j - 1]
  <2> SUFFICES ASSUME NEW j \in 1 .. Len(s) + 1, i < j PROVE (c \o b)[j] = s[j - 1]
    OBVIOUS
  <2>1. j - i \in 1 .. Len(s) - i + 1 /\ i + (j - i) - 1 = j - 1
    BY <1>1
  <2>2. b[j - i] = s[i + (j - i) - 1]
    BY <1>3, <2>1
  <2>3. j \in i + 1 .. Len(s) + 1
    BY <1>1
  <2>4. (c \o b)[j] = b[j - i]
    BY <1>6, <2>3
  <2> QED BY <2>1, <2>2, <2>4
<1>8. \A j \in 1 .. Len(s) + 1 : j < i => (c \o b)[j] = s[j]
  BY <1>1, <1>5, <1>6
<1> QED BY <1>1, <1>4, <1>5, <1>6, <1>7, <1>8 DEF c, Inserted

\* The last turn and the last stamp sent.
LEMMA Latest ==
    ASSUME shelf \in Seq(EventType)
    PROVE  /\ Turn \in 0 .. MaxTurns
           /\ \A i \in DOMAIN shelf : shelf[i].turn <= Turn
           /\ Now \in Nat
<1>1. /\ Len(shelf) \in Nat /\ DOMAIN shelf = 1 .. Len(shelf)
      /\ \A i \in DOMAIN shelf : shelf[i] \in EventType
      /\ MaxTurns \in Nat /\ Epoch \in Nat
  BY TranscriptAssumption
<1>2. \A i \in DOMAIN shelf : shelf[i].turn \in 1 .. MaxTurns /\ shelf[i].at \in Nat
  BY <1>1 DEF EventType
<1> DEFINE turns == {e.turn : e \in Sent} \cup {0}
           stamps == {e.at : e \in Sent} \cup {Epoch}
<1>3. /\ turns \subseteq Nat /\ turns # {} /\ \A t \in turns : t <= MaxTurns
      /\ \A i \in DOMAIN shelf : shelf[i].turn \in turns
  BY <1>1, <1>2 DEF Sent, Range
<1>4. PICK b \in Nat : \A i \in DOMAIN shelf : shelf[i].at <= b
  <2> DEFINE f == [i \in DOMAIN shelf |-> shelf[i].at]
  <2>1. \A i \in 1 .. Len(shelf) : f[i] \in Nat
    BY <1>1, <1>2
  <2>2. \E b \in Nat : \A i \in 1 .. Len(shelf) : f[i] <= b
    <3> HIDE DEF f
    <3> QED BY <1>1, <2>1, BoundExists
  <2> QED BY <1>1, <2>2
<1>5. /\ stamps \subseteq Nat /\ stamps # {}
      /\ b + Epoch \in Nat /\ \A t \in stamps : t <= b + Epoch
  BY <1>1, <1>2, <1>4 DEF Sent, Range
<1> HIDE DEF turns, stamps
<1>6. Turn \in turns /\ \A t \in turns : t <= Turn
  <2>1. PICK m \in turns : \A t \in turns : t <= m
    BY <1>1, <1>3, GreatestExists
  <2>2. \A t \in turns : m >= t
    BY <1>3, <2>1
  <2>3. Max(turns) \in turns /\ \A t \in turns : Max(turns) >= t
    BY <2>2 DEF Max
  <2> QED BY <1>3, <2>3 DEF Turn, turns
<1>7. Now \in stamps
  <2>1. PICK m \in stamps : \A t \in stamps : t <= m
    BY <1>5, GreatestExists
  <2>2. \A t \in stamps : m >= t
    BY <1>5, <2>1
  <2>3. Max(stamps) \in stamps
    BY <2>2 DEF Max
  <2> QED BY <2>3 DEF Now, stamps
<1>8. Turn \in Nat /\ Turn <= MaxTurns
  BY <1>3, <1>6
<1>9. \A i \in DOMAIN shelf : shelf[i].turn <= Turn
  BY <1>3, <1>6
<1>10. Now \in Nat
  BY <1>5, <1>7
<1> QED BY <1>1, <1>8, <1>9, <1>10

\* A sent event is the latest, and joins the list at some place.
Joins(type, turn, of, call, msg) ==
    \E i \in 1 .. Len(shelf) + 1, new \in EventType :
       /\ shelf' = InsertAt(shelf, i, new)
       /\ new.n = Len(shelf) + 1 /\ new.type = type /\ new.turn = turn
       /\ new.of = of /\ new.call = call /\ new.msg = msg

LEMMA Sends ==
    ASSUME Inv, NEW type \in Types, NEW turn \in 1 .. MaxTurns,
           NEW of \in Utterances \cup {None}, NEW call \in Calls \cup {None},
           NEW msg \in Msgs, Send(type, turn, of, call, msg)
    PROVE  UNCHANGED <<seen, screen, family>> /\ Joins(type, turn, of, call, msg)
<1>1. shelf \in Seq(EventType) /\ Len(shelf) \in Nat
  BY DEF Inv, ShelfOK, Tidy
<1>2. PICK at \in IF Sent = {} THEN {Epoch} ELSE {Now + d : d \in Gaps},
           i \in 1 .. Len(shelf) + 1 :
           shelf' = InsertAt(shelf, i,
                 [n |-> Len(shelf) + 1, type |-> type, turn |-> turn, of |-> of,
                  call |-> call, at |-> at, msg |-> msg])
  BY DEF Send
<1>3. at \in Nat
  <2>1. Now \in Nat
    BY <1>1, Latest
  <2>2. Gaps \subseteq Nat /\ Epoch \in Nat
    BY TranscriptAssumption
  <2> QED BY <2>1, <2>2
<1> DEFINE new == [n |-> Len(shelf) + 1, type |-> type, turn |-> turn, of |-> of,
                   call |-> call, at |-> at, msg |-> msg]
<1>4. new \in EventType
  BY <1>1, <1>3 DEF EventType
<1>5. UNCHANGED <<seen, screen, family>>
  BY DEF Send
<1>6. /\ new.n = Len(shelf) + 1 /\ new.type = type /\ new.turn = turn
      /\ new.of = of /\ new.call = call /\ new.msg = msg
  OBVIOUS
<1>7. shelf' = InsertAt(shelf, i, new)
  BY <1>2
<1> HIDE DEF new
<1>8. \E k \in 1 .. Len(shelf) + 1, e \in EventType :
         /\ shelf' = InsertAt(shelf, k, e)
         /\ e.n = Len(shelf) + 1 /\ e.type = type /\ e.turn = turn
         /\ e.of = of /\ e.call = call /\ e.msg = msg
  <2> WITNESS i \in 1 .. Len(shelf) + 1, new \in EventType
  <2> QED BY <1>6, <1>7
<1> QED BY <1>5, <1>8 DEF Joins

\* Any event with these fields is as its kind is.
AllShaped(type, turn, of, call, msg) ==
    \A e \in EventType :
        /\ e.type = type /\ e.turn = turn /\ e.of = of
        /\ e.call = call /\ e.msg = msg
        => Shaped(e)

\* Sending an event that is as its kind is, of the present turn or the next
\* one's prompt, and no second begin or end of a call, keeps the invariant.
LEMMA SendStep ==
    ASSUME Inv, NEW type \in Types, NEW turn \in 1 .. MaxTurns,
           NEW of \in Utterances \cup {None}, NEW call \in Calls \cup {None},
           NEW msg \in Msgs, Send(type, turn, of, call, msg),
           AllShaped(type, turn, of, call, msg),
           \A j \in DOMAIN shelf : shelf[j].turn <= turn,
           type = "user_message" => \A j \in DOMAIN shelf : shelf[j].turn # turn,
           type \in DOMAIN ToolEvents =>
               \A j \in DOMAIN shelf : shelf[j].call = call =>
                   /\ ToolEvents[type][2] # "begin"
                   /\ ToolEvents[type][2] = "end" => PhaseOf(shelf[j]) # "end"
    PROVE  Inv'
<1>1. /\ shelf \in Seq(EventType) /\ Len(shelf) \in Nat /\ DOMAIN shelf = 1 .. Len(shelf)
      /\ \A j \in DOMAIN shelf : /\ shelf[j] \in EventType
                                 /\ shelf[j].n <= Len(shelf) /\ Shaped(shelf[j])
  BY DEF Inv, ShelfOK, Tidy
<1>2. PICK i \in 1 .. Len(shelf) + 1, new \in EventType :
         /\ shelf' = InsertAt(shelf, i, new)
         /\ new.n = Len(shelf) + 1 /\ new.type = type /\ new.turn = turn
         /\ new.of = of /\ new.call = call /\ new.msg = msg
  <2>1. Joins(type, turn, of, call, msg)
    BY Sends
  <2> QED BY <2>1 DEF Joins
<1>3. UNCHANGED <<seen, screen, family>>
  BY Sends
<1> DEFINE N == Len(shelf) + 1
           old == [j \in 1 .. N |-> IF j < i THEN j ELSE j - 1]
<1>4. /\ shelf' \in Seq(EventType) /\ Len(shelf') = N /\ DOMAIN shelf' = 1 .. N
      /\ shelf'[i] = new /\ i \in 1 .. N
      /\ \A j \in 1 .. N : j < i => shelf'[j] = shelf[j]
      /\ \A j \in 1 .. N : i < j => shelf'[j] = shelf[j - 1]
  <2>1. /\ InsertAt(shelf, i, new) \in Seq(EventType)
        /\ Inserted(InsertAt(shelf, i, new), shelf, i, new)
    BY <1>1, InsertFacts
  <2>2. shelf' \in Seq(EventType) /\ Inserted(shelf', shelf, i, new)
    BY <1>2, <2>1
  <2>3. DOMAIN shelf' = 1 .. Len(shelf')
    BY <2>2
  <2> QED BY <1>1, <2>2, <2>3 DEF Inserted
<1>5. \A j \in 1 .. N : j # i => old[j] \in DOMAIN shelf /\ shelf'[j] = shelf[old[j]]
  <2> SUFFICES ASSUME NEW j \in 1 .. N, j # i
               PROVE  old[j] \in DOMAIN shelf /\ shelf'[j] = shelf[old[j]]
    OBVIOUS
  <2>1. CASE j < i
    <3>1. old[j] = j /\ j \in DOMAIN shelf
      BY <1>1, <2>1
    <3> QED BY <1>4, <2>1, <3>1
  <2>2. CASE i < j
    <3>1. old[j] = j - 1 /\ j - 1 \in DOMAIN shelf
      BY <1>1, <2>2
    <3> QED BY <1>4, <2>2, <3>1
  <2> QED BY <1>1, <2>1, <2>2
<1>6. \A j, k \in 1 .. N : j # i /\ k # i /\ old[j] = old[k] => j = k
  BY <1>1
<1>7. \A j \in DOMAIN shelf : \E k \in 1 .. N : k # i /\ shelf'[k] = shelf[j]
  <2> SUFFICES ASSUME NEW j \in DOMAIN shelf
               PROVE  \E k \in 1 .. N : k # i /\ shelf'[k] = shelf[j]
    OBVIOUS
  <2>1. CASE j < i
    BY <1>1, <1>4, <2>1
  <2>2. CASE i <= j
    <3>1. j + 1 \in 1 .. N /\ i < j + 1 /\ (j + 1) - 1 = j
      BY <1>1, <2>2
    <3> QED BY <1>4, <3>1
  <2> QED BY <1>1, <2>1, <2>2
<1> HIDE DEF old, N
<1>8. \A j \in DOMAIN shelf : shelf[j].n < new.n /\ shelf[j].n \in Nat
  BY <1>1, <1>2 DEF EventType
<1>9. Shaped(new)
  BY <1>2 DEF AllShaped
<1>10. Tidy(shelf')
  <2>1. \A j, k \in DOMAIN shelf' : shelf'[j].n = shelf'[k].n => j = k
    <3> SUFFICES ASSUME NEW j \in 1 .. N, NEW k \in 1 .. N, shelf'[j].n = shelf'[k].n
                 PROVE  j = k
      BY <1>4
    <3>1. CASE j = i \/ k = i
      <4>1. shelf'[i].n = new.n /\ new.n \in Int
        BY <1>1, <1>2, <1>4
      <4>2. \A m \in 1 .. N : m # i => shelf'[m].n < new.n /\ shelf'[m].n \in Int
        <5> SUFFICES ASSUME NEW m \in 1 .. N, m # i
                     PROVE  shelf'[m].n < new.n /\ shelf'[m].n \in Int
          OBVIOUS
        <5> QED BY <1>5, <1>8
      <4> QED BY <3>1, <4>1, <4>2
    <3>2. CASE j # i /\ k # i
      <4>1. /\ old[j] \in DOMAIN shelf /\ old[k] \in DOMAIN shelf
            /\ shelf[old[j]].n = shelf[old[k]].n
        BY <1>5, <3>2
      <4>2. old[j] = old[k]
        BY <4>1 DEF Inv, ShelfOK, Tidy
      <4> QED BY <1>6, <3>2, <4>2
    <3> QED BY <3>1, <3>2
  <2> DEFINE same(d, e) == /\ IsTool(d) /\ IsTool(e) /\ BucketOf(d) = BucketOf(e)
                           /\ PhaseOf(d) = PhaseOf(e) /\ PhaseOf(d) \in {"begin", "end"}
  <2>2. ASSUME NEW j \in DOMAIN shelf PROVE ~same(new, shelf[j]) /\ ~same(shelf[j], new)
    <3>1. /\ Shaped(shelf[j]) /\ shelf[j] \in EventType
          /\ type \in DOMAIN ToolEvents =>
                (shelf[j].call = call =>
                   /\ ToolEvents[type][2] # "begin"
                   /\ ToolEvents[type][2] = "end" => PhaseOf(shelf[j]) # "end")
      BY <1>1
    <3>2. IsTool(new) <=> type \in DOMAIN ToolEvents
      BY <1>2 DEF IsTool
    <3>3. PhaseOf(new) = ToolEvents[type][2] /\ new.call = call
      BY <1>2 DEF PhaseOf
    <3>4. IsTool(new) => new.call # None
      BY <1>9, TranscriptAssumption DEF Shaped
    <3>5. IsTool(shelf[j]) => shelf[j].call # None
      BY <3>1, TranscriptAssumption DEF Shaped
    <3>6. IsTool(new) /\ IsTool(shelf[j]) /\ BucketOf(new) = BucketOf(shelf[j])
             => new.call = shelf[j].call
      BY <3>4, <3>5 DEF BucketOf, BucketId
    <3> QED BY <3>1, <3>2, <3>3, <3>6
  <2> HIDE DEF same
  <2>3. \A j, k \in DOMAIN shelf : same(shelf[j], shelf[k]) => j = k
    BY DEF Inv, ShelfOK, Tidy, same
  <2>4. \A j, k \in DOMAIN shelf' : same(shelf'[j], shelf'[k]) => j = k
    <3> SUFFICES ASSUME NEW j \in 1 .. N, NEW k \in 1 .. N, same(shelf'[j], shelf'[k])
                 PROVE  j = k
      BY <1>4
    <3>1. CASE j = i \/ k = i
      BY <1>4, <1>5, <2>2, <3>1
    <3>2. CASE j # i /\ k # i
      BY <1>5, <1>6, <2>3, <3>2
    <3> QED BY <3>1, <3>2
  <2> QED BY <1>4, <2>1, <2>4 DEF Tidy, same
<1>11. ShelfOK'
  <2>1. ASSUME NEW j \in 1 .. N PROVE shelf'[j].n <= N /\ Shaped(shelf'[j])
    <3>1. CASE j = i
      BY <1>1, <1>2, <1>4, <1>9, <3>1 DEF N
    <3>2. CASE j # i
      <4>1. shelf[old[j]].n <= Len(shelf) /\ Shaped(shelf[old[j]]) /\ shelf[old[j]].n \in Nat
        BY <1>1, <1>5, <1>8, <3>2
      <4> QED BY <1>1, <1>5, <3>2, <4>1 DEF N
    <3> QED BY <3>1, <3>2
  <2>2. ASSUME NEW j \in 1 .. N PROVE Shaped(shelf[j])'
    BY <1>3, <2>1 DEF Shaped
  <2> QED BY <1>4, <1>10, <2>1, <2>2 DEF ShelfOK
<1>12. TurnsInOrder'
  <2> SUFFICES ASSUME NEW j \in 1 .. N, NEW k \in 1 .. N
               PROVE  /\ shelf'[j].n < shelf'[k].n => shelf'[j].turn <= shelf'[k].turn
                      /\ IsUser(shelf'[j]) /\ shelf'[j].turn = shelf'[k].turn
                             => shelf'[j].n <= shelf'[k].n
    BY <1>4 DEF TurnsInOrder
  <2>1. CASE j = i /\ k = i
    BY <1>4, <2>1 DEF EventType
  <2>2. CASE j # i /\ k = i
    <3>1. /\ shelf[old[j]].n < new.n /\ shelf[old[j]].n \in Nat
          /\ shelf[old[j]].turn <= new.turn
      BY <1>2, <1>5, <1>8, <2>2
    <3>2. shelf'[j] = shelf[old[j]] /\ shelf'[k] = new
      BY <1>4, <1>5, <2>2
    <3>3. new.n \in Nat
      BY DEF EventType
    <3> QED BY <3>1, <3>2, <3>3
  <2>3. CASE j = i /\ k # i
    <3>1. ~(shelf'[j].n < shelf'[k].n)
      <4>1. shelf[old[k]].n < new.n /\ shelf[old[k]].n \in Nat
        BY <1>5, <1>8, <2>3
      <4>2. shelf'[k] = shelf[old[k]] /\ shelf'[j] = new
        BY <1>4, <1>5, <2>3
      <4>3. new.n \in Nat
        BY DEF EventType
      <4> QED BY <4>1, <4>2, <4>3
    <3>2. IsUser(shelf'[j]) => shelf'[j].turn # shelf'[k].turn
      BY <1>2, <1>4, <1>5, <2>3 DEF IsUser
    <3> QED BY <3>1, <3>2
  <2>4. CASE j # i /\ k # i
    BY <1>5, <2>4 DEF Inv, TurnsInOrder
  <2> QED BY <2>1, <2>2, <2>3, <2>4
<1>13. BeginsFirst'
  <2> DEFINE after(d, e) == /\ IsTool(d) /\ PhaseOf(d) = "begin" /\ d.call = e.call
                            => d.n <= e.n
  <2>1. ASSUME NEW j \in DOMAIN shelf PROVE after(new, shelf[j]) /\ after(shelf[j], new)
    <3>1. shelf[j].n <= new.n
      BY <1>2, <1>8
    <3>2. ~ (IsTool(new) /\ PhaseOf(new) = "begin" /\ new.call = shelf[j].call)
      BY <1>2 DEF IsTool, PhaseOf
    <3> QED BY <3>1, <3>2
  <2>2. after(new, new)
    BY <1>1, <1>2
  <2> HIDE DEF after
  <2>3. \A j, k \in DOMAIN shelf : after(shelf[j], shelf[k])
    BY DEF Inv, BeginsFirst, after
  <2>4. \A j, k \in 1 .. N : after(shelf'[j], shelf'[k])
    <3> SUFFICES ASSUME NEW j \in 1 .. N, NEW k \in 1 .. N
                 PROVE  after(shelf'[j], shelf'[k])
      OBVIOUS
    <3>1. (j = i => shelf'[j] = new) /\ (k = i => shelf'[k] = new)
      BY <1>4
    <3> QED BY <1>5, <2>1, <2>2, <2>3, <3>1
  <2> QED BY <1>4, <2>4 DEF BeginsFirst, after
<1>14. TabOK'
  <2>1. Range(shelf) \subseteq Range(shelf')
    BY <1>4, <1>7 DEF Range
  <2> QED BY <1>3, <2>1 DEF Inv, TabOK
<1>15. (family \in [Calls -> ToolFamilies])'
  BY <1>3 DEF Inv
<1> QED BY <1>11, <1>12, <1>13, <1>14, <1>15 DEF Inv

-----------------------------------------------------------------------------
(* Every step keeps the invariant.                                         *)

LEMMA UserMessageStep ==
    ASSUME Inv, UserMessage
    PROVE  Inv'
<1>1. Turn \in 0 .. MaxTurns /\ \A j \in DOMAIN shelf : shelf[j].turn <= Turn
  BY Latest DEF Inv, ShelfOK, Tidy
<1>2. MaxTurns \in Nat
  BY TranscriptAssumption
<1>3. Turn + 1 \in 1 .. MaxTurns
  BY <1>1, <1>2 DEF UserMessage
<1>4. \A j \in DOMAIN shelf : shelf[j].turn \in Nat
  <2>1. \A j \in DOMAIN shelf : shelf[j] \in EventType
    BY ListFacts DEF Inv, ShelfOK
  <2> QED BY <2>1 DEF EventType
<1>5. \A j \in DOMAIN shelf : shelf[j].turn <= Turn + 1 /\ shelf[j].turn # Turn + 1
  BY <1>1, <1>4
<1>6. "user_message" \notin DOMAIN ToolEvents \cup DOMAIN DeltaEvents \cup DOMAIN FinalEvents
  BY TypesApart
<1>7. ASSUME NEW e \in EventType, e.type = "user_message", e.of = None, e.call = None
      PROVE  Shaped(e)
  <2>1. ~IsTool(e) /\ ~IsDelta(e) /\ ~IsFinal(e)
    BY <1>6, <1>7 DEF IsTool, IsDelta, IsFinal
  <2> QED BY <1>7, <2>1 DEF Shaped
<1>8. Send("user_message", Turn + 1, None, None, None)
  BY DEF UserMessage
<1>9. "user_message" \in Types /\ None \in Msgs
  BY DEF Types, Msgs
<1>10. AllShaped("user_message", Turn + 1, None, None, None)
  BY <1>7 DEF AllShaped
<1> QED BY <1>3, <1>5, <1>6, <1>8, <1>9, <1>10, SendStep

LEMMA SpeaksStep ==
    ASSUME Inv, NEW ch \in Channels, Speaks(ch)
    PROVE  Inv'
<1>1. Turn \in 0 .. MaxTurns /\ \A j \in DOMAIN shelf : shelf[j].turn <= Turn
  BY Latest DEF Inv, ShelfOK, Tidy
<1>2. PICK item \in 1 .. MaxItems :
         /\ Turn > 0
         /\ \/ Send(DeltaType(ch), Turn, <<Turn, ch, item>>, None, None)
            \/ Send(FinalType(ch), Turn, <<Turn, ch, item>>, None, None)
  BY DEF Speaks
<1> DEFINE u == <<Turn, ch, item>>
<1>3. Turn \in 1 .. MaxTurns
  BY <1>1, <1>2, TranscriptAssumption
<1>4. u \in Utterances /\ u[1] = Turn /\ u[2] = ch
  BY <1>3 DEF Utterances
<1>5. /\ DeltaType(ch) \in DOMAIN DeltaEvents
      /\ FinalType(ch) \in DOMAIN FinalEvents
  BY StreamTypes
<1>6. /\ {DeltaType(ch), FinalType(ch)} \subseteq Types /\ None \in Msgs
      /\ DeltaType(ch) \notin DOMAIN ToolEvents \cup DOMAIN FinalEvents \cup {"user_message"}
      /\ FinalType(ch) \notin DOMAIN ToolEvents \cup DOMAIN DeltaEvents \cup {"user_message"}
  BY <1>5, TypesApart DEF Types, Msgs
<1> HIDE DEF u
<1>7. ASSUME NEW e \in EventType, e.type = DeltaType(ch), e.turn = Turn, e.of = u, e.call = None
      PROVE  Shaped(e)
  <2>1. ~IsTool(e) /\ IsDelta(e) /\ ~IsFinal(e)
    BY <1>5, <1>6, <1>7 DEF IsTool, IsDelta, IsFinal
  <2> QED BY <1>4, <1>7, <2>1 DEF Shaped
<1>8. ASSUME NEW e \in EventType, e.type = FinalType(ch), e.turn = Turn, e.of = u, e.call = None
      PROVE  Shaped(e)
  <2>1. ~IsTool(e) /\ ~IsDelta(e) /\ IsFinal(e)
    BY <1>5, <1>6, <1>8 DEF IsTool, IsDelta, IsFinal
  <2> QED BY <1>4, <1>8, <2>1 DEF Shaped
<1>9. CASE Send(DeltaType(ch), Turn, u, None, None)
  <2>1. AllShaped(DeltaType(ch), Turn, u, None, None)
    BY <1>7 DEF AllShaped
  <2> QED BY <1>1, <1>3, <1>4, <1>6, <1>9, <2>1, SendStep
<1>10. CASE Send(FinalType(ch), Turn, u, None, None)
  <2>1. AllShaped(FinalType(ch), Turn, u, None, None)
    BY <1>8 DEF AllShaped
  <2> QED BY <1>1, <1>3, <1>4, <1>6, <1>10, <2>1, SendStep
<1> QED BY <1>2, <1>9, <1>10 DEF u

LEMMA OtherEventStep ==
    ASSUME Inv, OtherEvent
    PROVE  Inv'
<1>1. Turn \in 0 .. MaxTurns /\ \A j \in DOMAIN shelf : shelf[j].turn <= Turn
  BY Latest DEF Inv, ShelfOK, Tidy
<1>2. PICK t \in OtherTypes : Turn > 0 /\ Send(t, Turn, None, None, None)
  BY DEF OtherEvent
<1>3. Turn \in 1 .. MaxTurns
  BY <1>1, <1>2, TranscriptAssumption
<1>4. /\ t \in Types /\ None \in Msgs /\ t # "user_message"
      /\ t \notin DOMAIN ToolEvents \cup DOMAIN DeltaEvents \cup DOMAIN FinalEvents
  BY TranscriptAssumption DEF Types, Msgs
<1>5. ASSUME NEW e \in EventType, e.type = t, e.of = None, e.call = None PROVE Shaped(e)
  <2>1. ~IsTool(e) /\ ~IsDelta(e) /\ ~IsFinal(e)
    BY <1>4, <1>5 DEF IsTool, IsDelta, IsFinal
  <2> QED BY <1>5, <2>1 DEF Shaped
<1>6. AllShaped(t, Turn, None, None, None)
  BY <1>5 DEF AllShaped
<1> QED BY <1>1, <1>2, <1>3, <1>4, <1>6, SendStep

\* An event of a tool call, whatever its phase.
LEMMA ToolStep ==
    ASSUME Inv, NEW c \in Calls, NEW p \in Phases, NEW msg \in Msgs, Turn > 0,
           ToolType(family[c], p) \in DOMAIN ToolEvents,
           ToolEvents[ToolType(family[c], p)] = <<family[c], p>>,
           p = "begin" => msg = BeginMsg(family[c]),
           p = "end" => msg \in EndMsg(family[c]),
           p = "begin" => SentPhases(c) = {},
           "end" \notin SentPhases(c),
           Send(ToolType(family[c], p), Turn, None, c, msg)
    PROVE  Inv'
<1> DEFINE t == ToolType(family[c], p)
<1>1. Turn \in 0 .. MaxTurns /\ \A j \in DOMAIN shelf : shelf[j].turn <= Turn
  BY Latest DEF Inv, ShelfOK, Tidy
<1>2. Turn \in 1 .. MaxTurns
  BY <1>1, TranscriptAssumption
<1>3. /\ t \in Types /\ t \in DOMAIN ToolEvents /\ t # "user_message"
      /\ t \notin DOMAIN DeltaEvents \cup DOMAIN FinalEvents
      /\ ToolEvents[t][1] = family[c] /\ ToolEvents[t][2] = p
  BY TypesApart DEF Types
<1>4. Send(t, Turn, None, c, msg)
  OBVIOUS
<1> HIDE DEF t
<1>5. ASSUME NEW e \in EventType, e.type = t, e.of = None, e.call = c, e.msg = msg
      PROVE  Shaped(e)
  <2>1. IsTool(e) /\ ~IsDelta(e) /\ ~IsFinal(e)
    BY <1>3, <1>5 DEF IsTool, IsDelta, IsFinal
  <2>2. ToolEvents[e.type][1] = family[c] /\ PhaseOf(e) = p
    BY <1>3, <1>5 DEF PhaseOf
  <2> QED BY <1>5, <2>1, <2>2 DEF Shaped
<1>6. \A j \in DOMAIN shelf : shelf[j].call = c => PhaseOf(shelf[j]) \in SentPhases(c)
  BY DEF SentPhases, Sent, Range, PhaseOf
<1>7. \A j \in DOMAIN shelf : shelf[j].call = c =>
          /\ ToolEvents[t][2] # "begin"
          /\ ToolEvents[t][2] = "end" => PhaseOf(shelf[j]) # "end"
  BY <1>3, <1>6
<1>8. AllShaped(t, Turn, None, c, msg)
  BY <1>5 DEF AllShaped
<1> QED BY <1>1, <1>2, <1>3, <1>4, <1>7, <1>8, SendStep

LEMMA ToolBeginsStep ==
    ASSUME Inv, NEW c \in Calls, ToolBegins(c)
    PROVE  Inv'
<1>1. family[c] \in ToolFamilies /\ family[c] \in Range(Families)
  BY TranscriptAssumption DEF Inv
<1>2. BeginMsg(family[c]) \in Msgs
  BY <1>1 DEF Msgs
<1>3. /\ ToolType(family[c], "begin") \in DOMAIN ToolEvents
      /\ ToolEvents[ToolType(family[c], "begin")] = <<family[c], "begin">>
  BY <1>1, ToolTypes
<1>4. /\ Turn > 0 /\ SentPhases(c) = {}
      /\ Send(ToolType(family[c], "begin"), Turn, None, c, BeginMsg(family[c]))
  BY DEF ToolBegins
<1>5. "begin" \in Phases /\ "begin" # "end"
  BY DEF Phases
<1> QED BY <1>2, <1>3, <1>4, <1>5, ToolStep

\* A call some event was sent of is one of a turn.
LEMMA CallHasTurn ==
    ASSUME Inv, NEW c \in Calls, SentPhases(c) # {}
    PROVE  Turn > 0
<1>1. PICK j \in DOMAIN shelf : shelf[j].call = c
  BY DEF SentPhases, Sent, Range
<1>2. shelf[j].turn \in 1 .. MaxTurns
  <2>1. shelf[j] \in EventType
    BY ListFacts DEF Inv, ShelfOK
  <2> QED BY <2>1 DEF EventType
<1>3. Turn \in 0 .. MaxTurns /\ shelf[j].turn <= Turn
  BY Latest DEF Inv, ShelfOK, Tidy
<1> QED BY <1>2, <1>3, TranscriptAssumption

LEMMA ToolProgressesStep ==
    ASSUME Inv, NEW c \in Calls, ToolProgresses(c)
    PROVE  Inv'
<1>1. PICK p \in {"output", "interaction"} :
         Send(ToolType("exec_command", p), Turn, None, c, None)
  BY DEF ToolProgresses
<1>2. /\ family[c] = "exec_command"
      /\ SentPhases(c) # {} /\ "end" \notin SentPhases(c)
  BY DEF ToolProgresses
<1>3. /\ ToolType(family[c], p) \in DOMAIN ToolEvents
      /\ ToolEvents[ToolType(family[c], p)] = <<family[c], p>>
  BY <1>2, ToolTypes
<1>4. Turn > 0
  BY <1>2, CallHasTurn
<1>5. p \in Phases /\ p # "begin" /\ p # "end" /\ None \in Msgs
  BY DEF Phases, Msgs
<1>6. Send(ToolType(family[c], p), Turn, None, c, None)
  BY <1>1, <1>2
<1> QED BY <1>2, <1>3, <1>4, <1>5, <1>6, ToolStep

LEMMA ToolEndsStep ==
    ASSUME Inv, NEW c \in Calls, ToolEnds(c)
    PROVE  Inv'
<1>1. PICK m \in EndMsg(family[c]) :
         Send(ToolType(family[c], "end"), Turn, None, c, m)
  BY DEF ToolEnds
<1>2. SentPhases(c) # {} /\ "end" \notin SentPhases(c)
  BY DEF ToolEnds
<1>3. family[c] \in ToolFamilies /\ family[c] \in Range(Families)
  BY TranscriptAssumption DEF Inv
<1>4. m \in Msgs
  BY <1>3 DEF Msgs
<1>5. /\ ToolType(family[c], "end") \in DOMAIN ToolEvents
      /\ ToolEvents[ToolType(family[c], "end")] = <<family[c], "end">>
  BY <1>3, ToolTypes
<1>6. Turn > 0
  BY <1>2, CallHasTurn
<1>7. "end" \in Phases /\ "end" # "begin"
  BY DEF Phases
<1> QED BY <1>1, <1>2, <1>4, <1>5, <1>6, <1>7, ToolStep

\* A listing of some of the events has those, each once.
LEMMA ListedFacts ==
    ASSUME Tidy(shelf), NEW S, NEW l, l = Listed(S)
    PROVE  Tidy(l) /\ Range(l) = Range(shelf) \cap S
<1> DEFINE P == {i \in DOMAIN shelf : shelf[i] \in S}
           B == [x \in P |-> {y \in P : y < x}]
           places == InOrder(P, <)
<1>1. /\ Len(shelf) \in Nat /\ DOMAIN shelf = 1 .. Len(shelf) /\ IsFiniteSet(DOMAIN shelf)
      /\ \A i \in DOMAIN shelf : shelf[i] \in EventType
  BY ListFacts
<1>2. P \in SUBSET DOMAIN shelf /\ \A i \in P : i \in Nat
  BY <1>1
<1>3. IsFiniteSet(P)
  <2> HIDE DEF P
  <2> QED BY <1>1, <1>2, FS_Subset
<1>4. \A x \in P : B[x] = {y \in P : y < x}
  OBVIOUS
<1>5. places = [k \in 1 .. Cardinality(P) |->
                   CHOOSE x \in P : Cardinality({y \in P : y < x}) = k - 1]
  BY DEF InOrder
<1>6. l = [k \in DOMAIN places |-> shelf[places[k]]]
  BY DEF Listed
<1> HIDE DEF places, P
<1>7. ASSUME NEW k \in 1 .. Cardinality(P), \E x \in P : Cardinality(B[x]) = k - 1
      PROVE  places[k] \in P /\ Cardinality(B[places[k]]) = k - 1
  <2> DEFINE Q(x) == Cardinality({y \in P : y < x}) = k - 1
  <2>1. places[k] = CHOOSE x \in P : Q(x)
    BY <1>5
  <2>2. \A x \in P : Q(x) <=> Cardinality(B[x]) = k - 1
    BY <1>4
  <2> HIDE DEF Q, B
  <2> QED BY <1>7, <2>1, <2>2
<1>8. Before(P, B)
  BY <1>2 DEF Before
<1>9. DOMAIN places = 1 .. Cardinality(P)
  BY <1>5
<1> HIDE DEF B
<1>10. InTurn(places, P, B)
  BY <1>3, <1>7, <1>8, <1>9, Ranks
<1>11. Cardinality(P) \in Nat
  BY <1>3, FS_CardinalityType
<1>12. /\ DOMAIN l = 1 .. Cardinality(P)
       /\ \A k \in DOMAIN l : places[k] \in DOMAIN shelf /\ l[k] = shelf[places[k]]
       /\ \A j, k \in DOMAIN l : places[j] = places[k] => j = k
  BY <1>2, <1>6, <1>9, <1>10 DEF InTurn
<1>13. l \in Seq(EventType)
  <2>1. l \in [1 .. Cardinality(P) -> EventType]
    BY <1>1, <1>6, <1>9, <1>12
  <2> QED BY <1>11, <2>1, SeqOfFunction
<1>14. Tidy(l)
  <2>1. \A j, k \in DOMAIN l : l[j].n = l[k].n => j = k
    BY <1>12 DEF Tidy
  <2>2. \A i, j \in DOMAIN l :
          /\ IsTool(l[i]) /\ IsTool(l[j]) /\ BucketOf(l[i]) = BucketOf(l[j])
          /\ PhaseOf(l[i]) = PhaseOf(l[j]) /\ PhaseOf(l[i]) \in {"begin", "end"}
          => i = j
    BY <1>12 DEF Tidy
  <2> QED BY <1>13, <2>1, <2>2 DEF Tidy
<1>15. Range(l) = Range(shelf) \cap S
  <2>1. \A k \in DOMAIN l : l[k] \in Range(shelf) \cap S
    BY <1>9, <1>10, <1>12 DEF InTurn, P, Range
  <2>2. ASSUME NEW e \in Range(shelf) \cap S PROVE e \in Range(l)
    <3>1. PICK i \in P : shelf[i] = e
      BY DEF P, Range
    <3>2. PICK k \in DOMAIN places : places[k] = i
      BY <1>10 DEF InTurn
    <3> QED BY <1>9, <1>12, <3>1, <3>2 DEF Range
  <2> QED BY <2>1, <2>2 DEF Range
<1> QED BY <1>14, <1>15

LEMMA ArriveStep ==
    ASSUME Inv, NEW e \in Sent, Arrive(e)
    PROVE  /\ Inv'
           /\ UNCHANGED <<shelf, family>>
           /\ Range(seen') = Range(seen) \cup {e}
<1>1. /\ UNCHANGED <<shelf, family>> /\ screen' = Items(seen')
      /\ seen' = Listed(Range(seen) \cup {e})
  BY DEF Arrive
<1>2. Tidy(shelf)
  BY DEF Inv, ShelfOK
<1>3. Tidy(seen') /\ Range(seen') = Range(shelf) \cap (Range(seen) \cup {e})
  BY <1>1, <1>2, ListedFacts
<1>4. Range(seen') = Range(seen) \cup {e} /\ Range(seen') \subseteq Range(shelf)
  BY <1>3 DEF Sent, Inv, TabOK
<1>5. TabOK'
  BY <1>1, <1>3, <1>4 DEF TabOK
<1>6. (ShelfOK /\ TurnsInOrder /\ BeginsFirst)'
  BY <1>1 DEF Inv, ShelfOK, TurnsInOrder, BeginsFirst, Shaped
<1> QED BY <1>1, <1>4, <1>5, <1>6 DEF Inv

LEMMA InitInv == Init => Inv
<1> SUFFICES ASSUME Init PROVE Inv
  OBVIOUS
<1>1. shelf = << >> /\ seen = << >> /\ screen = Items(seen) /\ family \in [Calls -> ToolFamilies]
  BY DEF Init
<1>2. << >> \in Seq(EventType) /\ DOMAIN << >> = {} /\ Range(<< >>) = {}
  BY DEF Range
<1>3. Tidy(<< >>)
  BY <1>2 DEF Tidy
<1> QED BY <1>1, <1>2, <1>3 DEF Inv, ShelfOK, TurnsInOrder, BeginsFirst, TabOK

LEMMA NextInv == Inv /\ [Next]_vars => Inv'
<1> SUFFICES ASSUME Inv, [Next]_vars PROVE Inv'
  OBVIOUS
<1>1. CASE UserMessage
  BY <1>1, UserMessageStep
<1>2. CASE OtherEvent
  BY <1>2, OtherEventStep
<1>3. ASSUME NEW ch \in Channels, Speaks(ch) PROVE Inv'
  BY <1>3, SpeaksStep
<1>4. ASSUME NEW c \in Calls, ToolBegins(c) PROVE Inv'
  BY <1>4, ToolBeginsStep
<1>5. ASSUME NEW c \in Calls, ToolProgresses(c) PROVE Inv'
  BY <1>5, ToolProgressesStep
<1>6. ASSUME NEW c \in Calls, ToolEnds(c) PROVE Inv'
  BY <1>6, ToolEndsStep
<1>7. ASSUME NEW e \in Sent, Arrive(e) PROVE Inv'
  BY <1>7, ArriveStep
<1>8. CASE UNCHANGED vars
  BY <1>8 DEF vars, Inv, ShelfOK, TurnsInOrder, BeginsFirst, TabOK, Shaped
<1> QED BY <1>1, <1>2, <1>3, <1>4, <1>5, <1>6, <1>7, <1>8 DEF Next

\* The invariant holds throughout.
THEOREM Invariant == Spec => []Inv
BY InitInv, NextInv, PTL DEF Spec

-----------------------------------------------------------------------------
(* Each event once.                                                        *)

\* The invariant, for an event the tab has.
LEMMA TabFacts ==
    ASSUME Inv
    PROVE  /\ Tidy(seen) /\ Tidy(shelf) /\ screen = Items(seen)
           /\ Range(seen) \subseteq Sent
           /\ \A e \in Sent : e \in EventType /\ Shaped(e)
           /\ \A d, e \in Sent : d.n = e.n => d = e
<1>1. /\ Tidy(seen) /\ Tidy(shelf) /\ screen = Items(seen)
      /\ Range(seen) \subseteq Sent
  BY DEF Inv, ShelfOK, TabOK, Sent
<1>2. \A i \in DOMAIN shelf : shelf[i] \in EventType /\ Shaped(shelf[i])
  BY <1>1, ListFacts DEF Inv, ShelfOK
<1>3. \A e \in Sent : e \in EventType /\ Shaped(e)
  BY <1>2 DEF Sent, Range
<1>4. \A d, e \in Sent : d.n = e.n => d = e
  BY <1>1 DEF Tidy, Sent, Range
<1> QED BY <1>1, <1>3, <1>4

\* Shown once, or hidden.
OnceUnlessHidden ==
    \A e \in Range(seen) : Shows(e) = IF Hidden(seen, e) THEN 0 ELSE 1

\* An event the tab has is shown by one part, and left out only as wire
\* traffic or as a delta whose stream saw a final event.
THEOREM ShownOnceEach == Spec => []OnceUnlessHidden
<1>1. Inv => OnceUnlessHidden
  <2> SUFFICES ASSUME Inv, NEW e \in Range(seen)
               PROVE  Shows(e) = IF Hidden(seen, e) THEN 0 ELSE 1
    BY DEF OnceUnlessHidden
  <2>1. PICK i \in DOMAIN seen : seen[i] = e
    BY DEF Range
  <2>2. Cardinality({k \in DOMAIN screen : seen[i].n \in screen[k].ids})
            = IF Hidden(seen, seen[i]) THEN 0 ELSE 1
    BY TabFacts, ShownOnce
  <2> QED BY <2>1, <2>2 DEF Shows
<1> QED BY <1>1, Invariant, PTL

\* A stream is of the utterances that share a bucket.
LEMMA StreamOfUtterance ==
    ASSUME NEW d \in EventType, Shaped(d), IsDelta(d),
           NEW e \in EventType, Shaped(e)
    PROVE  /\ IsDelta(e) => (StreamOf(e) = StreamOf(d) <=> e.of \in Sharers(d.of))
           /\ IsFinal(e) => (<<FinalEvents[e.type], StreamBucketId(e)>> = StreamOf(d)
                                 <=> e.of \in Sharers(d.of))
<1>1. \A f \in EventType : StreamBucketId(f) = <<"turn", f.turn>>
  <2>1. \A f \in EventType : f.turn # None
    BY TranscriptAssumption DEF EventType
  <2> QED BY <2>1 DEF StreamBucketId
<1>2. ASSUME NEW f \in EventType, Shaped(f), IsDelta(f) \/ IsFinal(f)
      PROVE  /\ f.of \in Utterances /\ f.of[1] = f.turn /\ f.of[2] \in Channels
             /\ IsDelta(f) => DeltaEvents[f.type] = StreamKind(f.of[2])
             /\ IsFinal(f) => FinalEvents[f.type] = StreamKind(f.of[2])
  <2>1. f.of \in Utterances /\ f.of[1] = f.turn
    BY <1>2 DEF Shaped
  <2>2. f.of[2] \in Channels
    BY <2>1 DEF Utterances
  <2>3. /\ IsDelta(f) => f.type = DeltaType(f.of[2])
        /\ IsFinal(f) => f.type = FinalType(f.of[2])
    BY <1>2 DEF Shaped
  <2> QED BY <2>1, <2>2, <2>3, StreamTypes
<1>3. ASSUME NEW u \in Utterances
      PROVE  u \in Sharers(d.of) <=> u[1] = d.turn /\ StreamKind(u[2]) = StreamKind(d.of[2])
  <2>1. u[2] \in Channels /\ d.of[2] \in Channels /\ d.of[1] = d.turn
    BY <1>2 DEF Utterances
  <2> QED BY <2>1, StreamTypes DEF Sharers
<1>4. StreamOf(d) = <<StreamKind(d.of[2]), <<"turn", d.turn>>>>
  BY <1>1, <1>2 DEF StreamOf
<1>5. ASSUME IsDelta(e) PROVE StreamOf(e) = StreamOf(d) <=> e.of \in Sharers(d.of)
  <2>1. StreamOf(e) = <<StreamKind(e.of[2]), <<"turn", e.turn>>>>
    BY <1>1, <1>2, <1>5 DEF StreamOf
  <2>2. StreamOf(e) = StreamOf(d)
            <=> StreamKind(e.of[2]) = StreamKind(d.of[2]) /\ e.turn = d.turn
    BY <1>4, <2>1
  <2>3. e.of \in Utterances /\ e.of[1] = e.turn
    BY <1>2, <1>5
  <2> QED BY <1>3, <2>2, <2>3
<1>6. ASSUME IsFinal(e)
      PROVE  <<FinalEvents[e.type], StreamBucketId(e)>> = StreamOf(d)
                 <=> e.of \in Sharers(d.of)
  <2>1. <<FinalEvents[e.type], StreamBucketId(e)>>
            = <<StreamKind(e.of[2]), <<"turn", e.turn>>>>
    BY <1>1, <1>2, <1>6
  <2>2. <<FinalEvents[e.type], StreamBucketId(e)>> = StreamOf(d)
            <=> StreamKind(e.of[2]) = StreamKind(d.of[2]) /\ e.turn = d.turn
    BY <1>4, <2>1
  <2>3. e.of \in Utterances /\ e.of[1] = e.turn
    BY <1>2, <1>6
  <2> QED BY <1>3, <2>2, <2>3
<1> QED BY <1>5, <1>6

\* A delta is left out when a final wording takes its place.
LEMMA HiddenAsSuperseded ==
    ASSUME Inv, NEW e \in Range(seen)
    PROVE  Hidden(seen, e) <=> Superseded(e) \/ Wire(e)
<1>1. \A i \in DOMAIN seen : seen[i] \in EventType /\ Shaped(seen[i])
  BY TabFacts DEF Range
<1>2. e \in EventType /\ Shaped(e)
  BY TabFacts
<1>3. ASSUME IsDelta(e) PROVE Terminated(seen, StreamOf(e)) <=> Superseded(e)
  <2>1. \A i \in DOMAIN seen :
           /\ IsDelta(seen[i]) =>
                 (StreamOf(seen[i]) = StreamOf(e) <=> seen[i].of \in Sharers(e.of))
           /\ IsFinal(seen[i]) =>
                 (<<FinalEvents[seen[i].type], StreamBucketId(seen[i])>> = StreamOf(e)
                      <=> seen[i].of \in Sharers(e.of))
    BY <1>1, <1>2, <1>3, StreamOfUtterance
  <2>2. Terminated(seen, StreamOf(e)) <=>
            \E i, j \in DOMAIN seen :
                /\ IsFinal(seen[i]) /\ seen[i].of \in Sharers(e.of)
                /\ IsDelta(seen[j]) /\ seen[j].of \in Sharers(e.of) /\ j < i
    BY <2>1 DEF Terminated, Chunks
  <2>3. Superseded(e) <=>
            \E i, j \in DOMAIN seen :
                /\ IsFinal(seen[i]) /\ seen[i].of \in Sharers(e.of)
                /\ IsDelta(seen[j]) /\ seen[j].of \in Sharers(e.of) /\ j < i
    BY <1>3 DEF Superseded
  <2> QED BY <2>2, <2>3
<1> QED BY <1>3 DEF Hidden, Superseded

\* For any thread, EachEventOnce: of all that arrives only wire traffic is left
\* out, and the deltas that a final wording of their bucket supersedes.
THEOREM EachOnce == Spec => []EachEventOnce
<1>1. Inv /\ OnceUnlessHidden => EachEventOnce
  BY HiddenAsSuperseded DEF OnceUnlessHidden, EachEventOnce
<1> QED BY <1>1, Invariant, ShownOnceEach, PTL

-----------------------------------------------------------------------------
(* Turns do not mix.                                                       *)

\* What TurnsDoNotMix asks of the events the tab has.
SeenInOrder ==
    \A i, j \in DOMAIN seen :
        i < j => /\ seen[i].n < seen[j].n
                 /\ StampKey(seen[i].at) < StampKey(seen[j].at)

PromptsSeen ==
    \A e \in Range(seen) : \E d \in Range(seen) : d.type = "user_message" /\ d.turn = e.turn

BeginsSeen ==
    \A e \in Range(seen) : IsTool(e) => \E d \in Range(seen) :
        IsTool(d) /\ d.call = e.call /\ ToolEvents[d.type][2] = "begin"

\* The event at place i of the tab's list is the one item x goes by.
Leads(i, x) ==
    /\ i \in DOMAIN seen /\ seen[i].n \in x.ids
    /\ x.key[1] = StampKey(seen[i].at)
    /\ \A m \in x.ids : seen[i].n <= m
    /\ x.kind = "user" <=> IsUser(seen[i])

LEMMA LeadsAlone ==
    ASSUME Inv, NEW x \in UserItems(seen) \cup PlainItems(seen)
    PROVE  \E i : Leads(i, x)
<1>1. \A i \in DOMAIN seen : seen[i] \in EventType
  BY TabFacts, ListFacts
<1>2. ASSUME NEW i \in DOMAIN seen, NEW kind, x = AlonePart(seen, i, kind),
             kind = "user" <=> IsUser(seen[i])
      PROVE  Leads(i, x)
  <2>1. x.ids = {seen[i].n} /\ x.key[1] = StampKey(seen[i].at) /\ x.kind = kind
    BY <1>2 DEF AlonePart, Ids
  <2>2. seen[i].n \in Nat
    BY <1>1 DEF EventType
  <2> QED BY <1>2, <2>1, <2>2 DEF Leads
<1>3. CASE x \in UserItems(seen)
  <2>1. PICK i \in DOMAIN seen : IsUser(seen[i]) /\ x = AlonePart(seen, i, "user")
    BY <1>3 DEF UserItems, Projected
  <2> QED BY <1>2, <2>1
<1>4. CASE x \in PlainItems(seen)
  <2>1. PICK i \in DOMAIN seen :
           ~IsUser(seen[i]) /\ x = AlonePart(seen, i, PlainKind(seen[i]))
    BY <1>4 DEF PlainItems, Projected
  <2>2. \A e : PlainKind(e) # "user"
    BY DEF PlainKind, DefaultKind
  <2> QED BY <1>2, <2>1, <2>2
<1> QED BY <1>3, <1>4

\* A call's item goes by its begin, which the tab has.
LEMMA LeadsTool ==
    ASSUME Inv, BeginsSeen, NEW x \in ToolItems(seen)
    PROVE  \E i : Leads(i, x)
<1>1. /\ Tidy(seen) /\ Range(seen) \subseteq Sent
      /\ \A i \in DOMAIN seen : seen[i] \in Sent /\ seen[i] \in EventType /\ Shaped(seen[i])
  BY TabFacts DEF Range
<1>2. PICK k \in DOMAIN seen : IsTool(seen[k]) /\ x = ToolPart(seen, BucketOf(seen[k]))
  BY DEF ToolItems, Buckets, Projected
<1> DEFINE b == BucketOf(seen[k])
           i == Anchor(seen, b)
<1>3. \A j \in DOMAIN seen : IsTool(seen[j]) =>
         /\ seen[j].call \in Calls /\ seen[j].call # None
         /\ BucketOf(seen[j]) = <<family[seen[j].call], <<"call", seen[j].call>>>>
  <2> SUFFICES ASSUME NEW j \in DOMAIN seen, IsTool(seen[j])
               PROVE  /\ seen[j].call \in Calls /\ seen[j].call # None
                      /\ BucketOf(seen[j]) = <<family[seen[j].call], <<"call", seen[j].call>>>>
    OBVIOUS
  <2>1. seen[j].call \in Calls /\ ToolEvents[seen[j].type][1] = family[seen[j].call]
    BY <1>1 DEF Shaped
  <2>2. seen[j].call # None
    BY <2>1, TranscriptAssumption
  <2> QED BY <2>1, <2>2 DEF BucketOf, BucketId
<1>4. PICK d \in DOMAIN seen : /\ IsTool(seen[d]) /\ seen[d].call = seen[k].call
                               /\ PhaseOf(seen[d]) = "begin"
  BY <1>2 DEF BeginsSeen, Range, PhaseOf
<1>5. d \in Phase(seen, b, "begin")
  <2>1. BucketOf(seen[d]) = b
    BY <1>2, <1>3, <1>4
  <2> QED BY <1>4, <2>1 DEF Phase, Members, PhaseOf
<1>6. i \in Phase(seen, b, "begin") /\ UNION Range(Stages(seen, b)) = Members(seen, b)
  BY <1>1, <1>5, StagesHold
<1>7. i \in DOMAIN seen /\ i \in Members(seen, b)
      /\ IsTool(seen[i]) /\ PhaseOf(seen[i]) = "begin" /\ BucketOf(seen[i]) = b
  BY <1>6 DEF Phase, Members, PhaseOf
<1>8. x.ids = Ids(seen, Members(seen, b)) /\ x.key[1] = StampKey(seen[i].at) /\ x.kind = "tool"
  BY <1>2, <1>6 DEF ToolPart
<1> HIDE DEF i, b
<1>9. ASSUME NEW m \in x.ids PROVE seen[i].n <= m
  <2>1. PICK j \in Members(seen, b) : m = seen[j].n
    BY <1>8 DEF Ids
  <2>2. j \in DOMAIN seen /\ IsTool(seen[j]) /\ BucketOf(seen[j]) = b
    BY <2>1 DEF Members
  <2>3. seen[i].call = seen[j].call
    BY <1>3, <1>7, <2>2
  <2>4. \A e, f \in Sent : /\ IsTool(e) /\ PhaseOf(e) = "begin" /\ e.call = f.call
                           => e.n <= f.n
    BY DEF Inv, BeginsFirst, Sent, Range
  <2> QED BY <1>1, <1>7, <2>1, <2>2, <2>3, <2>4
<1>10. seen[i].n \in x.ids
  BY <1>7, <1>8 DEF Ids
<1>11. ~IsUser(seen[i])
  BY <1>7, TypesApart DEF IsUser, IsTool
<1> QED BY <1>7, <1>8, <1>9, <1>10, <1>11 DEF Leads

LEMMA LeadsStream ==
    ASSUME Inv, SeenInOrder, NEW x \in StreamItems(seen)
    PROVE  \E i : Leads(i, x)
<1>1. /\ Tidy(seen) /\ Len(seen) \in Nat /\ DOMAIN seen = 1 .. Len(seen)
      /\ \A i \in DOMAIN seen : seen[i] \in EventType
  BY TabFacts, ListFacts
<1>2. PICK k \in DOMAIN seen : IsDelta(seen[k]) /\ x = StreamPart(seen, StreamOf(seen[k]))
  BY DEF StreamItems, Streams, Projected
<1> DEFINE r == StreamOf(seen[k])
           i == Min(Chunks(seen, r))
<1>3. k \in Chunks(seen, r) /\ Chunks(seen, r) \subseteq 1 .. Len(seen)
  BY <1>1, <1>2 DEF Chunks
<1>4. i \in Chunks(seen, r) /\ \A j \in Chunks(seen, r) : i <= j
  BY <1>1, <1>3, PlaceBounds
<1>5. i \in DOMAIN seen /\ IsDelta(seen[i])
  BY <1>4 DEF Chunks
<1>6. /\ x.ids = Ids(seen, Chunks(seen, r)) /\ x.key[1] = StampKey(seen[i].at)
      /\ x.kind # "user"
  BY <1>2 DEF StreamPart
<1> HIDE DEF i, r
<1>7. ASSUME NEW m \in x.ids PROVE seen[i].n <= m
  <2>1. PICK j \in Chunks(seen, r) : m = seen[j].n
    BY <1>6 DEF Ids
  <2>2. i <= j /\ i \in 1 .. Len(seen) /\ j \in 1 .. Len(seen)
    BY <1>1, <1>3, <1>4, <1>5
  <2>3. seen[i].n \in Nat /\ seen[j].n \in Nat
    BY <1>1, <2>2 DEF EventType
  <2>4. i < j => seen[i].n < seen[j].n
    BY <1>1, <2>2 DEF SeenInOrder
  <2> QED BY <1>1, <2>1, <2>2, <2>3, <2>4
<1>8. seen[i].n \in x.ids
  BY <1>4, <1>6 DEF Ids
<1>9. ~IsUser(seen[i])
  BY <1>5, TypesApart DEF IsUser, IsDelta
<1> QED BY <1>5, <1>6, <1>7, <1>8, <1>9 DEF Leads

\* An item's ids are those of events of the list.
LEMMA ItemIds ==
    ASSUME NEW h, Tidy(h), NEW x \in AllItems(h), NEW m \in x.ids
    PROVE  \E i \in DOMAIN h : h[i].n = m
<1>1. CASE x \in UserItems(h) \cup PlainItems(h)
  <2>1. PICK i \in DOMAIN h : \/ x = AlonePart(h, i, "user")
                             \/ x = AlonePart(h, i, PlainKind(h[i]))
    BY <1>1 DEF UserItems, PlainItems, Projected
  <2>2. x.ids = {h[i].n}
    BY <2>1 DEF AlonePart
  <2> QED BY <2>2
<1>2. CASE x \in ToolItems(h)
  <2>1. PICK b : x = ToolPart(h, b)
    BY <1>2 DEF ToolItems
  <2>2. x.ids = Ids(h, Members(h, b))
    BY <2>1, StagesHold DEF ToolPart
  <2> QED BY <2>2 DEF Ids, Members
<1>3. CASE x \in StreamItems(h)
  <2>1. PICK r : x = StreamPart(h, r)
    BY <1>3 DEF StreamItems
  <2>2. x.ids = Ids(h, Chunks(h, r))
    BY <2>1 DEF StreamPart
  <2> QED BY <2>2 DEF Ids, Chunks
<1> QED BY <1>1, <1>2, <1>3 DEF AllItems

\* The event whose turn TurnsDoNotMix takes for an item's.
LEMMA LeadEvent ==
    ASSUME Inv, NEW i, NEW x \in AllItems(seen), Leads(i, x)
    PROVE  (CHOOSE e \in Sent : e.n = Min(x.ids)) = seen[i]
<1>1. /\ Tidy(seen) /\ \A j \in DOMAIN seen : seen[j] \in EventType /\ seen[j] \in Sent
      /\ \A d, e \in Sent : d.n = e.n => d = e
  BY TabFacts, ListFacts DEF Range
<1>2. \A m \in x.ids : m \in Nat
  BY <1>1, ItemIds DEF EventType
<1>3. Min(x.ids) = seen[i].n
  <2>1. seen[i].n \in x.ids /\ \A m \in x.ids : seen[i].n <= m
    BY DEF Leads
  <2>2. Min(x.ids) \in x.ids /\ \A m \in x.ids : Min(x.ids) <= m
    BY <2>1 DEF Min
  <2>3. seen[i].n <= Min(x.ids) /\ Min(x.ids) <= seen[i].n
    BY <2>1, <2>2
  <2> QED BY <1>2, <2>1, <2>2, <2>3
<1>4. seen[i] \in Sent
  BY <1>1 DEF Leads
<1> QED BY <1>1, <1>3, <1>4

\* Where stamps follow the numbers the items follow their leading events.
LEMMA LeadsFollow ==
    ASSUME Inv, SeenInOrder, NEW j \in DOMAIN screen, NEW k \in DOMAIN screen, j <= k,
           NEW a, Leads(a, screen[j]), NEW b, Leads(b, screen[k])
    PROVE  a <= b /\ seen[a].n <= seen[b].n /\ seen[a].turn <= seen[b].turn
<1>1. /\ Tidy(seen) /\ Len(seen) \in Nat /\ DOMAIN seen = 1 .. Len(seen)
      /\ \A i \in DOMAIN seen : seen[i] \in EventType /\ seen[i] \in Sent
  BY TabFacts, ListFacts DEF Range
<1>2. /\ \A i \in DOMAIN screen : screen[i] \in AllItems(seen)
      /\ \A i, l \in DOMAIN screen : i < l => LexLess(screen[i].key, screen[l].key)
      /\ \E n \in Nat : DOMAIN screen = 1 .. n
  BY <1>1, TabFacts, ItemsListed
<1>3. a \in 1 .. Len(seen) /\ b \in 1 .. Len(seen)
  BY <1>1 DEF Leads
<1>4. screen[j].key[1] <= screen[k].key[1] /\ screen[j].key[1] \in Int /\ screen[k].key[1] \in Int
  <2>1. screen[j].key \in Int \X Int \X Int \X Int /\ screen[k].key \in Int \X Int \X Int \X Int
    BY <1>1, <1>2, ItemKeys
  <2>2. CASE j = k
    BY <2>1, <2>2
  <2>3. ASSUME j < k
        PROVE  screen[j].key[1] <= screen[k].key[1]
    <3>1. LexLess(screen[j].key, screen[k].key)
      BY <1>2, <2>3
    <3> DEFINE c == screen[j].key
               d == screen[k].key
    <3>2. c \in Int \X Int \X Int \X Int /\ d \in Int \X Int \X Int \X Int
      BY <2>1
    <3> HIDE DEF c, d
    <3>3. LexLess(c, d) => c[1] <= d[1]
      BY <3>2, LexFour
    <3> QED BY <3>1, <3>3 DEF c, d
  <2>4. screen[j].key[1] \in Int /\ screen[k].key[1] \in Int
    BY <2>1
  <2> QED BY <1>2, <2>2, <2>3, <2>4
<1>5. ~ (b < a)
  <2> SUFFICES ASSUME b < a PROVE FALSE
    OBVIOUS
  <2>1. StampKey(seen[b].at) < StampKey(seen[a].at)
    BY <1>1, <1>3 DEF SeenInOrder
  <2> QED BY <1>4, <2>1 DEF Leads
<1>6. a <= b
  BY <1>3, <1>5
<1>7. seen[a].n \in Nat /\ seen[b].n \in Nat /\ seen[a].turn \in Nat /\ seen[b].turn \in Nat
  BY <1>1, <1>3 DEF EventType
<1>8. a < b => seen[a].n < seen[b].n
  BY <1>1, <1>3 DEF SeenInOrder
<1>9. \A d, e \in Sent : d.n < e.n => d.turn <= e.turn
  BY DEF Inv, TurnsInOrder, Sent, Range
<1>10. a < b => seen[a].turn <= seen[b].turn
  BY <1>1, <1>3, <1>8, <1>9
<1> QED BY <1>3, <1>6, <1>7, <1>8, <1>10

\* A prompt starts a message, so the items of a message have no prompt between.
LEMMA PromptSplits ==
    ASSUME Inv, NEW m \in Messages(seen, screen), NEW k \in m, NEW l \in m,
           NEW q \in DOMAIN screen, screen[q].kind = "user", k < q
    PROVE  l < q
<1> DEFINE starts == {s \in DOMAIN screen : StartsMessage(seen, screen, s)}
           upTo(s) == {t \in starts : t <= s}
<1>1. PICK n \in Nat : DOMAIN screen = 1 .. n
  BY TabFacts, ItemsListed
<1>2. PICK first \in starts : m = {s \in DOMAIN screen : Max(upTo(s)) = first}
  BY DEF Messages
<1>3. k \in 1 .. n /\ l \in 1 .. n /\ Max(upTo(k)) = first /\ Max(upTo(l)) = first
  BY <1>1, <1>2
<1>4. q \in starts /\ 1 \in starts
  BY <1>1, <1>3 DEF StartsMessage
<1>5. \A s \in 1 .. n : upTo(s) \subseteq 1 .. n /\ 1 \in upTo(s)
  BY <1>1, <1>4
<1>6. q \in 1 .. n
  BY <1>1
<1> HIDE DEF starts
<1>7. Max(upTo(k)) \in upTo(k)
  <2> HIDE DEF upTo
  <2> QED BY <1>3, <1>5, PlaceBounds
<1>8. \A t \in upTo(l) : t <= Max(upTo(l))
  <2> HIDE DEF upTo
  <2> QED BY <1>3, <1>5, PlaceBounds
<1>9. first <= k /\ first \in 1 .. n
  BY <1>1, <1>3, <1>5, <1>7
<1>10. q <= l => q <= first
  BY <1>3, <1>4, <1>8
<1> QED BY <1>3, <1>6, <1>9, <1>10

\* Under TurnsDoNotMix's hypothesis two items of a message are of one turn.
LEMMA OneTurn ==
    ASSUME Inv, SeenInOrder, PromptsSeen, BeginsSeen,
           NEW m \in Messages(seen, screen), NEW k \in m, NEW l \in m,
           NEW a, Leads(a, screen[k]), NEW b, Leads(b, screen[l])
    PROVE  ~ (seen[a].turn < seen[b].turn)
<1> SUFFICES ASSUME seen[a].turn < seen[b].turn PROVE FALSE
  OBVIOUS
<1>1. /\ Tidy(seen) /\ Len(seen) \in Nat /\ DOMAIN seen = 1 .. Len(seen)
      /\ \A i \in DOMAIN seen : seen[i] \in EventType /\ seen[i] \in Sent
  BY TabFacts, ListFacts DEF Range
<1>2. /\ \A i \in DOMAIN screen : screen[i] \in AllItems(seen)
      /\ \A x \in AllItems(seen) : \E i \in DOMAIN screen : screen[i] = x
      /\ \A i, j \in DOMAIN screen : screen[i] = screen[j] => i = j
      /\ \E n \in Nat : DOMAIN screen = 1 .. n
  BY TabFacts, ItemsListed
<1>3. k \in DOMAIN screen /\ l \in DOMAIN screen
  BY DEF Messages
<1>4. a \in DOMAIN seen /\ b \in DOMAIN seen
  BY DEF Leads
<1>5. PICK p \in DOMAIN seen : IsUser(seen[p]) /\ seen[p].turn = seen[b].turn
  BY <1>4 DEF PromptsSeen, Range, IsUser
<1>6. PICK q \in DOMAIN screen : screen[q] = AlonePart(seen, p, "user")
  <2>1. ~Wire(seen[p])
    BY <1>5, TypesApart DEF IsUser, Wire
  <2>2. AlonePart(seen, p, "user") \in AllItems(seen)
    BY <1>5, <2>1 DEF AllItems, UserItems, Projected, Wire
  <2> QED BY <1>2, <2>2
<1>7. Leads(p, screen[q]) /\ screen[q].kind = "user"
  <2>1. screen[q].ids = {seen[p].n} /\ screen[q].key[1] = StampKey(seen[p].at)
        /\ screen[q].kind = "user"
    BY <1>6 DEF AlonePart, Ids
  <2>2. seen[p].n \in Nat
    BY <1>1 DEF EventType
  <2> QED BY <1>5, <2>1, <2>2 DEF Leads
<1>8. seen[a].turn \in Nat /\ seen[b].turn \in Nat /\ seen[p].turn \in Nat
      /\ seen[b].n \in Nat /\ seen[p].n \in Nat
  BY <1>1, <1>4 DEF EventType
<1>9. k < q
  <2>1. q <= k => seen[p].turn <= seen[a].turn
    BY <1>3, <1>7, LeadsFollow
  <2> QED BY <1>2, <1>3, <1>5, <1>8, <2>1
<1>10. l < q
  BY <1>3, <1>7, <1>9, PromptSplits
<1>11. b <= p /\ seen[b].n <= seen[p].n
  <2>1. l <= q
    BY <1>2, <1>3, <1>10
  <2> QED BY <1>3, <1>7, <2>1, LeadsFollow
<1>12. seen[p].n <= seen[b].n
  <2>1. \A d, e \in Sent : IsUser(d) /\ d.turn = e.turn => d.n <= e.n
    BY DEF Inv, TurnsInOrder, Sent, Range
  <2> QED BY <1>1, <1>4, <1>5, <2>1
<1>13. b = p
  <2>1. seen[b].n = seen[p].n
    BY <1>8, <1>11, <1>12
  <2> QED BY <1>1, <1>4, <2>1 DEF Tidy
<1>14. screen[l] = screen[q]
  <2>1. seen[p].n \in screen[l].ids /\ seen[p].n \in screen[q].ids
    BY <1>7, <1>13 DEF Leads
  <2> QED BY <1>1, <1>2, <1>3, <2>1, EventHasOneItem
<1>15. l = q
  BY <1>2, <1>3, <1>14
<1> QED BY <1>2, <1>3, <1>10, <1>15

\* Whatever the constants, turns do not mix.
THEOREM NoMixing == Spec => []TurnsDoNotMix
<1>1. Inv => TurnsDoNotMix
  <2> DEFINE TurnOf(k) == (CHOOSE e \in Sent : e.n = Min(screen[k].ids)).turn
  <2> SUFFICES ASSUME Inv, SeenInOrder, PromptsSeen, BeginsSeen,
                      NEW m \in Messages(seen, screen), NEW k \in m, NEW l \in m
               PROVE  TurnOf(k) = TurnOf(l)
    BY DEF TurnsDoNotMix, SeenInOrder, PromptsSeen, BeginsSeen
  <2>1. /\ Tidy(seen) /\ \A i \in DOMAIN seen : seen[i] \in EventType
        /\ \A i \in DOMAIN screen : screen[i] \in AllItems(seen)
    BY TabFacts, ListFacts, ItemsListed
  <2>2. k \in DOMAIN screen /\ l \in DOMAIN screen
    BY DEF Messages
  <2>3. \A x \in AllItems(seen) : \E i : Leads(i, x)
    BY LeadsAlone, LeadsTool, LeadsStream DEF AllItems
  <2>4. PICK a : Leads(a, screen[k])
    BY <2>1, <2>2, <2>3
  <2>5. PICK b : Leads(b, screen[l])
    BY <2>1, <2>2, <2>3
  <2>6. TurnOf(k) = seen[a].turn /\ TurnOf(l) = seen[b].turn
    BY <2>1, <2>2, <2>4, <2>5, LeadEvent
  <2>7. ~ (seen[a].turn < seen[b].turn) /\ ~ (seen[b].turn < seen[a].turn)
    BY <2>4, <2>5, OneTurn
  <2>8. seen[a].turn \in Nat /\ seen[b].turn \in Nat
    BY <2>1, <2>4, <2>5 DEF Leads, EventType
  <2> HIDE DEF TurnOf
  <2> QED BY <2>6, <2>7, <2>8
<1> QED BY <1>1, Invariant, PTL

-----------------------------------------------------------------------------
(* The transcript keeps ThreadStory's promise.                             *)

\* What some events say of an utterance and of a call, in any order.
Told(S, u) ==
    IF \E e \in S : e.of = u /\ IsFinal(e) THEN "final"
    ELSE IF \E e \in S : e.of = u /\ IsDelta(e) THEN "partial" ELSE "absent"

Outcome(f, m) == IF Failed(f, BeginMsg(f), m) THEN "error" ELSE "complete"

OfCall(S, c)  == {e \in S : e.call = c}
EndsCall(e)   == PhaseOf(e) = "end"

\* s is what the events in S say of call c.
Recounts(S, c, s) ==
    /\ OfCall(S, c) = {} => s = "absent"
    /\ OfCall(S, c) # {} /\ (\A e \in OfCall(S, c) : ~EndsCall(e)) => s = "running"
    /\ \A e \in OfCall(S, c) : EndsCall(e) => s = Outcome(family[c], e.msg)

\* The transcript says what the events say that the tab has: all of it of an
\* utterance with a bucket to itself, and of any other the final wording.
Says(S, u, s) ==
    /\ s \in {"absent", "partial", "final"}
    /\ s = "final" <=> Told(S, u) = "final"
    /\ Sharers(u) = {u} => s = Told(S, u)

StoryTold ==
    /\ UtteranceShown = [u \in Utterances |-> UtteranceShown[u]]
    /\ \A u \in Utterances : Says(Range(seen), u, UtteranceShown[u])
    /\ CallShown = [c \in Calls |-> CallShown[c]]
    /\ \A c \in Calls : Recounts(Range(seen), c, CallShown[c])

\* The events some item shows.
LEMMA ShownEvents ==
    ASSUME Inv, NEW e \in Sent
    PROVE  (\E k \in DOMAIN screen : e.n \in screen[k].ids)
               <=> e \in Range(seen) /\ ~Hidden(seen, e)
<1>1. /\ Tidy(seen) /\ screen = Items(seen)
      /\ \A i \in DOMAIN seen : seen[i] \in Sent
      /\ \A d \in Sent : d.n = e.n => d = e
  BY TabFacts DEF Range
<1>2. /\ \A k \in DOMAIN screen : screen[k] \in AllItems(seen)
      /\ \A x \in AllItems(seen) : \E k \in DOMAIN screen : screen[k] = x
  BY <1>1, ItemsListed
<1>3. ASSUME NEW k \in DOMAIN screen, e.n \in screen[k].ids
      PROVE  e \in Range(seen) /\ ~Hidden(seen, e)
  <2>1. PICK i \in DOMAIN seen : seen[i].n = e.n
    BY <1>1, <1>2, <1>3, ItemIds
  <2>2. seen[i] = e
    BY <1>1, <2>1
  <2>3. ~Hidden(seen, seen[i])
    BY <1>1, <1>2, <1>3, <2>1, EventHasOneItem
  <2> QED BY <2>2, <2>3 DEF Range
<1>4. ASSUME e \in Range(seen), ~Hidden(seen, e)
      PROVE  \E k \in DOMAIN screen : e.n \in screen[k].ids
  <2>1. PICK i \in DOMAIN seen : seen[i] = e
    BY <1>4 DEF Range
  <2>2. PICK x \in AllItems(seen) : seen[i].n \in x.ids
    BY <1>1, <1>4, <2>1, EventHasItem
  <2> QED BY <1>2, <2>1, <2>2
<1> QED BY <1>3, <1>4

\* A final wording is never left out.
LEMMA FinalsShown ==
    ASSUME Inv, NEW u \in Utterances
    PROVE  (\E e \in Events(u) :
                IsFinal(e) /\ e.n \in UNION {item.ids : item \in Range(screen)})
               <=> \E e \in Range(seen) : e.of = u /\ IsFinal(e)
<1> DEFINE shown == UNION {item.ids : item \in Range(screen)}
<1>1. ASSUME NEW e \in Sent
      PROVE  e.n \in shown <=> e \in Range(seen) /\ ~Hidden(seen, e)
  <2>1. e.n \in shown <=> \E k \in DOMAIN screen : e.n \in screen[k].ids
    BY DEF Range
  <2> QED BY <2>1, ShownEvents
<1>2. Range(seen) \subseteq Sent
  BY TabFacts
<1> HIDE DEF shown
<1>3. \A e \in Range(seen) : IsFinal(e) => ~Hidden(seen, e)
  BY TypesApart DEF IsDelta, IsFinal, Wire, Hidden
<1>4. (\E e \in Events(u) : IsFinal(e) /\ e.n \in shown)
          <=> \E e \in Range(seen) : e.of = u /\ IsFinal(e)
  BY <1>1, <1>2, <1>3 DEF Events
<1> QED BY <1>4 DEF shown

LEMMA UtterancesTold ==
    ASSUME Inv, NEW u \in Utterances
    PROVE  Says(Range(seen), u, UtteranceShown[u])
<1> DEFINE shown == UNION {item.ids : item \in Range(screen)}
           final == \E e \in Range(seen) : e.of = u /\ IsFinal(e)
           delta == \E e \in Range(seen) : e.of = u /\ IsDelta(e)
<1>1. UtteranceShown[u] =
          IF \E e \in Events(u) : IsFinal(e) /\ e.n \in shown THEN "final"
          ELSE IF \E e \in Events(u) : IsDelta(e) /\ e.n \in shown THEN "partial"
          ELSE "absent"
  BY DEF UtteranceShown
<1>2. (\E e \in Events(u) : IsFinal(e) /\ e.n \in shown) <=> final
  BY FinalsShown
<1>3. ASSUME Sharers(u) = {u}, ~final
      PROVE  (\E e \in Events(u) : IsDelta(e) /\ e.n \in shown) <=> delta
  <2>1. \A e \in Sent : e.n \in shown <=> e \in Range(seen) /\ ~Hidden(seen, e)
    <3> SUFFICES ASSUME NEW e \in Sent
                 PROVE  e.n \in shown <=> e \in Range(seen) /\ ~Hidden(seen, e)
      OBVIOUS
    <3>1. e.n \in shown <=> \E k \in DOMAIN screen : e.n \in screen[k].ids
      BY DEF Range
    <3> QED BY <3>1, ShownEvents
  <2>2. Range(seen) \subseteq Sent
    BY TabFacts
  <2>3. \A e : IsDelta(e) => ~Wire(e)
    BY TypesApart DEF IsDelta, Wire
  <2> HIDE DEF shown
  <2>4. ASSUME NEW e \in Range(seen), e.of = u, IsDelta(e) PROVE ~Hidden(seen, e)
    <3>1. ~Superseded(e)
      BY <1>3, <2>4 DEF Superseded, Range
    <3> QED BY <2>3, <2>4, <3>1, HiddenAsSuperseded
  <2> QED BY <2>1, <2>2, <2>4 DEF Events
<1>4. Told(Range(seen), u) = IF final THEN "final" ELSE IF delta THEN "partial" ELSE "absent"
  BY DEF Told
<1> HIDE DEF shown, final, delta
<1> QED BY <1>1, <1>2, <1>3, <1>4 DEF Says

\* An end means the same with its begin there or not.
LEMMA FailedAlike ==
    ASSUME NEW f \in ToolFamilies, NEW m \in EndMsg(f), NEW begin,
           begin = [keys |-> {}] \/ begin = BeginMsg(f)
    PROVE  Failed(f, begin, m) = Failed(f, BeginMsg(f), m)
<1>1. CASE f \in {"exec_command", "mcp_tool_call", "web_search",
                  "image_generation", "patch_apply", "dynamic_tool_call"}
  BY <1>1 DEF Failed
<1>2. CASE f \notin {"exec_command", "mcp_tool_call", "web_search",
                     "image_generation", "patch_apply", "dynamic_tool_call"}
  <2>1. /\ Failed(f, begin, m) = CollabFailed(begin, m)
        /\ Failed(f, BeginMsg(f), m) = CollabFailed(BeginMsg(f), m)
    BY <1>2 DEF Failed
  <2>2. "receiver_thread_id" \in begin.keys => "receiver_thread_id" \in BeginMsg(f).keys
    OBVIOUS
  <2>3. "receiver_thread_id" \in BeginMsg(f).keys => "receiver_thread_id" \in m.keys
    BY EndNamesReceiver
  <2>4. "receiver_thread_id" \in begin.keys \cup m.keys
            <=> "receiver_thread_id" \in BeginMsg(f).keys \cup m.keys
    BY <2>2, <2>3
  <2>5. CollabStatus(begin, m) = CollabStatus(BeginMsg(f), m)
    BY <2>4 DEF CollabStatus
  <2> QED BY <2>1, <2>5 DEF CollabFailed
<1> QED BY <1>1, <1>2

\* The bucket of a call, and what its events in a tidy list make of it.
LEMMA CallBucket ==
    ASSUME Inv, NEW c \in Calls, NEW b, b = <<family[c], <<"call", c>>>>
    PROVE  /\ \A e \in Sent : e.call = c => /\ IsTool(e) /\ BucketOf(e) = b
                                            /\ ~Hidden(seen, e)
           /\ \A i \in DOMAIN seen : i \in Members(seen, b) <=> seen[i].call = c
<1>1. /\ \A e \in Sent : e \in EventType /\ Shaped(e)
      /\ \A i \in DOMAIN seen : seen[i] \in Sent
  BY TabFacts DEF Range
<1>2. c # None
  BY TranscriptAssumption
<1>3. ASSUME NEW e \in Sent, IsTool(e)
      PROVE  /\ e.call # None
             /\ BucketOf(e) = <<family[e.call], <<"call", e.call>>>>
  <2>1. e.call \in Calls /\ ToolEvents[e.type][1] = family[e.call]
    BY <1>1, <1>3 DEF Shaped
  <2>2. e.call # None
    BY <2>1, TranscriptAssumption
  <2> QED BY <2>1, <2>2 DEF BucketOf, BucketId
<1>4. ASSUME NEW e \in Sent, e.call = c
      PROVE  IsTool(e) /\ BucketOf(e) = b /\ ~Hidden(seen, e)
  <2>1. IsTool(e)
    BY <1>1, <1>2, <1>4 DEF Shaped
  <2>2. ~Wire(e) /\ ~IsDelta(e)
    BY <2>1, TypesApart DEF IsTool, IsDelta, Wire
  <2> QED BY <1>3, <1>4, <2>1, <2>2 DEF Hidden
<1>5. ASSUME NEW i \in DOMAIN seen
      PROVE  i \in Members(seen, b) <=> seen[i].call = c
  <2>1. ASSUME i \in Members(seen, b) PROVE seen[i].call = c
    <3>1. IsTool(seen[i]) /\ BucketOf(seen[i]) = b
      BY <2>1 DEF Members
    <3>2. <<family[seen[i].call], <<"call", seen[i].call>>>> = <<family[c], <<"call", c>>>>
      BY <1>1, <1>3, <3>1
    <3> QED BY <3>2
  <2> QED BY <1>1, <1>4, <2>1 DEF Members
<1> QED BY <1>4, <1>5

LEMMA StatusTold ==
    ASSUME Inv, NEW c \in Calls, NEW b, b = <<family[c], <<"call", c>>>>,
           OfCall(Range(seen), c) # {}
    PROVE  Recounts(Range(seen), c, ToolStatus(seen, b))
<1>1. /\ Tidy(seen)
      /\ \A i \in DOMAIN seen : seen[i] \in Sent /\ Shaped(seen[i])
  BY TabFacts DEF Range
<1>2. \A i \in DOMAIN seen : /\ i \in Members(seen, b) <=> seen[i].call = c
                             /\ seen[i].call = c => IsTool(seen[i])
  BY <1>1, CallBucket
<1> DEFINE begins == Phase(seen, b, "begin")
           ends   == Phase(seen, b, "end")
           begin  == IF begins = {} THEN [keys |-> {}] ELSE seen[Max(begins)].msg
<1>3. Stages(seen, b)[1] = begins /\ Stages(seen, b)[4] = ends
  BY <1>1, LastStands DEF Stages
<1>4. b[1] = family[c]
  OBVIOUS
<1>5. ToolStatus(seen, b) =
          IF ends = {} THEN "running"
          ELSE IF Failed(family[c], begin, seen[Max(ends)].msg) THEN "error" ELSE "complete"
  BY <1>3, <1>4 DEF ToolStatus
<1>6. family[c] \in ToolFamilies
  BY DEF Inv
<1>7. \A i \in DOMAIN seen : i \in ends <=> seen[i].call = c /\ EndsCall(seen[i])
  BY <1>2 DEF Phase, PhaseOf, EndsCall
<1>8. begin = [keys |-> {}] \/ begin = BeginMsg(family[c])
  <2>1. ASSUME NEW i \in begins PROVE begin = BeginMsg(family[c])
    <3>1. i \in DOMAIN seen /\ i \in Members(seen, b) /\ PhaseOf(seen[i]) = "begin"
      BY <2>1 DEF Phase, Members, PhaseOf
    <3>2. seen[i].msg = BeginMsg(family[c])
      BY <1>1, <1>2, <3>1 DEF Shaped
    <3>3. Max(begins) = i
      BY <1>1, <2>1, LastStands
    <3> QED BY <2>1, <3>2, <3>3
  <2> QED BY <2>1
<1> HIDE DEF begin
<1>9. ASSUME NEW e \in OfCall(Range(seen), c), EndsCall(e)
      PROVE  ToolStatus(seen, b) = Outcome(family[c], e.msg)
  <2>1. PICK i \in DOMAIN seen : seen[i] = e /\ e.call = c
    BY <1>9 DEF OfCall, Range
  <2>2. i \in ends
    BY <1>7, <1>9, <2>1
  <2>3. Max(ends) = i
    BY <1>1, <2>2, LastStands
  <2>4. e.msg \in EndMsg(family[c])
    BY <1>1, <1>2, <1>9, <2>1 DEF Shaped, EndsCall
  <2>5. Failed(family[c], begin, e.msg) = Failed(family[c], BeginMsg(family[c]), e.msg)
    BY <1>6, <1>8, <2>4, FailedAlike
  <2>6. ToolStatus(seen, b) =
            IF Failed(family[c], begin, e.msg) THEN "error" ELSE "complete"
    BY <1>5, <2>1, <2>2, <2>3
  <2> QED BY <2>5, <2>6 DEF Outcome
<1>10. ASSUME \A e \in OfCall(Range(seen), c) : ~EndsCall(e)
       PROVE  ToolStatus(seen, b) = "running"
  <2>1. ends = {}
    BY <1>7, <1>10 DEF OfCall, Range, Phase, Members
  <2> QED BY <1>5, <2>1
<1> QED BY <1>9, <1>10 DEF Recounts

LEMMA CallsTold ==
    ASSUME Inv, NEW c \in Calls
    PROVE  Recounts(Range(seen), c, CallShown[c])
<1> DEFINE b  == <<family[c], <<"call", c>>>>
           of == {item \in Range(screen) :
                     \E e \in Sent : e.call = c /\ e.n \in item.ids}
<1>1. CallShown[c] = IF of = {} THEN "absent" ELSE (CHOOSE item \in of : TRUE).status
  BY DEF CallShown
<1>2. /\ Tidy(seen) /\ Range(seen) \subseteq Sent
      /\ \A k \in DOMAIN screen : screen[k] \in AllItems(seen)
  BY TabFacts, ItemsListed
<1>3. \A e \in Sent : e.call = c => IsTool(e) /\ BucketOf(e) = b /\ ~Hidden(seen, e)
  BY CallBucket
<1>4. ASSUME NEW item \in of PROVE item.status = ToolStatus(seen, b)
  <2>1. PICK k \in DOMAIN screen : item = screen[k]
    BY DEF Range
  <2>2. PICK e \in Sent : e.call = c /\ e.n \in screen[k].ids
    BY <2>1
  <2>3. e \in Range(seen)
    BY <2>2, ShownEvents
  <2>4. PICK i \in DOMAIN seen : seen[i] = e
    BY <2>3 DEF Range
  <2>5. IsTool(e) /\ BucketOf(e) = b
    BY <1>3, <2>2
  <2>6. ~IsUser(e) /\ ~IsDelta(e)
    BY <2>5, TypesApart DEF IsUser, IsTool, IsDelta
  <2> HIDE DEF b
  <2>7. screen[k] = ToolPart(seen, b)
    BY <1>2, <2>2, <2>4, <2>5, <2>6, ItemOfEvent
  <2> QED BY <2>1, <2>7 DEF ToolPart
<1>5. of = {} <=> OfCall(Range(seen), c) = {}
  <2>1. \A e \in Sent : e.call = c =>
            ((\E k \in DOMAIN screen : e.n \in screen[k].ids) <=> e \in Range(seen))
    BY <1>3, ShownEvents
  <2>2. of # {} <=> \E e \in Sent : e.call = c /\ \E k \in DOMAIN screen : e.n \in screen[k].ids
    BY DEF Range
  <2> HIDE DEF of
  <2>3. of # {} <=> \E e \in Range(seen) : e.call = c
    BY <1>2, <2>1, <2>2
  <2> QED BY <2>3 DEF OfCall
<1> HIDE DEF of
<1>6. of # {} => CallShown[c] = ToolStatus(seen, b)
  BY <1>1, <1>4
<1>7. of = {} => CallShown[c] = "absent"
  BY <1>1
<1>8. CASE of = {}
  BY <1>5, <1>7, <1>8 DEF Recounts
<1>9. CASE of # {}
  BY <1>5, <1>6, <1>9, StatusTold
<1> QED BY <1>8, <1>9

LEMMA StoryHolds == Inv => StoryTold
<1>1. CallShown = [c \in Calls |-> CallShown[c]]
  BY DEF CallShown
<1>2. UtteranceShown = [u \in Utterances |-> UtteranceShown[u]]
  BY DEF UtteranceShown
<1> QED BY <1>1, <1>2, UtterancesTold, CallsTold DEF StoryTold

\* Events are not taken back, and a call stays what it is.
LEMMA SeenGrows ==
    Inv /\ [Next]_vars => Range(seen) \subseteq Range(seen') /\ family' = family
<1> SUFFICES ASSUME Inv, [Next]_vars
             PROVE  Range(seen) \subseteq Range(seen') /\ family' = family
  OBVIOUS
<1>1. ASSUME NEW e \in Sent, Arrive(e)
      PROVE  Range(seen) \subseteq Range(seen') /\ family' = family
  BY <1>1, ArriveStep
<1>2. \A type, turn, of, call, msg :
          Send(type, turn, of, call, msg) => seen' = seen /\ family' = family
  BY DEF Send
<1>3. UserMessage \/ OtherEvent \/ (\E ch \in Channels : Speaks(ch))
          => seen' = seen /\ family' = family
  BY <1>2 DEF UserMessage, OtherEvent, Speaks
<1>4. (\E c \in Calls : ToolBegins(c) \/ ToolProgresses(c) \/ ToolEnds(c))
          => seen' = seen /\ family' = family
  BY <1>2 DEF ToolBegins, ToolProgresses, ToolEnds
<1>5. UNCHANGED vars => seen' = seen /\ family' = family
  BY DEF vars
<1> QED BY <1>1, <1>3, <1>4, <1>5 DEF Next

\* What more events say of a call only moves it on.
LEMMA CallMoves ==
    ASSUME NEW c \in Calls, NEW S, NEW T, S \subseteq T,
           NEW s, NEW t, Recounts(S, c, s), Recounts(T, c, t)
    PROVE  /\ t \in {"absent", "running", "complete", "error"}
           /\ t \in Story!After(s)
<1>1. OfCall(S, c) \subseteq OfCall(T, c)
  BY DEF OfCall
<1>2. /\ OfCall(S, c) = {} => s = "absent"
      /\ OfCall(S, c) # {} /\ (\A e \in OfCall(S, c) : ~EndsCall(e)) => s = "running"
      /\ \A e \in OfCall(S, c) : EndsCall(e) => s = Outcome(family[c], e.msg)
  BY DEF Recounts
<1>3. /\ OfCall(T, c) = {} => t = "absent"
      /\ OfCall(T, c) # {} /\ (\A e \in OfCall(T, c) : ~EndsCall(e)) => t = "running"
      /\ \A e \in OfCall(T, c) : EndsCall(e) => t = Outcome(family[c], e.msg)
  BY DEF Recounts
<1>4. \A f, m : Outcome(f, m) \in {"error", "complete"}
  BY DEF Outcome
<1>5. t \in {"absent", "running", "complete", "error"}
  BY <1>3, <1>4
<1>6. ASSUME OfCall(S, c) = {} PROVE t \in Story!After(s)
  BY <1>2, <1>5, <1>6 DEF Story!After
<1>7. ASSUME OfCall(S, c) # {}, \A e \in OfCall(S, c) : ~EndsCall(e)
      PROVE  t \in Story!After(s)
  <2>1. s = "running"
    BY <1>2, <1>7
  <2>2. t \in {"running", "complete", "error"}
    BY <1>1, <1>3, <1>4, <1>7
  <2> QED BY <2>1, <2>2 DEF Story!After
<1>8. ASSUME \E e \in OfCall(S, c) : EndsCall(e) PROVE t \in Story!After(s)
  <2>1. PICK e \in OfCall(S, c) : EndsCall(e)
    BY <1>8
  <2>2. s = Outcome(family[c], e.msg) /\ t = Outcome(family[c], e.msg)
    BY <1>1, <1>2, <1>3, <2>1
  <2>3. t = s /\ s \in {"error", "complete"}
    BY <1>4, <2>2
  <2> QED BY <2>3 DEF Story!After
<1> QED BY <1>5, <1>6, <1>7, <1>8

\* What more events say of an utterance: text may be taken away only where the
\* bucket is shared, a final wording never.
LEMMA WordsMove ==
    ASSUME NEW u \in Utterances, NEW S, NEW T, S \subseteq T,
           NEW s, NEW t, Says(S, u, s), Says(T, u, t)
    PROVE  /\ t \in {"absent", "partial", "final"}
           /\ Story!MayBecome(u, s, t)
<1>1. s \in {"absent", "partial", "final"} /\ t \in {"absent", "partial", "final"}
  BY DEF Says
<1>2. CASE s = "absent"
  BY <1>1, <1>2 DEF Story!MayBecome, Story!After
<1>3. CASE s = "final"
  <2>1. t = "final"
    BY <1>3 DEF Says, Told
  <2> QED BY <1>3, <2>1 DEF Story!MayBecome, Story!After
<1>4. CASE s = "partial"
  <2>1. Sharers(u) = {u} => t # "absent"
    BY <1>4 DEF Says, Told
  <2> QED BY <1>1, <1>4, <2>1 DEF Story!MayBecome, Story!After
<1> QED BY <1>1, <1>2, <1>3, <1>4

LEMMA StoryStep ==
    StoryTold /\ StoryTold' /\ Range(seen) \subseteq Range(seen') /\ family' = family
        => Story!Next
<1> SUFFICES ASSUME StoryTold, StoryTold', Range(seen) \subseteq Range(seen'),
                    family' = family
             PROVE  Story!Next
  OBVIOUS
<1> DEFINE S == Range(seen)
           T == Range(seen')
<1>1. ASSUME NEW u \in Utterances
      PROVE  /\ UtteranceShown'[u] \in {"absent", "partial", "final"}
             /\ Story!MayBecome(u, UtteranceShown[u], UtteranceShown'[u])
  <2>1. Says(S, u, UtteranceShown[u]) /\ Says(T, u, UtteranceShown'[u])
    BY DEF StoryTold, Says, Told
  <2>2. S \subseteq T
    OBVIOUS
  <2> HIDE DEF S, T
  <2> QED BY <2>1, <2>2, WordsMove
<1>2. ASSUME NEW c \in Calls
      PROVE  /\ CallShown'[c] \in {"absent", "running", "complete", "error"}
             /\ CallShown'[c] \in Story!After(CallShown[c])
  <2>1. Recounts(S, c, CallShown[c]) /\ Recounts(T, c, CallShown'[c])
    BY DEF StoryTold, Recounts
  <2> QED BY <2>1, CallMoves
<1>3. /\ UtteranceShown' \in [Utterances -> {"absent", "partial", "final"}]
      /\ CallShown' \in [Calls -> {"absent", "running", "complete", "error"}]
  <2>1. UtteranceShown' = [u \in Utterances |-> UtteranceShown'[u]]
    BY DEF StoryTold
  <2>2. CallShown' = [c \in Calls |-> CallShown'[c]]
    BY DEF StoryTold
  <2> QED BY <1>1, <1>2, <2>1, <2>2
<1> QED BY <1>1, <1>2, <1>3 DEF Story!Next

LEMMA StoryBegins == Init => Story!Init
<1> SUFFICES ASSUME Init PROVE Story!Init
  OBVIOUS
<1>1. Sent = {}
  BY DEF Init, Sent, Range
<1>2. UtteranceShown = [u \in Utterances |-> "absent"]
  BY <1>1 DEF UtteranceShown, Events
<1>3. CallShown = [c \in Calls |-> "absent"]
  BY <1>1 DEF CallShown
<1> QED BY <1>2, <1>3 DEF Story!Init

\* For any thread, and whatever the order its events come in, the transcript
\* implements ThreadStory: what it says only becomes more definite.
THEOREM KeepsStory == Spec => KeepsTheStory
<1>1. Inv => StoryTold
  BY StoryHolds
<1>2. /\ Inv /\ StoryTold /\ StoryTold' /\ [Next]_vars
      => [Story!Next]_<<UtteranceShown, CallShown>>
  BY SeenGrows, StoryStep
<1> QED BY <1>1, <1>2, StoryBegins, Invariant, PTL DEF Spec, KeepsTheStory, Story!Spec
=============================================================================
